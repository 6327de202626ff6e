----------------------------- MODULE DailyProofs -----------------------------
(***************************************************************************)
(* Theorems about the two sides of service/daily: the calls of Backfill    *)
(* (BackfillPipeline) and the commands on the table of daily bars          *)
(* (DailyBarStore). The two share no state.                                *)
(*                                                                         *)
(* BackfillPipeline: for any number of pages, workers and calls. The       *)
(* invariant that carries the theorems says where every page is (Custody,  *)
(* NoLoss), what a cancelled pipelineCtx is evidence of (Causes) and what  *)
(* each goroutine may be doing while collectRange is at a given place      *)
(* (Lifecycle).                                                            *)
(*                                                                         *)
(* DailyBarStore: for any number of commands, dates and editions. What     *)
(* carries them: a date that has a bar keeps one; the command that is      *)
(* about to record a migration has seen its work done (Recording); and an  *)
(* Ensure knows of every date it owes an answer for that it is stored, or  *)
(* still to be fetched and there to be fetched (Fetching).                 *)
(***************************************************************************)
EXTENDS BackfillPipeline, DailyBarStore, FiniteSetTheorems, WellFoundedInduction, TLAPS

Holding(w) == worker[w] \in {"fetching", "sending"}

\* Nothing has gone wrong in this call so far.
Clean == ~parentDone /\ fetchErr = "none" /\ summaryErr = "none"

Lifecycle ==
  /\ (result = "none") <=> (main # "returned")
  /\ main \in {"call", "batch", "batchDone"} => writer = "off"
  /\ main = "call" => total = 0
  /\ main \in {"batch", "batchDone"} => total = 1
  /\ main \in {"send", "wait", "drain", "drainFirst"} => total >= 1 /\ writer # "off"
  /\ main \in {"call", "batch", "send"} => \A p \in Pages : tally[p] = 0
  /\ main \in {"call", "batch", "batchDone", "send", "drainFirst"} =>
       /\ \A w \in Workers : worker[w] = "off"
       /\ disp = "off"
       /\ next = 2
       /\ ~pipeDone
       /\ fetchErr = "none"
       /\ summaryErr = "none"
  /\ main = "batchDone" => ledger[1] = "stored" /\ tally[1] = 1
  /\ main = "send" => writer = "receive"
  /\ main = "drainFirst" => parentDone /\ writer \in {"receive", "done"}
  /\ main \in {"wait", "drain"} =>
       /\ disp # "off"
       /\ next <= total + 1
       /\ \A w \in Workers : worker[w] = "off" <=> ~Started(w)
  /\ \A w \in Workers : ~Gone(w) => main = "wait"
  /\ main \in {"drain", "drainFirst"} => chunksClosed
  /\ chunksClosed => main \in {"drain", "drainFirst", "returned"}
  /\ main = "returned" => writer \in {"off", "done"}

\* Why a context is done, and why an error is what it is.
Causes ==
  /\ pipeDone => fetchErr # "none" \/ summaryErr # "none" \/ main = "returned"
  /\ \A w \in Workers : worker[w] = "cancelling" => fetchErr # "none"
  /\ fetchErr = "canceled" => parentDone \/ summaryErr # "none"
  /\ summaryErr = "canceled" => parentDone
  /\ summaryErr # "none" => writer \in {"failed", "done"}
  /\ writer = "failed" => summaryErr # "none"
  /\ (writer = "done" /\ summaryErr = "none") => chunksClosed

\* A page is in one pair of hands at most, and not yet counted while it is.
Custody ==
  /\ \A w \in Workers : Holding(w) =>
       /\ page[w] \in 2..(next - 1)
       /\ page[w] <= total
       /\ tally[page[w]] = 0
  /\ \A v, w \in Workers : (Holding(v) /\ Holding(w) /\ page[v] = page[w]) => v = w
  /\ writer = "upserting" =>
       /\ wpage < next
       /\ wpage <= total
       /\ tally[wpage] = 0
       /\ \A w \in Workers : Holding(w) => page[w] # wpage
  /\ (main \in {"wait", "drain"}) => \A p \in Pages : p >= next => tally[p] = 0

\* While nothing has gone wrong, every page handed out is counted or in
\* someone's hands, and jobs is closed only after the last page.
NoLoss ==
  (main \in {"wait", "drain"} /\ Clean) =>
    /\ \A p \in 1..(next - 1) :
         \/ tally[p] = 1
         \/ writer = "upserting" /\ wpage = p
         \/ \E w \in Workers : Holding(w) /\ page[w] = p
    /\ disp = "closed" => next = total + 1
    /\ \A w \in Workers : worker[w] = "exited" => disp = "closed"
    /\ main = "drain" => next = total + 1

IInv ==
  /\ TypeOK
  /\ Lifecycle
  /\ Causes
  /\ Custody
  /\ NoLoss
  /\ SummaryIsDurable
  /\ RootCause
  /\ CompleteOnSuccess

-----------------------------------------------------------------------------
\* backfillPageCount never asks for more pages than there are rows, and for
\* none only when page 1 is empty.
LEMMA PageCountBound ==
  ASSUME NEW t \in 0..MaxRows, NEW s \in 0..MaxRows, NEW b \in 0..1
  PROVE  BackfillPageCount(t, s, b) \in 0..MaxRows
<1>. USE BackfillAssumption
<1>1. CASE t <= 0 \/ s <= 0
  BY <1>1 DEF BackfillPageCount
<1>2. CASE t > 0 /\ s > 0
  <2>. DEFINE q == (t + s - 1) \div s
  <2>1. q \in Int /\ s * q <= t + s - 1 /\ t + s - 1 < s * q + s
    BY <1>2
  <2>2. q >= 0
    BY <1>2
  <2>3. q <= t
    <3>1. SUFFICES ASSUME q >= t + 1 PROVE FALSE
      BY <2>1
    <3>2. s * q >= s * (t + 1)
      BY <1>2, <2>1, <3>1
    <3>3. s * (t + 1) >= t + s
      BY <1>2
    <3>. QED BY <2>1, <3>2, <3>3
  <2>. QED BY <1>2, <2>1, <2>2, <2>3 DEF BackfillPageCount
<1>. QED BY <1>1, <1>2

\* The types hold when a backfill starts,
LEMMA InitTypeOK == Init => TypeOK
<1>. USE BackfillAssumption DEF Pages, Workers
<1>. SUFFICES ASSUME Init PROVE TypeOK
  OBVIOUS
<1>1. PlacesOK
  BY DEF Init, PlacesOK
<1>2. CountersOK
  BY DEF Init, CountersOK
<1>3. FlagsOK
  BY DEF Init, FlagsOK
<1>4. OutcomesOK
  BY DEF Init, OutcomesOK
<1>5. tally \in [Pages -> Nat]
  BY DEF Init
<1>6. ledger \in [Pages -> {"absent", "partial", "stored"}]
  BY DEF Init
<1>. QED BY <1>1, <1>2, <1>3, <1>4, <1>5, <1>6 DEF TypeOK, StoreOK

\* and after each of its steps.
LEMMA NextTypeOK == TypeOK /\ [Next]_vars => TypeOK'
<1>. USE BackfillAssumption DEF Pages, Workers, mainVars, dispVars, workerVars, writerVars,
         requestVars
<1>. SUFFICES ASSUME TypeOK, [Next]_vars PROVE TypeOK'
  OBVIOUS
<1>1. ASSUME MainStep PROVE TypeOK'
  <2>1. CASE FetchBatch
    BY <2>1 DEF TypeOK, PlacesOK, CountersOK, FlagsOK, OutcomesOK, StoreOK, FetchBatch
  <2>2. CASE StoreBatchOk
    BY <2>2 DEF TypeOK, PlacesOK, CountersOK, FlagsOK, OutcomesOK, StoreOK, StoreBatchOk
  <2>3. CASE ReturnBatch
    BY <2>3 DEF TypeOK, PlacesOK, CountersOK, FlagsOK, OutcomesOK, StoreOK, ReturnBatch, Return
  <2>4. ASSUME NEW e \in {"store", "canceled"}, StoreBatchFails(e) PROVE TypeOK'
    BY <2>4 DEF TypeOK, PlacesOK, CountersOK, FlagsOK, OutcomesOK, StoreOK, StoreBatchFails, Return, AfterFailedUpsert
  <2>5. ASSUME NEW t \in 0..MaxRows, NEW s \in 0..MaxRows, NEW b \in 0..1, FetchFirst(t, s, b)
        PROVE  TypeOK'
    <3>1. total' \in 0..MaxRows
      BY <2>5, PageCountBound DEF FetchFirst
    <3>2. /\ main' \in {"returned", "send"}
          /\ result' \in {"ok", result}
          /\ writer' \in {writer, "receive"}
      BY <2>5 DEF FetchFirst, Return, TypeOK, PlacesOK, CountersOK, FlagsOK, OutcomesOK, StoreOK
    <3>3. UNCHANGED <<workers, calls, parentDone, pipeDone, disp, next, worker, page,
                      chunksClosed, wpage, summaryErr, tally, fetchErr, ledger>>
      BY <2>5 DEF FetchFirst
    <3>. QED BY <3>1, <3>2, <3>3 DEF TypeOK, PlacesOK, CountersOK, FlagsOK, OutcomesOK, StoreOK
  <2>6. ASSUME NEW e \in {"provider", "canceled"}, FetchFails(e) PROVE TypeOK'
    BY <2>6 DEF TypeOK, PlacesOK, CountersOK, FlagsOK, OutcomesOK, StoreOK, FetchFails, Return
  <2>7. CASE HandFirst
    BY <2>7 DEF TypeOK, PlacesOK, CountersOK, FlagsOK, OutcomesOK, StoreOK, HandFirst
  <2>8. CASE AbandonFirst
    BY <2>8 DEF TypeOK, PlacesOK, CountersOK, FlagsOK, OutcomesOK, StoreOK, AbandonFirst
  <2>9. CASE CloseChunks
    BY <2>9 DEF TypeOK, PlacesOK, CountersOK, FlagsOK, OutcomesOK, StoreOK, CloseChunks
  <2>10. CASE Finish
    BY <2>10 DEF TypeOK, PlacesOK, CountersOK, FlagsOK, OutcomesOK, StoreOK, Finish, Return
  <2>. QED
    BY <1>1, <2>1, <2>2, <2>3, <2>4, <2>5, <2>6, <2>7, <2>8, <2>9, <2>10 DEF MainStep
<1>2. CASE CloseJobs
  BY <1>2 DEF TypeOK, PlacesOK, CountersOK, FlagsOK, OutcomesOK, StoreOK, CloseJobs
<1>3. ASSUME NEW w \in Workers, WorkerStep(w) PROVE TypeOK'
  <2>1. CASE TakeJob(w)
    BY <2>1 DEF TypeOK, PlacesOK, CountersOK, FlagsOK, OutcomesOK, StoreOK, TakeJob
  <2>2. ASSUME NEW e \in {"provider", "canceled"}, FetchPageFails(w, e) PROVE TypeOK'
    BY <2>2 DEF TypeOK, PlacesOK, CountersOK, FlagsOK, OutcomesOK, StoreOK, FetchPageFails
  <2>3. CASE FetchPage(w)
    BY <2>3 DEF TypeOK, PlacesOK, CountersOK, FlagsOK, OutcomesOK, StoreOK, FetchPage
  <2>4. CASE CancelPipeline(w)
    BY <2>4 DEF TypeOK, PlacesOK, CountersOK, FlagsOK, OutcomesOK, StoreOK, CancelPipeline
  <2>5. CASE HandPage(w)
    BY <2>5 DEF TypeOK, PlacesOK, CountersOK, FlagsOK, OutcomesOK, StoreOK, HandPage
  <2>6. CASE AbandonPage(w)
    BY <2>6 DEF TypeOK, PlacesOK, CountersOK, FlagsOK, OutcomesOK, StoreOK, AbandonPage
  <2>7. CASE JobsEnd(w)
    BY <2>7 DEF TypeOK, PlacesOK, CountersOK, FlagsOK, OutcomesOK, StoreOK, JobsEnd
  <2>. QED BY <1>3, <2>1, <2>2, <2>3, <2>4, <2>5, <2>6, <2>7 DEF WorkerStep
<1>4. ASSUME WriterStep PROVE TypeOK'
  <2>1. CASE UpsertPage
    BY <2>1 DEF TypeOK, PlacesOK, CountersOK, FlagsOK, OutcomesOK, StoreOK, UpsertPage
  <2>2. ASSUME NEW e \in {"store", "canceled"}, UpsertPageFails(e) PROVE TypeOK'
    <3>1. PICK h \in AfterFailedUpsert(wpage) : ledger' = [ledger EXCEPT ![wpage] = h]
      BY <2>2 DEF UpsertPageFails
    <3>2. h \in {"absent", "partial", "stored"}
      BY DEF AfterFailedUpsert, TypeOK, PlacesOK, CountersOK, FlagsOK, OutcomesOK, StoreOK
    <3>3. StoreOK'
      BY <2>2, <3>1, <3>2 DEF TypeOK, StoreOK, UpsertPageFails
    <3>4. PlacesOK' /\ CountersOK'
      BY <2>2 DEF TypeOK, PlacesOK, CountersOK, UpsertPageFails
    <3>5. FlagsOK' /\ OutcomesOK'
      BY <2>2 DEF TypeOK, FlagsOK, OutcomesOK, UpsertPageFails
    <3>. QED BY <3>3, <3>4, <3>5 DEF TypeOK
  <2>3. CASE WriterCancels
    BY <2>3 DEF TypeOK, PlacesOK, CountersOK, FlagsOK, OutcomesOK, StoreOK, WriterCancels
  <2>4. CASE ChunksEnd
    BY <2>4 DEF TypeOK, PlacesOK, CountersOK, FlagsOK, OutcomesOK, StoreOK, ChunksEnd
  <2>. QED BY <1>4, <2>1, <2>2, <2>3, <2>4 DEF WriterStep
<1>5. CASE CancelParent
  BY <1>5 DEF TypeOK, PlacesOK, CountersOK, FlagsOK, OutcomesOK, StoreOK, CancelParent
<1>6. CASE Restart
  <2>1. PlacesOK'
    BY <1>6 DEF Restart, PlacesOK
  <2>2. CountersOK'
    BY <1>6 DEF Restart, TypeOK, CountersOK
  <2>3. FlagsOK'
    BY <1>6 DEF Restart, FlagsOK
  <2>4. OutcomesOK'
    BY <1>6 DEF Restart, OutcomesOK
  <2>5. tally' \in [Pages -> Nat]
    BY <1>6 DEF Restart
  <2>6. ledger' \in [Pages -> {"absent", "partial", "stored"}]
    BY <1>6 DEF Restart, InWriting, AfterFailedUpsert, TypeOK, CountersOK, StoreOK
  <2>. QED BY <2>1, <2>2, <2>3, <2>4, <2>5, <2>6 DEF TypeOK, StoreOK
<1>7. CASE UNCHANGED vars
  BY <1>7 DEF TypeOK, PlacesOK, CountersOK, FlagsOK, OutcomesOK, StoreOK, vars
<1>. QED
  BY <1>1, <1>2, <1>3, <1>4, <1>5, <1>6, <1>7 DEF Next, Rest

\* Every variable stays in its range, for every bound and every store.
THEOREM TypeCorrect == Spec => []TypeOK
BY InitTypeOK, NextTypeOK, PTL DEF Spec

\* Where collectRange is fixes what every goroutine may be doing.
LEMMA LifecycleKept == IInv /\ [Next]_vars => Lifecycle'
<1>. USE BackfillAssumption DEF IInv, TypeOK, PlacesOK, CountersOK, FlagsOK, OutcomesOK,
         StoreOK, Lifecycle, Gone, Started, Pages, Workers, mainVars, dispVars,
         workerVars, writerVars, requestVars
<1>. SUFFICES ASSUME IInv, TypeOK', [Next]_vars PROVE Lifecycle'
  BY NextTypeOK DEF IInv
<1>1. CASE FetchBatch
  BY <1>1 DEF FetchBatch
<1>2. CASE StoreBatchOk
  BY <1>2 DEF StoreBatchOk
<1>3. CASE ReturnBatch
  BY <1>3 DEF ReturnBatch, Return
<1>4. ASSUME NEW e \in {"store", "canceled"}, StoreBatchFails(e) PROVE Lifecycle'
  BY <1>4 DEF StoreBatchFails, Return, AfterFailedUpsert
<1>5. ASSUME NEW t \in 0..MaxRows, NEW s \in 0..MaxRows, NEW b \in 0..1, FetchFirst(t, s, b)
      PROVE  Lifecycle'
  BY <1>5 DEF FetchFirst, Return
<1>6. ASSUME NEW e \in {"provider", "canceled"}, FetchFails(e) PROVE Lifecycle'
  BY <1>6 DEF FetchFails, Return
<1>7. CASE HandFirst
  BY <1>7 DEF HandFirst
<1>8. CASE AbandonFirst
  BY <1>8 DEF AbandonFirst, CtxDone
<1>9. CASE CloseChunks
  BY <1>9 DEF CloseChunks
<1>10. CASE Finish
  BY <1>10 DEF Finish, Return
<1>11. CASE CloseJobs
  BY <1>11 DEF CloseJobs
<1>12. ASSUME NEW w \in Workers, TakeJob(w) PROVE Lifecycle'
  BY <1>12 DEF TakeJob
<1>13. ASSUME NEW w \in Workers, FetchPage(w) PROVE Lifecycle'
  BY <1>13 DEF FetchPage
<1>14. ASSUME NEW w \in Workers, NEW e \in {"provider", "canceled"}, FetchPageFails(w, e)
      PROVE  Lifecycle'
  BY <1>14 DEF FetchPageFails
<1>15. ASSUME NEW w \in Workers, CancelPipeline(w) PROVE Lifecycle'
  BY <1>15 DEF CancelPipeline
<1>16. ASSUME NEW w \in Workers, HandPage(w) PROVE Lifecycle'
  BY <1>16 DEF HandPage
<1>17. ASSUME NEW w \in Workers, AbandonPage(w) PROVE Lifecycle'
  BY <1>17 DEF AbandonPage
<1>18. ASSUME NEW w \in Workers, JobsEnd(w) PROVE Lifecycle'
  BY <1>18 DEF JobsEnd
<1>19. CASE UpsertPage
  BY <1>19 DEF UpsertPage
<1>20. ASSUME NEW e \in {"store", "canceled"}, UpsertPageFails(e) PROVE Lifecycle'
  BY <1>20 DEF UpsertPageFails, AfterFailedUpsert
<1>21. CASE WriterCancels
  BY <1>21 DEF WriterCancels
<1>22. CASE ChunksEnd
  BY <1>22 DEF ChunksEnd
<1>23. CASE CancelParent
  BY <1>23 DEF CancelParent
<1>24. CASE Restart
  BY <1>24 DEF Restart
<1>25. CASE UNCHANGED vars
  BY <1>25 DEF vars
<1>. HIDE DEF IInv, TypeOK, PlacesOK, CountersOK, FlagsOK, OutcomesOK, StoreOK,
         Lifecycle, Gone, Started
<1>. QED
  BY <1>1, <1>2, <1>3, <1>4, <1>5, <1>6, <1>7, <1>8, <1>9, <1>10, <1>11, <1>12, <1>13,
     <1>14, <1>15, <1>16, <1>17, <1>18, <1>19, <1>20, <1>21, <1>22, <1>23, <1>24, <1>25
     DEF Next, MainStep, WorkerStep, WriterStep, Rest

\* No context is cancelled and no error recorded without a reason: recordFetchErr
\* and summary.err come before cancel().
LEMMA CausesKept == IInv /\ [Next]_vars => Causes'
<1>. USE BackfillAssumption DEF IInv, TypeOK, PlacesOK, CountersOK, OutcomesOK, FlagsOK,
         Lifecycle, Causes, CtxDone, Gone, Pages, Workers, mainVars, dispVars,
         workerVars, writerVars, requestVars
<1>. SUFFICES ASSUME IInv, TypeOK', [Next]_vars PROVE Causes'
  BY NextTypeOK DEF IInv
<1>1. CASE FetchBatch
  BY <1>1 DEF FetchBatch
<1>2. CASE StoreBatchOk
  BY <1>2 DEF StoreBatchOk
<1>3. CASE ReturnBatch
  BY <1>3 DEF ReturnBatch, Return
<1>4. ASSUME NEW e \in {"store", "canceled"}, StoreBatchFails(e) PROVE Causes'
  BY <1>4 DEF StoreBatchFails, Return, AfterFailedUpsert
<1>5. ASSUME NEW t \in 0..MaxRows, NEW s \in 0..MaxRows, NEW b \in 0..1, FetchFirst(t, s, b)
      PROVE  Causes'
  BY <1>5 DEF FetchFirst, Return
<1>6. ASSUME NEW e \in {"provider", "canceled"}, FetchFails(e) PROVE Causes'
  BY <1>6 DEF FetchFails, Return
<1>7. CASE HandFirst
  BY <1>7 DEF HandFirst
<1>8. CASE AbandonFirst
  BY <1>8 DEF AbandonFirst
<1>9. CASE CloseChunks
  BY <1>9 DEF CloseChunks
<1>10. CASE Finish
  BY <1>10 DEF Finish, Return
<1>11. CASE CloseJobs
  BY <1>11 DEF CloseJobs
<1>12. ASSUME NEW w \in Workers, TakeJob(w) PROVE Causes'
  BY <1>12 DEF TakeJob
<1>13. ASSUME NEW w \in Workers, FetchPage(w) PROVE Causes'
  BY <1>13 DEF FetchPage
<1>14. ASSUME NEW w \in Workers, NEW e \in {"provider", "canceled"}, FetchPageFails(w, e)
      PROVE  Causes'
  BY <1>14 DEF FetchPageFails
<1>15. ASSUME NEW w \in Workers, CancelPipeline(w) PROVE Causes'
  BY <1>15 DEF CancelPipeline
<1>16. ASSUME NEW w \in Workers, HandPage(w) PROVE Causes'
  BY <1>16 DEF HandPage
<1>17. ASSUME NEW w \in Workers, AbandonPage(w) PROVE Causes'
  BY <1>17 DEF AbandonPage
<1>18. ASSUME NEW w \in Workers, JobsEnd(w) PROVE Causes'
  BY <1>18 DEF JobsEnd
<1>19. CASE UpsertPage
  BY <1>19 DEF UpsertPage
<1>20. ASSUME NEW e \in {"store", "canceled"}, UpsertPageFails(e) PROVE Causes'
  BY <1>20 DEF UpsertPageFails, AfterFailedUpsert
<1>21. CASE WriterCancels
  BY <1>21 DEF WriterCancels
<1>22. CASE ChunksEnd
  BY <1>22 DEF ChunksEnd
<1>23. CASE CancelParent
  BY <1>23 DEF CancelParent
<1>24. CASE Restart
  BY <1>24 DEF Restart
<1>25. CASE UNCHANGED vars
  BY <1>25 DEF vars
<1>. HIDE DEF IInv, TypeOK, PlacesOK, CountersOK, OutcomesOK, FlagsOK, Lifecycle, Causes,
         CtxDone, Gone
<1>. QED
  BY <1>1, <1>2, <1>3, <1>4, <1>5, <1>6, <1>7, <1>8, <1>9, <1>10, <1>11, <1>12, <1>13,
     <1>14, <1>15, <1>16, <1>17, <1>18, <1>19, <1>20, <1>21, <1>22, <1>23, <1>24, <1>25
     DEF Next, MainStep, WorkerStep, WriterStep, Rest

\* The jobs channel hands each page to one worker, and chunks to the writer.
LEMMA CustodyKept == IInv /\ [Next]_vars => Custody'
<1>. USE BackfillAssumption DEF IInv, TypeOK, PlacesOK, CountersOK, StoreOK, Lifecycle,
         Custody, Holding, Gone, Pages, Workers, mainVars, dispVars, workerVars,
         writerVars, requestVars
<1>. SUFFICES ASSUME IInv, TypeOK', [Next]_vars PROVE Custody'
  BY NextTypeOK DEF IInv
<1>1. CASE FetchBatch
  BY <1>1 DEF FetchBatch
<1>2. CASE StoreBatchOk
  BY <1>2 DEF StoreBatchOk
<1>3. CASE ReturnBatch
  BY <1>3 DEF ReturnBatch, Return
<1>4. ASSUME NEW e \in {"store", "canceled"}, StoreBatchFails(e) PROVE Custody'
  BY <1>4 DEF StoreBatchFails, Return, AfterFailedUpsert
<1>5. ASSUME NEW t \in 0..MaxRows, NEW s \in 0..MaxRows, NEW b \in 0..1, FetchFirst(t, s, b)
      PROVE  Custody'
  BY <1>5 DEF FetchFirst, Return
<1>6. ASSUME NEW e \in {"provider", "canceled"}, FetchFails(e) PROVE Custody'
  BY <1>6 DEF FetchFails, Return
<1>7. CASE HandFirst
  BY <1>7 DEF HandFirst
<1>8. CASE AbandonFirst
  BY <1>8 DEF AbandonFirst
<1>9. CASE CloseChunks
  BY <1>9 DEF CloseChunks
<1>10. CASE Finish
  BY <1>10 DEF Finish, Return
<1>11. CASE CloseJobs
  BY <1>11 DEF CloseJobs
<1>12. ASSUME NEW w \in Workers, TakeJob(w) PROVE Custody'
  <2>. HIDE DEF Custody
  <2>1. /\ main = "wait" /\ next \in 2..total /\ next' = next + 1
        /\ UNCHANGED <<main, total, writer, wpage, tally>>
    <3>1. worker[w] = "idle" /\ main = "wait"
      BY <1>12 DEF TakeJob
    <3>. QED BY <1>12, <3>1 DEF TakeJob
  <2>2. /\ ~Holding(w) /\ page'[w] = next
        /\ \A v \in Workers : v # w => (Holding(v)' <=> Holding(v)) /\ page'[v] = page[v]
    BY <1>12 DEF TakeJob
  <2>3. Custody /\ next \in Int /\ wpage \in Int /\ total \in 0..MaxRows
    OBVIOUS
  <2>. HIDE DEF IInv, TypeOK, PlacesOK, CountersOK, StoreOK, Lifecycle, Holding, Gone
  <2>. USE DEF Custody
  <2>4. tally[next] = 0
    BY <2>1, <2>3
  <2>5. \A v \in Workers : Holding(v) =>
          page[v] \in 2..(next - 1) /\ page[v] <= total /\ tally[page[v]] = 0
    BY <2>3
  <2>6. ASSUME NEW v \in Workers, Holding(v)'
        PROVE  page'[v] \in 2..(next' - 1) /\ page'[v] <= total' /\ tally'[page'[v]] = 0
    BY <2>1, <2>2, <2>4, <2>5, <2>6
  <2>7. \A u, v \in Workers :
          (Holding(u)' /\ Holding(v)' /\ page'[u] = page'[v]) => u = v
    <3>1. \A u, v \in Workers : (Holding(u) /\ Holding(v) /\ page[u] = page[v]) => u = v
      BY <2>3
    <3>2. \A v \in Workers : Holding(v) => page[v] # next
      BY <2>1, <2>5
    <3>. HIDE DEF Custody
    <3>. QED BY <2>2, <3>1, <3>2
  <2>8. writer' = "upserting" =>
          /\ wpage' < next' /\ wpage' <= total' /\ tally'[wpage'] = 0
          /\ \A v \in Workers : Holding(v)' => page'[v] # wpage'
    BY <2>1, <2>2, <2>3
  <2>9. \A p \in Pages : p >= next' => tally'[p] = 0
    BY <2>1, <2>3
  <2>. QED BY <2>6, <2>7, <2>8, <2>9
<1>13. ASSUME NEW w \in Workers, FetchPage(w) PROVE Custody'
  <2>1. /\ \A v \in Workers : Holding(v)' <=> Holding(v)
        /\ UNCHANGED <<main, total, next, page, writer, wpage, tally>>
    BY <1>13 DEF FetchPage
  <2>. HIDE DEF Holding
  <2>. QED BY <2>1
<1>14. ASSUME NEW w \in Workers, NEW e \in {"provider", "canceled"}, FetchPageFails(w, e)
      PROVE  Custody'
  BY <1>14, SMTT(30) DEF FetchPageFails
<1>15. ASSUME NEW w \in Workers, CancelPipeline(w) PROVE Custody'
  BY <1>15 DEF CancelPipeline
<1>16. ASSUME NEW w \in Workers, HandPage(w) PROVE Custody'
  BY <1>16, SMTT(30) DEF HandPage
<1>17. ASSUME NEW w \in Workers, AbandonPage(w) PROVE Custody'
  BY <1>17, SMTT(30) DEF AbandonPage
<1>18. ASSUME NEW w \in Workers, JobsEnd(w) PROVE Custody'
  BY <1>18 DEF JobsEnd
<1>19. CASE UpsertPage
  BY <1>19 DEF UpsertPage
<1>20. ASSUME NEW e \in {"store", "canceled"}, UpsertPageFails(e) PROVE Custody'
  BY <1>20 DEF UpsertPageFails, AfterFailedUpsert
<1>21. CASE WriterCancels
  BY <1>21 DEF WriterCancels
<1>22. CASE ChunksEnd
  BY <1>22 DEF ChunksEnd
<1>23. CASE CancelParent
  BY <1>23 DEF CancelParent
<1>24. CASE Restart
  BY <1>24 DEF Restart
<1>25. CASE UNCHANGED vars
  BY <1>25 DEF vars
<1>. HIDE DEF IInv, TypeOK, PlacesOK, CountersOK, StoreOK, Lifecycle, Custody, Holding,
         Gone
<1>. QED
  BY <1>1, <1>2, <1>3, <1>4, <1>5, <1>6, <1>7, <1>8, <1>9, <1>10, <1>11, <1>12, <1>13,
     <1>14, <1>15, <1>16, <1>17, <1>18, <1>19, <1>20, <1>21, <1>22, <1>23, <1>24, <1>25
     DEF Next, MainStep, WorkerStep, WriterStep, Rest

\* As long as nothing goes wrong nobody drops a page.
LEMMA NoLossKept == IInv /\ [Next]_vars => NoLoss'
<1>. USE BackfillAssumption DEF IInv, TypeOK, PlacesOK, CountersOK, StoreOK, OutcomesOK,
         Lifecycle, Causes, Custody, NoLoss, Clean, CtxDone, Holding, Started, Gone,
         Pages, Workers, mainVars, dispVars, workerVars, writerVars, requestVars
<1>. SUFFICES ASSUME IInv, TypeOK', [Next]_vars PROVE NoLoss'
  BY NextTypeOK DEF IInv
<1>1. CASE FetchBatch
  BY <1>1 DEF FetchBatch
<1>2. CASE StoreBatchOk
  BY <1>2 DEF StoreBatchOk
<1>3. CASE ReturnBatch
  BY <1>3 DEF ReturnBatch, Return
<1>4. ASSUME NEW e \in {"store", "canceled"}, StoreBatchFails(e) PROVE NoLoss'
  BY <1>4 DEF StoreBatchFails, Return, AfterFailedUpsert
<1>5. ASSUME NEW t \in 0..MaxRows, NEW s \in 0..MaxRows, NEW b \in 0..1, FetchFirst(t, s, b)
      PROVE  NoLoss'
  BY <1>5 DEF FetchFirst, Return
<1>6. ASSUME NEW e \in {"provider", "canceled"}, FetchFails(e) PROVE NoLoss'
  BY <1>6 DEF FetchFails, Return
<1>7. CASE HandFirst
  BY <1>7 DEF HandFirst
<1>8. CASE AbandonFirst
  BY <1>8 DEF AbandonFirst
<1>9. CASE CloseChunks
  BY <1>9 DEF CloseChunks
<1>10. CASE Finish
  BY <1>10 DEF Finish, Return
<1>11. CASE CloseJobs
  BY <1>11 DEF CloseJobs
<1>12. ASSUME NEW w \in Workers, TakeJob(w) PROVE NoLoss'
  <2>1. /\ disp = "offering" /\ next \in 2..total /\ next' = next + 1
        /\ Holding(w)' /\ page'[w] = next
        /\ \A v \in Workers : Holding(v) => Holding(v)' /\ page'[v] = page[v]
        /\ \A v \in Workers : worker'[v] = "exited" => worker[v] = "exited"
        /\ UNCHANGED <<main, total, disp, writer, wpage, tally, parentDone, fetchErr,
                       summaryErr>>
    BY <1>12 DEF TakeJob
  <2>2. main = "wait"
    BY <1>12 DEF TakeJob
  <2>. SUFFICES ASSUME Clean' PROVE NoLoss'
    OBVIOUS
  <2>3. Clean
    BY <2>1
  <2>. HIDE DEF IInv, TypeOK, PlacesOK, CountersOK, StoreOK, OutcomesOK, Lifecycle, Causes,
            Custody, Clean, Holding, Started, Gone
  <2>4. ASSUME NEW p \in 1..(next' - 1)
        PROVE  \/ tally'[p] = 1
               \/ writer' = "upserting" /\ wpage' = p
               \/ \E v \in Workers : Holding(v)' /\ page'[v] = p
    <3>1. CASE p = next
      BY <2>1, <3>1
    <3>2. CASE p # next
      <4>1. p \in 1..(next - 1)
        BY <2>1, <3>2
      <4>2. \/ tally[p] = 1
            \/ writer = "upserting" /\ wpage = p
            \/ \E v \in Workers : Holding(v) /\ page[v] = p
        BY <2>2, <2>3, <4>1 DEF IInv
      <4>. QED BY <2>1, <4>2
    <3>. QED BY <3>1, <3>2
  <2>5. /\ disp' # "closed"
        /\ \A v \in Workers : worker'[v] # "exited"
        /\ main' # "drain"
    BY <2>1, <2>2, <2>3 DEF IInv
  <2>. QED BY <2>4, <2>5
<1>13. ASSUME NEW w \in Workers, FetchPage(w) PROVE NoLoss'
  BY <1>13 DEF FetchPage
<1>14. ASSUME NEW w \in Workers, NEW e \in {"provider", "canceled"}, FetchPageFails(w, e)
      PROVE  NoLoss'
  BY <1>14 DEF FetchPageFails
<1>15. ASSUME NEW w \in Workers, CancelPipeline(w) PROVE NoLoss'
  BY <1>15 DEF CancelPipeline
<1>16. ASSUME NEW w \in Workers, HandPage(w) PROVE NoLoss'
  BY <1>16, SMTT(30) DEF HandPage
<1>17. ASSUME NEW w \in Workers, AbandonPage(w) PROVE NoLoss'
  BY <1>17 DEF AbandonPage
<1>18. ASSUME NEW w \in Workers, JobsEnd(w) PROVE NoLoss'
  <2>1. /\ disp = "closed"
        /\ \A v \in Workers : Holding(v)' <=> Holding(v)
        /\ UNCHANGED <<main, total, disp, next, page, writer, wpage, tally, parentDone,
                       fetchErr, summaryErr>>
    BY <1>18 DEF JobsEnd
  <2>. HIDE DEF Holding
  <2>. QED BY <2>1
<1>19. CASE UpsertPage
  BY <1>19 DEF UpsertPage
<1>20. ASSUME NEW e \in {"store", "canceled"}, UpsertPageFails(e) PROVE NoLoss'
  BY <1>20 DEF UpsertPageFails, AfterFailedUpsert
<1>21. CASE WriterCancels
  BY <1>21 DEF WriterCancels
<1>22. CASE ChunksEnd
  BY <1>22 DEF ChunksEnd
<1>23. CASE CancelParent
  BY <1>23 DEF CancelParent
<1>24. CASE Restart
  BY <1>24 DEF Restart
<1>25. CASE UNCHANGED vars
  BY <1>25 DEF vars
<1>. HIDE DEF IInv, TypeOK, PlacesOK, CountersOK, StoreOK, OutcomesOK, Lifecycle, Causes,
         Custody, NoLoss, Clean, CtxDone, Holding, Started, Gone
<1>. QED
  BY <1>1, <1>2, <1>3, <1>4, <1>5, <1>6, <1>7, <1>8, <1>9, <1>10, <1>11, <1>12, <1>13,
     <1>14, <1>15, <1>16, <1>17, <1>18, <1>19, <1>20, <1>21, <1>22, <1>23, <1>24, <1>25
     DEF Next, MainStep, WorkerStep, WriterStep, Rest

\* The writer counts a page in the step that stores it, and never again.
LEMMA SummaryIsDurableKept == IInv /\ [Next]_vars => SummaryIsDurable'
<1>. USE BackfillAssumption DEF IInv, TypeOK, CountersOK, StoreOK, Lifecycle, Custody,
         SummaryIsDurable, Pages, Workers, mainVars, dispVars, workerVars, writerVars,
         requestVars
<1>. SUFFICES ASSUME IInv, TypeOK', [Next]_vars PROVE SummaryIsDurable'
  BY NextTypeOK DEF IInv
<1>1. CASE FetchBatch
  BY <1>1 DEF FetchBatch
<1>2. CASE StoreBatchOk
  BY <1>2 DEF StoreBatchOk
<1>3. CASE ReturnBatch
  BY <1>3 DEF ReturnBatch, Return
<1>4. ASSUME NEW e \in {"store", "canceled"}, StoreBatchFails(e)
      PROVE  SummaryIsDurable'
  BY <1>4 DEF StoreBatchFails, Return, AfterFailedUpsert
<1>5. ASSUME NEW t \in 0..MaxRows, NEW s \in 0..MaxRows, NEW b \in 0..1, FetchFirst(t, s, b)
      PROVE  SummaryIsDurable'
  BY <1>5 DEF FetchFirst, Return
<1>6. ASSUME NEW e \in {"provider", "canceled"}, FetchFails(e) PROVE SummaryIsDurable'
  BY <1>6 DEF FetchFails, Return
<1>7. CASE HandFirst
  BY <1>7 DEF HandFirst
<1>8. CASE AbandonFirst
  BY <1>8 DEF AbandonFirst
<1>9. CASE CloseChunks
  BY <1>9 DEF CloseChunks
<1>10. CASE Finish
  BY <1>10 DEF Finish, Return
<1>11. CASE CloseJobs
  BY <1>11 DEF CloseJobs
<1>12. ASSUME NEW w \in Workers, TakeJob(w) PROVE SummaryIsDurable'
  BY <1>12 DEF TakeJob
<1>13. ASSUME NEW w \in Workers, FetchPage(w) PROVE SummaryIsDurable'
  BY <1>13 DEF FetchPage
<1>14. ASSUME NEW w \in Workers, NEW e \in {"provider", "canceled"}, FetchPageFails(w, e)
      PROVE  SummaryIsDurable'
  BY <1>14 DEF FetchPageFails
<1>15. ASSUME NEW w \in Workers, CancelPipeline(w) PROVE SummaryIsDurable'
  BY <1>15 DEF CancelPipeline
<1>16. ASSUME NEW w \in Workers, HandPage(w) PROVE SummaryIsDurable'
  BY <1>16 DEF HandPage
<1>17. ASSUME NEW w \in Workers, AbandonPage(w) PROVE SummaryIsDurable'
  BY <1>17 DEF AbandonPage
<1>18. ASSUME NEW w \in Workers, JobsEnd(w) PROVE SummaryIsDurable'
  BY <1>18 DEF JobsEnd
<1>19. CASE UpsertPage
  BY <1>19 DEF UpsertPage
<1>20. ASSUME NEW e \in {"store", "canceled"}, UpsertPageFails(e)
      PROVE  SummaryIsDurable'
  BY <1>20 DEF UpsertPageFails, AfterFailedUpsert
<1>21. CASE WriterCancels
  BY <1>21 DEF WriterCancels
<1>22. CASE ChunksEnd
  BY <1>22 DEF ChunksEnd
<1>23. CASE CancelParent
  BY <1>23 DEF CancelParent
<1>24. CASE Restart
  BY <1>24 DEF Restart
<1>25. CASE UNCHANGED vars
  BY <1>25 DEF vars
<1>. HIDE DEF IInv, TypeOK, CountersOK, StoreOK, Lifecycle, Custody, SummaryIsDurable
<1>. QED
  BY <1>1, <1>2, <1>3, <1>4, <1>5, <1>6, <1>7, <1>8, <1>9, <1>10, <1>11, <1>12, <1>13,
     <1>14, <1>15, <1>16, <1>17, <1>18, <1>19, <1>20, <1>21, <1>22, <1>23, <1>24, <1>25
     DEF Next, MainStep, WorkerStep, WriterStep, Rest

\* collectRange reports a cancellation only when its caller cancelled.
LEMMA RootCauseKept == IInv /\ [Next]_vars => RootCause'
<1>. USE BackfillAssumption DEF IInv, TypeOK, OutcomesOK, Lifecycle, Causes, RootCause,
         Pages, Workers, mainVars, dispVars, workerVars, writerVars, requestVars
<1>. SUFFICES ASSUME IInv, TypeOK', [Next]_vars PROVE RootCause'
  BY NextTypeOK DEF IInv
<1>1. CASE FetchBatch
  BY <1>1 DEF FetchBatch
<1>2. CASE StoreBatchOk
  BY <1>2 DEF StoreBatchOk
<1>3. CASE ReturnBatch
  BY <1>3 DEF ReturnBatch, Return
<1>4. ASSUME NEW e \in {"store", "canceled"}, StoreBatchFails(e) PROVE RootCause'
  BY <1>4 DEF StoreBatchFails, Return, AfterFailedUpsert
<1>5. ASSUME NEW t \in 0..MaxRows, NEW s \in 0..MaxRows, NEW b \in 0..1, FetchFirst(t, s, b)
      PROVE  RootCause'
  BY <1>5 DEF FetchFirst, Return
<1>6. ASSUME NEW e \in {"provider", "canceled"}, FetchFails(e) PROVE RootCause'
  BY <1>6 DEF FetchFails, Return
<1>7. CASE HandFirst
  BY <1>7 DEF HandFirst
<1>8. CASE AbandonFirst
  BY <1>8 DEF AbandonFirst
<1>9. CASE CloseChunks
  BY <1>9 DEF CloseChunks
<1>10. CASE Finish
  BY <1>10 DEF Finish, Return
<1>11. CASE CloseJobs
  BY <1>11 DEF CloseJobs
<1>12. ASSUME NEW w \in Workers, TakeJob(w) PROVE RootCause'
  BY <1>12 DEF TakeJob
<1>13. ASSUME NEW w \in Workers, FetchPage(w) PROVE RootCause'
  BY <1>13 DEF FetchPage
<1>14. ASSUME NEW w \in Workers, NEW e \in {"provider", "canceled"}, FetchPageFails(w, e)
      PROVE  RootCause'
  BY <1>14 DEF FetchPageFails
<1>15. ASSUME NEW w \in Workers, CancelPipeline(w) PROVE RootCause'
  BY <1>15 DEF CancelPipeline
<1>16. ASSUME NEW w \in Workers, HandPage(w) PROVE RootCause'
  BY <1>16 DEF HandPage
<1>17. ASSUME NEW w \in Workers, AbandonPage(w) PROVE RootCause'
  BY <1>17 DEF AbandonPage
<1>18. ASSUME NEW w \in Workers, JobsEnd(w) PROVE RootCause'
  BY <1>18 DEF JobsEnd
<1>19. CASE UpsertPage
  BY <1>19 DEF UpsertPage
<1>20. ASSUME NEW e \in {"store", "canceled"}, UpsertPageFails(e) PROVE RootCause'
  BY <1>20 DEF UpsertPageFails, AfterFailedUpsert
<1>21. CASE WriterCancels
  BY <1>21 DEF WriterCancels
<1>22. CASE ChunksEnd
  BY <1>22 DEF ChunksEnd
<1>23. CASE CancelParent
  BY <1>23 DEF CancelParent
<1>24. CASE Restart
  BY <1>24 DEF Restart
<1>25. CASE UNCHANGED vars
  BY <1>25 DEF vars
<1>. HIDE DEF IInv, TypeOK, OutcomesOK, Lifecycle, Causes, RootCause
<1>. QED
  BY <1>1, <1>2, <1>3, <1>4, <1>5, <1>6, <1>7, <1>8, <1>9, <1>10, <1>11, <1>12, <1>13,
     <1>14, <1>15, <1>16, <1>17, <1>18, <1>19, <1>20, <1>21, <1>22, <1>23, <1>24, <1>25
     DEF Next, MainStep, WorkerStep, WriterStep, Rest

\* collectRange returns success only when every page was counted.
LEMMA CompleteOnSuccessKept == IInv /\ [Next]_vars => CompleteOnSuccess'
<1>. USE BackfillAssumption DEF IInv, TypeOK, PlacesOK, CountersOK, StoreOK, FlagsOK,
         OutcomesOK, Lifecycle, Causes, SummaryIsDurable, NoLoss, Clean, Holding, Gone,
         CompleteOnSuccess, Pages, Workers, mainVars, dispVars, workerVars, writerVars,
         requestVars
<1>. SUFFICES ASSUME IInv, TypeOK', [Next]_vars PROVE CompleteOnSuccess'
  BY NextTypeOK DEF IInv
<1>1. CASE FetchBatch
  BY <1>1 DEF FetchBatch
<1>2. CASE StoreBatchOk
  BY <1>2 DEF StoreBatchOk
<1>3. CASE ReturnBatch
  BY <1>3 DEF ReturnBatch, Return
<1>4. ASSUME NEW e \in {"store", "canceled"}, StoreBatchFails(e)
      PROVE  CompleteOnSuccess'
  BY <1>4 DEF StoreBatchFails, Return, AfterFailedUpsert
<1>5. ASSUME NEW t \in 0..MaxRows, NEW s \in 0..MaxRows, NEW b \in 0..1, FetchFirst(t, s, b)
      PROVE  CompleteOnSuccess'
  BY <1>5 DEF FetchFirst, Return
<1>6. ASSUME NEW e \in {"provider", "canceled"}, FetchFails(e) PROVE CompleteOnSuccess'
  BY <1>6 DEF FetchFails, Return
<1>7. CASE HandFirst
  BY <1>7 DEF HandFirst
<1>8. CASE AbandonFirst
  BY <1>8 DEF AbandonFirst
<1>9. CASE CloseChunks
  BY <1>9 DEF CloseChunks
<1>10. CASE Finish
  <2>. SUFFICES ASSUME result' = "ok", ~parentDone', NEW p \in 1..total'
                PROVE  ledger'[p] = "stored" /\ tally'[p] = 1
    OBVIOUS
  <2>1. main = "drain" /\ Clean /\ writer = "done" /\ p \in 1..total
    BY <1>10 DEF Finish, Return
  <2>2. \A w \in Workers : ~Holding(w)
    BY <2>1
  <2>3. p \in Pages /\ total \in Nat
    BY <2>1
  <2>4. UNCHANGED <<tally, ledger>>
    BY <1>10 DEF Finish
  <2>5. NoLoss /\ SummaryIsDurable
    OBVIOUS
  <2>. HIDE DEF IInv, TypeOK, PlacesOK, CountersOK, StoreOK, FlagsOK, OutcomesOK, Lifecycle,
            Causes, Clean, Holding, Gone, SummaryIsDurable, CompleteOnSuccess
  <2>6. next = total + 1
    BY <2>1, <2>5
  <2>7. tally[p] = 1
    BY <2>1, <2>2, <2>3, <2>5, <2>6
  <2>. QED BY <2>3, <2>4, <2>5, <2>7 DEF SummaryIsDurable
<1>11. CASE CloseJobs
  BY <1>11 DEF CloseJobs
<1>12. ASSUME NEW w \in Workers, TakeJob(w) PROVE CompleteOnSuccess'
  BY <1>12 DEF TakeJob
<1>13. ASSUME NEW w \in Workers, FetchPage(w) PROVE CompleteOnSuccess'
  BY <1>13 DEF FetchPage
<1>14. ASSUME NEW w \in Workers, NEW e \in {"provider", "canceled"}, FetchPageFails(w, e)
      PROVE  CompleteOnSuccess'
  BY <1>14 DEF FetchPageFails
<1>15. ASSUME NEW w \in Workers, CancelPipeline(w) PROVE CompleteOnSuccess'
  BY <1>15 DEF CancelPipeline
<1>16. ASSUME NEW w \in Workers, HandPage(w) PROVE CompleteOnSuccess'
  BY <1>16 DEF HandPage
<1>17. ASSUME NEW w \in Workers, AbandonPage(w) PROVE CompleteOnSuccess'
  BY <1>17 DEF AbandonPage
<1>18. ASSUME NEW w \in Workers, JobsEnd(w) PROVE CompleteOnSuccess'
  BY <1>18 DEF JobsEnd
<1>19. CASE UpsertPage
  BY <1>19 DEF UpsertPage
<1>20. ASSUME NEW e \in {"store", "canceled"}, UpsertPageFails(e)
      PROVE  CompleteOnSuccess'
  BY <1>20 DEF UpsertPageFails, AfterFailedUpsert
<1>21. CASE WriterCancels
  BY <1>21 DEF WriterCancels
<1>22. CASE ChunksEnd
  BY <1>22 DEF ChunksEnd
<1>23. CASE CancelParent
  BY <1>23 DEF CancelParent
<1>24. CASE Restart
  BY <1>24 DEF Restart
<1>25. CASE UNCHANGED vars
  BY <1>25 DEF vars
<1>. HIDE DEF IInv, TypeOK, PlacesOK, CountersOK, StoreOK, FlagsOK, OutcomesOK,
         Lifecycle, Causes, SummaryIsDurable, NoLoss, Clean, Holding, Gone,
         CompleteOnSuccess
<1>. QED
  BY <1>1, <1>2, <1>3, <1>4, <1>5, <1>6, <1>7, <1>8, <1>9, <1>10, <1>11, <1>12, <1>13,
     <1>14, <1>15, <1>16, <1>17, <1>18, <1>19, <1>20, <1>21, <1>22, <1>23, <1>24, <1>25
     DEF Next, MainStep, WorkerStep, WriterStep, Rest

-----------------------------------------------------------------------------
\* The invariant holds when a backfill starts.
LEMMA InitIInv == Init => IInv
<1>. USE BackfillAssumption DEF Pages, Workers
<1>. SUFFICES ASSUME Init PROVE IInv
  OBVIOUS
<1>1. TypeOK
  BY InitTypeOK
<1>2. Lifecycle
  BY DEF Init, Lifecycle, Gone
<1>3. Causes
  BY DEF Init, Causes
<1>4. Custody
  BY DEF Init, Custody, Holding
<1>5. NoLoss /\ RootCause /\ CompleteOnSuccess
  BY DEF Init, NoLoss, RootCause, CompleteOnSuccess
<1>6. SummaryIsDurable
  BY DEF Init, SummaryIsDurable
<1>. QED BY <1>1, <1>2, <1>3, <1>4, <1>5, <1>6 DEF IInv

\* The strengthened invariant holds of every behaviour of the pipeline.
THEOREM Invariance == Spec => []IInv
<1>1. IInv /\ [Next]_vars => IInv'
  <2>1. IInv /\ [Next]_vars => TypeOK'
    BY NextTypeOK DEF IInv
  <2>. QED
    BY <2>1, LifecycleKept, CausesKept, CustodyKept, NoLossKept, SummaryIsDurableKept,
       RootCauseKept, CompleteOnSuccessKept DEF IInv
<1>. QED BY <1>1, InitIInv, PTL DEF Spec

\* A successful, uncancelled backfill has stored and counted every page once.
THEOREM Complete == Spec => []CompleteOnSuccess
<1>1. IInv => CompleteOnSuccess
  BY DEF IInv
<1>. QED BY <1>1, Invariance, PTL

\* A caller that did not cancel never sees a cancellation error.
THEOREM Cause == Spec => []RootCause
<1>1. IInv => RootCause
  BY DEF IInv
<1>. QED BY <1>1, Invariance, PTL

\* Totals never run ahead of the store.
THEOREM Durable == Spec => []SummaryIsDurable
<1>1. IInv => SummaryIsDurable
  BY DEF IInv
<1>. QED BY <1>1, Invariance, PTL

\* Nobody can send on chunks after collectRange has closed it.
THEOREM NoPanic == Spec => []NoSendAfterClose
<1>1. IInv => NoSendAfterClose
  BY DEF IInv, TypeOK, PlacesOK, Lifecycle, NoSendAfterClose, Gone
<1>. QED BY <1>1, Invariance, PTL

\* After the return no worker and no writer is left running.
THEOREM Quiet == Spec => []QuietAfterReturn
<1>1. IInv => QuietAfterReturn
  BY DEF IInv, Lifecycle, QuietAfterReturn
<1>. QED BY <1>1, Invariance, PTL

-----------------------------------------------------------------------------
\* A backfill starts as the promise does.
LEMMA InitKeepsPromise == Init => Promise!Init
BY DEF Init, Promise!Init, Outcome, Pages, Promise!Pages

\* A failed upsert leaves what BackfillPromise allows it to leave.
LEMMA FailedUpsertTrace ==
  ASSUME TypeOK, NEW p \in Pages, NEW h \in AfterFailedUpsert(p)
  PROVE  h \in Promise!Trace(p) /\ h \in Promise!Held
<1>1. ledger[p] \in {"absent", "partial", "stored"}
  BY DEF TypeOK, StoreOK
<1>. QED BY <1>1 DEF AfterFailedUpsert, Promise!Trace, Promise!Held

\* Every step of the pipeline is a step of BackfillPromise or changes nothing
\* that a caller can see.
LEMMA NextKeepsPromise ==
  ASSUME IInv, IInv', [Next]_vars
  PROVE  [Promise!Next]_(Promise!promiseVars)
<1>. USE BackfillAssumption DEF Outcome, Pages, Workers, mainVars, dispVars, workerVars,
         writerVars, requestVars, Promise!promiseVars, Promise!Pages
<1>1. CASE FetchBatch
  <2>1. Promise!Plan(1)
    BY <1>1 DEF FetchBatch, Promise!Plan, IInv, Lifecycle
  <2>. QED BY <2>1 DEF Promise!Next
<1>2. CASE StoreBatchOk
  <2>1. Promise!Store(1)
    BY <1>2 DEF StoreBatchOk, Promise!Store, IInv, Lifecycle
  <2>2. 1 \in Pages
    OBVIOUS
  <2>. QED BY <2>1, <2>2 DEF Promise!Next
<1>3. CASE ReturnBatch
  <2>1. Promise!ReturnOk
    BY <1>3 DEF ReturnBatch, Return, Promise!ReturnOk, IInv, Lifecycle
  <2>. QED BY <2>1 DEF Promise!Next
<1>4. ASSUME NEW e \in {"store", "canceled"}, StoreBatchFails(e)
      PROVE  [Promise!Next]_(Promise!promiseVars)
  <2>1. PICK h \in AfterFailedUpsert(1) : ledger' = [ledger EXCEPT ![1] = h]
    BY <1>4 DEF StoreBatchFails
  <2>2. h \in Promise!Held /\ h \in Promise!Trace(1) /\ 1 \in Pages
    BY FailedUpsertTrace DEF IInv
  <2>3. result = "none" /\ summaryErr = "none" /\ total = 1
    BY <1>4 DEF StoreBatchFails, IInv, Lifecycle
  <2>4. /\ result' = e /\ e # "none"
        /\ e = "canceled" => parentDone
        /\ UNCHANGED <<total, parentDone>>
    BY <1>4 DEF StoreBatchFails, Return
  <2>5. Promise!FailStore(1, h, e)
    BY <2>1, <2>2, <2>3, <2>4 DEF Promise!FailStore
  <2>. QED BY <2>2, <2>5 DEF Promise!Next
<1>5. ASSUME NEW t \in 0..MaxRows, NEW s \in 0..MaxRows, NEW b \in 0..1, FetchFirst(t, s, b)
      PROVE  [Promise!Next]_(Promise!promiseVars)
  <2>1. total = 0 /\ result = "none" /\ summaryErr = "none"
    BY <1>5 DEF FetchFirst, IInv, Lifecycle
  <2>2. total' \in 0..MaxRows
    BY DEF IInv, TypeOK, CountersOK
  <2>3. CASE total' = 0
    <3>1. Promise!ReturnOk
      BY <1>5, <2>1, <2>3 DEF FetchFirst, Return, Promise!ReturnOk
    <3>. QED BY <3>1 DEF Promise!Next
  <2>4. CASE total' # 0
    <3>1. Promise!Plan(total')
      BY <1>5, <2>1, <2>4 DEF FetchFirst, Promise!Plan
    <3>. QED BY <2>2, <2>4, <3>1 DEF Promise!Next
  <2>. QED BY <2>3, <2>4
<1>6. ASSUME NEW e \in {"provider", "canceled"}, FetchFails(e)
      PROVE  [Promise!Next]_(Promise!promiseVars)
  <2>1. Promise!ReturnError(e)
    BY <1>6 DEF FetchFails, Return, Promise!ReturnError, IInv, Lifecycle
  <2>. QED BY <2>1 DEF Promise!Next, Promise!Failures
<1>7. CASE HandFirst
  BY <1>7 DEF HandFirst, IInv, Lifecycle
<1>8. CASE AbandonFirst
  BY <1>8 DEF AbandonFirst, IInv, Lifecycle
<1>9. CASE CloseChunks
  BY <1>9 DEF CloseChunks, IInv, Lifecycle
<1>10. CASE Finish
  <2>1. result = "none" /\ result' # "none"
    BY <1>10 DEF Finish, Return, IInv, TypeOK, OutcomesOK, Lifecycle
  <2>2. UNCHANGED <<total, ledger, parentDone, summaryErr>>
    BY <1>10 DEF Finish
  <2>3. CASE result' = "ok"
    <3>1. summaryErr = "none"
      BY <1>10, <2>3 DEF Finish, Return, IInv, TypeOK, OutcomesOK
    <3>2. Promise!ReturnOk
      BY <2>1, <2>2, <2>3, <3>1 DEF IInv, CompleteOnSuccess, Promise!ReturnOk
    <3>. QED BY <3>2 DEF Promise!Next
  <2>4. CASE result' # "ok"
    <3>1. result' \in Promise!Failures
      BY <2>1, <2>4 DEF IInv, TypeOK, OutcomesOK, Promise!Failures
    <3>2. result' = "canceled" => parentDone
      BY <2>2 DEF IInv, RootCause
    <3>3. result' = "provider" => summaryErr = "none"
      BY <1>10 DEF Finish, Return, IInv, TypeOK, OutcomesOK
    <3>4. Promise!ReturnError(result')
      BY <2>1, <2>2, <3>2, <3>3 DEF Promise!ReturnError
    <3>. QED BY <3>1, <3>4 DEF Promise!Next
  <2>. QED BY <2>3, <2>4
<1>11. CASE CloseJobs
  BY <1>11 DEF CloseJobs
<1>12. ASSUME NEW w \in Workers, WorkerStep(w) PROVE UNCHANGED Promise!promiseVars
  <2>1. UNCHANGED <<total, result, parentDone, summaryErr, ledger>>
    BY <1>12 DEF WorkerStep, TakeJob, FetchPage, FetchPageFails, CancelPipeline, HandPage,
       AbandonPage, JobsEnd
  <2>. QED BY <2>1
<1>13. CASE UpsertPage
  <2>1. Promise!Store(wpage) /\ wpage \in Pages
    BY <1>13 DEF UpsertPage, Promise!Store, IInv, TypeOK, CountersOK, Lifecycle, Causes, Custody
  <2>. QED BY <2>1 DEF Promise!Next
<1>14. ASSUME NEW e \in {"store", "canceled"}, UpsertPageFails(e)
       PROVE  [Promise!Next]_(Promise!promiseVars)
  <2>1. PICK h \in AfterFailedUpsert(wpage) : ledger' = [ledger EXCEPT ![wpage] = h]
    BY <1>14 DEF UpsertPageFails
  <2>2. h \in Promise!Held /\ h \in Promise!Trace(wpage) /\ wpage \in Pages
    BY FailedUpsertTrace DEF IInv, TypeOK, CountersOK
  <2>3. result = "none" /\ summaryErr = "none" /\ wpage <= total
    BY <1>14 DEF UpsertPageFails, IInv, TypeOK, CountersOK, Lifecycle, Causes, Custody
  <2>4. Promise!FailStore(wpage, h, "failing")
    BY <1>14, <2>1, <2>2, <2>3 DEF UpsertPageFails, Promise!FailStore
  <2>. QED BY <2>2, <2>4 DEF Promise!Next
<1>15. CASE WriterCancels \/ ChunksEnd
  BY <1>15 DEF WriterCancels, ChunksEnd
<1>16. CASE CancelParent
  <2>1. Promise!Cancel
    BY <1>16 DEF CancelParent, Promise!Cancel
  <2>. QED BY <2>1 DEF Promise!Next
<1>17. CASE Restart
  <2>1. total' = 0 /\ Outcome' = "open" /\ parentDone' = FALSE
    BY <1>17 DEF Restart
  <2>2. ASSUME UNCHANGED ledger PROVE Promise!Restart
    BY <2>1, <2>2 DEF Promise!Restart
  <2>3. ASSUME NEW p \in InWriting, NEW h \in AfterFailedUpsert(p),
               ledger' = [ledger EXCEPT ![p] = h]
        PROVE  Promise!Restart
    <3>1. result = "none" /\ summaryErr = "none"
      BY <2>3 DEF InWriting, IInv, Lifecycle, Causes
    <3>2. p \in 1..total
      BY <2>3 DEF InWriting, IInv, TypeOK, CountersOK, Lifecycle, Custody
    <3>3. TypeOK /\ p \in Pages
      BY <3>2 DEF IInv, TypeOK, CountersOK
    <3>4. h \in Promise!Trace(p)
      BY <2>3, <3>3, FailedUpsertTrace
    <3>5. Outcome = "open"
      BY <3>1
    <3>. QED BY <2>1, <2>3, <3>2, <3>4, <3>5 DEF Promise!Restart
  <2>4. Promise!Restart
    BY <1>17, <2>2, <2>3 DEF Restart
  <2>. QED BY <2>4 DEF Promise!Next
<1>18. CASE UNCHANGED vars
  BY <1>18 DEF vars
<1>. QED
  BY <1>1, <1>2, <1>3, <1>4, <1>5, <1>6, <1>7, <1>8, <1>9, <1>10, <1>11, <1>12, <1>13,
     <1>14, <1>15, <1>16, <1>17, <1>18 DEF Next, MainStep, WriterStep, Rest

\* The pipeline of goroutines implements the sequential promise.
THEOREM Implements == Spec => KeepsPromise
BY InitKeepsPromise, NextKeepsPromise, Invariance, PTL DEF Spec, KeepsPromise, Promise!Spec

-----------------------------------------------------------------------------
\* DailyBarStore.

Copied  == \A d \in Dates : old[d] # 0 => bars[d] # 0
Cleaned == promoted = {} /\ ~index

Recording ==
  \A c \in Clients :
    /\ call[c].at = "record" /\ call[c].migration = "copy" => Copied
    /\ call[c].at \in {"look", "apply", "record"} /\ call[c].migration = "cleanup" => "copy" \in recorded
    /\ call[c].at = "drop" => "copy" \in recorded /\ promoted = {}
    /\ call[c].at = "record" /\ call[c].migration = "cleanup" => Cleaned

Fetching ==
  \A c \in Clients :
    /\ call[c].at \in {"collect", "store"} =>
         /\ \A d \in call[c].missing \cap call[c].due : d \in Stored \cup Published
         /\ \A d \in call[c].due \ call[c].missing :
              d \in Stored \/ (call[c].at = "store" /\ d = call[c].date)
    /\ call[c].at = "store" =>
         (call[c].date \in call[c].due => call[c].date \in Stored \/ call[c].bar # 0)

StoreIInv == StoreTypeOK /\ Recording /\ Fetching /\ RecordedIsDone /\ EnsureLeavesNoHole

-----------------------------------------------------------------------------
\* A set of natural numbers that is not empty has a least one.
LEMMA MinProperty ==
  ASSUME NEW S \in SUBSET Nat, S # {}
  PROVE  Min(S) \in S /\ \A n \in S : Min(S) <= n
<1>. DEFINE Below == {0..n : n \in S}
<1>1. Below \subseteq FiniteSubsetsOf(Nat) /\ Below # {}
  <2>1. ASSUME NEW n \in S PROVE 0..n \in SUBSET Nat /\ IsFiniteSet(0..n)
    BY FS_Interval
  <2>. QED BY <2>1 DEF FiniteSubsetsOf
<1>2. PICK least \in Below : \A b \in Below : ~(<<b, least>> \in StrictSubsetOrdering(Nat))
  BY <1>1, FS_StrictSubsetOrderingWellFounded, WFMin
<1>3. PICK m \in S : least = 0..m
  OBVIOUS
<1>4. ASSUME NEW n \in S PROVE m <= n
  <2>1. <<0..n, 0..m>> \notin StrictSubsetOrdering(Nat)
    BY <1>2, <1>3
  <2>2. 0..n \in SUBSET Nat /\ 0..m \in SUBSET Nat
    OBVIOUS
  <2>3. ~(0..n \subseteq 0..m /\ 0..n # 0..m)
    BY <2>1, <2>2 DEF StrictSubsetOrdering
  <2>. QED BY <2>3
<1>. QED BY <1>4 DEF Min

\* What is known of a call from where it is.
LEMMA CallFields ==
  ASSUME NEW x \in Calls
  PROVE  /\ x.at \in {"collect", "store"} =>
              /\ x.named \in BOOLEAN
              /\ x.missing \in SUBSET Dates
              /\ x.got \in SUBSET Dates
              /\ x.due \in SUBSET Dates
         /\ x.at \in {"store", "store sync"} => x.date \in Dates /\ x.bar \in Editions
         /\ x.at \in {"look", "apply", "drop", "record"} => x.migration \in Migrations
<1>1. CASE x = Idle
  BY <1>1 DEF Idle
<1>2. CASE x \in [at : {"collect"}, named : BOOLEAN, missing : SUBSET Dates, got : SUBSET Dates,
                  due : SUBSET Dates]
  BY <1>2
<1>3. CASE x \in [at : {"store"}, named : BOOLEAN, missing : SUBSET Dates, got : SUBSET Dates,
                  due : SUBSET Dates, date : Dates, bar : Editions]
  BY <1>3
<1>4. CASE x \in [at : {"ensured"}, answer : SUBSET Dates, due : SUBSET Dates]
  BY <1>4
<1>5. CASE x \in [at : {"store sync"}, date : Dates, bar : Editions]
  BY <1>5
<1>6. CASE x \in [at : {"look", "apply", "drop", "record"}, migration : Migrations]
  BY <1>6
<1>. QED BY <1>1, <1>2, <1>3, <1>4, <1>5, <1>6 DEF Calls

\* Membership of the calls, one lemma for each place.
LEMMA CallTypes ==
  ASSUME NEW named \in BOOLEAN, NEW missing \in SUBSET Dates, NEW got \in SUBSET Dates,
         NEW due \in SUBSET Dates, NEW date \in Dates, NEW bar \in Editions, NEW m \in Migrations
  PROVE  /\ Idle \in Calls
         /\ [at |-> "collect", named |-> named, missing |-> missing, got |-> got, due |-> due] \in Calls
         /\ [at |-> "store", named |-> named, missing |-> missing, got |-> got, due |-> due,
             date |-> date, bar |-> bar] \in Calls
         /\ [at |-> "ensured", answer |-> got, due |-> due] \in Calls
         /\ [at |-> "store sync", date |-> date, bar |-> bar] \in Calls
         /\ \A place \in {"look", "apply", "drop", "record"} : [at |-> place, migration |-> m] \in Calls
BY DEF Calls

-----------------------------------------------------------------------------
\* The invariant of the store holds at first.
LEMMA StoreInitIInv == StoreInit => StoreIInv
<1>. SUFFICES ASSUME StoreInit PROVE StoreIInv
  OBVIOUS
<1>. USE DEF StoreInit
<1>1. (0 \in Editions) /\ ((1 \in Editions) \/ (Latest = 0))
  BY DailyAssumption DEF Editions
<1>2. StoreTypeOK
  <2>1. Idle \in Calls
    BY DEF Calls
  <2>2. ASSUME NEW f \in [Dates -> {0, 1}], \A d \in Dates : f[d] <= source[d]
        PROVE  f \in [Dates -> Editions]
    BY <2>2, DailyAssumption DEF Editions
  <2>. QED BY <2>1, <2>2 DEF StoreTypeOK
<1>3. Recording /\ Fetching /\ RecordedIsDone /\ EnsureLeavesNoHole
  BY DEF Recording, Fetching, RecordedIsDone, EnsureLeavesNoHole, Idle
<1>. QED BY <1>2, <1>3 DEF StoreIInv

\* What an upsert of these dates leaves.
LEMMA UpsertProperty ==
  ASSUME StoreTypeOK, NEW dates \in SUBSET Dates, NEW edition \in [Dates -> Editions],
         Upserts(dates, edition), \A d \in dates : edition[d] # 0
  PROVE  /\ bars' \in [Dates -> Editions] /\ promoted' \in SUBSET promoted
         /\ \A d \in Dates : bars[d] # 0 \/ d \in dates => bars'[d] # 0
BY DEF Upserts, StoreTypeOK

\* Only the migrations' rows and the calls are left to say when no bar is lost, no
\* promoted key comes and no index either.
Keeps ==
  /\ \A d \in Dates : bars[d] # 0 => bars'[d] # 0
  /\ \A d \in Dates : source[d] # 0 => source'[d] # 0
  /\ promoted' \subseteq promoted
  /\ index' \in {index, FALSE}
  /\ recorded \subseteq recorded'
  /\ UNCHANGED old

TypedTables ==
  /\ source' \in [Dates -> Editions] /\ bars' \in [Dates -> Editions]
  /\ recorded' \subseteq Migrations

\* What holds of one client, to look at the one that moves.
RecordingOf(x) ==
  /\ x.at = "record" /\ x.migration = "copy" => Copied
  /\ x.at \in {"look", "apply", "record"} /\ x.migration = "cleanup" => "copy" \in recorded
  /\ x.at = "drop" => "copy" \in recorded /\ promoted = {}
  /\ x.at = "record" /\ x.migration = "cleanup" => Cleaned

FetchingOf(x) ==
  /\ x.at \in {"collect", "store"} =>
       /\ \A d \in x.missing \cap x.due : d \in Stored \cup Published
       /\ \A d \in x.due \ x.missing : d \in Stored \/ (x.at = "store" /\ d = x.date)
  /\ x.at = "store" => (x.date \in x.due => x.date \in Stored \/ x.bar # 0)

\* It holds after a step of one command that changes only where that command is, and after which
\* that command has what the invariant asks of it.
LEMMA FrameStep ==
  ASSUME StoreIInv, Keeps, TypedTables, NEW c \in Clients, NEW then \in Calls, Goes(c, then),
         RecordingOf(then)', FetchingOf(then)', RecordedIsDone',
         then.at = "ensured" => then.due \subseteq then.answer
  PROVE  StoreIInv'
<1>1. StoreTypeOK'
  BY DEF StoreIInv, StoreTypeOK, TypedTables, Keeps, Goes
<1>2. \A b \in Clients : call'[b] = IF b = c THEN then ELSE call[b]
  BY DEF StoreIInv, StoreTypeOK, Goes
<1>3. Recording'
  <2>. /\ Copied => Copied'
       /\ promoted = {} => promoted' = {}
       /\ "copy" \in recorded => ("copy" \in recorded)'
    BY DEF Keeps, Copied
  <2>. Cleaned => Cleaned'
    BY DEF Keeps, Cleaned
  <2>1. ASSUME NEW b \in Clients PROVE RecordingOf(call[b])'
    <3>1. CASE b = c
      BY <1>2, <3>1 DEF RecordingOf
    <3>2. CASE b # c
      <4>1. RecordingOf(call[b])
        BY DEF StoreIInv, Recording, RecordingOf
      <4>. QED BY <1>2, <3>2, <4>1 DEF RecordingOf
    <3>. QED BY <3>1, <3>2
  <2>. QED BY <2>1 DEF Recording, RecordingOf
<1>4. Fetching'
  <2>1. Stored \subseteq Stored' /\ Published \subseteq Published'
    BY DEF Stored, Published, Keeps
  <2>2. ASSUME NEW b \in Clients PROVE FetchingOf(call[b])'
    <3>1. CASE b = c
      BY <1>2, <3>1 DEF FetchingOf
    <3>2. CASE b # c
      <4>1. FetchingOf(call[b])
        BY DEF StoreIInv, Fetching, FetchingOf
      <4>. QED BY <1>2, <2>1, <3>2, <4>1 DEF FetchingOf
    <3>. QED BY <3>1, <3>2
  <2>. QED BY <2>2 DEF Fetching, FetchingOf
<1>5. EnsureLeavesNoHole'
  BY <1>2 DEF StoreIInv, EnsureLeavesNoHole
<1>. QED BY <1>1, <1>3, <1>4, <1>5 DEF StoreIInv

\* A step that touches none of the tables.
LEMMA CallOnlyStep ==
  ASSUME StoreIInv, UNCHANGED <<source, old, bars, promoted, index, recorded>>,
         NEW c \in Clients, NEW then \in Calls, Goes(c, then),
         RecordingOf(then), FetchingOf(then),
         then.at = "ensured" => then.due \subseteq then.answer
  PROVE  StoreIInv'
<1>1. Keeps /\ TypedTables
  BY DEF Keeps, TypedTables, StoreIInv, StoreTypeOK
<1>2. RecordingOf(then)' /\ FetchingOf(then)' /\ RecordedIsDone'
  BY DEF RecordingOf, FetchingOf, Copied, Cleaned, Stored, Published, StoreIInv, RecordedIsDone
<1>. QED BY <1>1, <1>2, FrameStep

\* What the invariant says of one command.
LEMMA ClientsAre ==
  ASSUME StoreIInv, NEW c \in Clients
  PROVE  call[c] \in Calls /\ RecordingOf(call[c]) /\ FetchingOf(call[c])
BY DEF StoreIInv, StoreTypeOK, Recording, RecordingOf, Fetching, FetchingOf

-----------------------------------------------------------------------------
(* Ensure and Sync                                                         *)

\* Ensure reads what is stored and keeps the invariant.
LEMMA EnsureStep ==
  ASSUME StoreIInv, NEW c \in Clients, NEW named \in BOOLEAN, Ensure(c, named)
  PROVE  StoreIInv'
<1>. DEFINE due     == Stored \cup Published
            missing == Missing(named)
            then    == [at |-> "collect", named |-> named, missing |-> missing, got |-> {}, due |-> due]
<1>1. missing \in SUBSET Dates /\ due \in SUBSET Dates
  BY DEF Missing, Stored, Published
<1>2. then \in Calls
  BY <1>1 DEF Calls
<1>3. \A d \in due \ missing : d \in Stored
  BY <1>1 DEF Missing
<1>4. RecordingOf(then) /\ FetchingOf(then)
  BY <1>3 DEF RecordingOf, FetchingOf
<1>. QED BY <1>2, <1>4, CallOnlyStep DEF Ensure

\* So does the fetch of a date (fetchRange),
LEMMA FetchDateStep ==
  ASSUME StoreIInv, NEW c \in Clients, FetchDate(c)
  PROVE  StoreIInv'
<1>. DEFINE x    == call[c]
            date == Min(x.missing)
            then == [at |-> "store", named |-> x.named, missing |-> x.missing \ {date},
                     got |-> x.got, due |-> x.due, date |-> date, bar |-> source[date]]
<1>1. /\ x.at = "collect" /\ FetchingOf(x)
      /\ x.named \in BOOLEAN /\ x.missing \in SUBSET Dates /\ x.got \in SUBSET Dates
      /\ x.due \in SUBSET Dates /\ x.missing # {}
  BY ClientsAre, CallFields DEF FetchDate
<1>2. date \in x.missing
  BY <1>1, MinProperty, DailyAssumption
<1>3. source[date] \in Editions
  BY <1>1, <1>2 DEF StoreIInv, StoreTypeOK
<1>4. then \in Calls
  BY <1>1, <1>2, <1>3 DEF Calls
<1>5. date \in x.due => date \in Stored \/ source[date] # 0
  BY <1>1, <1>2 DEF FetchingOf, Published
<1>6. FetchingOf(then)
  BY <1>1, <1>2, <1>5 DEF FetchingOf
<1>7. RecordingOf(then)
  BY DEF RecordingOf
<1>. QED BY <1>4, <1>6, <1>7, CallOnlyStep DEF FetchDate

\* its write (storeCollection),
LEMMA StoreDateStep ==
  ASSUME StoreIInv, NEW c \in Clients, StoreDate(c)
  PROVE  StoreIInv'
<1>0. PICK x \in Calls : x = call[c]
  BY ClientsAre
<1>. DEFINE new  == Bar(x.date, x.bar)
            then == [at |-> "collect", named |-> x.named, missing |-> x.missing,
                     got |-> x.got \cup new, due |-> x.due]
<1>1. /\ x.at = "store" /\ FetchingOf(x)
      /\ x.named \in BOOLEAN /\ x.missing \in SUBSET Dates /\ x.got \in SUBSET Dates
      /\ x.due \in SUBSET Dates /\ x.date \in Dates /\ x.bar \in Editions
  BY <1>0, ClientsAre, CallFields DEF StoreDate
<1>2. new \in SUBSET Dates /\ (\A d \in new : x.bar # 0) /\ (x.bar # 0 => new = {x.date})
  BY <1>1 DEF Bar
<1>3. /\ bars' \in [Dates -> Editions] /\ promoted' \in SUBSET promoted
      /\ \A d \in Dates : bars[d] # 0 \/ d \in new => bars'[d] # 0
  <2>. DEFINE edition == [d \in Dates |-> x.bar]
  <2>1. edition \in [Dates -> Editions] /\ \A d \in new : edition[d] # 0
    BY <1>1, <1>2
  <2>2. StoreTypeOK /\ Upserts(new, edition)
    BY <1>0 DEF StoreDate, StoreIInv
  <2>. HIDE DEF edition, new
  <2>. QED BY <1>2, <2>1, <2>2, UpsertProperty
<1>4. Keeps /\ TypedTables
  BY <1>3 DEF StoreDate, Keeps, TypedTables, StoreIInv, StoreTypeOK
<1>5. then \in Calls
  BY <1>1, <1>2 DEF Calls
<1>6. FetchingOf(then)'
  <2>1. Stored \subseteq Stored' /\ Published \subseteq Published' /\ new \subseteq Stored'
    BY <1>2, <1>3, <1>4 DEF Stored, Published, Keeps
  <2>2. \A d \in x.missing \cap x.due : d \in Stored' \cup Published'
    BY <1>1, <2>1 DEF FetchingOf
  <2>3. \A d \in x.due \ x.missing : d \in Stored'
    BY <1>1, <1>2, <2>1 DEF FetchingOf
  <2>. QED BY <2>2, <2>3 DEF FetchingOf
<1>7. RecordingOf(then)'
  BY DEF RecordingOf
<1>8. RecordedIsDone'
  BY <1>4 DEF StoreDate, Keeps, StoreIInv, StoreTypeOK, RecordedIsDone
<1>9. Goes(c, then) /\ then.at # "ensured"
  BY <1>0 DEF StoreDate
<1>. HIDE DEF then
<1>. QED BY <1>4, <1>5, <1>6, <1>7, <1>8, <1>9, FrameStep

\* and the answer;
LEMMA AnswerEnsureStep ==
  ASSUME StoreIInv, NEW c \in Clients, AnswerEnsure(c)
  PROVE  StoreIInv'
<1>. DEFINE x      == call[c]
            answer == IF x.named /\ x.got = {} THEN {} ELSE Stored
            then   == IF answer = {} THEN Idle ELSE [at |-> "ensured", answer |-> answer, due |-> x.due]
<1>1. /\ x.at = "collect" /\ FetchingOf(x) /\ x.due \in SUBSET Dates /\ x.missing = {}
      /\ Stored \in SUBSET Dates
  BY ClientsAre, CallFields DEF AnswerEnsure, Stored
<1>2. x.due \subseteq Stored
  BY <1>1 DEF FetchingOf
<1>3. then \in Calls
  BY <1>1 DEF Calls
<1>4. RecordingOf(then) /\ FetchingOf(then)
  BY DEF RecordingOf, FetchingOf, Idle
<1>5. then.at = "ensured" => then.due \subseteq then.answer
  BY <1>2 DEF Idle
<1>. QED BY <1>3, <1>4, <1>5, CallOnlyStep DEF AnswerEnsure

\* so do the steps of Sync,
LEMMA SyncSteps ==
  ASSUME StoreIInv, NEW c \in Clients, (\E date \in Dates : Sync(c, date)) \/ StoreSync(c)
  PROVE  StoreIInv'
<1>1. ASSUME NEW date \in Dates, Sync(c, date) PROVE StoreIInv'
  <2>. DEFINE then == [at |-> "store sync", date |-> date, bar |-> source[date]]
  <2>1. then \in Calls
    BY DEF Calls, StoreIInv, StoreTypeOK
  <2>2. RecordingOf(then) /\ FetchingOf(then)
    BY DEF RecordingOf, FetchingOf
  <2>. QED BY <1>1, <2>1, <2>2, CallOnlyStep DEF Sync
<1>2. ASSUME StoreSync(c) PROVE StoreIInv'
  <2>. DEFINE x   == call[c]
              new == Bar(x.date, x.bar)
  <2>1. x.date \in Dates /\ x.bar \in Editions
    BY <1>2, ClientsAre, CallFields DEF StoreSync
  <2>2. new \in SUBSET Dates /\ (\A d \in new : x.bar # 0)
    BY <2>1 DEF Bar
  <2>3. /\ bars' \in [Dates -> Editions] /\ promoted' \in SUBSET promoted
        /\ \A d \in Dates : bars[d] # 0 \/ d \in new => bars'[d] # 0
    <3>. DEFINE edition == [d \in Dates |-> x.bar]
    <3>1. edition \in [Dates -> Editions] /\ \A d \in new : edition[d] # 0
      BY <2>1, <2>2
    <3>2. StoreTypeOK /\ Upserts(new, edition)
      BY <1>2 DEF StoreSync, StoreIInv
    <3>. HIDE DEF edition, new
    <3>. QED BY <2>2, <3>1, <3>2, UpsertProperty
  <2>4. Keeps /\ TypedTables
    BY <1>2, <2>3 DEF StoreSync, Keeps, TypedTables, StoreIInv, StoreTypeOK
  <2>5. Idle \in Calls /\ RecordingOf(Idle)' /\ FetchingOf(Idle)' /\ Idle.at # "ensured"
    BY DEF Calls, RecordingOf, FetchingOf, Idle
  <2>6. RecordedIsDone'
    BY <1>2, <2>4 DEF StoreSync, Keeps, StoreIInv, StoreTypeOK, RecordedIsDone
  <2>. QED BY <1>2, <2>4, <2>5, <2>6, FrameStep DEF StoreSync
<1>. QED BY <1>1, <1>2

\* The provider has something new: no bar that was there goes.
LEMMA PublishStep ==
  ASSUME StoreIInv, NEW date \in Dates, Publish(date)
  PROVE  StoreIInv'
<1>1. source' \in [Dates -> Editions] /\ \A d \in Dates : source[d] # 0 => source'[d] # 0
  BY DailyAssumption DEF Publish, StoreIInv, StoreTypeOK, Editions
<1>2. Published \subseteq Published' /\ UNCHANGED <<old, bars, promoted, index, recorded, call>>
  BY <1>1 DEF Publish, Published
<1>3. StoreTypeOK' /\ Recording' /\ RecordedIsDone' /\ EnsureLeavesNoHole'
  BY <1>1, <1>2 DEF StoreIInv, StoreTypeOK, Recording, Copied, Cleaned, RecordedIsDone, EnsureLeavesNoHole
<1>4. Fetching'
  BY <1>2 DEF StoreIInv, Fetching, Stored
<1>. QED BY <1>3, <1>4 DEF StoreIInv

-----------------------------------------------------------------------------
(* Migrations, and the end of a command                                    *)

\* the start and the look-up of a migration, and the end of any command,
LEMMA LookStep ==
  ASSUME StoreIInv, NEW c \in Clients, Migrate(c) \/ LookUp(c) \/ End(c)
  PROVE  StoreIInv'
<1>1. ASSUME Migrate(c) PROVE StoreIInv'
  <2>. DEFINE then == [at |-> "look", migration |-> "copy"]
  <2>1. then \in Calls /\ RecordingOf(then) /\ FetchingOf(then)
    BY DEF Calls, Migrations, RecordingOf, FetchingOf
  <2>. QED BY <1>1, <2>1, CallOnlyStep DEF Migrate
<1>2. ASSUME LookUp(c) PROVE StoreIInv'
  <2>. DEFINE m    == call[c].migration
              then == IF m \in recorded THEN After(m) ELSE [at |-> "apply", migration |-> m]
  <2>1. m \in Migrations /\ RecordingOf(call[c]) /\ call[c].at = "look"
    BY <1>2, ClientsAre, CallFields DEF LookUp
  <2>2. then \in Calls /\ FetchingOf(then) /\ then.at # "ensured"
    BY <2>1 DEF Calls, Migrations, After, FetchingOf, Idle
  <2>3. RecordingOf(then)
    BY <2>1 DEF RecordingOf, Migrations, After, Idle
  <2>. QED BY <1>2, <2>2, <2>3, CallOnlyStep DEF LookUp
<1>3. ASSUME End(c) PROVE StoreIInv'
  <2>1. Idle \in Calls /\ RecordingOf(Idle) /\ FetchingOf(Idle) /\ Idle.at # "ensured"
    BY DEF Calls, RecordingOf, FetchingOf, Idle
  <2>. QED BY <1>3, <2>1, CallOnlyStep DEF End
<1>. QED BY <1>1, <1>2, <1>3

\* the copy of version 1,
LEMMA CopyStep ==
  ASSUME StoreIInv, NEW c \in Clients, Copy(c)
  PROVE  StoreIInv'
<1>. DEFINE dates == {d \in Dates : old[d] # 0}
            then  == [at |-> "record", migration |-> "copy"]
<1>1. /\ bars' \in [Dates -> Editions] /\ promoted' \in SUBSET promoted
      /\ \A d \in Dates : bars[d] # 0 \/ d \in dates => bars'[d] # 0
  BY UpsertProperty DEF Copy, StoreIInv, StoreTypeOK
<1>2. Keeps /\ TypedTables /\ Copied'
  BY <1>1 DEF Copy, Keeps, TypedTables, Copied, StoreIInv, StoreTypeOK
<1>3. then \in Calls /\ RecordingOf(then)' /\ FetchingOf(then)'
  BY <1>2 DEF Calls, Migrations, RecordingOf, FetchingOf
<1>4. RecordedIsDone'
  BY <1>2 DEF Copy, Keeps, Copied, StoreIInv, StoreTypeOK, RecordedIsDone
<1>. QED BY <1>2, <1>3, <1>4, FrameStep DEF Copy

\* the two parts of the clean-up,
LEMMA CleanupSteps ==
  ASSUME StoreIInv, NEW c \in Clients, DeletePromoted(c) \/ DropIndex(c)
  PROVE  StoreIInv'
<1>1. ASSUME DeletePromoted(c) PROVE StoreIInv'
  <2>. DEFINE then == [at |-> "drop", migration |-> "cleanup"]
  <2>1. Keeps /\ TypedTables /\ promoted' = {} /\ "copy" \in recorded'
    BY <1>1, ClientsAre DEF DeletePromoted, RecordingOf, Keeps, TypedTables, StoreIInv, StoreTypeOK
  <2>2. then \in Calls /\ RecordingOf(then)' /\ FetchingOf(then)' /\ then.at # "ensured"
    BY <2>1 DEF Calls, Migrations, RecordingOf, FetchingOf
  <2>3. RecordedIsDone'
    BY <1>1 DEF DeletePromoted, StoreIInv, RecordedIsDone
  <2>. QED BY <1>1, <2>1, <2>2, <2>3, FrameStep DEF DeletePromoted
<1>2. ASSUME DropIndex(c) PROVE StoreIInv'
  <2>. DEFINE then == [at |-> "record", migration |-> "cleanup"]
  <2>1. Keeps /\ TypedTables /\ promoted' = {} /\ index' = FALSE /\ "copy" \in recorded'
    BY <1>2, ClientsAre DEF DropIndex, RecordingOf, Keeps, TypedTables, StoreIInv, StoreTypeOK
  <2>2. then \in Calls /\ RecordingOf(then)' /\ FetchingOf(then)' /\ then.at # "ensured"
    BY <2>1 DEF Calls, Migrations, RecordingOf, FetchingOf, Cleaned
  <2>3. RecordedIsDone'
    BY <1>2, <2>1 DEF DropIndex, StoreIInv, RecordedIsDone
  <2>. QED BY <1>2, <2>1, <2>2, <2>3, FrameStep DEF DropIndex
<1>. QED BY <1>1, <1>2

\* and the record of a migration (RecordApplied).
LEMMA RecordStep ==
  ASSUME StoreIInv, NEW c \in Clients, Record(c)
  PROVE  StoreIInv'
<1>0. PICK m \in Migrations : m = call[c].migration
  BY ClientsAre, CallFields DEF Record
<1>1. RecordingOf(call[c]) /\ call[c].at = "record"
  BY ClientsAre DEF Record
<1>2. Keeps /\ TypedTables /\ recorded' = recorded \cup {m}
  BY <1>0 DEF Record, Keeps, TypedTables, StoreIInv, StoreTypeOK
<1>3. /\ m = "copy" => Copied /\ After(m) = [at |-> "look", migration |-> "cleanup"]
      /\ m = "cleanup" => Cleaned /\ "copy" \in recorded /\ After(m) = Idle
      /\ m \in {"copy", "cleanup"}
  BY <1>0, <1>1 DEF RecordingOf, Migrations, After
<1>4. After(m) \in Calls /\ FetchingOf(After(m))' /\ After(m).at # "ensured"
  <2>1. [at |-> "look", migration |-> "cleanup"] \in Calls /\ Idle \in Calls
    BY DEF Calls, Migrations
  <2>2. After(m).at \in {"look", "idle"}
    BY <1>3 DEF Idle
  <2>. QED BY <1>3, <2>1, <2>2 DEF FetchingOf
<1>5. RecordingOf(After(m))'
  BY <1>2, <1>3 DEF RecordingOf, Idle
<1>6. RecordedIsDone'
  BY <1>2, <1>3 DEF Record, Copied, Cleaned, StoreIInv, RecordedIsDone
<1>. QED BY <1>0, <1>2, <1>4, <1>5, <1>6, FrameStep DEF Record

-----------------------------------------------------------------------------
\* The invariant holds in every reachable state.
THEOREM StoreInvariance == StoreSpec => []StoreIInv
<1>1. StoreIInv /\ [StoreNext]_storeVars => StoreIInv'
  <2>1. ASSUME StoreIInv, NEW c \in Clients, ClientStep(c) PROVE StoreIInv'
    BY <2>1, EnsureStep, FetchDateStep, StoreDateStep, AnswerEnsureStep, SyncSteps, LookStep,
       CopyStep, CleanupSteps, RecordStep DEF ClientStep
  <2>2. ASSUME StoreIInv, UNCHANGED storeVars PROVE StoreIInv'
    BY <2>2 DEF storeVars, StoreIInv, StoreTypeOK, Recording, Copied, Cleaned, Fetching, Stored, Published,
       RecordedIsDone, EnsureLeavesNoHole
  <2>. QED BY <2>1, <2>2, PublishStep DEF StoreNext
<1>. QED BY <1>1, StoreInitIInv, PTL DEF StoreSpec

\* Every variable keeps its type, for any number of commands, dates and editions.
THEOREM StoreTypeCorrect == StoreSpec => []StoreTypeOK
BY StoreInvariance, PTL DEF StoreIInv

\* A migration that is never applied again has done its work, wherever a process
\* died before and whatever is written afterwards (Runner.Apply).
THEOREM MigrationsAreDone == StoreSpec => []RecordedIsDone
BY StoreInvariance, PTL DEF StoreIInv

\* The answer of Ensure has every bar there was when it was called, whichever other
\* commands run (Ensure).
THEOREM NoHoles == StoreSpec => []EnsureLeavesNoHole
BY StoreInvariance, PTL DEF StoreIInv
=============================================================================
