--------------------------- MODULE EvaluationPool ---------------------------
(***************************************************************************)
(* service/backtest RunEvaluation: the cases of an evaluation, each a      *)
(* backtest of its own, in a bounded pool of workers; then, for each step  *)
(* of the walk-forward, the train cases in the same kind of pool, the best *)
(* of them, and its parameters once more over the test period; then the    *)
(* whole is saved.                                                         *)
(*                                                                         *)
(*   caller --jobs--> workers --results[index], firstErr--> caller         *)
(*                                                                         *)
(* jobs is unbuffered: a send and its receive are one step. A select       *)
(* between it and ctx.Done() is two actions. Stage 0 is the pool of the    *)
(* evaluation, stage k that of the train cases of step k.                  *)
(***************************************************************************)
EXTENDS EvaluationPlan

CONSTANTS
  Requests,     \* the evaluations that are asked for
  MaxWorkers,   \* bound: the largest parallelism
  Values,       \* bound: the values of a metric
  Tags          \* bound: the tags that a case may get

\* The tags of a case: the direction of its benchmark, or else of its equity, and how
\* volatile it was.
RegimeTags == {{trend, vol} : trend \in {"bull", "bear", "sideways"}, vol \in {"high_vol", "low_vol"}}

\* The option of the command line comes before the document, and one worker before none.
Parallelism(r) ==
  IF r.option > 0 THEN r.option ELSE IF r.parallelism > 0 THEN r.parallelism ELSE 1

ASSUME PoolAssumption ==
  /\ MaxWorkers \in Nat \ {0} /\ \A r \in Requests : Parallelism(r) <= MaxWorkers
  /\ Values \subseteq Int /\ Values # {}
  /\ Tags \subseteq RegimeTags /\ Tags # {}

Durations == [years : Nat, months : Nat, days : Nat]

Selections == [preset : STRING, include : SUBSET STRING, exclude : SUBSET STRING]

Weights == {r.ranking.weights : r \in Requests} \cup {r.select.weights : r \in Requests}

\* What the fields of a request hold. No duration goes back in time: nothing validates
\* that, and a walk-forward that does would never end.
ASSUME RequestAssumption ==
  /\ \A r \in Requests :
       /\ r.from \in Nat /\ r.to \in Int
       /\ r.items \in Seq([from : Int, to : Int])
       /\ {r.window, r.step, r.train, r.test, r.advance} \subseteq Durations
       /\ r.parameters \in Seq([path : STRING, values : Seq(Int)])
       /\ r.search.samples \in Int
       /\ r.search.parameters \in
            Seq([path : STRING, values : Seq(Int), range : {<<>>} \cup [min : Int, max : Int, step : Int]])
       /\ r.metrics \in Selections
  /\ \A weights \in Weights : IsFiniteSet(DOMAIN weights) /\ weights \in [DOMAIN weights -> Int]

Workers == 1..MaxWorkers

VARIABLES
  request,    \* what is asked for
  plan,       \* what it was compiled to
  main,       \* where the caller is: "compile", "offer", "wait", "test", "save", "returned"
  stage,      \* which pool
  next,       \* the index the caller offers
  at,         \* where each worker is: "off", "idle", "running", "gone"
  job,        \* the case in each worker's hands
  results,    \* the results of the pool
  firstErr,   \* its first error
  poolDone,   \* its cancel() was called
  parentDone, \* the caller's ctx is cancelled
  evaluated,  \* the results of stage 0, with their ranks, once it is over
  chosen,     \* the train case and the test case chosen in each step
  stored,     \* what the store has of the evaluation: "nothing", "header", "all"
  result,     \* "none" until the call returns, then "ok" or its error
  truth       \* history: what the case i of stage k came to, at <<k, i>>

planVars == <<request, plan>>
callVars == <<evaluated, chosen, stored, result>>
poolVars == <<next, at, job, results, firstErr, poolDone, truth>>

vars == <<planVars, main, stage, poolVars, parentDone, callVars>>

NoPlan == [cases |-> <<>>, steps |-> <<>>]

\* A slot that nobody has written: to the code, a case that fails the constraints.
EmptySlot == [metrics |-> <<>>, tags |-> {}, passed |-> FALSE, rank |-> 0, value |-> 0]

-----------------------------------------------------------------------------
PoolCtxDone == parentDone \/ poolDone

\* The cases of pool k, what they are ranked by and what they must meet.
CasesAt(k)       == IF k = 0 THEN plan.cases ELSE plan.steps[k].train
RankingAt(k)     == IF k = 0 THEN request.ranking ELSE WalkForwardRanking(request)
ConstraintsAt(k) == IF k = 0 THEN request.constraints ELSE WalkForwardConstraints(request)

\* The metrics of its cases that anything depends on.
MetricsRead(k) ==
  ObjectiveMetrics(RankingAt(k)) \cup {ConstraintMetric[c] : c \in DOMAIN ConstraintsAt(k)}

\* What the backtest of a case may come to. The tags of a train case are not used.
Outcomes(k, case) ==
  [metrics : [case.metrics \cap MetricsRead(k) -> Values], tags : IF k = 0 THEN Tags ELSE {{}}]

\* A new pool: a result slot for each case, and no more workers than cases. Without
\* cases there is no pool, and nothing to wait for.
StartPool(cases) ==
  LET workers == Min({Parallelism(request), Len(cases)})
  IN  /\ main' = IF cases = <<>> THEN "wait" ELSE "offer"
      /\ next' = 1
      /\ at' = [w \in Workers |-> IF w <= workers THEN "idle" ELSE "off"]
      /\ job' = [w \in Workers |-> 1]
      /\ results' = [i \in DOMAIN cases |-> EmptySlot]
      /\ firstErr' = "none" /\ poolDone' = FALSE
      /\ UNCHANGED truth

Init ==
  /\ request \in Requests /\ plan = NoPlan
  /\ main = "compile" /\ stage = 0 /\ next = 1
  /\ at = [w \in Workers |-> "off"] /\ job = [w \in Workers |-> 1]
  /\ results = <<>> /\ firstErr = "none" /\ poolDone = FALSE /\ parentDone = FALSE
  /\ evaluated = <<>> /\ chosen = <<>>
  /\ stored = "nothing" /\ result = "none" /\ truth = <<>>

Return(how) ==
  /\ main' = "returned" /\ result' = how
  /\ UNCHANGED <<stage, poolVars, evaluated, chosen, stored>>

\* CompileEvaluation. ValidateEvaluation ends here; RunEvaluation goes on with the cases.
Compile ==
  LET drafts == Drafts(request)
  IN  /\ main = "compile"
      /\ \/ drafts = {} /\ plan' = NoPlan /\ Return("invalid")
         \/ \E draft \in drafts :
              IF ~Compiles(request, draft) THEN plan' = NoPlan /\ Return("invalid")
              ELSE /\ plan' = draft
                   /\ IF request.command = "validate" THEN Return("ok")
                      ELSE IF request.option < 0 THEN Return("invalid")
                      ELSE StartPool(draft.cases) /\ UNCHANGED <<stage, callVars>>
         \/ parentDone /\ plan' = NoPlan /\ Return("canceled")
      /\ UNCHANGED <<request, parentDone>>

-----------------------------------------------------------------------------
(* The pool                                                                *)

\* The caller hands the next case to worker w.
TakeCase(w) ==
  /\ main = "offer" /\ next \in DOMAIN results /\ at[w] = "idle"
  /\ at' = [at EXCEPT ![w] = "running"]
  /\ job' = [job EXCEPT ![w] = next]
  /\ next' = next + 1
  /\ UNCHANGED <<planVars, main, stage, results, firstErr, poolDone, truth, parentDone, callVars>>

\* The caller has offered all cases, or sees the ctx done, and closes jobs.
CloseJobs ==
  /\ main = "offer" /\ (next \notin DOMAIN results \/ PoolCtxDone)
  /\ main' = "wait"
  /\ UNCHANGED <<planVars, stage, poolVars, parentDone, callVars>>

\* The backtest of case i comes to o, and its result goes to a slot.
Record(i, o, slot) ==
  /\ results' = [results EXCEPT ![slot] =
                   [EmptySlot EXCEPT !.metrics = o.metrics, !.tags = o.tags,
                                     !.passed  = PassesConstraints(o.metrics, ConstraintsAt(stage))]]
  /\ truth' = With(truth, <<stage, i>>, o)

\* Slip: results are kept in the order in which they come.
FinishInOrder(w) ==
  /\ at[w] = "running"
  /\ \E o \in Outcomes(stage, CasesAt(stage)[job[w]]) :
       Record(job[w], o, Cardinality({i \in DOMAIN results : <<stage, i>> \in DOMAIN truth}) + 1)
  /\ at' = [at EXCEPT ![w] = "idle"]
  /\ UNCHANGED <<planVars, main, stage, next, job, firstErr, poolDone, parentDone, callVars>>

\* Worker w finishes its backtest; with a cancelled ctx it may still get there.
FinishCase(w) ==
  /\ at[w] = "running"
  /\ \E o \in Outcomes(stage, CasesAt(stage)[job[w]]) : Record(job[w], o, job[w])
  /\ at' = [at EXCEPT ![w] = "idle"]
  /\ UNCHANGED <<planVars, main, stage, next, job, firstErr, poolDone, parentDone, callVars>>

\* Slip: the last error is kept.
KeepLast(err) == firstErr' = err /\ poolDone' = TRUE

\* setError: under its lock, the first error is kept and cancels the others.
SetError(err) ==
  /\ firstErr' = IF firstErr = "none" THEN err ELSE firstErr
  /\ poolDone' = TRUE

\* Worker w's backtest fails, by itself or by the ctx. The worker goes on with
\* the next case.
FailCase(w) ==
  /\ at[w] = "running"
  /\ SetError("failed") \/ (PoolCtxDone /\ SetError("canceled"))
  /\ at' = [at EXCEPT ![w] = "idle"]
  /\ UNCHANGED <<planVars, main, stage, next, job, results, truth, parentDone, callVars>>

\* Slip: jobs is closed only when every case was offered.
LeaveAtEnd(w) ==
  /\ main # "offer" /\ next \notin DOMAIN results /\ at[w] = "idle"
  /\ at' = [at EXCEPT ![w] = "gone"]
  /\ UNCHANGED <<planVars, main, stage, next, job, results, firstErr, poolDone, truth, parentDone, callVars>>

\* Worker w finds jobs closed.
LeavePool(w) ==
  /\ main # "offer" /\ at[w] = "idle"
  /\ at' = [at EXCEPT ![w] = "gone"]
  /\ UNCHANGED <<planVars, main, stage, next, job, results, firstErr, poolDone, truth, parentDone, callVars>>

AllGone == \A w \in Workers : at[w] \in {"off", "gone"}

-----------------------------------------------------------------------------
(* The caller                                                              *)

\* After stage k: the next train pool, or the end of the walk-forward.
ToStage(k) ==
  IF k <= Len(plan.steps)
  THEN stage' = k /\ StartPool(CasesAt(k))
  ELSE main' = "save" /\ UNCHANGED <<stage, poolVars>>

\* The head of the ranking.
Best(ranking) == Head(Ranking(results, ranking))

\* The pool returned results. Those of the evaluation are ranked and kept: that none
\* passes is no error. Of train cases the best is chosen, with the test case that has
\* its parameters. A ranking whose order is neither asc nor desc fails here.
UseResults ==
  LET ranking == RankingAt(stage)
  IN  IF \/ ~ValidOrder(ranking)
         \/ \E i \in Passing(results) : ~HasObjective(results[i].metrics, ranking)
      THEN Return("failed")
      ELSE IF stage = 0
      THEN /\ evaluated' = WithRanks(results, ranking)
           /\ ToStage(1)
           /\ UNCHANGED <<chosen, stored, result>>
      ELSE IF Passing(results) = {}
      THEN Return("no case passed")
      ELSE /\ chosen' = Append(chosen, [train |-> Best(ranking),
                                        test  |-> MatchingTestCase(plan.steps[stage], Best(ranking))])
           /\ main' = "test"
           /\ UNCHANGED <<stage, poolVars, evaluated, stored, result>>

\* wg.Wait() is over: the first error, or the ctx's, or the results.
ConcludePool ==
  /\ main = "wait" /\ AllGone
  /\ IF firstErr # "none" THEN Return(firstErr)
     ELSE IF parentDone /\ results # <<>> THEN Return("canceled")
     ELSE UseResults
  /\ UNCHANGED <<planVars, parentDone>>

\* The test case of the step. Its result has no part in the choice, nor in the next one.
RunTestCase ==
  /\ main = "test"
  /\ \/ ToStage(stage + 1) /\ UNCHANGED callVars
     \/ Return("failed")
     \/ parentDone /\ Return("canceled")
  /\ UNCHANGED <<planVars, parentDone>>

\* SaveEvaluation: all of it in one transaction, or nothing; MongoDB may be left
\* with the experiment and without its cases.
Save ==
  /\ main = "save" /\ main' = "returned"
  /\ \/ stored' = "all" /\ result' \in {"ok", "failed"}
     \/ stored' \in {"nothing", "header"} /\ result' = "failed"
     \/ stored' \in {"nothing", "header"} /\ result' = "canceled" /\ parentDone
  /\ UNCHANGED <<planVars, stage, poolVars, parentDone, evaluated, chosen>>

\* The caller's ctx is cancelled (external, at any time).
CancelParent ==
  /\ ~parentDone /\ main # "returned"
  /\ parentDone' = TRUE
  /\ UNCHANGED <<planVars, main, stage, poolVars, callVars>>

CallerStep == Compile \/ CloseJobs \/ ConcludePool \/ RunTestCase \/ Save

WorkerStep(w) == TakeCase(w) \/ FinishCase(w) \/ FailCase(w) \/ LeavePool(w)

Rest == main = "returned" /\ UNCHANGED vars

Next ==
  \/ CallerStep
  \/ \E w \in Workers : WorkerStep(w)
  \/ CancelParent
  \/ Rest

Spec == Init /\ [][Next]_vars

\* Go runs every goroutine that can run, and a backtest ends.
FairSpec ==
  /\ Spec
  /\ WF_vars(CallerStep)
  /\ \A w \in Workers : WF_vars(WorkerStep(w))

-----------------------------------------------------------------------------
\* No test day is seen in training: a test begins the day after its training ends, both
\* lie in the range asked for, and every parameter set has a test case. The periods of
\* a year, or of windows without a step, follow each other day by day, and windows that
\* grow begin together (buildWalkForwardSteps, yearlyPeriods, rollingPeriods).
TestsAreUnseen ==
  LET n         == Len(plan.steps)
      cases     == plan.cases
      follow(i) == cases[i + 1].period = cases[i].period \/ cases[i + 1].period.from = cases[i].period.to + 1
      tiled     == request.mode = "yearly" \/ (request.mode = "rolling" /\ request.step = NoDuration)
  IN  /\ \A k \in 1..n :
           LET step == plan.steps[k]
           IN  \A i \in DOMAIN step.train :
                 /\ step.test[i].parameters = step.train[i].parameters
                 /\ request.from <= step.train[i].period.from
                 /\ step.test[i].period.from = step.train[i].period.to + 1
                 /\ step.test[i].period.to <= request.to
      /\ tiled => \A i \in 1..(Len(cases) - 1) : follow(i)
      /\ request.mode = "expanding" => \A i \in DOMAIN cases : cases[i].period.from = request.from

\* Every metric that a ranking or a constraint reads is computed by the cases it is read
\* of, whatever the document includes or excludes; else a constraint would read 0. And
\* "validate" names the metrics that the cases compute
\* (evaluationWithRequiredMetricDependencies, includeMetricDependencies).
EveryMetricRead ==
  LET reported == ReportedMetrics(request)
      of(k, cases) == \A i \in DOMAIN cases : MetricsRead(k) \subseteq cases[i].metrics /\ cases[i].metrics = reported
  IN  of(0, plan.cases) /\ \A k \in DOMAIN plan.steps : of(k, plan.steps[k].train)

\* The error of a failed evaluation is that of a case, never the "context
\* canceled" of the cases which that one has stopped (setError).
RootCause == result = "canceled" => parentDone

\* What the case i of pool k came to: whether it passes, and its objective.
TrulyPasses(k, i) == PassesConstraints(truth[<<k, i>>].metrics, ConstraintsAt(k))
TrulyWorth(k, i)  == ObjectiveValue(truth[<<k, i>>].metrics, RankingAt(k))

\* Whether the case i of pool k has to come before the case j.
TrulyBefore(k, i, j) ==
  LET gain == IF RankingAt(k).order = "asc" THEN TrulyWorth(k, j) - TrulyWorth(k, i)
              ELSE TrulyWorth(k, i) - TrulyWorth(k, j)
  IN  gain > 0 \/ (gain = 0 /\ IdBefore(i, j))

\* The parameters tested in a step are those of the best of its own train cases
\* among those that pass, and the same ones however the workers took turns: ties
\* go to the smaller id, as a string (RankEvaluationResults, runWalkForward, matchingTestCase).
ChosenByTraining ==
  \A k \in DOMAIN chosen :
    LET best == chosen[k].train
        step == plan.steps[k]
    IN  /\ TrulyPasses(k, best)
        /\ \A i \in DOMAIN step.train : i # best /\ TrulyPasses(k, i) => TrulyBefore(k, best, i)
        /\ step.test[chosen[k].test].parameters = step.train[best].parameters

\* What is reported of the cases is what they came to, whichever worker came first: the
\* ranks are those of the cases that pass, in order of what they are worth, and each tag
\* counts its own cases and shows the best of them that passes, if any does
\* (results[index] = ..., applyRanks, BuildRegimeSplit).
ReportFitsCases ==
  LET cases == DOMAIN evaluated
      split == RegimeSplit(evaluated)
  IN  /\ \A i \in cases : (evaluated[i].rank > 0) = TrulyPasses(0, i)
      /\ \A i, j \in cases : TrulyPasses(0, i) /\ TrulyPasses(0, j) =>
           (evaluated[i].rank < evaluated[j].rank) = (i # j /\ TrulyBefore(0, i, j))
      /\ \A tag \in DOMAIN split :
           LET mine   == {i \in cases : tag \in truth[<<0, i>>].tags}
               passed == {i \in mine : TrulyPasses(0, i)}
               best   == split[tag].best
           IN  /\ split[tag].cases = Cardinality(mine) /\ split[tag].passed = Cardinality(passed)
               /\ best \in IF passed = {} THEN mine ELSE passed
               /\ \A i \in passed : i = best \/ TrulyBefore(0, best, i)

\* Every evaluation comes to an end, and its workers with it.
EveryoneStops == <>[](main = "returned" /\ AllGone)
=============================================================================
