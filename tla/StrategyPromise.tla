--------------------------- MODULE StrategyPromise ---------------------------
(***************************************************************************)
(* What a caller of the screen strategy service may rely on, whichever     *)
(* backend keeps the strategies: the interface Repository of               *)
(* service/strategy without its databases. One strategy, since calls on    *)
(* different names do not meet.                                            *)
(***************************************************************************)
EXTENDS Integers, Sequences

CONSTANTS
  Specs,    \* the contents a version may have
  MaxRows   \* bound: the most rows of a screen run

VARIABLES
  history,  \* the specs of the versions, oldest first; <<>> before the creation
  current,  \* which of them is the active one
  gone,     \* the strategy was deleted
  runs      \* the screen runs: of which version, its spec, how many rows, how many stored

vars == <<history, current, gone, runs>>

Init == history = <<>> /\ current = 0 /\ gone = FALSE /\ runs = <<>>

\* A new version comes last and becomes the active one; no older one changes. A
\* call that was under way when the strategy was deleted may still add its
\* version.
Publish(spec) ==
  /\ history' = Append(history, spec)
  /\ current' = Len(history')
  /\ UNCHANGED <<gone, runs>>

\* For good: there is no way back, and no second strategy of that name.
Delete ==
  /\ history # <<>> /\ gone' = TRUE
  /\ UNCHANGED <<history, current, runs>>

\* A run of any version of the history, active or not, deleted or not.
Report(i, rows, stored) ==
  /\ runs' = Append(runs, [of |-> i, spec |-> history[i], rows |-> rows, stored |-> stored])
  /\ UNCHANGED <<history, current, gone>>

\* The rows of a run arrive one after another, or all with the run.
Store(r) ==
  /\ runs[r].stored < runs[r].rows
  /\ runs' = [runs EXCEPT ![r].stored = @ + 1]
  /\ UNCHANGED <<history, current, gone>>

Next ==
  \/ \E spec \in Specs : Publish(spec)
  \/ Delete
  \/ \E i \in DOMAIN history, rows \in 0..MaxRows, stored \in 0..MaxRows :
       stored <= rows /\ Report(i, rows, stored)
  \/ \E r \in DOMAIN runs : Store(r)

Spec == Init /\ [][Next]_vars
=============================================================================
