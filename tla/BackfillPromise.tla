--------------------------- MODULE BackfillPromise ---------------------------
(***************************************************************************)
(* What a caller of service/daily Backfill may rely on, with no goroutine  *)
(* in sight: pages are written to the store one at a time while the call   *)
(* is open, the first failed write is the last write, and a call that      *)
(* returns without error and whose context was never cancelled has left    *)
(* every page of the range in the store.                                   *)
(***************************************************************************)
EXTENDS Naturals

CONSTANTS MaxPages   \* the largest number of pages a range splits into

VARIABLES
  total,      \* pages in the range, 0 until the first page has been read
  ledger,     \* what the store holds of each page
  outcome,    \* "open", "failing" (a write failed), or what the call returned
  cancelled   \* the caller's context was cancelled

promiseVars == <<total, ledger, outcome, cancelled>>

Pages    == 1..MaxPages
Held     == {"absent", "partial", "stored"}
Failures == {"store", "provider", "canceled"}

Init ==
  /\ total = 0
  /\ ledger = [p \in Pages |-> "absent"]
  /\ outcome = "open"
  /\ cancelled = FALSE

Plan(n) ==
  /\ outcome = "open"
  /\ total = 0
  /\ total' = n
  /\ UNCHANGED <<ledger, outcome, cancelled>>

Store(p) ==
  /\ outcome = "open"
  /\ p <= total
  /\ ledger' = [ledger EXCEPT ![p] = "stored"]
  /\ UNCHANGED <<total, outcome, cancelled>>

\* What a broken write may make of page p: what was stored stays stored.
Trace(p) == IF ledger[p] = "stored" THEN {"stored"} ELSE Held

\* A failed write may leave a trace on its own page, and on no other. The
\* call returns at once, or is still winding its goroutines down.
FailStore(p, h, o) ==
  /\ outcome = "open"
  /\ p <= total
  /\ h \in Trace(p)
  /\ o = "canceled" => cancelled
  /\ ledger' = [ledger EXCEPT ![p] = h]
  /\ outcome' = o
  /\ UNCHANGED <<total, cancelled>>

Cancel ==
  /\ outcome \in {"open", "failing"}
  /\ cancelled' = TRUE
  /\ UNCHANGED <<total, ledger, outcome>>

ReturnOk ==
  /\ outcome = "open"
  /\ ~cancelled => \A p \in 1..total : ledger[p] = "stored"
  /\ outcome' = "ok"
  /\ UNCHANGED <<total, ledger, cancelled>>

\* Cancellation is reported only to a caller that cancelled.
ReturnError(e) ==
  /\ outcome \in {"open", "failing"}
  /\ e = "canceled" => cancelled
  /\ e = "provider" => outcome = "open"
  /\ outcome' = e
  /\ UNCHANGED <<total, ledger, cancelled>>

\* The process is killed, perhaps while it writes one page, or the command is
\* given again: a new call over the same store.
Restart ==
  /\ total' = 0
  /\ outcome' = "open"
  /\ cancelled' = FALSE
  /\ \/ UNCHANGED ledger
     \/ /\ outcome = "open"
        /\ \E p \in 1..total : \E h \in Trace(p) : ledger' = [ledger EXCEPT ![p] = h]

Next ==
  \/ \E n \in Pages : Plan(n)
  \/ \E p \in Pages : Store(p)
  \/ \E p \in Pages, h \in Held, o \in {"failing", "store", "canceled"} : FailStore(p, h, o)
  \/ Cancel
  \/ ReturnOk
  \/ \E e \in Failures : ReturnError(e)
  \/ Restart

Spec == Init /\ [][Next]_promiseVars
=============================================================================
