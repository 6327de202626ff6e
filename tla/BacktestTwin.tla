---------------------------- MODULE BacktestTwin ----------------------------
(***************************************************************************)
(* Two runs of packages/backtest Engine.Run over the same plan, the same   *)
(* feed and the same signals, in lockstep. Whatever still differs comes    *)
(* from the engine itself. The symbols a universe snapshot removed are     *)
(* taken from a Go map, whose order changes from run to run.               *)
(***************************************************************************)
EXTENDS Integers, Sequences

CONSTANTS NumSymbols, MaxFrames, Plans, Bars(_), InitialCash

VARIABLES
  plan, frame, bars, active,                           \* what both runs share
  phaseA, cashA, posA, pendingA, queueA, keptA, owedA,
  phaseB, cashB, posB, pendingB, queueB, keptB, owedB,
  tradesA, tradesB                                     \* portfolio.trades

A == INSTANCE BacktestEngine WITH
       phase <- phaseA, cash <- cashA, pos <- posA, pending <- pendingA,
       queue <- queueA, kept <- keptA, owed <- owedA

B == INSTANCE BacktestEngine WITH
       phase <- phaseB, cash <- cashB, pos <- posB, pending <- pendingB,
       queue <- queueB, kept <- keptB, owed <- owedB

trades == <<tradesA, tradesB>>

vars == <<A!vars, B!vars, trades>>

Init == A!Init /\ B!Init /\ tradesA = <<>> /\ tradesB = <<>>

Frame ==
  /\ \E b \in [A!Symbols -> Bars(plan)], a \in A!Snapshots :
       A!NextFrame(b, a) /\ B!NextFrame(b, a)
  /\ UNCHANGED trades

\* The trade of the order at the head of a queue.
Trade(queue, before, after) ==
  [sym |-> Head(queue).sym, side |-> Head(queue).side,
   from |-> before[Head(queue).sym], to |-> after[Head(queue).sym]]

\* One order of each run is tried.
TryOne ==
  /\ A!DeferPending \/ A!RefusePending \/ A!FillPending
  /\ B!DeferPending \/ B!RefusePending \/ B!FillPending
  /\ tradesA' = IF posA' = posA THEN tradesA ELSE Append(tradesA, Trade(queueA, posA, posA'))
  /\ tradesB' = IF posB' = posB THEN tradesB ELSE Append(tradesB, Trade(queueB, posB, posB'))

\* Both runs see the same signals; each walks its map of positions by itself.
Decide ==
  /\ \E sig \in A!Signals, ready \in [A!Symbols -> BOOLEAN] :
       \E ra \in A!Removals, rb \in B!Removals :
         A!Decide(sig, ra, ready) /\ B!Decide(sig, rb, ready)
  /\ UNCHANGED trades

Next == Frame \/ TryOne \/ Decide

Spec == Init /\ [][Next]_vars

\* The same inputs, the same strategy version and the same data reproduce the
\* same result hash (docs/architectures/packages/backtest/final-implementation-goal.md).
\* The hash covers the list of trades in the order they were made.
SameTrades == (phaseA = "clock" /\ phaseB = "clock") => tradesA = tradesB
=============================================================================
