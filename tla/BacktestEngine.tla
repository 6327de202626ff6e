--------------------------- MODULE BacktestEngine ---------------------------
(***************************************************************************)
(* packages/backtest Engine.Run: the life of an order in the simulation    *)
(* clock. In every frame of the feed the engine first tries its pending    *)
(* orders, then turns signals into sized and reviewed orders, and leaves   *)
(* them pending for a later frame, or, with fill same_close, tries them at *)
(* once. The steps below are the passes of its loops.                      *)
(*                                                                         *)
(* Rules and indicators are abstracted to the signals they may give, a bar *)
(* to one price, the most units it lets anybody trade and whether it       *)
(* reaches the order's limit or stop; next_open, next_close and            *)
(* intrabar_ohlc differ only in the price they read and are one fill here. *)
(* Money is counted in units in which every amount is whole.               *)
(***************************************************************************)
EXTENDS FiniteSets, Lists

CONSTANTS
  NumSymbols,   \* bound: the most symbols of a plan
  MaxFrames,    \* bound: the longest feed
  Plans,        \* the compiled plans to run
  Bars(_),      \* what a frame may hold for a symbol, under a plan
  InitialCash

ASSUME BacktestAssumption ==
  /\ NumSymbols \in Nat \ {0}
  /\ MaxFrames \in Nat \ {0}
  /\ InitialCash \in Nat \ {0}
  /\ \A p \in Plans :
       /\ p.symbols \in 1..NumSymbols
       /\ p.fill \in {"next_open", "same_close"}
       /\ p.orderType \in {"market", "rebalance"}
       /\ p.tif \in {"day", "gtc", "ioc", "cancel_on_rebalance"}
       /\ p.partial \in {"carry", "cancel", "expire_after_n_bars"}
       /\ p.expire \in Nat
       /\ p.size \in 1..100
       /\ p.maxPositions \in Nat
       /\ p.maxWeight \in Nat
       /\ p.fee \in Nat
       /\ p.atr \in BOOLEAN
       /\ p.liquidate \in BOOLEAN
  /\ \A b \in UNION {Bars(p) : p \in Plans} :
       /\ b.kind \in {"none", "idle", "unreached", "live"}
       /\ b.price \in Nat /\ (b.price = 0 <=> b.kind = "none")
       /\ b.cap \in Nat

\* fill "next_open" stands for next_close and intrabar_ohlc, orderType "market"
\* for limit, stop, stop_limit and trailing_stop.

VARIABLES
  plan,
  phase,    \* "clock" (between frames), "fill", "place" (same_close) or "done"
  frame,    \* frameCount
  bars,     \* currentBars
  active,   \* activeSymbols, in the order they are evaluated
  cash,
  pos,      \* the quantity of each position
  pending,  \* orders waiting for a later frame
  queue,    \* the orders the current pass has still to try
  kept,     \* nextPending
  owed      \* order_intent events minus events that end an order

vars == <<plan, phase, frame, bars, active, cash, pos, pending, queue, kept, owed>>

book == <<cash, pos>>

\* Symbols are numbered in the order of plan.Symbols.
Symbols == 1..plan.symbols

\* The lists of symbols a universe snapshot may hold: a pipeline that leaves several rows
\* of a symbol lists it again, and nothing between the two packages takes it out.
Snapshots == UNION {[1..n -> Symbols] : n \in 0..plan.symbols}

Orders ==
  [sym : Symbols, side : {"buy", "sell"}, amount : Nat, qty : Nat, carry : Nat,
   reason : {"entry", "exit", "rebalance", "universe_removed"},
   ready : BOOLEAN, born : 1..MaxFrames]

TypeOK ==
  /\ plan \in Plans
  /\ phase \in {"clock", "fill", "place", "done"}
  /\ frame \in 0..MaxFrames
  /\ bars \in [Symbols -> Bars(plan)]
  /\ active \in Snapshots
  /\ cash \in Int
  /\ pos \in [Symbols -> Nat]
  /\ pending \in Seq(Orders) /\ queue \in Seq(Orders) /\ kept \in Seq(Orders)
  /\ owed \in Int

Init ==
  /\ plan \in Plans
  /\ phase = "clock"
  /\ frame = 0
  /\ bars \in {f \in [Symbols -> Bars(plan)] : \A s \in Symbols : f[s].kind = "none"}
  /\ active = [s \in Symbols |-> s]
  /\ cash = InitialCash
  /\ pos = [s \in Symbols |-> 0]
  /\ pending = <<>> /\ queue = <<>> /\ kept = <<>>
  /\ owed = 0

-----------------------------------------------------------------------------
\* closePrices: a symbol without a bar has price 0.
Price(s) == bars[s].price

HasBar(s) == bars[s].kind # "none"

Equity ==
  LET total[s \in 0..plan.symbols] == IF s = 0 THEN cash ELSE total[s - 1] + pos[s] * Price(s)
  IN  total[plan.symbols]

PositionCount == Cardinality({s \in Symbols : pos[s] > 0})

\* Slip: what a buy costs beside the price is left out.
AffordableBeforeFee(max, price) == Max({0} \cup {q \in 1..max : q * price <= cash})

\* affordableBuyQuantity: the largest quantity the cash pays for, fee included.
Affordable(max, price) == Max({0} \cup {q \in 1..max : q * price + plan.fee <= cash})

Refused(why) == [why |-> why, qty |-> 0, wanted |-> 0, partial |-> FALSE]

\* Slip: a sale is not cut to the position it finds.
ExecuteAsOrdered(o) ==
  LET b    == bars[o.sym]
      want == IF o.side = "buy" THEN o.amount \div b.price ELSE o.qty
      cut  == Min({want, b.cap})
      got  == IF o.side = "buy" THEN Affordable(cut, b.price) ELSE cut
  IN  IF b.kind = "unreached" \/ ~o.ready \/ got = 0 THEN Refused("unfilled")
      ELSE [why |-> "fill", qty |-> got, wanted |-> want, partial |-> cut < want]

\* barExecutionModel.Execute on a bar that trades: what part of o is filled.
Execute(o) ==
  LET b    == bars[o.sym]
      want == IF o.side = "buy" THEN o.amount \div b.price
              ELSE IF o.qty = 0 \/ o.qty > pos[o.sym] THEN pos[o.sym] ELSE o.qty
      cut  == Min({want, b.cap})
      got  == IF o.side = "buy" THEN Affordable(cut, b.price) ELSE cut
  IN  CASE b.kind = "unreached"                         -> Refused("not_reached")
        [] b.kind = "live" /\ ~o.ready                  -> Refused("slippage_atr_not_ready")
        [] b.kind = "live" /\ o.ready /\ got = 0        -> Refused("quantity_is_zero")
        [] b.kind = "live" /\ o.ready /\ got > 0        ->
             [why |-> "fill", qty |-> got, wanted |-> want, partial |-> cut < want]

\* shouldCarryPendingOrder for an order that was tried and not filled.
Carried(f) ==
  /\ f.why # "slippage_atr_not_ready"
  /\ plan.tif \in {"gtc", "cancel_on_rebalance"}

\* remainingIntent: whether the rest of a partly filled order lives on ...
RemainderLives(o) ==
  /\ plan.tif # "ioc"
  /\ plan.partial # "cancel"
  /\ plan.partial = "expire_after_n_bars" => (plan.expire = 0 \/ o.carry + 1 < plan.expire)

\* ... and what it is: money still to spend, or units still to sell.
Remainder(o, f) ==
  [o EXCEPT
     !.carry  = @ + 1,
     !.amount = IF o.side = "buy" THEN Max({0, @ - f.qty * Price(o.sym)}) ELSE @,
     !.qty    = IF o.side = "sell" THEN f.wanted - f.qty ELSE @]

LivesOn(o, f) == f.partial /\ RemainderLives(o)

\* portfolio.apply
Apply(o, f) ==
  LET notional == f.qty * Price(o.sym)
  IN  IF o.side = "buy"
        THEN /\ cash' = cash - notional - plan.fee
             /\ pos' = [pos EXCEPT ![o.sym] = @ + f.qty]
        ELSE /\ cash' = cash + notional - plan.fee
             /\ pos' = [pos EXCEPT ![o.sym] = @ - f.qty]

-----------------------------------------------------------------------------
\* The next frame of the stream; a frame without bars is skipped. Universe
\* snapshots may change the active symbols.
NextFrame(b, a) ==
  /\ phase = "clock"
  /\ frame < MaxFrames
  /\ \E s \in Symbols : b[s].kind # "none"
  /\ frame' = frame + 1
  /\ bars' = b
  /\ active' = a
  /\ phase' = "fill"
  /\ queue' = pending
  /\ pending' = <<>>
  /\ kept' = <<>>
  /\ UNCHANGED <<plan, book, owed>>

\* No bar, or a bar without trades: the order waits, whatever its time in force.
DeferPending ==
  /\ phase = "fill" /\ queue # <<>>
  /\ bars[Head(queue).sym].kind \in {"none", "idle"}
  /\ kept' = Append(kept, Head(queue))
  /\ queue' = Tail(queue)
  /\ UNCHANGED <<plan, phase, frame, bars, active, book, pending, owed>>

\* Slip: an order that is not filled is dropped, and no event says so.
RefusePendingSilently ==
  /\ phase = "fill" /\ queue # <<>>
  /\ bars[Head(queue).sym].kind \in {"unreached", "live"}
  /\ LET f == Execute(Head(queue))
     IN  /\ f.why # "fill"
         /\ kept' = IF Carried(f) THEN Append(kept, Head(queue)) ELSE kept
  /\ queue' = Tail(queue)
  /\ UNCHANGED <<plan, phase, frame, bars, active, book, pending, owed>>

RefusePending ==
  /\ phase = "fill" /\ queue # <<>>
  /\ bars[Head(queue).sym].kind \in {"unreached", "live"}
  /\ LET f == Execute(Head(queue))
     IN  /\ f.why # "fill"
         /\ IF Carried(f)
              THEN kept' = Append(kept, Head(queue)) /\ UNCHANGED owed
              ELSE owed' = owed - 1 /\ UNCHANGED kept
  /\ queue' = Tail(queue)
  /\ UNCHANGED <<plan, phase, frame, bars, active, book, pending>>

FillPending ==
  /\ phase = "fill" /\ queue # <<>>
  /\ bars[Head(queue).sym].kind \in {"unreached", "live"}
  /\ LET o == Head(queue)
         f == Execute(o)
     IN  /\ f.why = "fill"
         /\ Apply(o, f)
         /\ IF LivesOn(o, f)
              THEN kept' = Append(kept, Remainder(o, f)) /\ UNCHANGED owed
              ELSE owed' = owed - 1 /\ UNCHANGED kept
  /\ queue' = Tail(queue)
  /\ UNCHANGED <<plan, phase, frame, bars, active, pending>>

-----------------------------------------------------------------------------
\* evaluateSignals: what the rules may say of each symbol. Exits are only asked
\* for positions, entries only for symbols without one.
Signals ==
  {sig \in [Symbols -> {"none", "entry", "exit", "rebalance"}] :
     \A s \in Symbols : sig[s] # "none" =>
       /\ s \in Range(active) /\ HasBar(s)
       /\ sig[s] = "entry" <=> pos[s] = 0
       /\ sig[s] = "rebalance" => plan.orderType = "rebalance"}

Intent(s, reason, ready) ==
  [sym |-> s, side |-> IF reason \in {"entry", "rebalance"} THEN "buy" ELSE "sell",
   amount |-> 0, qty |-> 0, carry |-> 0, reason |-> reason, ready |-> ready, born |-> frame]

\* universeRemovalIntents walks a Go map: any order of the symbols.
Removals ==
  IF ~plan.liquidate THEN {<<>>}
  ELSE SetToSeqs({s \in Symbols : pos[s] > 0 /\ s \notin Range(active)})

\* rebalanceIntent: buy or sell the difference to the target weight, if it is
\* worth one unit.
Rebalanced(o) ==
  LET price == Price(o.sym)
      held  == pos[o.sym] * price
      delta == (Equity * plan.size) \div 100 - held
      named == [o EXCEPT !.reason = IF held > 0 THEN "rebalance" ELSE @]
  IN  IF price = 0 \/ Equity <= 0 \/ (delta < price /\ -delta < price) THEN <<>>
      ELSE IF delta > 0 THEN <<[named EXCEPT !.amount = delta]>>
      ELSE <<[named EXCEPT !.side = "sell", !.qty = (-delta) \div price]>>

\* percentOfEquitySizer
Sized(o) ==
  IF o.side = "sell" THEN <<[o EXCEPT !.qty = pos[o.sym]]>>
  ELSE IF plan.orderType = "rebalance" THEN Rebalanced(o)
  ELSE <<[o EXCEPT !.amount = Max({0, (Equity * plan.size) \div 100})]>>

\* limitRiskManager.Review looks at the positions held, not at the orders under way.
Approved(o) ==
  \/ o.side = "sell"
  \/ /\ ~(plan.maxPositions > 0 /\ pos[o.sym] = 0 /\ PositionCount >= plan.maxPositions)
     /\ ~(plan.maxWeight > 0 /\ Equity > 0 /\ o.amount * 100 > plan.maxWeight * Equity)

\* The reviewed orders of this frame, signals first, then universe removals.
Reviewed(sig, removed, ready) ==
  LET signalled == Picked(active, {i \in DOMAIN active : sig[active[i]] # "none"})
      intents   == [i \in DOMAIN signalled |->
                      Intent(signalled[i], sig[signalled[i]], ready[signalled[i]])]
                   \o [i \in DOMAIN removed |->
                      Intent(removed[i], "universe_removed", ready[removed[i]])]
      sized     == FlattenSeq([i \in DOMAIN intents |-> Sized(intents[i])])
  IN  Picked(sized, {i \in DOMAIN sized : Approved(sized[i])})

\* cancelPendingOnRebalance
NotReplaced(orders, approved) ==
  IF plan.tif # "cancel_on_rebalance" THEN orders
  ELSE Picked(orders, {i \in DOMAIN orders :
                 ~\E j \in DOMAIN approved :
                    approved[j].reason = "rebalance" /\ approved[j].sym = orders[i].sym})

\* orderKey: at most one order of a symbol and side waits.
SameKey(o, p) == o.sym = p.sym /\ o.side = p.side

\* Slip: new orders are appended without a look at the pending ones.
WithNewTwice(orders, approved) == orders \o approved

\* appendNewPendingOrders: an order whose key was seen, among the pending or among
\* the new ones before it, is passed over.
WithNew(orders, approved) ==
  orders \o Picked(approved, {i \in DOMAIN approved :
    /\ ~\E j \in DOMAIN orders : SameKey(orders[j], approved[i])
    /\ ~\E j \in 1..(i - 1) : SameKey(approved[j], approved[i])})

\* Slip: next_open orders are tried in the frame that made them, like same_close.
DecideAndTry(sig, removed, ready) ==
  /\ phase = "fill" /\ queue = <<>>
  /\ sig \in Signals /\ removed \in Removals
  /\ plan.atr \/ \A s \in Symbols : ready[s]
  /\ LET approved == Reviewed(sig, removed, ready)
         left     == NotReplaced(kept, approved)
     IN  /\ pending' = left
         /\ queue' = approved
         /\ owed' = owed - (Len(kept) - Len(left)) + Len(approved)
         /\ phase' = "place"
  /\ kept' = <<>>
  /\ UNCHANGED <<plan, frame, bars, active, book>>

\* The pending pass is over: signals, sizing, review, and the new orders.
Decide(sig, removed, ready) ==
  /\ phase = "fill" /\ queue = <<>>
  /\ sig \in Signals /\ removed \in Removals
  /\ plan.atr \/ \A s \in Symbols : ready[s]
  /\ LET approved == Reviewed(sig, removed, ready)
         left     == NotReplaced(kept, approved)
     IN  IF plan.fill = "same_close"
           THEN /\ pending' = left
                /\ queue' = approved
                /\ owed' = owed - (Len(kept) - Len(left)) + Len(approved)
                /\ phase' = "place"
           ELSE /\ pending' = WithNew(left, approved)
                /\ owed' = owed - Len(kept) + Len(pending')
                /\ phase' = "clock"
                /\ UNCHANGED queue
  /\ kept' = <<>>
  /\ UNCHANGED <<plan, frame, bars, active, book>>

-----------------------------------------------------------------------------
\* same_close: an order that is not filled at once is dropped. On a no-trade
\* bar the log says "deferred", but nothing is kept.
MissClose ==
  /\ phase = "place" /\ queue # <<>>
  /\ LET o == Head(queue)
     IN  \/ bars[o.sym].kind = "none" /\ owed' = owed - 1
         \/ bars[o.sym].kind = "idle" /\ UNCHANGED owed
         \/ /\ bars[o.sym].kind \in {"unreached", "live"}
            /\ Execute(o).why # "fill"
            /\ owed' = owed - 1
  /\ queue' = Tail(queue)
  /\ UNCHANGED <<plan, phase, frame, bars, active, book, pending, kept>>

\* The rest of a partly filled order joins the pending ones.
FillClose ==
  /\ phase = "place" /\ queue # <<>>
  /\ bars[Head(queue).sym].kind \in {"unreached", "live"}
  /\ LET o == Head(queue)
         f == Execute(o)
     IN  /\ f.why = "fill"
         /\ Apply(o, f)
         /\ IF LivesOn(o, f)
              THEN pending' = Append(pending, Remainder(o, f)) /\ UNCHANGED owed
              ELSE owed' = owed - 1 /\ UNCHANGED pending
  /\ queue' = Tail(queue)
  /\ UNCHANGED <<plan, phase, frame, bars, active, kept>>

EndFrame ==
  /\ phase = "place" /\ queue = <<>>
  /\ phase' = "clock"
  /\ UNCHANGED <<plan, frame, bars, active, book, pending, queue, kept, owed>>

\* The stream ends: what is still pending is reported as unfilled.
EndOfFeed ==
  /\ phase = "clock"
  /\ frame > 0
  /\ phase' = "done"
  /\ owed' = owed - Len(pending)
  /\ pending' = <<>>
  /\ UNCHANGED <<plan, frame, bars, active, book, queue, kept>>

Rest == phase = "done" /\ UNCHANGED vars

Next ==
  \/ \E b \in [Symbols -> Bars(plan)], a \in Snapshots : NextFrame(b, a)
  \/ DeferPending
  \/ RefusePending
  \/ FillPending
  \/ \E sig \in Signals, removed \in Removals, ready \in [Symbols -> BOOLEAN] :
       Decide(sig, removed, ready)
  \/ MissClose
  \/ FillClose
  \/ EndFrame
  \/ EndOfFeed
  \/ Rest

Spec == Init /\ [][Next]_vars

-----------------------------------------------------------------------------
Count(o, orders) ==
  Cardinality({i \in DOMAIN orders : SameKey(orders[i], o)})

Open == kept \o queue \o pending

\* Several orders of one frame share the cash, and an order may wait while the cash is
\* spent elsewhere. Still, whatever a plan's fees, no buy takes more than there is, so
\* portfolio.apply never fails with "buy fill exceeds cash": what makes a debt, or a greater one, is a sale
\* that brings less than it costs, which portfolio.apply books all the same.
OnlySalesOwe ==
  [][cash' < 0 /\ cash' < cash =>
       \E s \in Symbols : pos'[s] < pos[s] /\ (pos[s] - pos'[s]) * Price(s) < plan.fee]_vars

\* Every order announced by an order_intent event is either still waiting or
\* its end was reported by an event: fill, unfilled or order_cancelled.
NoOrderVanishes == plan.fill = "next_open" => owed = Len(Open)

\* A signal that repeats while its order waits does not order twice: at most one
\* order for each symbol and side is under way.
OneOrderPerSide ==
  plan.fill = "next_open" => \A i \in DOMAIN Open : Count(Open[i], Open) = 1

\* No order is filled in the frame whose prices decided it, unless the plan says
\* same_close: future data does not leak into the simulation.
NoLookahead ==
  [][(plan.fill = "next_open" /\ book' # book) => Head(queue).born < frame]_vars

=============================================================================
