------------------------------ MODULE Backtest ------------------------------
(***************************************************************************)
(* A backtest (backtest/harness.ts and backtest/adapters/): the recording  *)
(* advances, the adapter of a strategy has one tick on the new book, and   *)
(* what remains is recomputed from the fill log.  The adapter is told what *)
(* remained BEFORE the book advanced.                                      *)
(***************************************************************************)
EXTENDS ReplayClient, Evaluators

CONSTANTS
  Holdings,      \* quantities of initialPosition
  Requests,      \* params.size; 0 if absent
  ChunkSizes,    \* params.chunkSize
  SubmitMultiple,\* params.safetySubmittedMultiple
  Floor,         \* params.minPriceCents
  StopAt, TakeAt, Trail,   \* triggers of the synthetics
  Intervals,     \* params.numIntervals
  Warmup, Every, Streak,   \* warmupTicks, reclassifyInterval, hysteresisTicks
  DeadRange, Directional,  \* the thresholds of a regime
  MaxSnapshots   \* bound: length of the recording

ASSUME BacktestAssumption ==
  /\ Holdings \subseteq Nat \ {0} /\ Requests \subseteq Nat /\ ChunkSizes \subseteq Nat \ {0}
  /\ {SubmitMultiple, Floor, StopAt, TakeAt, Trail, Every, Streak, DeadRange, Directional} \subseteq Nat
  /\ Intervals \in Nat \ {0} /\ Warmup \in Nat \ {0} /\ MaxSnapshots \in Nat

VARIABLES
  setup,      \* [strategy, held, size, chunk, tickIn]: the configuration
  replay,     \* the simulated exchange
  adapter,    \* the adapter of the strategy, or for "auto" the inner one
  regime,     \* the state of the auto adapter
  unsold,     \* remainingQty of the harness
  snapshots,  \* snapshots passed
  stage       \* advance, tick or over

backtesting == <<setup, replay, adapter, regime, unsold, snapshots, stage>>

Strategy ==
  {"stop_loss", "s-passive", "s-aggressive", "s-twap", "s-trail", "trailing_stop", "take_profit",
   "oco", "bracket", "auto"}

-----------------------------------------------------------------------------
(* An adapter:                                                             *)
(*   begun      its runner exists: what follows was set up by a first tick *)
(*   over       stopped, triggered, fired or done                          *)
(*   run        passive: PassiveRunState and its limits                    *)
(*   slices     twap: what is left of the schedule                         *)
(*   legs       watcher: parameters and evaluator state of the armed ones  *)
(*   size       watcher: positionSize                                      *)

NewRun(size, chunk) ==
  [left |-> size, filled |-> 0, submitted |-> 0, pending |-> 0, price |-> 0,
   chunk |-> chunk, cap |-> SubmitMultiple * size]

NewAdapter(strategy, chunk) ==
  [strategy |-> strategy, begun |-> FALSE, over |-> FALSE, chunk |-> chunk,
   run |-> NewRun(0, chunk), slices |-> <<>>, legs |-> <<>>, size |-> 0]

\* Every tick maps a pair of an adapter and a client to the next one.
Pair(a, c) == [a |-> a, c |-> c]

Stopped(a) == [a EXCEPT !.over = TRUE]

\* A market sell as the adapters write it: IOC at the lowest price
Dumped(c, n) == Created(c, n, 1, FALSE)

StopLossTick(a, c, left) ==
  IF TopOf(c.book.yes) > StopAt THEN Pair(a, c) ELSE Pair(Stopped(a), Dumped(c, left))

\* At the top bid, or one tick below it; nothing on an empty book
AggressiveTick(a, c, left) ==
  LET top   == TopOf(c.book.yes)
      size  == IF setup.size = 0 THEN left ELSE Lower(setup.size, left)
      limit == IF setup.tickIn THEN Max({1, top - 1}) ELSE top
  IN  Pair(Stopped(a), IF top = 0 THEN c ELSE Created(c, size, limit, FALSE))

-----------------------------------------------------------------------------
(* runOneTickBacktest, with a walk of one cent and without the peg.  A     *)
(* result [r, c, over] is the run, the client and whether the loop breaks. *)

Went(r, c)   == [r |-> r, c |-> c, over |-> FALSE]
Broken(r, c) == [r |-> r, c |-> c, over |-> TRUE]

\* Asks are quoted in "no" if that leaves a spread; else the bids for "yes" serve as both.
Quote(book) ==
  LET yes  == Offered(book.yes)
      no   == Offered(book.no)
      ask  == IF yes = {} THEN Cents - 1 ELSE Min(yes)
      bid  == Cents - Min(no)
  IN  IF no # {} /\ ask > bid
      THEN [ask |-> ask, bid |-> bid]
      ELSE [ask |-> IF yes = {} THEN Cents - 1 ELSE Max(yes),
            bid |-> IF yes = {} THEN 1 ELSE Min(yes)]

WithFill(r, n) == [r EXCEPT !.filled = @ + n, !.left = Less(@, n), !.pending = 0]

\* Mutant: the harness has counted the fill.
Drained_Seen(r, c) ==
  IF r.pending # 0 /\ c.orders[r.pending].left = 0
  THEN [WithFill(r, c.orders[r.pending].got) EXCEPT !.left = r.left] ELSE r

\* The fill of the pending order; the harness has not seen it yet.
Drained(r, c) ==
  IF r.pending # 0 /\ c.orders[r.pending].left = 0
  THEN WithFill(r, c.orders[r.pending].got) ELSE r

Pulled(r, c) == IF r.pending = 0 THEN c ELSE Withdrawn(c, r.pending)

\* Its price is no longer the one to post at: what it has filled is credited.
Replaced(r, c) ==
  IF r.pending = 0 THEN r ELSE WithFill(r, Lower(r.left, c.orders[r.pending].got))

Posted(r, c, price) ==
  LET n == Lower(r.chunk, r.left)
      d == Created(c, n, price, TRUE)
      k == Len(d.orders)
      q == [r EXCEPT !.submitted = @ + n]
  IN  IF r.submitted + n > r.cap THEN Broken(r, c)
      ELSE IF d.orders[k].left > 0 THEN Went([q EXCEPT !.pending = k, !.price = price], d)
      ELSE [Went(WithFill(q, n), d) EXCEPT !.over = r.left = n]

RunTick(run, c) ==
  LET r     == Drained(run, c)
      quote == Quote(c.book)
      price == quote.ask - 1
  IN  CASE r.left = 0 -> Broken(r, c)
        [] r.left > 0 /\ (r.pending # 0 \/ r.filled > 0) /\ quote.ask - quote.bid < 1 ->
             Broken([r EXCEPT !.pending = 0], Pulled(r, c))
        [] OTHER ->
             IF price < Floor THEN Broken(r, c)
             ELSE IF r.pending # 0 /\ r.price = price THEN Went(r, c)
             ELSE IF Replaced(r, c).left = 0 THEN Broken(Replaced(r, c), Pulled(r, c))
             ELSE Posted(Replaced(r, c), Pulled(r, c), price)

PassiveAdapterTick(a, c, left) ==
  LET t == RunTick(IF a.begun THEN [a.run EXCEPT !.left = left] ELSE NewRun(left, a.chunk), c)
  IN  Pair([a EXCEPT !.begun = TRUE, !.run = t.r, !.over = t.over], t.c)

-----------------------------------------------------------------------------
(* The other adapters.                                                     *)

\* computeSliceSizes: the last slice takes the remainder.
SliceSizes(size) ==
  [i \in 1 .. Intervals |->
     IF i < Intervals THEN size \div Intervals
     ELSE size - (Intervals - 1) * (size \div Intervals)]

\* One interval: one tick of a passive run of its own, whose order is left behind
TwapTick(a, c, left) ==
  LET slices == IF a.begun THEN a.slices ELSE SliceSizes(left)
      t      == RunTick(NewRun(Head(slices), a.chunk), c)
  IN  Pair([a EXCEPT !.begun = TRUE, !.slices = Tail(slices), !.over = Len(slices) = 1], t.c)

Leg(params) == [params |-> params, state |-> NoState]

TrailLeg == Leg([kind |-> "trailing_stop", trail |-> Trail, floor |-> 1])
TakeLeg  == Leg([kind |-> "take_profit", trigger |-> TakeAt, rungs |-> <<>>])
StopLeg  == Leg([kind |-> "stop_loss", trigger |-> StopAt])

LegsOf(strategy) ==
  CASE strategy \in {"s-trail", "trailing_stop"} -> <<TrailLeg>>
    [] strategy = "take_profit" -> <<TakeLeg>>
    [] OTHER -> <<TakeLeg, StopLeg>>

\* A tick of the watcher: without a position its synthetics are canceled, and the
\* first leg that fires sells and takes the other one along.
WatcherTick(a, c, left) ==
  LET legs == IF a.begun THEN a.legs ELSE LegsOf(a.strategy)
      size == IF a.begun THEN a.size ELSE IF setup.size = 0 THEN left ELSE setup.size
      b    == [a EXCEPT !.begun = TRUE, !.size = size]
      verdict == [i \in DOMAIN legs |->
                    Evaluate(legs[i].params, legs[i].state, TopOf(c.book.yes), FALSE)]
  IN  IF c.position = 0 THEN Pair([b EXCEPT !.legs = <<>>], c)
      ELSE IF \E i \in DOMAIN legs : verdict[i].fire THEN Pair(Stopped(b), Dumped(c, size))
      ELSE Pair([b EXCEPT !.legs = [i \in DOMAIN legs |->
                                      [legs[i] EXCEPT !.state = verdict[i].state]]], c)

AdapterTick(a, c, left) ==
  IF a.over THEN Pair(a, c)
  ELSE CASE a.strategy = "stop_loss"    -> StopLossTick(a, c, left)
         [] a.strategy = "s-aggressive" -> AggressiveTick(a, c, left)
         [] a.strategy = "s-passive"    -> PassiveAdapterTick(a, c, left)
         [] a.strategy = "s-twap"       -> TwapTick(a, c, left)
         [] OTHER                       -> WatcherTick(a, c, left)

-----------------------------------------------------------------------------
(* The auto adapter: it watches for a while, names the regime of the       *)
(* market and hands over to an adapter for it, again whenever another      *)
(* regime has been seen often enough.                                      *)

\* midOf, doubled
DoubleMid(book) ==
  LET yes == TopOf(book.yes)
      no  == TopOf(book.no)
  IN  IF yes > 0 /\ no > 0 THEN yes + Cents - no
      ELSE IF yes > 0 THEN 2 * yes ELSE 2 * (Cents - no)

DetectRegime(mids) ==
  LET range == Max({mids[i] : i \in DOMAIN mids}) - Min({mids[i] : i \in DOMAIN mids})
      delta == mids[Len(mids)] - mids[1]
  IN  CASE Len(mids) < 2 \/ range <= 2 * DeadRange -> "dead"
        [] range > 2 * DeadRange /\ delta > 2 * Directional -> "rising"
        [] range > 2 * DeadRange /\ delta < - 2 * Directional -> "falling"
        [] OTHER -> "sideways"

InnerFor(found) ==
  CASE found = "rising"   -> NewAdapter("s-trail", 0)
    [] found = "falling"  -> NewAdapter("stop_loss", 0)
    [] found = "sideways" -> NewAdapter("s-passive", 2)
    [] found = "dead"     -> NewAdapter("s-aggressive", 0)

NoRegime ==
  [window |-> <<>>, ticks |-> 0, chosen |-> "none", candidate |-> "none", streak |-> 0,
   switches |-> 0]

LastOf(s, n) == SubSeq(s, Max({1, Len(s) - n + 1}), Len(s))

\* A regime other than the chosen one counts once more, or for the first time.
Considered(g, found) ==
  IF found = g.chosen THEN [g EXCEPT !.candidate = "none", !.streak = 0]
  ELSE LET streak == IF found = g.candidate THEN g.streak + 1 ELSE 1
       IN  IF streak >= Streak
           THEN [g EXCEPT !.chosen = found, !.candidate = "none", !.streak = 0,
                          !.switches = @ + 1]
           ELSE [g EXCEPT !.candidate = found, !.streak = streak]

\* The regime after a look at the book
Watched(g, book) ==
  LET mids == LastOf(Append(g.window, DoubleMid(book)), Warmup)
      h    == [g EXCEPT !.window = mids, !.ticks = @ + 1]
  IN  IF g.chosen = "none"
      THEN IF Len(mids) < Warmup THEN h ELSE [h EXCEPT !.chosen = DetectRegime(mids)]
      ELSE IF Every > 0 /\ h.ticks % Every = 0 THEN Considered(h, DetectRegime(mids)) ELSE h

-----------------------------------------------------------------------------
(* runBacktest.                                                            *)

\* initialQty
Initial == IF setup.held = 0 THEN setup.size ELSE setup.held

Configurations ==
  {s \in [strategy : Strategy, held : Holdings \cup {0}, size : Requests, chunk : ChunkSizes,
          tickIn : BOOLEAN] :
     s.held + s.size > 0 /\ (s.tickIn => s.strategy = "s-aggressive")}

EmptyBook == [yes |-> [p \in Prices |-> 0], no |-> [p \in Prices |-> 0]]

BacktestInit ==
  /\ setup \in Configurations
  /\ \E model \in {"naive", "queue_aware"} : replay = NewClient(model, setup.held, EmptyBook)
  /\ adapter = NewAdapter(setup.strategy, setup.chunk)
  /\ regime = NoRegime
  /\ unsold = Initial
  /\ snapshots = 0 /\ stage = "advance"

\* client.advance() ...
BookAdvances ==
  /\ stage = "advance" /\ snapshots < MaxSnapshots
  /\ \E book \in Recorded : replay' = Advanced(replay, book)
  /\ snapshots' = snapshots + 1 /\ stage' = "tick"
  /\ UNCHANGED <<setup, adapter, regime, unsold>>

\* ... until the recording ends and the report is written.
RecordingEnds ==
  /\ stage = "advance" /\ snapshots > 0
  /\ stage' = "over"
  /\ UNCHANGED <<setup, replay, adapter, regime, unsold, snapshots>>

Ticked(t) ==
  /\ adapter' = t.a /\ replay' = t.c
  /\ unsold' = Less(Initial, Traded(t.c))

StrategyTicks ==
  /\ stage = "tick" /\ setup.strategy # "auto"
  /\ Ticked(IF unsold = 0 THEN Pair(adapter, replay) ELSE AdapterTick(adapter, replay, unsold))
  /\ stage' = "advance"
  /\ UNCHANGED <<setup, regime, snapshots>>

AutoTicks ==
  /\ stage = "tick" /\ setup.strategy = "auto"
  /\ IF unsold = 0 THEN Ticked(Pair(adapter, replay)) /\ UNCHANGED regime
     ELSE LET g     == Watched(regime, replay.book)
              inner == IF g.chosen = regime.chosen THEN adapter ELSE InnerFor(g.chosen)
          IN  /\ regime' = g
              /\ Ticked(IF g.chosen = "none" THEN Pair(adapter, replay)
                        ELSE AdapterTick(inner, replay, unsold))
  /\ stage' = "advance"
  /\ UNCHANGED <<setup, snapshots>>

BacktestNext == BookAdvances \/ RecordingEnds \/ StrategyTicks \/ AutoTicks

BacktestSpec == BacktestInit /\ [][BacktestNext]_backtesting

-----------------------------------------------------------------------------
(* What must hold.                                                         *)

\* The queue in front of an order is never forgotten: under the queue-aware model an
\* order that rests is filled only after its level has been seen empty since it was
\* posted, whatever joined the level behind it and left again.
QueueHonoured ==
  \A i \in DOMAIN replay.fills :
    replay.fills[i].maker => replay.orders[replay.fills[i].order].lowest = 0

\* A backtest sells no more than the position it was given, although the adapter works
\* with what remained before the book advanced and its orders were filled; unless the
\* size that the watcher was asked to sell is larger, or the auto adapter has left an
\* order of an earlier regime on the book.
SoldWithinHoldings ==
  regime.switches = 0 /\ setup.size <= Initial => Traded(replay) <= Initial
=============================================================================
