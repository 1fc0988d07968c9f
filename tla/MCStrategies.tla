---------------------------- MODULE MCStrategies ----------------------------
(***************************************************************************)
(* Small sizes, ladders and recordings for model checking.  Init chooses   *)
(* between a job on the market and a backtest; the other one has ended.    *)
(***************************************************************************)
EXTENDS Strategies, Backtest

CONSTANT Parts      \* which of them

VARIABLE part

vars == <<part, trading, backtesting>>

MCReducible == [l \in Legs |-> 3]

Rung(price, pct) == [price |-> price, pct |-> pct]

\* One ladder of round shares, one whose rungs are unordered and round down
MCLadders ==
  {<<Rung(1, 50), Rung(3, 50)>>, <<Rung(2, 40), Rung(1, 10), Rung(3, 50)>>}

\* The sizes bid for "yes" and for "no" at each price: a book with a spread, two
\* without one, and a market where nobody bids for "yes"
MCRecorded ==
  {[yes |-> <<1, 2, 0>>, no |-> <<0, 0, 1>>], [yes |-> <<0, 1, 0>>, no |-> <<0, 1, 2>>],
   [yes |-> <<0, 0, 0>>, no |-> <<1, 0, 0>>], [yes |-> <<1, 0, 2>>, no |-> <<0, 2, 0>>]}

NoJob ==
  MarketInit /\ pc = "done" /\ job = [NewJob("replay", 0, 1, <<>>) EXCEPT !.status = "complete"]

NoBacktest == BacktestInit /\ setup = (CHOOSE s \in Configurations : TRUE) /\ replay.model = "naive"

Init ==
  /\ part \in Parts
  /\ \/ part = "job" /\ StrategyInit /\ NoBacktest
     \/ part = "backtest" /\ NoJob /\ BacktestInit

Next ==
  /\ UNCHANGED part
  /\ \/ part = "job" /\ StrategyNext /\ UNCHANGED backtesting
     \/ part = "backtest" /\ BacktestNext /\ UNCHANGED trading

Spec == Init /\ [][Next]_vars /\ (part = "job" => StrategyFairness)
=============================================================================
