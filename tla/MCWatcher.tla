------------------------------ MODULE MCWatcher ------------------------------
(* Instances of Watcher for model checking. *)
EXTENDS Watcher, TLC

CONSTANTS
  oco, leg1, leg2,   \* an OCO and its legs
  solo               \* a synthetic of its own

On(ticker, auto) == [ticker |-> ticker, autoCancel |-> auto]

StopLoss(trigger)   == [kind |-> "stop_loss", trigger |-> trigger]
TrailingStop(trail) == [kind |-> "trailing_stop", trail |-> trail, floor |-> 1]
Composed(kind)      == [kind |-> kind, legs |-> <<leg1, leg2>>]

Trio == {oco, leg1, leg2}

\* An auto-cancelling OCO of two stops that one bid may cross together, beside a stop
\* that every bid crosses
OcoParams ==
  oco  :> (Composed("oco") @@ On("T", TRUE)) @@
  leg1 :> (TrailingStop(1) @@ On("T", TRUE)) @@
  leg2 :> (StopLoss(3) @@ On("T", TRUE)) @@
  solo :> (StopLoss(9) @@ On("T", TRUE))

\* Two stops without auto-cancel under an OCO
StopsParams ==
  oco  :> (Composed("oco") @@ On("T", FALSE)) @@
  leg1 :> (StopLoss(3) @@ On("T", FALSE)) @@
  leg2 :> (TrailingStop(1) @@ On("T", FALSE))

\* One stop of its own
SoloSet == {solo}
FlatParams == solo :> (StopLoss(0) @@ On("T", TRUE))
=============================================================================
