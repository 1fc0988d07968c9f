------------------------------ MODULE Exchange ------------------------------
(***************************************************************************)
(* The exchange as its clients see it: orders that arrive or are lost on   *)
(* the way, fill at once or while they rest, and are canceled.  External:  *)
(* modelled from the fields and statuses that the code reads.              *)
(***************************************************************************)
EXTENDS Integers

\* none: the id is not in use; sent: on its way; lost: it will never arrive
OrderStates == {"none", "sent", "lost", "open", "closed"}

\* reduce: reduce_only; tif: time_in_force
Orders ==
  [state : OrderStates, count : Nat, filled : Nat,
   tif : {"ioc", "fok", "gtc"}, reduce : BOOLEAN]

NoOrder == [state |-> "none", count |-> 0, filled |-> 0, tif |-> "ioc", reduce |-> FALSE]

Sent(count, tif, reduce) ==
  [state |-> "sent", count |-> count, filled |-> 0, tif |-> tif, reduce |-> reduce]

Landed(o) == o.state \in {"open", "closed"}

\* How much of what is left of an order may fill while position shares are held
Fillable(o, position) ==
  {n \in 0 .. (o.count - o.filled) : /\ o.reduce => n <= position \/ n = 0
                                     /\ o.tif = "fok" => n \in {0, o.count}}

\* What is left of it rests, is still being matched, or is canceled.
StatesAfterFill(o, n) ==
  IF o.filled + n = o.count THEN {"closed"}
  ELSE CASE o.tif = "gtc" -> {"open"}
         [] o.tif = "ioc" -> {"open", "closed"}
         [] o.tif = "fok" -> {"closed"}

FilledMore(o, n, state) == [o EXCEPT !.filled = @ + n, !.state = state]

CanceledOrder(o) == [o EXCEPT !.state = "closed"]
=============================================================================
