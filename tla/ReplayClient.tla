---------------------------- MODULE ReplayClient ----------------------------
(***************************************************************************)
(* The simulated exchange of a backtest (backtest/replayClient.ts) and its *)
(* fill model (backtest/fillSimulator.ts), for one ticker and for orders   *)
(* that sell "yes".  A client c is a record:                               *)
(*   model     naive or queue_aware                                        *)
(*   book      the recorded book under the cursor                          *)
(*   orders    what was created, in order, with its result                 *)
(*   fills     the fill log                                                *)
(*   position  shares held                                                 *)
(* An order is resting while it is in restingOrders; ahead and seen are    *)
(* its queueAhead and lastSeenDepth, and lowest is history: the least that *)
(* its level of the queue has held since the order was posted.  Prices and *)
(* fees of fills are left out.                                             *)
(***************************************************************************)
EXTENDS Integers, Sequences, FiniteSetsExt

CONSTANTS
  Cents,       \* what yes and no are worth together (100 in the code)
  Recorded     \* the books of a recording

Prices == 1 .. Cents - 1

Side == [Prices -> Nat]

ASSUME ReplayAssumption ==
  /\ Cents \in Nat /\ Cents > 1
  /\ Recorded \subseteq [yes : Side, no : Side]

Lower(a, b) == IF a < b THEN a ELSE b

Less(a, b) == IF a > b THEN a - b ELSE 0

Offered(side) == {p \in Prices : side[p] > 0}

\* The first level of a recorded side, whose best comes first; 0 if there is none
TopOf(side) == IF Offered(side) = {} THEN 0 ELSE Max(Offered(side))

-----------------------------------------------------------------------------
(* Fills.                                                                  *)

\* simulateFill: a sell takes whatever is bid at its limit or above it.
Swept(book, size, price) ==
  Lower(size, MapThenSumSet(LAMBDA p : book.yes[p], {p \in Prices : p >= price}))

\* What queues where a sell at this price joins: the bids for "no" at its complement
QueueDepth(book, price) == IF Cents - price \in Prices THEN book.no[Cents - price] ELSE 0

\* Mutant: orders that have joined behind count when they leave.
SeenDepth_Latest(o, depth) == depth

\* lastSeenDepth never grows.
SeenDepth(o, depth) == Lower(o.seen, depth)

\* queue_aware: what has left the level was ahead; an order at the front is filled
\* as a whole once its level holds as much.
AfterQueue(o, book) ==
  LET depth == QueueDepth(book, o.price)
      q     == [o EXCEPT !.ahead = Less(@, Less(o.seen, depth)), !.seen = SeenDepth(o, depth),
                         !.lowest = Lower(@, depth)]
  IN  IF q.ahead = 0 /\ depth >= o.left
      THEN [q EXCEPT !.got = @ + o.left, !.left = 0, !.status = "filled", !.resting = FALSE]
      ELSE q

\* naive: it takes what crosses its limit.
AfterSweep(o, book) ==
  LET n == Swept(book, o.left, o.price)
  IN  IF n = 0 THEN o
      ELSE [o EXCEPT !.got = @ + n, !.left = @ - n, !.resting = n < o.left,
                     !.status = IF n = o.left THEN "filled" ELSE "partially_filled"]

After(o, model, book) ==
  IF ~o.resting THEN o
  ELSE IF model = "queue_aware" THEN AfterQueue(o, book) ELSE AfterSweep(o, book)

-----------------------------------------------------------------------------
(* The client.                                                             *)

NewClient(model, held, book) ==
  [model |-> model, book |-> book, orders |-> <<>>, fills |-> <<>>, position |-> held]

Fill(k, n, maker) == [order |-> k, n |-> n, maker |-> maker]

Traded(c) == FoldSet(LAMBDA i, sum : sum + c.fills[i].n, 0, DOMAIN c.fills)

\* advance(): every resting order meets the next book, as if it were alone.
Advanced(c, book) ==
  LET orders == [k \in DOMAIN c.orders |-> After(c.orders[k], c.model, book)]
      gain(k) == orders[k].got - c.orders[k].got
      filled  == SelectSeq([k \in DOMAIN orders |-> k], LAMBDA k : gain(k) > 0)
  IN  [c EXCEPT
         !.book     = book,
         !.orders   = orders,
         !.fills    = @ \o [i \in DOMAIN filled |->
                              Fill(filled[i], gain(filled[i]), c.model = "queue_aware")],
         !.position = Less(@, MapThenSumSet(gain, DOMAIN orders))]

\* createOrder: what crosses is filled at once; the rest of a GTC order rests.
Created(c, size, price, gtc) ==
  LET n     == Swept(c.book, size, price)
      rests == gtc /\ n < size
      depth == IF rests /\ c.model = "queue_aware" THEN QueueDepth(c.book, price) ELSE 0
      order == [size |-> size, price |-> price, got |-> n, left |-> size - n, resting |-> rests,
                status |-> IF n = 0 THEN (IF gtc THEN "resting" ELSE "canceled")
                           ELSE IF n = size THEN "filled" ELSE "partially_filled",
                ahead |-> depth, seen |-> depth, lowest |-> depth]
  IN  [c EXCEPT !.orders   = Append(@, order),
                !.fills    = IF n = 0 THEN @ ELSE Append(@, Fill(Len(c.orders) + 1, n, FALSE)),
                !.position = Less(@, n)]

\* cancelOrder
Withdrawn(c, k) ==
  [c EXCEPT !.orders[k] = [@ EXCEPT !.status = "canceled", !.left = 0, !.resting = FALSE]]
=============================================================================
