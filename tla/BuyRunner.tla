------------------------------ MODULE BuyRunner ------------------------------
(***************************************************************************)
(* The buy runner (buyRunner.ts): buys a size in immediate-or-cancel       *)
(* orders, and every run begins by reconciling the job's journal.  A job   *)
(* can be killed at any point and run again.  Dry runs place no order and  *)
(* are left out, and so are prices: only whether the ask is above the      *)
(* ceiling matters.                                                        *)
(***************************************************************************)
EXTENDS Integers, FiniteSets

CONSTANTS
  BuyIds,          \* ids of orders, 1 .. n, used in this order
  BuySizes,        \* sizes of jobs
  BuyChunk,        \* chunkSize
  MaxBuyOrders,    \* maxOrders
  MaxBuyRuns       \* bound: runs of the job

ASSUME BuyAssumption ==
  /\ IsFiniteSet(BuyIds) /\ BuyIds = 1 .. Cardinality(BuyIds)
  /\ BuySizes \subseteq Nat /\ BuyChunk \in Nat \ {0}
  /\ MaxBuyOrders \in Nat /\ MaxBuyRuns \in Nat

Venue == INSTANCE Exchange
Log == INSTANCE JobJournal WITH Ids <- BuyIds

VARIABLES
  buy,         \* the runner, in memory
  lines,       \* its journal
  sent,        \* [BuyIds -> Venue!Orders]: its orders, at the exchange
  bought,      \* history: shares bought
  unsure       \* history: an order was given up on that could still fill

buying == <<buy, lines, sent, bought, unsure>>

\* reconcileOrder polls at most four times, 250 ms apart.
Polls == 4

(***************************************************************************)
(*   at        where it is                                                 *)
(*   id        the order it works on, seen: fills of its last poll         *)
(*   todo      orders a resume has still to look up                        *)
(***************************************************************************)
NewBuy(size) ==
  [at |-> "idle", size |-> size, remaining |-> size, filled |-> 0, attempted |-> 0,
   id |-> 0, polls |-> 0, seen |-> 0, todo |-> {}, stopped |-> FALSE, runs |-> 0,
   status |-> "none"]

BuyInit ==
  /\ \E size \in BuySizes : buy = NewBuy(size)
  /\ lines = Log!EmptyJournal
  /\ sent = [id \in BuyIds |-> Venue!NoOrder]
  /\ bought = 0 /\ unsure = FALSE

AtExchange == <<sent, bought>>

\* An order that may still fill more than is known of it
Unsettled(id, known) == sent[id].state \in {"sent", "open"} \/ sent[id].filled > known

-----------------------------------------------------------------------------
(* Resuming.                                                               *)

\* run(): a forbidden ticker throws; otherwise the pending intents come first.
RunBegins ==
  /\ buy.at \in {"idle", "down"} /\ buy.runs < MaxBuyRuns
  /\ \/ buy' = [buy EXCEPT !.at = "intents", !.remaining = buy.size, !.filled = 0, !.attempted = 0,
                           !.todo = Log!PendingIntents(lines), !.stopped = FALSE, !.runs = @ + 1]
     \/ buy' = [buy EXCEPT !.at = "down", !.runs = @ + 1, !.status = "forbidden"]
  /\ UNCHANGED <<lines, sent, bought, unsure>>

\* An intent that the exchange knows is placed; a lookup that finds nothing, or
\* fails, skips it.
IntentLookedUp(id) ==
  /\ buy.at = "intents" /\ id \in buy.todo
  /\ buy' = [buy EXCEPT !.todo = @ \ {id}]
  /\ \/ Venue!Landed(sent[id]) /\ lines' = Log!Placed(lines, id) /\ UNCHANGED unsure
     \/ UNCHANGED lines /\ unsure' = (unsure \/ Unsettled(id, 0))
  /\ UNCHANGED AtExchange

\* Mutant: the orders that no order_reconciled line names are not looked up.
IntentsDone_Trusting ==
  /\ buy.at = "intents" /\ buy.todo = {}
  /\ buy' = [buy EXCEPT !.at = "orders", !.todo = {}]
  /\ UNCHANGED <<lines, sent, bought, unsure>>

IntentsDone ==
  /\ buy.at = "intents" /\ buy.todo = {}
  /\ buy' = [buy EXCEPT !.at = "orders", !.todo = Log!PendingOrders(lines)]
  /\ UNCHANGED <<lines, sent, bought, unsure>>

\* getOrder of a pending order; one that is not terminal is polled.
OrderLookedUp(id) ==
  /\ buy.at = "orders" /\ id \in buy.todo
  /\ \/ /\ buy' = [buy EXCEPT !.at = "repoll", !.id = id, !.polls = 0, !.seen = sent[id].filled,
                              !.todo = @ \ {id}]
        /\ UNCHANGED unsure
     \/ /\ buy' = [buy EXCEPT !.todo = @ \ {id}]
        /\ unsure' = (unsure \/ Unsettled(id, lines.fills[id]))
  /\ UNCHANGED <<lines, sent, bought>>

\* What the journal says was filled is not bought again.
OrdersDone ==
  /\ buy.at = "orders" /\ buy.todo = {}
  /\ buy' = [buy EXCEPT !.at = "risk", !.filled = lines.filled,
                        !.remaining = IF buy.size > lines.filled THEN buy.size - lines.filled ELSE 0]
  /\ UNCHANGED <<lines, sent, bought, unsure>>

-----------------------------------------------------------------------------
(* reconcileOrder.                                                         *)

Terminal(id) == sent[id].state = "closed"

\* A poll answers or fails.
Poll ==
  /\ buy.at \in {"poll", "repoll"} /\ ~Terminal(buy.id)
  /\ buy.polls < Polls /\ ~buy.stopped
  /\ \E seen \in {buy.seen, sent[buy.id].filled} :
       buy' = [buy EXCEPT !.polls = @ + 1, !.seen = seen]
  /\ UNCHANGED <<lines, sent, bought, unsure>>

\* The order is seen terminal, or is taken as it was seen last.
SettledAs(seen) ==
  \/ Terminal(buy.id) /\ buy.polls < Polls /\ seen = sent[buy.id].filled
  \/ (buy.polls = Polls \/ buy.stopped) /\ seen = buy.seen

\* resume_reconciled
OrderReresumed ==
  /\ buy.at = "repoll"
  /\ \E seen \in 0 .. sent[buy.id].count :
       /\ SettledAs(seen)
       /\ lines' = Log!ResumeReconciled(lines, buy.id, seen)
       /\ unsure' = (unsure \/ Unsettled(buy.id, seen))
  /\ buy' = [buy EXCEPT !.at = "orders", !.id = 0, !.seen = 0, !.polls = 0]
  /\ UNCHANGED AtExchange

\* order_reconciled
OrderSettles ==
  /\ buy.at = "poll"
  /\ \E seen \in 0 .. sent[buy.id].count :
       /\ SettledAs(seen)
       /\ lines' = Log!Reconciled(lines, buy.id, seen)
       /\ unsure' = (unsure \/ Unsettled(buy.id, seen))
       /\ buy' = [buy EXCEPT !.at = "loop", !.id = 0, !.seen = 0, !.polls = 0, !.filled = @ + seen,
                    !.remaining = IF buy.remaining > seen THEN buy.remaining - seen ELSE 0]
  /\ UNCHANGED AtExchange

-----------------------------------------------------------------------------
(* The loop.                                                               *)

\* buy_loop_finished: the journal never counts as finished.
Finishes(status) ==
  buy' = [buy EXCEPT !.at = "down", !.stopped = FALSE, !.id = 0,
                     !.status = IF status = "complete" /\ buy.remaining > 0 THEN "partial" ELSE status]

\* checkPreTradeRisk: a loss, the losses of the day or the concentration is beyond its
\* limit, or none is.  Nothing that happens later depends on which.
RiskVerdicts == {"passed", "maxLoss", "dailyCircuitBreaker", "concentration"}

\* The balance is fetched and the risk is checked; an error ends the job.
RiskChecked ==
  /\ buy.at = "risk"
  /\ \E verdict \in RiskVerdicts :
       IF verdict = "passed" THEN buy' = [buy EXCEPT !.at = "loop"] ELSE Finishes("error")
  /\ UNCHANGED <<lines, sent, bought, unsure>>

\* Nothing remains, stop(), the kill switch, maxOrders.
LoopEnds ==
  /\ buy.at = "loop"
  /\ Finishes("complete")
  /\ UNCHANGED <<lines, sent, bought, unsure>>

MayBuy == buy.at = "loop" /\ buy.remaining > 0 /\ ~buy.stopped /\ buy.attempted < MaxBuyOrders

\* The ask is above the ceiling: the attempt counts.
AskTooHigh ==
  /\ MayBuy
  /\ buy' = [buy EXCEPT !.attempted = @ + 1]
  /\ UNCHANGED <<lines, sent, bought, unsure>>

BookFails ==
  /\ MayBuy
  /\ Finishes("error")
  /\ UNCHANGED <<lines, sent, bought, unsure>>

\* The intent is written before the order is sent.
OrderSent(id) ==
  /\ MayBuy /\ sent[id].state = "none" /\ \A i \in 1 .. id - 1 : sent[i].state /= "none"
  /\ LET chunk == IF buy.remaining < BuyChunk THEN buy.remaining ELSE BuyChunk
     IN sent' = [sent EXCEPT ![id] = Venue!Sent(chunk, "ioc", FALSE)]
  /\ lines' = Log!Intent(lines, id)
  /\ buy' = [buy EXCEPT !.at = "send", !.id = id, !.attempted = @ + 1]
  /\ UNCHANGED <<bought, unsure>>

OrderCreated ==
  /\ buy.at = "send" /\ Venue!Landed(sent[buy.id])
  /\ lines' = Log!Placed(lines, buy.id)
  /\ buy' = [buy EXCEPT !.at = "poll", !.polls = 0, !.seen = sent[buy.id].filled]
  /\ UNCHANGED <<sent, bought, unsure>>

\* createOrder throws, whatever became of the order.
CreateFails ==
  /\ buy.at = "send"
  /\ Finishes("error")
  /\ UNCHANGED <<lines, sent, bought, unsure>>

StopBuying ==
  /\ buy.at \notin {"idle", "down"} /\ ~buy.stopped
  /\ buy' = [buy EXCEPT !.stopped = TRUE]
  /\ UNCHANGED <<lines, sent, bought, unsure>>

\* kill -9
BuyCrashes ==
  /\ buy.at \notin {"idle", "down"}
  /\ buy' = [NewBuy(buy.size) EXCEPT !.at = "down", !.runs = buy.runs]
  /\ UNCHANGED <<lines, sent, bought, unsure>>

-----------------------------------------------------------------------------
(* The exchange.                                                           *)

BuyArrives(id) ==
  /\ sent[id].state = "sent"
  /\ \E state \in {"open", "lost"} : sent' = [sent EXCEPT ![id].state = state]
  /\ UNCHANGED <<buy, lines, bought, unsure>>

\* An order is matched, and what is left of it is canceled in the end.
BuyMatches(id) ==
  /\ sent[id].state = "open"
  /\ \E n \in Venue!Fillable(sent[id], 0) :
       /\ \E state \in Venue!StatesAfterFill(sent[id], n) :
            sent' = [sent EXCEPT ![id] = Venue!FilledMore(@, n, state)]
       /\ bought' = bought + n
  /\ UNCHANGED <<buy, lines, unsure>>

BuySteps ==
  \/ RunBegins \/ IntentsDone \/ OrdersDone
  \/ \E id \in BuyIds : IntentLookedUp(id) \/ OrderLookedUp(id) \/ OrderSent(id)
  \/ Poll \/ OrderReresumed \/ OrderSettles
  \/ RiskChecked \/ LoopEnds \/ AskTooHigh \/ BookFails \/ OrderCreated \/ CreateFails

BuyNext ==
  \/ BuySteps
  \/ StopBuying
  \/ BuyCrashes
  \/ \E id \in BuyIds : BuyArrives(id) \/ BuyMatches(id)

BuySpec == BuyInit /\ [][BuyNext]_buying

-----------------------------------------------------------------------------
(* What must hold.                                                         *)

\* A job buys no more than its size, over all its runs, crashes and resumes
\* ("set an accurate remaining without trusting in-memory state", journal.ts), unless
\* an order was given up on that could still fill: a failed lookup, or four polls.
BoughtWithinSize == ~unsure => bought <= buy.size
=============================================================================
