----------------------------- MODULE ExitRunner -----------------------------
(***************************************************************************)
(* One exit job (exitRunner.ts): a process that sells a position in chunks *)
(* and journals each order before it is posted, when it is placed and when *)
(* it is settled, so that a killed job can be resumed from its journal.    *)
(* An action is one stretch of code between two awaits.                    *)
(*                                                                         *)
(* The book is abstracted to the chunk that it leads to, prices are left   *)
(* out, quantities are whole shares, dryRun is false, and the number of    *)
(* polls in reconcileOrder is left open.                                   *)
(***************************************************************************)
EXTENDS JobJournal, Exchange, FiniteSetsExt

CONSTANTS
  Configs,      \* job configurations to choose from
  Held,         \* shares held when the job is created
  MaxCrashes    \* bound: kill -9 happens at most this often

\* chunks: the sizes that chunkSize and the book may lead to
\* multiple: safetySubmittedMultiple in tenths
ConfigType ==
  [size : Nat, chunks : SUBSET (Nat \ {0}), sweep : Nat, maxOrders : Nat, multiple : Nat,
   tif : {"ioc", "fok", "gtc"}, tail : BOOLEAN, preflight : BOOLEAN, cancelOnStale : BOOLEAN]

ASSUME ConfigAssumption ==
  /\ Configs \subseteq ConfigType
  /\ Ids \subseteq Nat \ {0}
  /\ Held \in Nat /\ MaxCrashes \in Nat

VARIABLES
  config,      \* the job's configuration file
  pc,          \* where run() is suspended; "off": no process
  stopping,    \* stopRequested
  remaining, initial, submitted, attempts,   \* fields of status
  todo,        \* what the loop of a resume phase has still to look at
  cur,         \* {order that is posted, reconciled or resumed}
  seen,        \* filledCount in the last answer about it
  journal,
  orders,      \* at the exchange
  position,    \* shares held according to the exchange; negative: short
  blind,       \* an answer about an order was lost for good (history)
  crashes

status == <<remaining, initial, submitted, attempts>>
process == <<pc, stopping, status, todo, cur, seen>>
exchange == <<orders, position>>
vars == <<config, process, journal, exchange, blind, crashes>>

Places == {"off", "intents", "placed", "repolling", "starting", "loop", "posting", "polling",
           "tail", "tailPosting"}

\* The type invariant.
TypeOK ==
  /\ config \in Configs
  /\ pc \in Places
  /\ stopping \in BOOLEAN
  /\ remaining \in Nat /\ initial \in Nat /\ submitted \in Nat /\ attempts \in Nat
  /\ todo \subseteq Ids
  /\ cur \subseteq Ids
  /\ seen \in Nat
  /\ journal \in Journals
  /\ orders \in [Ids -> Orders]
  /\ position \in Int
  /\ blind \in BOOLEAN
  /\ crashes \in 0 .. MaxCrashes

Min2(a, b) == IF a <= b THEN a ELSE b

\* Mutant: without Math.max
Monus_Minus(a, b) == a - b

\* Math.max(0, a - b)
Monus(a, b) == IF a >= b THEN a - b ELSE 0

-----------------------------------------------------------------------------
(* Start and resume.                                                       *)

\* isFinished is not the case.
Resumable == ~ journal.finished

\* new ExitRunner and run(), for a new job (its journal is empty) or to resume
\* it.  A finished job is left alone.
Start ==
  /\ pc = "off" /\ Resumable
  /\ pc' = "intents" /\ todo' = PendingIntents(journal)
  /\ remaining' = config.size /\ initial' = config.size
  /\ submitted' = 0 /\ attempts' = 0
  /\ stopping' = FALSE /\ cur' = {} /\ seen' = 0
  /\ UNCHANGED <<config, journal, exchange, blind, crashes>>

\* The journal may have less than the final word on the order.
Open(id) ==
  \/ orders[id].state \in {"sent", "open"}
  \/ orders[id].filled # journal.fills[id]

IntentFound(id) ==
  /\ pc = "intents" /\ id \in todo
  /\ Landed(orders[id])
  /\ journal' = Placed(journal, id)
  /\ todo' = todo \ {id}
  /\ UNCHANGED <<config, pc, stopping, status, cur, seen, exchange, blind, crashes>>

\* Not there, or the lookup failed, which findOrderByClientOrderId does not tell
\* from not there
IntentMissed(id) ==
  /\ pc = "intents" /\ id \in todo
  /\ todo' = todo \ {id}
  /\ blind' = (blind \/ Open(id))
  /\ UNCHANGED <<config, pc, stopping, status, cur, seen, journal, exchange, crashes>>

IntentsDone ==
  /\ pc = "intents" /\ todo = {}
  /\ pc' = "placed" /\ todo' = PendingOrders(journal)
  /\ UNCHANGED <<config, stopping, status, cur, seen, journal, exchange, blind, crashes>>

\* Mutant: an order that filled in part is taken for settled.
Terminal_Partial(id) == orders[id].state = "closed" \/ orders[id].filled > 0

\* isTerminal of the exchange's answer about the order
Terminal(id) == orders[id].state = "closed"

\* The fill that is credited: not more than was asked for
Credit(id, filled) == Min2(orders[id].count, filled)

ResumeSettle(id, filled) ==
  /\ journal' = ResumeReconciled(journal, id, Credit(id, filled))
  /\ pc' = "placed" /\ todo' = todo \ {id} /\ cur' = {} /\ seen' = 0

ResumeGetOrder(id) ==
  /\ pc = "placed" /\ id \in todo
  /\ IF Terminal(id)
     THEN ResumeSettle(id, orders[id].filled)
     ELSE /\ pc' = "repolling" /\ cur' = {id} /\ seen' = orders[id].filled
          /\ UNCHANGED <<todo, journal>>
  /\ UNCHANGED <<config, stopping, status, exchange, blind, crashes>>

ResumeGetOrderFails(id) ==
  /\ pc = "placed" /\ id \in todo
  /\ todo' = todo \ {id}
  /\ blind' = (blind \/ Open(id))
  /\ UNCHANGED <<config, pc, stopping, status, cur, seen, journal, exchange, crashes>>

\* Mutant: a resumed job starts over.
ResumeDone_FromScratch ==
  /\ pc = "placed" /\ todo = {}
  /\ pc' = "starting"
  /\ UNCHANGED <<config, stopping, status, todo, cur, seen, journal, exchange, blind, crashes>>

ResumeDone ==
  /\ pc = "placed" /\ todo = {}
  /\ remaining' = Monus(config.size, journal.filled)
  /\ pc' = "starting"
  /\ UNCHANGED <<config, stopping, initial, submitted, attempts, todo, cur, seen, journal,
                 exchange, blind, crashes>>

-----------------------------------------------------------------------------
(* The loop.                                                               *)

\* The finally block of run(): also after an error, and after that the process
\* has nothing left to do.
Finish ==
  /\ journal' = Finished(journal)
  /\ pc' = "off" /\ todo' = {} /\ cur' = {} /\ seen' = 0

\* After the loop: the tail order, if one is wanted
AfterLoop ==
  IF config.tail /\ remaining > 0 /\ ~ stopping
  THEN pc' = "tail" /\ cur' = {} /\ seen' = 0 /\ UNCHANGED <<todo, journal>>
  ELSE Finish

\* Risk checks and preflight refuse, or a call of theirs fails.
Refused ==
  /\ pc = "starting"
  /\ Finish
  /\ UNCHANGED <<config, stopping, status, exchange, blind, crashes>>

\* preflight() refuses a position that is not held, or held on the other side,
\* and takes over a smaller one.
Accepted ==
  /\ pc = "starting"
  /\ config.preflight => position > 0
  /\ IF config.preflight /\ position < config.size
     THEN remaining' = position /\ initial' = position
     ELSE UNCHANGED <<remaining, initial>>
  /\ pc' = "loop"
  /\ UNCHANGED <<config, stopping, submitted, attempts, todo, cur, seen, journal, exchange,
                 blind, crashes>>

\* The order that the book leads to; small remainders are swept at once.
Chunk(want) == IF remaining <= config.sweep THEN remaining ELSE Min2(want, remaining)

\* Mutant: no cap on what is submitted
OverCap_Never(n) == FALSE

OverCap(n) == 10 * (submitted + n) > initial * config.multiple

Fresh == {id \in Ids : orders[id].state = "none"}

\* The next id: ids are drawn in order.
NewId(id) == id \in Fresh /\ \A other \in Fresh : id <= other

MayTry == ~ stopping /\ attempts < config.maxOrders

\* The loop is over, or a tick breaks it: stop, kill switch, too many orders, a
\* chunk too small for its fee, or the cap.  The kill switch and the chunk may
\* come at any tick.
LoopEnds ==
  /\ pc = "loop"
  /\ AfterLoop
  /\ UNCHANGED <<config, stopping, status, exchange, blind, crashes>>

\* getOrderbook throws.
TickFails ==
  /\ pc = "loop" /\ remaining > 0 /\ MayTry
  /\ Finish
  /\ UNCHANGED <<config, stopping, status, exchange, blind, crashes>>

\* Mutant: the intent is journaled only when the order is placed.
PostIntent_None(j, id) == j

PostIntent(j, id) == Intent(j, id)

\* The intent is journaled, the POST goes out.
Post(id, want) ==
  /\ pc = "loop" /\ remaining > 0 /\ MayTry
  /\ NewId(id)
  /\ ~ OverCap(Chunk(want))
  /\ attempts' = attempts + 1 /\ submitted' = submitted + Chunk(want)
  /\ journal' = PostIntent(journal, id)
  /\ orders' = [orders EXCEPT ![id] = Sent(Chunk(want), config.tif, config.tif = "ioc")]
  /\ pc' = "posting" /\ cur' = {id}
  /\ UNCHANGED <<config, stopping, remaining, initial, todo, seen, position, blind, crashes>>

\* createOrder gave up, whether the order arrived or not.
PostFails(id) ==
  /\ pc = "posting" /\ id \in cur
  /\ Finish
  /\ blind' = (blind \/ Open(id))
  /\ UNCHANGED <<config, stopping, status, exchange, crashes>>

Settle(j, id, filled) ==
  /\ journal' = Reconciled(j, id, Credit(id, filled))
  /\ remaining' = Monus(remaining, Credit(id, filled))
  /\ pc' = "loop" /\ cur' = {} /\ seen' = 0
  /\ UNCHANGED todo

\* The order is placed, and at the exchange either done or open.
PostAnswered(id) ==
  /\ pc = "posting" /\ id \in cur
  /\ IF Terminal(id)
     THEN Settle(Placed(journal, id), id, orders[id].filled)
     ELSE /\ orders[id].state = "open"
          /\ journal' = Placed(journal, id)
          /\ pc' = "polling" /\ seen' = orders[id].filled
          /\ UNCHANGED <<remaining, todo, cur>>
  /\ UNCHANGED <<config, stopping, initial, submitted, attempts, exchange, blind, crashes>>

\* A good-till-canceled order that is reported as resting is left on the book.
PostRests(id) ==
  /\ pc = "posting" /\ id \in cur
  /\ config.tif = "gtc" /\ orders[id].state = "open"
  /\ IF config.tail /\ remaining > 0 /\ ~ stopping
     THEN /\ journal' = Placed(journal, id)
          /\ pc' = "tail" /\ cur' = {} /\ seen' = 0 /\ UNCHANGED todo
     ELSE /\ journal' = Finished(Placed(journal, id))
          /\ pc' = "off" /\ todo' = {} /\ cur' = {} /\ seen' = 0
  /\ UNCHANGED <<config, stopping, status, exchange, blind, crashes>>

-----------------------------------------------------------------------------
(* reconcileOrder(), called from the loop or from a resume.                *)

Reconcile(id, filled) ==
  \/ pc = "polling" /\ Settle(journal, id, filled)
  \/ pc = "repolling" /\ ResumeSettle(id, filled) /\ UNCHANGED remaining

Poll(id) ==
  /\ pc \in {"polling", "repolling"} /\ id \in cur
  /\ IF Terminal(id)
     THEN Reconcile(id, orders[id].filled)
     ELSE /\ seen' = orders[id].filled /\ seen' # seen
          /\ UNCHANGED <<pc, remaining, journal, todo, cur>>
  /\ UNCHANGED <<config, stopping, initial, submitted, attempts, exchange, blind, crashes>>

\* The polls are used up, or cut short by a stop: the order is canceled.
CancelStale(id) ==
  /\ pc \in {"polling", "repolling"} /\ id \in cur
  /\ config.cancelOnStale
  /\ orders' = [orders EXCEPT ![id] = CanceledOrder(@)]
  /\ Reconcile(id, orders[id].filled)
  /\ UNCHANGED <<config, stopping, initial, submitted, attempts, position, blind, crashes>>

\* The cancel fails, or is not wanted: the last answer is all that is known.  A
\* cancel that failed may have arrived.
LeftStale(id) ==
  /\ pc \in {"polling", "repolling"} /\ id \in cur
  /\ \/ UNCHANGED orders
     \/ config.cancelOnStale /\ orders' = [orders EXCEPT ![id] = CanceledOrder(@)]
  /\ Reconcile(id, seen)
  /\ blind' = (blind \/ orders[id].state = "open" \/ orders[id].filled # seen)
  /\ UNCHANGED <<config, stopping, initial, submitted, attempts, position, crashes>>

-----------------------------------------------------------------------------
(* postTailGtcOrder()                                                      *)

NoneRests == \A id \in Ids : orders[id].state # "open"

\* The count of resting orders is 0, and there is a price.
TailPost(id) ==
  /\ pc = "tail"
  /\ NoneRests
  /\ NewId(id)
  /\ orders' = [orders EXCEPT ![id] = Sent(remaining, "gtc", FALSE)]
  /\ pc' = "tailPosting" /\ cur' = {id}
  /\ UNCHANGED <<config, stopping, status, todo, seen, journal, position, blind, crashes>>

\* It is not, there is no price, or a lookup failed.
TailSkipped ==
  /\ pc = "tail"
  /\ Finish
  /\ UNCHANGED <<config, stopping, status, exchange, blind, crashes>>

\* Placed or not, nobody will look at the order again.
TailDone(id) ==
  /\ pc = "tailPosting" /\ id \in cur
  /\ Finish
  /\ UNCHANGED <<config, stopping, status, exchange, blind, crashes>>

-----------------------------------------------------------------------------
(* The surroundings.                                                       *)

StopRequested ==
  /\ pc # "off" /\ ~ stopping
  /\ stopping' = TRUE
  /\ UNCHANGED <<config, pc, status, todo, cur, seen, journal, exchange, blind, crashes>>

Crash ==
  /\ pc # "off" /\ crashes < MaxCrashes
  /\ crashes' = crashes + 1
  /\ pc' = "off" /\ stopping' = FALSE
  /\ remaining' = 0 /\ initial' = 0 /\ submitted' = 0 /\ attempts' = 0
  /\ todo' = {} /\ cur' = {} /\ seen' = 0
  /\ UNCHANGED <<config, journal, exchange, blind>>

\* A posted order arrives, though perhaps after its sender has given up or died,
\* or it never will.
Arrive(id, n) ==
  /\ orders[id].state = "sent"
  /\ n \in Fillable(orders[id], position)
  /\ \E state \in StatesAfterFill(orders[id], n) :
       orders' = [orders EXCEPT ![id] = FilledMore(@, n, state)]
  /\ position' = position - n
  /\ UNCHANGED <<config, process, journal, blind, crashes>>

GetLost(id) ==
  /\ orders[id].state = "sent"
  /\ orders' = [orders EXCEPT ![id].state = "lost"]
  /\ UNCHANGED <<config, process, journal, position, blind, crashes>>

\* An order that arrived fills further; with n = 0 an order that did not rest is
\* done with.
FillOpen(id, n) ==
  /\ orders[id].state = "open"
  /\ n \in Fillable(orders[id], position)
  /\ \E state \in StatesAfterFill(orders[id], n) :
       orders' = [orders EXCEPT ![id] = FilledMore(@, n, state)]
  /\ position' = position - n
  /\ UNCHANGED <<config, process, journal, blind, crashes>>

-----------------------------------------------------------------------------

Init ==
  /\ config \in Configs
  /\ pc = "off" /\ stopping = FALSE
  /\ remaining = 0 /\ initial = 0 /\ submitted = 0 /\ attempts = 0
  /\ todo = {} /\ cur = {} /\ seen = 0
  /\ journal = EmptyJournal
  /\ orders = [id \in Ids |-> NoOrder] /\ position = Held
  /\ blind = FALSE /\ crashes = 0

Resume ==
  \/ \E id \in Ids : \/ IntentFound(id) \/ IntentMissed(id)
                     \/ ResumeGetOrder(id) \/ ResumeGetOrderFails(id)
  \/ IntentsDone
  \/ ResumeDone

Loop ==
  \/ Refused
  \/ Accepted
  \/ LoopEnds
  \/ TickFails
  \/ \E id \in Ids :
       \/ \E want \in config.chunks : Post(id, want)
       \/ PostFails(id) \/ PostAnswered(id) \/ PostRests(id)
       \/ Poll(id) \/ CancelStale(id) \/ LeftStale(id)
       \/ TailPost(id) \/ TailDone(id)
  \/ TailSkipped

World ==
  \/ StopRequested
  \/ Crash
  \/ \E id \in Ids :
       \/ GetLost(id)
       \/ \E n \in 0 .. orders[id].count : Arrive(id, n) \/ FillOpen(id, n)

Next == Start \/ Resume \/ Loop \/ World

Spec == Init /\ [][Next]_vars

-----------------------------------------------------------------------------
(* What must hold.                                                         *)

\* Shares sold by the job's orders, credited or not
Sold == Held - position

\* The two features that the accounting does not survive a crash with: a tail
\* order is not found again by a resume, and the preflight of a resume takes the
\* whole position for what remains.  Beside a resting order the tail order does
\* not know of its fills either.
Plain ==
  /\ config.tail => crashes = 0 /\ config.tif # "gtc"
  /\ config.preflight => crashes = 0

\* What the loop takes for the remainder is what the exchange has left of it: no
\* fill is forgotten or counted twice, after any sequence of crashes, resumes,
\* polls and cancels, unless an answer was lost for good ("recomputes remaining
\* from journal fills so the live loop picks up accurately").
RemainingAccurate ==
  pc = "loop" /\ ~ blind /\ Plain => remaining = Monus(initial, Sold)

\* The job never sells more than it was configured to.
SoldWithinSize == ~ blind /\ Plain => Sold <= config.size

Unsettled == {id \in Ids : orders[id].state \in {"sent", "open"}}

\* No order of an unfinished job is orphaned: a resume would look at each one
\* that may still fill.
LiveOrdersKnown ==
  ~ journal.finished /\ ~ blind /\ ~ config.tail =>
    Unsettled \subseteq PendingIntents(journal) \cup PendingOrders(journal)

\* Two orders never compete for the same shares.
AtMostOneUnsettled == ~ blind /\ Plain => \A i, k \in Unsettled : i = k

\* Every life of the process keeps to its cap.
SubmittedBounded ==
  ~ config.tail =>
    10 * SumFunction([id \in Ids |-> orders[id].count])
      <= (crashes + 1) * config.size * config.multiple

\* A job that finished journals nothing more and posts nothing more.
FinishedIsFinal == [][journal.finished => journal' = journal /\ Fresh' = Fresh]_vars

\* "computeFilledTotal() recomputes remaining from journal fills so the live loop
\* picks up accurately" (LOSING_EXIT_ALGORITHM.md:65)
SoldWithinSizeResumed == ~ blind /\ ~ config.tail => Sold <= config.size

\* "since GTC drops reduce_only, both filling could flip the position short", which
\* the look at the resting orders is there to prevent (exitRunner.ts:254).
NeverShort == ~ blind => position >= 0
=============================================================================
