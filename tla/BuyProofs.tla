------------------------------- MODULE BuyProofs -------------------------------
(***************************************************************************)
(* Theorems about the buy runner: over all its runs, crashes and resumes a *)
(* job buys no more than its size, unless an order was given up on.        *)
(***************************************************************************)
EXTENDS BuyRunner, FiniteSums

Places == {"idle", "down", "intents", "orders", "repoll", "risk", "loop", "send", "poll"}

BuyStatuses ==
  {"none", "forbidden", "complete", "partial", "error"}

BuyRecords ==
  [at : Places, size : Nat, remaining : Nat, filled : Nat, attempted : Nat, id : BuyIds \cup {0},
   polls : Nat, seen : Nat, todo : SUBSET BuyIds, stopped : BOOLEAN, runs : Nat, status : BuyStatuses]

BuyTypeOK ==
  /\ buy \in BuyRecords /\ lines \in Log!Journals /\ sent \in [BuyIds -> Venue!Orders]
  /\ bought \in Nat /\ unsure \in BOOLEAN

\* What an order has bought, and what it may come to
Got == [id \in BuyIds |-> sent[id].filled]

MayFill(o) == IF o.state \in {"sent", "open"} THEN o.count ELSE o.filled

Worst == [id \in BuyIds |-> MayFill(sent[id])]

Total(f) == SumFunctionOnSet(f, BuyIds)

\* Nothing is known of an order before it is sent, and never too much.
OrderSound(id) ==
  /\ sent[id].filled <= sent[id].count
  /\ lines.fills[id] <= sent[id].filled
  /\ sent[id].state \in {"none", "sent", "lost"} => sent[id].filled = 0
  /\ sent[id].state = "none" => id \notin lines.intents \cup lines.placed \cup lines.reconciled

\* The journal does not know what became of the order.
Loose(id) == sent[id].state \in {"sent", "open"} \/ sent[id].filled # lines.fills[id]

Journalled(id) == id \in (lines.intents \cup lines.placed) \ lines.reconciled

\* Where the runner will meet a loose order
Sought(id) ==
  /\ Journalled(id)
  /\ buy.at \notin {"risk", "loop"}
  /\ buy.at = "intents" => id \in buy.todo \cup lines.placed
  /\ buy.at = "orders" => id \in buy.todo
  /\ buy.at = "repoll" => id \in buy.todo \cup {buy.id}
  /\ buy.at \in {"send", "poll"} => id = buy.id

\* The order that is being worked on
AtWork ==
  /\ buy.at \in {"send", "poll", "repoll"} => buy.id \in BuyIds
  /\ buy.at \in {"poll", "repoll"} => buy.seen <= sent[buy.id].filled
  /\ buy.at \in {"send", "poll"} => lines.fills[buy.id] = 0 /\ sent[buy.id].state # "none"

Counts ==
  /\ lines.filled = Total(lines.fills) /\ bought = Total(Got)
  /\ buy.at \in {"risk", "loop", "send", "poll"} =>
       /\ buy.filled = lines.filled
       /\ buy.remaining = IF buy.size > lines.filled THEN buy.size - lines.filled ELSE 0

BuyInv ==
  /\ BuyTypeOK
  /\ \A id \in BuyIds : OrderSound(id)
  /\ AtWork /\ Counts
  /\ ~unsure => /\ Total(Worst) <= buy.size
                /\ \A id \in BuyIds : Loose(id) => Sought(id)

-----------------------------------------------------------------------------
(* Sums over the orders.                                                   *)

LEMMA IdFacts ==
  /\ IsFiniteSet(BuyIds) /\ BuyIds \in SUBSET BuyIds
  /\ BuyIds \subseteq Nat /\ 0 \notin BuyIds
<1>1. IsFiniteSet(BuyIds) /\ BuyIds = 1 .. Cardinality(BuyIds)
  BY BuyAssumption
<1>2. Cardinality(BuyIds) \in Nat
  BY <1>1, FS_CardinalityType
<1> DEFINE n == Cardinality(BuyIds)
<1>3. BuyIds = 1 .. n /\ n \in Nat
  BY <1>1, <1>2
<1> HIDE DEF n
<1>4. BuyIds \subseteq Nat /\ 0 \notin BuyIds
  BY <1>3
<1> QED BY <1>1, <1>4

LEMMA TotalType ==
  ASSUME NEW f \in [BuyIds -> Nat]
  PROVE  Total(f) \in Nat
BY IdFacts, SumType DEF Total

LEMMA TotalMonotone ==
  ASSUME NEW f \in [BuyIds -> Nat], NEW g \in [BuyIds -> Nat], \A id \in BuyIds : f[id] <= g[id]
  PROVE  Total(f) <= Total(g)
BY IdFacts, SumMonotone DEF Total

LEMMA TotalChanged ==
  ASSUME NEW f \in [BuyIds -> Nat], NEW g \in [BuyIds -> Nat], NEW id \in BuyIds,
         \A other \in BuyIds : other # id => g[other] = f[other]
  PROVE  Total(g) + f[id] = Total(f) + g[id]
<1>1. IsFiniteSet(BuyIds)
  BY IdFacts
<1>2. SumFunctionOnSet(g, BuyIds) + f[id] = SumFunctionOnSet(f, BuyIds) + g[id]
  BY <1>1, SumChanged, SMTT(60)
<1> QED BY <1>2 DEF Total

LEMMA TotalOfZeros ==
  ASSUME NEW f \in [BuyIds -> Nat], \A id \in BuyIds : f[id] = 0
  PROVE  Total(f) = 0
BY IdFacts, SumOfZeros DEF Total

LEMMA OrderFields ==
  ASSUME NEW o \in Venue!Orders
  PROVE  /\ o.state \in Venue!OrderStates /\ o.count \in Nat /\ o.filled \in Nat
         /\ MayFill(o) \in Nat
BY DEF Venue!Orders, MayFill

LEMMA SumTypes ==
  ASSUME sent \in [BuyIds -> Venue!Orders], lines \in Log!Journals
  PROVE  /\ Got \in [BuyIds -> Nat] /\ Worst \in [BuyIds -> Nat] /\ lines.fills \in [BuyIds -> Nat]
         /\ Total(Got) \in Nat /\ Total(Worst) \in Nat /\ Total(lines.fills) \in Nat
<1>1. Got \in [BuyIds -> Nat] /\ Worst \in [BuyIds -> Nat]
  BY OrderFields DEF Got, Worst
<1>2. lines.fills \in [BuyIds -> Nat]
  BY DEF Log!Journals
<1> QED BY <1>1, <1>2, TotalType

LEMMA SumTypesNext ==
  ASSUME sent' \in [BuyIds -> Venue!Orders], (lines \in Log!Journals)'
  PROVE  /\ Got' \in [BuyIds -> Nat] /\ Worst' \in [BuyIds -> Nat] /\ lines'.fills \in [BuyIds -> Nat]
         /\ Total(Got') \in Nat /\ Total(Worst') \in Nat /\ Total(lines'.fills) \in Nat
<1>1. Got' \in [BuyIds -> Nat] /\ Worst' \in [BuyIds -> Nat]
  BY OrderFields DEF Got, Worst
<1>2. lines'.fills \in [BuyIds -> Nat]
  BY DEF Log!Journals
<1> QED BY <1>1, <1>2, TotalType

-----------------------------------------------------------------------------
(* The first state.                                                        *)

LEMMA BuyInitInv == BuyInit => BuyInv
<1> SUFFICES ASSUME BuyInit PROVE BuyInv
  OBVIOUS
<1>1. PICK size \in BuySizes : buy = NewBuy(size)
  BY DEF BuyInit
<1>2. size \in Nat
  BY BuyAssumption
<1>3. buy \in BuyRecords
  BY <1>1, <1>2 DEF NewBuy, BuyRecords, Places, BuyStatuses
<1>4. /\ sent \in [BuyIds -> Venue!Orders]
      /\ \A id \in BuyIds : /\ sent[id].state = "none" /\ sent[id].filled = 0 /\ sent[id].count = 0
                            /\ MayFill(sent[id]) = 0
  BY DEF BuyInit, Venue!NoOrder, Venue!Orders, Venue!OrderStates, MayFill
<1>5. /\ lines \in Log!Journals /\ lines.filled = 0 /\ \A id \in BuyIds : lines.fills[id] = 0
      /\ lines.intents = {} /\ lines.placed = {} /\ lines.reconciled = {}
  BY DEF BuyInit, Log!EmptyJournal, Log!Journals
<1>6. BuyTypeOK
  BY <1>3, <1>4, <1>5 DEF BuyInit, BuyTypeOK
<1>7. Total(lines.fills) = 0 /\ Total(Got) = 0 /\ Total(Worst) = 0
  <2>1. Got \in [BuyIds -> Nat] /\ Worst \in [BuyIds -> Nat] /\ lines.fills \in [BuyIds -> Nat]
    BY <1>4, <1>5, SumTypes
  <2>2. \A id \in BuyIds : Got[id] = 0 /\ Worst[id] = 0
    BY <1>4 DEF Got, Worst
  <2> QED BY <1>5, <2>1, <2>2, TotalOfZeros
<1>8. buy.at = "idle" /\ buy.size = size
  BY <1>1 DEF NewBuy
<1>9. \A id \in BuyIds : OrderSound(id) /\ ~Loose(id)
  BY <1>4, <1>5 DEF OrderSound, Loose
<1>10. AtWork /\ Counts
  BY <1>5, <1>7, <1>8 DEF AtWork, Counts, BuyInit
<1> QED BY <1>2, <1>6, <1>7, <1>8, <1>9, <1>10 DEF BuyInv

-----------------------------------------------------------------------------
(* Steps of the runner that neither send nor write.                        *)

LEMMA KeptOnPaper ==
  ASSUME BuyInv, UNCHANGED <<lines, sent, bought>>,
         (buy \in BuyRecords)', unsure' \in BOOLEAN, buy'.size = buy.size, AtWork',
         buy'.at \in {"risk", "loop", "send", "poll"} =>
           /\ buy'.filled = lines.filled
           /\ buy'.remaining = IF buy.size > lines.filled THEN buy.size - lines.filled ELSE 0,
         ~unsure' => ~unsure /\ \A id \in BuyIds : Loose(id) => Sought(id)'
  PROVE  BuyInv'
<1>1. BuyTypeOK'
  BY DEF BuyInv, BuyTypeOK
<1>2. (\A id \in BuyIds : OrderSound(id))'
  BY DEF BuyInv, OrderSound
<1>3. Got' = Got /\ Worst' = Worst
  BY DEF Got, Worst
<1>4. Counts'
  BY <1>3, Zenon DEF BuyInv, Counts
<1>5. ASSUME ~unsure' PROVE Total(Worst') <= buy'.size
  BY <1>3, <1>5 DEF BuyInv
<1>6. ASSUME ~unsure', NEW id \in BuyIds, Loose(id)' PROVE Sought(id)'
  <2>1. Loose(id)
    BY <1>6 DEF Loose
  <2> QED BY <1>6, <2>1
<1> QED BY <1>1, <1>2, <1>4, <1>5, <1>6 DEF BuyInv

LEMMA BuyFields ==
  ASSUME BuyTypeOK
  PROVE  /\ buy.at \in Places /\ buy.size \in Nat /\ buy.remaining \in Nat /\ buy.filled \in Nat
         /\ buy.attempted \in Nat /\ buy.id \in BuyIds \cup {0} /\ buy.polls \in Nat /\ buy.seen \in Nat
         /\ buy.todo \in SUBSET BuyIds /\ buy.stopped \in BOOLEAN /\ buy.runs \in Nat
         /\ buy.status \in BuyStatuses
BY DEF BuyTypeOK, BuyRecords

\* A job that ends, fails or is killed: its journal is all there is.
LEMMA Downed ==
  ASSUME BuyInv, UNCHANGED <<lines, sent, bought, unsure>>, (buy \in BuyRecords)',
         buy'.size = buy.size, buy'.at = "down"
  PROVE  BuyInv'
<1>1. AtWork'
  BY DEF AtWork
<1>2. ASSUME ~unsure', NEW id \in BuyIds, Loose(id) PROVE Sought(id)'
  <2>1. Sought(id)
    BY <1>2 DEF BuyInv
  <2> QED BY <2>1 DEF Sought, Journalled
<1>3. unsure' \in BOOLEAN
  BY DEF BuyInv, BuyTypeOK
<1> QED BY <1>1, <1>2, <1>3, KeptOnPaper

LEMMA FinishedRecord ==
  ASSUME BuyInv, NEW status \in BuyStatuses, Finishes(status)
  PROVE  buy' \in BuyRecords /\ buy'.size = buy.size /\ buy'.at = "down"
<1>1. BuyTypeOK
  BY DEF BuyInv
<1> DEFINE s == IF status = "complete" /\ buy.remaining > 0 THEN "partial" ELSE status
<1>2. s \in BuyStatuses
  BY DEF BuyStatuses
<1>3. buy' = [buy EXCEPT !.at = "down", !.stopped = FALSE, !.id = 0, !.status = s]
  BY DEF Finishes
<1> HIDE DEF s
<1> QED BY <1>1, <1>2, <1>3 DEF BuyTypeOK, BuyRecords, Places

LEMMA EndsInv ==
  ASSUME BuyInv, LoopEnds \/ BookFails \/ CreateFails \/ BuyCrashes
  PROVE  BuyInv'
<1>1. UNCHANGED <<lines, sent, bought, unsure>>
  BY DEF LoopEnds, BookFails, CreateFails, BuyCrashes
<1>2. buy' \in BuyRecords /\ buy'.size = buy.size /\ buy'.at = "down"
  <2>1. CASE LoopEnds
    BY <2>1, FinishedRecord DEF LoopEnds, BuyStatuses
  <2>2. CASE BookFails
    BY <2>2, FinishedRecord DEF BookFails, BuyStatuses
  <2>3. CASE CreateFails
    BY <2>3, FinishedRecord DEF CreateFails, BuyStatuses
  <2>4. CASE BuyCrashes
    <3>1. buy' = [NewBuy(buy.size) EXCEPT !.at = "down", !.runs = buy.runs]
      BY <2>4 DEF BuyCrashes
    <3>2. buy.size \in Nat /\ buy.runs \in Nat
      BY BuyFields DEF BuyInv
    <3> QED BY <3>1, <3>2 DEF NewBuy, BuyRecords, Places, BuyStatuses
  <2> QED BY <2>1, <2>2, <2>3, <2>4
<1> QED BY <1>1, <1>2, Downed

LEMMA RunBeginsInv ==
  ASSUME BuyInv, RunBegins
  PROVE  BuyInv'
<1>0. BuyTypeOK /\ UNCHANGED <<lines, sent, bought, unsure>>
  BY DEF BuyInv, RunBegins
<1>1. CASE buy' = [buy EXCEPT !.at = "down", !.runs = @ + 1, !.status = "forbidden"]
  <2>1. buy.runs + 1 \in Nat
    BY <1>0, BuyFields
  <2>2. buy' \in BuyRecords /\ buy'.size = buy.size /\ buy'.at = "down"
    BY <1>0, <1>1, <2>1 DEF BuyTypeOK, BuyRecords, Places, BuyStatuses
  <2> QED BY <1>0, <2>2, Downed
<1>2. CASE buy' = [buy EXCEPT !.at = "intents", !.remaining = buy.size, !.filled = 0, !.attempted = 0,
                              !.todo = Log!PendingIntents(lines), !.stopped = FALSE, !.runs = @ + 1]
  <2>1. buy.runs + 1 \in Nat /\ buy.size \in Nat /\ Log!PendingIntents(lines) \in SUBSET BuyIds
    BY <1>0, BuyFields DEF BuyTypeOK, Log!PendingIntents, Log!Journals
  <2>2. /\ buy' \in BuyRecords /\ buy'.size = buy.size /\ buy'.at = "intents"
        /\ buy'.todo = Log!PendingIntents(lines)
    BY <1>0, <1>2, <2>1 DEF BuyTypeOK, BuyRecords, Places
  <2>3. AtWork'
    BY <2>2 DEF AtWork
  <2>4. ASSUME ~unsure', NEW id \in BuyIds, Loose(id) PROVE Sought(id)'
    <3>1. Sought(id)
      BY <1>0, <2>4 DEF BuyInv
    <3> QED BY <1>0, <2>2, <3>1 DEF Sought, Journalled, Log!PendingIntents
  <2>5. unsure' \in BOOLEAN /\ (~unsure' => ~unsure)
    BY <1>0 DEF BuyTypeOK
  <2> QED BY <1>0, <2>2, <2>3, <2>4, <2>5, KeptOnPaper
<1> QED BY <1>1, <1>2 DEF RunBegins

LEMMA IntentsDoneInv ==
  ASSUME BuyInv, IntentsDone
  PROVE  BuyInv'
<1>0. BuyTypeOK /\ UNCHANGED <<lines, sent, bought, unsure>>
  BY DEF BuyInv, IntentsDone
<1>1. Log!PendingOrders(lines) \in SUBSET BuyIds
  BY <1>0 DEF BuyTypeOK, Log!PendingOrders, Log!Journals
<1>2. /\ buy' \in BuyRecords /\ buy'.size = buy.size /\ buy'.at = "orders"
      /\ buy'.todo = Log!PendingOrders(lines)
  BY <1>0, <1>1 DEF IntentsDone, BuyTypeOK, BuyRecords, Places
<1>3. AtWork'
  BY <1>2 DEF AtWork
<1>4. ASSUME ~unsure', NEW id \in BuyIds, Loose(id) PROVE Sought(id)'
  <2>1. Sought(id) /\ buy.at = "intents" /\ buy.todo = {}
    BY <1>0, <1>4 DEF BuyInv, IntentsDone
  <2>2. id \in lines.placed /\ id \notin lines.reconciled
    BY <2>1 DEF Sought, Journalled
  <2> QED BY <1>0, <1>2, <2>2 DEF Sought, Journalled, Log!PendingOrders
<1>5. unsure' \in BOOLEAN /\ (~unsure' => ~unsure)
  BY <1>0 DEF BuyTypeOK
<1> QED BY <1>0, <1>2, <1>3, <1>4, <1>5, KeptOnPaper

LEMMA OrderLookedUpInv ==
  ASSUME BuyInv, NEW id \in BuyIds, OrderLookedUp(id)
  PROVE  BuyInv'
<1>0. /\ BuyTypeOK /\ UNCHANGED <<lines, sent, bought>> /\ buy.at = "orders" /\ id \in buy.todo
      /\ buy.todo \in SUBSET BuyIds
  BY BuyFields DEF BuyInv, OrderLookedUp
<1>1. ASSUME buy' = [buy EXCEPT !.at = "repoll", !.id = id, !.polls = 0, !.seen = sent[id].filled,
                               !.todo = @ \ {id}],
             unsure' = unsure
      PROVE  BuyInv'
  <2>1. sent[id].filled \in Nat /\ buy.todo \ {id} \in SUBSET BuyIds
    BY <1>0, OrderFields DEF BuyTypeOK
  <2>2. /\ buy' \in BuyRecords /\ buy'.size = buy.size /\ buy'.at = "repoll" /\ buy'.id = id
        /\ buy'.seen = sent[id].filled /\ buy'.todo = buy.todo \ {id}
    BY <1>0, <1>1, <2>1 DEF BuyTypeOK, BuyRecords, Places
  <2>3. AtWork'
    BY <1>0, <2>1, <2>2 DEF AtWork
  <2>4. ASSUME ~unsure', NEW other \in BuyIds, Loose(other) PROVE Sought(other)'
    <3>1. Sought(other)
      BY <1>1, <2>4 DEF BuyInv
    <3> QED BY <1>0, <2>2, <3>1 DEF Sought, Journalled
  <2>5. unsure' \in BOOLEAN /\ (~unsure' => ~unsure)
    BY <1>0, <1>1 DEF BuyTypeOK
  <2> QED BY <1>0, <2>2, <2>3, <2>4, <2>5, KeptOnPaper
<1>2. ASSUME buy' = [buy EXCEPT !.todo = @ \ {id}],
             unsure' = (unsure \/ Unsettled(id, lines.fills[id]))
      PROVE  BuyInv'
  <2>1. buy.todo \ {id} \in SUBSET BuyIds
    BY <1>0
  <2>2. /\ buy' \in BuyRecords /\ buy'.size = buy.size /\ buy'.at = "orders"
        /\ buy'.todo = buy.todo \ {id}
    BY <1>0, <1>2, <2>1 DEF BuyTypeOK, BuyRecords
  <2>3. AtWork'
    BY <2>2 DEF AtWork
  <2>4. ~unsure' => ~unsure /\ ~Unsettled(id, lines.fills[id])
    BY <1>2
  <2>5. ASSUME ~unsure', NEW other \in BuyIds, Loose(other) PROVE Sought(other)'
    <3>1. Sought(other)
      BY <2>4, <2>5 DEF BuyInv
    <3>2. other # id
      <4>1. ~Unsettled(id, lines.fills[id]) /\ OrderSound(id)
        BY <2>4, <2>5 DEF BuyInv
      <4>2. sent[id].filled \in Nat /\ lines.fills[id] \in Nat
        BY <1>0, OrderFields, SumTypes DEF BuyTypeOK
      <4>3. ~Loose(id)
        BY <4>1, <4>2 DEF Unsettled, OrderSound, Loose
      <4> QED BY <2>5, <4>3
    <3> QED BY <1>0, <2>2, <3>1, <3>2 DEF Sought, Journalled
  <2>6. unsure' \in BOOLEAN
    BY <1>0, <1>2 DEF BuyTypeOK, Unsettled
  <2> QED BY <1>0, <2>2, <2>3, <2>4, <2>5, <2>6, KeptOnPaper
<1> QED BY <1>1, <1>2 DEF OrderLookedUp

LEMMA OrdersDoneInv ==
  ASSUME BuyInv, OrdersDone
  PROVE  BuyInv'
<1>0. /\ BuyTypeOK /\ UNCHANGED <<lines, sent, bought, unsure>> /\ buy.at = "orders" /\ buy.todo = {}
      /\ buy.size \in Nat
  BY BuyFields DEF BuyInv, OrdersDone
<1>1. lines.filled \in Nat
  BY <1>0, SumTypes DEF BuyInv, BuyTypeOK, Counts
<1> DEFINE left == IF buy.size > lines.filled THEN buy.size - lines.filled ELSE 0
<1>2. left \in Nat
  BY <1>0, <1>1
<1>3. buy' = [buy EXCEPT !.at = "risk", !.filled = lines.filled, !.remaining = left]
  BY DEF OrdersDone
<1> HIDE DEF left
<1>4. /\ buy' \in BuyRecords /\ buy'.size = buy.size /\ buy'.at = "risk" /\ buy'.filled = lines.filled
      /\ buy'.remaining = left
  BY <1>0, <1>1, <1>2, <1>3 DEF BuyTypeOK, BuyRecords, Places
<1>5. AtWork'
  BY <1>4 DEF AtWork
<1>6. ASSUME ~unsure', NEW id \in BuyIds, Loose(id) PROVE Sought(id)'
  <2>1. Sought(id)
    BY <1>0, <1>6 DEF BuyInv
  <2> QED BY <1>0, <2>1 DEF Sought
<1>7. unsure' \in BOOLEAN /\ (~unsure' => ~unsure)
  BY <1>0 DEF BuyTypeOK
<1> QED BY <1>0, <1>4, <1>5, <1>6, <1>7, KeptOnPaper DEF left

\* A step that moves neither the place nor the list, and keeps the account.
LEMMA StillThere ==
  ASSUME BuyInv, UNCHANGED <<lines, sent, bought, unsure>>, (buy \in BuyRecords)', AtWork',
         buy'.at = buy.at, buy'.id = buy.id, buy'.todo = buy.todo, buy'.size = buy.size,
         buy'.filled = buy.filled, buy'.remaining = buy.remaining
  PROVE  BuyInv'
<1>1. ASSUME ~unsure', NEW id \in BuyIds, Loose(id) PROVE Sought(id)'
  <2>1. Sought(id)
    BY <1>1 DEF BuyInv
  <2> QED BY <2>1 DEF Sought, Journalled
<1>2. unsure' \in BOOLEAN /\ (~unsure' => ~unsure)
  BY DEF BuyInv, BuyTypeOK
<1>3. buy'.at \in {"risk", "loop", "send", "poll"} =>
        /\ buy'.filled = lines.filled
        /\ buy'.remaining = IF buy.size > lines.filled THEN buy.size - lines.filled ELSE 0
  BY DEF BuyInv, Counts
<1> QED BY <1>1, <1>2, <1>3, KeptOnPaper

LEMMA WaitsInv ==
  ASSUME BuyInv, Poll \/ AskTooHigh \/ StopBuying
  PROVE  BuyInv'
<1>0. BuyTypeOK /\ UNCHANGED <<lines, sent, bought, unsure>>
  BY DEF BuyInv, Poll, AskTooHigh, StopBuying
<1>1. ASSUME Poll PROVE BuyInv'
  <2>1. /\ buy.at \in {"poll", "repoll"} /\ buy.id \in BuyIds /\ buy.seen <= sent[buy.id].filled
        /\ buy.at = "repoll" \/ (lines.fills[buy.id] = 0 /\ sent[buy.id].state # "none")
    BY <1>1 DEF Poll, BuyInv, AtWork
  <2>2. PICK seen \in {buy.seen, sent[buy.id].filled} : buy' = [buy EXCEPT !.polls = @ + 1, !.seen = seen]
    BY <1>1 DEF Poll
  <2>3. sent[buy.id].filled \in Nat /\ buy.seen \in Nat /\ buy.polls + 1 \in Nat
    BY <1>0, <2>1, OrderFields, BuyFields DEF BuyTypeOK
  <2>4. seen \in Nat /\ seen <= sent[buy.id].filled
    BY <2>1, <2>3
  <2>5. /\ buy' \in BuyRecords /\ buy'.at = buy.at /\ buy'.id = buy.id /\ buy'.todo = buy.todo
        /\ buy'.size = buy.size /\ buy'.filled = buy.filled /\ buy'.remaining = buy.remaining
        /\ buy'.seen = seen
    BY <1>0, <2>2, <2>3, <2>4 DEF BuyTypeOK, BuyRecords
  <2>6. AtWork'
    BY <1>0, <2>1, <2>4, <2>5 DEF AtWork
  <2> QED BY <1>0, <2>5, <2>6, StillThere
<1>2. ASSUME AskTooHigh PROVE BuyInv'
  <2>1. buy' = [buy EXCEPT !.attempted = @ + 1] /\ buy.attempted + 1 \in Nat /\ buy.at = "loop"
    BY <1>0, <1>2, BuyFields DEF AskTooHigh, MayBuy
  <2>2. /\ buy' \in BuyRecords /\ buy'.at = buy.at /\ buy'.id = buy.id /\ buy'.todo = buy.todo
        /\ buy'.size = buy.size /\ buy'.filled = buy.filled /\ buy'.remaining = buy.remaining
    BY <1>0, <2>1 DEF BuyTypeOK, BuyRecords
  <2>3. AtWork'
    BY <2>1, <2>2 DEF AtWork
  <2> QED BY <1>0, <2>2, <2>3, StillThere
<1>3. ASSUME StopBuying PROVE BuyInv'
  <2>1. buy' = [buy EXCEPT !.stopped = TRUE]
    BY <1>3 DEF StopBuying
  <2>2. /\ buy' \in BuyRecords /\ buy'.at = buy.at /\ buy'.id = buy.id /\ buy'.todo = buy.todo
        /\ buy'.size = buy.size /\ buy'.filled = buy.filled /\ buy'.remaining = buy.remaining
        /\ buy'.seen = buy.seen
    BY <1>0, <2>1 DEF BuyTypeOK, BuyRecords
  <2>3. AtWork'
    BY <1>0, <2>2 DEF BuyInv, AtWork
  <2> QED BY <1>0, <2>2, <2>3, StillThere
<1> QED BY <1>1, <1>2, <1>3

LEMMA RiskCheckedInv ==
  ASSUME BuyInv, RiskChecked
  PROVE  BuyInv'
<1>0. BuyTypeOK /\ UNCHANGED <<lines, sent, bought, unsure>> /\ buy.at = "risk"
  BY DEF BuyInv, RiskChecked
<1>1. ASSUME Finishes("error") PROVE BuyInv'
  <2>1. buy' \in BuyRecords /\ buy'.size = buy.size /\ buy'.at = "down"
    BY <1>1, FinishedRecord DEF BuyStatuses
  <2> QED BY <1>0, <2>1, Downed
<1>2. ASSUME buy' = [buy EXCEPT !.at = "loop"] PROVE BuyInv'
  <2>1. /\ buy' \in BuyRecords /\ buy'.at = "loop" /\ buy'.size = buy.size
        /\ buy'.filled = buy.filled /\ buy'.remaining = buy.remaining
    BY <1>0, <1>2 DEF BuyTypeOK, BuyRecords, Places
  <2>2. AtWork'
    BY <2>1 DEF AtWork
  <2>3. ASSUME ~unsure', NEW id \in BuyIds, Loose(id) PROVE Sought(id)'
    <3>1. Sought(id)
      BY <1>0, <2>3 DEF BuyInv
    <3> QED BY <1>0, <3>1 DEF Sought
  <2>4. unsure' \in BOOLEAN /\ (~unsure' => ~unsure)
    BY <1>0 DEF BuyTypeOK
  <2>5. /\ buy'.filled = lines.filled
        /\ buy'.remaining = IF buy.size > lines.filled THEN buy.size - lines.filled ELSE 0
    BY <1>0, <2>1 DEF BuyInv, Counts
  <2> QED BY <1>0, <2>1, <2>2, <2>3, <2>4, <2>5, KeptOnPaper
<1> QED BY <1>1, <1>2 DEF RiskChecked

-----------------------------------------------------------------------------
(* Steps that write lines and send nothing.                                *)

\* What the orders themselves have done is as it was.
LEMMA KeptAtVenue ==
  ASSUME BuyInv, UNCHANGED <<sent, bought>>
  PROVE  /\ Got' = Got /\ Worst' = Worst
         /\ bought' \in Nat /\ bought' = Total(Got')
BY DEF Got, Worst, BuyInv, BuyTypeOK, Counts

\* An intent or an order is placed: the fills that are known stay.
LEMMA PlacedFacts ==
  ASSUME BuyInv, NEW id \in BuyIds, lines' = Log!Placed(lines, id), UNCHANGED <<sent, bought>>,
         sent[id].state # "none"
  PROVE  /\ lines' \in Log!Journals /\ lines'.fills = lines.fills /\ lines'.filled = lines.filled
         /\ lines'.intents = lines.intents /\ lines'.reconciled = lines.reconciled
         /\ lines'.placed = lines.placed \cup {id}
         /\ \A other \in BuyIds : OrderSound(other)'
<1>1. /\ lines' \in Log!Journals /\ lines'.fills = lines.fills /\ lines'.filled = lines.filled
      /\ lines'.intents = lines.intents /\ lines'.reconciled = lines.reconciled
      /\ lines'.placed = lines.placed \cup {id}
  BY DEF BuyInv, BuyTypeOK, Log!Placed, Log!Journals
<1>2. ASSUME NEW other \in BuyIds PROVE OrderSound(other)'
  <2>1. OrderSound(other)
    BY DEF BuyInv
  <2> QED BY <1>1, <2>1 DEF OrderSound
<1> QED BY <1>1, <1>2

LEMMA IntentLookedUpInv ==
  ASSUME BuyInv, NEW id \in BuyIds, IntentLookedUp(id)
  PROVE  BuyInv'
<1>0. /\ BuyTypeOK /\ UNCHANGED <<sent, bought>> /\ buy.at = "intents" /\ id \in buy.todo
      /\ buy' = [buy EXCEPT !.todo = @ \ {id}] /\ buy.todo \in SUBSET BuyIds
  BY BuyFields DEF BuyInv, IntentLookedUp, AtExchange
<1>1. /\ buy' \in BuyRecords /\ buy'.size = buy.size /\ buy'.at = "intents"
      /\ buy'.todo = buy.todo \ {id}
  BY <1>0 DEF BuyTypeOK, BuyRecords
<1>2. AtWork'
  BY <1>1 DEF AtWork
<1>3. ASSUME Venue!Landed(sent[id]), lines' = Log!Placed(lines, id), unsure' = unsure PROVE BuyInv'
  <2>1. sent[id].state # "none"
    BY <1>3 DEF Venue!Landed
  <2>2. /\ lines' \in Log!Journals /\ lines'.fills = lines.fills /\ lines'.filled = lines.filled
        /\ lines'.intents = lines.intents /\ lines'.reconciled = lines.reconciled
        /\ lines'.placed = lines.placed \cup {id}
        /\ \A other \in BuyIds : OrderSound(other)'
    BY <1>0, <1>3, <2>1, PlacedFacts
  <2>3. Got' = Got /\ Worst' = Worst /\ bought' \in Nat /\ bought' = Total(Got')
    BY <1>0, KeptAtVenue
  <2>4. BuyTypeOK'
    BY <1>0, <1>1, <1>3, <2>2, <2>3 DEF BuyTypeOK
  <2>5. Counts'
    BY <1>1, <2>2, <2>3 DEF BuyInv, Counts
  <2>6. ASSUME ~unsure', NEW other \in BuyIds, Loose(other)' PROVE Sought(other)'
    <3>1. Sought(other)
      BY <1>0, <1>3, <2>2, <2>6 DEF BuyInv, Loose
    <3> QED BY <1>0, <1>1, <2>2, <3>1 DEF Sought, Journalled
  <2>7. ~unsure' => Total(Worst') <= buy'.size
    BY <1>1, <1>3, <2>3 DEF BuyInv
  <2> QED BY <1>2, <2>2, <2>4, <2>5, <2>6, <2>7 DEF BuyInv
<1>4. ASSUME lines' = lines, unsure' = (unsure \/ Unsettled(id, 0)) PROVE BuyInv'
  <2>1. ~unsure' => ~unsure /\ ~Unsettled(id, 0)
    BY <1>4
  <2>2. ASSUME ~unsure', NEW other \in BuyIds, Loose(other) PROVE Sought(other)'
    <3>1. Sought(other)
      BY <2>1, <2>2 DEF BuyInv
    <3>2. other # id
      <4>1. ~Unsettled(id, 0) /\ OrderSound(id)
        BY <2>1, <2>2 DEF BuyInv
      <4>2. sent[id].filled \in Nat /\ lines.fills[id] \in Nat
        BY <1>0, OrderFields, SumTypes DEF BuyTypeOK
      <4>3. ~Loose(id)
        BY <4>1, <4>2 DEF Unsettled, OrderSound, Loose
      <4> QED BY <2>2, <4>3
    <3> QED BY <1>0, <1>1, <1>4, <3>1, <3>2 DEF Sought, Journalled
  <2>3. unsure' \in BOOLEAN
    BY <1>0, <1>4 DEF BuyTypeOK, Unsettled
  <2> QED BY <1>0, <1>1, <1>2, <1>4, <2>1, <2>2, <2>3, KeptOnPaper
<1> QED BY <1>3, <1>4 DEF IntentLookedUp

LEMMA OrderCreatedInv ==
  ASSUME BuyInv, OrderCreated
  PROVE  BuyInv'
<1> DEFINE id == buy.id
<1>0. /\ BuyTypeOK /\ UNCHANGED <<sent, bought, unsure>> /\ buy.at = "send" /\ id \in BuyIds
      /\ sent[id].state # "none" /\ lines' = Log!Placed(lines, id)
      /\ lines.fills[id] = 0
  BY DEF BuyInv, OrderCreated, AtWork, Venue!Landed
<1>1. sent[id].filled \in Nat
  BY <1>0, OrderFields DEF BuyTypeOK
<1>2. buy' = [buy EXCEPT !.at = "poll", !.polls = 0, !.seen = sent[id].filled]
  BY DEF OrderCreated
<1>3. /\ buy' \in BuyRecords /\ buy'.size = buy.size /\ buy'.at = "poll" /\ buy'.id = id
      /\ buy'.todo = buy.todo /\ buy'.seen = sent[id].filled
      /\ buy'.filled = buy.filled /\ buy'.remaining = buy.remaining
  BY <1>0, <1>1, <1>2 DEF BuyTypeOK, BuyRecords, Places
<1> HIDE DEF id
<1>4. /\ lines' \in Log!Journals /\ lines'.fills = lines.fills /\ lines'.filled = lines.filled
      /\ lines'.intents = lines.intents /\ lines'.reconciled = lines.reconciled
      /\ lines'.placed = lines.placed \cup {id}
      /\ \A other \in BuyIds : OrderSound(other)'
  BY <1>0, PlacedFacts
<1>5. Got' = Got /\ Worst' = Worst /\ bought' \in Nat /\ bought' = Total(Got')
  BY <1>0, KeptAtVenue
<1>6. BuyTypeOK'
  BY <1>0, <1>3, <1>4, <1>5 DEF BuyTypeOK
<1>7. AtWork'
  BY <1>0, <1>1, <1>3, <1>4 DEF AtWork
<1>8. Counts'
  BY <1>0, <1>3, <1>4, <1>5 DEF BuyInv, Counts
<1>9. ASSUME ~unsure', NEW other \in BuyIds, Loose(other)' PROVE Sought(other)'
  <2>1. Sought(other)
    BY <1>0, <1>4, <1>9 DEF BuyInv, Loose
  <2> QED BY <1>0, <1>3, <1>4, <2>1 DEF Sought, Journalled, id
<1>10. ~unsure' => Total(Worst') <= buy'.size
  BY <1>0, <1>3, <1>5 DEF BuyInv
<1> QED BY <1>4, <1>6, <1>7, <1>8, <1>9, <1>10 DEF BuyInv

LEMMA UnsureType ==
  ASSUME BuyTypeOK, NEW id \in BuyIds, NEW known \in Nat, unsure' = (unsure \/ Unsettled(id, known))
  PROVE  unsure' \in BOOLEAN
BY DEF BuyTypeOK, Unsettled

\* An order that settles: its last fill replaces what was known of it, and unless
\* it is given up on, it can no longer do anything else.
LEMMA FillFacts ==
  ASSUME BuyInv, NEW id \in BuyIds, id = buy.id, buy.at \in {"poll", "repoll"},
         NEW seen \in 0 .. sent[id].count, SettledAs(seen), UNCHANGED <<sent, bought>>,
         unsure' = (unsure \/ Unsettled(id, seen))
  PROVE  /\ seen \in Nat /\ Log!Fill(lines, id, seen) \in Log!Journals
         /\ Log!Fill(lines, id, seen).fills = [lines.fills EXCEPT ![id] = seen]
         /\ Log!Fill(lines, id, seen).filled = lines.filled - lines.fills[id] + seen
         /\ Log!Fill(lines, id, seen).filled = Total([lines.fills EXCEPT ![id] = seen])
         /\ Log!Fill(lines, id, seen).intents = lines.intents
         /\ Log!Fill(lines, id, seen).placed = lines.placed
         /\ Log!Fill(lines, id, seen).reconciled = lines.reconciled
         /\ seen <= sent[id].filled
         /\ unsure' \in BOOLEAN
         /\ ~unsure' => ~unsure /\ sent[id].state \notin {"sent", "open"} /\ sent[id].filled = seen
<1>0. BuyTypeOK /\ AtWork /\ Counts
  BY DEF BuyInv
<1>1. sent[id].filled \in Nat /\ sent[id].count \in Nat /\ buy.seen \in Nat
  BY <1>0, OrderFields, BuyFields DEF BuyTypeOK
<1>2. seen \in Nat
  BY <1>1
<1>3. seen <= sent[id].filled
  <2>1. CASE seen = sent[buy.id].filled
    BY <2>1, <1>1
  <2>2. CASE seen = buy.seen
    BY <2>2, <1>0, <1>1 DEF AtWork
  <2> QED BY <2>1, <2>2 DEF SettledAs
<1>4. lines.fills \in [BuyIds -> Nat] /\ lines.filled \in Int
  BY <1>0 DEF BuyTypeOK, Log!Journals
<1> DEFINE fills == [lines.fills EXCEPT ![id] = seen]
           filled == lines.filled - lines.fills[id] + seen
           j == Log!Fill(lines, id, seen)
<1>5. fills \in [BuyIds -> Nat] /\ filled \in Int /\ fills[id] = seen
  BY <1>2, <1>4
<1>6. j = [lines EXCEPT !.fills = fills, !.filled = filled]
  BY <1>0 DEF Log!Fill, BuyTypeOK, Log!Journals
<1>7. filled = Total(fills)
  <2>1. \A other \in BuyIds : other # id => fills[other] = lines.fills[other]
    BY <1>4
  <2>2. Total(fills) \in Nat /\ Total(lines.fills) \in Nat
    BY <1>4, <1>5, TotalType
  <2> HIDE DEF fills
  <2>3. Total(fills) + lines.fills[id] = Total(lines.fills) + fills[id]
    BY <1>4, <1>5, <2>1, TotalChanged
  <2>4. lines.filled = Total(lines.fills) /\ lines.fills[id] \in Nat
    BY <1>0, <1>4 DEF Counts
  <2> QED BY <1>2, <1>5, <2>2, <2>3, <2>4
<1>8. /\ j \in Log!Journals /\ j.fills = fills /\ j.filled = filled
      /\ j.intents = lines.intents /\ j.placed = lines.placed /\ j.reconciled = lines.reconciled
  <2> HIDE DEF fills, filled, j
  <2> QED BY <1>0, <1>5, <1>6 DEF BuyTypeOK, Log!Journals
<1>9. unsure' \in BOOLEAN
  BY <1>0, <1>2, UnsureType
<1>10. ~unsure' => ~unsure /\ sent[id].state \notin {"sent", "open"} /\ sent[id].filled = seen
  <2>1. ~unsure' => ~unsure /\ ~Unsettled(id, seen)
    OBVIOUS
  <2>2. ~Unsettled(id, seen) => sent[id].state \notin {"sent", "open"} /\ sent[id].filled = seen
    BY <1>1, <1>2, <1>3 DEF Unsettled
  <2> QED BY <2>1, <2>2, Zenon
<1> QED BY <1>2, <1>3, <1>7, <1>8, <1>9, <1>10

LEMMA OrderReresumedInv ==
  ASSUME BuyInv, OrderReresumed
  PROVE  BuyInv'
<1> DEFINE id == buy.id
<1>0. BuyTypeOK /\ UNCHANGED <<sent, bought>> /\ buy.at = "repoll" /\ id \in BuyIds
  BY DEF BuyInv, OrderReresumed, AtExchange, AtWork
<1>1. PICK seen \in 0 .. sent[id].count :
        /\ SettledAs(seen) /\ lines' = Log!Fill(lines, id, seen)
        /\ unsure' = (unsure \/ Unsettled(id, seen))
  BY DEF OrderReresumed, Log!ResumeReconciled
<1>2. /\ buy' \in BuyRecords /\ buy'.at = "orders" /\ buy'.size = buy.size /\ buy'.todo = buy.todo
  <2>1. buy' = [buy EXCEPT !.at = "orders", !.id = 0, !.seen = 0, !.polls = 0]
    BY DEF OrderReresumed
  <2> QED BY <1>0, <2>1 DEF BuyTypeOK, BuyRecords, Places
<1>3. /\ seen \in Nat /\ lines' \in Log!Journals
      /\ lines'.fills = [lines.fills EXCEPT ![id] = seen] /\ lines'.filled = Total(lines'.fills)
      /\ lines'.intents = lines.intents /\ lines'.placed = lines.placed
      /\ lines'.reconciled = lines.reconciled /\ seen <= sent[id].filled /\ unsure' \in BOOLEAN
      /\ ~unsure' => ~unsure /\ sent[id].state \notin {"sent", "open"} /\ sent[id].filled = seen
  BY <1>0, <1>1, FillFacts
<1>4. lines.fills \in [BuyIds -> Nat]
  BY <1>0, SumTypes DEF BuyTypeOK
<1>5. Got' = Got /\ Worst' = Worst /\ bought' \in Nat /\ bought' = Total(Got')
  BY <1>0, KeptAtVenue
<1>6. BuyTypeOK'
  BY <1>0, <1>2, <1>3, <1>5 DEF BuyTypeOK
<1> HIDE DEF id
<1>7. ASSUME NEW other \in BuyIds PROVE OrderSound(other)'
  <2>1. OrderSound(other)
    BY DEF BuyInv
  <2> QED BY <1>0, <1>3, <1>4, <2>1 DEF OrderSound
<1>8. AtWork' /\ Counts'
  BY <1>2, <1>3, <1>5 DEF AtWork, Counts
<1>9. ~unsure' => Total(Worst') <= buy'.size
  BY <1>2, <1>3, <1>5 DEF BuyInv
<1>10. ASSUME ~unsure', NEW other \in BuyIds, Loose(other)' PROVE Sought(other)'
  <2>1. other # id
    BY <1>0, <1>3, <1>4, <1>10 DEF Loose
  <2>2. Loose(other)
    BY <1>0, <1>3, <1>4, <1>10, <2>1 DEF Loose
  <2>3. Sought(other)
    BY <1>3, <1>10, <2>2 DEF BuyInv
  <2> QED BY <1>0, <1>2, <1>3, <2>1, <2>3 DEF Sought, Journalled, id
<1> QED BY <1>6, <1>7, <1>8, <1>9, <1>10 DEF BuyInv

LEMMA OrderSettlesInv ==
  ASSUME BuyInv, OrderSettles
  PROVE  BuyInv'
<1> DEFINE id == buy.id
<1>0. /\ BuyTypeOK /\ UNCHANGED <<sent, bought>> /\ buy.at = "poll" /\ id \in BuyIds
      /\ lines.fills[id] = 0 /\ sent[id].state # "none"
  BY DEF BuyInv, OrderSettles, AtExchange, AtWork
<1>1. PICK seen \in 0 .. sent[id].count :
        /\ SettledAs(seen) /\ lines' = Log!Reconciled(lines, id, seen)
        /\ unsure' = (unsure \/ Unsettled(id, seen))
        /\ buy' = [buy EXCEPT !.at = "loop", !.id = 0, !.seen = 0, !.polls = 0, !.filled = @ + seen,
                     !.remaining = IF buy.remaining > seen THEN buy.remaining - seen ELSE 0]
  BY Zenon DEF OrderSettles
<1> DEFINE j == Log!Fill(lines, id, seen)
<1>2. /\ seen \in Nat /\ j \in Log!Journals
      /\ j.fills = [lines.fills EXCEPT ![id] = seen]
      /\ j.filled = lines.filled - lines.fills[id] + seen /\ j.filled = Total(j.fills)
      /\ j.intents = lines.intents /\ j.placed = lines.placed
      /\ j.reconciled = lines.reconciled /\ seen <= sent[id].filled /\ unsure' \in BOOLEAN
      /\ ~unsure' => ~unsure /\ sent[id].state \notin {"sent", "open"} /\ sent[id].filled = seen
  BY <1>0, <1>1, FillFacts
<1>3. lines' = [j EXCEPT !.reconciled = @ \cup {id}]
  BY <1>1 DEF Log!Reconciled
<1> HIDE DEF j
<1>4. /\ lines' \in Log!Journals /\ lines'.fills = j.fills /\ lines'.filled = j.filled
      /\ lines'.intents = j.intents /\ lines'.placed = j.placed
      /\ lines'.reconciled = lines.reconciled \cup {id}
  BY <1>0, <1>2, <1>3 DEF Log!Journals
<1>5. /\ buy.filled = lines.filled /\ buy.filled \in Nat /\ buy.remaining \in Nat /\ buy.size \in Nat
      /\ buy.remaining = IF buy.size > lines.filled THEN buy.size - lines.filled ELSE 0
  BY <1>0, BuyFields DEF BuyInv, Counts
<1> DEFINE left == IF buy.remaining > seen THEN buy.remaining - seen ELSE 0
           total == buy.filled + seen
<1>6. left \in Nat /\ total \in Nat
  BY <1>2, <1>5
<1>7. buy' = [buy EXCEPT !.at = "loop", !.id = 0, !.seen = 0, !.polls = 0, !.filled = total, !.remaining = left]
  BY <1>1, <1>0 DEF BuyTypeOK, BuyRecords
<1>8. /\ buy' \in BuyRecords /\ buy'.at = "loop" /\ buy'.size = buy.size
      /\ buy'.filled = total /\ buy'.remaining = left
  <2> HIDE DEF left, total
  <2> QED BY ZenonT(60), <1>0, <1>6, <1>7 DEF BuyTypeOK, BuyRecords, Places
<1>9. total = lines'.filled
  BY <1>0, <1>2, <1>4, <1>5
<1>10. left = IF buy.size > lines'.filled THEN buy.size - lines'.filled ELSE 0
  <2>1. lines'.filled = lines.filled + seen
    BY <1>5, <1>9
  <2> QED BY <1>2, <1>5, <2>1
<1> HIDE DEF left, total
<1>11. lines.fills \in [BuyIds -> Nat]
  BY <1>0, SumTypes DEF BuyTypeOK
<1>12. Got' = Got /\ Worst' = Worst /\ bought' \in Nat /\ bought' = Total(Got')
  BY <1>0, KeptAtVenue
<1>13. BuyTypeOK'
  BY <1>0, <1>2, <1>4, <1>8, <1>12 DEF BuyTypeOK
<1> HIDE DEF id
<1>14. ASSUME NEW other \in BuyIds PROVE OrderSound(other)'
  <2>1. OrderSound(other)
    BY DEF BuyInv
  <2> QED BY <1>0, <1>2, <1>4, <1>11, <2>1 DEF OrderSound
<1>15. AtWork'
  BY <1>8 DEF AtWork
<1>16. Counts'
  BY <1>2, <1>4, <1>8, <1>9, <1>10, <1>12 DEF Counts
<1>17. ~unsure' => Total(Worst') <= buy'.size
  BY <1>2, <1>8, <1>12 DEF BuyInv
<1>18. ASSUME ~unsure', NEW other \in BuyIds, Loose(other)' PROVE FALSE
  <2>1. other # id
    BY <1>0, <1>2, <1>4, <1>11, <1>18 DEF Loose
  <2>2. Loose(other)
    BY <1>0, <1>2, <1>4, <1>11, <1>18, <2>1 DEF Loose
  <2>3. Sought(other)
    BY <1>2, <1>18, <2>2 DEF BuyInv
  <2> QED BY <1>0, <2>1, <2>3 DEF Sought, id
<1> QED BY <1>13, <1>14, <1>15, <1>16, <1>17, <1>18 DEF BuyInv

-----------------------------------------------------------------------------
(* Orders.                                                                 *)

LEMMA OrderSentInv ==
  ASSUME BuyInv, NEW id \in BuyIds, OrderSent(id)
  PROVE  BuyInv'
<1> DEFINE chunk == IF buy.remaining < BuyChunk THEN buy.remaining ELSE BuyChunk
<1>0. /\ BuyTypeOK /\ UNCHANGED <<bought, unsure>> /\ buy.at = "loop" /\ sent[id].state = "none"
      /\ buy.remaining > 0
  BY DEF BuyInv, OrderSent, MayBuy
<1>1. /\ buy.filled = lines.filled /\ buy.filled \in Nat /\ buy.remaining \in Nat /\ buy.size \in Nat
      /\ buy.remaining = IF buy.size > lines.filled THEN buy.size - lines.filled ELSE 0
      /\ buy.attempted + 1 \in Nat
  BY <1>0, BuyFields DEF BuyInv, Counts
<1>2. chunk \in Nat /\ lines.filled + chunk <= buy.size
  <2>1. BuyChunk \in Nat
    BY BuyAssumption
  <2> QED BY <1>0, <1>1, <2>1
<1> DEFINE o == Venue!Sent(chunk, "ioc", FALSE)
<1>3. sent' = [sent EXCEPT ![id] = o] /\ lines' = Log!Intent(lines, id)
  BY DEF OrderSent
<1> HIDE DEF chunk
<1>4. /\ o \in Venue!Orders /\ o.state = "sent" /\ o.count = chunk /\ o.filled = 0 /\ MayFill(o) = chunk
  BY <1>2 DEF Venue!Sent, Venue!Orders, Venue!OrderStates, MayFill
<1> HIDE DEF o
<1>5. /\ sent \in [BuyIds -> Venue!Orders] /\ sent' \in [BuyIds -> Venue!Orders] /\ sent'[id] = o
      /\ \A other \in BuyIds : other # id => sent'[other] = sent[other]
  BY <1>0, <1>3, <1>4 DEF BuyTypeOK
<1>6. /\ lines' \in Log!Journals /\ lines'.fills = lines.fills /\ lines'.filled = lines.filled
      /\ lines'.intents = lines.intents \cup {id} /\ lines'.placed = lines.placed
      /\ lines'.reconciled = lines.reconciled
  BY <1>0, <1>3 DEF BuyTypeOK, Log!Intent, Log!Journals
<1>7. /\ buy' \in BuyRecords /\ buy'.at = "send" /\ buy'.id = id /\ buy'.size = buy.size
      /\ buy'.filled = buy.filled /\ buy'.remaining = buy.remaining
  <2>1. buy' = [buy EXCEPT !.at = "send", !.id = id, !.attempted = @ + 1]
    BY DEF OrderSent
  <2> QED BY <1>0, <1>1, <2>1 DEF BuyTypeOK, BuyRecords, Places
<1>8. BuyTypeOK'
  BY <1>0, <1>5, <1>6, <1>7 DEF BuyTypeOK
<1>9. /\ sent[id].filled = 0 /\ lines.fills[id] = 0 /\ id \notin lines.reconciled
      /\ MayFill(sent[id]) = 0
  <2>1. OrderSound(id)
    BY DEF BuyInv
  <2>2. lines.fills[id] \in Nat
    BY <1>0, SumTypes DEF BuyTypeOK
  <2>3. sent[id].filled = 0 /\ lines.fills[id] <= 0 /\ id \notin lines.reconciled
    BY <1>0, <2>1 DEF OrderSound
  <2> QED BY <1>0, <2>2, <2>3 DEF MayFill
<1>10. ASSUME NEW other \in BuyIds PROVE OrderSound(other)'
  <2>1. OrderSound(other)
    BY DEF BuyInv
  <2>2. CASE other = id
    BY <1>2, <1>4, <1>5, <1>6, <1>9, <2>2 DEF OrderSound
  <2>3. CASE other # id
    BY <1>5, <1>6, <2>1, <2>3 DEF OrderSound
  <2> QED BY <2>2, <2>3
<1>11. AtWork'
  BY <1>4, <1>5, <1>6, <1>7, <1>9 DEF AtWork
<1>12. Got' = Got
  BY <1>4, <1>5, <1>9 DEF Got
<1>13. Counts'
  BY <1>0, <1>1, <1>6, <1>7, <1>12 DEF BuyInv, Counts
<1>14. ASSUME ~unsure' PROVE Total(Worst') <= buy'.size
  <2>1. \A other \in BuyIds : ~Loose(other)
    BY <1>0, <1>14 DEF BuyInv, Sought
  <2>2. /\ Worst \in [BuyIds -> Nat] /\ Total(Worst) \in Nat /\ lines.fills \in [BuyIds -> Nat]
        /\ Worst' \in [BuyIds -> Nat] /\ Total(Worst') \in Nat
    BY <1>0, <1>5, <1>8, SumTypes, SumTypesNext DEF BuyTypeOK
  <2>3. Worst = lines.fills
    <3>1. \A other \in BuyIds : Worst[other] = lines.fills[other]
      BY <2>1 DEF Worst, Loose, MayFill
    <3> QED BY <2>2, <3>1
  <2>4. Total(Worst) = lines.filled
    BY <2>3 DEF BuyInv, Counts
  <2>5. Worst'[id] = chunk /\ Worst[id] = 0 /\ \A other \in BuyIds : other # id => Worst'[other] = Worst[other]
    BY <1>4, <1>5, <1>9 DEF Worst
  <2>6. Total(Worst') + Worst[id] = Total(Worst) + Worst'[id]
    BY <2>2, <2>5, TotalChanged
  <2>7. Total(Worst') = lines.filled + chunk
    BY <1>2, <2>2, <2>4, <2>5, <2>6
  <2> QED BY <1>2, <1>7, <2>7
<1>15. ASSUME ~unsure', NEW other \in BuyIds, Loose(other)' PROVE Sought(other)'
  <2>1. other = id
    <3> SUFFICES ASSUME other # id PROVE FALSE
      OBVIOUS
    <3>1. Loose(other)
      BY <1>5, <1>6, <1>15 DEF Loose
    <3> QED BY <1>0, <1>15, <3>1 DEF BuyInv, Sought
  <2> QED BY <1>6, <1>7, <1>9, <2>1 DEF Sought, Journalled
<1> QED BY <1>8, <1>10, <1>11, <1>13, <1>14, <1>15 DEF BuyInv

\* The exchange moves one order, which may still fill: it fills more of it, never
\* beyond its count, and never back.
LEMMA OrderMoved ==
  ASSUME BuyInv, NEW id \in BuyIds, NEW o \in Venue!Orders, NEW n \in Nat,
         sent' = [sent EXCEPT ![id] = o], UNCHANGED <<buy, lines, unsure>>,
         sent[id].state \in {"sent", "open"}, o.state \in {"lost", "open", "closed"},
         o.count = sent[id].count, o.filled = sent[id].filled + n, o.filled <= o.count,
         o.state = "lost" => o.filled = 0, bought' = bought + n
  PROVE  BuyInv'
<1>0. BuyTypeOK /\ OrderSound(id)
  BY DEF BuyInv
<1>1. /\ sent \in [BuyIds -> Venue!Orders] /\ sent' \in [BuyIds -> Venue!Orders] /\ sent'[id] = o
      /\ \A other \in BuyIds : other # id => sent'[other] = sent[other]
  BY <1>0 DEF BuyTypeOK
<1>2. /\ sent[id].filled \in Nat /\ o.filled \in Nat /\ o.count \in Nat
      /\ lines.fills \in [BuyIds -> Nat] /\ bought \in Nat /\ bought' \in Nat
      /\ buy.size \in Nat
  BY <1>0, <1>1, OrderFields, SumTypes, BuyFields DEF BuyTypeOK
<1>3. BuyTypeOK'
  BY <1>0, <1>1, <1>2 DEF BuyTypeOK
<1>4. ASSUME NEW other \in BuyIds PROVE OrderSound(other)'
  <2>1. OrderSound(other)
    BY DEF BuyInv
  <2>2. CASE other = id
    <3>1. lines.fills[id] <= sent[id].filled /\ lines.fills[id] \in Nat
      BY <1>0, <1>2 DEF OrderSound
    <3>2. lines.fills[id] <= o.filled
      BY <1>2, <3>1
    <3> QED BY <1>1, <2>2, <3>2 DEF OrderSound
  <2>3. CASE other # id
    BY <1>1, <2>1, <2>3 DEF OrderSound
  <2> QED BY <2>2, <2>3
<1>5. \A other \in BuyIds : sent[other].filled <= sent'[other].filled
  <2> SUFFICES ASSUME NEW other \in BuyIds PROVE sent[other].filled <= sent'[other].filled
    OBVIOUS
  <2>1. sent[other].filled \in Nat
    BY <1>1, OrderFields
  <2> QED BY <1>1, <1>2, <2>1
<1>6. AtWork'
  <2>1. AtWork /\ buy.seen \in Nat
    BY <1>0, BuyFields DEF BuyInv
  <2>2. ASSUME buy.at \in {"poll", "repoll"} PROVE buy.seen <= sent'[buy.id].filled
    <3>1. buy.id \in BuyIds /\ buy.seen <= sent[buy.id].filled
      BY <2>1, <2>2 DEF AtWork
    <3>2. sent[buy.id].filled \in Nat /\ sent'[buy.id].filled \in Nat
      BY <1>1, <3>1, OrderFields
    <3> QED BY <1>5, <2>1, <3>1, <3>2
  <2>3. \A other \in BuyIds : sent[other].state # "none" => sent'[other].state # "none"
    BY <1>1
  <2> QED BY <2>1, <2>2, <2>3 DEF AtWork
<1>7. /\ Got \in [BuyIds -> Nat] /\ Got' \in [BuyIds -> Nat] /\ Total(Got) \in Nat /\ Total(Got') \in Nat
      /\ Worst \in [BuyIds -> Nat] /\ Worst' \in [BuyIds -> Nat] /\ Total(Worst) \in Nat
      /\ Total(Worst') \in Nat
  BY <1>0, <1>1, <1>3, SumTypes, SumTypesNext DEF BuyTypeOK
<1>8. bought' = Total(Got')
  <2>1. /\ Got[id] = sent[id].filled /\ Got'[id] = o.filled
        /\ \A other \in BuyIds : other # id => Got'[other] = Got[other]
    BY <1>1 DEF Got
  <2>2. Total(Got') + Got[id] = Total(Got) + Got'[id]
    BY <1>7, <2>1, TotalChanged
  <2>3. bought = Total(Got)
    BY DEF BuyInv, Counts
  <2> QED BY <1>2, <1>7, <2>1, <2>2, <2>3
<1>9. Counts'
  BY <1>8 DEF BuyInv, Counts
<1>10. ASSUME ~unsure' PROVE Total(Worst') <= buy'.size
  <2>1. Worst'[id] <= Worst[id]
    <3>1. Worst[id] = o.count /\ Worst'[id] \in {o.count, o.filled}
      BY <1>1 DEF Worst, MayFill
    <3> QED BY <1>2, <3>1
  <2>2. \A other \in BuyIds : Worst'[other] <= Worst[other]
    <3>1. \A other \in BuyIds : other # id => Worst'[other] = Worst[other]
      BY <1>1 DEF Worst
    <3>2. \A other \in BuyIds : Worst[other] \in Nat
      BY <1>7
    <3> QED BY <2>1, <3>1, <3>2
  <2>3. Total(Worst') <= Total(Worst)
    BY <1>7, <2>2, TotalMonotone
  <2>4. Total(Worst) <= buy.size
    BY <1>10 DEF BuyInv
  <2> QED BY <1>2, <1>7, <2>3, <2>4
<1>11. ASSUME ~unsure', NEW other \in BuyIds, Loose(other)' PROVE Sought(other)'
  <2>1. Loose(other)
    <3>1. CASE other = id
      BY <3>1 DEF Loose
    <3>2. CASE other # id
      BY <1>1, <1>11, <3>2 DEF Loose
    <3> QED BY <3>1, <3>2
  <2>2. Sought(other)
    BY <1>11, <2>1 DEF BuyInv
  <2> QED BY <2>2 DEF Sought, Journalled
<1> QED BY <1>3, <1>4, <1>6, <1>9, <1>10, <1>11 DEF BuyInv

LEMMA BuyArrivesInv ==
  ASSUME BuyInv, NEW id \in BuyIds, BuyArrives(id)
  PROVE  BuyInv'
<1>0. BuyTypeOK /\ UNCHANGED <<buy, lines, bought, unsure>> /\ sent[id].state = "sent" /\ OrderSound(id)
  BY DEF BuyInv, BuyArrives
<1>1. PICK state \in {"open", "lost"} : sent' = [sent EXCEPT ![id].state = state]
  BY DEF BuyArrives
<1> DEFINE o == [sent[id] EXCEPT !.state = state]
           none == 0
<1>2. sent' = [sent EXCEPT ![id] = o]
  BY <1>1
<1>3. sent[id] \in Venue!Orders
  BY <1>0 DEF BuyTypeOK
<1>4. /\ o \in Venue!Orders /\ o.state = state /\ o.count = sent[id].count
      /\ o.filled = sent[id].filled /\ o.filled = 0 /\ o.count \in Nat
  BY <1>0, <1>3 DEF Venue!Orders, Venue!OrderStates, OrderSound
<1>5. none \in Nat /\ o.filled = sent[id].filled + none /\ bought' = bought + none /\ o.filled <= o.count
  BY <1>0, <1>4 DEF BuyTypeOK
<1> HIDE DEF o, none
<1> QED BY <1>0, <1>2, <1>4, <1>5, OrderMoved

LEMMA BuyMatchesInv ==
  ASSUME BuyInv, NEW id \in BuyIds, BuyMatches(id)
  PROVE  BuyInv'
<1>0. BuyTypeOK /\ UNCHANGED <<buy, lines, unsure>> /\ sent[id].state = "open" /\ OrderSound(id)
  BY DEF BuyInv, BuyMatches
<1>1. PICK n \in Venue!Fillable(sent[id], 0) :
        /\ \E state \in Venue!StatesAfterFill(sent[id], n) :
             sent' = [sent EXCEPT ![id] = Venue!FilledMore(@, n, state)]
        /\ bought' = bought + n
  BY DEF BuyMatches
<1>2. PICK state \in Venue!StatesAfterFill(sent[id], n) :
        sent' = [sent EXCEPT ![id] = Venue!FilledMore(@, n, state)]
  BY <1>1
<1> DEFINE o == Venue!FilledMore(sent[id], n, state)
<1>3. sent' = [sent EXCEPT ![id] = o]
  BY <1>2
<1>4. sent[id] \in Venue!Orders /\ sent[id].filled \in Nat /\ sent[id].count \in Nat
  BY <1>0, OrderFields DEF BuyTypeOK
<1>5. n \in Nat /\ n <= sent[id].count - sent[id].filled
  BY <1>1, <1>4 DEF Venue!Fillable
<1>6. state \in {"open", "closed"}
  BY <1>2, <1>4 DEF Venue!StatesAfterFill, Venue!Orders
<1> DEFINE filled == sent[id].filled + n
<1>7. filled \in Nat /\ filled <= sent[id].count
  BY <1>4, <1>5
<1>8. o = [sent[id] EXCEPT !.filled = filled, !.state = state]
  BY DEF Venue!FilledMore
<1>9. o \in Venue!Orders /\ o.state = state /\ o.count = sent[id].count /\ o.filled = filled
  <2> HIDE DEF o, filled
  <2> QED BY <1>4, <1>6, <1>7, <1>8 DEF Venue!Orders, Venue!OrderStates
<1>10. o.filled = sent[id].filled + n
  BY <1>9
<1> HIDE DEF o, filled
<1> QED BY <1>0, <1>1, <1>3, <1>5, <1>6, <1>7, <1>9, <1>10, OrderMoved

-----------------------------------------------------------------------------
(* The theorems.                                                           *)

LEMMA BuyNextInv ==
  ASSUME BuyInv, [BuyNext]_buying
  PROVE  BuyInv'
<1>1. CASE UNCHANGED buying
  <2>1. UNCHANGED <<buy, lines, sent, bought, unsure>>
    BY <1>1 DEF buying
  <2>2. AtWork'
    BY <2>1 DEF BuyInv, AtWork
  <2>3. (buy \in BuyRecords)'
    BY <2>1 DEF BuyInv, BuyTypeOK
  <2> QED BY <2>1, <2>2, <2>3, StillThere
<1>2. CASE RunBegins
  BY <1>2, RunBeginsInv
<1>3. CASE IntentsDone
  BY <1>3, IntentsDoneInv
<1>4. CASE OrdersDone
  BY <1>4, OrdersDoneInv
<1>5. ASSUME NEW id \in BuyIds, IntentLookedUp(id) \/ OrderLookedUp(id) \/ OrderSent(id) PROVE BuyInv'
  BY <1>5, IntentLookedUpInv, OrderLookedUpInv, OrderSentInv
<1>6. CASE Poll \/ AskTooHigh \/ StopBuying
  BY <1>6, WaitsInv
<1>7. CASE OrderReresumed
  BY <1>7, OrderReresumedInv
<1>8. CASE OrderSettles
  BY <1>8, OrderSettlesInv
<1>9. CASE RiskChecked
  BY <1>9, RiskCheckedInv
<1>10. CASE LoopEnds \/ BookFails \/ CreateFails \/ BuyCrashes
  BY <1>10, EndsInv
<1>11. CASE OrderCreated
  BY <1>11, OrderCreatedInv
<1>12. ASSUME NEW id \in BuyIds, BuyArrives(id) \/ BuyMatches(id) PROVE BuyInv'
  BY <1>12, BuyArrivesInv, BuyMatchesInv
<1> QED BY <1>1, <1>2, <1>3, <1>4, <1>5, <1>6, <1>7, <1>8, <1>9, <1>10, <1>11, <1>12, Zenon
        DEF BuyNext, BuySteps

\* The journal never claims more than the exchange has filled, an order is sent only
\* when every earlier one is accounted for, and unless an order was given up on
\* every order that the journal does not account for is one that the run, or the
\* next, will look up.
THEOREM BuySpecKeepsInv == BuySpec => []BuyInv
<1>1. BuyInv /\ [BuyNext]_buying => BuyInv'
  BY BuyNextInv
<1> QED BY BuyInitInv, <1>1, PTL DEF BuySpec

\* Over all its runs, kills and resumes a job buys no more than its size, unless an
\* order was given up on that could still fill (buyRunner.ts).
THEOREM BuysWithinSize == BuySpec => []BoughtWithinSize
<1>1. BuyInv => BoughtWithinSize
  <2> SUFFICES ASSUME BuyInv, ~unsure PROVE bought <= buy.size
    BY DEF BoughtWithinSize
  <2>1. BuyTypeOK /\ bought = Total(Got) /\ Total(Worst) <= buy.size
    BY DEF BuyInv, Counts
  <2>2. /\ Got \in [BuyIds -> Nat] /\ Worst \in [BuyIds -> Nat]
        /\ Total(Got) \in Nat /\ Total(Worst) \in Nat /\ buy.size \in Nat
    BY <2>1, SumTypes, BuyFields DEF BuyTypeOK
  <2>3. \A id \in BuyIds : Got[id] <= Worst[id]
    <3> SUFFICES ASSUME NEW id \in BuyIds PROVE Got[id] <= Worst[id]
      OBVIOUS
    <3>1. sent[id].filled <= sent[id].count /\ sent[id].filled \in Nat
      BY <2>1, OrderFields DEF BuyInv, OrderSound, BuyTypeOK
    <3>2. Got[id] = sent[id].filled /\ Worst[id] \in {sent[id].count, sent[id].filled}
      BY DEF Got, Worst, MayFill
    <3> QED BY <3>1, <3>2
  <2>4. Total(Got) <= Total(Worst)
    BY <2>2, <2>3, TotalMonotone
  <2> QED BY <2>1, <2>2, <2>4
<1> QED BY BuySpecKeepsInv, <1>1, PTL
=============================================================================
