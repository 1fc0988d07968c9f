-------------------------- MODULE ExitRunnerProofs --------------------------
(***************************************************************************)
(* The inductive invariant of ExitRunner and what follows from it.         *)
(***************************************************************************)
EXTENDS ExitRunner, FiniteSums, TLAPS

\* What one order's records at the exchange and in the journal have in common
OrderSound(id) ==
  /\ orders[id].filled <= orders[id].count
  /\ ~ Landed(orders[id]) => /\ orders[id].filled = 0 /\ journal.fills[id] = 0
                             /\ id \notin journal.placed \cup journal.reconciled

OrdersSound == \A id \in Ids : OrderSound(id)

\* Where the process is, and which orders it has in its hands
ProcessSound ==
  /\ journal.finished => pc = "off"
  /\ journal.reconciled \subseteq journal.placed
  /\ \A i, k \in cur : i = k
  /\ pc \notin {"posting", "polling", "repolling", "tailPosting"} => cur = {}
  /\ pc = "intents" => todo \subseteq PendingIntents(journal)
  /\ pc \in {"placed", "repolling"} => todo \subseteq PendingOrders(journal)
  /\ pc = "posting" => cur \subseteq PendingIntents(journal)
  /\ pc = "polling" => cur \subseteq PendingOrders(journal)
  /\ pc = "repolling" => cur \subseteq todo
  /\ pc \in {"posting", "polling"} => \A id \in cur : journal.fills[id] = 0
  /\ pc \in {"tail", "tailPosting"} => config.tail

\* Before the first order nothing is on file.
NothingYet ==
  crashes = 0 /\ ~ journal.finished /\ pc \in {"off", "intents", "placed", "repolling", "starting"}
    => journal = EmptyJournal

\* Where an order can be that the journal has not the final word on
Located(id) ==
  \/ pc = "off" /\ (journal.finished \/ id \in PendingIntents(journal) \cup PendingOrders(journal))
  \/ pc = "intents" /\ id \in todo \cup PendingOrders(journal)
  \/ pc \in {"placed", "repolling"} /\ id \in todo
  \/ pc \in {"posting", "polling", "tailPosting"} /\ id \in cur

PlainTail == config.tail => crashes = 0 /\ config.tif # "gtc"

\* At most one order is open, in a known place, and the position tells its fills.
Tracked ==
  /\ \A id \in Ids : Open(id) => Located(id)
  /\ \A i, k \in Ids : Open(i) /\ Open(k) => i = k
  /\ (\A id \in Ids : ~ Open(id)) => position = Held - journal.filled
  /\ \A id \in Ids : Open(id) =>
       position = Held - journal.filled + journal.fills[id] - orders[id].filled

Resuming == {"intents", "placed", "repolling"}

InLoop == {"starting", "loop", "posting", "polling", "tail", "tailPosting"}

\* What is open and what remains to be sold fit into the job's size.
Budgeted ==
  /\ (\A id \in Ids : ~ Open(id)) => journal.filled <= config.size
  /\ \A id \in Ids : Open(id) =>
       journal.filled - journal.fills[id] + orders[id].count <= config.size
  /\ pc \in Resuming => initial = config.size
  /\ pc \in InLoop => initial <= config.size /\ remaining = Monus(initial, journal.filled)

IInv ==
  /\ TypeOK
  /\ OrdersSound
  /\ ProcessSound
  /\ NothingYet
  /\ ~ blind /\ PlainTail => Tracked
  /\ ~ blind /\ Plain => Budgeted

-----------------------------------------------------------------------------
(* What the operations on a journal and on an order do.                    *)

\* Each line changes the folds that it is about, and those only.
LEMMA IntentLine ==
  ASSUME NEW j \in Journals, NEW id \in Ids
  PROVE  /\ Intent(j, id) \in Journals
         /\ Intent(j, id).intents = j.intents \cup {id}
         /\ Intent(j, id).placed = j.placed
         /\ Intent(j, id).reconciled = j.reconciled
         /\ Intent(j, id).fills = j.fills
         /\ Intent(j, id).filled = j.filled
         /\ Intent(j, id).finished = j.finished
BY DEF Intent, Journals

LEMMA PlacedLine ==
  ASSUME NEW j \in Journals, NEW id \in Ids
  PROVE  /\ Placed(j, id) \in Journals
         /\ Placed(j, id).intents = j.intents
         /\ Placed(j, id).placed = j.placed \cup {id}
         /\ Placed(j, id).reconciled = j.reconciled
         /\ Placed(j, id).fills = j.fills
         /\ Placed(j, id).filled = j.filled
         /\ Placed(j, id).finished = j.finished
BY DEF Placed, Journals

LEMMA FillLine ==
  ASSUME NEW j \in Journals, NEW id \in Ids, NEW n \in Nat
  PROVE  /\ Fill(j, id, n) \in Journals
         /\ Fill(j, id, n).intents = j.intents
         /\ Fill(j, id, n).placed = j.placed
         /\ Fill(j, id, n).reconciled = j.reconciled
         /\ Fill(j, id, n).fills = [j.fills EXCEPT ![id] = n]
         /\ Fill(j, id, n).filled = j.filled - j.fills[id] + n
         /\ Fill(j, id, n).finished = j.finished
<1>1. j.fills \in [Ids -> Nat] /\ j.filled \in Int
  BY DEF Journals
<1> DEFINE fills == [j.fills EXCEPT ![id] = n]
<1>2. fills \in [Ids -> Nat]
  BY <1>1
<1>3. PICK filled \in Int : filled = j.filled - j.fills[id] + n
  BY <1>1
<1>4. Fill(j, id, n) = [j EXCEPT !.fills = fills, !.filled = filled]
  BY <1>2, <1>3 DEF Fill, Journals
<1> HIDE DEF fills
<1>5. /\ [j EXCEPT !.fills = fills, !.filled = filled] \in Journals
      /\ [j EXCEPT !.fills = fills, !.filled = filled].intents = j.intents
      /\ [j EXCEPT !.fills = fills, !.filled = filled].placed = j.placed
      /\ [j EXCEPT !.fills = fills, !.filled = filled].reconciled = j.reconciled
      /\ [j EXCEPT !.fills = fills, !.filled = filled].fills = fills
      /\ [j EXCEPT !.fills = fills, !.filled = filled].filled = filled
      /\ [j EXCEPT !.fills = fills, !.filled = filled].finished = j.finished
  BY <1>2, <1>3 DEF Journals
<1> QED
  BY <1>3, <1>4, <1>5 DEF fills

LEMMA ReconciledLine ==
  ASSUME NEW j \in Journals, NEW id \in Ids, NEW n \in Nat
  PROVE  /\ Reconciled(j, id, n) \in Journals
         /\ Reconciled(j, id, n).intents = j.intents
         /\ Reconciled(j, id, n).placed = j.placed
         /\ Reconciled(j, id, n).reconciled = j.reconciled \cup {id}
         /\ Reconciled(j, id, n).fills = [j.fills EXCEPT ![id] = n]
         /\ Reconciled(j, id, n).filled = j.filled - j.fills[id] + n
         /\ Reconciled(j, id, n).finished = j.finished
<1> DEFINE f == Fill(j, id, n)
<1>1. f \in Journals
  BY FillLine
<1> HIDE DEF f
<1>2. /\ [f EXCEPT !.reconciled = @ \cup {id}] \in Journals
      /\ [f EXCEPT !.reconciled = @ \cup {id}].reconciled = f.reconciled \cup {id}
      /\ \A field \in {"intents", "placed", "fills", "filled", "finished"} :
           [f EXCEPT !.reconciled = @ \cup {id}][field] = f[field]
  BY <1>1 DEF Journals
<1> QED
  BY <1>2, FillLine DEF Reconciled, f

LEMMA FinishedLine ==
  ASSUME NEW j \in Journals
  PROVE  /\ Finished(j) \in Journals
         /\ Finished(j).intents = j.intents
         /\ Finished(j).placed = j.placed
         /\ Finished(j).reconciled = j.reconciled
         /\ Finished(j).fills = j.fills
         /\ Finished(j).filled = j.filled
         /\ Finished(j).finished
BY DEF Finished, Journals

LEMMA EmptyJournalFields ==
  /\ EmptyJournal \in Journals
  /\ EmptyJournal.intents = {} /\ EmptyJournal.placed = {} /\ EmptyJournal.reconciled = {}
  /\ EmptyJournal.fills = [id \in Ids |-> 0] /\ EmptyJournal.filled = 0
  /\ EmptyJournal.finished = FALSE
BY DEF EmptyJournal, Journals

\* A fill keeps an order within its count.
LEMMA MoreFilled ==
  ASSUME NEW o \in Orders, NEW p \in Int, NEW n \in Fillable(o, p), NEW s \in StatesAfterFill(o, n)
  PROVE  /\ FilledMore(o, n, s) \in Orders
         /\ FilledMore(o, n, s).count = o.count
         /\ FilledMore(o, n, s).filled = o.filled + n
         /\ FilledMore(o, n, s).filled <= o.count
         /\ FilledMore(o, n, s).state = s
         /\ s \in {"open", "closed"}
         /\ n \in Nat
<1>1. o.filled \in Nat /\ o.count \in Nat /\ o.tif \in {"ioc", "fok", "gtc"}
  BY DEF Orders
<1>2. n \in Nat /\ o.filled + n <= o.count
  BY <1>1 DEF Fillable
<1>3. s \in {"open", "closed"}
  BY <1>1 DEF StatesAfterFill
<1>4. PICK total \in Nat : total = o.filled + n
  BY <1>1, <1>2
<1>5. /\ [o EXCEPT !.filled = total, !.state = s] \in Orders
      /\ [o EXCEPT !.filled = total, !.state = s].count = o.count
      /\ [o EXCEPT !.filled = total, !.state = s].filled = total
      /\ [o EXCEPT !.filled = total, !.state = s].state = s
  BY <1>3, <1>4 DEF Orders, OrderStates
<1>6. FilledMore(o, n, s) = [o EXCEPT !.filled = total, !.state = s]
  BY <1>4 DEF FilledMore
<1> QED
  BY <1>2, <1>3, <1>4, <1>5, <1>6

LEMMA CanceledOrderFields ==
  ASSUME NEW o \in Orders
  PROVE  /\ CanceledOrder(o) \in Orders
         /\ CanceledOrder(o).count = o.count
         /\ CanceledOrder(o).filled = o.filled
         /\ CanceledOrder(o).state = "closed"
BY DEF CanceledOrder, Orders, OrderStates

LEMMA CreditBounds ==
  ASSUME TypeOK, NEW id \in Ids, NEW n \in Nat
  PROVE  /\ Credit(id, n) \in Nat
         /\ n <= orders[id].count => Credit(id, n) = n
BY DEF Credit, Min2, TypeOK, Orders

LEMMA MonusNat == \A a, b \in Nat : Monus(a, b) \in Nat
BY DEF Monus

-----------------------------------------------------------------------------
(* Type correctness.                                                       *)

\* What the proofs use of the type invariant, field by field
LEMMA Types ==
  ASSUME TypeOK
  PROVE  /\ journal \in Journals /\ journal.fills \in [Ids -> Nat] /\ journal.filled \in Int
         /\ journal.finished \in BOOLEAN
         /\ journal.intents \subseteq Ids /\ journal.placed \subseteq Ids
         /\ journal.reconciled \subseteq Ids
         /\ PendingIntents(journal) \subseteq Ids /\ PendingOrders(journal) \subseteq Ids
         /\ \A id \in Ids : /\ orders[id] \in Orders
                             /\ orders[id].state \in OrderStates
                             /\ orders[id].count \in Nat /\ orders[id].filled \in Nat
         /\ config \in ConfigType
         /\ config.size \in Nat /\ config.chunks \subseteq Nat \ {0}
         /\ config.tail \in BOOLEAN /\ config.preflight \in BOOLEAN
         /\ config.tif \in {"ioc", "fok", "gtc"}
         /\ Held \in Nat /\ Ids \subseteq Nat
<1>1. journal \in Journals /\ config \in ConfigType /\ orders \in [Ids -> Orders]
  BY ConfigAssumption DEF TypeOK
<1>2. /\ journal.fills \in [Ids -> Nat] /\ journal.filled \in Int
      /\ journal.finished \in BOOLEAN
      /\ journal.intents \subseteq Ids /\ journal.placed \subseteq Ids
      /\ journal.reconciled \subseteq Ids
  BY <1>1 DEF Journals
<1>3. PendingIntents(journal) \subseteq Ids /\ PendingOrders(journal) \subseteq Ids
  BY <1>2 DEF PendingIntents, PendingOrders
<1>4. \A id \in Ids : /\ orders[id] \in Orders
                      /\ orders[id].state \in OrderStates
                      /\ orders[id].count \in Nat /\ orders[id].filled \in Nat
  BY <1>1 DEF Orders
<1>5. /\ config.size \in Nat /\ config.chunks \subseteq Nat \ {0}
      /\ config.tail \in BOOLEAN /\ config.preflight \in BOOLEAN
      /\ config.tif \in {"ioc", "fok", "gtc"}
  BY <1>1 DEF ConfigType
<1> QED
  BY <1>1, <1>2, <1>3, <1>4, <1>5, ConfigAssumption

\* What is posted is a part of what remains, and never nothing.
LEMMA ChunkBounds ==
  ASSUME TypeOK, remaining > 0, NEW want \in config.chunks
  PROVE  Chunk(want) \in Nat /\ Chunk(want) <= remaining
<1>1. remaining \in Nat /\ want \in Nat /\ config.sweep \in Nat
  BY Types DEF TypeOK, ConfigType
<1> QED
  BY <1>1 DEF Chunk, Min2

LEMMA SentOrder ==
  ASSUME NEW n \in Nat, NEW tif \in {"ioc", "fok", "gtc"}, NEW reduce \in BOOLEAN
  PROVE  /\ Sent(n, tif, reduce) \in Orders
         /\ Sent(n, tif, reduce).count = n /\ Sent(n, tif, reduce).filled = 0
         /\ Sent(n, tif, reduce).state = "sent"
BY DEF Sent, Orders, OrderStates

LEMMA TypeInit == Init => TypeOK
<1> SUFFICES ASSUME Init
             PROVE  TypeOK
  OBVIOUS
<1>1. [id \in Ids |-> NoOrder] \in [Ids -> Orders]
  BY DEF NoOrder, Orders, OrderStates
<1>2. Held \in Int /\ 0 \in 0 .. MaxCrashes
  BY ConfigAssumption
<1> QED
  BY <1>1, <1>2, EmptyJournalFields DEF Init, TypeOK, Places

LEMMA FinishTypes ==
  ASSUME TypeOK, Finish
  PROVE  journal' \in Journals /\ pc' \in Places /\ todo' \subseteq Ids /\ cur' \subseteq Ids
         /\ seen' \in Nat
BY FinishedLine DEF TypeOK, Finish, Places

LEMMA SettleTypes ==
  ASSUME TypeOK, NEW id \in Ids, NEW n \in Nat, NEW j \in Journals, Settle(j, id, n)
  PROVE  journal' \in Journals /\ pc' \in Places /\ todo' \subseteq Ids /\ cur' \subseteq Ids
         /\ seen' \in Nat /\ remaining' \in Nat
<1>1. Credit(id, n) \in Nat
  BY CreditBounds
<1>2. Monus(remaining, Credit(id, n)) \in Nat
  BY <1>1, MonusNat DEF TypeOK
<1> QED
  BY <1>1, <1>2, ReconciledLine DEF TypeOK, Settle, Places

LEMMA ResumeSettleTypes ==
  ASSUME TypeOK, NEW id \in Ids, NEW n \in Nat, ResumeSettle(id, n)
  PROVE  journal' \in Journals /\ pc' \in Places /\ todo' \subseteq Ids /\ cur' \subseteq Ids
         /\ seen' \in Nat
BY CreditBounds, FillLine DEF TypeOK, ResumeSettle, ResumeReconciled, Places

LEMMA ReconcileTypes ==
  ASSUME TypeOK, NEW id \in Ids, NEW n \in Nat, Reconcile(id, n)
  PROVE  journal' \in Journals /\ pc' \in Places /\ todo' \subseteq Ids /\ cur' \subseteq Ids
         /\ seen' \in Nat /\ remaining' \in Nat
<1>1. CASE Settle(journal, id, n)
  BY <1>1, SettleTypes DEF TypeOK
<1>2. CASE ResumeSettle(id, n) /\ UNCHANGED remaining
  BY <1>2, ResumeSettleTypes DEF TypeOK
<1> QED
  BY <1>1, <1>2 DEF Reconcile

LEMMA TypeStep == TypeOK /\ [Next]_vars => TypeOK'
<1> SUFFICES ASSUME TypeOK, [Next]_vars
             PROVE  TypeOK'
  OBVIOUS
<1> USE Types
<1>1. CASE Start
  BY <1>1 DEF Start, TypeOK, exchange, Places
<1>2. ASSUME NEW id \in Ids, IntentFound(id)
      PROVE  TypeOK'
  BY <1>2, PlacedLine DEF IntentFound, TypeOK, status, exchange
<1>3. ASSUME NEW id \in Ids, IntentMissed(id)
      PROVE  TypeOK'
  <2>1. blind' \in BOOLEAN
    BY <1>3 DEF IntentMissed, TypeOK
  <2> QED
    BY <1>3, <2>1 DEF IntentMissed, TypeOK, status, exchange
<1>4. ASSUME NEW id \in Ids, ResumeGetOrder(id)
      PROVE  TypeOK'
  <2>1. CASE Terminal(id)
    <3>1. ResumeSettle(id, orders[id].filled)
      BY <1>4, <2>1 DEF ResumeGetOrder
    <3> QED
      BY <1>4, <3>1, ResumeSettleTypes DEF ResumeGetOrder, TypeOK, status, exchange
  <2>2. CASE ~ Terminal(id)
    BY <1>4, <2>2 DEF ResumeGetOrder, TypeOK, status, exchange, Places
  <2> QED
    BY <2>1, <2>2
<1>5. ASSUME NEW id \in Ids, ResumeGetOrderFails(id)
      PROVE  TypeOK'
  BY <1>5 DEF ResumeGetOrderFails, TypeOK, status, exchange, Open
<1>6. CASE IntentsDone
  BY <1>6 DEF IntentsDone, TypeOK, status, exchange, Places
<1>7. CASE ResumeDone
  BY <1>7 DEF ResumeDone, TypeOK, exchange, Places, Monus
<1>8. CASE Refused
  BY <1>8, FinishTypes DEF Refused, TypeOK, status, exchange
<1>9. CASE Accepted
  BY <1>9 DEF Accepted, TypeOK, exchange, Places
<1>10. CASE LoopEnds
  BY <1>10, FinishTypes DEF LoopEnds, AfterLoop, TypeOK, status, exchange, Places
<1>11. CASE TickFails
  BY <1>11, FinishTypes DEF TickFails, TypeOK, status, exchange
<1>12. ASSUME NEW id \in Ids, NEW want \in config.chunks, Post(id, want)
       PROVE  TypeOK'
  <2>1. Chunk(want) \in Nat
    BY <1>12, ChunkBounds DEF Post
  <2>2. Sent(Chunk(want), config.tif, config.tif = "ioc") \in Orders
    BY <2>1, SentOrder
  <2> QED
    BY <1>12, <2>1, <2>2, IntentLine DEF Post, PostIntent, TypeOK, Places
<1>13. ASSUME NEW id \in Ids, PostFails(id)
       PROVE  TypeOK'
  BY <1>13, FinishTypes DEF PostFails, TypeOK, status, exchange, Open
<1>14. ASSUME NEW id \in Ids, PostAnswered(id)
       PROVE  TypeOK'
  <2>1. Placed(journal, id) \in Journals
    BY PlacedLine
  <2>2. CASE Terminal(id)
    <3>1. Settle(Placed(journal, id), id, orders[id].filled)
      BY <1>14, <2>2 DEF PostAnswered
    <3> QED
      BY <1>14, <2>1, <3>1, SettleTypes DEF PostAnswered, TypeOK, exchange
  <2>3. CASE ~ Terminal(id)
    BY <1>14, <2>1, <2>3 DEF PostAnswered, TypeOK, exchange, Places
  <2> QED
    BY <2>2, <2>3
<1>15. ASSUME NEW id \in Ids, PostRests(id)
       PROVE  TypeOK'
  <2>1. Placed(journal, id) \in Journals /\ Finished(Placed(journal, id)) \in Journals
    BY PlacedLine, FinishedLine
  <2> QED
    BY <1>15, <2>1 DEF PostRests, TypeOK, status, exchange, Places
<1>16. ASSUME NEW id \in Ids, Poll(id)
       PROVE  TypeOK'
  <2>1. CASE Terminal(id)
    <3>1. Reconcile(id, orders[id].filled)
      BY <1>16, <2>1 DEF Poll
    <3> QED
      BY <1>16, <3>1, ReconcileTypes DEF Poll, TypeOK, exchange
  <2>2. CASE ~ Terminal(id)
    BY <1>16, <2>2 DEF Poll, TypeOK, exchange
  <2> QED
    BY <2>1, <2>2
<1>17. ASSUME NEW id \in Ids, CancelStale(id)
       PROVE  TypeOK'
  <2>1. Reconcile(id, orders[id].filled)
    BY <1>17 DEF CancelStale
  <2>2. orders' \in [Ids -> Orders]
    BY <1>17, CanceledOrderFields DEF CancelStale, TypeOK
  <2> QED
    BY <1>17, <2>1, <2>2, ReconcileTypes DEF CancelStale, TypeOK
<1>18. ASSUME NEW id \in Ids, LeftStale(id)
       PROVE  TypeOK'
  <2>1. Reconcile(id, seen) /\ seen \in Nat
    BY <1>18 DEF LeftStale, TypeOK
  <2>2. orders' \in [Ids -> Orders]
    BY <1>18, CanceledOrderFields DEF LeftStale, TypeOK
  <2>3. blind' \in BOOLEAN
    BY <1>18 DEF LeftStale, TypeOK
  <2> QED
    BY <1>18, <2>1, <2>2, <2>3, ReconcileTypes DEF LeftStale, TypeOK
<1>19. ASSUME NEW id \in Ids, TailPost(id)
       PROVE  TypeOK'
  <2>1. Sent(remaining, "gtc", FALSE) \in Orders
    BY SentOrder DEF TypeOK
  <2> QED
    BY <1>19, <2>1 DEF TailPost, TypeOK, status, Places
<1>20. ASSUME NEW id \in Ids, TailDone(id)
       PROVE  TypeOK'
  BY <1>20, FinishTypes DEF TailDone, TypeOK, status, exchange
<1>21. CASE TailSkipped
  BY <1>21, FinishTypes DEF TailSkipped, TypeOK, status, exchange
<1>22. CASE StopRequested
  BY <1>22 DEF StopRequested, TypeOK, status, exchange
<1>23. CASE Crash
  <2>1. crashes' \in 0 .. MaxCrashes
    BY <1>23, ConfigAssumption DEF Crash, TypeOK
  <2> QED
    BY <1>23, <2>1 DEF Crash, TypeOK, exchange, Places
<1>24. ASSUME NEW id \in Ids, GetLost(id)
       PROVE  TypeOK'
  <2>1. [orders[id] EXCEPT !.state = "lost"] \in Orders
    BY DEF Orders, OrderStates
  <2> QED
    BY <1>24, <2>1 DEF GetLost, TypeOK, process, status
<1>25. ASSUME NEW id \in Ids, NEW n \in 0 .. orders[id].count, Arrive(id, n)
       PROVE  TypeOK'
  <2>1. PICK state \in StatesAfterFill(orders[id], n) :
         orders' = [orders EXCEPT ![id] = FilledMore(@, n, state)]
    BY <1>25 DEF Arrive
  <2>2. FilledMore(orders[id], n, state) \in Orders
    BY <1>25, MoreFilled DEF Arrive, TypeOK
  <2>3. orders' \in [Ids -> Orders] /\ position' \in Int
    BY <1>25, <2>1, <2>2 DEF Arrive, TypeOK
  <2> QED
    BY <1>25, <2>3 DEF Arrive, TypeOK, process, status
<1>26. ASSUME NEW id \in Ids, NEW n \in 0 .. orders[id].count, FillOpen(id, n)
       PROVE  TypeOK'
  <2>1. PICK state \in StatesAfterFill(orders[id], n) :
         orders' = [orders EXCEPT ![id] = FilledMore(@, n, state)]
    BY <1>26 DEF FillOpen
  <2>2. FilledMore(orders[id], n, state) \in Orders
    BY <1>26, MoreFilled DEF FillOpen, TypeOK
  <2>3. orders' \in [Ids -> Orders] /\ position' \in Int
    BY <1>26, <2>1, <2>2 DEF FillOpen, TypeOK
  <2> QED
    BY <1>26, <2>3 DEF FillOpen, TypeOK, process, status
<1>27. CASE UNCHANGED vars
  BY <1>27 DEF vars, process, status, exchange, TypeOK
<1>28. CASE Resume
  BY <1>28, <1>2, <1>3, <1>4, <1>5, <1>6, <1>7 DEF Resume
<1>29. CASE Loop
  BY <1>29, <1>8, <1>9, <1>10, <1>11, <1>12, <1>13, <1>14, <1>15, <1>16, <1>17, <1>18, <1>19,
     <1>20, <1>21
  DEF Loop
<1>30. CASE World
  BY <1>30, <1>22, <1>23, <1>24, <1>25, <1>26 DEF World
<1> QED
  BY <1>1, <1>27, <1>28, <1>29, <1>30 DEF Next

-----------------------------------------------------------------------------
(* The records of an order stay in order.                                  *)

\* A step leaves the records of all orders but x alone.
OnlyTouches(x) ==
  \A id \in Ids \ {x} :
    /\ orders'[id] = orders[id] /\ journal'.fills[id] = journal.fills[id]
    /\ id \in journal'.intents <=> id \in journal.intents
    /\ id \in journal'.placed <=> id \in journal.placed
    /\ id \in journal'.reconciled <=> id \in journal.reconciled

\* A step leaves the records of all orders alone.
TouchesNone ==
  /\ orders' = orders
  /\ journal'.fills = journal.fills /\ journal'.filled = journal.filled
  /\ journal'.intents = journal.intents
  /\ journal'.placed = journal.placed
  /\ journal'.reconciled = journal.reconciled

\* An order that is polled has arrived and is pending.
LEMMA CurPlaced ==
  ASSUME TypeOK, OrdersSound, ProcessSound, pc \in {"polling", "repolling"}, NEW id \in cur
  PROVE  id \in Ids /\ Landed(orders[id]) /\ id \in PendingOrders(journal)
<1>1. id \in PendingOrders(journal) /\ id \in Ids
  BY Types DEF ProcessSound, TypeOK
<1> QED
  BY <1>1 DEF OrdersSound, OrderSound, PendingOrders

LEMMA TodoPlaced ==
  ASSUME TypeOK, OrdersSound, ProcessSound, pc = "placed", NEW id \in todo
  PROVE  id \in Ids /\ Landed(orders[id]) /\ id \in PendingOrders(journal)
<1>1. id \in PendingOrders(journal) /\ id \in Ids
  BY Types DEF ProcessSound, TypeOK
<1> QED
  BY <1>1 DEF OrdersSound, OrderSound, PendingOrders

LEMMA SoundUntouched ==
  ASSUME OrdersSound, TouchesNone
  PROVE  OrdersSound'
BY DEF OrdersSound, OrderSound, TouchesNone

LEMMA SoundLanded ==
  ASSUME OrdersSound, NEW x \in Ids, OnlyTouches(x),
         Landed(orders'[x]), orders'[x].filled <= orders'[x].count
  PROVE  OrdersSound'
BY DEF OrdersSound, OrderSound, OnlyTouches

LEMMA SoundNotLanded ==
  ASSUME OrdersSound, NEW x \in Ids, OnlyTouches(x), ~ Landed(orders[x]),
         orders'[x].filled = 0, orders'[x].count \in Nat,
         journal'.fills = journal.fills, journal'.placed = journal.placed,
         journal'.reconciled = journal.reconciled
  PROVE  OrdersSound'
BY DEF OrdersSound, OrderSound, OnlyTouches

LEMMA FinishTouches ==
  ASSUME TypeOK, Finish, UNCHANGED orders
  PROVE  TouchesNone /\ journal'.finished
BY FinishedLine DEF TypeOK, Finish, TouchesNone

\* What a settlement does to the records, whoever calls for it
Settles(x, n) ==
  /\ journal'.fills = [journal.fills EXCEPT ![x] = n]
  /\ journal'.filled = journal.filled - journal.fills[x] + n
  /\ journal'.intents = journal.intents
  /\ journal'.placed = journal.placed \cup {x}
  /\ journal'.reconciled \subseteq journal.reconciled \cup {x}
  /\ journal.reconciled \subseteq journal'.reconciled
  /\ journal'.finished = journal.finished

LEMMA SettleEffect ==
  ASSUME TypeOK, OrdersSound, NEW id \in Ids, NEW n \in Nat, n <= orders[id].count,
         Settle(Placed(journal, id), id, n)
  PROVE  Settles(id, n) /\ remaining' = Monus(remaining, n) /\ pc' = "loop" /\ cur' = {}
<1> DEFINE j == Placed(journal, id)
<1>1. /\ j \in Journals
      /\ j.intents = journal.intents
      /\ j.placed = journal.placed \cup {id}
      /\ j.reconciled = journal.reconciled
      /\ j.fills = journal.fills
      /\ j.filled = journal.filled
      /\ j.finished = journal.finished
  BY PlacedLine DEF TypeOK
<1>2. Credit(id, n) = n
  BY CreditBounds
<1>3. journal' = Reconciled(j, id, n) /\ remaining' = Monus(remaining, n) /\ pc' = "loop" /\ cur' = {}
  BY <1>2 DEF Settle
<1> HIDE DEF j
<1> QED
  BY <1>1, <1>3, ReconciledLine DEF Settles

LEMMA PlacedAgain ==
  ASSUME TypeOK, NEW id \in journal.placed
  PROVE  Placed(journal, id) = journal
BY DEF Placed, TypeOK, Journals

LEMMA ResumeSettleEffect ==
  ASSUME TypeOK, NEW id \in Ids, id \in journal.placed, NEW n \in Nat, n <= orders[id].count,
         ResumeSettle(id, n)
  PROVE  /\ Settles(id, n) /\ journal'.reconciled = journal.reconciled
         /\ pc' = "placed" /\ todo' = todo \ {id} /\ cur' = {}
<1>1. Credit(id, n) = n
  BY CreditBounds
<1>2. journal' = Fill(journal, id, n) /\ pc' = "placed" /\ todo' = todo \ {id} /\ cur' = {}
  BY <1>1 DEF ResumeSettle, ResumeReconciled
<1> QED
  BY <1>2, FillLine DEF Settles, TypeOK

\* A settlement from polling or repolling
LEMMA ReconcileEffect ==
  ASSUME TypeOK, OrdersSound, ProcessSound, pc \in {"polling", "repolling"}, NEW id \in cur,
         NEW n \in Nat, n <= orders[id].count, Reconcile(id, n)
  PROVE  /\ Settles(id, n) /\ cur' = {}
         /\ pc = "polling" => remaining' = Monus(remaining, n) /\ pc' = "loop" /\ todo' = todo
         /\ pc = "repolling" => /\ pc' = "placed" /\ todo' = todo \ {id} /\ remaining' = remaining
                               /\ journal'.reconciled = journal.reconciled
<1>1. id \in Ids /\ id \in journal.placed /\ Placed(journal, id) = journal
  BY CurPlaced, PlacedAgain DEF PendingOrders
<1>2. CASE pc = "polling"
  <2>1. Settle(Placed(journal, id), id, n)
    BY <1>1, <1>2 DEF Reconcile
  <2> QED
    BY <1>1, <1>2, <2>1, SettleEffect DEF Settle
<1>3. CASE pc = "repolling"
  <2>1. ResumeSettle(id, n) /\ UNCHANGED remaining
    BY <1>3 DEF Reconcile
  <2> QED
    BY <1>1, <1>3, <2>1, ResumeSettleEffect
<1> QED
  BY <1>2, <1>3

LEMMA SettlesTouches ==
  ASSUME TypeOK, NEW id \in Ids, NEW n \in Nat, Settles(id, n),
         \A other \in Ids \ {id} : orders'[other] = orders[other]
  PROVE  OnlyTouches(id)
BY Types DEF Settles, OnlyTouches

LEMMA SoundStep ==
  ASSUME TypeOK, OrdersSound, ProcessSound, [Next]_vars
  PROVE  OrdersSound'
<1> USE Types
<1>1. ASSUME NEW id \in Ids, IntentFound(id)
      PROVE  OrdersSound'
  <2>1. OnlyTouches(id) /\ orders' = orders
    BY <1>1, PlacedLine DEF IntentFound, OnlyTouches, exchange
  <2> QED
    BY <1>1, <2>1, SoundLanded DEF IntentFound, OrdersSound, OrderSound
<1>2. ASSUME NEW id \in Ids, ResumeGetOrder(id)
      PROVE  OrdersSound'
  <2>1. orders' = orders
    BY <1>2 DEF ResumeGetOrder, exchange
  <2>2. CASE Terminal(id)
    <3>1. ResumeSettle(id, orders[id].filled) /\ pc = "placed" /\ id \in todo
      BY <1>2, <2>2 DEF ResumeGetOrder
    <3>2. id \in journal.placed /\ Landed(orders[id]) /\ orders[id].filled <= orders[id].count
      BY <3>1, TodoPlaced DEF PendingOrders, OrdersSound, OrderSound
    <3>3. Settles(id, orders[id].filled)
      BY <3>1, <3>2, ResumeSettleEffect
    <3>4. OnlyTouches(id)
      BY <2>1, <3>3, SettlesTouches
    <3> QED
      BY <2>1, <3>2, <3>4, SoundLanded
  <2>3. CASE ~ Terminal(id)
    BY <1>2, <2>1, <2>3, SoundUntouched DEF ResumeGetOrder, TouchesNone
  <2> QED
    BY <2>2, <2>3
<1>3. ASSUME Finish, UNCHANGED orders
      PROVE  OrdersSound'
  BY <1>3, FinishTouches, SoundUntouched
<1>4. ASSUME UNCHANGED <<journal, orders>>
      PROVE  OrdersSound'
  BY <1>4, SoundUntouched DEF TouchesNone
<1>5. CASE LoopEnds
  BY <1>3, <1>4, <1>5 DEF LoopEnds, AfterLoop, exchange
<1>6. ASSUME NEW id \in Ids, NEW want \in config.chunks, Post(id, want)
      PROVE  OrdersSound'
  <2>1. Chunk(want) \in Nat
    BY <1>6, ChunkBounds DEF Post
  <2>2. /\ ~ Landed(orders[id]) /\ orders' = [orders EXCEPT ![id] = Sent(Chunk(want), config.tif, config.tif = "ioc")]
        /\ journal' = Intent(journal, id)
    BY <1>6 DEF Post, PostIntent, NewId, Fresh, Landed
  <2>3. OnlyTouches(id)
    BY <2>2, IntentLine DEF OnlyTouches, TypeOK
  <2>4. orders'[id].filled = 0 /\ orders'[id].count \in Nat
    BY <2>1, <2>2 DEF TypeOK, Sent
  <2>5. /\ journal'.fills = journal.fills /\ journal'.placed = journal.placed
        /\ journal'.reconciled = journal.reconciled
    BY <2>2, IntentLine
  <2> QED
    BY <2>2, <2>3, <2>4, <2>5, SoundNotLanded
<1>7. ASSUME NEW id \in Ids, PostAnswered(id)
      PROVE  OrdersSound'
  <2>1. orders' = orders
    BY <1>7 DEF PostAnswered, exchange
  <2>2. orders[id].filled <= orders[id].count
    BY DEF OrdersSound, OrderSound
  <2>3. CASE Terminal(id)
    <3>1. Settle(Placed(journal, id), id, orders[id].filled)
      BY <1>7, <2>3 DEF PostAnswered
    <3>2. Settles(id, orders[id].filled)
      BY <2>2, <3>1, SettleEffect
    <3>3. OnlyTouches(id)
      BY <2>1, <3>2, SettlesTouches
    <3> QED
      BY <2>1, <2>2, <2>3, <3>3, SoundLanded DEF Terminal, Landed
  <2>4. CASE ~ Terminal(id)
    <3>1. OnlyTouches(id) /\ Landed(orders[id])
      BY <1>7, <2>1, <2>4, PlacedLine DEF PostAnswered, OnlyTouches, Landed
    <3> QED
      BY <2>1, <2>2, <3>1, SoundLanded
  <2> QED
    BY <2>3, <2>4
<1>8. ASSUME NEW id \in Ids, PostRests(id)
      PROVE  OrdersSound'
  <2>1. orders' = orders /\ Landed(orders[id])
    BY <1>8 DEF PostRests, exchange, Landed
  <2>2. OnlyTouches(id)
    BY <1>8, <2>1, PlacedLine, FinishedLine DEF PostRests, OnlyTouches
  <2> QED
    BY <2>1, <2>2, SoundLanded DEF OrdersSound, OrderSound
<1>9. ASSUME NEW id \in Ids, Poll(id)
      PROVE  OrdersSound'
  <2>1. orders' = orders /\ pc \in {"polling", "repolling"} /\ id \in cur
    BY <1>9 DEF Poll, exchange
  <2>2. CASE Terminal(id)
    <3>1. Reconcile(id, orders[id].filled) /\ orders[id].filled <= orders[id].count
      BY <1>9, <2>2 DEF Poll, OrdersSound, OrderSound
    <3>2. Settles(id, orders[id].filled)
      BY <2>1, <3>1, ReconcileEffect
    <3>3. OnlyTouches(id)
      BY <2>1, <3>2, SettlesTouches
    <3> QED
      BY <2>1, <2>2, <3>1, <3>3, SoundLanded DEF Terminal, Landed
  <2>3. CASE ~ Terminal(id)
    BY <1>9, <2>1, <2>3, <1>4 DEF Poll
  <2> QED
    BY <2>2, <2>3
<1>10. ASSUME NEW id \in Ids, pc \in {"polling", "repolling"}, id \in cur,
              NEW n \in Nat, Reconcile(id, n),
              \/ UNCHANGED orders
              \/ orders' = [orders EXCEPT ![id] = CanceledOrder(@)]
       PROVE  OrdersSound'
  <2>1. id \in Ids /\ Landed(orders[id]) /\ id \in journal.placed
    BY <1>10, CurPlaced DEF PendingOrders
  <2>2. /\ orders'[id].filled = orders[id].filled /\ orders'[id].count = orders[id].count
        /\ Landed(orders'[id])
        /\ \A other \in Ids \ {id} : orders'[other] = orders[other]
    BY <1>10, <2>1, CanceledOrderFields DEF TypeOK, Landed
  <2>3. \A other \in Ids \ {id} :
          /\ journal'.fills[other] = journal.fills[other]
          /\ other \in journal'.intents <=> other \in journal.intents
          /\ other \in journal'.placed <=> other \in journal.placed
          /\ other \in journal'.reconciled <=> other \in journal.reconciled
    <3>1. Credit(id, n) \in Nat
      BY CreditBounds
    <3>2. journal' = Reconciled(journal, id, Credit(id, n)) \/ journal' = Fill(journal, id, Credit(id, n))
      BY <1>10 DEF Reconcile, Settle, ResumeSettle, ResumeReconciled
    <3>3. /\ journal'.fills = [journal.fills EXCEPT ![id] = Credit(id, n)]
          /\ journal'.intents = journal.intents /\ journal'.placed = journal.placed
          /\ \/ journal'.reconciled = journal.reconciled
             \/ journal'.reconciled = journal.reconciled \cup {id}
      BY <3>1, <3>2, ReconciledLine, FillLine
    <3> QED
      BY <3>3
  <2>4. OnlyTouches(id)
    BY <2>2, <2>3 DEF OnlyTouches
  <2>5. orders'[id].filled <= orders'[id].count
    BY <2>2 DEF OrdersSound, OrderSound
  <2> QED
    BY <2>2, <2>4, <2>5, SoundLanded
<1>11. ASSUME NEW id \in Ids, CancelStale(id)
       PROVE  OrdersSound'
  BY <1>10, <1>11 DEF CancelStale
<1>12. ASSUME NEW id \in Ids, LeftStale(id)
       PROVE  OrdersSound'
  BY <1>10, <1>12 DEF LeftStale, TypeOK
<1>13. ASSUME NEW id \in Ids, TailPost(id)
       PROVE  OrdersSound'
  <2>1. ~ Landed(orders[id]) /\ orders' = [orders EXCEPT ![id] = Sent(remaining, "gtc", FALSE)]
        /\ journal' = journal
    BY <1>13 DEF TailPost, NewId, Fresh, Landed
  <2>2. OnlyTouches(id)
    BY <2>1 DEF OnlyTouches, TypeOK
  <2>3. orders'[id].filled = 0 /\ orders'[id].count \in Nat
    BY <2>1 DEF TypeOK, Sent
  <2> QED
    BY <2>1, <2>2, <2>3, SoundNotLanded
<1>14. ASSUME NEW id \in Ids, GetLost(id)
       PROVE  OrdersSound'
  <2>1. ~ Landed(orders[id]) /\ orders' = [orders EXCEPT ![id].state = "lost"] /\ journal' = journal
    BY <1>14 DEF GetLost, Landed
  <2>2. OnlyTouches(id)
    BY <2>1 DEF OnlyTouches, TypeOK
  <2>3. orders'[id].filled = 0 /\ orders'[id].count \in Nat
    BY <2>1 DEF TypeOK, Orders, OrdersSound, OrderSound
  <2> QED
    BY <2>1, <2>2, <2>3, SoundNotLanded
<1>15. ASSUME NEW id \in Ids, NEW n \in 0 .. orders[id].count, Arrive(id, n) \/ FillOpen(id, n)
       PROVE  OrdersSound'
  <2>1. PICK state \in StatesAfterFill(orders[id], n) :
         orders' = [orders EXCEPT ![id] = FilledMore(@, n, state)]
    BY <1>15 DEF Arrive, FillOpen
  <2>2. n \in Fillable(orders[id], position) /\ journal' = journal /\ position \in Int
    BY <1>15 DEF Arrive, FillOpen, TypeOK
  <2>3. orders'[id] = FilledMore(orders[id], n, state) /\ OnlyTouches(id)
    BY <2>1, <2>2 DEF OnlyTouches, TypeOK
  <2>4. orders'[id].filled <= orders'[id].count /\ Landed(orders'[id])
    BY <2>2, <2>3, MoreFilled DEF Landed
  <2> QED
    BY <2>3, <2>4, SoundLanded
<1>16. CASE Resume
  BY <1>16, <1>1, <1>2, <1>4 DEF Resume, IntentMissed, ResumeGetOrderFails, IntentsDone, ResumeDone, exchange
<1>17. CASE Loop
  BY <1>17, <1>3, <1>4, <1>5, <1>6, <1>7, <1>8, <1>9, <1>11, <1>12, <1>13
  DEF Loop, Refused, Accepted, TickFails, PostFails, TailDone, TailSkipped, exchange
<1>18. CASE World
  BY <1>18, <1>4, <1>14, <1>15 DEF World, StopRequested, Crash, exchange
<1>19. CASE Start \/ UNCHANGED vars
  BY <1>19, <1>4 DEF Start, vars, exchange
<1> QED
  BY <1>16, <1>17, <1>18, <1>19 DEF Next

-----------------------------------------------------------------------------
(* The process keeps hold of its orders.                                   *)

LEMMA ProcessAfterFinish ==
  ASSUME TypeOK, ProcessSound, Finish
  PROVE  ProcessSound'
BY FinishedLine DEF TypeOK, Finish, ProcessSound

\* Nothing but the exchange moves.
LEMMA ProcessUntouched ==
  ASSUME ProcessSound, UNCHANGED <<config, pc, todo, cur, journal>>
  PROVE  ProcessSound'
BY DEF ProcessSound

LEMMA ProcessAfterReconcile ==
  ASSUME TypeOK, ProcessSound, pc \in {"polling", "repolling"}, NEW id \in cur, NEW n \in Nat,
         Reconcile(id, n), config' = config
  PROVE  ProcessSound'
<1>1. id \in Ids /\ Credit(id, n) \in Nat /\ ~ journal.finished /\ id \in journal.placed
  BY CreditBounds DEF TypeOK, ProcessSound, PendingOrders
<1>2. CASE pc = "polling"
  <2>1. journal' = Reconciled(journal, id, Credit(id, n)) /\ pc' = "loop" /\ cur' = {}
    BY <1>2 DEF Reconcile, Settle
  <2>2. /\ journal'.placed = journal.placed /\ journal'.reconciled = journal.reconciled \cup {id}
        /\ journal'.finished = journal.finished
    BY ZenonT(60), <1>1, <2>1, ReconciledLine DEF TypeOK
  <2> QED
    BY <1>1, <2>1, <2>2 DEF ProcessSound
<1>3. CASE pc = "repolling"
  <2>1. /\ journal' = Fill(journal, id, Credit(id, n)) /\ pc' = "placed" /\ todo' = todo \ {id}
        /\ cur' = {}
    BY <1>3 DEF Reconcile, ResumeSettle, ResumeReconciled
  <2>2. /\ journal'.placed = journal.placed /\ journal'.reconciled = journal.reconciled
        /\ journal'.finished = journal.finished
    BY ZenonT(60), <1>1, <2>1, FillLine DEF TypeOK
  <2> QED
    BY <1>1, <1>3, <2>1, <2>2 DEF ProcessSound, PendingOrders
<1> QED
  BY <1>2, <1>3

LEMMA ProcessStep ==
  ASSUME TypeOK, OrdersSound, ProcessSound, [Next]_vars
  PROVE  ProcessSound'
<1> USE Types
<1>1. CASE Start
  BY <1>1 DEF Start, Resumable, ProcessSound
<1>2. ASSUME NEW id \in Ids, IntentFound(id)
      PROVE  ProcessSound'
  <2>1. /\ journal' = Placed(journal, id) /\ pc = "intents" /\ pc' = "intents"
        /\ todo' = todo \ {id} /\ cur' = cur
    BY <1>2 DEF IntentFound
  <2>2. PendingIntents(journal)' = PendingIntents(journal) \ {id}
        /\ journal'.finished = journal.finished
        /\ journal'.reconciled = journal.reconciled /\ journal'.placed = journal.placed \cup {id}
    BY <2>1, PlacedLine DEF PendingIntents
  <2> QED
    BY <2>1, <2>2 DEF ProcessSound
<1>3. ASSUME NEW id \in Ids, IntentMissed(id) \/ ResumeGetOrderFails(id)
      PROVE  ProcessSound'
  BY <1>3 DEF IntentMissed, ResumeGetOrderFails, ProcessSound
<1>4. CASE IntentsDone \/ ResumeDone \/ Accepted
  BY <1>4 DEF IntentsDone, ResumeDone, Accepted, ProcessSound
<1>5. ASSUME NEW id \in Ids, ResumeGetOrder(id)
      PROVE  ProcessSound'
  <2>1. pc = "placed" /\ id \in todo /\ config' = config /\ ~ journal.finished
    BY <1>5 DEF ResumeGetOrder, ProcessSound
  <2>2. CASE Terminal(id)
    <3>1. ResumeSettle(id, orders[id].filled)
      BY <1>5, <2>2 DEF ResumeGetOrder
    <3>2. orders[id].filled <= orders[id].count /\ id \in journal.placed
      BY <2>1, TodoPlaced DEF OrdersSound, OrderSound, PendingOrders
    <3>3. /\ journal'.placed = journal.placed /\ journal'.reconciled = journal.reconciled
          /\ journal'.finished = journal.finished
          /\ pc' = "placed" /\ todo' = todo \ {id} /\ cur' = {}
      <4>1. /\ Settles(id, orders[id].filled) /\ journal'.reconciled = journal.reconciled
            /\ pc' = "placed" /\ todo' = todo \ {id} /\ cur' = {}
        BY <3>1, <3>2, ResumeSettleEffect
      <4>2. journal.placed \cup {id} = journal.placed
        BY <3>2
      <4> QED
        BY <4>1, <4>2 DEF Settles
    <3> QED
      BY <2>1, <3>3 DEF ProcessSound, PendingOrders
  <2>3. CASE ~ Terminal(id)
    BY <1>5, <2>1, <2>3 DEF ResumeGetOrder, ProcessSound
  <2> QED
    BY <2>2, <2>3
<1>6. CASE Finish
  BY <1>6, ProcessAfterFinish
<1>7. CASE LoopEnds
  BY <1>7, ProcessAfterFinish DEF LoopEnds, AfterLoop, ProcessSound
<1>8. ASSUME NEW id \in Ids, NEW want \in config.chunks, Post(id, want)
      PROVE  ProcessSound'
  <2>1. /\ journal' = Intent(journal, id) /\ pc = "loop" /\ pc' = "posting" /\ cur' = {id}
        /\ ~ Landed(orders[id])
    BY <1>8 DEF Post, PostIntent, NewId, Fresh, Landed
  <2>2. journal.fills[id] = 0 /\ id \notin journal.placed
    BY <2>1 DEF OrdersSound, OrderSound
  <2>3. /\ journal'.intents = journal.intents \cup {id} /\ journal'.placed = journal.placed
        /\ journal'.reconciled = journal.reconciled
        /\ journal'.fills = journal.fills /\ journal'.finished = journal.finished
    BY <2>1, IntentLine
  <2> QED
    BY <2>1, <2>2, <2>3 DEF ProcessSound, PendingIntents
<1>9. ASSUME NEW id \in Ids, PostAnswered(id)
      PROVE  ProcessSound'
  <2>1. pc = "posting" /\ id \in cur /\ ~ journal.finished /\ id \notin journal.reconciled
        /\ journal.fills[id] = 0
    BY <1>9 DEF PostAnswered, ProcessSound, PendingIntents
  <2>2. CASE Terminal(id)
    <3>1. Settle(Placed(journal, id), id, orders[id].filled)
      BY <1>9, <2>2 DEF PostAnswered
    <3>2. orders[id].filled <= orders[id].count
      BY DEF OrdersSound, OrderSound
    <3>3. Settles(id, orders[id].filled) /\ pc' = "loop" /\ cur' = {}
      BY <3>1, <3>2, SettleEffect
    <3> QED
      BY <2>1, <3>3 DEF ProcessSound, Settles
  <2>3. CASE ~ Terminal(id)
    <3>1. journal' = Placed(journal, id) /\ pc' = "polling" /\ cur' = cur
      BY <1>9, <2>3 DEF PostAnswered
    <3>2. /\ journal'.placed = journal.placed \cup {id} /\ journal'.reconciled = journal.reconciled
          /\ journal'.finished = journal.finished /\ journal'.fills = journal.fills
      BY <3>1, PlacedLine
    <3> QED
      BY <2>1, <3>1, <3>2 DEF ProcessSound, PendingOrders
  <2> QED
    BY <2>2, <2>3
<1>10. ASSUME NEW id \in Ids, PostRests(id)
       PROVE  ProcessSound'
  <2> DEFINE j == Placed(journal, id)
  <2>1. j \in Journals /\ j.placed = journal.placed \cup {id} /\ j.reconciled = journal.reconciled
        /\ j.finished = journal.finished
    BY PlacedLine
  <2>2. /\ cur' = {}
        /\ \/ journal' = j /\ pc' = "tail" /\ config'.tail
           \/ journal' = Finished(j) /\ pc' = "off"
    BY <1>10 DEF PostRests
  <2>3. ~ journal.finished
    BY <1>10 DEF PostRests, ProcessSound
  <2> HIDE DEF j
  <2> QED
    BY <2>1, <2>2, <2>3, FinishedLine DEF ProcessSound
<1>11. ASSUME NEW id \in Ids, Poll(id)
       PROVE  ProcessSound'
  <2>1. CASE Terminal(id)
    BY <1>11, <2>1, ProcessAfterReconcile DEF Poll
  <2>2. CASE ~ Terminal(id)
    BY <1>11, <2>2, ProcessUntouched DEF Poll
  <2> QED
    BY <2>1, <2>2
<1>12. ASSUME NEW id \in Ids, CancelStale(id)
       PROVE  ProcessSound'
  BY <1>12, ProcessAfterReconcile DEF CancelStale
<1>13. ASSUME NEW id \in Ids, LeftStale(id)
       PROVE  ProcessSound'
  BY <1>13, ProcessAfterReconcile DEF LeftStale, TypeOK
<1>14. ASSUME NEW id \in Ids, TailPost(id)
       PROVE  ProcessSound'
  BY <1>14 DEF TailPost, ProcessSound
<1>15. CASE Crash
  BY <1>15 DEF Crash, ProcessSound
<1>16. CASE UNCHANGED <<config, pc, todo, cur, journal>>
  BY <1>16, ProcessUntouched
<1>17. CASE Resume
  BY <1>17, <1>2, <1>3, <1>4, <1>5 DEF Resume
<1>18. CASE Loop
  BY <1>18, <1>4, <1>6, <1>7, <1>8, <1>9, <1>10, <1>11, <1>12, <1>13, <1>14
  DEF Loop, Refused, TickFails, PostFails, TailDone, TailSkipped
<1>19. CASE World
  BY <1>19, <1>15, <1>16 DEF World, StopRequested, GetLost, Arrive, FillOpen, process
<1>20. CASE UNCHANGED vars
  BY <1>20, <1>16 DEF vars, process
<1> QED
  BY <1>1, <1>17, <1>18, <1>19, <1>20 DEF Next

\* A job has nothing on file before it posts its first order.
LEMMA NothingYetStep ==
  ASSUME TypeOK, ProcessSound, NothingYet, [Next]_vars
  PROVE  NothingYet'
<1> USE Types
<1> DEFINE Early == {"off", "intents", "placed", "repolling", "starting"}
<1> SUFFICES ASSUME crashes' = 0, ~ journal'.finished, pc' \in Early
             PROVE  journal' = EmptyJournal
  BY DEF NothingYet
<1>1. ASSUME crashes = 0, pc \in Early, ~ journal.finished, UNCHANGED journal
      PROVE  journal' = EmptyJournal
  BY <1>1 DEF NothingYet
<1>2. ASSUME crashes = 0, pc \in {"intents", "placed", "repolling"}, ~ journal.finished,
             NEW id \in todo \cup cur
      PROVE  FALSE
  BY <1>2, EmptyJournalFields DEF NothingYet, ProcessSound, PendingIntents, PendingOrders
<1>3. ASSUME Finish
      PROVE  FALSE
  BY <1>3, FinishedLine DEF Finish
<1>4. CASE Start
  BY <1>1, <1>4 DEF Start, Resumable
<1>5. ASSUME NEW id \in Ids, IntentFound(id) \/ IntentMissed(id) \/ ResumeGetOrder(id) \/ ResumeGetOrderFails(id)
      PROVE  FALSE
  <2>1. pc \in {"intents", "placed"} /\ id \in todo /\ crashes = 0
    BY <1>5 DEF IntentFound, IntentMissed, ResumeGetOrder, ResumeGetOrderFails
  <2>2. ~ journal.finished
    BY <2>1 DEF ProcessSound
  <2> QED
    BY <1>2, <2>1, <2>2
<1>6. CASE IntentsDone \/ ResumeDone
  BY <1>1, <1>6 DEF IntentsDone, ResumeDone, ProcessSound
<1>7. CASE LoopEnds
  BY <1>3, <1>7 DEF LoopEnds, AfterLoop
<1>8. CASE Accepted
  BY <1>8 DEF Accepted
<1>9. ASSUME NEW id \in Ids, NEW want \in config.chunks, Post(id, want)
      PROVE  FALSE
  BY <1>9 DEF Post
<1>10. ASSUME NEW id \in Ids, PostAnswered(id)
       PROVE  FALSE
  BY <1>10 DEF PostAnswered, Settle
<1>11. ASSUME NEW id \in Ids, PostRests(id)
       PROVE  FALSE
  BY <1>11, PlacedLine, FinishedLine DEF PostRests
<1>12. ASSUME NEW id \in Ids, Poll(id) \/ CancelStale(id) \/ LeftStale(id)
       PROVE  FALSE
  <2>1. pc \in {"polling", "repolling"} /\ id \in cur /\ crashes = 0 /\ ~ journal.finished
    BY <1>12 DEF Poll, CancelStale, LeftStale, ProcessSound
  <2>2. CASE pc = "polling"
    BY <1>12, <2>1, <2>2 DEF Poll, CancelStale, LeftStale, Reconcile, Settle
  <2>3. CASE pc = "repolling"
    BY <1>2, <2>1, <2>3
  <2> QED
    BY <2>1, <2>2, <2>3
<1>13. ASSUME NEW id \in Ids, TailPost(id)
       PROVE  FALSE
  BY <1>13 DEF TailPost
<1>14. CASE Crash
  BY <1>14 DEF Crash, TypeOK
<1>15. CASE UNCHANGED <<pc, journal, crashes>>
  BY <1>1, <1>15
<1>16. CASE Resume
  BY <1>16, <1>5, <1>6 DEF Resume
<1>17. CASE Loop
  BY <1>17, <1>3, <1>7, <1>8, <1>9, <1>10, <1>11, <1>12, <1>13
  DEF Loop, Refused, TickFails, PostFails, TailDone, TailSkipped
<1>18. CASE World
  BY <1>18, <1>14, <1>15 DEF World, StopRequested, GetLost, Arrive, FillOpen, process
<1>19. CASE UNCHANGED vars
  BY <1>19, <1>15 DEF vars, process
<1> QED
  BY <1>4, <1>16, <1>17, <1>18, <1>19 DEF Next

-----------------------------------------------------------------------------
(* The open order is tracked.                                              *)

\* What was good after a step was good before it.
LEMMA GoodBefore ==
  ASSUME TypeOK, [Next]_vars
  PROVE  /\ config' = config /\ (~ blind' => ~ blind)
         /\ (PlainTail' => PlainTail) /\ (Plain' => Plain)
<1>1. /\ config' = config /\ (~ blind' => ~ blind)
      /\ crashes' = crashes \/ crashes' = crashes + 1
  <2>1. CASE Start \/ UNCHANGED vars
    BY <2>1 DEF Start, vars, process, status, exchange
  <2>2. CASE Resume
    <3>1. ASSUME NEW id \in Ids,
                 IntentFound(id) \/ IntentMissed(id) \/ ResumeGetOrder(id) \/ ResumeGetOrderFails(id)
          PROVE  config' = config /\ (~ blind' => ~ blind) /\ crashes' = crashes
      BY <3>1 DEF IntentFound, IntentMissed, ResumeGetOrder, ResumeGetOrderFails, TypeOK
    <3>2. CASE IntentsDone \/ ResumeDone
      BY <3>2 DEF IntentsDone, ResumeDone
    <3> QED
      BY <2>2, <3>1, <3>2 DEF Resume
  <2>3. CASE Loop
    <3>1. ASSUME NEW id \in Ids, PostFails(id) \/ LeftStale(id)
          PROVE  config' = config /\ (~ blind' => ~ blind) /\ crashes' = crashes
      BY <3>1 DEF PostFails, LeftStale
    <3>2. ASSUME NEW id \in Ids,
                 \/ \E want \in config.chunks : Post(id, want)
                 \/ PostAnswered(id) \/ PostRests(id)
          PROVE  UNCHANGED <<config, blind, crashes>>
      BY <3>2 DEF Post, PostAnswered, PostRests
    <3>3. ASSUME NEW id \in Ids,
                 Poll(id) \/ CancelStale(id) \/ TailPost(id) \/ TailDone(id)
          PROVE  UNCHANGED <<config, blind, crashes>>
      BY <3>3 DEF Poll, CancelStale, TailPost, TailDone
    <3>4. CASE Refused \/ Accepted \/ LoopEnds \/ TickFails \/ TailSkipped
      BY <3>4 DEF Refused, Accepted, LoopEnds, TickFails, TailSkipped
    <3> QED
      BY <2>3, <3>1, <3>2, <3>3, <3>4 DEF Loop
  <2>4. CASE World
    BY <2>4 DEF World, StopRequested, Crash, GetLost, Arrive, FillOpen
  <2> QED
    BY <2>1, <2>2, <2>3, <2>4 DEF Next
<1>2. crashes \in Nat
  BY ConfigAssumption DEF TypeOK
<1> QED
  BY <1>1, <1>2 DEF PlainTail, Plain

LEMMA TrackedUntouched ==
  ASSUME Tracked, orders' = orders, journal'.fills = journal.fills, journal'.filled = journal.filled,
         position' = position,
         \A id \in Ids : Open(id) /\ Located(id) => Located(id)'
  PROVE  Tracked'
<1>1. \A id \in Ids : Open(id)' <=> Open(id)
  BY DEF Open
<1> QED
  BY <1>1 DEF Tracked

\* A settled order is not open, and its fills are credited.
LEMMA TrackedSettled ==
  ASSUME TypeOK, Tracked, NEW x \in Ids, Settles(x, orders[x].filled), position' = position,
         \A id \in Ids \ {x} : orders'[id] = orders[id],
         orders'[x].state = "closed", orders'[x].filled = orders[x].filled,
         \A id \in Ids \ {x} : Open(id) /\ Located(id) => Located(id)'
  PROVE  Tracked'
<1> USE Types
<1>1. /\ \A id \in Ids \ {x} : journal'.fills[id] = journal.fills[id]
      /\ journal'.fills[x] = orders[x].filled
      /\ journal'.filled = journal.filled - journal.fills[x] + orders[x].filled
  BY DEF Settles
<1>2. \A id \in Ids \ {x} : Open(id)' <=> Open(id)
  BY <1>1 DEF Open
<1>3. ~ Open(x)'
  BY <1>1 DEF Open
<1>4. /\ \A id \in Ids : Open(id)' => Located(id)'
      /\ \A i, k \in Ids : Open(i)' /\ Open(k)' => i = k
  BY <1>2, <1>3 DEF Tracked
<1>5. CASE Open(x)
  <2>1. \A id \in Ids : ~ Open(id)'
    BY <1>2, <1>3, <1>5 DEF Tracked
  <2>2. position = Held - journal.filled + journal.fills[x] - orders[x].filled
    BY <1>5 DEF Tracked
  <2>3. position' = Held - journal'.filled
    BY <1>1, <2>2 DEF TypeOK
  <2> QED
    BY <1>4, <2>1, <2>3 DEF Tracked
<1>6. CASE ~ Open(x)
  <2>1. journal'.filled = journal.filled
    BY <1>1, <1>6 DEF Open
  <2>2. (\A id \in Ids : ~ Open(id)') => position' = Held - journal'.filled
    BY <1>2, <1>6, <2>1 DEF Tracked
  <2>3. ASSUME NEW id \in Ids, Open(id)'
        PROVE  position' = Held - journal'.filled + journal'.fills[id] - orders'[id].filled
    <3>1. id # x /\ Open(id)
      BY <1>2, <1>3, <2>3
    <3>2. position = Held - journal.filled + journal.fills[id] - orders[id].filled
      BY <3>1 DEF Tracked
    <3> QED
      BY <1>1, <2>1, <3>1, <3>2
  <2> QED
    BY <1>4, <2>2, <2>3 DEF Tracked
<1> QED
  BY <1>5, <1>6

\* A new order is the only open one.
LEMMA TrackedNew ==
  ASSUME TypeOK, Tracked, NEW x \in Ids, \A id \in Ids : ~ Open(id),
         \A id \in Ids \ {x} : orders'[id] = orders[id], orders'[x].filled = 0,
         journal.fills[x] = 0, journal'.fills = journal.fills, journal'.filled = journal.filled,
         position' = position, Located(x)'
  PROVE  Tracked'
<1> USE Types
<1>1. \A id \in Ids \ {x} : ~ Open(id)'
  BY DEF Open
<1>2. position' = Held - journal'.filled
  BY DEF Tracked
<1> QED
  BY <1>1, <1>2 DEF Tracked

\* An open order fills, or is lost.
LEMMA TrackedMoved ==
  ASSUME TypeOK, Tracked, NEW x \in Ids, Open(x), NEW n \in Nat,
         \A id \in Ids \ {x} : orders'[id] = orders[id],
         orders'[x].filled = orders[x].filled + n, position' = position - n,
         UNCHANGED <<journal, pc, todo, cur>>
  PROVE  Tracked'
<1> USE Types
<1>1. \A id \in Ids \ {x} : ~ Open(id) /\ ~ Open(id)'
  BY DEF Open, Tracked
<1>2. position = Held - journal.filled + journal.fills[x] - orders[x].filled /\ Located(x)
  BY DEF Tracked
<1>3. position' = Held - journal'.filled + journal'.fills[x] - orders'[x].filled
  BY <1>2 DEF TypeOK
<1>4. Located(x)'
  BY <1>2 DEF Located
<1>5. ~ Open(x)' => position' = Held - journal'.filled
  BY <1>3 DEF Open
<1> QED
  BY <1>1, <1>3, <1>4, <1>5 DEF Tracked

LEMMA TrackedStep ==
  ASSUME TypeOK, OrdersSound, ProcessSound, Tracked, PlainTail, PlainTail', ~ blind', [Next]_vars
  PROVE  Tracked'
<1> USE Types
<1>1. \A id \in Ids : Open(id) => Located(id)
  BY DEF Tracked
<1>2. ASSUME UNCHANGED <<orders, journal, position>>,
             \A id \in Ids : Open(id) /\ Located(id) => Located(id)'
      PROVE  Tracked'
  BY <1>2, TrackedUntouched
<1>3. ASSUME Finish, UNCHANGED <<orders, position>>
      PROVE  Tracked'
  <2>1. TouchesNone /\ journal'.finished /\ pc' = "off"
    BY <1>3, FinishTouches DEF Finish
  <2> QED
    BY <1>3, <2>1, TrackedUntouched DEF TouchesNone, Located
<1>4. CASE Start
  BY <1>2, <1>4 DEF Start, exchange, Resumable, Located
<1>5. ASSUME NEW id \in Ids, IntentFound(id)
      PROVE  Tracked'
  <2>1. /\ journal' = Placed(journal, id) /\ pc = "intents" /\ pc' = pc /\ id \in todo
        /\ todo' = todo \ {id} /\ UNCHANGED <<orders, position>>
    BY <1>5 DEF IntentFound, exchange
  <2>2. /\ journal'.placed = journal.placed \cup {id} /\ journal'.reconciled = journal.reconciled
        /\ journal'.fills = journal.fills /\ journal'.filled = journal.filled
    BY <2>1, PlacedLine
  <2>3. id \notin journal.reconciled
    BY <2>1 DEF ProcessSound, PendingIntents
  <2>4. \A other \in Ids : Located(other) => Located(other)'
    BY <2>1, <2>2, <2>3 DEF Located, PendingOrders
  <2> QED
    BY <2>1, <2>2, <2>4, TrackedUntouched
<1>6. ASSUME NEW id \in Ids, IntentMissed(id) \/ ResumeGetOrderFails(id)
      PROVE  Tracked'
  <2>1. /\ ~ Open(id) /\ pc \in {"intents", "placed"} /\ pc' = pc /\ todo' = todo \ {id}
        /\ UNCHANGED <<orders, journal, position>>
    BY <1>6 DEF IntentMissed, ResumeGetOrderFails, exchange
  <2> QED
    BY <1>2, <2>1 DEF Located
<1>7. CASE IntentsDone
  BY <1>2, <1>7 DEF IntentsDone, exchange, Located
<1>8. CASE ResumeDone \/ Accepted
  BY <1>1, <1>2, <1>8 DEF ResumeDone, Accepted, exchange, Located
<1>9. ASSUME NEW id \in Ids, ResumeGetOrder(id)
      PROVE  Tracked'
  <2>1. pc = "placed" /\ id \in todo /\ UNCHANGED <<orders, position>>
    BY <1>9 DEF ResumeGetOrder, exchange
  <2>2. CASE Terminal(id)
    <3>1. ResumeSettle(id, orders[id].filled)
      BY <1>9, <2>2 DEF ResumeGetOrder
    <3>2. orders[id].filled <= orders[id].count /\ id \in journal.placed
      BY <2>1, TodoPlaced DEF OrdersSound, OrderSound, PendingOrders
    <3>3. Settles(id, orders[id].filled) /\ pc' = "placed" /\ todo' = todo \ {id}
      BY <3>1, <3>2, ResumeSettleEffect
    <3>4. \A other \in Ids \ {id} : Located(other) => Located(other)'
      BY <2>1, <3>3 DEF Located
    <3>5. orders'[id].state = "closed"
      BY <2>1, <2>2 DEF Terminal
    <3> QED
      BY <2>1, <3>3, <3>4, <3>5, TrackedSettled
  <2>3. CASE ~ Terminal(id)
    BY <1>2, <1>9, <2>1, <2>3 DEF ResumeGetOrder, Located
  <2> QED
    BY <2>2, <2>3
<1>10. CASE LoopEnds
  BY <1>1, <1>2, <1>3, <1>10 DEF LoopEnds, AfterLoop, exchange, Located
<1>11. ASSUME NEW id \in Ids, NEW want \in config.chunks, Post(id, want)
       PROVE  Tracked'
  <2>1. /\ pc = "loop" /\ pc' = "posting" /\ cur' = {id} /\ journal' = Intent(journal, id)
        /\ orders' = [orders EXCEPT ![id] = Sent(Chunk(want), config.tif, config.tif = "ioc")]
        /\ position' = position /\ ~ Landed(orders[id])
    BY <1>11 DEF Post, PostIntent, NewId, Fresh, Landed
  <2>2. \A other \in Ids : ~ Open(other)
    BY <1>1, <2>1 DEF Located
  <2>3. orders'[id].filled = 0 /\ \A other \in Ids \ {id} : orders'[other] = orders[other]
    BY <2>1 DEF TypeOK, Sent
  <2>4. journal'.fills = journal.fills /\ journal'.filled = journal.filled /\ journal.fills[id] = 0
    BY <2>1, IntentLine DEF OrdersSound, OrderSound
  <2>5. Located(id)'
    BY <2>1 DEF Located
  <2> QED
    BY <2>1, <2>2, <2>3, <2>4, <2>5, TrackedNew
<1>12. ASSUME NEW id \in Ids, PostAnswered(id)
       PROVE  Tracked'
  <2>1. pc = "posting" /\ id \in cur /\ UNCHANGED <<orders, position>>
    BY <1>12 DEF PostAnswered, exchange
  <2>2. \A other \in Ids \ {id} : ~ Open(other)
    BY <1>1, <2>1 DEF Located, ProcessSound
  <2>3. CASE Terminal(id)
    <3>1. Settle(Placed(journal, id), id, orders[id].filled) /\ orders[id].filled <= orders[id].count
      BY <1>12, <2>3 DEF PostAnswered, OrdersSound, OrderSound
    <3>2. Settles(id, orders[id].filled)
      BY <3>1, SettleEffect
    <3>3. orders'[id].state = "closed"
      BY <2>1, <2>3 DEF Terminal
    <3> QED
      BY <2>1, <2>2, <3>2, <3>3, TrackedSettled
  <2>4. CASE ~ Terminal(id)
    <3>1. journal' = Placed(journal, id) /\ pc' = "polling" /\ cur' = cur
      BY <1>12, <2>4 DEF PostAnswered
    <3>2. journal'.fills = journal.fills /\ journal'.filled = journal.filled
      BY <3>1, PlacedLine
    <3>3. \A other \in Ids : Located(other) => Located(other)'
      BY <2>1, <3>1 DEF Located
    <3> QED
      BY <2>1, <3>2, <3>3, TrackedUntouched
  <2> QED
    BY <2>3, <2>4
<1>13. ASSUME NEW id \in Ids, PostRests(id)
       PROVE  Tracked'
  <2>1. /\ journal' = Finished(Placed(journal, id)) /\ pc' = "off"
        /\ UNCHANGED <<orders, position>>
    BY <1>13 DEF PostRests, exchange, PlainTail
  <2>2. Placed(journal, id) \in Journals
    BY PlacedLine
  <2>3. journal'.finished /\ journal'.fills = journal.fills /\ journal'.filled = journal.filled
    BY <2>1, <2>2, PlacedLine, FinishedLine
  <2> QED
    BY <2>1, <2>3, TrackedUntouched DEF Located
<1>14. ASSUME NEW id \in Ids, pc \in {"polling", "repolling"}, id \in cur,
              Reconcile(id, orders[id].filled), position' = position,
              \/ UNCHANGED orders /\ orders[id].state = "closed"
              \/ orders' = [orders EXCEPT ![id] = CanceledOrder(@)]
       PROVE  Tracked'
  <2>1. orders[id].filled <= orders[id].count
    BY DEF OrdersSound, OrderSound
  <2>2. Settles(id, orders[id].filled)
    BY <1>14, <2>1, ReconcileEffect
  <2>3. /\ orders'[id].filled = orders[id].filled /\ orders'[id].state = "closed"
        /\ \A other \in Ids \ {id} : orders'[other] = orders[other]
    BY <1>14, CanceledOrderFields DEF TypeOK
  <2>4. ASSUME NEW other \in Ids \ {id}, Open(other), Located(other)
        PROVE  Located(other)'
    <3>1. CASE pc = "polling"
      BY <1>14, <2>4, <3>1 DEF Located, ProcessSound
    <3>2. CASE pc = "repolling"
      <4>1. pc' = "placed" /\ todo' = todo \ {id}
        BY <1>14, <2>1, <3>2, ReconcileEffect
      <4> QED
        BY <2>4, <3>2, <4>1 DEF Located
    <3> QED
      BY <1>14, <3>1, <3>2
  <2> QED
    BY <1>14, <2>2, <2>3, <2>4, TrackedSettled
<1>15. ASSUME NEW id \in Ids, Poll(id)
       PROVE  Tracked'
  <2>1. CASE Terminal(id)
    BY <1>14, <1>15, <2>1 DEF Poll, exchange, Terminal
  <2>2. CASE ~ Terminal(id)
    BY <1>2, <1>15, <2>2 DEF Poll, exchange, Located
  <2> QED
    BY <2>1, <2>2
<1>16. ASSUME NEW id \in Ids, CancelStale(id)
       PROVE  Tracked'
  BY <1>14, <1>16 DEF CancelStale
<1>17. ASSUME NEW id \in Ids, LeftStale(id)
       PROVE  Tracked'
  <2>1. orders[id].state # "open" /\ orders[id].filled = seen
    BY <1>17 DEF LeftStale
  <2>2. Landed(orders[id])
    BY <1>17, CurPlaced DEF LeftStale
  <2>3. orders[id].state = "closed"
    BY <2>1, <2>2 DEF Landed
  <2> QED
    BY <1>14, <1>17, <2>1, <2>3 DEF LeftStale
<1>18. ASSUME NEW id \in Ids, TailPost(id)
       PROVE  Tracked'
  <2>1. /\ pc = "tail" /\ pc' = "tailPosting" /\ cur' = {id} /\ journal' = journal
        /\ orders' = [orders EXCEPT ![id] = Sent(remaining, "gtc", FALSE)]
        /\ position' = position /\ ~ Landed(orders[id])
    BY <1>18 DEF TailPost, NewId, Fresh, Landed
  <2>2. \A other \in Ids : ~ Open(other)
    BY <1>1, <2>1 DEF Located
  <2>3. orders'[id].filled = 0 /\ \A other \in Ids \ {id} : orders'[other] = orders[other]
    BY <2>1 DEF TypeOK, Sent
  <2>4. journal.fills[id] = 0
    BY <2>1 DEF OrdersSound, OrderSound
  <2>5. Located(id)'
    BY <2>1 DEF Located
  <2> QED
    BY <2>1, <2>2, <2>3, <2>4, <2>5, TrackedNew
<1>19. CASE Crash
  <2>1. pc # "tailPosting"
    BY <1>19, ConfigAssumption DEF Crash, PlainTail, ProcessSound, TypeOK
  <2>2. pc' = "off" /\ UNCHANGED <<orders, journal, position>>
    BY <1>19 DEF Crash, exchange
  <2>3. \A id \in Ids : Located(id) => Located(id)'
    BY <2>1, <2>2 DEF Located, ProcessSound
  <2> QED
    BY <1>2, <2>2, <2>3
<1>20. CASE UNCHANGED <<orders, journal, position, pc, todo, cur>>
  BY <1>2, <1>20 DEF Located
<1>21. ASSUME NEW id \in Ids, GetLost(id)
       PROVE  Tracked'
  <2>1. Open(id) /\ orders' = [orders EXCEPT ![id].state = "lost"]
        /\ UNCHANGED <<journal, pc, todo, cur, position>>
    BY <1>21 DEF GetLost, Open, process
  <2>2. /\ \A other \in Ids \ {id} : orders'[other] = orders[other]
        /\ orders'[id].filled = orders[id].filled + 0 /\ position' = position - 0
    BY <2>1 DEF TypeOK, Orders
  <2> QED
    BY <2>1, <2>2, TrackedMoved
<1>22. ASSUME NEW id \in Ids, NEW n \in 0 .. orders[id].count, Arrive(id, n) \/ FillOpen(id, n)
       PROVE  Tracked'
  <2>1. PICK state \in StatesAfterFill(orders[id], n) :
         orders' = [orders EXCEPT ![id] = FilledMore(@, n, state)]
    BY <1>22 DEF Arrive, FillOpen
  <2>2. n \in Fillable(orders[id], position) /\ position \in Int /\ position' = position - n
        /\ Open(id) /\ UNCHANGED <<journal, pc, todo, cur>>
    BY <1>22 DEF Arrive, FillOpen, TypeOK, Open, process
  <2>3. /\ \A other \in Ids \ {id} : orders'[other] = orders[other]
        /\ orders'[id].filled = orders[id].filled + n
    BY <2>1, <2>2, MoreFilled DEF TypeOK
  <2> QED
    BY <2>2, <2>3, TrackedMoved
<1>23. CASE Resume
  BY <1>23, <1>5, <1>6, <1>7, <1>8, <1>9 DEF Resume
<1>24. CASE Loop
  BY <1>24, <1>3, <1>8, <1>10, <1>11, <1>12, <1>13, <1>15, <1>16, <1>17, <1>18
  DEF Loop, Refused, TickFails, PostFails, TailDone, TailSkipped, exchange
<1>25. CASE World
  BY <1>25, <1>19, <1>20, <1>21, <1>22 DEF World, StopRequested, exchange
<1>26. CASE UNCHANGED vars
  BY <1>26, <1>20 DEF vars, process, exchange
<1> QED
  BY <1>4, <1>23, <1>24, <1>25, <1>26 DEF Next

-----------------------------------------------------------------------------
(* What is sold and what may still be sold stays within the size.          *)

\* The first two conjuncts of Budgeted
OpenFits ==
  /\ (\A id \in Ids : ~ Open(id)) => journal.filled <= config.size
  /\ \A id \in Ids : Open(id) =>
       journal.filled - journal.fills[id] + orders[id].count <= config.size

\* The other two
LoopKnows ==
  /\ pc \in Resuming => initial = config.size
  /\ pc \in InLoop => initial <= config.size /\ remaining = Monus(initial, journal.filled)

LEMMA BudgetedParts == Budgeted <=> OpenFits /\ LoopKnows
BY DEF Budgeted, OpenFits, LoopKnows

LEMMA MonusMonus == \A i, n \in Nat, f \in Int : Monus(Monus(i, f), n) = Monus(i, f + n)
BY DEF Monus

LEMMA FitsUntouched ==
  ASSUME OpenFits, orders' = orders, journal'.fills = journal.fills, journal'.filled = journal.filled,
         config' = config
  PROVE  OpenFits'
<1>1. \A id \in Ids : Open(id)' <=> Open(id)
  BY DEF Open
<1> QED
  BY <1>1 DEF OpenFits

LEMMA FitsSettled ==
  ASSUME TypeOK, Tracked, OpenFits, NEW x \in Ids, Settles(x, orders[x].filled), config' = config,
         orders[x].filled <= orders[x].count,
         \A id \in Ids \ {x} : orders'[id] = orders[id],
         orders'[x].state = "closed", orders'[x].filled = orders[x].filled
  PROVE  OpenFits'
<1> USE Types
<1>1. /\ \A id \in Ids \ {x} : journal'.fills[id] = journal.fills[id]
      /\ journal'.fills[x] = orders[x].filled
      /\ journal'.filled = journal.filled - journal.fills[x] + orders[x].filled
  BY DEF Settles
<1>2. \A id \in Ids \ {x} : Open(id)' <=> Open(id)
  BY <1>1 DEF Open
<1>3. ~ Open(x)'
  BY <1>1 DEF Open
<1>4. CASE Open(x)
  <2>1. \A id \in Ids : ~ Open(id)'
    BY <1>2, <1>3, <1>4 DEF Tracked
  <2>2. journal.filled - journal.fills[x] + orders[x].count <= config.size
    BY <1>4 DEF OpenFits
  <2>3. journal'.filled <= config.size
    BY <1>1, <2>2
  <2> QED
    BY <2>1, <2>3 DEF OpenFits
<1>5. CASE ~ Open(x)
  <2>1. journal'.filled = journal.filled
    BY <1>1, <1>5 DEF Open
  <2>2. ASSUME NEW id \in Ids, Open(id)'
        PROVE  journal'.filled - journal'.fills[id] + orders'[id].count <= config'.size
    <3>1. id # x /\ Open(id)
      BY <1>2, <1>3, <2>2
    <3>2. journal.filled - journal.fills[id] + orders[id].count <= config.size
      BY <3>1 DEF OpenFits
    <3> QED
      BY <1>1, <2>1, <3>1, <3>2
  <2>3. (\A id \in Ids : ~ Open(id)') => journal'.filled <= config'.size
    BY <1>2, <1>5, <2>1 DEF OpenFits
  <2> QED
    BY <2>2, <2>3 DEF OpenFits
<1> QED
  BY <1>4, <1>5

LEMMA FitsNew ==
  ASSUME TypeOK, OpenFits, NEW x \in Ids, \A id \in Ids : ~ Open(id), config' = config,
         \A id \in Ids \ {x} : orders'[id] = orders[id],
         journal.fills[x] = 0, journal'.fills = journal.fills, journal'.filled = journal.filled,
         journal.filled + orders'[x].count <= config.size, orders'[x].count \in Nat
  PROVE  OpenFits'
<1> USE Types
<1>1. \A id \in Ids \ {x} : ~ Open(id)'
  BY DEF Open
<1>2. journal'.filled <= config'.size
  BY DEF OpenFits
<1>3. journal'.filled - journal'.fills[x] + orders'[x].count <= config'.size
  OBVIOUS
<1> QED
  BY <1>1, <1>2, <1>3 DEF OpenFits

LEMMA FitsMoved ==
  ASSUME TypeOK, OrdersSound', Tracked, OpenFits, NEW x \in Ids, Open(x), config' = config,
         \A id \in Ids \ {x} : orders'[id] = orders[id],
         orders'[x].count = orders[x].count, orders'[x].filled \in Nat, journal' = journal
  PROVE  OpenFits'
<1> USE Types
<1>1. \A id \in Ids \ {x} : ~ Open(id)'
  BY DEF Open, Tracked
<1>2. journal'.filled - journal'.fills[x] + orders'[x].count <= config'.size
  BY DEF OpenFits
<1>3. orders'[x].filled <= orders'[x].count
  BY DEF OrdersSound, OrderSound
<1>4. ~ Open(x)' => journal'.filled <= config'.size
  BY <1>2, <1>3 DEF Open
<1> QED
  BY <1>1, <1>2, <1>4 DEF OpenFits

LEMMA BudgetedStep ==
  ASSUME TypeOK, OrdersSound, OrdersSound', ProcessSound, NothingYet, Tracked, Budgeted,
         Plain, Plain', ~ blind', [Next]_vars
  PROVE  Budgeted'
<1> USE Types
<1> SUFFICES OpenFits' /\ LoopKnows'
  BY DEF Budgeted, OpenFits, LoopKnows
<1>a. OpenFits /\ LoopKnows /\ config' = config
  BY BudgetedParts, GoodBefore
<1>b. \A id \in Ids : Open(id) => Located(id)
  BY DEF Tracked
<1>1. ASSUME UNCHANGED <<orders, journal>>
      PROVE  OpenFits'
  BY <1>a, <1>1, FitsUntouched
<1>2. ASSUME UNCHANGED <<orders, journal, pc, remaining, initial>>
      PROVE  OpenFits' /\ LoopKnows'
  BY <1>a, <1>1, <1>2 DEF LoopKnows
<1>3. ASSUME Finish, UNCHANGED orders
      PROVE  OpenFits' /\ LoopKnows'
  <2>1. TouchesNone /\ pc' = "off"
    BY <1>3, FinishTouches DEF Finish
  <2> QED
    BY <1>a, <2>1, FitsUntouched DEF TouchesNone, LoopKnows, InLoop, Resuming
<1>4. CASE Start
  BY <1>a, <1>1, <1>4 DEF Start, exchange, LoopKnows, InLoop, Resuming
<1>5. ASSUME NEW id \in Ids, IntentFound(id)
      PROVE  OpenFits' /\ LoopKnows'
  BY <1>a, <1>5, PlacedLine, FitsUntouched DEF IntentFound, exchange, status, LoopKnows, InLoop
<1>6. ASSUME NEW id \in Ids, IntentMissed(id) \/ ResumeGetOrderFails(id)
      PROVE  OpenFits' /\ LoopKnows'
  BY <1>2, <1>6 DEF IntentMissed, ResumeGetOrderFails, exchange, status
<1>7. CASE IntentsDone
  BY <1>a, <1>1, <1>7 DEF IntentsDone, exchange, status, LoopKnows, InLoop, Resuming
<1>8. CASE ResumeDone
  BY <1>a, <1>1, <1>8 DEF ResumeDone, exchange, LoopKnows, InLoop, Resuming
<1>9. CASE Accepted
  <2>1. OpenFits' /\ pc = "starting" /\ pc' = "loop" /\ journal' = journal
    BY <1>1, <1>9 DEF Accepted, exchange
  <2>2. CASE config.preflight /\ position < config.size
    <3>1. position > 0 /\ remaining' = position /\ initial' = position
      BY <1>9, <2>2 DEF Accepted
    <3>2. journal.filled = 0
      BY <2>1, <2>2, EmptyJournalFields DEF Plain, NothingYet, ProcessSound
    <3> QED
      BY <1>a, <2>1, <2>2, <3>1, <3>2 DEF LoopKnows, Monus, TypeOK, Resuming
  <2>3. CASE ~ (config.preflight /\ position < config.size)
    BY <1>a, <1>9, <2>1, <2>3 DEF Accepted, LoopKnows, InLoop, Resuming
  <2> QED
    BY <2>2, <2>3
<1>10. ASSUME NEW id \in Ids, ResumeGetOrder(id)
       PROVE  OpenFits' /\ LoopKnows'
  <2>1. pc = "placed" /\ id \in todo /\ UNCHANGED <<orders, remaining, initial>>
    BY <1>10 DEF ResumeGetOrder, exchange, status
  <2>2. CASE Terminal(id)
    <3>1. ResumeSettle(id, orders[id].filled)
      BY <1>10, <2>2 DEF ResumeGetOrder
    <3>2. orders[id].filled <= orders[id].count /\ id \in journal.placed
      BY <2>1, TodoPlaced DEF OrdersSound, OrderSound, PendingOrders
    <3>3. Settles(id, orders[id].filled) /\ pc' = "placed"
      BY <3>1, <3>2, ResumeSettleEffect
    <3>4. orders'[id].state = "closed"
      BY <2>1, <2>2 DEF Terminal
    <3>5. OpenFits'
      BY <1>a, <2>1, <3>2, <3>3, <3>4, FitsSettled
    <3> QED
      BY <1>a, <2>1, <3>3, <3>5 DEF LoopKnows, InLoop, Resuming
  <2>3. CASE ~ Terminal(id)
    BY <1>a, <1>1, <1>10, <2>1, <2>3 DEF ResumeGetOrder, LoopKnows, InLoop, Resuming
  <2> QED
    BY <2>2, <2>3
<1>11. CASE LoopEnds
  <2>1. CASE Finish
    BY <1>3, <1>11, <2>1 DEF LoopEnds, exchange
  <2>2. CASE pc' = "tail" /\ UNCHANGED <<todo, journal>>
    BY <1>a, <1>1, <1>11, <2>2 DEF LoopEnds, exchange, status, LoopKnows, InLoop, Resuming
  <2> QED
    BY <1>11, <2>1, <2>2 DEF LoopEnds, AfterLoop
<1>12. ASSUME NEW id \in Ids, NEW want \in config.chunks, Post(id, want)
       PROVE  OpenFits' /\ LoopKnows'
  <2>1. /\ pc = "loop" /\ pc' = "posting" /\ journal' = Intent(journal, id) /\ remaining > 0
        /\ orders' = [orders EXCEPT ![id] = Sent(Chunk(want), config.tif, config.tif = "ioc")]
        /\ UNCHANGED <<remaining, initial>> /\ ~ Landed(orders[id])
    BY <1>12 DEF Post, PostIntent, NewId, Fresh, Landed
  <2>2. \A other \in Ids : ~ Open(other)
    BY <1>b, <2>1 DEF Located
  <2>3. orders'[id].count = Chunk(want) /\ \A other \in Ids \ {id} : orders'[other] = orders[other]
    BY <2>1 DEF TypeOK, Sent
  <2>4. journal'.fills = journal.fills /\ journal'.filled = journal.filled /\ journal.fills[id] = 0
    BY <2>1, IntentLine DEF OrdersSound, OrderSound
  <2>5. Chunk(want) \in Nat /\ Chunk(want) <= remaining
    BY <2>1, ChunkBounds
  <2>6. journal.filled + remaining <= config.size
    BY <1>a, <2>1 DEF LoopKnows, InLoop, Monus, TypeOK
  <2>7. journal.filled + Chunk(want) <= config.size /\ remaining \in Nat
    BY <2>5, <2>6 DEF TypeOK
  <2>8. OpenFits'
    BY <1>a, <2>2, <2>3, <2>4, <2>5, <2>7, FitsNew
  <2> QED
    BY <1>a, <2>1, <2>4, <2>8 DEF LoopKnows, InLoop, Resuming
<1>13. ASSUME NEW id \in Ids, NEW n \in Nat, n = orders[id].filled, journal.fills[id] = 0, Settles(id, n),
              pc \in {"posting", "polling"}, pc' = "loop", remaining' = Monus(remaining, n),
              initial' = initial
       PROVE  LoopKnows'
  <2>1. journal'.filled = journal.filled + n
    BY <1>13 DEF Settles
  <2>2. remaining = Monus(initial, journal.filled) /\ initial <= config.size /\ initial \in Nat
    BY <1>a, <1>13 DEF LoopKnows, InLoop, TypeOK
  <2>3. remaining' = Monus(initial, journal.filled + n)
    BY ZenonT(60), <1>13, <2>2, MonusMonus
  <2> QED
    BY <1>a, <1>13, <2>1, <2>2, <2>3 DEF LoopKnows, Resuming
<1>14. ASSUME NEW id \in Ids, PostAnswered(id)
       PROVE  OpenFits' /\ LoopKnows'
  <2>1. pc = "posting" /\ id \in cur /\ UNCHANGED <<orders, initial>> /\ journal.fills[id] = 0
    BY <1>14 DEF PostAnswered, exchange, ProcessSound
  <2>2. CASE Terminal(id)
    <3>1. Settle(Placed(journal, id), id, orders[id].filled) /\ orders[id].filled <= orders[id].count
      BY <1>14, <2>2 DEF PostAnswered, OrdersSound, OrderSound
    <3>2. /\ Settles(id, orders[id].filled) /\ remaining' = Monus(remaining, orders[id].filled)
          /\ pc' = "loop"
      BY <3>1, SettleEffect
    <3>3. orders'[id].state = "closed"
      BY <2>1, <2>2 DEF Terminal
    <3>4. OpenFits'
      BY <1>a, <2>1, <3>1, <3>2, <3>3, FitsSettled
    <3> QED
      BY <1>13, <2>1, <3>2, <3>4
  <2>3. CASE ~ Terminal(id)
    <3>1. journal' = Placed(journal, id) /\ pc' = "polling" /\ remaining' = remaining
      BY <1>14, <2>3 DEF PostAnswered
    <3>2. journal'.fills = journal.fills /\ journal'.filled = journal.filled
      BY <3>1, PlacedLine
    <3> QED
      BY <1>a, <2>1, <3>1, <3>2, FitsUntouched DEF LoopKnows, InLoop, Resuming
  <2> QED
    BY <2>2, <2>3
<1>15. ASSUME NEW id \in Ids, PostRests(id)
       PROVE  OpenFits' /\ LoopKnows'
  <2>1. journal' = Finished(Placed(journal, id)) /\ pc' = "off" /\ UNCHANGED orders
    BY <1>15 DEF PostRests, exchange, Plain
  <2>2. Placed(journal, id) \in Journals
    BY PlacedLine
  <2>3. journal'.fills = journal.fills /\ journal'.filled = journal.filled
    BY <2>1, <2>2, PlacedLine, FinishedLine
  <2> QED
    BY <1>a, <2>1, <2>3, FitsUntouched DEF LoopKnows, InLoop, Resuming
<1>16. ASSUME NEW id \in Ids, pc \in {"polling", "repolling"}, id \in cur,
              Reconcile(id, orders[id].filled), initial' = initial,
              \/ UNCHANGED orders /\ orders[id].state = "closed"
              \/ orders' = [orders EXCEPT ![id] = CanceledOrder(@)]
       PROVE  OpenFits' /\ LoopKnows'
  <2>1. orders[id].filled <= orders[id].count /\ orders[id].filled \in Nat
    BY DEF OrdersSound, OrderSound
  <2>2. Settles(id, orders[id].filled)
    BY <1>16, <2>1, ReconcileEffect
  <2>3. /\ orders'[id].filled = orders[id].filled /\ orders'[id].state = "closed"
        /\ \A other \in Ids \ {id} : orders'[other] = orders[other]
    BY <1>16, CanceledOrderFields DEF TypeOK
  <2>4. OpenFits'
    BY <1>a, <2>1, <2>2, <2>3, FitsSettled
  <2>5. CASE pc = "polling"
    <3>1. remaining' = Monus(remaining, orders[id].filled) /\ pc' = "loop"
      BY <1>16, <2>1, <2>5, ReconcileEffect
    <3>2. journal.fills[id] = 0
      BY <1>16, <2>5 DEF ProcessSound
    <3> QED
      BY <1>13, <1>16, <2>1, <2>2, <2>4, <2>5, <3>1, <3>2
  <2>6. CASE pc = "repolling"
    <3>1. pc' = "placed"
      BY <1>16, <2>1, <2>6, ReconcileEffect
    <3> QED
      BY <1>a, <1>16, <2>4, <2>6, <3>1 DEF LoopKnows, InLoop, Resuming
  <2> QED
    BY <1>16, <2>5, <2>6
<1>17. ASSUME NEW id \in Ids, Poll(id)
       PROVE  OpenFits' /\ LoopKnows'
  <2>1. CASE Terminal(id)
    BY <1>16, <1>17, <2>1 DEF Poll, exchange, Terminal
  <2>2. CASE ~ Terminal(id)
    BY <1>2, <1>17, <2>2 DEF Poll, exchange
  <2> QED
    BY <2>1, <2>2
<1>18. ASSUME NEW id \in Ids, CancelStale(id)
       PROVE  OpenFits' /\ LoopKnows'
  BY <1>16, <1>18 DEF CancelStale
<1>19. ASSUME NEW id \in Ids, LeftStale(id)
       PROVE  OpenFits' /\ LoopKnows'
  <2>1. orders[id].state # "open" /\ orders[id].filled = seen
    BY <1>19 DEF LeftStale
  <2>2. Landed(orders[id])
    BY <1>19, CurPlaced DEF LeftStale
  <2>3. orders[id].state = "closed"
    BY <2>1, <2>2 DEF Landed
  <2> QED
    BY <1>16, <1>19, <2>1, <2>3 DEF LeftStale
<1>20. ASSUME NEW id \in Ids, TailPost(id)
       PROVE  OpenFits' /\ LoopKnows'
  <2>1. /\ pc = "tail" /\ pc' = "tailPosting" /\ journal' = journal
        /\ orders' = [orders EXCEPT ![id] = Sent(remaining, "gtc", FALSE)]
        /\ UNCHANGED <<remaining, initial>> /\ ~ Landed(orders[id])
    BY <1>20 DEF TailPost, NewId, Fresh, Landed, status
  <2>2. \A other \in Ids : ~ Open(other)
    BY <1>b, <2>1 DEF Located
  <2>3. orders'[id].count = remaining /\ \A other \in Ids \ {id} : orders'[other] = orders[other]
    BY <2>1 DEF TypeOK, Sent
  <2>4. journal.fills[id] = 0
    BY <2>1 DEF OrdersSound, OrderSound
  <2>5. journal.filled <= config.size
    BY <1>a, <2>2 DEF OpenFits
  <2>6. journal.filled + remaining <= config.size /\ remaining \in Nat
    BY <1>a, <2>1, <2>5 DEF LoopKnows, InLoop, Monus, TypeOK
  <2>7. journal.filled + orders'[id].count <= config.size /\ orders'[id].count \in Nat
    BY <2>3, <2>6
  <2>8. journal'.fills = journal.fills /\ journal'.filled = journal.filled
    BY <2>1
  <2>9. OpenFits'
    BY <1>a, <2>2, <2>3, <2>4, <2>7, <2>8, FitsNew
  <2> QED
    BY <1>a, <2>1, <2>9 DEF LoopKnows, InLoop, Resuming
<1>21. CASE Crash
  BY <1>1, <1>21 DEF Crash, exchange, LoopKnows, InLoop, Resuming
<1>22. ASSUME NEW id \in Ids, GetLost(id)
       PROVE  OpenFits' /\ LoopKnows'
  <2>1. Open(id) /\ orders' = [orders EXCEPT ![id].state = "lost"]
        /\ UNCHANGED <<journal, pc, remaining, initial>>
    BY <1>22 DEF GetLost, Open, process, status
  <2>2. /\ \A other \in Ids \ {id} : orders'[other] = orders[other]
        /\ orders'[id].filled = orders[id].filled /\ orders'[id].count = orders[id].count
    BY <2>1 DEF TypeOK, Orders
  <2>3. OpenFits'
    BY <1>a, <2>1, <2>2, FitsMoved
  <2> QED
    BY <1>a, <2>1, <2>3 DEF LoopKnows
<1>23. ASSUME NEW id \in Ids, NEW n \in 0 .. orders[id].count, Arrive(id, n) \/ FillOpen(id, n)
       PROVE  OpenFits' /\ LoopKnows'
  <2>1. PICK state \in StatesAfterFill(orders[id], n) :
         orders' = [orders EXCEPT ![id] = FilledMore(@, n, state)]
    BY <1>23 DEF Arrive, FillOpen
  <2>2. n \in Fillable(orders[id], position) /\ position \in Int
        /\ Open(id) /\ UNCHANGED <<journal, pc, remaining, initial>>
    BY <1>23 DEF Arrive, FillOpen, TypeOK, Open, process, status
  <2>3. /\ \A other \in Ids \ {id} : orders'[other] = orders[other]
        /\ orders'[id].filled = orders[id].filled + n /\ orders'[id].count = orders[id].count
    BY <2>1, <2>2, MoreFilled DEF TypeOK
  <2>4. OpenFits'
    BY <1>a, <2>2, <2>3, FitsMoved
  <2> QED
    BY <1>a, <2>2, <2>4 DEF LoopKnows
<1>24. CASE Resume
  BY <1>24, <1>5, <1>6, <1>7, <1>8, <1>10 DEF Resume
<1>25. CASE Loop
  BY <1>25, <1>3, <1>9, <1>11, <1>12, <1>14, <1>15, <1>17, <1>18, <1>19, <1>20
  DEF Loop, Refused, TickFails, PostFails, TailDone, TailSkipped, exchange
<1>26. CASE World
  BY <1>26, <1>2, <1>21, <1>22, <1>23 DEF World, StopRequested, exchange, status
<1>27. CASE UNCHANGED vars
  BY <1>27, <1>2 DEF vars, process, exchange, status
<1> QED
  BY <1>4, <1>24, <1>25, <1>26, <1>27 DEF Next

-----------------------------------------------------------------------------
(* The theorems.                                                           *)

LEMMA InvInit == Init => IInv
<1> SUFFICES ASSUME Init
             PROVE  IInv
  OBVIOUS
<1>1. TypeOK
  BY TypeInit
<1>2. /\ \A id \in Ids : orders[id] = NoOrder /\ journal.fills[id] = 0
      /\ journal.placed = {} /\ journal.reconciled = {} /\ journal.filled = 0
      /\ ~ journal.finished /\ journal = EmptyJournal
      /\ pc = "off" /\ cur = {} /\ position = Held
  BY EmptyJournalFields DEF Init
<1>3. \A id \in Ids : ~ Open(id)
  BY <1>2 DEF Open, NoOrder
<1>4. OrdersSound
  BY <1>2 DEF OrdersSound, OrderSound, NoOrder
<1>5. ProcessSound /\ NothingYet
  BY <1>2 DEF ProcessSound, NothingYet
<1>6. Tracked
  BY <1>1, <1>2, <1>3, Types DEF Tracked
<1>7. Budgeted
  BY <1>1, <1>2, <1>3, Types DEF Budgeted, InLoop, Resuming
<1> QED
  BY <1>1, <1>4, <1>5, <1>6, <1>7 DEF IInv

LEMMA InvStep == IInv /\ [Next]_vars => IInv'
<1> SUFFICES ASSUME IInv, [Next]_vars
             PROVE  IInv'
  OBVIOUS
<1>1. TypeOK /\ OrdersSound /\ ProcessSound /\ NothingYet
  BY DEF IInv
<1>2. TypeOK' /\ OrdersSound' /\ ProcessSound' /\ NothingYet'
  BY <1>1, TypeStep, SoundStep, ProcessStep, NothingYetStep
<1>3. Plain => PlainTail
  BY DEF Plain, PlainTail
<1>4. ~ blind' /\ PlainTail' => Tracked'
  BY <1>1, GoodBefore, TrackedStep DEF IInv
<1>5. ~ blind' /\ Plain' => Budgeted'
  BY <1>1, <1>2, <1>3, GoodBefore, BudgetedStep DEF IInv
<1> QED
  BY <1>2, <1>4, <1>5 DEF IInv

\* IInv is an invariant of every instance: at most one order is open, the
\* journal or the process has it in hand, and it fits into the job's size.
THEOREM InvariantHolds == Spec => []IInv
BY InvInit, InvStep, PTL DEF Spec

\* Every reachable state is well typed.
THEOREM TypeCorrect == Spec => []TypeOK
<1>1. IInv => TypeOK
  BY DEF IInv
<1> QED
  BY <1>1, InvariantHolds, PTL

LEMMA NoneOpenInLoop ==
  ASSUME IInv, pc = "loop", ~ blind, PlainTail
  PROVE  position = Held - journal.filled
BY DEF IInv, Tracked, Located

\* What the loop takes for the remainder is the remainder, after any sequence of
\* crashes, resumes, polls and cancels (resumeFromJournal, runOneTick).
THEOREM RemainderIsAccurate == Spec => []RemainingAccurate
<1>1. ASSUME IInv
      PROVE  RemainingAccurate
  <2> SUFFICES ASSUME pc = "loop", ~ blind, Plain
               PROVE  remaining = Monus(initial, Sold)
    BY DEF RemainingAccurate
  <2>1. position = Held - journal.filled
    BY <1>1, NoneOpenInLoop DEF Plain, PlainTail
  <2>2. remaining = Monus(initial, journal.filled)
    BY <1>1 DEF IInv, Budgeted, InLoop
  <2>3. Sold = journal.filled
    BY <1>1, <2>1, Types DEF IInv, Sold
  <2> QED
    BY <2>2, <2>3
<1> QED
  BY <1>1, InvariantHolds, PTL

\* A job sells no more than it was configured to, whatever crashes and fills do
\* (runOneTick, reconcileOrder, resumeFromJournal).
THEOREM SoldIsWithinSize == Spec => []SoldWithinSize
<1>1. ASSUME IInv
      PROVE  SoldWithinSize
  <2> SUFFICES ASSUME ~ blind, Plain
               PROVE  Sold <= config.size
    BY DEF SoldWithinSize
  <2>1. TypeOK /\ Tracked /\ Budgeted /\ OrdersSound
    BY <1>1 DEF IInv, Plain, PlainTail
  <2>2. CASE \A id \in Ids : ~ Open(id)
    <3>1. position = Held - journal.filled /\ journal.filled <= config.size
      BY <2>1, <2>2 DEF Tracked, Budgeted
    <3> QED
      BY <2>1, <3>1, Types DEF Sold
  <2>3. CASE \E id \in Ids : Open(id)
    <3>1. PICK id \in Ids : Open(id)
      BY <2>3
    <3>2. /\ position = Held - journal.filled + journal.fills[id] - orders[id].filled
          /\ journal.filled - journal.fills[id] + orders[id].count <= config.size
          /\ orders[id].filled <= orders[id].count
      BY <2>1, <3>1 DEF Tracked, Budgeted, OrdersSound, OrderSound
    <3> QED
      BY <2>1, <3>2, Types DEF Sold
  <2> QED
    BY <2>2, <2>3
<1> QED
  BY <1>1, InvariantHolds, PTL

\* Every order of an unfinished job that may still fill is on one of the two
\* lists that a resume goes through (pendingIntents, pendingOrders).
THEOREM LiveOrdersAreKnown == Spec => []LiveOrdersKnown
<1>1. ASSUME IInv
      PROVE  LiveOrdersKnown
  <2> SUFFICES ASSUME ~ journal.finished, ~ blind, ~ config.tail, NEW id \in Unsettled
               PROVE  id \in PendingIntents(journal) \cup PendingOrders(journal)
    BY DEF LiveOrdersKnown
  <2>1. id \in Ids /\ Open(id)
    BY DEF Unsettled, Open
  <2>2. Located(id) /\ ProcessSound
    BY <1>1, <2>1 DEF IInv, Tracked, PlainTail
  <2> QED
    BY <2>2 DEF Located, ProcessSound
<1> QED
  BY <1>1, InvariantHolds, PTL

\* Two orders never compete for the same shares (reconcileOrder waits for the
\* end of an order before the next one is posted).
THEOREM OrdersDoNotCompete == Spec => []AtMostOneUnsettled
<1>1. ASSUME IInv
      PROVE  AtMostOneUnsettled
  <2> SUFFICES ASSUME ~ blind, Plain, NEW i \in Unsettled, NEW k \in Unsettled
               PROVE  i = k
    BY DEF AtMostOneUnsettled
  <2>1. i \in Ids /\ k \in Ids /\ Open(i) /\ Open(k)
    BY DEF Unsettled, Open
  <2> QED
    BY <1>1, <2>1 DEF IInv, Tracked, Plain, PlainTail
<1> QED
  BY <1>1, InvariantHolds, PTL

\* A job that finished journals and posts nothing more (the finally block of
\* run, isFinished).
THEOREM FinishedStaysFinal == Spec => FinishedIsFinal
<1>1. ASSUME IInv, [Next]_vars, journal.finished
      PROVE  journal' = journal /\ Fresh' = Fresh
  <2>1. pc = "off" /\ cur = {} /\ TypeOK
    BY <1>1 DEF IInv, ProcessSound
  <2>2. CASE UNCHANGED <<journal, orders>>
    BY <2>2 DEF Fresh
  <2>3. ASSUME NEW id \in Ids, NEW n \in 0 .. orders[id].count, Arrive(id, n) \/ FillOpen(id, n)
        PROVE  journal' = journal /\ Fresh' = Fresh
    <3>1. PICK state \in StatesAfterFill(orders[id], n) :
           orders' = [orders EXCEPT ![id] = FilledMore(@, n, state)]
      BY <2>3 DEF Arrive, FillOpen
    <3>2. n \in Fillable(orders[id], position) /\ position \in Int /\ journal' = journal
          /\ orders[id].state # "none"
      BY <2>1, <2>3 DEF Arrive, FillOpen, TypeOK
    <3>3. orders'[id].state # "none" /\ \A other \in Ids \ {id} : orders'[other] = orders[other]
      BY <2>1, <3>1, <3>2, MoreFilled, Types DEF TypeOK
    <3> QED
      BY <3>2, <3>3 DEF Fresh
  <2>4. ASSUME NEW id \in Ids, GetLost(id)
        PROVE  journal' = journal /\ Fresh' = Fresh
    <3>1. /\ journal' = journal /\ orders[id].state # "none" /\ orders'[id].state # "none"
          /\ \A other \in Ids \ {id} : orders'[other] = orders[other]
      BY <2>1, <2>4, Types DEF GetLost, TypeOK, Orders
    <3> QED
      BY <3>1 DEF Fresh
  <2>5. CASE World
    BY <2>1, <2>2, <2>3, <2>4, <2>5 DEF World, StopRequested, Crash, exchange
  <2>6. CASE Start \/ UNCHANGED vars
    BY <1>1, <2>2, <2>6 DEF Start, Resumable, vars, exchange
  <2>7. CASE Resume
    BY <2>1, <2>7 DEF Resume, IntentFound, IntentMissed, ResumeGetOrder, ResumeGetOrderFails,
                      IntentsDone, ResumeDone
  <2>8. CASE Loop
    BY <2>1, <2>8 DEF Loop, Refused, Accepted, LoopEnds, TickFails, Post, PostFails, PostAnswered,
                      PostRests, Poll, CancelStale, LeftStale, TailPost, TailDone, TailSkipped
  <2> QED
    BY <1>1, <2>5, <2>6, <2>7, <2>8 DEF Next
<1>2. IInv /\ [Next]_vars => [journal.finished => journal' = journal /\ Fresh' = Fresh]_vars
  BY <1>1
<1> QED
  BY <1>2, InvariantHolds, PTL DEF Spec, FinishedIsFinal

-----------------------------------------------------------------------------
(* Every life of the process keeps to its cap.                             *)

\* What was asked for, by order and in all
Asked == [id \in Ids |-> orders[id].count]

Total == SumFunctionOnSet(Asked, Ids)

\* Ten times what one life of the process may submit
LifeCap == config.size * config.multiple

Early == {"intents", "placed", "repolling", "starting"}

\* A life that was killed has used its cap up at most; the life under way knows
\* what it has submitted itself.
CapKept ==
  /\ pc = "off" /\ ~ journal.finished => 10 * Total <= crashes * LifeCap
  /\ pc = "off" /\ journal.finished => 10 * Total <= crashes * LifeCap + LifeCap
  /\ pc # "off" => /\ 10 * Total <= crashes * LifeCap + 10 * submitted
                   /\ 10 * submitted <= initial * config.multiple
                   /\ initial <= config.size
  /\ pc \in Early => submitted = 0

CapInv == ~ config.tail => CapKept

LEMMA CapNumbers ==
  ASSUME TypeOK, IsFiniteSet(Ids)
  PROVE  /\ Asked \in [Ids -> Nat] /\ Total \in Nat /\ LifeCap \in Nat /\ crashes \in Nat
         /\ crashes * LifeCap \in Nat /\ submitted \in Nat /\ initial \in Nat /\ config.size \in Nat
         /\ config.multiple \in Nat /\ initial * config.multiple \in Nat
<1>1. config.size \in Nat /\ config.multiple \in Nat
  BY Types DEF ConfigType
<1>2. submitted \in Nat /\ initial \in Nat /\ crashes \in Nat
  BY ConfigAssumption DEF TypeOK
<1>3. LifeCap \in Nat
  BY <1>1 DEF LifeCap
<1>4. crashes * LifeCap \in Nat /\ initial * config.multiple \in Nat
  BY <1>1, <1>2, <1>3
<1>5. Asked \in [Ids -> Nat]
  BY Types DEF Asked
<1>6. Total \in Nat
  BY <1>5, SumType DEF Total
<1> QED BY <1>1, <1>2, <1>3, <1>4, <1>5, <1>6

LEMMA TimesMonotone ==
  ASSUME NEW a \in Nat, NEW b \in Nat, NEW m \in Nat, a <= b
  PROVE  a * m <= b * m
OBVIOUS

LEMMA TimesNext ==
  ASSUME NEW a \in Nat, NEW b \in Nat
  PROVE  (a + 1) * b = a * b + b
OBVIOUS

\* A life that ends has kept to the cap.
LEMMA LifeWithinCap ==
  ASSUME TypeOK, IsFiniteSet(Ids), CapKept, pc # "off"
  PROVE  10 * Total <= crashes * LifeCap + LifeCap
<1>1. 10 * Total <= crashes * LifeCap + 10 * submitted /\ 10 * submitted <= initial * config.multiple
      /\ initial <= config.size
  BY DEF CapKept
<1>2. initial * config.multiple <= LifeCap
  BY <1>1, CapNumbers, TimesMonotone DEF LifeCap
<1> DEFINE t == Total
           c == crashes * LifeCap
           l == LifeCap
           i == initial * config.multiple
<1>3. t \in Nat /\ c \in Nat /\ l \in Nat /\ i \in Nat /\ submitted \in Nat
  BY CapNumbers
<1> HIDE DEF t, c, l, i
<1>4. 10 * t <= c + 10 * submitted /\ 10 * submitted <= i /\ i <= l
  BY <1>1, <1>2 DEF t, c, l, i
<1>5. 10 * t <= c + l
  BY <1>3, <1>4
<1> QED BY <1>5 DEF t, c, l

LEMMA AskedStays ==
  ASSUME TypeOK, NEW id \in Ids, NEW o, o.count = orders[id].count, orders' = [orders EXCEPT ![id] = o]
  PROVE  Asked' = Asked
BY DEF Asked, TypeOK

\* A step of the process that submits nothing, and that finishes the journal when
\* it is the last.
CapStays ==
  /\ pc # "off" /\ Asked' = Asked /\ UNCHANGED <<config, crashes, submitted, initial>>
  /\ pc' = "off" => journal'.finished
  /\ pc' \in Early => pc \in Early

LEMMA CapAfterStay ==
  ASSUME TypeOK, IsFiniteSet(Ids), CapKept, CapStays
  PROVE  CapKept'
<1>1. Total' = Total /\ LifeCap' = LifeCap
  BY DEF CapStays, Total, LifeCap
<1>2. 10 * Total <= crashes * LifeCap + LifeCap
  BY LifeWithinCap DEF CapStays
<1> QED BY <1>1, <1>2 DEF CapKept, CapStays

\* A step of the surroundings
LEMMA CapUntouched ==
  ASSUME CapKept, Asked' = Asked, UNCHANGED <<config, crashes, submitted, initial, pc, journal>>
  PROVE  CapKept'
BY DEF CapKept, Total, LifeCap

LEMMA FinishStays ==
  ASSUME TypeOK, Finish, pc # "off", Asked' = Asked, UNCHANGED <<config, crashes, submitted, initial>>
  PROVE  CapStays
BY FinishedLine DEF Finish, CapStays, Early, TypeOK

LEMMA OrdersStay == ASSUME UNCHANGED orders PROVE Asked' = Asked
BY DEF Asked

LEMMA ReconcileStays ==
  ASSUME NEW id \in Ids, NEW n, Reconcile(id, n), pc \in {"polling", "repolling"}, Asked' = Asked,
         UNCHANGED <<config, crashes, submitted, initial>>
  PROVE  CapStays
BY DEF Reconcile, Settle, ResumeSettle, CapStays, Early

LEMMA CapResume ==
  ASSUME TypeOK, IsFiniteSet(Ids), CapKept, Resume
  PROVE  CapKept'
<1>1. CapStays
  <2>1. UNCHANGED <<config, crashes, submitted, initial, orders>> /\ pc # "off"
    BY DEF Resume, IntentFound, IntentMissed, ResumeGetOrder, ResumeGetOrderFails, IntentsDone, ResumeDone,
           status, exchange
  <2>2. pc \in Early /\ pc' # "off"
    BY DEF Resume, IntentFound, IntentMissed, ResumeGetOrder, ResumeGetOrderFails, IntentsDone, ResumeDone,
           ResumeSettle, Early
  <2> QED BY <2>1, <2>2, OrdersStay DEF CapStays
<1> QED BY <1>1, CapAfterStay

LEMMA CapAccepted ==
  ASSUME TypeOK, IsFiniteSet(Ids), CapKept, Accepted
  PROVE  CapKept'
<1>1. /\ pc = "starting" /\ pc' = "loop" /\ submitted = 0 /\ submitted' = 0
      /\ UNCHANGED <<config, crashes, orders>>
  BY DEF Accepted, exchange, CapKept, Early
<1>2. Total' = Total /\ LifeCap' = LifeCap
  BY <1>1, OrdersStay DEF Total, LifeCap
<1>3. initial' \in Nat /\ initial' <= config.size
  <2>1. CASE config.preflight /\ position < config.size
    BY <2>1, Types DEF Accepted, TypeOK
  <2>2. CASE ~ (config.preflight /\ position < config.size)
    BY <1>1, <2>2 DEF Accepted, CapKept, TypeOK
  <2> QED BY <2>1, <2>2
<1>4. initial' * config.multiple \in Nat
  BY <1>3, CapNumbers
<1>5. 10 * Total <= crashes * LifeCap + 10 * submitted
  BY <1>1 DEF CapKept
<1>6. 0 <= initial' * config.multiple
  BY <1>4
<1> QED BY <1>1, <1>2, <1>3, <1>5, <1>6 DEF CapKept, Early

LEMMA CapStart ==
  ASSUME TypeOK, IsFiniteSet(Ids), CapKept, Start
  PROVE  CapKept'
<1>1. /\ pc = "off" /\ ~ journal.finished /\ pc' = "intents" /\ submitted' = 0 /\ initial' = config.size
      /\ UNCHANGED <<config, crashes, orders>>
  BY DEF Start, Resumable, exchange
<1>2. Total' = Total /\ LifeCap' = LifeCap
  BY <1>1, OrdersStay DEF Total, LifeCap
<1>3. 10 * Total <= crashes * LifeCap
  BY <1>1 DEF CapKept
<1>4. 0 <= config.size * config.multiple
  BY CapNumbers DEF LifeCap
<1>5. 10 * Total <= crashes * LifeCap + 10 * submitted'
  BY <1>1, <1>3, CapNumbers
<1> QED BY <1>1, <1>2, <1>4, <1>5, CapNumbers DEF CapKept, Early

LEMMA CapCrash ==
  ASSUME TypeOK, IsFiniteSet(Ids), CapKept, Crash
  PROVE  CapKept'
<1>1. /\ pc # "off" /\ pc' = "off" /\ crashes' = crashes + 1 /\ UNCHANGED <<config, orders, journal>>
  BY DEF Crash, exchange
<1>2. Total' = Total /\ LifeCap' = LifeCap
  BY <1>1, OrdersStay DEF Total, LifeCap
<1>3. 10 * Total <= crashes * LifeCap + LifeCap
  BY <1>1, LifeWithinCap
<1>4. (crashes + 1) * LifeCap = crashes * LifeCap + LifeCap
  BY CapNumbers, TimesNext
<1> DEFINE t == 10 * Total
           c == (crashes + 1) * LifeCap
           l == LifeCap
<1>5. t <= c /\ t \in Nat /\ c \in Nat /\ l \in Nat
  BY <1>3, <1>4, CapNumbers
<1>6. 10 * Total' = t /\ crashes' * LifeCap' = c /\ LifeCap' = l
  BY <1>1, <1>2
<1> HIDE DEF t, c, l
<1>7. t <= c + l
  BY <1>5
<1> QED BY <1>1, <1>5, <1>6, <1>7 DEF CapKept, Early

LEMMA CapPost ==
  ASSUME TypeOK, IsFiniteSet(Ids), CapKept, NEW id \in Ids, NEW want \in config.chunks, Post(id, want)
  PROVE  CapKept'
<1> DEFINE n == Chunk(want)
<1>1. /\ pc = "loop" /\ pc' = "posting" /\ remaining > 0 /\ submitted' = submitted + n
      /\ ~ OverCap(n) /\ NewId(id) /\ UNCHANGED <<config, crashes, initial>>
      /\ orders' = [orders EXCEPT ![id] = Sent(n, config.tif, config.tif = "ioc")]
  BY DEF Post
<1>2. n \in Nat
  BY <1>1, ChunkBounds, Types DEF TypeOK
<1> HIDE DEF n
<1>3. Sent(n, config.tif, config.tif = "ioc").count = n
  BY DEF Sent
<1>4. /\ Asked \in [Ids -> Nat] /\ Asked' \in [Ids -> Nat] /\ Asked'[id] = n
      /\ \A other \in Ids : other # id => Asked'[other] = Asked[other]
  <2>1. Asked \in [Ids -> Nat]
    BY CapNumbers
  <2>2. Asked' = [Asked EXCEPT ![id] = n]
    BY <1>1, <1>3 DEF Asked, TypeOK
  <2> QED BY <1>2, <2>1, <2>2
<1>5. Total' + Asked[id] = Total + Asked'[id] /\ Total' \in Nat
  <2> DEFINE f == Asked
             g == Asked'
  <2>1. f \in [Ids -> Nat] /\ g \in [Ids -> Nat] /\ \A other \in Ids : other # id => g[other] = f[other]
    BY <1>4
  <2> HIDE DEF f, g
  <2>2. SumFunctionOnSet(g, Ids) + f[id] = SumFunctionOnSet(f, Ids) + g[id]
    BY <2>1, SumChanged, SMTT(60)
  <2>3. SumFunctionOnSet(g, Ids) \in Nat
    BY <2>1, SumType
  <2> QED BY <2>2, <2>3 DEF f, g, Total
<1>6. Asked[id] \in Nat /\ Total \in Nat /\ submitted \in Nat /\ crashes * LifeCap \in Nat
  BY <1>4, CapNumbers
<1>7. 10 * Total <= crashes * LifeCap + 10 * submitted /\ initial <= config.size
  BY <1>1 DEF CapKept
<1>8. 10 * submitted' <= initial * config.multiple
  <2>1. submitted' \in Nat /\ initial * config.multiple \in Nat
    BY <1>1, <1>2, <1>6, CapNumbers
  <2>2. ~ (10 * submitted' > initial * config.multiple)
    BY <1>1 DEF OverCap
  <2> QED BY <2>1, <2>2
<1> DEFINE c == crashes * LifeCap
<1>9. 10 * Total' <= c + 10 * submitted'
  <2> HIDE DEF c
  <2>1. c \in Nat /\ 10 * Total <= c + 10 * submitted
    BY <1>6, <1>7 DEF c
  <2> QED BY <1>1, <1>2, <1>4, <1>5, <1>6, <2>1
<1>10. LifeCap' = LifeCap
  BY <1>1 DEF LifeCap
<1> QED BY <1>1, <1>7, <1>8, <1>9, <1>10 DEF CapKept, Early

LEMMA CapLoop ==
  ASSUME TypeOK, IsFiniteSet(Ids), ProcessSound, ~ config.tail, CapKept, Loop
  PROVE  CapKept'
<1>1. ASSUME Refused \/ LoopEnds \/ TickFails \/ TailSkipped PROVE CapKept'
  <2>1. UNCHANGED <<config, crashes, submitted, initial, orders>> /\ pc # "off"
    BY <1>1 DEF Refused, LoopEnds, TickFails, TailSkipped, status, exchange
  <2>2. Finish
    BY <1>1 DEF Refused, LoopEnds, TickFails, TailSkipped, AfterLoop
  <2> QED BY <2>1, <2>2, OrdersStay, FinishStays, CapAfterStay
<1>2. ASSUME NEW id \in Ids, PostFails(id) \/ TailDone(id) PROVE CapKept'
  <2>1. UNCHANGED <<config, crashes, submitted, initial, orders>> /\ pc # "off" /\ Finish
    BY <1>2 DEF PostFails, TailDone, status, exchange
  <2> QED BY <2>1, OrdersStay, FinishStays, CapAfterStay
<1>3. ASSUME NEW id \in Ids, PostAnswered(id) PROVE CapKept'
  <2>1. UNCHANGED <<config, crashes, submitted, initial, orders>> /\ pc = "posting" /\ pc' \in {"loop", "polling"}
    BY <1>3 DEF PostAnswered, exchange, Settle
  <2>2. CapStays
    BY <2>1, OrdersStay DEF CapStays, Early
  <2> QED BY <2>2, CapAfterStay
<1>4. ASSUME NEW id \in Ids, PostRests(id) PROVE CapKept'
  <2>1. /\ UNCHANGED <<config, crashes, submitted, initial, orders>> /\ pc = "posting" /\ pc' = "off"
        /\ journal' = Finished(Placed(journal, id))
    BY <1>4 DEF PostRests, status, exchange
  <2>2. journal'.finished
    BY <2>1, PlacedLine, FinishedLine DEF TypeOK
  <2>3. CapStays
    BY <2>1, <2>2, OrdersStay DEF CapStays, Early
  <2> QED BY <2>3, CapAfterStay
<1>5. ASSUME NEW id \in Ids, Poll(id) \/ CancelStale(id) \/ LeftStale(id) PROVE CapKept'
  <2>1. UNCHANGED <<config, crashes, submitted, initial>> /\ pc \in {"polling", "repolling"}
    BY <1>5 DEF Poll, CancelStale, LeftStale
  <2>2. Asked' = Asked
    <3>1. CanceledOrder(orders[id]).count = orders[id].count
      BY Types, CanceledOrderFields
    <3>2. orders' = orders \/ orders' = [orders EXCEPT ![id] = CanceledOrder(orders[id])]
      BY <1>5 DEF Poll, CancelStale, LeftStale, exchange
    <3> QED BY <3>1, <3>2, OrdersStay, AskedStays
  <2>3. (\E n \in Int : Reconcile(id, n)) \/ UNCHANGED pc
    <3>1. orders[id].filled \in Int /\ seen \in Int
      BY Types DEF TypeOK
    <3> QED BY <1>5, <3>1 DEF Poll, CancelStale, LeftStale
  <2>4. CapStays
    <3>1. CASE UNCHANGED pc
      BY <2>1, <2>2, <3>1 DEF CapStays
    <3>2. ASSUME NEW n \in Int, Reconcile(id, n) PROVE CapStays
      BY <2>1, <2>2, <3>2, ReconcileStays
    <3> QED BY <2>3, <3>1, <3>2
  <2> QED BY <2>4, CapAfterStay
<1>6. ASSUME NEW id \in Ids, TailPost(id) PROVE CapKept'
  BY <1>6 DEF TailPost, ProcessSound
<1> QED BY <1>1, <1>2, <1>3, <1>4, <1>5, <1>6, CapAccepted, CapPost DEF Loop

LEMMA CapWorld ==
  ASSUME TypeOK, IsFiniteSet(Ids), CapKept, World
  PROVE  CapKept'
<1>1. CASE StopRequested
  BY <1>1, OrdersStay, CapUntouched DEF StopRequested, status, exchange
<1>2. ASSUME NEW id \in Ids, GetLost(id) PROVE CapKept'
  <2>1. orders' = [orders EXCEPT ![id] = [orders[id] EXCEPT !.state = "lost"]]
    BY <1>2 DEF GetLost
  <2>2. [orders[id] EXCEPT !.state = "lost"].count = orders[id].count
    BY Types DEF Orders
  <2>3. Asked' = Asked
    BY <2>1, <2>2, AskedStays
  <2> QED BY <1>2, <2>3, CapUntouched DEF GetLost, process, status
<1>3. ASSUME NEW id \in Ids, NEW n \in 0 .. orders[id].count, Arrive(id, n) \/ FillOpen(id, n) PROVE CapKept'
  <2>1. PICK state \in StatesAfterFill(orders[id], n) :
          orders' = [orders EXCEPT ![id] = FilledMore(orders[id], n, state)]
    BY <1>3 DEF Arrive, FillOpen
  <2>2. FilledMore(orders[id], n, state).count = orders[id].count
    BY Types DEF FilledMore, Orders
  <2>3. Asked' = Asked
    BY <2>1, <2>2, AskedStays
  <2> QED BY <1>3, <2>3, CapUntouched DEF Arrive, FillOpen, process, status
<1> QED BY <1>1, <1>2, <1>3, CapCrash DEF World

\* However often it is killed and resumed, a job submits no more than its cap in
\* each life of its process (safetySubmittedMultiple), whatever the book leads to.
THEOREM SubmissionsAreBounded ==
  ASSUME IsFiniteSet(Ids)
  PROVE  Spec => []SubmittedBounded
<1>1. Init => CapInv
  <2> SUFFICES ASSUME Init PROVE CapKept
    BY DEF CapInv
  <2>1. TypeOK
    BY TypeInit
  <2>2. Total = 0
    <3>1. Asked \in [Ids -> Nat] /\ \A id \in Ids : Asked[id] = 0
      BY <2>1, CapNumbers DEF Init, Asked, NoOrder
    <3> QED BY <3>1, SumOfZeros DEF Total
  <2>3. pc = "off" /\ crashes = 0 /\ journal.finished = FALSE
    BY EmptyJournalFields DEF Init
  <2> QED BY <2>1, <2>2, <2>3, CapNumbers DEF CapKept, Early
<1>2. IInv /\ CapInv /\ [Next]_vars => CapInv'
  <2> SUFFICES ASSUME IInv, CapInv, [Next]_vars, ~ config'.tail PROVE CapKept'
    BY DEF CapInv
  <2>1. TypeOK /\ ProcessSound /\ ~ config.tail
    BY GoodBefore DEF IInv
  <2>2. CapKept
    BY <2>1 DEF CapInv
  <2>3. CASE Start
    BY <2>1, <2>2, <2>3, CapStart
  <2>4. CASE Resume
    BY <2>1, <2>2, <2>4, CapResume
  <2>5. CASE Loop
    BY <2>1, <2>2, <2>5, CapLoop
  <2>6. CASE World
    BY <2>1, <2>2, <2>6, CapWorld
  <2>7. CASE UNCHANGED vars
    BY <2>2, <2>7, OrdersStay, CapUntouched DEF vars, process, status, exchange
  <2> QED BY <2>3, <2>4, <2>5, <2>6, <2>7 DEF Next
<1>3. IInv /\ CapInv => SubmittedBounded
  <2> SUFFICES ASSUME IInv, CapInv, ~ config.tail
               PROVE  10 * SumFunction(Asked) <= (crashes + 1) * config.size * config.multiple
    BY DEF SubmittedBounded, Asked
  <2>1. TypeOK /\ CapKept
    BY DEF IInv, CapInv
  <2>2. SumFunction(Asked) = Total
    BY DEF SumFunction, Total, Asked
  <2>3. 10 * Total <= crashes * LifeCap + LifeCap
    <3>1. CASE pc # "off"
      BY <2>1, <3>1, LifeWithinCap
    <3>2. CASE pc = "off" /\ journal.finished
      BY <2>1, <3>2 DEF CapKept
    <3>3. CASE pc = "off" /\ ~ journal.finished
      <4>1. 10 * Total <= crashes * LifeCap
        BY <2>1, <3>3 DEF CapKept
      <4> DEFINE t == Total
                 c == crashes * LifeCap
                 l == LifeCap
      <4>2. t \in Nat /\ c \in Nat /\ l \in Nat /\ 10 * t <= c
        BY <2>1, <4>1, CapNumbers
      <4> HIDE DEF t, c, l
      <4>3. 10 * t <= c + l
        BY <4>2
      <4> QED BY <4>3 DEF t, c, l
    <3> QED BY <3>1, <3>2, <3>3
  <2>4. (crashes + 1) * config.size * config.multiple = crashes * LifeCap + LifeCap
    <3> DEFINE k == crashes + 1
               z == config.size
               m == config.multiple
    <3>1. k \in Nat /\ z \in Nat /\ m \in Nat /\ crashes \in Nat /\ LifeCap \in Nat
      BY <2>1, CapNumbers
    <3> HIDE DEF k, z, m
    <3>2. k * z * m = k * (z * m)
      BY <3>1
    <3>3. (crashes + 1) * LifeCap = crashes * LifeCap + LifeCap
      BY <3>1, TimesNext
    <3> QED BY <3>2, <3>3 DEF k, z, m, LifeCap
  <2> QED BY <2>2, <2>3, <2>4
<1> QED BY <1>1, <1>2, <1>3, InvariantHolds, PTL DEF Spec
=============================================================================
