-------------------------- MODULE StrategiesProofs --------------------------
(***************************************************************************)
(* Theorems about the strategies: whatever the market does between two     *)
(* steps of a job, what the job reports and what it commits stays within   *)
(* what it was asked to trade.                                             *)
(***************************************************************************)
EXTENDS Strategies, FiniteSums

-----------------------------------------------------------------------------
(* What the calls of a runner and the market do to a leg.                  *)

\* Shares of a leg that have traded or still may
Committed(l) == traded[l] + stray[l] + Outstanding(live[l])

\* Nothing of the leg is on the book.
Clean(l) == stray[l] = 0 /\ ~live[l].open

Untouched(l) == live'[l] = live[l] /\ stray'[l] = stray[l] /\ traded'[l] = traded[l]

LEMMA OrderFacts ==
  ASSUME MarketTypeOK, NEW l \in Legs
  PROVE  /\ live[l] \in Orders /\ live[l].n \in Nat /\ live[l].got \in Nat /\ live[l].open \in BOOLEAN
         /\ live[l].got <= live[l].n /\ (live[l].open => live[l].got < live[l].n)
         /\ stray[l] \in Nat /\ traded[l] \in Nat /\ lost \in BOOLEAN
         /\ Outstanding(live[l]) \in Nat /\ Outstanding(live[l]) <= live[l].n - live[l].got
         /\ Committed(l) \in Nat /\ traded[l] <= Committed(l)
         /\ Clean(l) => Committed(l) = traded[l]
<1>1. /\ live[l] \in Orders /\ live[l].got <= live[l].n /\ (live[l].open => live[l].got < live[l].n)
      /\ stray[l] \in Nat /\ traded[l] \in Nat
  BY DEF MarketTypeOK
<1>2. live[l].n \in Nat /\ live[l].got \in Nat /\ live[l].open \in BOOLEAN
  BY <1>1 DEF Orders
<1>3. /\ Outstanding(live[l]) \in Nat /\ Outstanding(live[l]) <= live[l].n - live[l].got
      /\ ~live[l].open => Outstanding(live[l]) = 0
  BY <1>1, <1>2 DEF Outstanding
<1>4. lost \in BOOLEAN
  BY DEF MarketTypeOK
<1>5. Committed(l) \in Nat /\ traded[l] <= Committed(l)
  BY <1>1, <1>3 DEF Committed
<1> QED BY <1>1, <1>2, <1>3, <1>4, <1>5 DEF Committed, Clean

\* The same after a step
LEMMA OrderFactsNext ==
  ASSUME MarketTypeOK', NEW l \in Legs
  PROVE  /\ live'[l].n \in Nat /\ live'[l].got \in Nat /\ live'[l].open \in BOOLEAN
         /\ live'[l].got <= live'[l].n /\ (live'[l].open => live'[l].got < live'[l].n)
         /\ stray'[l] \in Nat /\ traded'[l] \in Nat /\ lost' \in BOOLEAN
         /\ Committed(l)' \in Nat /\ traded'[l] <= Committed(l)'
         /\ Clean(l)' => Committed(l)' = traded'[l]
<1>1. /\ live'[l] \in Orders /\ live'[l].got <= live'[l].n /\ (live'[l].open => live'[l].got < live'[l].n)
      /\ stray'[l] \in Nat /\ traded'[l] \in Nat
  BY DEF MarketTypeOK
<1>2. live'[l].n \in Nat /\ live'[l].got \in Nat /\ live'[l].open \in BOOLEAN
  BY <1>1 DEF Orders
<1>3. /\ Outstanding(live'[l]) \in Nat
      /\ ~live'[l].open => Outstanding(live'[l]) = 0
  BY <1>1, <1>2 DEF Outstanding
<1>4. lost' \in BOOLEAN
  BY DEF MarketTypeOK
<1>5. Committed(l)' = traded'[l] + stray'[l] + Outstanding(live'[l])
  BY DEF Committed
<1>6. Committed(l)' \in Nat /\ traded'[l] <= Committed(l)'
  BY <1>1, <1>3, <1>5
<1> QED BY <1>1, <1>2, <1>3, <1>4, <1>5, <1>6 DEF Clean

LEMMA MarketInitFacts ==
  ASSUME MarketInit
  PROVE  /\ MarketTypeOK /\ ~lost
         /\ \A l \in Legs : live[l] = NoOrder /\ Clean(l) /\ traded[l] = 0 /\ Committed(l) = 0
<1>1. NoOrder \in Orders /\ NoOrder.n = 0 /\ NoOrder.got = 0 /\ ~NoOrder.open /\ Outstanding(NoOrder) = 0
  BY DEF NoOrder, Orders, Outstanding
<1> HIDE DEF NoOrder
<1>2. ~lost /\ lost \in BOOLEAN /\ \A l \in Legs : live[l] = NoOrder /\ stray[l] = 0 /\ traded[l] = 0
  BY DEF MarketInit
<1>3. MarketTypeOK
  BY <1>1, <1>2 DEF MarketInit, MarketTypeOK
<1> QED BY <1>1, <1>2, <1>3 DEF Committed, Clean

LEMMA MarketKept ==
  ASSUME MarketTypeOK, UNCHANGED market
  PROVE  MarketTypeOK' /\ lost' = lost /\ \A l \in Legs : Untouched(l) /\ Clean(l)' = Clean(l)
BY DEF MarketTypeOK, market, Untouched, Clean

LEMMA FollowMoves ==
  ASSUME MarketTypeOK, NEW l \in Legs, NEW o \in Orders, o.got <= o.n, o.open => o.got < o.n,
         Follow(l, o)
  PROVE  /\ MarketTypeOK' /\ lost' = lost /\ live'[l] = o
         /\ stray'[l] = stray[l] + Outstanding(live[l])
         /\ traded'[l] = traded[l] + o.got
         /\ Committed(l)' = Committed(l) + o.got + Outstanding(o)
         /\ \A k \in Legs \ {l} : Untouched(k)
<1>1. /\ live[l].n \in Nat /\ live[l].got \in Nat /\ live[l].got <= live[l].n
      /\ stray[l] \in Nat /\ traded[l] \in Nat /\ Outstanding(live[l]) \in Nat
  BY OrderFacts
<1>2. o.n \in Nat /\ o.got \in Nat /\ o.open \in BOOLEAN
  BY DEF Orders
<1>3. /\ live' = [live EXCEPT ![l] = o]
      /\ stray' = [stray EXCEPT ![l] = stray[l] + Outstanding(live[l])]
      /\ traded' = [traded EXCEPT ![l] = traded[l] + o.got] /\ lost' = lost
  BY DEF Follow
<1>4. live \in [Legs -> Orders] /\ stray \in [Legs -> Nat] /\ traded \in [Legs -> Nat]
  BY DEF MarketTypeOK
<1>5. live'[l] = o /\ stray'[l] = stray[l] + Outstanding(live[l]) /\ traded'[l] = traded[l] + o.got
  BY <1>3, <1>4
<1>6. \A k \in Legs \ {l} : Untouched(k)
  BY <1>3, <1>4 DEF Untouched
<1>7. live' \in [Legs -> Orders] /\ stray' \in [Legs -> Nat] /\ traded' \in [Legs -> Nat]
  BY <1>1, <1>2, <1>3, <1>4
<1>8. \A k \in Legs : live'[k].got <= live'[k].n /\ (live'[k].open => live'[k].got < live'[k].n)
  BY <1>5, <1>6 DEF MarketTypeOK, Untouched
<1>9. MarketTypeOK'
  BY <1>3, <1>7, <1>8 DEF MarketTypeOK
<1>10. Outstanding(o) \in Nat
  BY <1>2 DEF Outstanding
<1>11. Committed(l)' = traded'[l] + stray'[l] + Outstanding(o)
  BY <1>5 DEF Committed
<1>12. Committed(l)' = Committed(l) + o.got + Outstanding(o)
  BY <1>1, <1>2, <1>5, <1>10, <1>11 DEF Committed
<1> QED BY <1>3, <1>5, <1>6, <1>9, <1>12

LEMMA RestMoves ==
  ASSUME MarketTypeOK, NEW l \in Legs, NEW n \in Nat, Rest(l, n)
  PROVE  /\ MarketTypeOK' /\ lost' = lost
         /\ live'[l].n = n /\ live'[l].got \in 0 .. n
         /\ stray'[l] = stray[l] + Outstanding(live[l])
         /\ traded'[l] = traded[l] + live'[l].got
         /\ Committed(l)' = Committed(l) + n
         /\ \A k \in Legs \ {l} : Untouched(k)
<1>1. PICK f \in 0 .. n : Follow(l, [n |-> n, got |-> f, open |-> f < n])
  BY DEF Rest
<1> DEFINE o == [n |-> n, got |-> f, open |-> f < n]
<1>2. /\ o \in Orders /\ o.got <= o.n /\ o.got = f /\ o.n = n /\ f + Outstanding(o) = n
      /\ o.open => o.got < o.n
  <2>1. o.n = n /\ o.got = f /\ (o.open <=> f < n)
    BY Zenon
  <2>2. o \in Orders
    BY DEF Orders
  <2> HIDE DEF o
  <2> QED BY <2>1, <2>2 DEF Outstanding
<1>3. Follow(l, o)
  BY <1>1
<1> HIDE DEF o
<1>4. Committed(l) \in Nat /\ Outstanding(o) \in Nat
  BY <1>2, OrderFacts DEF Outstanding, Orders
<1> QED BY <1>2, <1>3, <1>4, FollowMoves

LEMMA TakeMoves ==
  ASSUME MarketTypeOK, NEW l \in Legs, NEW n \in Nat, NEW f \in 0 .. n, Take(l, n, f)
  PROVE  /\ MarketTypeOK' /\ lost' = lost
         /\ live'[l].n = n /\ live'[l].got = f /\ ~live'[l].open
         /\ stray'[l] = stray[l] + Outstanding(live[l])
         /\ traded'[l] = traded[l] + f
         /\ Committed(l)' = Committed(l) + f
         /\ \A k \in Legs \ {l} : Untouched(k)
<1> DEFINE o == [n |-> n, got |-> f, open |-> FALSE]
<1>1. o \in Orders /\ o.got <= o.n /\ o.got = f /\ o.n = n /\ ~o.open /\ Outstanding(o) = 0
  BY DEF Orders, Outstanding
<1>2. Follow(l, o)
  BY DEF Take
<1> HIDE DEF o
<1>3. Committed(l) \in Nat
  BY OrderFacts
<1> QED BY <1>1, <1>2, <1>3, FollowMoves

LEMMA PostLostMoves ==
  ASSUME MarketTypeOK, NEW l \in Legs, NEW n \in Nat, PostLost(l, n)
  PROVE  /\ MarketTypeOK' /\ lost'
         /\ live' = live /\ traded' = traded
         /\ Committed(l)' \in {Committed(l), Committed(l) + n}
         /\ stray'[l] \in {stray[l], stray[l] + n}
         /\ \A k \in Legs \ {l} : Untouched(k)
<1>1. PICK s \in {0, n} : stray' = [stray EXCEPT ![l] = stray[l] + s]
  BY DEF PostLost
<1>2. stray \in [Legs -> Nat] /\ stray[l] \in Nat /\ traded[l] \in Nat /\ Outstanding(live[l]) \in Nat
  BY OrderFacts DEF MarketTypeOK
<1>3. stray' \in [Legs -> Nat] /\ stray'[l] = stray[l] + s
  BY <1>1, <1>2
<1>4. live' = live /\ traded' = traded /\ lost' = TRUE
  BY DEF PostLost
<1>5. MarketTypeOK'
  BY <1>3, <1>4 DEF MarketTypeOK
<1>6. \A k \in Legs \ {l} : Untouched(k)
  BY <1>1, <1>2, <1>4 DEF Untouched
<1>7. Committed(l)' = Committed(l) + s
  BY <1>2, <1>3, <1>4 DEF Committed
<1>8. Committed(l) \in Nat
  BY OrderFacts
<1> QED BY <1>1, <1>2, <1>3, <1>4, <1>5, <1>6, <1>7, <1>8

LEMMA CancelMoves ==
  ASSUME MarketTypeOK, NEW ls, Cancel(ls)
  PROVE  /\ MarketTypeOK' /\ lost' = lost /\ stray' = stray /\ traded' = traded
         /\ \A l \in Legs : /\ live'[l].n = live[l].n /\ live'[l].got = live[l].got
                            /\ live'[l].open => live[l].open /\ l \notin ls
                            /\ Committed(l)' <= Committed(l)
<1>1. live' = [l \in Legs |-> IF l \in ls THEN [live[l] EXCEPT !.open = FALSE] ELSE live[l]]
  BY DEF Cancel
<1>2. stray' = stray /\ traded' = traded /\ lost' = lost
  BY DEF Cancel
<1>3. ASSUME NEW l \in Legs
      PROVE  /\ live'[l] \in Orders
             /\ live'[l].n = live[l].n /\ live'[l].got = live[l].got
             /\ live'[l].open => live[l].open /\ l \notin ls
  BY <1>1, OrderFacts DEF Orders
<1>4. MarketTypeOK'
  <2>1. live' \in [Legs -> Orders]
    BY <1>1, <1>3
  <2>2. \A l \in Legs : live'[l].got <= live'[l].n /\ (live'[l].open => live'[l].got < live'[l].n)
    BY <1>3, OrderFacts
  <2> QED BY <1>2, <2>1, <2>2 DEF MarketTypeOK
<1>5. ASSUME NEW l \in Legs PROVE Committed(l)' <= Committed(l)
  <2>1. Outstanding(live'[l]) <= Outstanding(live[l]) /\ Outstanding(live'[l]) \in Nat
    BY <1>3, OrderFacts DEF Outstanding
  <2> QED BY <1>2, <2>1, OrderFacts DEF Committed
<1> QED BY <1>2, <1>3, <1>4, <1>5

LEMMA CancelLostMoves ==
  ASSUME MarketTypeOK, CancelLost
  PROVE  MarketTypeOK' /\ lost' /\ live' = live /\ stray' = stray /\ traded' = traded
BY DEF MarketTypeOK, CancelLost

\* A sweep fills no more than it asks for.
LEMMA ReduceFillsBound ==
  ASSUME MarketTypeOK, NEW l \in Legs, NEW n \in Nat, NEW f \in ReduceFills(l, n)
  PROVE  f \in 0 .. n
<1>1. Reducible[l] \in Nat /\ traded[l] \in Nat
  BY ReducibleAssumption, OrderFacts
<1> QED BY <1>1 DEF ReduceFills, Least, Monus

\* What the rest of the market may do to a leg: its orders fill or end, and
\* nothing new is committed.
Drifts(l) ==
  /\ live'[l].n = live[l].n /\ live[l].got <= live'[l].got
  /\ live'[l].open => live[l].open
  /\ ~live[l].open => live'[l] = live[l]
  /\ stray'[l] <= stray[l]
  /\ traded[l] <= traded'[l]
  /\ traded[l] - live[l].got <= traded'[l] - live'[l].got
  /\ stray[l] = 0 => traded'[l] - live'[l].got = traded[l] - live[l].got
  /\ traded'[l] + stray'[l] - live'[l].got <= traded[l] + stray[l] - live[l].got
  /\ Committed(l)' <= Committed(l)

LEMMA ElsewhereMoves ==
  ASSUME MarketTypeOK, Elsewhere
  PROVE  MarketTypeOK' /\ pc' = pc /\ job' = job /\ lost' = lost /\ \A l \in Legs : Drifts(l)
<1>1. PICK k \in Legs : OrderFills(k) \/ OrderExpires(k) \/ StrayFills(k)
  BY DEF Elsewhere
<1>2. live \in [Legs -> Orders] /\ stray \in [Legs -> Nat] /\ traded \in [Legs -> Nat] /\ lost \in BOOLEAN
  BY DEF MarketTypeOK
<1>3. /\ live[k] \in Orders /\ live[k].n \in Nat /\ live[k].got \in Nat /\ live[k].open \in BOOLEAN
      /\ live[k].got <= live[k].n /\ (live[k].open => live[k].got < live[k].n)
      /\ stray[k] \in Nat /\ traded[k] \in Nat
  BY OrderFacts
<1> DEFINE Others == /\ pc' = pc /\ job' = job /\ lost' = lost
                     /\ live' \in [Legs -> Orders] /\ stray' \in [Legs -> Nat] /\ traded' \in [Legs -> Nat]
                     /\ live'[k].got <= live'[k].n /\ (live'[k].open => live'[k].got < live'[k].n)
                     /\ \A l \in Legs \ {k} : Untouched(l)
<1>4. ASSUME OrderFills(k) PROVE Others /\ Drifts(k)
  <2>1. PICK f \in 1 .. (live[k].n - live[k].got) :
          /\ live' = [live EXCEPT ![k] = [live[k] EXCEPT !.got = live[k].got + f,
                                                         !.open = live[k].got + f < live[k].n]]
          /\ traded' = [traded EXCEPT ![k] = traded[k] + f]
    BY Zenon, <1>2, <1>3, <1>4 DEF OrderFills
  <2>2. live[k].open /\ stray' = stray /\ pc' = pc /\ job' = job /\ lost' = lost
    BY <1>4 DEF OrderFills
  <2>3. live'[k] = [n |-> live[k].n, got |-> live[k].got + f, open |-> live[k].got + f < live[k].n]
    BY <1>2, <1>3, <2>1 DEF Orders
  <2>4. traded'[k] = traded[k] + f /\ \A l \in Legs \ {k} : Untouched(l)
    BY <1>2, <2>1, <2>2 DEF Untouched
  <2>5. live'[k] \in Orders /\ live'[k].got = live[k].got + f /\ live'[k].n = live[k].n
    BY <1>3, <2>3 DEF Orders
  <2>10. live'[k].open <=> live[k].got + f < live[k].n
    <3> DEFINE o == [n |-> live[k].n, got |-> live[k].got + f, open |-> live[k].got + f < live[k].n]
    <3>1. o.open <=> live[k].got + f < live[k].n
      BY Zenon
    <3>2. live'[k] = o
      BY <2>3
    <3> HIDE DEF o
    <3> QED BY <3>1, <3>2
  <2>6. Outstanding(live[k]) = live[k].n - live[k].got /\ Outstanding(live'[k]) = live[k].n - live[k].got - f
    BY <1>3, <2>2, <2>5, <2>10 DEF Outstanding
  <2>7. Committed(k)' = Committed(k)
    BY <1>3, <2>2, <2>4, <2>6 DEF Committed
  <2>8. Committed(k) \in Nat
    BY OrderFacts
  <2>9. live' \in [Legs -> Orders] /\ stray' \in [Legs -> Nat] /\ traded' \in [Legs -> Nat]
    BY <1>2, <1>3, <2>1, <2>2, <2>3, <2>4, <2>5
  <2> QED BY <1>3, <2>1, <2>2, <2>4, <2>5, <2>7, <2>8, <2>9, <2>10 DEF Drifts
<1>5. ASSUME OrderExpires(k) PROVE Others /\ Drifts(k)
  <2>1. live' = [live EXCEPT ![k] = [live[k] EXCEPT !.open = FALSE]]
    BY <1>2, <1>3, <1>5 DEF OrderExpires
  <2>2. live[k].open /\ stray' = stray /\ traded' = traded /\ pc' = pc /\ job' = job /\ lost' = lost
    BY <1>5 DEF OrderExpires
  <2>3. live'[k] = [n |-> live[k].n, got |-> live[k].got, open |-> FALSE]
    BY <1>2, <1>3, <2>1 DEF Orders
  <2>4. \A l \in Legs \ {k} : Untouched(l)
    BY <1>2, <2>1, <2>2 DEF Untouched
  <2>5. live'[k] \in Orders /\ live'[k].got = live[k].got /\ live'[k].n = live[k].n /\ ~live'[k].open
    BY <1>3, <2>3 DEF Orders
  <2>6. Outstanding(live'[k]) = 0 /\ Outstanding(live[k]) \in Nat
    BY <2>5, OrderFacts DEF Outstanding
  <2>7. Committed(k)' <= Committed(k)
    BY <1>3, <2>2, <2>6 DEF Committed
  <2>8. live' \in [Legs -> Orders]
    BY <1>2, <2>1, <2>3, <2>5
  <2> QED BY <1>2, <1>3, <2>2, <2>4, <2>5, <2>7, <2>8 DEF Drifts
<1>6. ASSUME StrayFills(k) PROVE Others /\ Drifts(k)
  <2>1. PICK f \in 1 .. stray[k] : /\ stray' = [stray EXCEPT ![k] = stray[k] - f]
                                   /\ traded' = [traded EXCEPT ![k] = traded[k] + f]
    BY <1>6 DEF StrayFills
  <2>2. live' = live /\ pc' = pc /\ job' = job /\ lost' = lost
    BY <1>6 DEF StrayFills
  <2>3. stray'[k] = stray[k] - f /\ traded'[k] = traded[k] + f /\ stray[k] # 0
    BY <1>2, <1>3, <2>1
  <2>4. \A l \in Legs \ {k} : Untouched(l)
    BY <1>2, <2>1, <2>2 DEF Untouched
  <2>5. Outstanding(live[k]) \in Nat
    BY OrderFacts
  <2>6. Committed(k)' = Committed(k) /\ Committed(k) \in Nat
    BY <1>3, <2>2, <2>3, <2>5 DEF Committed
  <2>7. stray' \in [Legs -> Nat] /\ traded' \in [Legs -> Nat]
    BY <1>2, <1>3, <2>1
  <2> QED BY <1>2, <1>3, <2>2, <2>3, <2>4, <2>6, <2>7 DEF Drifts
<1>7. Others /\ Drifts(k)
  BY <1>1, <1>4, <1>5, <1>6
<1>8. MarketTypeOK'
  <2>1. \A l \in Legs : live'[l].got <= live'[l].n /\ (live'[l].open => live'[l].got < live'[l].n)
    BY <1>7, OrderFacts DEF Untouched
  <2> QED BY <1>2, <1>7, <2>1 DEF MarketTypeOK
<1>9. ASSUME NEW l \in Legs \ {k} PROVE Drifts(l)
  <2>1. Untouched(l)
    BY <1>7
  <2>2. Committed(l)' = Committed(l)
    BY <2>1 DEF Untouched, Committed
  <2> QED BY <2>1, <2>2, OrderFacts DEF Drifts, Untouched
<1> QED BY <1>7, <1>8, <1>9

\* A leg of which nothing is on the book stays as it is.
LEMMA CleanStays ==
  ASSUME MarketTypeOK, MarketTypeOK', NEW l \in Legs, Drifts(l), Clean(l)
  PROVE  Untouched(l) /\ Clean(l)'
<1>1. stray'[l] \in Nat /\ traded'[l] \in Nat
  BY DEF MarketTypeOK
<1>2. live'[l] = live[l] /\ stray'[l] = 0
  BY <1>1 DEF Drifts, Clean
<1>3. traded'[l] = traded[l]
  BY <1>1, <1>2, OrderFacts DEF Drifts, Clean
<1> QED BY <1>2, <1>3 DEF Clean, Untouched

-----------------------------------------------------------------------------
(* The market maker.                                                       *)

MakerStatuses == {"running", "empty_book", "caller_stopped", "error"}

MakerRecords ==
  [kind : {"maker"}, target : Nat, cap : Nat, inventory : Int,
   quoted : SUBSET Legs, known : SUBSET Legs, posts : Nat, missed : Nat,
   stopped : BOOLEAN, status : MakerStatuses]

MakerPcs == {"book", "yes", "no", "cap", "sell", "buy", "quote_yes", "quote_no", "done"}

\* A quote fills one share; one that was counted has filled, and an order that
\* is not a quote of the maker is off the book.
QuoteSound(l) ==
  /\ l \in job.quoted => live[l].n = 1
  /\ l \in job.known => l \in job.quoted /\ live[l].got = 1
  /\ l \notin job.quoted => ~live[l].open
  /\ ~lost => stray[l] = 0

\* What a quote may still add to the inventory
Pending(l) == IF l \in job.quoted \ job.known THEN 1 ELSE 0

\* Shares that traded, but for the fills that have not been read
Seen(l) == traded[l] - Unread(job, l)

\* The inventory is off by no more than the fills that were given up.
MakerAccount ==
  LET off == job.target + Seen("yes") - Seen("no") - job.inventory
  IN -job.missed <= off /\ off <= job.missed

\* Not even the fills of both quotes, read at once, lead beyond the cap.
MakerBounds ==
  /\ job.inventory + Pending("yes") <= job.cap
  /\ -job.cap <= job.inventory - Pending("no")
  /\ pc \in {"quote_yes", "quote_no"} => -job.cap < job.inventory /\ job.inventory < job.cap

MakerInv ==
  /\ job \in MakerRecords /\ pc \in MakerPcs /\ MarketTypeOK
  /\ job.target < job.cap
  /\ pc # "done" => ~lost /\ job.status = "running"
  /\ pc = "done" /\ job.status # "error" => ~lost /\ \A l \in Legs : ~live[l].open
  /\ \A l \in Legs : QuoteSound(l)
  /\ MakerBounds
  /\ ~lost => MakerAccount

LEMMA MakerFields ==
  ASSUME MakerInv
  PROVE  /\ job.kind = "maker" /\ job.target \in Nat /\ job.cap \in Nat /\ job.inventory \in Int
         /\ job.quoted \in SUBSET Legs /\ job.known \in SUBSET Legs
         /\ job.posts \in Nat /\ job.missed \in Nat /\ job.stopped \in BOOLEAN /\ job.status \in MakerStatuses
BY DEF MakerInv, MakerRecords

LEMMA SeenType ==
  ASSUME MakerInv, NEW l \in Legs
  PROVE  Seen(l) \in Int /\ Unread(job, l) \in Nat /\ Pending(l) \in 0 .. 1
BY OrderFacts DEF MakerInv, Seen, Unread, Pending

LEMMA MakerInitInv == MakerInit => MakerInv
<1> SUFFICES ASSUME MakerInit PROVE MakerInv
  OBVIOUS
<1>1. /\ MarketTypeOK /\ ~lost /\ \A l \in Legs : live[l] = NoOrder /\ Clean(l) /\ traded[l] = 0
  BY MarketInitFacts DEF MakerInit
<1>2. PICK t \in Targets, c \in Caps :
        /\ job = [kind |-> "maker", target |-> t, cap |-> c, inventory |-> t, quoted |-> {},
                  known |-> {}, posts |-> 0, missed |-> 0, stopped |-> FALSE, status |-> "running"]
        /\ job.target < job.cap
  BY DEF MakerInit, MakerJobs
<1>3. t \in Nat /\ c \in Nat
  BY MakerAssumption
<1>4. job \in MakerRecords
  <2>1. {} \in SUBSET Legs /\ t \in Int
    BY <1>3
  <2> QED BY <1>2, <1>3, <2>1 DEF MakerRecords, MakerStatuses
<1>5. /\ job.target = t /\ job.cap = c /\ job.inventory = t /\ job.quoted = {} /\ job.known = {}
      /\ job.missed = 0 /\ job.status = "running"
  BY <1>2
<1>6. pc = "book" /\ pc \in MakerPcs
  BY DEF MakerInit, MakerPcs
<1>7. \A l \in Legs : QuoteSound(l) /\ Pending(l) = 0 /\ Unread(job, l) = 0 /\ Seen(l) = 0
  BY <1>1, <1>5 DEF QuoteSound, Pending, Unread, Seen, Clean
<1>8. "yes" \in Legs /\ "no" \in Legs
  BY DEF Legs
<1>9. MakerBounds /\ MakerAccount
  BY <1>2, <1>3, <1>5, <1>6, <1>7, <1>8 DEF MakerBounds, MakerAccount
<1> QED BY <1>1, <1>2, <1>4, <1>5, <1>6, <1>7, <1>9 DEF MakerInv

\* Where the books say the same and the inventory moves with the shares that
\* traded, the account is as good as before.
LEMMA AccountStays ==
  ASSUME MakerInv, ~lost, NEW n \in Int,
         job'.target = job.target, job'.missed = job.missed, job'.inventory = job.inventory + n,
         Seen("yes")' \in Int, Seen("no")' \in Int,
         Seen("yes")' - Seen("no")' = Seen("yes") - Seen("no") + n
  PROVE  MakerAccount'
<1>1. MakerAccount /\ "yes" \in Legs /\ "no" \in Legs
  BY DEF MakerInv, Legs
<1>2. /\ job.target \in Nat /\ job.missed \in Nat /\ job.inventory \in Int
      /\ Seen("yes") \in Int /\ Seen("no") \in Int
  BY <1>1, MakerFields, SeenType
<1> QED BY <1>1, <1>2 DEF MakerAccount

\* Everything but the position of the maker and the orders that are open stays.
LEMMA QuotesUnmoved ==
  ASSUME MakerInv, job'.quoted = job.quoted, job'.known = job.known,
         stray' = stray, traded' = traded, lost' = lost,
         \A l \in Legs : /\ live'[l].n = live[l].n /\ live'[l].got = live[l].got
                         /\ live'[l].open => live[l].open
  PROVE  \A l \in Legs : QuoteSound(l)' /\ Seen(l)' = Seen(l) /\ Pending(l)' = Pending(l)
BY DEF MakerInv, QuoteSound, Seen, Unread, Pending

\* The maker ends, its quotes canceled or not.
LEMMA MakerFinishes ==
  ASSUME MakerInv, pc # "done", NEW s \in MakerStatuses, Finish(job, s),
         \/ Cancel(job.quoted)
         \/ UNCHANGED market /\ s = "error"
  PROVE  MakerInv'
<1>1. /\ pc' = "done" /\ job' = [job EXCEPT !.status = s] /\ job' \in MakerRecords
      /\ job'.quoted = job.quoted /\ job'.known = job.known /\ job'.target = job.target
      /\ job'.missed = job.missed /\ job'.inventory = job.inventory /\ job'.cap = job.cap
      /\ job'.status = s
  BY DEF MakerInv, MakerRecords, Finish
<1>2. MarketTypeOK /\ ~lost /\ "yes" \in Legs /\ "no" \in Legs
  BY DEF MakerInv, Legs
<1>3. /\ MarketTypeOK' /\ stray' = stray /\ traded' = traded /\ lost' = lost
      /\ \A l \in Legs : /\ live'[l].n = live[l].n /\ live'[l].got = live[l].got
                         /\ live'[l].open => live[l].open
  BY <1>2, CancelMoves, MarketKept DEF market
<1>4. \A l \in Legs : QuoteSound(l)' /\ Seen(l)' = Seen(l) /\ Pending(l)' = Pending(l)
  BY <1>1, <1>3, QuotesUnmoved
<1>5. MakerBounds'
  BY <1>1, <1>2, <1>4 DEF MakerInv, MakerBounds
<1>6. MakerAccount'
  <2>1. Seen("yes")' = Seen("yes") /\ Seen("no")' = Seen("no")
    BY <1>2, <1>4
  <2>2. job.inventory \in Int /\ Seen("yes") \in Int /\ Seen("no") \in Int
    BY <1>2, MakerFields, SeenType
  <2>3. job'.inventory = job.inventory + 0 /\ 0 \in Int
    BY <1>1, <2>2
  <2> QED BY <1>1, <1>2, <2>1, <2>2, <2>3, AccountStays
<1>7. s # "error" => \A l \in Legs : ~live'[l].open
  BY <1>2, CancelMoves DEF MakerInv, QuoteSound
<1>8. pc' \in MakerPcs /\ job'.target < job'.cap
  BY <1>1 DEF MakerInv, MakerPcs
<1> QED BY <1>1, <1>2, <1>3, <1>4, <1>5, <1>6, <1>7, <1>8 DEF MakerInv

\* The maker moves on and nothing else changes.
LEMMA MakerMovesOn ==
  ASSUME MakerInv, UNCHANGED <<job, live, stray, traded, lost>>, pc # "done",
         pc' \in MakerPcs \ {"done"},
         pc' \in {"quote_yes", "quote_no"} =>
           -job.cap < job.inventory /\ job.inventory < job.cap
  PROVE  MakerInv'
<1>1. MarketTypeOK' /\ \A l \in Legs : QuoteSound(l)'
  BY DEF MakerInv, MarketTypeOK, QuoteSound
<1>2. MakerBounds'
  BY DEF MakerInv, MakerBounds, Pending
<1>3. lost \/ MakerAccount'
  BY DEF MakerInv, MakerAccount, Seen, Unread
<1> QED BY <1>1, <1>2, <1>3 DEF MakerInv

LEMMA MakerBookInv == MakerInv /\ (MakerBook \/ MakerStop) => MakerInv'
<1> SUFFICES ASSUME MakerInv, MakerBook \/ MakerStop PROVE MakerInv'
  OBVIOUS
<1>1. CASE MakerBook /\ pc' = "yes" /\ UNCHANGED <<job, live, stray, traded, lost>>
  BY <1>1, MakerMovesOn DEF MakerBook, MakerPcs
<1>2. CASE MakerBook /\ Finish(job, "empty_book") /\ Cancel(job.quoted)
  <2>1. pc # "done" /\ Finish(job, "empty_book") /\ Cancel(job.quoted)
    BY <1>2 DEF MakerBook
  <2> QED BY <2>1, MakerFinishes DEF MakerStatuses
<1>3. CASE MakerStop
  <2>1. pc # "done" /\ Finish(job, "caller_stopped") /\ Cancel(job.quoted)
    BY <1>3 DEF MakerStop
  <2> QED BY <2>1, MakerFinishes DEF MakerStatuses
<1> QED BY <1>1, <1>2, <1>3 DEF MakerBook

\* A read moves the fill of a quote from the unread to the inventory.
LEMMA CountedMoves ==
  ASSUME MakerInv, ~lost, NEW l \in Legs, job' = Counted(l, job), UNCHANGED market
  PROVE  /\ job' \in MakerRecords
         /\ job'.quoted = job.quoted /\ job'.target = job.target /\ job'.missed = job.missed
         /\ job'.cap = job.cap /\ job'.status = job.status
         /\ \A k \in Legs : QuoteSound(k)'
         /\ \A k \in Legs \ {l} : Seen(k)' = Seen(k) /\ Pending(k)' = Pending(k)
         /\ \/ job'.inventory = job.inventory /\ Seen(l)' = Seen(l) /\ Pending(l)' = Pending(l)
            \/ /\ job'.inventory = job.inventory + Signed(l)
               /\ Seen(l)' = Seen(l) + 1 /\ Pending(l) = 1 /\ Pending(l)' = 0
<1>1. live' = live /\ stray' = stray /\ traded' = traded /\ lost' = lost
  BY DEF market
<1>2. CASE l \in job.quoted \ job.known /\ Complete(live[l])
  <2>1. job' = [job EXCEPT !.known = job.known \cup {l}, !.inventory = job.inventory + Signed(l)]
    BY <1>2 DEF Counted
  <2>2. Signed(l) \in Int
    BY DEF Signed
  <2>3. /\ job' \in MakerRecords
        /\ job'.quoted = job.quoted /\ job'.target = job.target /\ job'.missed = job.missed
        /\ job'.cap = job.cap /\ job'.status = job.status /\ job'.known = job.known \cup {l}
        /\ job'.inventory = job.inventory + Signed(l)
    <3>1. job \in MakerRecords
      BY DEF MakerInv
    <3>2. job.known \cup {l} \in SUBSET Legs /\ job.inventory + Signed(l) \in Int
      BY <2>2, MakerFields
    <3> QED BY <2>1, <3>1, <3>2 DEF MakerRecords
  <2>4. live[l].got = 1 /\ live[l].n = 1
    BY <1>2 DEF Complete, MakerInv, QuoteSound
  <2>5. \A k \in Legs : QuoteSound(k)'
    BY <1>1, <1>2, <2>3, <2>4 DEF MakerInv, QuoteSound
  <2>6. \A k \in Legs \ {l} : Seen(k)' = Seen(k) /\ Pending(k)' = Pending(k)
    BY <1>1, <2>3 DEF Seen, Unread, Pending
  <2>7. traded[l] \in Nat
    BY OrderFacts DEF MakerInv
  <2>8. Seen(l)' = Seen(l) + 1 /\ Pending(l) = 1 /\ Pending(l)' = 0
    BY <1>1, <1>2, <2>3, <2>4, <2>7 DEF Seen, Unread, Pending
  <2> QED BY <2>3, <2>5, <2>6, <2>8
<1>3. CASE ~(l \in job.quoted \ job.known /\ Complete(live[l]))
  <2>1. job' = job
    BY <1>3 DEF Counted
  <2>2. \A k \in Legs : QuoteSound(k)' /\ Seen(k)' = Seen(k) /\ Pending(k)' = Pending(k)
    BY <1>1, <2>1 DEF MakerInv, QuoteSound, Seen, Unread, Pending
  <2> QED BY <2>1, <2>2 DEF MakerInv
<1> QED BY <1>2, <1>3

LEMMA MakerReadInv ==
  ASSUME MakerInv, NEW l \in Legs, NEW next \in {"no", "cap"}, MakerRead(l, next)
  PROVE  MakerInv'
<1>1. pc = l /\ pc' = next /\ job' = Counted(l, job) /\ UNCHANGED market
  BY DEF MakerRead
<1>2. pc # "done" /\ pc' \in MakerPcs \ {"done", "quote_yes", "quote_no"} /\ ~lost
  BY <1>1 DEF Legs, MakerPcs, MakerInv
<1>3. /\ job' \in MakerRecords
      /\ job'.quoted = job.quoted /\ job'.target = job.target /\ job'.missed = job.missed
      /\ job'.cap = job.cap /\ job'.status = job.status
      /\ \A k \in Legs : QuoteSound(k)'
      /\ \A k \in Legs \ {l} : Seen(k)' = Seen(k) /\ Pending(k)' = Pending(k)
  BY <1>1, <1>2, CountedMoves
<1>9. job'.target = job.target /\ job'.missed = job.missed /\ job'.cap = job.cap
  BY <1>3
<1>10. pc' \notin {"quote_yes", "quote_no"} /\ ~lost
  BY <1>2
<1>4. \/ job'.inventory = job.inventory /\ Seen(l)' = Seen(l) /\ Pending(l)' = Pending(l)
      \/ /\ job'.inventory = job.inventory + Signed(l)
         /\ Seen(l)' = Seen(l) + 1 /\ Pending(l) = 1 /\ Pending(l)' = 0
  BY <1>1, <1>2, CountedMoves
<1>5. MarketTypeOK' /\ lost' = lost
  BY <1>1, MarketKept DEF MakerInv
<1>6. /\ job.inventory \in Int /\ job.cap \in Nat
      /\ Seen("yes") \in Int /\ Seen("no") \in Int
      /\ Pending("yes") \in 0 .. 1 /\ Pending("no") \in 0 .. 1
  BY MakerFields, SeenType DEF Legs
<1>7. /\ job.inventory + Pending("yes") <= job.cap
      /\ -job.cap <= job.inventory - Pending("no")
  BY DEF MakerInv, MakerBounds
<1>8. MakerBounds' /\ MakerAccount'
  <2>1. CASE l = "yes"
    <3>1. Seen("no")' = Seen("no") /\ Pending("no")' = Pending("no")
      BY <1>3, <2>1 DEF Legs
    <3>2. Signed(l) = 1
      BY <2>1 DEF Signed
    <3>3. MakerBounds'
      <4>1. /\ job'.inventory + Pending("yes")' = job.inventory + Pending("yes")
            /\ job'.inventory >= job.inventory /\ Pending("no")' = Pending("no")
            /\ job'.inventory \in Int /\ Pending("yes")' \in 0 .. 1 /\ Pending("no")' \in 0 .. 1
        BY <1>4, <1>6, <2>1, <3>1, <3>2
      <4>2. job'.inventory + Pending("yes")' <= job'.cap
        BY <1>9, <1>6, <1>7, <4>1
      <4>3. -job'.cap <= job'.inventory - Pending("no")'
        BY <1>9, <1>6, <1>7, <4>1
      <4> QED BY <1>10, <4>2, <4>3 DEF MakerBounds
    <3>4. PICK n \in {0, 1} : job'.inventory = job.inventory + n /\ Seen("yes")' = Seen("yes") + n
      BY <1>4, <1>6, <2>1, <3>2
    <3>5. Seen("yes")' \in Int /\ Seen("no")' \in Int
      BY <1>6, <3>1, <3>4
    <3>6. Seen("yes")' - Seen("no")' = Seen("yes") - Seen("no") + n
      BY <1>6, <3>1, <3>4
    <3>8. n \in Int
      BY <3>4
    <3>7. MakerAccount'
      BY <1>9, <1>10, <3>4, <3>5, <3>6, <3>8, AccountStays
    <3> QED BY <3>3, <3>7
  <2>2. CASE l = "no"
    <3>1. Seen("yes")' = Seen("yes") /\ Pending("yes")' = Pending("yes")
      BY <1>3, <2>2 DEF Legs
    <3>2. Signed(l) = -1
      BY <2>2 DEF Signed
    <3>3. MakerBounds'
      <4>1. /\ job'.inventory - Pending("no")' = job.inventory - Pending("no")
            /\ job'.inventory <= job.inventory /\ Pending("yes")' = Pending("yes")
            /\ job'.inventory \in Int /\ Pending("yes")' \in 0 .. 1 /\ Pending("no")' \in 0 .. 1
        BY <1>4, <1>6, <2>2, <3>1, <3>2
      <4>2. job'.inventory + Pending("yes")' <= job'.cap
        BY <1>9, <1>6, <1>7, <4>1
      <4>3. -job'.cap <= job'.inventory - Pending("no")'
        BY <1>9, <1>6, <1>7, <4>1
      <4> QED BY <1>10, <4>2, <4>3 DEF MakerBounds
    <3>4. PICK n \in {0, -1} : job'.inventory = job.inventory + n /\ Seen("no")' = Seen("no") - n
      BY <1>4, <1>6, <2>2, <3>2
    <3>5. Seen("yes")' \in Int /\ Seen("no")' \in Int
      BY <1>6, <3>1, <3>4
    <3>6. Seen("yes")' - Seen("no")' = Seen("yes") - Seen("no") + n
      BY <1>6, <3>1, <3>4
    <3>8. n \in Int
      BY <3>4
    <3>7. MakerAccount'
      BY <1>9, <1>10, <3>4, <3>5, <3>6, <3>8, AccountStays
    <3> QED BY <3>3, <3>7
  <2> QED BY <2>1, <2>2 DEF Legs
<1> QED BY <1>2, <1>3, <1>5, <1>8 DEF MakerInv

\* A quote that is given up leaves the book, and its unread fills are missed.
LEMMA GivenUpMoves ==
  ASSUME MakerInv, ~lost, NEW l \in Legs, job' = GivenUp(job, l),
         Cancel({l}) \/ Cancel({l} \cap job.quoted)
  PROVE  /\ job' \in MakerRecords /\ MarketTypeOK' /\ lost' = lost
         /\ job'.target = job.target /\ job'.cap = job.cap /\ job'.inventory = job.inventory
         /\ job'.status = job.status
         /\ \A k \in Legs : QuoteSound(k)'
         /\ Pending(l)' = 0 /\ \A k \in Legs \ {l} : Pending(k)' = Pending(k)
         /\ MakerAccount'
<1>1. MarketTypeOK /\ job \in MakerRecords /\ "yes" \in Legs /\ "no" \in Legs
  BY DEF MakerInv, Legs
<1>2. Unread(job, l) \in Nat /\ job.missed \in Nat
  BY SeenType, MakerFields
<1>3. /\ job' \in MakerRecords
      /\ job'.target = job.target /\ job'.cap = job.cap /\ job'.inventory = job.inventory
      /\ job'.status = job.status
      /\ job'.quoted = job.quoted \ {l} /\ job'.known = job.known \ {l}
      /\ job'.missed = job.missed + Unread(job, l)
  <2>1. job' = [job EXCEPT !.quoted = job.quoted \ {l}, !.known = job.known \ {l},
                           !.missed = job.missed + Unread(job, l)]
    BY DEF GivenUp
  <2>2. /\ job.quoted \ {l} \in SUBSET Legs /\ job.known \ {l} \in SUBSET Legs
        /\ job.missed + Unread(job, l) \in Nat
    BY <1>2, MakerFields
  <2> QED BY ZenonT(60), <1>1, <2>1, <2>2 DEF MakerRecords
<1>4. PICK ls \in {{l}, {l} \cap job.quoted} : Cancel(ls)
  OBVIOUS
<1>5. /\ MarketTypeOK' /\ lost' = lost /\ stray' = stray /\ traded' = traded
      /\ \A k \in Legs : /\ live'[k].n = live[k].n /\ live'[k].got = live[k].got
                         /\ live'[k].open => live[k].open /\ k \notin ls
  BY <1>1, <1>4, CancelMoves
<1>6. ASSUME NEW k \in Legs PROVE QuoteSound(k)'
  BY <1>3, <1>4, <1>5 DEF MakerInv, QuoteSound
<1>7. Pending(l)' = 0 /\ Unread(job, l)' = 0
  BY <1>3 DEF Pending, Unread
<1>8. \A k \in Legs \ {l} : Pending(k)' = Pending(k) /\ Seen(k)' = Seen(k)
  BY <1>3, <1>5 DEF Pending, Unread, Seen
<1>9. traded[l] \in Nat
  BY <1>1, OrderFacts
<1>10. Seen(l)' = Seen(l) + Unread(job, l)
  BY <1>2, <1>5, <1>7, <1>9 DEF Seen
<1>11. MakerAccount'
  <2>1. MakerAccount /\ job.target \in Nat /\ job.inventory \in Int
    BY MakerFields DEF MakerInv
  <2>2. Seen("yes") \in Int /\ Seen("no") \in Int
    BY <1>1, SeenType
  <2> DEFINE off == job.target + Seen("yes") - Seen("no") - job.inventory
             now == job'.target + Seen("yes")' - Seen("no")' - job'.inventory
  <2>3. -job.missed <= off /\ off <= job.missed /\ off \in Int
    BY <2>1, <2>2 DEF MakerAccount
  <2>4. now = off + Unread(job, l) \/ now = off - Unread(job, l)
    <3>1. CASE l = "yes"
      <4>1. Seen("no")' = Seen("no") /\ Seen("yes")' = Seen("yes") + Unread(job, l)
        BY <1>1, <1>8, <1>10, <3>1
      <4> QED BY <1>2, <1>3, <2>1, <2>2, <4>1
    <3>2. CASE l = "no"
      <4>1. Seen("yes")' = Seen("yes") /\ Seen("no")' = Seen("no") + Unread(job, l)
        BY <1>1, <1>8, <1>10, <3>2
      <4> QED BY <1>2, <1>3, <2>1, <2>2, <4>1
    <3> QED BY <3>1, <3>2 DEF Legs
  <2>5. -job'.missed <= now /\ now <= job'.missed
    <3> HIDE DEF off, now
    <3> QED BY <1>2, <1>3, <2>3, <2>4
  <2> QED BY <2>5 DEF MakerAccount
<1> QED BY <1>3, <1>5, <1>6, <1>7, <1>8, <1>11

LEMMA MakerCappedInv == MakerInv /\ MakerCapped => MakerInv'
<1> SUFFICES ASSUME MakerInv, MakerCapped PROVE MakerInv'
  OBVIOUS
<1>0. /\ pc = "cap" /\ ~lost /\ job.status = "running" /\ "yes" \in Legs /\ "no" \in Legs
      /\ job.target < job.cap
      /\ job.inventory + Pending("yes") <= job.cap /\ -job.cap <= job.inventory - Pending("no")
  BY DEF MakerCapped, MakerInv, MakerBounds, Legs
<1>1. /\ job.inventory \in Int /\ job.cap \in Nat /\ job.target \in Nat
      /\ Pending("yes") \in 0 .. 1 /\ Pending("no") \in 0 .. 1
  BY <1>0, MakerFields, SeenType
<1>2. ASSUME NEW l \in Legs, job' = GivenUp(job, l), pc' \in {"sell", "buy"},
             Cancel({l} \cap job.quoted)
      PROVE  MakerInv'
  <2>1. /\ job' \in MakerRecords /\ MarketTypeOK' /\ lost' = lost
        /\ job'.target = job.target /\ job'.cap = job.cap /\ job'.inventory = job.inventory
        /\ job'.status = job.status
        /\ \A k \in Legs : QuoteSound(k)'
        /\ MakerAccount'
    BY <1>0, <1>2, GivenUpMoves
  <2>2. Pending(l)' = 0 /\ \A k \in Legs \ {l} : Pending(k)' = Pending(k)
    BY <1>0, <1>2, GivenUpMoves
  <2>3. Pending("yes")' \in {0, Pending("yes")} /\ Pending("no")' \in {0, Pending("no")}
    BY <1>0, <2>2
  <2>4. job'.inventory + Pending("yes")' <= job'.cap
    BY <1>0, <1>1, <2>1, <2>3
  <2>5. -job'.cap <= job'.inventory - Pending("no")'
    BY <1>0, <1>1, <2>1, <2>3
  <2>6. pc' \in MakerPcs \ {"done", "quote_yes", "quote_no"}
    BY <1>2 DEF MakerPcs
  <2>7. MakerBounds'
    BY <2>4, <2>5, <2>6 DEF MakerBounds
  <2> QED BY <1>0, <2>1, <2>6, <2>7 DEF MakerInv
<1>3. CASE Cancel({"yes"} \cap job.quoted) /\ pc' = "sell" /\ job' = GivenUp(job, "yes")
  BY <1>0, <1>2, <1>3
<1>4. CASE Cancel({"no"} \cap job.quoted) /\ pc' = "buy" /\ job' = GivenUp(job, "no")
  BY <1>0, <1>2, <1>4
<1>5. CASE /\ ~AtCap(job, 1) /\ ~AtCap(job, -1) /\ pc' = "quote_yes"
           /\ UNCHANGED <<job, live, stray, traded, lost>>
  <2>1. -job.cap < job.inventory /\ job.inventory < job.cap
    <3>1. 1 * job.inventory = job.inventory /\ (-1) * job.inventory = -job.inventory
      BY <1>1
    <3>2. ~(job.inventory >= job.cap) /\ ~(-job.inventory >= job.cap)
      BY <1>5, <3>1 DEF AtCap
    <3> QED BY <1>1, <3>2
  <2>2. pc' \in MakerPcs \ {"done"}
    BY <1>5 DEF MakerPcs
  <2> QED BY <1>0, <1>5, <2>1, <2>2, MakerMovesOn
<1> QED BY <1>3, <1>4, <1>5 DEF MakerCapped

\* Flattening moves the inventory by what trades, and never past the target.
LEMMA MakerFlattenInv == MakerInv /\ MakerFlatten => MakerInv'
<1> SUFFICES ASSUME MakerInv, MakerFlatten PROVE MakerInv'
  OBVIOUS
<1>0. /\ ~lost /\ job.status = "running" /\ "yes" \in Legs /\ "no" \in Legs
      /\ job.target < job.cap /\ MarketTypeOK /\ job \in MakerRecords /\ pc' = "book"
      /\ job.inventory + Pending("yes") <= job.cap /\ -job.cap <= job.inventory - Pending("no")
  BY DEF MakerFlatten, MakerInv, MakerBounds, Legs
<1>1. /\ job.inventory \in Int /\ job.cap \in Nat /\ job.target \in Nat
      /\ Pending("yes") \in 0 .. 1 /\ Pending("no") \in 0 .. 1
      /\ Seen("yes") \in Int /\ Seen("no") \in Int
  BY <1>0, MakerFields, SeenType
<1>2. PICK l \in Legs, f \in Nat :
        /\ traded' = [traded EXCEPT ![l] = traded[l] + f]
        /\ job' = [job EXCEPT !.inventory = job.inventory + Signed(l) * f]
        /\ UNCHANGED <<live, stray, lost>>
        /\ \/ l = "no" /\ f <= Monus(job.inventory, job.target)
           \/ l = "yes" /\ f <= Monus(job.target, job.inventory)
  <2>1. Monus(job.inventory, job.target) \in Nat /\ Monus(job.target, job.inventory) \in Nat
    BY <1>1 DEF Monus
  <2>2. CASE Flatten("no", Monus(job.inventory, job.target))
    <3>1. PICK f \in 0 .. Monus(job.inventory, job.target) :
            /\ traded' = [traded EXCEPT !["no"] = traded["no"] + f]
            /\ job' = [job EXCEPT !.inventory = job.inventory + Signed("no") * f]
            /\ UNCHANGED <<live, stray, lost>>
      BY <2>2 DEF Flatten
    <3>2. f \in Nat /\ f <= Monus(job.inventory, job.target)
      BY <2>1
    <3> QED BY <1>0, <3>1, <3>2
  <2>3. CASE Flatten("yes", Monus(job.target, job.inventory))
    <3>1. PICK f \in 0 .. Monus(job.target, job.inventory) :
            /\ traded' = [traded EXCEPT !["yes"] = traded["yes"] + f]
            /\ job' = [job EXCEPT !.inventory = job.inventory + Signed("yes") * f]
            /\ UNCHANGED <<live, stray, lost>>
      BY <2>3 DEF Flatten
    <3>2. f \in Nat /\ f <= Monus(job.target, job.inventory)
      BY <2>1
    <3> QED BY <1>0, <3>1, <3>2
  <2> QED BY <2>2, <2>3 DEF MakerFlatten
<1> DEFINE n == Signed(l) * f
<1>3. n \in Int /\ (l = "no" => n = -f) /\ (l = "yes" => n = f)
  BY DEF Signed
<1> HIDE DEF n
<1>4. job' = [job EXCEPT !.inventory = job.inventory + n] /\ job.inventory + n \in Int
  BY <1>1, <1>2, <1>3 DEF n
<1>5. /\ job' \in MakerRecords /\ job'.target = job.target /\ job'.cap = job.cap
      /\ job'.quoted = job.quoted /\ job'.known = job.known /\ job'.missed = job.missed
      /\ job'.inventory = job.inventory + n /\ job'.status = job.status
  BY <1>0, <1>4 DEF MakerRecords
<1>6. traded \in [Legs -> Nat] /\ traded[l] \in Nat
  BY <1>0 DEF MarketTypeOK
<1>7. traded' \in [Legs -> Nat] /\ traded'[l] = traded[l] + f /\ \A k \in Legs \ {l} : traded'[k] = traded[k]
  BY <1>2, <1>6
<1>8. MarketTypeOK'
  BY <1>0, <1>2, <1>7 DEF MarketTypeOK
<1>9. \A k \in Legs : /\ QuoteSound(k)' /\ Pending(k)' = Pending(k) /\ Unread(job, k)' = Unread(job, k)
  BY <1>2, <1>5 DEF MakerInv, QuoteSound, Pending, Unread
<1>10. Unread(job, l) \in Nat
  BY SeenType
<1>11. Seen(l)' = Seen(l) + f /\ \A k \in Legs \ {l} : Seen(k)' = Seen(k)
  BY <1>6, <1>7, <1>9, <1>10 DEF Seen
<1>12. MakerAccount'
  <2>1. CASE l = "yes"
    <3>1. Seen("yes")' = Seen("yes") + n /\ Seen("no")' = Seen("no")
      BY <1>0, <1>3, <1>11, <2>1
    <3>2. Seen("yes")' \in Int /\ Seen("no")' \in Int
      BY <1>1, <1>3, <3>1
    <3>3. Seen("yes")' - Seen("no")' = Seen("yes") - Seen("no") + n
      BY <1>1, <1>3, <3>1
    <3> QED BY <1>0, <1>3, <1>5, <3>2, <3>3, AccountStays
  <2>2. CASE l = "no"
    <3>1. Seen("no")' = Seen("no") - n /\ Seen("yes")' = Seen("yes")
      BY <1>0, <1>1, <1>3, <1>11, <2>2
    <3>2. Seen("yes")' \in Int /\ Seen("no")' \in Int
      BY <1>1, <1>3, <3>1
    <3>3. Seen("yes")' - Seen("no")' = Seen("yes") - Seen("no") + n
      BY <1>1, <1>3, <3>1
    <3> QED BY <1>0, <1>3, <1>5, <3>2, <3>3, AccountStays
  <2> QED BY <2>1, <2>2 DEF Legs
<1>13. MakerBounds'
  <2>1. Pending("yes")' = Pending("yes") /\ Pending("no")' = Pending("no")
    BY <1>0, <1>9
  <2>2. CASE l = "no"
    <3>1. n = 0 \/ (n < 0 /\ job.target <= job.inventory + n)
      BY <1>1, <1>2, <1>3, <2>2 DEF Monus
    <3>2. job'.inventory + Pending("yes")' <= job'.cap
      BY <1>0, <1>1, <1>3, <1>5, <2>1, <3>1
    <3>3. -job'.cap <= job'.inventory - Pending("no")'
      BY <1>0, <1>1, <1>3, <1>5, <2>1, <3>1
    <3> QED BY <1>0, <3>2, <3>3 DEF MakerBounds
  <2>3. CASE l = "yes"
    <3>1. n = 0 \/ (n > 0 /\ job.inventory + n <= job.target)
      BY <1>1, <1>2, <1>3, <2>3 DEF Monus
    <3>2. job'.inventory + Pending("yes")' <= job'.cap
      BY <1>0, <1>1, <1>3, <1>5, <2>1, <3>1
    <3>3. -job'.cap <= job'.inventory - Pending("no")'
      BY <1>0, <1>1, <1>3, <1>5, <2>1, <3>1
    <3> QED BY <1>0, <3>2, <3>3 DEF MakerBounds
  <2> QED BY <2>2, <2>3 DEF Legs
<1> QED BY <1>0, <1>2, <1>5, <1>8, <1>9, <1>12, <1>13 DEF MakerInv, MakerPcs

\* A quote is kept, given up, or posted where there was none.
LEMMA MakerQuoteInv ==
  ASSUME MakerInv, NEW l \in Legs, NEW next \in {"quote_no", "book"}, MakerQuote(l, next)
  PROVE  MakerInv'
<1>0. /\ pc = Quoting(l) /\ pc \in {"quote_yes", "quote_no"} /\ ~lost /\ job.status = "running"
      /\ MarketTypeOK /\ "yes" \in Legs /\ "no" \in Legs /\ job \in MakerRecords
      /\ job.target < job.cap
  <2>1. pc = Quoting(l) /\ pc \in {"quote_yes", "quote_no"}
    BY DEF MakerQuote, Quoting
  <2> QED BY <2>1 DEF MakerInv, Legs
<1>1. /\ job.inventory \in Int /\ job.cap \in Nat /\ job.target \in Nat
      /\ Pending("yes") \in 0 .. 1 /\ Pending("no") \in 0 .. 1
      /\ Seen("yes") \in Int /\ Seen("no") \in Int
  BY <1>0, MakerFields, SeenType
<1>2. /\ -job.cap < job.inventory /\ job.inventory < job.cap
      /\ job.inventory + Pending("yes") <= job.cap /\ -job.cap <= job.inventory - Pending("no")
  BY <1>0 DEF MakerInv, MakerBounds
<1>3. CASE pc' = next /\ UNCHANGED <<job, live, stray, traded, lost>>
  <2>1. pc # "done" /\ pc' \in MakerPcs \ {"done"}
    BY <1>0, <1>3 DEF MakerPcs
  <2> QED BY <1>2, <1>3, <2>1, MakerMovesOn
<1>4. CASE Cancel({l}) /\ pc' = Quoting(l) /\ job' = GivenUp(job, l)
  <2>1. /\ job' \in MakerRecords /\ MarketTypeOK' /\ lost' = lost
        /\ job'.target = job.target /\ job'.cap = job.cap /\ job'.inventory = job.inventory
        /\ job'.status = job.status
        /\ \A k \in Legs : QuoteSound(k)'
        /\ MakerAccount'
    BY <1>0, <1>4, GivenUpMoves
  <2>2. Pending(l)' = 0 /\ \A k \in Legs \ {l} : Pending(k)' = Pending(k)
    BY <1>0, <1>4, GivenUpMoves
  <2>3. Pending("yes")' \in {0, Pending("yes")} /\ Pending("no")' \in {0, Pending("no")}
    BY <1>0, <2>2
  <2>4. job'.inventory + Pending("yes")' <= job'.cap /\ -job'.cap <= job'.inventory - Pending("no")'
    <3>1. Pending("yes")' <= Pending("yes") /\ Pending("no")' <= Pending("no")
      BY <1>1, <2>3
    <3>2. Pending("yes")' \in Int /\ Pending("no")' \in Int
      BY <1>1, <2>3
    <3>3. job'.inventory = job.inventory /\ job'.cap = job.cap
      BY <2>1
    <3>4. job.inventory + Pending("yes")' <= job.cap /\ -job.cap <= job.inventory - Pending("no")'
      BY <1>1, <1>2, <3>1, <3>2
    <3> QED BY <3>3, <3>4
  <2>6. pc' \in MakerPcs /\ pc' # "done"
    BY <1>0, <1>4 DEF MakerPcs
  <2>7. MakerBounds'
    BY <1>2, <2>1, <2>4 DEF MakerBounds
  <2> QED BY <1>0, <2>1, <2>6, <2>7 DEF MakerInv
<1>5. CASE /\ l \notin job.quoted /\ Rest(l, 1) /\ pc' = next
           /\ job' = [job EXCEPT !.quoted = job.quoted \cup {l}, !.posts = job.posts + 1]
  <2>1. /\ job' \in MakerRecords
        /\ job'.target = job.target /\ job'.cap = job.cap /\ job'.inventory = job.inventory
        /\ job'.status = job.status /\ job'.known = job.known /\ job'.missed = job.missed
        /\ job'.quoted = job.quoted \cup {l}
    <3>1. job.quoted \in SUBSET Legs /\ job.posts \in Nat
      BY MakerFields
    <3>2. job.quoted \cup {l} \in SUBSET Legs
      BY <3>1
    <3>3. job.posts + 1 \in Nat
      BY <3>1
    <3> QED BY <1>0, <1>5, <3>2, <3>3 DEF MakerRecords
  <2>2. Outstanding(live[l]) = 0 /\ stray[l] = 0 /\ l \notin job.known /\ traded[l] \in Nat
    <3>1. ~live[l].open /\ stray[l] = 0 /\ l \notin job.known
      BY <1>0, <1>5 DEF MakerInv, QuoteSound
    <3> QED BY <1>0, <3>1, OrderFacts DEF Outstanding
  <2>3. /\ MarketTypeOK' /\ lost' = lost
        /\ live'[l].n = 1 /\ live'[l].got \in 0 .. 1
        /\ stray'[l] = stray[l] + Outstanding(live[l])
        /\ traded'[l] = traded[l] + live'[l].got
        /\ \A k \in Legs \ {l} : Untouched(k)
    <3>1. Rest(l, 1) /\ 1 \in Nat
      BY <1>5
    <3> QED BY <1>0, <3>1, RestMoves
  <2>15. l \notin job.quoted /\ l \in job'.quoted /\ l \notin job'.known
    BY <1>5, <2>1, <2>2
  <2>16. stray'[l] = 0 /\ live'[l].got \in Nat
    BY <2>2, <2>3
  <2>4. QuoteSound(l)' /\ Pending(l) = 0 /\ Pending(l)' = 1
    BY <2>3, <2>15, <2>16 DEF QuoteSound, Pending
  <2>5. \A k \in Legs \ {l} :
          QuoteSound(k)' /\ Pending(k)' = Pending(k) /\ Seen(k)' = Seen(k)
    BY <2>1, <2>3 DEF MakerInv, QuoteSound, Pending, Seen, Unread, Untouched
  <2>6. Seen(l)' = Seen(l)
    <3>1. Unread(job, l) = 0 /\ Unread(job, l)' = live'[l].got
      BY <2>15 DEF Unread
    <3> QED BY <2>2, <2>3, <2>16, <3>1 DEF Seen
  <2>7. Seen("yes")' = Seen("yes") /\ Seen("no")' = Seen("no")
    BY <1>0, <2>5, <2>6
  <2>8. MakerAccount'
    <3>1. job'.inventory = job.inventory + 0
      BY <1>1, <2>1
    <3>2. /\ job'.target = job.target /\ job'.missed = job.missed
          /\ Seen("yes")' \in Int /\ Seen("no")' \in Int
      BY <1>1, <2>1, <2>7
    <3>3. Seen("yes")' - Seen("no")' = Seen("yes") - Seen("no") + 0
      BY <1>1, <2>7
    <3>4. 0 \in Int /\ ~lost
      BY <1>0
    <3> QED BY <3>1, <3>2, <3>3, <3>4, AccountStays
  <2>9. Pending("yes")' \in {1, Pending("yes")} /\ Pending("no")' \in {1, Pending("no")}
    BY <1>0, <2>4, <2>5
  <2>10. job'.inventory + Pending("yes")' <= job'.cap /\ -job'.cap <= job'.inventory - Pending("no")'
    <3>1. Pending("yes")' \in 0 .. 1 /\ Pending("no")' \in 0 .. 1
      BY <1>1, <2>9
    <3>2. job'.inventory = job.inventory /\ job'.cap = job.cap
      BY <2>1
    <3>3. job.inventory + Pending("yes")' <= job.cap /\ -job.cap <= job.inventory - Pending("no")'
      BY <1>1, <1>2, <3>1
    <3> QED BY <3>2, <3>3
  <2>12. MakerBounds'
    BY <1>2, <2>1, <2>10 DEF MakerBounds
  <2>13. \A k \in Legs : QuoteSound(k)'
    BY <2>4, <2>5
  <2>14. pc' \in MakerPcs /\ pc' # "done"
    BY <1>5 DEF MakerPcs
  <2> QED BY <1>0, <2>1, <2>3, <2>8, <2>12, <2>13, <2>14 DEF MakerInv
<1> QED BY <1>3, <1>4, <1>5 DEF MakerQuote

\* A call that throws ends the run; an answer may be lost.
LEMMA MakerThrowsInv == MakerInv /\ MakerThrows => MakerInv'
<1> SUFFICES ASSUME MakerInv, MakerThrows PROVE MakerInv'
  OBVIOUS
<1>0. pc # "done" /\ Finish(job, "error") /\ "error" \in MakerStatuses /\ MarketTypeOK
  BY DEF MakerThrows, MakerStatuses, MakerInv
<1>1. CASE UNCHANGED market
  BY <1>0, <1>1, MakerFinishes
<1>2. CASE CancelLost \/ \E l \in Legs : PostLost(l, 1)
  <2>1. MarketTypeOK' /\ lost' /\ live' = live
    BY <1>0, <1>2, CancelLostMoves, PostLostMoves
  <2>2. /\ pc' = "done" /\ job' \in MakerRecords /\ job'.status = "error"
        /\ job'.quoted = job.quoted /\ job'.known = job.known /\ job'.target = job.target
        /\ job'.inventory = job.inventory /\ job'.cap = job.cap
    BY <1>0 DEF MakerInv, MakerRecords, Finish
  <2>3. \A l \in Legs : QuoteSound(l)' /\ Pending(l)' = Pending(l)
    BY <2>1, <2>2 DEF MakerInv, QuoteSound, Pending
  <2>4. MakerBounds'
    BY <2>2, <2>3 DEF MakerInv, MakerBounds, Legs
  <2> QED BY <2>1, <2>2, <2>3, <2>4 DEF MakerInv, MakerPcs
<1> QED BY <1>1, <1>2 DEF MakerThrows

LEMMA MakerStopInv == MakerInv /\ Stop => MakerInv'
<1> SUFFICES ASSUME MakerInv, Stop PROVE MakerInv'
  OBVIOUS
<1>1. /\ pc' = pc /\ live' = live /\ stray' = stray /\ traded' = traded /\ lost' = lost
      /\ job' = [job EXCEPT !.stopped = TRUE]
  BY DEF Stop
<1>2. /\ job' \in MakerRecords /\ job'.status = job.status /\ job'.missed = job.missed
      /\ job'.quoted = job.quoted /\ job'.known = job.known /\ job'.target = job.target
      /\ job'.inventory = job.inventory /\ job'.cap = job.cap
  BY <1>1 DEF MakerInv, MakerRecords
<1>3. \A l \in Legs : QuoteSound(l)' /\ Seen(l)' = Seen(l) /\ Pending(l)' = Pending(l)
  BY <1>1, <1>2 DEF MakerInv, QuoteSound, Seen, Unread, Pending
<1>4. "yes" \in Legs /\ "no" \in Legs
  BY DEF Legs
<1>5. MakerBounds' /\ (MakerAccount => MakerAccount')
  BY <1>1, <1>2, <1>3, <1>4 DEF MakerInv, MakerBounds, MakerAccount
<1> QED BY <1>1, <1>2, <1>3, <1>5 DEF MakerInv, MarketTypeOK

\* Fills that happen elsewhere are unread until the maker looks.
LEMMA MakerElsewhereInv == MakerInv /\ Elsewhere => MakerInv'
<1> SUFFICES ASSUME MakerInv, Elsewhere PROVE MakerInv'
  OBVIOUS
<1>1. /\ MarketTypeOK /\ MarketTypeOK' /\ pc' = pc /\ job' = job /\ lost' = lost
      /\ "yes" \in Legs /\ "no" \in Legs /\ \A l \in Legs : Drifts(l)
  BY ElsewhereMoves DEF MakerInv, Legs
<1>2. ASSUME NEW l \in Legs
      PROVE  /\ QuoteSound(l)' /\ Pending(l)' = Pending(l)
             /\ ~lost => Seen(l)' = Seen(l)
  <2>1. /\ live'[l].got \in Nat /\ live'[l].n \in Nat /\ live'[l].got <= live'[l].n
        /\ stray'[l] \in Nat /\ traded'[l] \in Nat
        /\ live[l].got \in Nat /\ live[l].n \in Nat /\ stray[l] \in Nat /\ traded[l] \in Nat
    <3>1. live'[l] \in Orders /\ live'[l].got <= live'[l].n /\ stray'[l] \in Nat /\ traded'[l] \in Nat
      BY <1>1 DEF MarketTypeOK
    <3> QED BY <1>1, <3>1, OrderFacts DEF Orders
  <2>2. QuoteSound(l) /\ Drifts(l)
    BY <1>1 DEF MakerInv
  <2>3. l \in job.quoted => live'[l].n = 1
    BY <2>2 DEF Drifts, QuoteSound
  <2>4. l \in job.known => l \in job.quoted /\ live'[l].got = 1 /\ live[l].got = 1
    BY <2>1, <2>2, <2>3 DEF Drifts, QuoteSound
  <2>5. l \notin job.quoted => ~live'[l].open
    BY <2>2 DEF Drifts, QuoteSound
  <2>6. ~lost => stray'[l] = 0 /\ traded'[l] - live'[l].got = traded[l] - live[l].got
    BY <2>1, <2>2 DEF Drifts, QuoteSound
  <2>7. QuoteSound(l)' /\ Pending(l)' = Pending(l)
    BY <1>1, <2>3, <2>4, <2>5, <2>6 DEF QuoteSound, Pending
  <2>8. ASSUME ~lost PROVE Seen(l)' = Seen(l)
    <3>1. CASE l \in job.quoted \ job.known
      BY <1>1, <2>6, <2>8, <3>1 DEF Seen, Unread
    <3>2. CASE l \in job.known
      <4>1. traded'[l] = traded[l]
        BY <2>1, <2>4, <2>6, <2>8, <3>2
      <4> QED BY <1>1, <3>2, <4>1 DEF Seen, Unread
    <3>3. CASE l \notin job.quoted
      <4>1. live'[l] = live[l]
        BY <2>2, <3>3 DEF Drifts, QuoteSound
      <4>2. traded'[l] = traded[l]
        BY <2>1, <2>6, <2>8, <4>1
      <4> QED BY <1>1, <3>3, <4>1, <4>2 DEF Seen, Unread
    <3> QED BY <3>1, <3>2, <3>3
  <2> QED BY <2>7, <2>8
<1>3. MakerBounds'
  BY <1>1, <1>2 DEF MakerInv, MakerBounds
<1>4. ~lost => MakerAccount'
  <2>1. ASSUME ~lost PROVE Seen("yes")' = Seen("yes") /\ Seen("no")' = Seen("no")
    BY <1>1, <1>2, <2>1
  <2> QED BY <1>1, <2>1 DEF MakerInv, MakerAccount
<1>5. \A l \in Legs : ~live[l].open => ~live'[l].open
  BY <1>1 DEF Drifts
<1> QED BY <1>1, <1>2, <1>3, <1>4, <1>5 DEF MakerInv

LEMMA MakerStep == MakerInv /\ (MakerNext \/ Elsewhere) => MakerInv'
<1> SUFFICES ASSUME MakerInv, MakerNext \/ Elsewhere PROVE MakerInv'
  OBVIOUS
<1>1. "yes" \in Legs /\ "no" \in Legs
  BY DEF Legs
<1>2. CASE MakerBook \/ MakerStop
  BY <1>2, MakerBookInv
<1>3. CASE MakerRead("yes", "no") \/ MakerRead("no", "cap")
  BY <1>1, <1>3, MakerReadInv
<1>4. CASE MakerCapped
  BY <1>4, MakerCappedInv
<1>5. CASE MakerFlatten
  BY <1>5, MakerFlattenInv
<1>6. CASE MakerQuote("yes", "quote_no") \/ MakerQuote("no", "book")
  BY <1>1, <1>6, MakerQuoteInv
<1>7. CASE MakerThrows
  BY <1>7, MakerThrowsInv
<1>8. CASE Stop
  BY <1>8, MakerStopInv
<1>9. CASE Elsewhere
  BY <1>9, MakerElsewhereInv
<1> QED BY <1>2, <1>3, <1>4, <1>5, <1>6, <1>7, <1>8, <1>9 DEF MakerNext

LEMMA MakerInventory == MakerInv => InventoryKept
<1> SUFFICES ASSUME MakerInv PROVE InventoryKept
  OBVIOUS
<1>1. "yes" \in Legs /\ "no" \in Legs
  BY DEF Legs
<1>2. /\ job.target \in Nat /\ job.cap \in Nat /\ job.inventory \in Int /\ job.missed \in Nat
      /\ Unread(job, "yes") \in Nat /\ Unread(job, "no") \in Nat
      /\ Pending("yes") \in 0 .. 1 /\ Pending("no") \in 0 .. 1
  BY <1>1, MakerFields, SeenType
<1>3. traded["yes"] \in Nat /\ traded["no"] \in Nat
  BY <1>1, OrderFacts DEF MakerInv
<1>4. -job.cap <= job.inventory /\ job.inventory <= job.cap
  <2>1. /\ job.inventory + Pending("yes") <= job.cap
        /\ -job.cap <= job.inventory - Pending("no")
    BY DEF MakerInv, MakerBounds
  <2> QED BY <1>2, <2>1
<1> DEFINE drift == TrueInventory - job.inventory
           unread == job.missed + Unread(job, "yes") + Unread(job, "no")
<1>5. ASSUME ~lost PROVE -unread <= drift /\ drift <= unread
  <2>1. MakerAccount
    BY <1>5 DEF MakerInv
  <2> QED BY <1>2, <1>3, <2>1 DEF MakerAccount, Seen, TrueInventory
<1> QED BY <1>4, <1>5 DEF InventoryKept

-----------------------------------------------------------------------------
(* Runners that work one order at a time.                                  *)

Rungs == Seq([price : Nat \ {0}, pct : Nat \ {0}])

RunnerRecords(kinds, statuses) ==
  [kind : kinds, size : Nat, unit : Nat, rungs : Rungs, filled : Nat, posted : Nat, want : Nat,
   step : Int, fired : SUBSET Nat, stopped : BOOLEAN, status : statuses]

LEMMA RunnerFields ==
  ASSUME NEW kinds, NEW statuses, NEW j \in RunnerRecords(kinds, statuses)
  PROVE  /\ j.kind \in kinds /\ j.size \in Nat /\ j.unit \in Nat /\ j.rungs \in Rungs
         /\ j.filled \in Nat /\ j.posted \in Nat /\ j.want \in Nat /\ j.step \in Int
         /\ j.fired \in SUBSET Nat /\ j.stopped \in BOOLEAN /\ j.status \in statuses
BY DEF RunnerRecords

LEMMA NewJobFields ==
  ASSUME NEW kinds, NEW statuses, "running" \in statuses,
         NEW kind \in kinds, NEW size \in Nat, NEW unit \in Nat, NEW rungs \in Rungs,
         job = NewJob(kind, size, unit, rungs)
  PROVE  /\ job \in RunnerRecords(kinds, statuses)
         /\ job.kind = kind /\ job.size = size /\ job.unit = unit /\ job.rungs = rungs
         /\ job.filled = 0 /\ job.posted = 0 /\ job.want = 0 /\ job.step = 0 /\ job.fired = {}
         /\ ~job.stopped /\ job.status = "running"
<1>1. job = [kind |-> kind, size |-> size, unit |-> unit, rungs |-> rungs, filled |-> 0, posted |-> 0,
             want |-> 0, step |-> 0, fired |-> {}, stopped |-> FALSE, status |-> "running"]
  BY DEF NewJob
<1>2. {} \in SUBSET Nat
  OBVIOUS
<1> QED BY <1>1, <1>2 DEF RunnerRecords

\* What the runner has not looked at yet, while it follows an order
Following(p) == IF pc = p THEN live["yes"].got ELSE 0

-----------------------------------------------------------------------------
(* The passive runner.                                                     *)

PassiveStatuses == {"running", "complete", "partial", "spread_too_tight", "error"}

PassiveTypeOK ==
  /\ job \in RunnerRecords({"passive"}, PassiveStatuses) /\ job.unit > 0
  /\ pc \in {"tick", "walk", "wait", "done"}
  /\ MarketTypeOK /\ Clean("no")

\* A chunk is posted as long as the size is not reached, and adds no more than
\* a chunk to it.
PassiveSizeOK ==
  /\ job.filled <= Monus(2 * job.size, 1) /\ job.filled < job.size + job.unit
  /\ pc \in {"walk", "wait"} =>
       job.filled < job.size /\ job.want <= job.unit /\ job.want <= job.size
  /\ pc = "wait" => live["yes"].n = job.want

\* What is reported has traded; if no answer was lost, it is all that has.
PassiveAccount ==
  /\ job.filled + Following("wait") <= traded["yes"]
  /\ ~lost => /\ job.filled + Following("wait") = traded["yes"] /\ stray["yes"] = 0
              /\ pc # "wait" => ~live["yes"].open

\* Every share that may trade was submitted within the cap.
PassiveExposure ==
  /\ Committed("yes") <= Multiple * job.size
  /\ pc # "done" => Committed("yes") <= job.posted /\ job.posted <= Multiple * job.size

PassiveInv == PassiveTypeOK /\ PassiveSizeOK /\ PassiveAccount /\ PassiveExposure

LEMMA PassiveFacts ==
  ASSUME PassiveTypeOK
  PROVE  /\ job.size \in Nat /\ job.unit \in Nat /\ job.filled \in Nat /\ job.posted \in Nat
         /\ job.want \in Nat /\ job.step \in Int /\ job.kind = "passive" /\ job.unit > 0
         /\ Multiple \in Nat /\ Multiple * job.size \in Nat
         /\ live["yes"].n \in Nat /\ live["yes"].got \in Nat /\ live["yes"].got <= live["yes"].n
         /\ stray["yes"] \in Nat /\ traded["yes"] \in Nat /\ lost \in BOOLEAN
         /\ Committed("yes") \in Nat /\ traded["yes"] <= Committed("yes")
         /\ "yes" \in Legs /\ "no" \in Legs
<1>1. "yes" \in Legs /\ "no" \in Legs /\ MarketTypeOK /\ job \in RunnerRecords({"passive"}, PassiveStatuses)
  BY DEF Legs, PassiveTypeOK
<1>2. /\ job.size \in Nat /\ job.unit \in Nat /\ job.filled \in Nat /\ job.posted \in Nat
      /\ job.want \in Nat /\ job.step \in Int /\ job.kind = "passive"
  BY <1>1, RunnerFields
<1>3. Multiple \in Nat
  BY PassiveAssumption
<1>4. Multiple * job.size \in Nat
  BY <1>2, <1>3
<1>5. /\ live["yes"].n \in Nat /\ live["yes"].got \in Nat /\ live["yes"].got <= live["yes"].n
      /\ stray["yes"] \in Nat /\ traded["yes"] \in Nat /\ lost \in BOOLEAN
      /\ Committed("yes") \in Nat /\ Outstanding(live["yes"]) \in Nat
  BY <1>1, OrderFacts
<1>6. traded["yes"] <= Committed("yes")
  BY <1>5 DEF Committed
<1> QED BY <1>1, <1>2, <1>3, <1>4, <1>5, <1>6 DEF PassiveTypeOK

LEMMA PassiveInitInv == PassiveInit /\ job.kind = "passive" => PassiveInv
<1> SUFFICES ASSUME PassiveInit, job.kind = "passive" PROVE PassiveInv
  OBVIOUS
<1>1. /\ MarketTypeOK /\ ~lost /\ \A l \in Legs : live[l] = NoOrder /\ Clean(l) /\ traded[l] = 0 /\ Committed(l) = 0
  BY MarketInitFacts DEF PassiveInit
<1>2. PICK kind \in {"passive", "replay"}, size \in PassiveSizes, chunk \in Chunks :
        job = NewJob(kind, size, chunk, <<>>)
  BY DEF PassiveInit, PassiveJobs
<1>3. kind = "passive" /\ size \in Nat /\ chunk \in Nat /\ chunk > 0 /\ <<>> \in Rungs
  BY <1>2, PassiveAssumption DEF NewJob, Rungs
<1>4. /\ job \in RunnerRecords({"passive"}, PassiveStatuses)
      /\ job.size = size /\ job.unit = chunk /\ job.filled = 0 /\ job.posted = 0
  <2> DEFINE kinds == {"passive"}
  <2>1. kind \in kinds /\ "running" \in PassiveStatuses
    BY <1>3 DEF PassiveStatuses
  <2> HIDE DEF kinds
  <2>2. /\ job \in RunnerRecords(kinds, PassiveStatuses)
        /\ job.size = size /\ job.unit = chunk /\ job.filled = 0 /\ job.posted = 0
    BY <1>2, <1>3, <2>1, NewJobFields
  <2> QED BY <2>2 DEF kinds
<1>5. pc = "tick" /\ "yes" \in Legs /\ "no" \in Legs
  BY DEF PassiveInit, Legs
<1>6. PassiveTypeOK
  BY <1>1, <1>3, <1>4, <1>5 DEF PassiveTypeOK
<1>7. Following("wait") = 0
  BY <1>5 DEF Following
<1>8. PassiveSizeOK
  BY <1>3, <1>4, <1>5 DEF PassiveSizeOK, Monus
<1>9. PassiveAccount
  BY <1>1, <1>4, <1>5, <1>7 DEF PassiveAccount, Clean
<1>10. PassiveExposure
  BY <1>1, <1>4, <1>5, <1>6, PassiveFacts DEF PassiveExposure
<1> QED BY <1>6, <1>8, <1>9, <1>10 DEF PassiveInv

\* Steps that leave the market alone: the runner ends, looks at the price, or
\* starts to work on a chunk.
LEMMA PassiveRests ==
  ASSUME PassiveInv, UNCHANGED market, pc \in {"tick", "walk"}, pc' \in {"walk", "done"},
         job' \in RunnerRecords({"passive"}, PassiveStatuses),
         job'.size = job.size, job'.unit = job.unit, job'.filled = job.filled, job'.posted = job.posted,
         pc' = "walk" => job'.filled < job'.size /\ job'.want <= job'.unit /\ job'.want <= job'.size
  PROVE  PassiveInv'
<1>1. MarketTypeOK' /\ Clean("no")' = Clean("no") /\ Committed("yes")' = Committed("yes")
  BY MarketKept DEF PassiveInv, PassiveTypeOK, market, Clean, Committed
<1>2. PassiveTypeOK'
  BY <1>1 DEF PassiveInv, PassiveTypeOK
<1>3. PassiveSizeOK'
  BY DEF PassiveInv, PassiveSizeOK
<1>4. Following("wait") = 0 /\ Following("wait")' = 0
  BY DEF Following
<1>5. PassiveAccount'
  BY <1>4 DEF PassiveInv, PassiveAccount, market
<1>6. PassiveExposure'
  BY <1>1 DEF PassiveInv, PassiveExposure
<1> QED BY <1>2, <1>3, <1>5, <1>6 DEF PassiveInv

LEMMA PassiveTickInv == PassiveInv /\ (PassiveTick \/ PassiveGuard) => PassiveInv'
<1> SUFFICES ASSUME PassiveInv, PassiveTick \/ PassiveGuard PROVE PassiveInv'
  OBVIOUS
<1>1. job \in RunnerRecords({"passive"}, PassiveStatuses) /\ PassiveTypeOK
  BY DEF PassiveInv, PassiveTypeOK
<1>2. ASSUME NEW s \in PassiveStatuses, Finish(job, s), UNCHANGED market, pc \in {"tick", "walk"}
      PROVE  PassiveInv'
  <2>1. /\ job' \in RunnerRecords({"passive"}, PassiveStatuses) /\ pc' = "done"
        /\ job'.size = job.size /\ job'.unit = job.unit /\ job'.filled = job.filled /\ job'.posted = job.posted
    BY <1>1, <1>2 DEF Finish, RunnerRecords
  <2> QED BY <1>2, <2>1, PassiveRests
<1>3. ASSUME NEW walks \in 0 .. MaxWalks, PassiveTick, Remaining(job) > 0, pc' = "walk",
             job' = [job EXCEPT !.want = Least(job.unit, Remaining(job)), !.step = walks]
      PROVE  PassiveInv'
  <2>1. job.size \in Nat /\ job.unit \in Nat /\ job.filled \in Nat
    BY <1>1, PassiveFacts
  <2>2. job.filled < job.size /\ Remaining(job) \in Nat /\ Remaining(job) <= job.size
    BY <1>3, <2>1 DEF Remaining, Monus
  <2> DEFINE n == Least(job.unit, Remaining(job))
  <2>3. n \in Nat /\ n <= job.unit /\ n <= job.size /\ walks \in Int
    BY <2>1, <2>2 DEF Least
  <2> HIDE DEF n
  <2>4. job' = [job EXCEPT !.want = n, !.step = walks]
    BY <1>3 DEF n
  <2>5. /\ job' \in RunnerRecords({"passive"}, PassiveStatuses)
        /\ job'.size = job.size /\ job'.unit = job.unit /\ job'.filled = job.filled /\ job'.posted = job.posted
        /\ job'.want = n
    BY <1>1, <2>3, <2>4 DEF RunnerRecords
  <2>6. UNCHANGED market /\ pc = "tick"
    BY Zenon, <1>3 DEF PassiveTick
  <2> QED BY <1>3, <2>2, <2>3, <2>5, <2>6, PassiveRests
<1>4. CASE PassiveTick
  BY Zenon, <1>2, <1>3, <1>4 DEF PassiveTick, PassiveStatuses
<1>5. CASE PassiveGuard
  BY <1>2, <1>5 DEF PassiveGuard, PassiveStatuses
<1> QED BY <1>4, <1>5

LEMMA PassivePostInv == PassiveInv /\ PassivePost => PassiveInv'
<1> SUFFICES ASSUME PassiveInv, PassivePost PROVE PassiveInv'
  OBVIOUS
<1>1. /\ job \in RunnerRecords({"passive"}, PassiveStatuses) /\ PassiveTypeOK /\ MarketTypeOK
      /\ pc = "walk" /\ job.unit > 0 /\ Clean("no")
  BY DEF PassivePost, PassiveInv, PassiveTypeOK
<1>2. /\ job.size \in Nat /\ job.unit \in Nat /\ job.filled \in Nat /\ job.posted \in Nat /\ job.want \in Nat
      /\ Multiple * job.size \in Nat
      /\ stray["yes"] \in Nat /\ traded["yes"] \in Nat /\ Committed("yes") \in Nat
      /\ "yes" \in Legs /\ "no" \in Legs
  BY <1>1, PassiveFacts
<1> DEFINE cap == Multiple * job.size
<1>3. job.posted + job.want <= cap /\ Committed("yes") <= job.posted
  BY <1>1, <1>2 DEF PassivePost, OverCap, PassiveInv, PassiveExposure
<1>4. /\ job.filled <= Monus(2 * job.size, 1) /\ job.filled < job.size + job.unit
      /\ job.filled < job.size /\ job.want <= job.unit /\ job.want <= job.size
  BY <1>1 DEF PassiveInv, PassiveSizeOK
<1>5. job.filled <= traded["yes"] /\ (~lost => job.filled = traded["yes"] /\ stray["yes"] = 0 /\ ~live["yes"].open)
  BY <1>1, <1>2 DEF PassiveInv, PassiveAccount, Following
<1>6. CASE Rest("yes", job.want) /\ pc' = "wait" /\ job' = [job EXCEPT !.posted = job.posted + job.want]
  <2>1. /\ MarketTypeOK' /\ lost' = lost
        /\ live'["yes"].n = job.want /\ live'["yes"].got \in 0 .. job.want
        /\ stray'["yes"] = stray["yes"] + Outstanding(live["yes"])
        /\ traded'["yes"] = traded["yes"] + live'["yes"].got
        /\ Committed("yes")' = Committed("yes") + job.want
        /\ \A k \in Legs \ {"yes"} : Untouched(k)
    BY <1>1, <1>2, <1>6, RestMoves
  <2>2. job.posted + job.want \in Nat
    BY <1>2
  <2>3. /\ job' \in RunnerRecords({"passive"}, PassiveStatuses)
        /\ job'.size = job.size /\ job'.unit = job.unit /\ job'.filled = job.filled
        /\ job'.posted = job.posted + job.want /\ job'.want = job.want
    BY <1>1, <1>6, <2>2 DEF RunnerRecords
  <2>4. PassiveTypeOK'
    BY <1>1, <1>2, <1>6, <2>1, <2>3 DEF PassiveTypeOK, Clean, Untouched
  <2>5. PassiveSizeOK'
    BY <1>4, <1>6, <2>1, <2>3 DEF PassiveSizeOK
  <2>6. Following("wait")' = live'["yes"].got /\ live'["yes"].got \in Nat
    BY <1>2, <1>6, <2>1 DEF Following
  <2>7. PassiveAccount'
    <3>1. job'.filled + Following("wait")' <= traded'["yes"]
      BY <1>2, <1>5, <2>1, <2>3, <2>6
    <3>2. ~lost => job'.filled + Following("wait")' = traded'["yes"] /\ stray'["yes"] = 0
      BY <1>2, <1>5, <2>1, <2>3, <2>6 DEF Outstanding
    <3> QED BY <1>6, <2>1, <3>1, <3>2 DEF PassiveAccount
  <2>8. PassiveExposure'
    <3>1. Committed("yes")' <= job'.posted /\ job'.posted <= cap
      BY <1>2, <1>3, <2>1, <2>3
    <3>2. Committed("yes")' <= cap
      BY <1>2, <1>3, <2>1
    <3>3. Multiple * job'.size = cap
      BY <2>3
    <3> QED BY <3>1, <3>2, <3>3 DEF PassiveExposure
  <2> QED BY <2>4, <2>5, <2>7, <2>8 DEF PassiveInv
<1>7. CASE PostLost("yes", job.want) /\ Finish(job, "error")
  <2>1. /\ MarketTypeOK' /\ lost' /\ live' = live /\ traded' = traded
        /\ Committed("yes")' \in {Committed("yes"), Committed("yes") + job.want}
        /\ \A k \in Legs \ {"yes"} : Untouched(k)
    BY <1>1, <1>2, <1>7, PostLostMoves
  <2>2. /\ job' \in RunnerRecords({"passive"}, PassiveStatuses) /\ pc' = "done"
        /\ job'.size = job.size /\ job'.unit = job.unit /\ job'.filled = job.filled
        /\ job'.posted = job.posted /\ job'.want = job.want
    BY <1>1, <1>7 DEF RunnerRecords, Finish, PassiveStatuses
  <2>3. PassiveTypeOK'
    BY <1>1, <1>2, <2>1, <2>2 DEF PassiveTypeOK, Clean, Untouched
  <2>4. PassiveSizeOK'
    BY <1>4, <2>2 DEF PassiveSizeOK
  <2>5. PassiveAccount'
    BY <1>2, <1>5, <2>1, <2>2 DEF PassiveAccount, Following
  <2>6. PassiveExposure'
    <3>1. Committed("yes")' <= cap
      BY <1>2, <1>3, <2>1
    <3> QED BY <2>2, <3>1 DEF PassiveExposure
  <2> QED BY <2>3, <2>4, <2>5, <2>6 DEF PassiveInv
<1> QED BY <1>6, <1>7 DEF PassivePost

\* The order that is waited for is credited, in full or as far as it got when
\* it was canceled.
LEMMA PassiveSettles ==
  ASSUME PassiveInv, pc = "wait", NEW fill \in Nat,
         pc' \in {"tick", "walk"}, NEW step \in Int,
         job' = [job EXCEPT !.filled = job.filled + fill, !.step = step],
         pc' = "walk" => job.filled + fill < job.size,
         MarketTypeOK', traded' = traded, stray' = stray, Clean("no")',
         Committed("yes")' <= Committed("yes"),
         \/ lost' /\ fill = 0
         \/ lost' = lost /\ fill = live["yes"].got /\ ~live'["yes"].open
  PROVE  PassiveInv'
<1>1. /\ job \in RunnerRecords({"passive"}, PassiveStatuses) /\ PassiveTypeOK /\ job.unit > 0
  BY DEF PassiveInv, PassiveTypeOK
<1>2. /\ job.size \in Nat /\ job.unit \in Nat /\ job.filled \in Nat /\ job.posted \in Nat /\ job.want \in Nat
      /\ Multiple * job.size \in Nat
      /\ stray["yes"] \in Nat /\ traded["yes"] \in Nat /\ Committed("yes") \in Nat
      /\ live["yes"].n \in Nat /\ live["yes"].got \in Nat /\ live["yes"].got <= live["yes"].n
      /\ "yes" \in Legs /\ "no" \in Legs
  BY <1>1, PassiveFacts
<1>3. job.filled + fill \in Nat
  BY <1>2
<1>4. /\ job' \in RunnerRecords({"passive"}, PassiveStatuses)
      /\ job'.size = job.size /\ job'.unit = job.unit /\ job'.filled = job.filled + fill
      /\ job'.posted = job.posted /\ job'.want = job.want
  BY <1>1, <1>3 DEF RunnerRecords
<1>5. PassiveTypeOK'
  BY <1>1, <1>4 DEF PassiveTypeOK
<1>6. /\ job.filled < job.size /\ job.want <= job.unit /\ job.want <= job.size
      /\ live["yes"].n = job.want /\ fill <= job.want
  BY <1>2 DEF PassiveInv, PassiveSizeOK
<1>7. PassiveSizeOK'
  <2>1. job'.filled <= Monus(2 * job'.size, 1)
    BY <1>2, <1>4, <1>6 DEF Monus
  <2>2. job'.filled < job'.size + job'.unit
    BY <1>2, <1>4, <1>6
  <2> QED BY <1>4, <1>6, <2>1, <2>2 DEF PassiveSizeOK
<1>8. Following("wait") = live["yes"].got /\ Following("wait")' = 0
  BY DEF Following
<1>9. /\ job.filled + live["yes"].got <= traded["yes"]
      /\ ~lost => job.filled + live["yes"].got = traded["yes"] /\ stray["yes"] = 0
  BY <1>8 DEF PassiveInv, PassiveAccount
<1>10. PassiveAccount'
  BY <1>2, <1>4, <1>8, <1>9 DEF PassiveAccount
<1>11. PassiveExposure'
  <2> DEFINE cap == Multiple * job.size
  <2>1. Committed("yes")' \in Nat
    <3>1. Committed("yes")' = traded'["yes"] + stray'["yes"] + Outstanding(live'["yes"])
      BY DEF Committed
    <3>2. live'["yes"] \in Orders /\ live'["yes"].got <= live'["yes"].n
      BY <1>2 DEF MarketTypeOK
    <3>3. Outstanding(live'["yes"]) \in Nat
      BY <3>2 DEF Outstanding, Orders
    <3> QED BY <1>2, <3>1, <3>3
  <2>2. Committed("yes") <= job.posted /\ job.posted <= cap /\ Multiple * job'.size = cap
    BY <1>4 DEF PassiveInv, PassiveExposure
  <2>3. Committed("yes")' <= job'.posted /\ job'.posted <= cap /\ Committed("yes")' <= cap
    BY <1>2, <1>4, <2>1, <2>2
  <2> QED BY <2>2, <2>3 DEF PassiveExposure
<1> QED BY <1>5, <1>7, <1>10, <1>11 DEF PassiveInv

LEMMA PassiveFilledInv == PassiveInv /\ (PassiveFilled \/ PassiveCancel) => PassiveInv'
<1> SUFFICES ASSUME PassiveInv, PassiveFilled \/ PassiveCancel PROVE PassiveInv'
  OBVIOUS
<1>1. /\ job \in RunnerRecords({"passive"}, PassiveStatuses) /\ PassiveTypeOK /\ MarketTypeOK
      /\ pc = "wait" /\ Clean("no")
  BY DEF PassiveFilled, PassiveCancel, PassiveInv, PassiveTypeOK
<1>2. /\ job.filled \in Nat /\ job.step \in Int /\ job.size \in Nat
      /\ live["yes"].n \in Nat /\ live["yes"].got \in Nat /\ "yes" \in Legs /\ "no" \in Legs
      /\ Committed("yes") \in Nat
  BY <1>1, PassiveFacts
<1>3. CASE PassiveFilled
  <2> DEFINE fill == live["yes"].got
  <2>1. /\ MarketTypeOK' /\ live' = live /\ traded' = traded /\ stray' = stray /\ lost' = lost
        /\ Clean("no")' /\ Committed("yes")' = Committed("yes")
    BY <1>1, <1>3, MarketKept DEF PassiveFilled, market, Clean, Committed
  <2>2. ~live["yes"].open
    BY <1>1, <1>2, <1>3, OrderFacts DEF PassiveFilled, Complete
  <2>3. pc' = "tick" /\ job' = [job EXCEPT !.filled = job.filled + fill]
    BY <1>3 DEF PassiveFilled, Credited
  <2>4. job' = [job EXCEPT !.filled = job.filled + fill, !.step = job.step]
    BY <1>1, <2>3 DEF RunnerRecords
  <2>5. Committed("yes")' <= Committed("yes") /\ ~live'["yes"].open
    BY <1>2, <2>1, <2>2
  <2>6. lost' = lost /\ fill = live["yes"].got
    BY <2>1
  <2> HIDE DEF fill
  <2>7. fill \in Nat
    BY <1>2, <2>6
  <2> QED BY Zenon, <1>1, <1>2, <2>1, <2>3, <2>4, <2>5, <2>6, <2>7, PassiveSettles
<1>4. CASE PassiveCancel
  <2>1. PICK answered \in BOOLEAN :
          LET fill == CancelCredit(live["yes"], answered)
              j == Credited(job, fill)
          IN /\ IF answered THEN Cancel({"yes"}) ELSE CancelLost
             /\ IF fill = job.want \/ Remaining(j) = 0
                THEN pc' = "tick" /\ job' = j
                ELSE pc' = "walk" /\ job' = [j EXCEPT !.step = j.step - 1]
    BY <1>4 DEF PassiveCancel
  <2> DEFINE fill == CancelCredit(live["yes"], answered)
             j == Credited(job, fill)
  <2>2. fill \in Nat /\ (~answered => fill = 0) /\ (answered => fill = live["yes"].got)
    BY <1>2 DEF CancelCredit
  <2>3. /\ MarketTypeOK' /\ traded' = traded /\ stray' = stray /\ Clean("no")'
        /\ Committed("yes")' <= Committed("yes")
        /\ answered => lost' = lost /\ ~live'["yes"].open
        /\ ~answered => lost'
    <3>1. CASE answered
      <4>1. Cancel({"yes"})
        BY <2>1, <3>1
      <4> QED BY <1>1, <1>2, <3>1, <4>1, CancelMoves DEF Clean
    <3>2. CASE ~answered
      <4>1. CancelLost
        BY <2>1, <3>2
      <4>2. MarketTypeOK' /\ lost' /\ live' = live /\ stray' = stray /\ traded' = traded
        BY <1>1, <4>1, CancelLostMoves
      <4>3. Clean("no")' /\ Committed("yes")' = Committed("yes")
        BY <1>1, <4>2 DEF Clean, Committed
      <4>4. Committed("yes")' <= Committed("yes")
        BY <1>2, <4>3
      <4> QED BY <3>2, <4>2, <4>3, <4>4
    <3> QED BY <3>1, <3>2
  <2> HIDE DEF fill
  <2>4. j = [job EXCEPT !.filled = job.filled + fill] /\ j.step = job.step /\ j.size = job.size
        /\ j.filled = job.filled + fill
    BY <1>1 DEF Credited, RunnerRecords
  <2>5. PICK step \in Int : job' = [job EXCEPT !.filled = job.filled + fill, !.step = step]
    <3>1. job.step - 1 \in Int
      BY <1>2
    <3>2. j = [job EXCEPT !.filled = job.filled + fill, !.step = job.step]
      BY <1>1, <2>4 DEF RunnerRecords
    <3>3. [j EXCEPT !.step = j.step - 1] = [job EXCEPT !.filled = job.filled + fill, !.step = job.step - 1]
      BY <1>1, <2>4 DEF RunnerRecords
    <3>4. job' = j \/ job' = [j EXCEPT !.step = j.step - 1]
      BY <2>1 DEF fill
    <3> QED BY Zenon, <1>2, <3>1, <3>2, <3>3, <3>4
  <2>6. pc' \in {"tick", "walk"} /\ (pc' = "walk" => Remaining(j) # 0)
    BY <2>1 DEF fill
  <2>7. pc' = "walk" => job.filled + fill < job.size
    BY <1>2, <2>2, <2>4, <2>6 DEF Remaining, Monus
  <2> HIDE DEF j
  <2> QED BY Zenon, <1>1, <2>2, <2>3, <2>5, <2>6, <2>7, PassiveSettles
<1> QED BY <1>3, <1>4

LEMMA PassiveElsewhereInv == PassiveInv /\ Elsewhere => PassiveInv'
<1> SUFFICES ASSUME PassiveInv, Elsewhere PROVE PassiveInv'
  OBVIOUS
<1>1. PassiveTypeOK /\ MarketTypeOK /\ "yes" \in Legs /\ "no" \in Legs /\ Clean("no")
  BY DEF PassiveInv, PassiveTypeOK, Legs
<1>2. /\ MarketTypeOK' /\ pc' = pc /\ job' = job /\ lost' = lost /\ Drifts("yes") /\ Drifts("no")
  BY <1>1, ElsewhereMoves
<1>3. PassiveTypeOK'
  <2>1. Clean("no")'
    BY <1>1, <1>2, CleanStays
  <2> QED BY <1>1, <1>2, <2>1 DEF PassiveTypeOK
<1>4. PassiveSizeOK'
  BY <1>2 DEF PassiveInv, PassiveSizeOK, Drifts
<1>5. /\ job.size \in Nat /\ job.filled \in Nat /\ job.posted \in Nat /\ Multiple * job.size \in Nat
      /\ stray["yes"] \in Nat /\ traded["yes"] \in Nat /\ live["yes"].got \in Nat
      /\ Committed("yes") \in Nat
  BY <1>1, PassiveFacts
<1>6. /\ stray'["yes"] \in Nat /\ traded'["yes"] \in Nat /\ live'["yes"].got \in Nat
      /\ Committed("yes")' \in Nat
  BY <1>1, <1>2, OrderFactsNext
<1>7. PassiveAccount'
  <2>1. CASE pc = "wait"
    <3>1. Following("wait") = live["yes"].got /\ Following("wait")' = live'["yes"].got
      BY <1>2, <2>1 DEF Following
    <3> QED BY <1>2, <1>5, <1>6, <2>1, <3>1 DEF PassiveInv, PassiveAccount, Drifts
  <2>2. CASE pc # "wait"
    <3>1. Following("wait") = 0 /\ Following("wait")' = 0
      BY <1>2, <2>2 DEF Following
    <3>2. job.filled <= traded["yes"] /\ traded["yes"] <= traded'["yes"]
      BY <1>2, <1>5, <3>1 DEF PassiveInv, PassiveAccount, Drifts
    <3>3. ASSUME ~lost PROVE job.filled = traded'["yes"] /\ stray'["yes"] = 0 /\ ~live'["yes"].open
      <4>1. Clean("yes") /\ job.filled = traded["yes"]
        BY <1>5, <2>2, <3>1, <3>3 DEF PassiveInv, PassiveAccount, Clean
      <4>2. Untouched("yes") /\ Clean("yes")'
        BY <1>1, <1>2, <4>1, CleanStays
      <4> QED BY <4>1, <4>2 DEF Untouched, Clean
    <3> QED BY <1>2, <1>5, <1>6, <3>1, <3>2, <3>3 DEF PassiveAccount
  <2> QED BY <2>1, <2>2
<1>8. PassiveExposure'
  <2> DEFINE cap == Multiple * job.size
  <2>1. Committed("yes")' <= Committed("yes") /\ Multiple * job'.size = cap
    BY <1>2 DEF Drifts
  <2>2. Committed("yes") <= cap /\ (pc # "done" => Committed("yes") <= job.posted /\ job.posted <= cap)
    BY DEF PassiveInv, PassiveExposure
  <2>3. Committed("yes")' <= cap /\ (pc # "done" => Committed("yes")' <= job.posted /\ job.posted <= cap)
    BY <1>5, <1>6, <2>1, <2>2
  <2> QED BY <1>2, <2>1, <2>3 DEF PassiveExposure
<1> QED BY <1>3, <1>4, <1>7, <1>8 DEF PassiveInv

LEMMA PassiveStep == PassiveInv /\ (PassiveNext \/ Elsewhere) => PassiveInv'
<1> SUFFICES ASSUME PassiveInv, PassiveNext \/ Elsewhere PROVE PassiveInv'
  OBVIOUS
<1>1. job.kind = "passive"
  BY PassiveFacts DEF PassiveInv
<1>2. CASE PassiveTick \/ PassiveGuard
  BY <1>2, PassiveTickInv
<1>3. CASE PassivePost
  BY <1>3, PassivePostInv
<1>4. CASE PassiveFilled \/ PassiveCancel
  BY <1>4, PassiveFilledInv
<1>5. CASE Elsewhere
  BY <1>5, PassiveElsewhereInv
<1>6. ~(ReplayDrain \/ ReplayTight \/ ReplayGuard \/ ReplayKeep \/ ReplayReplace \/ ReplayPost)
  BY <1>1 DEF ReplayDrain, ReplayTight, ReplayGuard, ReplayKeep, ReplayReplace, ReplayPost
<1> QED BY <1>2, <1>3, <1>4, <1>5, <1>6 DEF PassiveNext

LEMMA PassiveKeepsContract == PassiveInv => PassiveContract
<1> SUFFICES ASSUME PassiveInv PROVE PassiveContract
  OBVIOUS
<1>1. PassiveTypeOK /\ MarketTypeOK /\ Clean("no")
  BY DEF PassiveInv, PassiveTypeOK
<1>2. /\ job.size \in Nat /\ job.unit \in Nat /\ job.filled \in Nat /\ job.want \in Nat /\ job.unit > 0
      /\ Multiple * job.size \in Nat
      /\ live["yes"].n \in Nat /\ live["yes"].got \in Nat /\ live["yes"].got <= live["yes"].n
      /\ stray["yes"] \in Nat /\ traded["yes"] \in Nat /\ lost \in BOOLEAN
      /\ Committed("yes") \in Nat /\ "yes" \in Legs
  BY <1>1, PassiveFacts
<1>3. /\ Outstanding(live["yes"]) \in Nat
      /\ ~live["yes"].open => Outstanding(live["yes"]) = 0
  BY <1>1, <1>2, OrderFacts DEF Outstanding
<1>4. /\ job.filled <= Monus(2 * job.size, 1) /\ job.filled < job.size + job.unit
      /\ pc \in {"walk", "wait"} =>
           job.filled < job.size /\ job.want <= job.unit /\ job.want <= job.size
      /\ pc = "wait" => live["yes"].n = job.want
  BY DEF PassiveInv, PassiveSizeOK
<1>5. ~lost => traded["yes"] < job.size + job.unit
  <2>1. CASE pc = "wait"
    BY <1>2, <1>4, <2>1 DEF PassiveInv, PassiveAccount, Following
  <2>2. CASE pc # "wait"
    BY <1>2, <1>4, <2>2 DEF PassiveInv, PassiveAccount, Following
  <2> QED BY <2>1, <2>2
<1>6. ASSUME pc = "done"
      PROVE  [filled |-> job.filled, traded |-> traded["yes"],
              stray |-> stray["yes"] + Outstanding(live["yes"]), lost |-> lost]
                \in PassiveOutcomes(job.size)
  <2> DEFINE loose == stray["yes"] + Outstanding(live["yes"])
             most == Monus(2 * job.size, 1)
             cap == Multiple * job.size
  <2>1. most \in Nat /\ job.filled \in 0 .. most /\ loose \in Nat /\ cap \in Nat
    BY <1>2, <1>3, <1>4 DEF Monus
  <2>2. job.filled <= traded["yes"]
    BY <1>2, <1>6 DEF PassiveInv, PassiveAccount, Following
  <2>3. CASE ~lost
    <3>1. job.filled = traded["yes"] /\ loose = 0
      BY <1>2, <1>3, <1>6, <2>3 DEF PassiveInv, PassiveAccount, Following
    <3> HIDE DEF loose, most
    <3>2. lost = FALSE
      BY <1>2, <2>3
    <3> DEFINE exact == {[filled |-> r, traded |-> r, stray |-> 0, lost |-> FALSE] : r \in 0 .. most}
               o == [filled |-> job.filled, traded |-> traded["yes"], stray |-> loose, lost |-> lost]
    <3>3. o = [filled |-> job.filled, traded |-> job.filled, stray |-> 0, lost |-> FALSE]
      BY <3>1, <3>2
    <3>4. o \in exact
      BY <2>1, <3>3
    <3> HIDE DEF o
    <3>5. o \in PassiveOutcomes(job.size)
      BY <3>4 DEF PassiveOutcomes, most
    <3> QED BY <3>5 DEF o, loose
  <2>4. CASE lost
    <3>1. traded["yes"] + loose <= cap
      <4>1. Committed("yes") <= cap
        BY DEF PassiveInv, PassiveExposure
      <4> QED BY <1>2, <1>3, <4>1 DEF Committed
    <3>2. traded["yes"] \in 0 .. cap /\ loose \in 0 .. cap
      BY <1>2, <2>1, <3>1
    <3> HIDE DEF loose, most, cap
    <3>3. lost = TRUE
      BY <1>2, <2>4
    <3> DEFINE o == [filled |-> job.filled, traded |-> traded["yes"], stray |-> loose, lost |-> lost]
    <3>4. o \in [filled : 0 .. most, traded : 0 .. cap, stray : 0 .. cap, lost : {TRUE}]
      BY <2>1, <3>2, <3>3
    <3>5. o.filled <= o.traded /\ o.traded + o.stray <= cap
      BY <2>2, <3>1
    <3> HIDE DEF o
    <3>6. o \in PassiveOutcomes(job.size)
      BY <3>4, <3>5 DEF PassiveOutcomes, most, cap
    <3> QED BY <3>6 DEF o, loose
  <2> QED BY <1>2, <2>3, <2>4
<1> QED BY <1>5, <1>6 DEF PassiveContract

-----------------------------------------------------------------------------
(* The passive runner of a backtest.                                       *)

ReplayInv ==
  /\ job \in RunnerRecords({"replay"}, PassiveStatuses)
  /\ pc \in {"tick", "quote", "post", "done"} /\ MarketTypeOK
  /\ job.filled <= traded["yes"]
  /\ job.want > 0 => job.filled + live["yes"].got <= traded["yes"]
  /\ pc = "post" => job.want = 0

LEMMA ReplayFacts ==
  ASSUME ReplayInv
  PROVE  /\ job.size \in Nat /\ job.unit \in Nat /\ job.filled \in Nat /\ job.posted \in Nat
         /\ job.want \in Nat /\ job.kind = "replay"
         /\ live["yes"].n \in Nat /\ live["yes"].got \in Nat /\ traded["yes"] \in Nat
         /\ "yes" \in Legs /\ MarketTypeOK
<1>1. "yes" \in Legs /\ MarketTypeOK
  BY DEF Legs, ReplayInv
<1>2. job \in RunnerRecords({"replay"}, PassiveStatuses)
  BY DEF ReplayInv
<1> QED BY <1>1, <1>2, RunnerFields, OrderFacts

LEMMA ReplayInitInv == PassiveInit /\ job.kind = "replay" => ReplayInv
<1> SUFFICES ASSUME PassiveInit, job.kind = "replay" PROVE ReplayInv
  OBVIOUS
<1>1. /\ MarketTypeOK /\ traded["yes"] = 0
  BY MarketInitFacts DEF PassiveInit, Legs
<1>2. PICK kind \in {"passive", "replay"}, size \in PassiveSizes, chunk \in Chunks :
        job = NewJob(kind, size, chunk, <<>>)
  BY DEF PassiveInit, PassiveJobs
<1>3. kind = "replay" /\ size \in Nat /\ chunk \in Nat /\ <<>> \in Rungs
  BY <1>2, PassiveAssumption DEF NewJob, Rungs
<1>4. job \in RunnerRecords({"replay"}, PassiveStatuses) /\ job.filled = 0 /\ job.want = 0
  <2> DEFINE kinds == {"replay"}
  <2>1. kind \in kinds /\ "running" \in PassiveStatuses
    BY <1>3 DEF PassiveStatuses
  <2> HIDE DEF kinds
  <2>2. job \in RunnerRecords(kinds, PassiveStatuses) /\ job.filled = 0 /\ job.want = 0
    BY <1>2, <1>3, <2>1, NewJobFields
  <2> QED BY <2>2 DEF kinds
<1> QED BY <1>1, <1>4 DEF PassiveInit, ReplayInv

\* What the order that rested has filled is credited or forgotten.
LEMMA ReplaySettles ==
  ASSUME ReplayInv, MarketTypeOK', traded' = traded, live'["yes"].got = live["yes"].got,
         pc' \in {"tick", "quote", "post", "done"},
         job' \in RunnerRecords({"replay"}, PassiveStatuses),
         \/ job'.want = job.want /\ job'.filled = job.filled /\ pc' # "post"
         \/ job'.want = 0 /\ job'.filled = job.filled
         \/ job'.want = 0 /\ job.want > 0 /\ job'.filled <= job.filled + live["yes"].got
  PROVE  ReplayInv'
<1>1. /\ job.filled \in Nat /\ job.want \in Nat /\ live["yes"].got \in Nat /\ traded["yes"] \in Nat
  BY ReplayFacts
<1>2. job'.filled \in Nat /\ job'.want \in Nat
  BY RunnerFields
<1> QED BY <1>1, <1>2 DEF ReplayInv

LEMMA ReplayTakes ==
  ASSUME ReplayInv, pc # "done",
         ReplayDrain \/ ReplayTight \/ ReplayGuard \/ ReplayKeep \/ ReplayReplace
  PROVE  ReplayInv'
<1>1. /\ job \in RunnerRecords({"replay"}, PassiveStatuses) /\ MarketTypeOK
  BY DEF ReplayInv
<1>2. /\ job.filled \in Nat /\ job.want \in Nat /\ live["yes"].got \in Nat /\ traded["yes"] \in Nat
      /\ job.size \in Nat /\ "yes" \in Legs
  BY ReplayFacts
<1>3. ASSUME NEW j \in RunnerRecords({"replay"}, PassiveStatuses), NEW s \in PassiveStatuses, Finish(j, s)
      PROVE  /\ job' \in RunnerRecords({"replay"}, PassiveStatuses) /\ pc' = "done"
             /\ job'.filled = j.filled /\ job'.want = j.want
  BY <1>3 DEF Finish, RunnerRecords
<1>4. ASSUME UNCHANGED market
      PROVE  MarketTypeOK' /\ traded' = traded /\ live'["yes"].got = live["yes"].got
  BY <1>1, <1>4, MarketKept DEF market
<1>5. ASSUME Cancel({"yes"}) \/ CancelLost
      PROVE  MarketTypeOK' /\ traded' = traded /\ live'["yes"].got = live["yes"].got
  BY <1>1, <1>2, <1>5, CancelMoves, CancelLostMoves
<1>6. CASE ReplayDrain
  <2> DEFINE o == live["yes"]
             c == IF Complete(o) THEN o.got ELSE 0
             j == IF job.want > 0 /\ ~o.open
                  THEN [job EXCEPT !.want = 0, !.filled = job.filled + c]
                  ELSE job
  <2>1. c \in Nat /\ c <= live["yes"].got /\ job.filled + c \in Nat
    BY <1>2
  <2> HIDE DEF c
  <2>2. /\ j \in RunnerRecords({"replay"}, PassiveStatuses)
        /\ \/ j.want = job.want /\ j.filled = job.filled
           \/ j.want = 0 /\ job.want > 0 /\ j.filled = job.filled + c
    BY <1>1, <2>1 DEF RunnerRecords
  <2>3. UNCHANGED market /\ (Finish(j, "complete") \/ (pc' = "quote" /\ job' = j))
    BY <1>6 DEF ReplayDrain, c
  <2> HIDE DEF j
  <2>4. /\ job' \in RunnerRecords({"replay"}, PassiveStatuses) /\ pc' \in {"done", "quote"}
        /\ job'.filled = j.filled /\ job'.want = j.want
    BY <1>3, <2>2, <2>3 DEF PassiveStatuses
  <2>5. j.filled <= job.filled + live["yes"].got \/ j.filled = job.filled
    BY <1>2, <2>1, <2>2
  <2> QED BY <1>2, <1>4, <2>2, <2>3, <2>4, <2>5, ReplaySettles
<1>7. CASE ReplayTight
  <2> DEFINE j == [job EXCEPT !.want = 0]
  <2>1. j \in RunnerRecords({"replay"}, PassiveStatuses) /\ j.want = 0 /\ j.filled = job.filled
    BY <1>1 DEF RunnerRecords
  <2>2. Finish(j, "spread_too_tight") /\ (UNCHANGED market \/ Cancel({"yes"}) \/ CancelLost)
    BY <1>7 DEF ReplayTight
  <2> HIDE DEF j
  <2>3. /\ job' \in RunnerRecords({"replay"}, PassiveStatuses) /\ pc' = "done"
        /\ job'.filled = job.filled /\ job'.want = 0
    BY <1>3, <2>1, <2>2 DEF PassiveStatuses
  <2> QED BY <1>4, <1>5, <2>2, <2>3, ReplaySettles
<1>8. CASE ReplayGuard
  <2>1. Finish(job, "partial") /\ UNCHANGED market
    BY <1>8 DEF ReplayGuard
  <2>2. /\ job' \in RunnerRecords({"replay"}, PassiveStatuses) /\ pc' = "done"
        /\ job'.filled = job.filled /\ job'.want = job.want
    BY <1>1, <1>3, <2>1 DEF PassiveStatuses
  <2> QED BY <1>4, <2>1, <2>2, ReplaySettles
<1>9. CASE ReplayKeep
  BY <1>1, <1>4, <1>9, ReplaySettles DEF ReplayKeep, market
<1>10. CASE ReplayReplace
  <2>1. PICK answered \in BOOLEAN :
          LET fill == Least(Remaining(job), CancelCredit(live["yes"], answered))
              j == [Credited(job, fill) EXCEPT !.want = 0]
          IN /\ IF answered THEN Cancel({"yes"}) ELSE CancelLost
             /\ IF Remaining(j) = 0 THEN Finish(j, "complete") ELSE pc' = "post" /\ job' = j
    BY <1>10 DEF ReplayReplace
  <2> DEFINE fill == Least(Remaining(job), CancelCredit(live["yes"], answered))
             j == [Credited(job, fill) EXCEPT !.want = 0]
  <2>2. fill \in Nat /\ fill <= live["yes"].got /\ job.filled + fill \in Nat
    BY <1>2 DEF CancelCredit, Remaining, Monus, Least
  <2>3. Finish(j, "complete") \/ (pc' = "post" /\ job' = j)
    BY <2>1
  <2>4. Cancel({"yes"}) \/ CancelLost
    BY <2>1
  <2> HIDE DEF fill
  <2>5. /\ j \in RunnerRecords({"replay"}, PassiveStatuses) /\ j.want = 0
        /\ j.filled = job.filled + fill
    BY <1>1, <2>2 DEF RunnerRecords, Credited
  <2> HIDE DEF j
  <2>6. /\ job' \in RunnerRecords({"replay"}, PassiveStatuses) /\ pc' \in {"done", "post"}
        /\ job'.filled = job.filled + fill /\ job'.want = 0
    BY <1>3, <2>3, <2>5 DEF PassiveStatuses
  <2>7. job.filled + fill <= job.filled + live["yes"].got /\ job.want > 0
    BY <1>2, <1>10, <2>2 DEF ReplayReplace
  <2> QED BY <1>5, <2>4, <2>6, <2>7, ReplaySettles
<1> QED BY <1>6, <1>7, <1>8, <1>9, <1>10

LEMMA ReplayPostInv == ReplayInv /\ ReplayPost => ReplayInv'
<1> SUFFICES ASSUME ReplayInv, ReplayPost PROVE ReplayInv'
  OBVIOUS
<1>1. /\ job \in RunnerRecords({"replay"}, PassiveStatuses) /\ MarketTypeOK
      /\ job.want = 0 /\ job.filled <= traded["yes"]
  BY DEF ReplayInv, ReplayPost
<1>2. /\ job.filled \in Nat /\ job.posted \in Nat /\ job.unit \in Nat /\ job.size \in Nat
      /\ traded["yes"] \in Nat /\ "yes" \in Legs
  BY ReplayFacts
<1> DEFINE chunk == Least(job.unit, Remaining(job))
           j == [job EXCEPT !.posted = job.posted + chunk]
<1>3. chunk \in Nat /\ job.posted + chunk \in Nat
  BY <1>2 DEF Least, Remaining, Monus
<1>4. \/ Finish(job, "partial") /\ UNCHANGED market
      \/ PostLost("yes", chunk) /\ Finish(j, "error")
      \/ /\ \E f \in 0 .. chunk : Follow("yes", [n |-> chunk, got |-> f, open |-> f < chunk])
         /\ IF Complete(live'["yes"])
            THEN IF Remaining(Credited(j, chunk)) = 0
                 THEN Finish(Credited(j, chunk), "complete")
                 ELSE pc' = "tick" /\ job' = Credited(j, chunk)
            ELSE pc' = "tick" /\ job' = [j EXCEPT !.want = chunk]
  BY DEF ReplayPost
<1> HIDE DEF chunk
<1>5. /\ j \in RunnerRecords({"replay"}, PassiveStatuses)
      /\ j.want = 0 /\ j.filled = job.filled
  BY <1>1, <1>3 DEF RunnerRecords
<1> HIDE DEF j
<1>6. CASE Finish(job, "partial") /\ UNCHANGED market
  <2>1. MarketTypeOK' /\ traded' = traded
    BY <1>1, <1>6, MarketKept DEF market
  <2>2. /\ job' \in RunnerRecords({"replay"}, PassiveStatuses) /\ pc' = "done"
        /\ job'.filled = job.filled /\ job'.want = 0
    BY <1>1, <1>6 DEF Finish, RunnerRecords, PassiveStatuses
  <2> QED BY <1>1, <2>1, <2>2 DEF ReplayInv
<1>7. CASE PostLost("yes", chunk) /\ Finish(j, "error")
  <2>1. MarketTypeOK' /\ traded' = traded
    BY <1>1, <1>2, <1>3, <1>7, PostLostMoves
  <2>2. /\ job' \in RunnerRecords({"replay"}, PassiveStatuses) /\ pc' = "done"
        /\ job'.filled = job.filled /\ job'.want = 0
    BY <1>5, <1>7 DEF Finish, RunnerRecords, PassiveStatuses
  <2> QED BY <1>1, <2>1, <2>2 DEF ReplayInv
<1>8. CASE /\ \E f \in 0 .. chunk : Follow("yes", [n |-> chunk, got |-> f, open |-> f < chunk])
           /\ IF Complete(live'["yes"])
              THEN IF Remaining(Credited(j, chunk)) = 0
                   THEN Finish(Credited(j, chunk), "complete")
                   ELSE pc' = "tick" /\ job' = Credited(j, chunk)
              ELSE pc' = "tick" /\ job' = [j EXCEPT !.want = chunk]
  <2>1. /\ MarketTypeOK'
        /\ live'["yes"].n = chunk /\ live'["yes"].got \in 0 .. chunk
        /\ traded'["yes"] = traded["yes"] + live'["yes"].got
    <3>1. Rest("yes", chunk)
      BY <1>8 DEF Rest
    <3> QED BY <1>1, <1>2, <1>3, <3>1, RestMoves
  <2> DEFINE k == Credited(j, chunk)
  <2>2. k \in RunnerRecords({"replay"}, PassiveStatuses) /\ k.want = 0 /\ k.filled = job.filled + chunk
    <3>1. job.filled + chunk \in Nat
      BY <1>2, <1>3
    <3> QED BY <1>5, <3>1 DEF Credited, RunnerRecords
  <2>3. CASE Complete(live'["yes"])
    <3>1. Finish(k, "complete") \/ (pc' = "tick" /\ job' = k)
      BY <1>8, <2>3
    <3> HIDE DEF k
    <3>2. /\ job' \in RunnerRecords({"replay"}, PassiveStatuses) /\ pc' \in {"tick", "done"}
          /\ job'.filled = job.filled + chunk /\ job'.want = 0
      BY <2>2, <3>1 DEF Finish, RunnerRecords, PassiveStatuses
    <3>3. job'.filled <= traded'["yes"]
      BY <1>1, <1>2, <1>3, <2>1, <2>3, <3>2 DEF Complete
    <3> QED BY <2>1, <3>2, <3>3 DEF ReplayInv
  <2>4. CASE ~Complete(live'["yes"])
    <3>1. pc' = "tick" /\ job' = [j EXCEPT !.want = chunk]
      BY <1>8, <2>4
    <3>2. job' \in RunnerRecords({"replay"}, PassiveStatuses) /\ job'.filled = job.filled
      BY <1>3, <1>5, <3>1 DEF RunnerRecords
    <3>3. job'.filled <= traded'["yes"] /\ job'.filled + live'["yes"].got <= traded'["yes"]
      BY <1>1, <1>2, <1>3, <2>1, <3>2
    <3> QED BY <2>1, <3>1, <3>2, <3>3 DEF ReplayInv
  <2> QED BY <2>3, <2>4
<1> QED BY <1>4, <1>6, <1>7, <1>8

LEMMA ReplayStep == ReplayInv /\ (PassiveNext \/ Elsewhere) => ReplayInv'
<1> SUFFICES ASSUME ReplayInv, PassiveNext \/ Elsewhere PROVE ReplayInv'
  OBVIOUS
<1>1. job.kind = "replay" /\ "yes" \in Legs /\ MarketTypeOK
  BY ReplayFacts
<1>2. CASE ReplayDrain \/ ReplayTight \/ ReplayGuard \/ ReplayKeep \/ ReplayReplace
  <2>1. pc # "done"
    BY <1>2 DEF ReplayDrain, ReplayTight, ReplayGuard, ReplayKeep, ReplayReplace
  <2> QED BY <1>2, <2>1, ReplayTakes
<1>3. CASE ReplayPost
  BY <1>3, ReplayPostInv
<1>4. CASE Elsewhere
  <2>1. /\ MarketTypeOK' /\ pc' = pc /\ job' = job /\ Drifts("yes")
    BY <1>1, <1>4, ElsewhereMoves
  <2>2. /\ job.filled \in Nat /\ job.want \in Nat /\ live["yes"].got \in Nat /\ traded["yes"] \in Nat
        /\ live'["yes"].got \in Nat /\ traded'["yes"] \in Nat
    BY <1>1, <2>1, ReplayFacts, OrderFactsNext
  <2>3. /\ job.filled <= traded'["yes"]
        /\ job.want > 0 => job.filled + live'["yes"].got <= traded'["yes"]
    BY <2>1, <2>2 DEF ReplayInv, Drifts
  <2> QED BY <2>1, <2>3 DEF ReplayInv
<1>5. ~(PassiveTick \/ PassiveGuard \/ PassivePost \/ PassiveFilled \/ PassiveCancel)
  BY <1>1 DEF PassiveTick, PassiveGuard, PassivePost, PassiveFilled, PassiveCancel
<1> QED BY <1>2, <1>3, <1>4, <1>5 DEF PassiveNext

-----------------------------------------------------------------------------
(* The strategies that work one order after another, but for the ladder.   *)

RestingStatuses ==
  {"running", "complete", "error", "filled", "partial", "unfilled", "caller_stopped",
   "safety_cap_hit", "gtc_fully_filled", "sweep_partial"}

\* The job follows an order that rests.
Holding == pc \in {"check", "poll", "wait"}

Held == IF Holding THEN live["yes"].got ELSE 0

SweepingKinds == {"aggressive", "iceberg", "stealth", "prepend"}

SweepingTypeOK ==
  /\ job \in RunnerRecords(SweepingKinds, RestingStatuses)
  /\ pc \in {"tick", "check", "poll", "wait", "sweep", "done"}
  /\ MarketTypeOK /\ Clean("no")

\* No order is sent for more than what is left, and none before the last one
\* has ended.
SweepingWork ==
  /\ pc # "done" => /\ job.filled <= job.size /\ stray["yes"] = 0
                    /\ job.filled + Held = traded["yes"]
                    /\ ~Holding => ~live["yes"].open
  /\ Holding => job.filled + live["yes"].n <= job.size
  /\ pc \in {"check", "poll"} => live["yes"].n = job.want /\ 0 <= job.step /\ job.step <= live["yes"].got
  /\ pc = "wait" \/ (pc = "tick" /\ job.kind \in {"aggressive", "prepend"}) => job.filled = 0

\* What a job leaves when it ends
SweepingEnd ==
  /\ job.filled <= traded["yes"] /\ Committed("yes") <= job.size
  /\ pc = "done" /\ ~lost /\ job.status # "error" =>
       Clean("yes") /\ (job.filled = traded["yes"] \/ (job.kind = "iceberg" /\ job.stopped))

SweepingInv == SweepingTypeOK /\ SweepingWork /\ SweepingEnd

LEMMA SweepingFacts ==
  ASSUME SweepingInv
  PROVE  /\ job \in RunnerRecords(SweepingKinds, RestingStatuses) /\ MarketTypeOK /\ Clean("no")
         /\ job.kind \in SweepingKinds
         /\ job.size \in Nat /\ job.unit \in Nat /\ job.filled \in Nat /\ job.posted \in Nat
         /\ job.want \in Nat /\ job.step \in Int
         /\ live["yes"].n \in Nat /\ live["yes"].got \in Nat /\ live["yes"].got <= live["yes"].n
         /\ live["yes"].open => live["yes"].got < live["yes"].n
         /\ stray["yes"] \in Nat /\ traded["yes"] \in Nat /\ lost \in BOOLEAN
         /\ Committed("yes") \in Nat /\ traded["yes"] <= Committed("yes") /\ Committed("yes") <= job.size
         /\ "yes" \in Legs /\ "no" \in Legs
<1>1. /\ "yes" \in Legs /\ "no" \in Legs /\ MarketTypeOK /\ Clean("no")
      /\ job \in RunnerRecords(SweepingKinds, RestingStatuses)
  BY DEF Legs, SweepingInv, SweepingTypeOK
<1>2. Committed("yes") <= job.size
  BY DEF SweepingInv, SweepingEnd
<1> QED BY <1>1, <1>2, RunnerFields, OrderFacts

\* Between two orders nothing is on the book and everything is accounted for.
LEMMA SweepingIdle ==
  ASSUME SweepingInv, pc \in {"tick", "sweep"}
  PROVE  /\ Clean("yes") /\ job.filled = traded["yes"] /\ job.filled <= job.size
         /\ Committed("yes") = traded["yes"] /\ Outstanding(live["yes"]) = 0 /\ stray["yes"] = 0
<1>1. /\ ~Holding /\ Held = 0
  BY DEF Holding, Held
<1>2. /\ stray["yes"] = 0 /\ ~live["yes"].open /\ job.filled + 0 = traded["yes"] /\ job.filled <= job.size
  BY <1>1 DEF SweepingInv, SweepingWork
<1>3. MarketTypeOK /\ "yes" \in Legs /\ job.filled \in Nat
  BY SweepingFacts
<1>4. Clean("yes")
  BY <1>2 DEF Clean
<1> QED BY <1>2, <1>3, <1>4, OrderFacts DEF Outstanding

LEMMA SweepingInitInv == RestingInit /\ job.kind # "ladder" => SweepingInv
<1> SUFFICES ASSUME RestingInit, job.kind # "ladder" PROVE SweepingInv
  OBVIOUS
<1>1. /\ MarketTypeOK /\ ~lost /\ \A l \in Legs : live[l] = NoOrder /\ Clean(l) /\ traded[l] = 0 /\ Committed(l) = 0
  BY MarketInitFacts DEF RestingInit
<1>2. PICK kind \in SweepingKinds, size \in Nat, unit \in Nat : job = NewJob(kind, size, unit, <<>>)
  <2>1. RestingSizes \subseteq Nat /\ 1 \in Nat
    BY RestingAssumption
  <2>2. CASE job \in AggressiveJobs
    BY <2>1, <2>2 DEF AggressiveJobs, SweepingKinds
  <2>3. CASE job \in IcebergJobs
    BY <2>1, <2>3 DEF IcebergJobs, SweepingKinds
  <2>4. CASE job \in StealthJobs
    BY <2>1, <2>4 DEF StealthJobs, SweepingKinds
  <2>5. CASE job \in PrependJobs
    BY <2>1, <2>5 DEF PrependJobs, SweepingKinds
  <2>6. job \notin LadderJobs
    BY DEF LadderJobs, NewJob
  <2> QED BY <2>2, <2>3, <2>4, <2>5, <2>6 DEF RestingInit, RestingJobs
<1>3. <<>> \in Rungs /\ "running" \in RestingStatuses
  BY DEF Rungs, RestingStatuses
<1>4. /\ job \in RunnerRecords(SweepingKinds, RestingStatuses)
      /\ job.size = size /\ job.filled = 0
  BY <1>2, <1>3, NewJobFields
<1>5. pc = "tick" /\ "yes" \in Legs /\ "no" \in Legs
  BY DEF RestingInit, Legs
<1>6. ~Holding /\ Held = 0
  BY <1>5 DEF Holding, Held
<1>7. SweepingTypeOK
  BY <1>1, <1>4, <1>5 DEF SweepingTypeOK
<1>8. SweepingWork
  BY <1>1, <1>4, <1>5, <1>6 DEF SweepingWork, Clean
<1>9. SweepingEnd
  BY <1>1, <1>4, <1>5 DEF SweepingEnd
<1> QED BY <1>7, <1>8, <1>9 DEF SweepingInv

\* A job that fails has sent at most one more order, of what was left.
LEMMA SweepingFails ==
  ASSUME SweepingInv, pc # "done", pc' = "done",
         job' \in RunnerRecords(SweepingKinds, RestingStatuses), job'.status = "error",
         job'.size = job.size, job'.filled = job.filled,
         \/ UNCHANGED market \/ CancelLost \/ Cancel({"yes"})
         \/ /\ pc \in {"tick", "sweep"}
            /\ \E n \in Nat : job.filled + n <= job.size /\ PostLost("yes", n)
  PROVE  SweepingInv'
<1>1. MarketTypeOK /\ "yes" \in Legs /\ "no" \in Legs /\ Clean("no")
  BY SweepingFacts
<1>2. /\ job.size \in Nat /\ job.filled \in Nat /\ traded["yes"] \in Nat
      /\ Committed("yes") \in Nat /\ Committed("yes") <= job.size
  BY SweepingFacts
<1>3. /\ MarketTypeOK' /\ traded' = traded /\ Clean("no")' /\ Committed("yes")' <= job.size
  <2>1. CASE UNCHANGED market \/ CancelLost
    <3>1. MarketTypeOK' /\ traded' = traded /\ live' = live /\ stray' = stray
      BY <1>1, <2>1, MarketKept, CancelLostMoves DEF market
    <3>2. Clean("no")' /\ Committed("yes")' = Committed("yes")
      BY <1>1, <3>1 DEF Clean, Committed
    <3> QED BY <1>2, <3>1, <3>2
  <2>2. CASE Cancel({"yes"})
    <3>1. /\ MarketTypeOK' /\ traded' = traded /\ Clean("no")' /\ Committed("yes")' <= Committed("yes")
      BY <1>1, <2>2, CancelMoves DEF Clean
    <3>2. Committed("yes")' \in Nat
      BY <1>1, <3>1, OrderFactsNext
    <3> QED BY <1>2, <3>1, <3>2
  <2>3. ASSUME pc \in {"tick", "sweep"}, NEW n \in Nat, job.filled + n <= job.size, PostLost("yes", n)
        PROVE  MarketTypeOK' /\ traded' = traded /\ Clean("no")' /\ Committed("yes")' <= job.size
    <3>1. /\ MarketTypeOK' /\ traded' = traded /\ Untouched("no")
          /\ Committed("yes")' \in {Committed("yes"), Committed("yes") + n}
      <4>1. "no" \in Legs \ {"yes"}
        BY <1>1
      <4> QED BY <1>1, <2>3, <4>1, PostLostMoves
    <3>2. Committed("yes") = job.filled
      BY <2>3, SweepingIdle
    <3>3. Committed("yes")' <= job.size
      BY <1>2, <2>3, <3>1, <3>2
    <3> QED BY <1>1, <3>1, <3>3 DEF Clean, Untouched
  <2> QED BY <2>1, <2>2, <2>3
<1>4. SweepingTypeOK'
  BY <1>3 DEF SweepingTypeOK
<1>5. SweepingWork'
  BY DEF SweepingWork, Holding
<1>6. job.filled <= traded["yes"]
  BY DEF SweepingInv, SweepingEnd
<1>7. SweepingEnd'
  BY <1>3, <1>6 DEF SweepingEnd
<1> QED BY <1>4, <1>5, <1>7 DEF SweepingInv

\* One IOC order for no more than what is left
LEMMA SweepingTakes ==
  ASSUME SweepingInv, pc \in {"tick", "sweep"}, NEW n \in Nat, NEW f \in 0 .. n,
         job.filled + n <= job.size, Take("yes", n, f),
         job' \in RunnerRecords(SweepingKinds, RestingStatuses),
         job'.size = job.size, job'.filled = job.filled + f, job'.kind = job.kind,
         pc' = "done" \/ (pc' = "tick" /\ job.kind \in {"iceberg", "stealth"})
  PROVE  SweepingInv'
<1>1. MarketTypeOK /\ "yes" \in Legs /\ "no" \in Legs /\ Clean("no")
  BY SweepingFacts
<1>2. /\ job.size \in Nat /\ job.filled \in Nat /\ traded["yes"] \in Nat
  BY SweepingFacts
<1>3. /\ Clean("yes") /\ job.filled = traded["yes"] /\ job.filled <= job.size
      /\ Committed("yes") = traded["yes"] /\ Outstanding(live["yes"]) = 0 /\ stray["yes"] = 0
  BY SweepingIdle
<1>4. /\ MarketTypeOK' /\ lost' = lost /\ ~live'["yes"].open
      /\ stray'["yes"] = stray["yes"] + Outstanding(live["yes"])
      /\ traded'["yes"] = traded["yes"] + f
      /\ Committed("yes")' = Committed("yes") + f
      /\ \A k \in Legs \ {"yes"} : Untouched(k)
  BY <1>1, TakeMoves
<1>5. Clean("no")' /\ stray'["yes"] = 0
  BY <1>1, <1>3, <1>4 DEF Clean, Untouched
<1>6. SweepingTypeOK'
  BY <1>4, <1>5 DEF SweepingTypeOK
<1>7. ~Holding' /\ Held' = 0
  BY DEF Holding, Held
<1>8. /\ job'.filled <= job'.size /\ job'.filled = traded'["yes"] /\ Committed("yes")' <= job'.size
      /\ job'.filled \in Nat
  BY <1>2, <1>3, <1>4
<1>9. SweepingWork'
  <2>1. pc' = "tick" => job'.kind \notin {"aggressive", "prepend"}
    OBVIOUS
  <2>2. pc' \notin {"check", "poll", "wait"}
    OBVIOUS
  <2>3. job'.filled + Held' = traded'["yes"]
    BY <1>7, <1>8
  <2> QED BY <1>4, <1>5, <1>7, <1>8, <2>1, <2>2, <2>3 DEF SweepingWork
<1>10. SweepingEnd'
  BY <1>4, <1>5, <1>8 DEF SweepingEnd, Clean
<1> QED BY <1>6, <1>9, <1>10 DEF SweepingInv

\* An order that rests, for no more than what is left
LEMMA SweepingPosts ==
  ASSUME SweepingInv, pc = "tick", NEW n \in Nat, job.filled + n <= job.size, Rest("yes", n),
         job' \in RunnerRecords(SweepingKinds, RestingStatuses),
         job'.size = job.size, job'.filled = job.filled, job'.kind = job.kind,
         \/ pc' = "check" /\ job'.want = n /\ job'.step = 0
         \/ pc' = "wait" /\ job.kind = "prepend"
  PROVE  SweepingInv'
<1>1. MarketTypeOK /\ "yes" \in Legs /\ "no" \in Legs /\ Clean("no")
  BY SweepingFacts
<1>2. /\ job.size \in Nat /\ job.filled \in Nat /\ traded["yes"] \in Nat
  BY SweepingFacts
<1>3. /\ job.filled = traded["yes"] /\ job.filled <= job.size
      /\ Committed("yes") = traded["yes"] /\ Outstanding(live["yes"]) = 0 /\ stray["yes"] = 0
  BY SweepingIdle
<1>4. /\ MarketTypeOK' /\ lost' = lost
      /\ live'["yes"].n = n /\ live'["yes"].got \in 0 .. n
      /\ stray'["yes"] = stray["yes"] + Outstanding(live["yes"])
      /\ traded'["yes"] = traded["yes"] + live'["yes"].got
      /\ Committed("yes")' = Committed("yes") + n
      /\ \A k \in Legs \ {"yes"} : Untouched(k)
  BY <1>1, RestMoves
<1>5. Clean("no")' /\ stray'["yes"] = 0
  BY <1>1, <1>3, <1>4 DEF Clean, Untouched
<1>6. SweepingTypeOK'
  BY <1>4, <1>5 DEF SweepingTypeOK
<1>7. Holding' /\ Held' = live'["yes"].got
  BY DEF Holding, Held
<1>8. /\ job'.filled <= job'.size /\ Committed("yes")' <= job'.size
      /\ job'.filled + Held' = traded'["yes"] /\ job'.filled + live'["yes"].n <= job'.size
      /\ job'.filled <= traded'["yes"] /\ 0 <= live'["yes"].got
  BY <1>2, <1>3, <1>4, <1>7
<1>9. pc' = "wait" => job'.filled = 0
  BY DEF SweepingInv, SweepingWork
<1>10. SweepingWork'
  BY <1>4, <1>5, <1>7, <1>8, <1>9 DEF SweepingWork
<1>11. SweepingEnd'
  BY <1>8 DEF SweepingEnd
<1> QED BY <1>6, <1>10, <1>11 DEF SweepingInv

\* The order ended, was canceled, or was looked at; or nothing was to be done.
LEMMA SweepingSettles ==
  ASSUME SweepingInv, pc # "done", UNCHANGED market \/ Cancel({"yes"}),
         job' \in RunnerRecords(SweepingKinds, RestingStatuses),
         job'.size = job.size, job'.kind = job.kind, job'.want = job.want,
         \/ /\ Holding /\ job'.filled = job.filled /\ UNCHANGED market
            /\ pc \in {"check", "poll"} /\ pc' \in {"check", "poll"}
            /\ 0 <= job'.step /\ job'.step <= live["yes"].got
         \/ /\ Holding /\ job'.filled = job.filled + live["yes"].got /\ ~live'["yes"].open
            /\ pc' = "done" \/ pc' = "sweep" \/ (pc' = "tick" /\ pc = "poll" /\ job.kind = "iceberg")
         \/ ~Holding /\ job'.filled = job.filled /\ pc' = "done"
         \/ /\ Holding /\ job.kind = "iceberg" /\ job'.stopped /\ Cancel({"yes"}) /\ pc' = "done"
            /\ job'.filled <= job.filled + live["yes"].got
  PROVE  SweepingInv'
<1>1. MarketTypeOK /\ "yes" \in Legs /\ "no" \in Legs /\ Clean("no")
  BY SweepingFacts
<1>2. /\ job.size \in Nat /\ job.filled \in Nat /\ traded["yes"] \in Nat /\ live["yes"].got \in Nat
      /\ live["yes"].n \in Nat /\ live["yes"].got <= live["yes"].n
      /\ Committed("yes") \in Nat /\ Committed("yes") <= job.size
  BY SweepingFacts
<1>3. /\ MarketTypeOK' /\ stray' = stray /\ traded' = traded /\ lost' = lost /\ Clean("no")'
      /\ live'["yes"].got = live["yes"].got /\ live'["yes"].n = live["yes"].n
      /\ live'["yes"].open => live["yes"].open
      /\ Cancel({"yes"}) => ~live'["yes"].open
      /\ Committed("yes")' <= Committed("yes")
  <2>1. CASE UNCHANGED market /\ ~Cancel({"yes"})
    <3>1. MarketTypeOK' /\ stray' = stray /\ traded' = traded /\ lost' = lost /\ live' = live
      BY <1>1, <2>1, MarketKept DEF market
    <3>2. Clean("no")' /\ Committed("yes")' = Committed("yes")
      BY <1>1, <3>1 DEF Clean, Committed
    <3>3. Committed("yes")' <= Committed("yes")
      BY <1>2, <3>2
    <3> QED BY <2>1, <3>1, <3>2, <3>3
  <2>2. CASE Cancel({"yes"})
    BY <1>1, <2>2, CancelMoves DEF Clean
  <2> QED BY <2>1, <2>2
<1>4. Committed("yes")' <= job'.size
  <2>1. Committed("yes")' \in Nat
    BY <1>1, <1>3, OrderFactsNext
  <2> QED BY <1>2, <1>3, <2>1
<1>5. pc' \in {"tick", "check", "poll", "wait", "sweep", "done"}
  OBVIOUS
<1>6. SweepingTypeOK'
  BY <1>3, <1>5 DEF SweepingTypeOK
<1>7. /\ stray["yes"] = 0 /\ job.filled <= job.size /\ job.filled + Held = traded["yes"]
      /\ Holding => job.filled + live["yes"].n <= job.size
      /\ ~Holding => ~live["yes"].open
      /\ pc \in {"check", "poll"} => live["yes"].n = job.want
  BY DEF SweepingInv, SweepingWork
<1>8. CASE /\ Holding /\ job'.filled = job.filled /\ UNCHANGED market
           /\ pc \in {"check", "poll"} /\ pc' \in {"check", "poll"}
           /\ 0 <= job'.step /\ job'.step <= live["yes"].got
  <2>1. Holding' /\ Held' = live["yes"].got /\ Held = live["yes"].got
    BY <1>3, <1>8 DEF Holding, Held
  <2>2. SweepingWork'
    BY <1>3, <1>7, <1>8, <2>1 DEF SweepingWork
  <2>3. job.filled <= traded["yes"]
    BY <1>2, <1>7, <2>1
  <2>4. SweepingEnd'
    BY <1>3, <1>4, <1>8, <2>3 DEF SweepingEnd
  <2> QED BY <1>6, <2>2, <2>4 DEF SweepingInv
<1>9. CASE /\ Holding /\ job'.filled = job.filled + live["yes"].got /\ ~live'["yes"].open
           /\ pc' = "done" \/ pc' = "sweep" \/ (pc' = "tick" /\ pc = "poll" /\ job.kind = "iceberg")
  <2>1. ~Holding' /\ Held' = 0 /\ Held = live["yes"].got
    BY <1>3, <1>9 DEF Holding, Held
  <2>2. /\ job'.filled = traded["yes"] /\ job'.filled <= job'.size /\ job'.filled \in Nat
        /\ job'.filled + 0 = traded["yes"]
    BY <1>2, <1>7, <1>9, <2>1
  <2>3. SweepingWork'
    BY <1>3, <1>7, <1>9, <2>1, <2>2 DEF SweepingWork
  <2>4. SweepingEnd'
    BY <1>3, <1>4, <1>7, <1>9, <2>2 DEF SweepingEnd, Clean
  <2> QED BY <1>6, <2>3, <2>4 DEF SweepingInv
<1>10. CASE ~Holding /\ job'.filled = job.filled /\ pc' = "done"
  <2>1. ~Holding' /\ Held = 0
    BY <1>10 DEF Holding, Held
  <2>2. job'.filled = traded["yes"]
    BY <1>2, <1>7, <1>10, <2>1
  <2>3. SweepingWork'
    BY <1>10, <2>1 DEF SweepingWork
  <2>4. SweepingEnd'
    BY <1>2, <1>3, <1>4, <1>7, <1>10, <2>2 DEF SweepingEnd, Clean
  <2> QED BY <1>6, <2>3, <2>4 DEF SweepingInv
<1>11. CASE /\ Holding /\ job.kind = "iceberg" /\ job'.stopped /\ Cancel({"yes"}) /\ pc' = "done"
            /\ job'.filled <= job.filled + live["yes"].got
  <2>1. ~Holding' /\ Held = live["yes"].got
    BY <1>11 DEF Holding, Held
  <2>2. job'.filled <= traded["yes"]
    BY <1>2, <1>7, <1>11, <2>1
  <2>3. SweepingWork'
    BY <1>11, <2>1 DEF SweepingWork
  <2>4. SweepingEnd'
    BY <1>3, <1>4, <1>7, <1>11, <2>2 DEF SweepingEnd, Clean
  <2> QED BY <1>6, <2>3, <2>4 DEF SweepingInv
<1> QED BY <1>8, <1>9, <1>10, <1>11

\* The job ends with a status; its record stays one of a job.
LEMMA SweepingFinishes ==
  ASSUME NEW j \in RunnerRecords(SweepingKinds, RestingStatuses), NEW s \in RestingStatuses, Finish(j, s)
  PROVE  /\ job' \in RunnerRecords(SweepingKinds, RestingStatuses) /\ pc' = "done" /\ job'.status = s
         /\ job'.size = j.size /\ job'.filled = j.filled /\ job'.kind = j.kind /\ job'.want = j.want
         /\ job'.stopped = j.stopped
BY DEF RunnerRecords, Finish

LEMMA AggressiveInv == SweepingInv /\ AggressiveRun => SweepingInv'
<1> SUFFICES ASSUME SweepingInv, AggressiveRun PROVE SweepingInv'
  OBVIOUS
<1>1. /\ job \in RunnerRecords(SweepingKinds, RestingStatuses) /\ job.size \in Nat
      /\ MarketTypeOK /\ "yes" \in Legs
  BY SweepingFacts
<1>2. pc = "tick" /\ job.kind = "aggressive" /\ job.filled = 0
  BY DEF AggressiveRun, SweepingInv, SweepingWork
<1>3. CASE SweepThrows("yes", job.size) /\ Finish(job, "error")
  <2>1. UNCHANGED market \/ \E n \in Nat : job.filled + n <= job.size /\ PostLost("yes", n)
    BY <1>1, <1>2, <1>3 DEF SweepThrows
  <2> QED BY <1>1, <1>2, <1>3, <2>1, SweepingFinishes, SweepingFails DEF RestingStatuses
<1>4. ASSUME NEW f \in ReduceFills("yes", job.size), Take("yes", job.size, f),
             Finish([job EXCEPT !.filled = f], SweepStatus(f, job.size))
      PROVE  SweepingInv'
  <2>1. f \in 0 .. job.size
    BY <1>1, ReduceFillsBound
  <2>2. SweepStatus(f, job.size) \in RestingStatuses
    BY DEF SweepStatus, RestingStatuses
  <2> DEFINE j == [job EXCEPT !.filled = f]
  <2>3. /\ j \in RunnerRecords(SweepingKinds, RestingStatuses)
        /\ j.size = job.size /\ j.filled = f /\ j.kind = job.kind
    BY <1>1, <2>1 DEF RunnerRecords
  <2>4. Finish(j, SweepStatus(f, job.size))
    BY <1>4
  <2> HIDE DEF j
  <2>5. /\ job' \in RunnerRecords(SweepingKinds, RestingStatuses) /\ pc' = "done"
        /\ job'.size = job.size /\ job'.filled = f /\ job'.kind = job.kind
    BY <2>2, <2>3, <2>4, SweepingFinishes
  <2>6. f = job.filled + f /\ job.filled + job.size <= job.size
    BY <1>1, <1>2, <2>1
  <2> QED BY <1>1, <1>2, <1>4, <2>1, <2>5, <2>6, SweepingTakes
<1> QED BY <1>3, <1>4 DEF AggressiveRun

LEMMA IcebergPostInv == SweepingInv /\ IcebergPost => SweepingInv'
<1> SUFFICES ASSUME SweepingInv, IcebergPost PROVE SweepingInv'
  OBVIOUS
<1>1. /\ job \in RunnerRecords(SweepingKinds, RestingStatuses) /\ MarketTypeOK /\ "yes" \in Legs
      /\ job.size \in Nat /\ job.unit \in Nat /\ job.filled \in Nat /\ job.posted \in Nat
  BY SweepingFacts
<1>2. pc = "tick" /\ job.kind = "iceberg" /\ ~Holding
  BY DEF IcebergPost, Holding
<1>3. ASSUME NEW s \in RestingStatuses, Finish(job, s), UNCHANGED market PROVE SweepingInv'
  BY <1>1, <1>2, <1>3, SweepingFinishes, SweepingSettles
<1> DEFINE n == IcebergSlice(job)
<1>4. Left > 0 => n \in Nat /\ job.filled + n <= job.size
  BY <1>1 DEF IcebergSlice, Left, Least
<1>5. ASSUME Left > 0, PostLost("yes", n), Finish(job, "error") PROVE SweepingInv'
  BY <1>1, <1>2, <1>4, <1>5, SweepingFinishes, SweepingFails DEF RestingStatuses
<1>6. ASSUME Left > 0, Rest("yes", n), pc' = "check",
             job' = [job EXCEPT !.want = n, !.posted = job.posted + n, !.step = 0]
      PROVE  SweepingInv'
  <2> HIDE DEF n
  <2>1. n \in Nat /\ job.filled + n <= job.size
    BY <1>4, <1>6
  <2>2. job.posted + n \in Nat
    BY <1>1, <2>1
  <2>3. /\ job' \in RunnerRecords(SweepingKinds, RestingStatuses)
        /\ job'.size = job.size /\ job'.filled = job.filled /\ job'.kind = job.kind
        /\ job'.want = n /\ job'.step = 0
    <3>1. 0 \in Int
      OBVIOUS
    <3> QED BY <1>1, <1>6, <2>1, <2>2, <3>1 DEF RunnerRecords
  <2> QED BY <1>2, <1>6, <2>1, <2>3, SweepingPosts
<1> QED BY <1>3, <1>5, <1>6 DEF IcebergPost, RestingStatuses

LEMMA IcebergLooksInv == SweepingInv /\ (IcebergCheck \/ IcebergPoll) => SweepingInv'
<1> SUFFICES ASSUME SweepingInv, IcebergCheck \/ IcebergPoll PROVE SweepingInv'
  OBVIOUS
<1>1. /\ job \in RunnerRecords(SweepingKinds, RestingStatuses) /\ MarketTypeOK /\ "yes" \in Legs
      /\ job.size \in Nat /\ job.filled \in Nat /\ job.step \in Int /\ job.want \in Nat
      /\ live["yes"].n \in Nat /\ live["yes"].got \in Nat /\ live["yes"].got <= live["yes"].n
      /\ live["yes"].open => live["yes"].got < live["yes"].n
  BY SweepingFacts
<1>2. pc \in {"check", "poll"} /\ job.kind = "iceberg" /\ Holding /\ pc # "done"
  BY DEF IcebergCheck, IcebergPoll, Holding
<1>3. live["yes"].n = job.want /\ 0 <= job.step /\ job.step <= live["yes"].got
  BY <1>2 DEF SweepingInv, SweepingWork
<1>4. CASE IcebergCheck /\ ~job.stopped /\ pc' = "poll" /\ UNCHANGED <<job, live, stray, traded, lost>>
  BY <1>1, <1>2, <1>3, <1>4, SweepingSettles DEF market
<1>5. CASE /\ job.stopped /\ Cancel({"yes"})
           /\ Finish([job EXCEPT !.filled = job.filled + job.step], "caller_stopped")
  <2> DEFINE j == [job EXCEPT !.filled = job.filled + job.step]
  <2>1. job.filled + job.step \in Nat /\ job.filled + job.step <= job.filled + live["yes"].got
    BY <1>1, <1>3
  <2>2. /\ j \in RunnerRecords(SweepingKinds, RestingStatuses)
        /\ j.size = job.size /\ j.filled = job.filled + job.step /\ j.kind = job.kind
        /\ j.want = job.want /\ j.stopped = job.stopped
    BY <1>1, <2>1 DEF RunnerRecords
  <2>3. Finish(j, "caller_stopped")
    BY <1>5
  <2> HIDE DEF j
  <2>4. /\ job' \in RunnerRecords(SweepingKinds, RestingStatuses) /\ pc' = "done"
        /\ job'.size = job.size /\ job'.filled = job.filled + job.step /\ job'.kind = job.kind
        /\ job'.want = job.want /\ job'.stopped
    BY <1>5, <2>2, <2>3, SweepingFinishes DEF RestingStatuses
  <2> QED BY <1>2, <1>5, <2>1, <2>4, SweepingSettles
<1>6. CASE Finish(job, "error") /\ (CancelLost \/ UNCHANGED market)
  BY <1>1, <1>2, <1>6, SweepingFinishes, SweepingFails DEF RestingStatuses
<1> DEFINE seen == live["yes"].got
<1>7. CASE pc' = "check" /\ job' = [job EXCEPT !.step = seen] /\ UNCHANGED market
  <2>1. /\ job' \in RunnerRecords(SweepingKinds, RestingStatuses)
        /\ job'.size = job.size /\ job'.filled = job.filled /\ job'.kind = job.kind
        /\ job'.want = job.want /\ job'.step = seen
    BY <1>1, <1>7 DEF RunnerRecords
  <2> QED BY <1>1, <1>2, <1>7, <2>1, SweepingSettles
<1>8. CASE /\ pc = "poll" /\ seen = job.want /\ pc' = "tick"
           /\ job' = [job EXCEPT !.filled = job.filled + seen] /\ UNCHANGED market
  <2>1. job.filled + seen \in Nat
    BY <1>1
  <2>2. /\ job' \in RunnerRecords(SweepingKinds, RestingStatuses)
        /\ job'.size = job.size /\ job'.filled = job.filled + seen /\ job'.kind = job.kind
        /\ job'.want = job.want
    BY <1>1, <1>8, <2>1 DEF RunnerRecords
  <2>3. ~live'["yes"].open
    <3>1. live' = live /\ ~(live["yes"].got < live["yes"].n)
      BY <1>1, <1>3, <1>8 DEF market
    <3> QED BY <1>1, <3>1
  <2> QED BY <1>1, <1>2, <1>8, <2>2, <2>3, SweepingSettles
<1>9. CASE IcebergCheck
  BY <1>4, <1>5, <1>6, <1>9 DEF IcebergCheck
<1>10. CASE IcebergPoll
  BY <1>6, <1>7, <1>8, <1>10 DEF IcebergPoll
<1> QED BY <1>9, <1>10

LEMMA StealthInv == SweepingInv /\ (StealthEnd \/ StealthChunk) => SweepingInv'
<1> SUFFICES ASSUME SweepingInv, StealthEnd \/ StealthChunk PROVE SweepingInv'
  OBVIOUS
<1>1. /\ job \in RunnerRecords(SweepingKinds, RestingStatuses) /\ MarketTypeOK /\ "yes" \in Legs
      /\ job.size \in Nat /\ job.unit \in Nat /\ job.filled \in Nat /\ job.posted \in Nat
  BY SweepingFacts
<1>2. pc = "tick" /\ job.kind = "stealth" /\ ~Holding
  BY Zenon DEF StealthEnd, StealthChunk, Holding
<1>3. CASE StealthEnd
  <2>1. PICK s \in RestingStatuses : Finish(job, s)
    BY <1>3 DEF StealthEnd, RestingStatuses
  <2> QED BY <1>1, <1>2, <1>3, <2>1, SweepingFinishes, SweepingSettles DEF StealthEnd
<1>4. CASE StealthChunk
  <2>9. Left > 0 /\ StealthRoom(job) > 0
    BY Zenon, <1>4 DEF StealthChunk
  <2>2. PICK raw \in JitteredChunks(job.unit) :
             LET n == Least(Least(raw, Left), StealthRoom(job))
                 j == [job EXCEPT !.posted = job.posted + n]
             IN \/ PostLost("yes", n) /\ Finish(j, "error")
                \/ \E f \in 0 .. n :
                     Take("yes", n, f) /\ job' = [j EXCEPT !.filled = j.filled + f] /\ pc' = "tick"
    BY Zenon, <1>4 DEF StealthChunk
  <2> DEFINE n == Least(Least(raw, Left), StealthRoom(job))
             j == [job EXCEPT !.posted = job.posted + n]
  <2>3. n \in Nat /\ job.filled + n <= job.size
    <3>1. raw \in Nat /\ Left \in Nat /\ job.filled + Left = job.size
      <4>1. raw \in 1 .. (job.unit + 1)
        BY DEF JitteredChunks
      <4>2. job.size - job.filled > 0
        BY <2>9 DEF Left
      <4> QED BY <1>1, <4>1, <4>2 DEF Left
    <3>2. StealthRoom(job) \in Nat
      <4>1. StealthMultiple \in Nat
        BY RestingAssumption
      <4>2. StealthMultiple * job.size \in Nat
        BY <1>1, <4>1
      <4> QED BY <1>1, <2>9, <4>2 DEF StealthRoom
    <3> QED BY <1>1, <3>1, <3>2 DEF Least
  <2>4. job.posted + n \in Nat
    BY <1>1, <2>3
  <2>5. \/ PostLost("yes", n) /\ Finish(j, "error")
        \/ \E f \in 0 .. n :
             Take("yes", n, f) /\ job' = [j EXCEPT !.filled = j.filled + f] /\ pc' = "tick"
    BY Zenon, <2>2
  <2> HIDE DEF n
  <2>6. /\ j \in RunnerRecords(SweepingKinds, RestingStatuses)
        /\ j.size = job.size /\ j.filled = job.filled /\ j.kind = job.kind
    BY <1>1, <2>4 DEF RunnerRecords
  <2> HIDE DEF j
  <2>7. CASE PostLost("yes", n) /\ Finish(j, "error")
    BY <1>1, <1>2, <2>3, <2>6, <2>7, SweepingFinishes, SweepingFails DEF RestingStatuses
  <2>8. ASSUME NEW f \in 0 .. n, Take("yes", n, f), job' = [j EXCEPT !.filled = j.filled + f], pc' = "tick"
        PROVE  SweepingInv'
    <3>1. j.filled + f \in Nat
      BY <1>1, <2>3, <2>6
    <3>2. /\ job' \in RunnerRecords(SweepingKinds, RestingStatuses)
          /\ job'.size = job.size /\ job'.filled = job.filled + f /\ job'.kind = job.kind
      BY <2>6, <2>8, <3>1 DEF RunnerRecords
    <3> QED BY <1>2, <2>3, <2>8, <3>2, SweepingTakes
  <2> QED BY Zenon, <2>5, <2>7, <2>8
<1> QED BY <1>3, <1>4

LEMMA PrependInv == SweepingInv /\ (PrependPost \/ PrependCancel \/ PrependSweep) => SweepingInv'
<1> SUFFICES ASSUME SweepingInv, PrependPost \/ PrependCancel \/ PrependSweep PROVE SweepingInv'
  OBVIOUS
<1>1. /\ job \in RunnerRecords(SweepingKinds, RestingStatuses) /\ MarketTypeOK /\ "yes" \in Legs
      /\ job.size \in Nat /\ job.filled \in Nat /\ job.posted \in Nat /\ live["yes"].got \in Nat
  BY SweepingFacts
<1>2. job.kind = "prepend" /\ pc # "done"
  BY Zenon DEF PrependPost, PrependCancel, PrependSweep
<1>3. CASE PrependPost
  <2>1. pc = "tick" /\ job.filled = 0
    BY <1>2, <1>3 DEF PrependPost, SweepingInv, SweepingWork
  <2>2. job.filled + job.size <= job.size
    BY <1>1, <2>1
  <2>3. CASE UNCHANGED market /\ Finish(job, "error")
    BY <1>1, <1>2, <2>3, SweepingFinishes, SweepingFails DEF RestingStatuses
  <2>4. CASE PostLost("yes", job.size) /\ Finish(job, "error")
    BY <1>1, <1>2, <2>1, <2>2, <2>4, SweepingFinishes, SweepingFails DEF RestingStatuses
  <2>5. CASE Rest("yes", job.size) /\ pc' = "wait" /\ job' = [job EXCEPT !.posted = job.posted + job.size]
    <3>1. job.posted + job.size \in Nat
      BY <1>1
    <3>2. /\ job' \in RunnerRecords(SweepingKinds, RestingStatuses)
          /\ job'.size = job.size /\ job'.filled = job.filled /\ job'.kind = job.kind
      BY <1>1, <2>5, <3>1 DEF RunnerRecords
    <3> QED BY <1>1, <1>2, <2>1, <2>2, <2>5, <3>2, SweepingPosts
  <2> QED BY <1>3, <2>3, <2>4, <2>5 DEF PrependPost
<1>4. CASE PrependCancel
  <2>1. pc = "wait" /\ job.filled = 0 /\ Holding
    BY <1>4 DEF PrependCancel, SweepingInv, SweepingWork, Holding
  <2>2. CASE (CancelLost \/ Cancel({"yes"})) /\ Finish(job, "error")
    BY <1>1, <1>2, <2>2, SweepingFinishes, SweepingFails DEF RestingStatuses
  <2> DEFINE j == [job EXCEPT !.filled = live["yes"].got]
  <2>3. CASE /\ Cancel({"yes"})
             /\ Finish(j, "gtc_fully_filled") \/ (pc' = "sweep" /\ job' = j)
    <3>1. /\ j \in RunnerRecords(SweepingKinds, RestingStatuses) /\ j.want = job.want
          /\ j.size = job.size /\ j.filled = live["yes"].got /\ j.kind = job.kind
      BY <1>1 DEF RunnerRecords
    <3> HIDE DEF j
    <3>2. /\ job' \in RunnerRecords(SweepingKinds, RestingStatuses) /\ job'.want = job.want
          /\ job'.size = job.size /\ job'.filled = live["yes"].got /\ job'.kind = job.kind
          /\ pc' \in {"done", "sweep"}
      BY <2>3, <3>1, SweepingFinishes DEF RestingStatuses
    <3>3. job'.filled = job.filled + live["yes"].got
      BY <1>1, <2>1, <3>2
    <3>4. ~live'["yes"].open
      BY Zenon, <1>1, <2>3, CancelMoves
    <3> QED BY <1>2, <2>1, <2>3, <3>2, <3>3, <3>4, SweepingSettles
  <2> QED BY <1>4, <2>2, <2>3 DEF PrependCancel, AfterCancel
<1>5. CASE PrependSweep
  <2>1. pc = "sweep"
    BY Zenon, <1>5 DEF PrependSweep
  <2>2. Left \in Nat /\ job.filled + Left <= job.size
    BY <1>1, <2>1, SweepingIdle DEF Left
  <2>3. CASE SweepThrows("yes", Left) /\ Finish(job, "error")
    BY <1>1, <1>2, <2>1, <2>2, <2>3, SweepingFinishes, SweepingFails DEF RestingStatuses, SweepThrows
  <2>4. ASSUME NEW f \in ReduceFills("yes", Left), Take("yes", Left, f),
               Finish([job EXCEPT !.filled = job.filled + f, !.posted = job.posted + Left],
                      IF f = Left THEN "complete" ELSE "sweep_partial")
        PROVE  SweepingInv'
    <3>1. f \in 0 .. Left
      BY <1>1, <2>2, ReduceFillsBound
    <3>2. job.filled + f \in Nat /\ job.posted + Left \in Nat
      BY <1>1, <2>2, <3>1
    <3> DEFINE k == [job EXCEPT !.filled = job.filled + f, !.posted = job.posted + Left]
    <3>3. /\ k \in RunnerRecords(SweepingKinds, RestingStatuses)
          /\ k.size = job.size /\ k.filled = job.filled + f /\ k.kind = job.kind
      BY <1>1, <3>2 DEF RunnerRecords
    <3>4. PICK s \in RestingStatuses : Finish(k, s)
      BY <2>4 DEF RestingStatuses
    <3> HIDE DEF k
    <3>5. /\ job' \in RunnerRecords(SweepingKinds, RestingStatuses) /\ pc' = "done"
          /\ job'.size = job.size /\ job'.filled = job.filled + f /\ job'.kind = job.kind
      BY <3>3, <3>4, SweepingFinishes
    <3> QED BY <2>1, <2>2, <2>4, <3>1, <3>5, SweepingTakes
  <2> QED BY Zenon, <1>5, <2>3, <2>4 DEF PrependSweep
<1> QED BY <1>3, <1>4, <1>5

LEMMA SweepingElsewhereInv == SweepingInv /\ (Elsewhere \/ Stop) => SweepingInv'
<1> SUFFICES ASSUME SweepingInv, Elsewhere \/ Stop PROVE SweepingInv'
  OBVIOUS
<1>1. /\ job \in RunnerRecords(SweepingKinds, RestingStatuses)
      /\ MarketTypeOK /\ "yes" \in Legs /\ "no" \in Legs /\ Clean("no")
      /\ job.size \in Nat /\ job.filled \in Nat /\ traded["yes"] \in Nat /\ stray["yes"] \in Nat
      /\ live["yes"].got \in Nat
      /\ Committed("yes") \in Nat /\ Committed("yes") <= job.size
  BY SweepingFacts
<1>2. CASE Stop
  <2>1. /\ pc # "done" /\ pc' = pc /\ live' = live /\ stray' = stray /\ traded' = traded /\ lost' = lost
        /\ job' = [job EXCEPT !.stopped = TRUE]
    BY <1>2 DEF Stop
  <2>2. /\ job' \in RunnerRecords(SweepingKinds, RestingStatuses)
        /\ job'.size = job.size /\ job'.filled = job.filled /\ job'.kind = job.kind
        /\ job'.want = job.want /\ job'.step = job.step
    BY <1>1, <2>1 DEF RunnerRecords
  <2>3. SweepingTypeOK'
    BY <2>1, <2>2 DEF SweepingInv, SweepingTypeOK, MarketTypeOK, Clean
  <2>4. SweepingWork'
    BY <2>1, <2>2 DEF SweepingInv, SweepingWork, Holding, Held
  <2>5. SweepingEnd'
    BY <2>1, <2>2 DEF SweepingInv, SweepingEnd, Committed
  <2> QED BY <2>3, <2>4, <2>5 DEF SweepingInv
<1>3. CASE Elsewhere
  <2>1. /\ MarketTypeOK' /\ pc' = pc /\ job' = job /\ lost' = lost /\ Drifts("yes") /\ Drifts("no")
    BY <1>1, <1>3, ElsewhereMoves
  <2>2. /\ live'["yes"].got \in Nat /\ traded'["yes"] \in Nat /\ stray'["yes"] \in Nat
        /\ Committed("yes")' \in Nat
    BY <1>1, <2>1, OrderFactsNext
  <2>3. Clean("no")' /\ (Clean("yes") => Untouched("yes") /\ Clean("yes")')
    BY <1>1, <2>1, CleanStays
  <2>4. Committed("yes")' <= job.size /\ job.filled <= traded'["yes"]
    BY <1>1, <2>1, <2>2 DEF Drifts, SweepingInv, SweepingEnd
  <2>5. SweepingTypeOK'
    BY <2>1, <2>3 DEF SweepingInv, SweepingTypeOK
  <2>6. SweepingEnd'
    BY <2>1, <2>3, <2>4 DEF SweepingInv, SweepingEnd, Untouched
  <2>7. CASE Holding
    <3>1. Holding' /\ Held = live["yes"].got /\ Held' = live'["yes"].got
      BY <2>1, <2>7 DEF Holding, Held
    <3>2. pc # "done" /\ stray["yes"] = 0 /\ job.filled + live["yes"].got = traded["yes"]
      BY <2>7, <3>1 DEF SweepingInv, SweepingWork, Holding
    <3>3. stray'["yes"] = 0 /\ job.filled + live'["yes"].got = traded'["yes"]
      BY <1>1, <2>1, <2>2, <3>2 DEF Drifts
    <3>4. live'["yes"].n = live["yes"].n /\ live["yes"].got <= live'["yes"].got
      BY <2>1 DEF Drifts
    <3>5. pc \in {"check", "poll"} => 0 <= job.step /\ job.step <= live'["yes"].got
      <4>1. job.step \in Int
        BY <1>1, RunnerFields
      <4> QED BY <1>1, <2>2, <3>4, <4>1 DEF SweepingInv, SweepingWork
    <3>6. SweepingWork'
      <4>1. /\ job.filled <= job.size /\ job.filled + live["yes"].n <= job.size
            /\ pc \in {"check", "poll"} => live["yes"].n = job.want
            /\ pc = "wait" => job.filled = 0
            /\ pc # "tick"
        BY <2>7, <3>2 DEF SweepingInv, SweepingWork, Holding
      <4> QED BY <2>1, <3>1, <3>3, <3>4, <3>5, <4>1 DEF SweepingWork
    <3> QED BY <2>5, <2>6, <3>6 DEF SweepingInv
  <2>8. CASE ~Holding
    <3>1. ~Holding' /\ Held = 0 /\ Held' = 0
      BY <2>1, <2>8 DEF Holding, Held
    <3>2. pc \notin {"check", "poll"}
      BY <2>8 DEF Holding
    <3>3. pc # "done" => Clean("yes")
      BY <2>8 DEF SweepingInv, SweepingWork, Clean
    <3>4. SweepingWork'
      BY <2>1, <2>3, <3>1, <3>2, <3>3 DEF SweepingInv, SweepingWork, Untouched, Clean
    <3> QED BY <2>5, <2>6, <3>4 DEF SweepingInv
  <2> QED BY <2>7, <2>8
<1> QED BY <1>2, <1>3

LEMMA SweepingStep == SweepingInv /\ (RestingNext \/ Elsewhere) => SweepingInv'
<1> SUFFICES ASSUME SweepingInv, RestingNext \/ Elsewhere PROVE SweepingInv'
  OBVIOUS
<1>1. job.kind # "ladder"
  BY SweepingFacts DEF SweepingKinds
<1>2. ~LadderRung
  BY <1>1 DEF LadderRung
<1> QED BY <1>2, AggressiveInv, IcebergPostInv, IcebergLooksInv, StealthInv, PrependInv,
           SweepingElsewhereInv DEF RestingNext, RestingSteps

-----------------------------------------------------------------------------
(* Ladders: the shares of the rungs that were used.                        *)

Share(rungs, used) == SumFunctionOnSet(Pcts(rungs), used)

LEMMA ShareFacts ==
  ASSUME NEW rungs, ValidLadder(rungs), NEW used \in SUBSET (DOMAIN rungs)
  PROVE  /\ rungs \in Rungs /\ DOMAIN rungs = 1 .. Len(rungs) /\ Len(rungs) \in Nat
         /\ Share(rungs, {}) = 0
         /\ Share(rungs, used) \in Nat /\ Share(rungs, used) <= 100
         /\ \A i \in DOMAIN rungs : rungs[i].pct \in Nat
         /\ \A i \in DOMAIN rungs \ used :
              Share(rungs, used \cup {i}) = Share(rungs, used) + rungs[i].pct
<1>1. rungs \in Rungs /\ DOMAIN rungs = 1 .. Len(rungs) /\ Len(rungs) \in Nat
  BY DEF ValidLadder, Rungs
<1> DEFINE D == DOMAIN rungs
<1>2. IsFiniteSet(D) /\ IsFiniteSet(used)
  <2>1. IsFiniteSet(1 .. Len(rungs))
    <3>1. 1 \in Int /\ Len(rungs) \in Int
      BY <1>1
    <3> QED BY <3>1, FS_Interval
  <2>2. IsFiniteSet(D)
    BY <1>1, <2>1, Zenon
  <2> QED BY <2>2, FS_Subset
<1>3. \A i \in D : rungs[i] \in [price : Nat \ {0}, pct : Nat \ {0}]
  <2> DEFINE R == [price : Nat \ {0}, pct : Nat \ {0}]
  <2>1. rungs \in Seq(R)
    BY <1>1 DEF Rungs
  <2> HIDE DEF R
  <2>2. \A i \in 1 .. Len(rungs) : rungs[i] \in R
    BY <2>1
  <2> QED BY <1>1, <2>2 DEF R
<1>4. \A i \in D : rungs[i].pct \in Nat
  BY <1>3
<1>5. Pcts(rungs) \in [D -> Nat] /\ DOMAIN Pcts(rungs) = D /\ \A i \in D : Pcts(rungs)[i] = rungs[i].pct
  BY <1>4 DEF Pcts
<1>6. SumFunctionOnSet(Pcts(rungs), D) <= 100
  BY <1>5 DEF ValidLadder, SumFunction
<1>7. Share(rungs, {}) = 0 /\ Share(rungs, used) \in Nat
  BY <1>2, <1>5, SumType DEF Share
<1>8. Share(rungs, used) <= 100
  <2>1. D \in SUBSET D
    OBVIOUS
  <2>2. SumFunctionOnSet(Pcts(rungs), used) <= SumFunctionOnSet(Pcts(rungs), D)
    BY <1>2, <1>5, <2>1, SumOfFewer
  <2>3. SumFunctionOnSet(Pcts(rungs), D) \in Nat
    BY <1>2, <1>5, <2>1, SumType
  <2> QED BY <1>6, <1>7, <2>2, <2>3 DEF Share
<1>9. ASSUME NEW i \in D \ used
      PROVE  Share(rungs, used \cup {i}) = Share(rungs, used) + rungs[i].pct
  BY <1>2, <1>5, SumWith DEF Share
<1> QED BY <1>1, <1>4, <1>7, <1>8, <1>9

\* A rung takes no more than its share of the size, whatever it is rounded to.
LEMMA RungWithinShare ==
  ASSUME NEW size \in Nat, NEW n \in Nat, NEW s \in Nat, NEW rung, rung.pct \in Nat,
         s + rung.pct <= 100, 100 * n <= size * s
  PROVE  /\ RungSize(size, rung) \in Nat
         /\ 100 * (n + RungSize(size, rung)) <= size * (s + rung.pct)
         /\ n + RungSize(size, rung) <= size
<1> DEFINE p == rung.pct
           r == (size * p) \div 100
<1>1. size * p \in Nat /\ size * s \in Nat
  OBVIOUS
<1> DEFINE q == size * p
<1>2. q \in Nat
  BY <1>1
<1> HIDE DEF q
<1>3. q \div 100 \in Nat /\ 100 * (q \div 100) <= q
  BY <1>2
<1>4. r \in Nat /\ 100 * r <= size * p
  BY <1>3 DEF q
<1>5. size * (s + p) = size * s + size * p
  OBVIOUS
<1>6. size * (s + p) <= size * 100
  <2>1. PICK k \in Nat : s + p + k = 100
    <3>1. 100 - (s + p) \in Nat
      OBVIOUS
    <3> QED BY <3>1
  <2>2. size * 100 = size * (s + p) + size * k
    <3>1. size * (s + p + k) = size * (s + p) + size * k
      OBVIOUS
    <3> QED BY <2>1, <3>1
  <2>3. size * k \in Nat /\ size * (s + p) \in Nat
    OBVIOUS
  <2> QED BY <2>2, <2>3
<1> HIDE DEF r, p
<1>7. RungSize(size, rung) = r
  BY DEF RungSize, r, p
<1>8. p \in Nat
  BY DEF p
<1> DEFINE a == size * s
           b == size * p
           c == size * (s + p)
<1>9. a \in Nat /\ b \in Nat /\ c = a + b /\ c <= size * 100 /\ 100 * n <= a /\ 100 * r <= b
  BY <1>1, <1>2, <1>4, <1>5, <1>6 DEF q
<1> HIDE DEF a, b, c
<1>10. 100 * (n + r) <= c /\ n + r <= size
  BY <1>4, <1>9
<1> QED BY <1>4, <1>7, <1>10 DEF c, p

-----------------------------------------------------------------------------
(* The limit ladder.                                                       *)

\* The rungs that were posted take no more than their shares of the size.
LadderInv ==
  /\ job \in RunnerRecords({"ladder"}, RestingStatuses) /\ pc \in {"tick", "done"} /\ MarketTypeOK
  /\ ValidLadder(job.rungs) /\ job.step \in 0 .. Len(job.rungs) /\ job.filled = 0
  /\ pc = "tick" => 100 * Committed("yes") <= job.size * Share(job.rungs, 1 .. job.step)
  /\ Committed("yes") <= job.size

LEMMA LadderInitInv == RestingInit /\ job.kind = "ladder" => LadderInv
<1> SUFFICES ASSUME RestingInit, job.kind = "ladder" PROVE LadderInv
  OBVIOUS
<1>1. MarketTypeOK /\ Committed("yes") = 0
  BY MarketInitFacts DEF RestingInit, Legs
<1>2. PICK n \in RestingSizes, rungs \in Ladders : job = NewJob("ladder", n, 1, rungs)
  <2>1. job \in RestingJobs
    BY DEF RestingInit
  <2>2. job \notin AggressiveJobs \cup IcebergJobs \cup StealthJobs \cup PrependJobs
    BY DEF AggressiveJobs, IcebergJobs, StealthJobs, PrependJobs, NewJob
  <2> QED BY <2>1, <2>2 DEF RestingJobs, LadderJobs
<1>3. n \in Nat /\ 1 \in Nat /\ ValidLadder(rungs)
  BY RestingAssumption
<1>4. /\ rungs \in Rungs /\ Len(rungs) \in Nat /\ Share(rungs, {}) = 0
  <2>1. {} \in SUBSET (DOMAIN rungs)
    OBVIOUS
  <2> QED BY <1>3, <2>1, ShareFacts
<1>6. /\ job \in RunnerRecords({"ladder"}, RestingStatuses)
      /\ job.size = n /\ job.rungs = rungs /\ job.filled = 0 /\ job.step = 0
  <2> DEFINE kinds == {"ladder"}
             kind == "ladder"
             one == 1
  <2>1. kind \in kinds /\ "running" \in RestingStatuses /\ one \in Nat
    BY DEF RestingStatuses
  <2>2. job = NewJob(kind, n, one, rungs)
    BY <1>2
  <2> HIDE DEF kinds, kind, one
  <2>3. /\ job \in RunnerRecords(kinds, RestingStatuses)
        /\ job.size = n /\ job.rungs = rungs /\ job.filled = 0 /\ job.step = 0
    BY <1>3, <1>4, <2>1, <2>2, NewJobFields
  <2> QED BY <2>3 DEF kinds
<1>7. 100 * Committed("yes") <= job.size * Share(job.rungs, 1 .. job.step)
  <2>1. 1 .. job.step = {}
    BY <1>6
  <2>2. Share(job.rungs, 1 .. job.step) = 0
    BY <1>4, <1>6, <2>1
  <2> QED BY <1>1, <1>3, <1>6, <2>2
<1>8. pc = "tick" /\ job.step \in 0 .. Len(job.rungs)
  BY <1>4, <1>6 DEF RestingInit
<1>9. Committed("yes") <= job.size
  BY <1>1, <1>3, <1>6
<1> QED BY <1>1, <1>3, <1>6, <1>7, <1>8, <1>9 DEF LadderInv

LEMMA LadderRungInv == LadderInv /\ LadderRung => LadderInv'
<1> SUFFICES ASSUME LadderInv, LadderRung PROVE LadderInv'
  OBVIOUS
<1>1. /\ job \in RunnerRecords({"ladder"}, RestingStatuses) /\ MarketTypeOK /\ "yes" \in Legs
      /\ ValidLadder(job.rungs) /\ job.step \in 0 .. Len(job.rungs) /\ job.filled = 0
      /\ pc = "tick" /\ Committed("yes") <= job.size
      /\ 100 * Committed("yes") <= job.size * Share(job.rungs, 1 .. job.step)
  BY DEF LadderInv, LadderRung, Legs
<1>2. job.size \in Nat /\ job.posted \in Nat /\ Committed("yes") \in Nat /\ job.step \in Nat
  BY <1>1, RunnerFields, OrderFacts
<1> DEFINE i == job.step + 1
           rung == job.rungs[i]
           n == RungSize(job.size, job.rungs[i])
           j == [job EXCEPT !.step = i]
           used == 1 .. job.step
           C == Committed("yes")
<1>3. /\ DOMAIN job.rungs = 1 .. Len(job.rungs) /\ Len(job.rungs) \in Nat
  <2>1. {} \in SUBSET (DOMAIN job.rungs)
    OBVIOUS
  <2> QED BY <1>1, <2>1, ShareFacts
<1>4. ASSUME i <= Len(job.rungs)
      PROVE  /\ n \in Nat /\ C + n <= job.size
             /\ 100 * (C + n) <= job.size * Share(job.rungs, 1 .. i)
  <2>1. used \in SUBSET (DOMAIN job.rungs) /\ i \in DOMAIN job.rungs \ used /\ used \cup {i} = 1 .. i
    BY <1>2, <1>3, <1>4
  <2>2. /\ Share(job.rungs, used) \in Nat /\ job.rungs[i].pct \in Nat
        /\ Share(job.rungs, used \cup {i}) = Share(job.rungs, used) + job.rungs[i].pct
    <3> HIDE DEF used, i
    <3> QED BY Zenon, <1>1, <2>1, ShareFacts
  <2>3. Share(job.rungs, used) + job.rungs[i].pct <= 100
    <3>1. used \cup {i} \in SUBSET (DOMAIN job.rungs)
      BY <2>1
    <3> HIDE DEF used, i
    <3> QED BY <1>1, <2>2, <3>1, ShareFacts
  <2> DEFINE s == Share(job.rungs, used)
  <2>4. s \in Nat /\ s + rung.pct <= 100 /\ rung.pct \in Nat /\ 100 * C <= job.size * s
    BY <1>1, <2>2, <2>3
  <2>5. Share(job.rungs, 1 .. i) = s + rung.pct
    BY <2>1, <2>2
  <2> HIDE DEF s, rung, C
  <2>6. /\ RungSize(job.size, rung) \in Nat
        /\ 100 * (C + RungSize(job.size, rung)) <= job.size * (s + rung.pct)
        /\ C + RungSize(job.size, rung) <= job.size
    <3>1. C \in Nat
      BY <1>2 DEF C
    <3> QED BY <1>2, <2>4, <3>1, RungWithinShare
  <2> QED BY <2>5, <2>6 DEF rung
<1>5. ASSUME NEW k \in RunnerRecords({"ladder"}, RestingStatuses), NEW st \in RestingStatuses, Finish(k, st)
      PROVE  /\ job' \in RunnerRecords({"ladder"}, RestingStatuses) /\ pc' = "done"
             /\ job'.size = k.size /\ job'.rungs = k.rungs /\ job'.step = k.step /\ job'.filled = k.filled
  BY <1>5 DEF RunnerRecords, Finish
<1>6. CASE Finish(job, "complete") /\ UNCHANGED market
  <2>1. MarketTypeOK' /\ Committed("yes")' = Committed("yes")
    BY <1>1, <1>6, MarketKept DEF market, Committed
  <2> QED BY <1>1, <1>5, <1>6, <2>1 DEF LadderInv, RestingStatuses
<1>7. ASSUME i <= Len(job.rungs), PostLost("yes", n), Finish(job, "error") PROVE LadderInv'
  <2>1. n \in Nat /\ C + n <= job.size
    BY <1>4, <1>7
  <2> HIDE DEF n
  <2>2. MarketTypeOK' /\ Committed("yes")' \in {Committed("yes"), Committed("yes") + n}
    BY <1>1, <1>7, <2>1, PostLostMoves
  <2>3. Committed("yes")' <= job.size
    BY <1>1, <1>2, <2>1, <2>2
  <2> QED BY <1>1, <1>5, <1>7, <2>2, <2>3 DEF LadderInv, RestingStatuses
<1>8. ASSUME i <= Len(job.rungs), pc' = "tick", NEW p \in Nat, job' = [j EXCEPT !.posted = p],
             MarketTypeOK', Committed("yes")' = C + n
      PROVE  LadderInv'
  <2>1. i \in 0 .. Len(job.rungs) /\ i \in Int
    BY <1>2, <1>8
  <2>2. /\ job' \in RunnerRecords({"ladder"}, RestingStatuses)
        /\ job'.size = job.size /\ job'.rungs = job.rungs /\ job'.step = i /\ job'.filled = job.filled
    <3> HIDE DEF i
    <3> QED BY <1>1, <1>8, <2>1 DEF RunnerRecords
  <2>3. C + n <= job.size /\ 100 * (C + n) <= job.size * Share(job.rungs, 1 .. i)
    BY <1>4, <1>8
  <2> HIDE DEF i, n, C
  <2>4. /\ Committed("yes")' <= job'.size
        /\ 100 * Committed("yes")' <= job'.size * Share(job'.rungs, 1 .. job'.step)
    BY <1>8, <2>2, <2>3
  <2> QED BY <1>1, <1>8, <2>1, <2>2, <2>4 DEF LadderInv
<1>9. ASSUME i <= Len(job.rungs), n = 0, pc' = "tick", job' = j, UNCHANGED market PROVE LadderInv'
  <2>1. MarketTypeOK' /\ Committed("yes")' = Committed("yes")
    BY <1>1, <1>9, MarketKept DEF market, Committed
  <2>2. job' = [j EXCEPT !.posted = job.posted]
    BY <1>1, <1>9 DEF RunnerRecords
  <2>3. Committed("yes")' = C + n
    BY <1>2, <1>9, <2>1
  <2> QED BY Zenon, <1>2, <1>8, <1>9, <2>1, <2>2, <2>3
<1>10. ASSUME i <= Len(job.rungs), Rest("yes", n), pc' = "tick", job' = [j EXCEPT !.posted = j.posted + n]
       PROVE  LadderInv'
  <2>1. n \in Nat
    BY <1>4, <1>10
  <2>2. MarketTypeOK' /\ Committed("yes")' = C + n
    <3> HIDE DEF n
    <3> QED BY <1>1, <1>10, <2>1, RestMoves
  <2>3. j.posted = job.posted /\ job.posted + n \in Nat
    <3> HIDE DEF n
    <3> QED BY <1>1, <1>2, <2>1 DEF RunnerRecords
  <2> QED BY Zenon, <1>8, <1>10, <2>2, <2>3
<1>11. \/ i > Len(job.rungs) /\ Finish(job, "complete") /\ UNCHANGED market
       \/ i <= Len(job.rungs) /\ n = 0 /\ pc' = "tick" /\ job' = j /\ UNCHANGED market
       \/ /\ i <= Len(job.rungs) /\ n > 0
          /\ \/ PostLost("yes", n) /\ Finish(job, "error")
             \/ Rest("yes", n) /\ pc' = "tick" /\ job' = [j EXCEPT !.posted = j.posted + n]
  BY DEF LadderRung
<1> HIDE DEF i, n, j
<1> QED BY <1>6, <1>7, <1>9, <1>10, <1>11

LEMMA LadderStep == LadderInv /\ (RestingNext \/ Elsewhere) => LadderInv'
<1> SUFFICES ASSUME LadderInv, RestingNext \/ Elsewhere PROVE LadderInv'
  OBVIOUS
<1>1. /\ job \in RunnerRecords({"ladder"}, RestingStatuses) /\ job.kind = "ladder"
      /\ MarketTypeOK /\ "yes" \in Legs
  BY RunnerFields DEF LadderInv, Legs
<1>2. CASE RestingNext
  <2>1. LadderRung
    BY <1>1, <1>2 DEF RestingNext, RestingSteps, AggressiveRun, IcebergPost, IcebergCheck, IcebergPoll,
                      StealthEnd, StealthChunk, PrependPost, PrependCancel, PrependSweep
  <2> QED BY <2>1, LadderRungInv
<1>3. CASE Elsewhere
  <2>1. MarketTypeOK' /\ pc' = pc /\ job' = job /\ Drifts("yes")
    BY <1>1, <1>3, ElsewhereMoves
  <2>2. Committed("yes")' <= Committed("yes") /\ Committed("yes")' \in Nat /\ Committed("yes") \in Nat
    BY <1>1, <2>1, OrderFacts, OrderFactsNext DEF Drifts
  <2> DEFINE most == job.size * Share(job.rungs, 1 .. job.step)
  <2>3. job.size \in Nat /\ most \in Int
    <3>1. job.step \in 0 .. Len(job.rungs) /\ ValidLadder(job.rungs)
      BY DEF LadderInv
    <3>2. DOMAIN job.rungs = 1 .. Len(job.rungs) /\ Len(job.rungs) \in Nat
      <4>1. {} \in SUBSET (DOMAIN job.rungs)
        OBVIOUS
      <4> QED BY <3>1, <4>1, ShareFacts
    <3> DEFINE used == 1 .. job.step
    <3>3. used \in SUBSET (DOMAIN job.rungs)
      BY <3>1, <3>2
    <3> HIDE DEF used
    <3>4. Share(job.rungs, used) \in Nat
      BY <3>1, <3>3, ShareFacts
    <3>5. job.size \in Nat
      BY <1>1, RunnerFields
    <3> QED BY <3>4, <3>5 DEF used
  <2>4. /\ pc = "tick" => 100 * Committed("yes") <= most
        /\ Committed("yes") <= job.size
    BY DEF LadderInv
  <2> HIDE DEF most
  <2>5. /\ pc = "tick" => 100 * Committed("yes")' <= most
        /\ Committed("yes")' <= job.size
    BY <2>2, <2>3, <2>4
  <2> QED BY <2>1, <2>5 DEF LadderInv, most
<1> QED BY <1>2, <1>3

-----------------------------------------------------------------------------
(* Runs of the passive runner within another strategy.                     *)

LEMMA OutcomeFacts ==
  ASSUME NEW n \in Nat, NEW o \in PassiveOutcomes(n)
  PROVE  /\ o.filled \in Nat /\ o.traded \in Nat /\ o.stray \in Nat /\ o.lost \in BOOLEAN
         /\ o.filled <= o.traded
         /\ ~o.lost => o.filled = o.traded /\ o.stray = 0
<1> DEFINE most == Monus(2 * n, 1)
           cap == Multiple * n
<1>1. most \in Nat
  BY DEF Monus
<1>2. cap \in Nat
  BY PassiveAssumption
<1>3. CASE o \in {[filled |-> r, traded |-> r, stray |-> 0, lost |-> FALSE] : r \in 0 .. most}
  <2> HIDE DEF most
  <2>1. PICK r \in 0 .. most : o = [filled |-> r, traded |-> r, stray |-> 0, lost |-> FALSE]
    BY <1>3
  <2>2. r \in Nat
    BY <1>1
  <2> QED BY <2>1, <2>2
<1>4. CASE o \in {x \in [filled : 0 .. most, traded : 0 .. cap, stray : 0 .. cap, lost : {TRUE}] :
                    x.filled <= x.traded /\ x.traded + x.stray <= cap}
  <2> HIDE DEF most, cap
  <2>1. /\ o.filled \in 0 .. most /\ o.traded \in 0 .. cap /\ o.stray \in 0 .. cap
        /\ o.lost = TRUE /\ o.filled <= o.traded
    BY <1>4
  <2>2. o.filled \in Nat
    BY <1>1, <2>1
  <2>3. o.traded \in Nat
    BY <1>2, <2>1
  <2>4. o.stray \in Nat
    BY <1>2, <2>1
  <2>5. o.lost \in BOOLEAN /\ o.lost
    BY <2>1
  <2> QED BY <2>1, <2>2, <2>3, <2>4, <2>5
<1> QED BY <1>3, <1>4 DEF PassiveOutcomes

LEMMA RanPassiveMoves ==
  ASSUME MarketTypeOK, NEW l \in Legs, NEW n \in Nat, NEW o \in PassiveOutcomes(n), RanPassive(l, o)
  PROVE  /\ MarketTypeOK' /\ live' = live
         /\ o.filled \in Nat /\ o.traded \in Nat /\ o.filled <= o.traded
         /\ traded'[l] = traded[l] + o.traded
         /\ lost => lost'
         /\ ~lost' => o.filled = o.traded /\ stray'[l] = stray[l]
         /\ \A k \in Legs \ {l} : Untouched(k)
<1>1. /\ o.filled \in Nat /\ o.traded \in Nat /\ o.stray \in Nat /\ o.lost \in BOOLEAN
      /\ o.filled <= o.traded
      /\ ~o.lost => o.filled = o.traded /\ o.stray = 0
  BY OutcomeFacts
<1>2. /\ traded' = [traded EXCEPT ![l] = traded[l] + o.traded]
      /\ stray' = [stray EXCEPT ![l] = stray[l] + o.stray]
      /\ lost' = (lost \/ o.lost) /\ live' = live
  BY DEF RanPassive
<1>3. stray \in [Legs -> Nat] /\ traded \in [Legs -> Nat] /\ lost \in BOOLEAN
  BY DEF MarketTypeOK
<1>4. traded[l] + o.traded \in Nat /\ stray[l] + o.stray \in Nat
  BY <1>1, <1>3
<1>5. traded' \in [Legs -> Nat] /\ stray' \in [Legs -> Nat] /\ lost' \in BOOLEAN
  BY <1>1, <1>2, <1>3, <1>4
<1>6. MarketTypeOK'
  BY <1>2, <1>5 DEF MarketTypeOK
<1>7. traded'[l] = traded[l] + o.traded /\ stray'[l] = stray[l] + o.stray
  BY <1>2, <1>3
<1>8. \A k \in Legs \ {l} : Untouched(k)
  BY <1>2, <1>3 DEF Untouched
<1>9. ASSUME ~lost' PROVE o.filled = o.traded /\ stray'[l] = stray[l]
  <2>1. o.filled = o.traded /\ o.stray = 0
    BY <1>1, <1>2, <1>9
  <2>2. stray[l] \in Nat
    BY <1>3
  <2> QED BY <1>7, <2>1, <2>2
<1> QED BY <1>1, <1>2, <1>6, <1>7, <1>8, <1>9

\* A sweep that throws may have left its order behind.
LEMMA SweepThrowsMoves ==
  ASSUME MarketTypeOK, NEW l \in Legs, NEW n \in Nat, SweepThrows(l, n)
  PROVE  /\ MarketTypeOK' /\ traded' = traded /\ live' = live
         /\ lost' \/ (stray' = stray /\ lost' = lost)
         /\ Committed(l)' \in {Committed(l), Committed(l) + n}
         /\ \A k \in Legs \ {l} : Untouched(k)
<1>1. CASE UNCHANGED market
  <2>1. MarketTypeOK' /\ live' = live /\ stray' = stray /\ traded' = traded /\ lost' = lost
    BY <1>1, MarketKept DEF market
  <2> QED BY <2>1 DEF Untouched, Committed
<1>2. CASE PostLost(l, n)
  BY <1>2, PostLostMoves
<1> QED BY <1>1, <1>2 DEF SweepThrows

-----------------------------------------------------------------------------
(* The strategies that sell one position in phases.                        *)

PhasedStatuses ==
  {"running", "complete", "error", "caller_stopped", "not_in_window", "position_closed",
   "time_emergency_finished", "max_iterations", "all_rungs_fired", "phase1_unfilled",
   "phase1_partial_completed", "arb_filled_phase1", "phase2_complete", "phase2_partial",
   "finished", "deadline_hit", "target_met"}

SellingKinds == {"twap", "emergency", "scaleout", "arb"}

\* All that traded is reported, unless an answer was lost.
Sold == job.filled <= traded["yes"] /\ (~lost => Clean("yes") /\ job.filled = traded["yes"])

\* The slices of a TWAP are equal but for the last one, which takes the rest.
SlicesAsked ==
  job.kind = "twap" =>
    /\ job.unit \in {2, 3} /\ job.step \in 0 .. (job.unit - 1)
    /\ pc \in {"tick", "fired", "done"} /\ job.posted <= job.size
    /\ pc = "tick" => job.posted = job.step * (job.size \div job.unit)
    /\ pc = "fired" => IF job.step = job.unit - 1
                       THEN job.posted = job.size
                       ELSE job.posted = (job.step + 1) * (job.size \div job.unit)
    /\ job.status = "complete" => job.posted = job.size

\* The rungs that were used ask for no more than their shares of the size.
RungsAsked ==
  job.kind = "scaleout" =>
    /\ ValidLadder(job.rungs) /\ job.fired \in SUBSET (DOMAIN job.rungs)
    /\ 100 * job.posted <= job.size * Share(job.rungs, job.fired) /\ job.posted <= job.size

SellingInv ==
  /\ job \in RunnerRecords(SellingKinds, PhasedStatuses)
  /\ pc \in {"tick", "fired", "phase", "rungs", "done"}
  /\ MarketTypeOK /\ Clean("no")
  /\ Sold /\ SlicesAsked /\ RungsAsked
  /\ pc # "done" => job.status = "running"
  /\ job.kind = "arb" /\ pc = "tick" => job.filled <= job.size

LEMMA SellingFacts ==
  ASSUME SellingInv
  PROVE  /\ job \in RunnerRecords(SellingKinds, PhasedStatuses) /\ job.kind \in SellingKinds
         /\ MarketTypeOK /\ Clean("no")
         /\ job.size \in Nat /\ job.unit \in Nat /\ job.filled \in Nat /\ job.posted \in Nat
         /\ job.want \in Nat /\ job.step \in Int /\ job.fired \in SUBSET Nat
         /\ stray["yes"] \in Nat /\ traded["yes"] \in Nat /\ lost \in BOOLEAN
         /\ job.filled <= traded["yes"] /\ (~lost => Clean("yes") /\ job.filled = traded["yes"])
         /\ "yes" \in Legs /\ "no" \in Legs
<1>1. /\ "yes" \in Legs /\ "no" \in Legs /\ MarketTypeOK /\ Clean("no")
      /\ job \in RunnerRecords(SellingKinds, PhasedStatuses)
      /\ job.filled <= traded["yes"] /\ (~lost => Clean("yes") /\ job.filled = traded["yes"])
  BY DEF Legs, SellingInv, Sold
<1> QED BY <1>1, RunnerFields, OrderFacts

\* A job that is a new one of any of these kinds
LEMMA SellingInitInv == PhasedInit /\ job.kind \in SellingKinds => SellingInv
<1> SUFFICES ASSUME PhasedInit, job.kind \in SellingKinds PROVE SellingInv
  OBVIOUS
<1>1. /\ MarketTypeOK /\ ~lost /\ \A l \in Legs : live[l] = NoOrder /\ Clean(l) /\ traded[l] = 0 /\ Committed(l) = 0
  BY MarketInitFacts DEF PhasedInit
<1>2. PICK kind \in SellingKinds, size \in Nat, unit \in Nat, rungs \in {<<>>} \cup Ladders :
        /\ job = NewJob(kind, size, unit, rungs)
        /\ kind = "twap" => unit \in {2, 3}
        /\ kind = "scaleout" => rungs \in Ladders
  <2>1. PhasedSizes \subseteq Nat /\ 1 \in Nat /\ {2, 3} \subseteq Nat
    BY PhasedAssumption
  <2>2. CASE job \in TwapJobs
    <3>1. PICK n \in PhasedSizes, slices \in {2, 3} : job = NewJob("twap", n, slices, <<>>)
      BY <2>2 DEF TwapJobs
    <3> QED BY <2>1, <3>1 DEF SellingKinds
  <2>3. CASE job \in EmergencyJobs
    BY <2>1, <2>3 DEF EmergencyJobs, SellingKinds
  <2>4. CASE job \in ScaleOutJobs
    <3>1. PICK n \in PhasedSizes, rungs \in Ladders : job = NewJob("scaleout", n, 1, rungs)
      BY <2>4 DEF ScaleOutJobs
    <3> QED BY <2>1, <3>1 DEF SellingKinds
  <2>5. CASE job \in ArbJobs
    BY <2>1, <2>5 DEF ArbJobs, SellingKinds
  <2>6. job \notin PairedJobs \cup CashJobs
    BY DEF PairedJobs, CashJobs, NewJob, SellingKinds
  <2> QED BY <2>2, <2>3, <2>4, <2>5, <2>6 DEF PhasedInit, PhasedJobs
<1>3. /\ rungs \in Rungs /\ "running" \in PhasedStatuses
      /\ rungs \in Ladders => ValidLadder(rungs) /\ Share(rungs, {}) = 0
  <2>1. <<>> \in Rungs /\ "running" \in PhasedStatuses
    BY DEF Rungs, PhasedStatuses
  <2>2. ASSUME rungs \in Ladders PROVE ValidLadder(rungs) /\ rungs \in Rungs /\ Share(rungs, {}) = 0
    <3>1. ValidLadder(rungs) /\ {} \in SUBSET (DOMAIN rungs)
      BY <2>2, RestingAssumption
    <3> QED BY <3>1, ShareFacts
  <2> QED BY <2>1, <2>2
<1>4. /\ job \in RunnerRecords(SellingKinds, PhasedStatuses)
      /\ job.kind = kind /\ job.size = size /\ job.unit = unit /\ job.rungs = rungs /\ job.filled = 0
      /\ job.posted = 0 /\ job.step = 0 /\ job.fired = {} /\ job.status = "running"
  BY <1>2, <1>3, NewJobFields
<1>5. pc = "tick" /\ "yes" \in Legs /\ "no" \in Legs
  BY DEF PhasedInit, Legs
<1>6. Sold
  BY <1>1, <1>4, <1>5 DEF Sold
<1>7. SlicesAsked
  <2>1. ASSUME kind = "twap"
        PROVE  /\ 0 \in 0 .. (unit - 1)
               /\ 0 = 0 * (size \div unit)
    <3>1. unit \in {2, 3}
      BY <1>2, <2>1
    <3>2. CASE unit = 2
      BY <3>2
    <3>3. CASE unit = 3
      BY <3>3
    <3> QED BY <3>1, <3>2, <3>3
  <2> QED BY <1>2, <1>4, <1>5, <2>1 DEF SlicesAsked
<1>8. RungsAsked
  <2>1. ASSUME kind = "scaleout"
        PROVE  ValidLadder(rungs) /\ 100 * 0 <= size * Share(rungs, {})
    BY <1>2, <1>3, <2>1
  <2> QED BY <1>4, <2>1 DEF RungsAsked
<1> QED BY <1>1, <1>4, <1>5, <1>6, <1>7, <1>8 DEF SellingInv

-----------------------------------------------------------------------------
(* Steps of the strategies that sell.                                      *)

\* A run sold d shares more of a leg, or lost count of them.
Sells(l, d) ==
  /\ MarketTypeOK'
  /\ traded[l] + d <= traded'[l]
  /\ lost => lost'
  /\ ~lost' => Clean(l)' /\ traded'[l] = traded[l] + d

Apart(l) == \A k \in Legs \ {l} : Untouched(k)

LEMMA SellsNothing ==
  ASSUME MarketTypeOK, NEW l \in Legs, ~lost => Clean(l), UNCHANGED market
  PROVE  Sells(l, 0) /\ Apart(l) /\ Untouched(l)
<1>1. MarketTypeOK' /\ lost' = lost /\ Clean(l)' = Clean(l) /\ \A k \in Legs : Untouched(k)
  BY MarketKept
<1>2. traded[l] \in Nat /\ traded'[l] = traded[l]
  BY <1>1, OrderFacts DEF Untouched
<1> QED BY <1>1, <1>2 DEF Sells, Apart

LEMMA SellsThrowing ==
  ASSUME MarketTypeOK, NEW l \in Legs, ~lost => Clean(l), NEW n \in Nat, SweepThrows(l, n)
  PROVE  Sells(l, 0) /\ Apart(l) /\ Committed(l)' \in {Committed(l), Committed(l) + n}
<1>2. /\ MarketTypeOK' /\ traded' = traded /\ live' = live
      /\ lost' \/ (stray' = stray /\ lost' = lost)
      /\ Committed(l)' \in {Committed(l), Committed(l) + n}
      /\ \A k \in Legs \ {l} : Untouched(k)
  BY SweepThrowsMoves
<1>3. traded[l] \in Nat /\ lost \in BOOLEAN /\ lost' \in BOOLEAN
  BY <1>2, OrderFacts DEF MarketTypeOK
<1>4. lost => lost'
  BY <1>2, <1>3
<1>5. ~lost' => Clean(l)'
  BY <1>2, <1>3 DEF Clean
<1> QED BY <1>2, <1>3, <1>4, <1>5 DEF Sells, Apart

LEMMA SellsSweeping ==
  ASSUME MarketTypeOK, NEW l \in Legs, ~lost => Clean(l), NEW n \in Nat, NEW f \in ReduceFills(l, n),
         Take(l, n, f)
  PROVE  f \in 0 .. n /\ Sells(l, f) /\ Apart(l) /\ Committed(l)' = Committed(l) + f
<1>1. live[l].open \in BOOLEAN /\ traded[l] \in Nat
  BY OrderFacts
<1>2. f \in 0 .. n
  BY <1>1, ReduceFillsBound
<1>3. /\ MarketTypeOK' /\ lost' = lost /\ ~live'[l].open
      /\ stray'[l] = stray[l] + Outstanding(live[l])
      /\ traded'[l] = traded[l] + f
      /\ Committed(l)' = Committed(l) + f
      /\ \A k \in Legs \ {l} : Untouched(k)
  BY <1>2, TakeMoves
<1>4. ~lost' => Clean(l)'
  BY <1>1, <1>3 DEF Clean, Outstanding
<1> QED BY <1>1, <1>2, <1>3, <1>4 DEF Sells, Apart

LEMMA SellsPassively ==
  ASSUME MarketTypeOK, NEW l \in Legs, ~lost => Clean(l), NEW n \in Nat,
         NEW o \in PassiveOutcomes(n), RanPassive(l, o)
  PROVE  o.filled \in Nat /\ Sells(l, o.filled) /\ Apart(l)
<1>1. traded[l] \in Nat
  BY OrderFacts
<1>2. /\ MarketTypeOK' /\ live' = live
      /\ o.filled \in Nat /\ o.traded \in Nat /\ o.filled <= o.traded
      /\ traded'[l] = traded[l] + o.traded
      /\ lost => lost'
      /\ ~lost' => o.filled = o.traded /\ stray'[l] = stray[l]
      /\ \A k \in Legs \ {l} : Untouched(k)
  BY RanPassiveMoves
<1>3. traded[l] + o.filled <= traded'[l]
  BY <1>1, <1>2
<1>4. ~lost' => Clean(l)'
  BY <1>1, <1>2 DEF Clean
<1> QED BY <1>1, <1>2, <1>3, <1>4 DEF Sells, Apart

LEMMA SellsElsewhere ==
  ASSUME MarketTypeOK, NEW l \in Legs, ~lost => Clean(l), Elsewhere
  PROVE  Sells(l, 0) /\ lost' = lost /\ pc' = pc /\ job' = job /\ (~lost => Untouched(l))
<1>1. MarketTypeOK' /\ pc' = pc /\ job' = job /\ lost' = lost /\ Drifts(l)
  BY ElsewhereMoves
<1>2. ~lost => Untouched(l) /\ Clean(l)'
  BY <1>1, CleanStays
<1>3. traded[l] \in Nat
  BY OrderFacts
<1>4. traded[l] + 0 <= traded'[l]
  BY <1>1, <1>3 DEF Drifts
<1>5. ~lost' => Clean(l)' /\ traded'[l] = traded[l] + 0
  BY <1>1, <1>2, <1>3 DEF Untouched
<1> QED BY <1>1, <1>2, <1>4, <1>5 DEF Sells

\* The same for the position that these strategies sell
SoldMore(d) == Sells("yes", d) /\ Untouched("no")

LEMMA SoldKept ==
  ASSUME SellingInv, UNCHANGED market
  PROVE  SoldMore(0)
<1>1. Sells("yes", 0) /\ Apart("yes")
  BY SellingFacts, SellsNothing
<1> QED BY <1>1 DEF SoldMore, Apart, Legs

LEMMA SoldThrows ==
  ASSUME SellingInv, NEW n \in Nat, SweepThrows("yes", n)
  PROVE  SoldMore(0)
<1>1. Sells("yes", 0) /\ Apart("yes")
  BY SellingFacts, SellsThrowing
<1> QED BY <1>1 DEF SoldMore, Apart, Legs

LEMMA SoldTakes ==
  ASSUME SellingInv, NEW n \in Nat, NEW f \in ReduceFills("yes", n), Take("yes", n, f)
  PROVE  f \in 0 .. n /\ SoldMore(f)
<1>1. f \in 0 .. n /\ Sells("yes", f) /\ Apart("yes")
  BY SellingFacts, SellsSweeping
<1> QED BY <1>1 DEF SoldMore, Apart, Legs

LEMMA SoldRan ==
  ASSUME SellingInv, NEW n \in Nat, NEW o \in PassiveOutcomes(n), RanPassive("yes", o)
  PROVE  o.filled \in Nat /\ SoldMore(o.filled)
<1>1. o.filled \in Nat /\ Sells("yes", o.filled) /\ Apart("yes")
  BY SellingFacts, SellsPassively
<1> QED BY <1>1 DEF SoldMore, Apart, Legs

LEMMA SoldElsewhere ==
  ASSUME SellingInv, Elsewhere
  PROVE  SoldMore(0) /\ pc' = pc /\ job' = job
<1>1. Sells("yes", 0) /\ pc' = pc /\ job' = job
  BY SellingFacts, SellsElsewhere
<1>2. MarketTypeOK' /\ Drifts("no")
  BY SellingFacts, ElsewhereMoves
<1>3. Untouched("no")
  BY <1>2, SellingFacts, CleanStays
<1> QED BY <1>1, <1>3 DEF SoldMore

\* Whatever a step sold is counted.
LEMMA SellingProceeds ==
  ASSUME SellingInv, NEW d \in Nat, SoldMore(d), job'.filled = job.filled + d,
         job' \in RunnerRecords(SellingKinds, PhasedStatuses),
         pc' \in {"tick", "fired", "phase", "rungs", "done"},
         pc' # "done" => job'.status = "running",
         job'.kind = "arb" /\ pc' = "tick" => job'.filled <= job'.size,
         SlicesAsked', RungsAsked'
  PROVE  SellingInv'
<1>1. /\ job.filled \in Nat /\ traded["yes"] \in Nat /\ Clean("no")
      /\ job.filled <= traded["yes"] /\ (~lost => job.filled = traded["yes"])
  BY SellingFacts
<1>2. "yes" \in Legs
  BY DEF Legs
<1>3. traded'["yes"] \in Nat /\ lost' \in BOOLEAN
  BY <1>2 DEF SoldMore, Sells, MarketTypeOK
<1>4. job'.filled <= traded'["yes"]
  BY <1>1, <1>3 DEF SoldMore, Sells
<1>5. ~lost' => Clean("yes")' /\ job'.filled = traded'["yes"]
  BY <1>1 DEF SoldMore, Sells
<1>6. Clean("no")'
  BY <1>1 DEF SoldMore, Untouched, Clean
<1> QED BY <1>4, <1>5, <1>6 DEF SellingInv, Sold, SoldMore, Sells

\* A job that goes on as it was, but for what it sold and the phase it is in
LEMMA SellingGoesOn ==
  ASSUME SellingInv, NEW d \in Nat, SoldMore(d), NEW step \in Int, NEW want \in Nat,
         job.kind \in {"emergency", "scaleout", "arb"},
         job' = [job EXCEPT !.filled = job.filled + d, !.step = step, !.want = want],
         pc # "done", pc' \in {"tick", "phase", "rungs"},
         job.kind = "arb" /\ pc' = "tick" => job.filled + d <= job.size
  PROVE  SellingInv'
<1>1. job \in RunnerRecords(SellingKinds, PhasedStatuses) /\ job.filled \in Nat /\ job.filled + d \in Nat
  BY SellingFacts
<1>2. /\ job' \in RunnerRecords(SellingKinds, PhasedStatuses)
      /\ job'.kind = job.kind /\ job'.size = job.size /\ job'.unit = job.unit /\ job'.rungs = job.rungs
      /\ job'.filled = job.filled + d /\ job'.posted = job.posted /\ job'.fired = job.fired
      /\ job'.status = job.status
  BY <1>1 DEF RunnerRecords
<1>3. SlicesAsked'
  BY <1>2 DEF SlicesAsked
<1>4. RungsAsked'
  BY <1>2 DEF SellingInv, RungsAsked
<1>5. job.status = "running"
  BY DEF SellingInv
<1> QED BY <1>2, <1>3, <1>4, <1>5, SellingProceeds

\* A job that ends
LEMMA SellingEnds ==
  ASSUME SellingInv, NEW d \in Nat, SoldMore(d), NEW step \in Int, NEW st \in PhasedStatuses,
         Finish([job EXCEPT !.filled = job.filled + d, !.step = step], st),
         pc # "done", job.kind = "twap" => step = job.step,
         job.kind = "twap" /\ st = "complete" => job.posted = job.size
  PROVE  SellingInv'
<1>1. job \in RunnerRecords(SellingKinds, PhasedStatuses) /\ job.filled \in Nat /\ job.filled + d \in Nat
  BY SellingFacts
<1>2. /\ job' \in RunnerRecords(SellingKinds, PhasedStatuses) /\ pc' = "done"
      /\ job'.kind = job.kind /\ job'.size = job.size /\ job'.unit = job.unit /\ job'.rungs = job.rungs
      /\ job'.filled = job.filled + d /\ job'.posted = job.posted /\ job'.fired = job.fired
      /\ job'.step = step /\ job'.status = st
  BY <1>1 DEF RunnerRecords, Finish
<1>3. SlicesAsked'
  BY <1>2 DEF SellingInv, SlicesAsked
<1>4. RungsAsked'
  BY <1>2 DEF SellingInv, RungsAsked
<1> QED BY <1>2, <1>3, <1>4, SellingProceeds

\* The same when nothing was sold
LEMMA SellingStops ==
  ASSUME SellingInv, SoldMore(0), NEW st \in PhasedStatuses, Finish(job, st), pc # "done",
         job.kind = "twap" /\ st = "complete" => job.posted = job.size
  PROVE  SellingInv'
<1>1. job \in RunnerRecords(SellingKinds, PhasedStatuses) /\ job.filled \in Nat /\ job.step \in Int
  BY SellingFacts
<1> DEFINE zero == 0
<1>2. [job EXCEPT !.filled = job.filled + zero, !.step = job.step] = job
  <2>1. job.filled + zero = job.filled
    BY <1>1
  <2>2. [job EXCEPT !.filled = job.filled, !.step = job.step] = job
    BY <1>1 DEF RunnerRecords
  <2> QED BY <2>1, <2>2
<1>3. zero \in Nat /\ SoldMore(zero)
  OBVIOUS
<1>4. Finish([job EXCEPT !.filled = job.filled + zero, !.step = job.step], st)
  BY <1>2
<1> HIDE DEF zero
<1> QED BY Zenon, <1>1, <1>3, <1>4, SellingEnds

LEMMA ThirdsAndHalves ==
  ASSUME NEW size \in Nat
  PROVE  /\ size \div 2 \in Nat /\ size % 2 \in Nat /\ 2 * (size \div 2) + (size % 2) = size
         /\ size \div 3 \in Nat /\ size % 3 \in Nat /\ 3 * (size \div 3) + (size % 3) = size
<1>1. size \div 2 \in Nat /\ size % 2 \in Nat /\ 2 * (size \div 2) + (size % 2) = size
  OBVIOUS
<1>2. size \div 3 \in Nat /\ size % 3 \in Nat /\ 3 * (size \div 3) + (size % 3) = size
  OBVIOUS
<1> QED BY <1>1, <1>2

\* The slices before the last one and the rest add up to the size.
LEMMA SlicesAddUp ==
  ASSUME NEW size \in Nat, NEW unit \in {2, 3}, NEW step \in 0 .. (unit - 1)
  PROVE  /\ size \div unit \in Nat /\ size % unit \in Nat
         /\ step * (size \div unit) + (size \div unit) = (step + 1) * (size \div unit)
         /\ step < unit - 1 => (step + 1) * (size \div unit) <= size
         /\ step = unit - 1 => (step + 1) * (size \div unit) + (size % unit) = size
         /\ (step + 1) * (size \div unit) \in Nat
<1> DEFINE Q == size \div unit
           R == size % unit
<1>1. ASSUME unit = 2
      PROVE  Q \in Nat /\ R \in Nat /\ 2 * Q + R = size
  <2>1. /\ size \div 2 \in Nat /\ size % 2 \in Nat
        /\ 2 * (size \div 2) + (size % 2) = size
    BY ThirdsAndHalves
  <2>2. Q = size \div 2 /\ R = size % 2
    BY <1>1
  <2> HIDE DEF Q, R
  <2> QED BY <2>1, <2>2
<1>2. ASSUME unit = 3
      PROVE  Q \in Nat /\ R \in Nat /\ 3 * Q + R = size
  <2>1. /\ size \div 3 \in Nat /\ size % 3 \in Nat
        /\ 3 * (size \div 3) + (size % 3) = size
    BY ThirdsAndHalves
  <2>2. Q = size \div 3 /\ R = size % 3
    BY <1>2
  <2> HIDE DEF Q, R
  <2> QED BY <2>1, <2>2
<1> HIDE DEF Q, R
<1>3. /\ Q \in Nat /\ R \in Nat
      /\ step * Q + Q = (step + 1) * Q /\ (step + 1) * Q \in Nat
      /\ step < unit - 1 => (step + 1) * Q <= size
      /\ step = unit - 1 => (step + 1) * Q + R = size
  <2>1. CASE unit = 2
    <3>1. step \in {0, 1}
      BY <2>1
    <3> QED BY <1>1, <2>1, <3>1
  <2>2. CASE unit = 3
    <3>1. step \in {0, 1, 2}
      BY <2>2
    <3> QED BY <1>2, <2>2, <3>1
  <2> QED BY <2>1, <2>2
<1> QED BY <1>3, Zenon DEF Q, R

LEMMA TwapSliceInv == SellingInv /\ TwapSlice => SellingInv'
<1> SUFFICES ASSUME SellingInv, TwapSlice PROVE SellingInv'
  OBVIOUS
<1>1. job.kind = "twap" /\ pc = "tick" /\ job \in RunnerRecords(SellingKinds, PhasedStatuses)
  BY Zenon, SellingFacts DEF TwapSlice
<1>2. CASE Finish(job, "caller_stopped") /\ UNCHANGED market
  BY <1>1, <1>2, SoldKept, SellingStops DEF PhasedStatuses
<1> DEFINE q == job.size \div job.unit
           r == job.size % job.unit
           n == SliceSize(job)
<1>3. /\ job.unit \in {2, 3} /\ job.step \in 0 .. (job.unit - 1)
      /\ job.posted = job.step * q
  BY <1>1 DEF SellingInv, SlicesAsked
<1>4. /\ job.size \in Nat /\ job.posted \in Nat /\ job.filled \in Nat
  BY SellingFacts
<1>5. /\ q \in Nat /\ r \in Nat
      /\ job.step * q + q = (job.step + 1) * q
      /\ job.step < job.unit - 1 => (job.step + 1) * q <= job.size
      /\ job.step = job.unit - 1 => (job.step + 1) * q + r = job.size
      /\ (job.step + 1) * q \in Nat
  <2> HIDE DEF q, r
  <2> QED BY Zenon, <1>3, <1>4, SlicesAddUp DEF q, r
<1>6. n = q + IF job.step = job.unit - 1 THEN r ELSE 0
  BY DEF SliceSize
<1> HIDE DEF q, r, n
<1> DEFINE next == (job.step + 1) * q
<1>7. next \in Nat /\ job.posted + q = next
  BY <1>3, <1>5
<1>8. /\ n \in Nat
      /\ job.step = job.unit - 1 => job.posted + n = job.size
      /\ job.step # job.unit - 1 => job.posted + n = next /\ next <= job.size
  <2>1. /\ job.step # job.unit - 1 => next <= job.size
        /\ job.step = job.unit - 1 => next + r = job.size
    BY <1>3, <1>5
  <2> HIDE DEF next
  <2>2. n \in Nat /\ (job.step = job.unit - 1 => n = q + r) /\ (job.step # job.unit - 1 => n = q)
    BY <1>5, <1>6
  <2> QED BY <1>4, <1>5, <1>7, <2>1, <2>2
<1> HIDE DEF next
<1>9. ASSUME NEW o \in PassiveOutcomes(n), RanPassive("yes", o), pc' = "fired",
             job' = [job EXCEPT !.filled = job.filled + o.filled, !.posted = job.posted + n]
      PROVE  SellingInv'
  <2>1. o.filled \in Nat /\ SoldMore(o.filled)
    BY <1>8, <1>9, SoldRan
  <2>2. job.posted + n \in Nat /\ job.posted + n <= job.size /\ job.filled + o.filled \in Nat
    BY <1>4, <1>7, <1>8, <2>1
  <2>3. /\ job' \in RunnerRecords(SellingKinds, PhasedStatuses)
        /\ job'.kind = job.kind /\ job'.size = job.size /\ job'.unit = job.unit
        /\ job'.filled = job.filled + o.filled /\ job'.posted = job.posted + n
        /\ job'.step = job.step /\ job'.status = job.status
    BY <1>1, <1>9, <2>2 DEF RunnerRecords
  <2>4. job.status = "running"
    BY <1>1 DEF SellingInv
  <2>5. SlicesAsked'
    <3>1. q = job'.size \div job'.unit /\ next = (job'.step + 1) * q
      BY <2>3 DEF q, next
    <3>2. IF job'.step = job'.unit - 1 THEN job'.posted = job'.size ELSE job'.posted = next
      BY <1>8, <2>3
    <3>3. IF job'.step = job'.unit - 1 THEN job'.posted = job'.size
          ELSE job'.posted = (job'.step + 1) * (job'.size \div job'.unit)
      BY <3>1, <3>2, Zenon
    <3>4. job'.unit \in {2, 3} /\ job'.step \in 0 .. (job'.unit - 1) /\ job'.posted <= job'.size
      BY <1>3, <2>2, <2>3
    <3>5. job'.status # "complete" /\ pc' = "fired"
      BY <1>9, <2>3, <2>4
    <3> QED BY <3>3, <3>4, <3>5 DEF SlicesAsked
  <2>6. RungsAsked' /\ job'.kind = "twap"
    BY <1>1, <2>3 DEF RungsAsked
  <2> QED BY <1>9, <2>1, <2>3, <2>4, <2>5, <2>6, SellingProceeds
<1>10. CASE Finish(job, "caller_stopped") /\ UNCHANGED market
  BY <1>2, <1>10
<1> QED BY Zenon, <1>9, <1>10 DEF TwapSlice, n

LEMMA TwapFiredInv == SellingInv /\ TwapFired => SellingInv'
<1> SUFFICES ASSUME SellingInv, TwapFired PROVE SellingInv'
  OBVIOUS
<1>1. /\ job.kind = "twap" /\ pc = "fired" /\ UNCHANGED market
      /\ job \in RunnerRecords(SellingKinds, PhasedStatuses)
  BY SellingFacts DEF TwapFired
<1>2. SoldMore(0)
  BY <1>1, SoldKept
<1> DEFINE q == job.size \div job.unit
<1>3. /\ job.unit \in {2, 3} /\ job.step \in 0 .. (job.unit - 1) /\ job.posted <= job.size
      /\ job.step = job.unit - 1 => job.posted = job.size
      /\ job.step # job.unit - 1 => job.posted = (job.step + 1) * q
  BY <1>1 DEF SellingInv, SlicesAsked
<1> HIDE DEF q
<1>4. CASE Finish(job, "caller_stopped")
  BY <1>1, <1>2, <1>4, SellingStops DEF PhasedStatuses
<1>5. CASE job.step + 1 = job.unit /\ Finish(job, "complete")
  <2>1. job.posted = job.size
    BY <1>3, <1>5
  <2> QED BY <1>1, <1>2, <1>5, <2>1, SellingStops DEF PhasedStatuses
<1>6. CASE job.step + 1 # job.unit /\ pc' = "tick" /\ job' = [job EXCEPT !.step = job.step + 1]
  <2>1. job.filled \in Nat /\ job.step \in Int /\ job.status = "running"
    BY <1>1, SellingFacts DEF SellingInv
  <2>2. /\ job' \in RunnerRecords(SellingKinds, PhasedStatuses)
        /\ job'.kind = job.kind /\ job'.size = job.size /\ job'.unit = job.unit
        /\ job'.filled = job.filled /\ job'.posted = job.posted
        /\ job'.step = job.step + 1 /\ job'.status = "running"
    BY <1>1, <1>6, <2>1 DEF RunnerRecords
  <2>3. job'.unit \in {2, 3} /\ job'.step \in 0 .. (job'.unit - 1) /\ job'.posted <= job'.size
    BY <1>3, <1>6, <2>2
  <2>4. job'.posted = job'.step * (job'.size \div job'.unit)
    <3>1. job.step # job.unit - 1
      BY <1>3, <1>6
    <3> QED BY <1>3, <2>2, <3>1 DEF q
  <2>5. SlicesAsked' /\ RungsAsked' /\ job'.kind = "twap"
    BY <1>1, <1>6, <2>2, <2>3, <2>4 DEF SlicesAsked, RungsAsked
  <2>6. job'.filled = job.filled + 0
    BY <2>1, <2>2
  <2> QED BY <1>2, <1>6, <2>2, <2>5, <2>6, SellingProceeds
<1> QED BY <1>4, <1>5, <1>6 DEF TwapFired

LEMMA EmergencyInv == SellingInv /\ (EmergencyStart \/ EmergencyPhase) => SellingInv'
<1> SUFFICES ASSUME SellingInv, EmergencyStart \/ EmergencyPhase PROVE SellingInv'
  OBVIOUS
<1>1. /\ job.kind = "emergency" /\ pc # "done" /\ job \in RunnerRecords(SellingKinds, PhasedStatuses)
      /\ job.size \in Nat /\ job.filled \in Nat /\ job.step \in Int /\ job.want \in Nat
  BY Zenon, SellingFacts DEF EmergencyStart, EmergencyPhase
<1>2. ASSUME NEW st \in PhasedStatuses, Finish(job, st), UNCHANGED market PROVE SellingInv'
  BY <1>1, <1>2, SoldKept, SellingStops
<1>3. [job EXCEPT !.want = job.want] = job
  BY <1>1 DEF RunnerRecords
<1>4. ASSUME NEW k \in 1 .. 4, UNCHANGED market, pc' = "phase", job' = [job EXCEPT !.step = k]
      PROVE  SellingInv'
  <2> DEFINE zero == 0
  <2>1. zero \in Nat /\ k \in Int /\ SoldMore(zero)
    BY <1>4, SoldKept
  <2>2. job.filled + zero = job.filled
    BY <1>1
  <2>3. job' = [job EXCEPT !.filled = job.filled + zero, !.step = k, !.want = job.want]
    BY <1>1, <1>4, <2>2 DEF RunnerRecords
  <2>4. pc' = "phase" /\ pc' \in {"tick", "phase", "rungs"} /\ job.kind # "arb"
    BY <1>1, <1>4
  <2> HIDE DEF zero
  <2> QED BY Zenon, <1>1, <2>1, <2>3, <2>4, SellingGoesOn
<1> DEFINE step == job.step + 1
<1>5. step \in Int
  BY <1>1
<1> HIDE DEF step
<1>6. ASSUME NEW d \in Nat, SoldMore(d), pc' = "phase",
             job' = [job EXCEPT !.step = step, !.filled = job.filled + d]
      PROVE  SellingInv'
  <2>1. job' = [job EXCEPT !.filled = job.filled + d, !.step = step, !.want = job.want]
    BY <1>1, <1>6 DEF RunnerRecords
  <2> QED BY Zenon, <1>1, <1>5, <1>6, <2>1, SellingGoesOn
<1> DEFINE next == [job EXCEPT !.step = step]
<1>7. next.filled = job.filled
  BY <1>1 DEF RunnerRecords
<1>8. ASSUME Left > 0, NEW o \in PassiveOutcomes(Left), RanPassive("yes", o), pc' = "phase",
             job' = [next EXCEPT !.filled = next.filled + o.filled]
      PROVE  SellingInv'
  <2>1. Left \in Nat
    BY <1>1, <1>8 DEF Left
  <2>2. o.filled \in Nat /\ SoldMore(o.filled)
    BY <1>8, <2>1, SoldRan
  <2> QED BY Zenon, <1>6, <1>7, <1>8, <2>2
<1>9. ASSUME Left > 0, SweepThrows("yes", Left), Finish(job, "error")
      PROVE  SellingInv'
  <2>1. Left \in Nat
    BY <1>1, <1>9 DEF Left
  <2>2. SoldMore(0)
    BY <1>9, <2>1, SoldThrows
  <2> QED BY <1>1, <1>9, <2>2, SellingStops DEF PhasedStatuses
<1>10. ASSUME Left > 0, NEW f \in ReduceFills("yes", Left), Take("yes", Left, f), pc' = "phase",
              job' = [next EXCEPT !.filled = next.filled + f]
       PROVE  SellingInv'
  <2>1. Left \in Nat
    BY <1>1, <1>10 DEF Left
  <2>2. f \in 0 .. Left /\ SoldMore(f)
    BY <1>10, <2>1, SoldTakes
  <2>3. f \in Nat
    BY <2>1, <2>2
  <2> QED BY Zenon, <1>6, <1>7, <1>10, <2>2, <2>3
<1>11. CASE EmergencyStart
  BY Zenon, <1>2, <1>4, <1>11 DEF EmergencyStart, PhasedStatuses
<1>12. CASE EmergencyPhase
  BY Zenon, <1>2, <1>8, <1>9, <1>10, <1>12 DEF EmergencyPhase, PhasedStatuses, step
<1> QED BY <1>11, <1>12

LEMMA ScaleOutPollInv == SellingInv /\ ScaleOutPoll => SellingInv'
<1> SUFFICES ASSUME SellingInv, ScaleOutPoll PROVE SellingInv'
  OBVIOUS
<1>1. /\ job.kind = "scaleout" /\ pc = "tick" /\ UNCHANGED market
      /\ job \in RunnerRecords(SellingKinds, PhasedStatuses)
      /\ job.filled \in Nat /\ job.step \in Int
  BY Zenon, SellingFacts DEF ScaleOutPoll
<1>2. ASSUME NEW st \in PhasedStatuses, Finish(job, st) PROVE SellingInv'
  BY <1>1, <1>2, SoldKept, SellingStops
<1>3. {0} \cup {job.rungs[i].price : i \in DOMAIN job.rungs} \subseteq Nat
  <2>1. ValidLadder(job.rungs)
    BY <1>1 DEF SellingInv, RungsAsked
  <2> DEFINE R == [price : Nat \ {0}, pct : Nat \ {0}]
  <2>2. job.rungs \in Seq(R)
    BY <2>1 DEF ValidLadder
  <2> HIDE DEF R
  <2>3. \A i \in DOMAIN job.rungs : job.rungs[i] \in R
    BY <2>2
  <2>4. \A i \in DOMAIN job.rungs : job.rungs[i].price \in Nat
    BY <2>3 DEF R
  <2> QED BY <2>4
<1>4. ASSUME NEW bid \in {0} \cup {job.rungs[i].price : i \in DOMAIN job.rungs},
             pc' = "rungs", job' = [job EXCEPT !.step = job.step + 1, !.want = bid]
      PROVE  SellingInv'
  <2> DEFINE zero == 0
             step == job.step + 1
  <2>5. bid \in Nat
    BY <1>3, <1>4
  <2>1. zero \in Nat /\ step \in Int /\ SoldMore(zero)
    BY <1>1, SoldKept
  <2>2. job.filled + zero = job.filled
    BY <1>1
  <2>3. job' = [job EXCEPT !.filled = job.filled + zero, !.step = step, !.want = bid]
    BY <1>1, <1>4, <2>2 DEF RunnerRecords
  <2>4. pc' \in {"tick", "phase", "rungs"} /\ job.kind # "arb"
    BY <1>1, <1>4
  <2> HIDE DEF zero, step
  <2> QED BY Zenon, <1>1, <2>1, <2>3, <2>4, <2>5, SellingGoesOn
<1> QED BY Zenon, <1>2, <1>4 DEF ScaleOutPoll, PhasedStatuses

\* A rung that is used takes its share, whether its run answers or throws.
LEMMA RungUsed ==
  ASSUME SellingInv, job.kind = "scaleout", pc = "rungs",
         NEW i \in DOMAIN job.rungs \ job.fired, NEW n, n = RungSize(job.size, job.rungs[i]),
         NEW d \in Nat, SoldMore(d), pc' = "rungs",
         job' = [job EXCEPT !.fired = job.fired \cup {i}, !.posted = job.posted + n,
                            !.filled = job.filled + d]
  PROVE  SellingInv'
<1>1. /\ job \in RunnerRecords(SellingKinds, PhasedStatuses)
      /\ job.size \in Nat /\ job.posted \in Nat /\ job.filled \in Nat /\ job.status = "running"
  BY SellingFacts DEF SellingInv
<1>2. /\ ValidLadder(job.rungs) /\ job.fired \in SUBSET (DOMAIN job.rungs)
      /\ 100 * job.posted <= job.size * Share(job.rungs, job.fired)
  BY DEF SellingInv, RungsAsked
<1> DEFINE s == Share(job.rungs, job.fired)
           rung == job.rungs[i]
<1>3. /\ s \in Nat /\ rung.pct \in Nat /\ DOMAIN job.rungs \in SUBSET Nat
      /\ Share(job.rungs, job.fired \cup {i}) = s + rung.pct
  <2>1. /\ DOMAIN job.rungs = 1 .. Len(job.rungs) /\ Len(job.rungs) \in Nat
        /\ s \in Nat /\ rung.pct \in Nat
        /\ Share(job.rungs, job.fired \cup {i}) = s + rung.pct
    BY ZenonT(60), <1>2, ShareFacts
  <2>2. DOMAIN job.rungs \in SUBSET Nat
    BY <2>1
  <2> QED BY <2>1, <2>2
<1>4. s + rung.pct <= 100
  <2>1. job.fired \cup {i} \in SUBSET (DOMAIN job.rungs)
    BY <1>2
  <2>2. Share(job.rungs, job.fired \cup {i}) <= 100
    BY <1>2, <2>1, ShareFacts
  <2> QED BY <1>3, <2>2
<1>5. /\ n \in Nat
      /\ 100 * (job.posted + n) <= job.size * (s + rung.pct)
      /\ job.posted + n <= job.size
  <2> HIDE DEF s, rung
  <2>1. n = RungSize(job.size, rung) /\ 100 * job.posted <= job.size * s
    BY <1>2 DEF s, rung
  <2> QED BY <1>1, <1>3, <1>4, <2>1, RungWithinShare
<1>6. job.posted + n \in Nat /\ job.filled + d \in Nat /\ job.fired \cup {i} \in SUBSET Nat
  BY <1>1, <1>2, <1>3, <1>5
<1>7. /\ job' \in RunnerRecords(SellingKinds, PhasedStatuses)
      /\ job'.kind = job.kind /\ job'.size = job.size /\ job'.unit = job.unit /\ job'.rungs = job.rungs
      /\ job'.filled = job.filled + d /\ job'.posted = job.posted + n
      /\ job'.fired = job.fired \cup {i} /\ job'.status = job.status
  BY <1>1, <1>6 DEF RunnerRecords
<1>8. SlicesAsked'
  BY <1>7 DEF SlicesAsked
<1>9. RungsAsked'
  <2>1. 100 * job'.posted <= job'.size * Share(job'.rungs, job'.fired)
    BY <1>3, <1>5, <1>7
  <2>2. ValidLadder(job'.rungs) /\ job'.fired \in SUBSET (DOMAIN job'.rungs) /\ job'.posted <= job'.size
    BY <1>2, <1>5, <1>7
  <2> QED BY <2>1, <2>2 DEF RungsAsked
<1> QED BY <1>1, <1>7, <1>8, <1>9, SellingProceeds

LEMMA ScaleOutRungInv == SellingInv /\ ScaleOutRung => SellingInv'
<1> SUFFICES ASSUME SellingInv, ScaleOutRung PROVE SellingInv'
  OBVIOUS
<1>1. /\ job.kind = "scaleout" /\ pc = "rungs"
      /\ job \in RunnerRecords(SellingKinds, PhasedStatuses)
      /\ job.filled \in Nat /\ job.step \in Int /\ job.want \in Nat
      /\ job.posted \in Nat /\ job.size \in Nat
  BY Zenon, SellingFacts DEF ScaleOutRung
<1>2. CASE Finish(job, "all_rungs_fired") /\ UNCHANGED market
  BY <1>1, <1>2, SoldKept, SellingStops DEF PhasedStatuses
<1>3. CASE pc' = "tick" /\ UNCHANGED job /\ UNCHANGED market
  <2> DEFINE zero == 0
  <2>1. zero \in Nat /\ SoldMore(zero) /\ job.filled + zero = job.filled
    BY <1>1, <1>3, SoldKept
  <2>2. job' = [job EXCEPT !.filled = job.filled + zero, !.step = job.step, !.want = job.want]
    BY <1>1, <1>3, <2>1 DEF RunnerRecords
  <2>3. pc' \in {"tick", "phase", "rungs"} /\ job.kind # "arb"
    BY <1>1, <1>3
  <2> HIDE DEF zero
  <2> QED BY Zenon, <1>1, <2>1, <2>2, <2>3, SellingGoesOn
<1> DEFINE i == CHOOSE i \in Firable(job) : \A k \in Firable(job) : i <= k
           n == RungSize(job.size, job.rungs[i])
           j == [job EXCEPT !.fired = job.fired \cup {i}, !.posted = job.posted + n]
<1>4. ASSUME Firable(job) # {}
      PROVE  i \in DOMAIN job.rungs \ job.fired /\ n \in Nat
  <2>1. Firable(job) \subseteq DOMAIN job.rungs \ job.fired
    BY DEF Firable
  <2>2. /\ DOMAIN job.rungs \in SUBSET Nat /\ \A k \in DOMAIN job.rungs : job.rungs[k].pct \in Nat
    <3>1. ValidLadder(job.rungs) /\ {} \in SUBSET (DOMAIN job.rungs)
      BY <1>1 DEF SellingInv, RungsAsked
    <3>2. /\ DOMAIN job.rungs = 1 .. Len(job.rungs) /\ Len(job.rungs) \in Nat
          /\ \A k \in DOMAIN job.rungs : job.rungs[k].pct \in Nat
      BY <3>1, ShareFacts
    <3> QED BY <3>2
  <2>3. \E k \in Firable(job) : \A m \in Firable(job) : k <= m
    BY <1>4, <2>1, <2>2, LeastOfSet
  <2>4. i \in Firable(job)
    BY <2>3
  <2> HIDE DEF i
  <2>5. job.rungs[i].pct \in Nat
    BY <2>1, <2>2, <2>4
  <2>6. job.size * job.rungs[i].pct \in Nat
    BY <1>1, <2>5
  <2> DEFINE q == job.size * job.rungs[i].pct
  <2>7. q \in Nat
    BY <2>6
  <2> HIDE DEF q
  <2>8. q \div 100 \in Nat
    BY <2>7
  <2> QED BY <2>1, <2>4, <2>8 DEF q, RungSize
<1>5. ASSUME Firable(job) # {}, pc' = "rungs", job' = j, UNCHANGED market PROVE SellingInv'
  <2> DEFINE zero == 0
  <2>1. zero \in Nat /\ SoldMore(zero) /\ job.filled + zero = job.filled
    BY <1>1, <1>5, SoldKept
  <2> HIDE DEF zero, i
  <2>2. job' = [job EXCEPT !.fired = job.fired \cup {i}, !.posted = job.posted + n,
                           !.filled = job.filled + zero]
    BY <1>1, <1>5, <2>1 DEF RunnerRecords
  <2> HIDE DEF n, j
  <2>3. n = RungSize(job.size, job.rungs[i])
    BY DEF n
  <2>4. i \in DOMAIN job.rungs \ job.fired
    BY <1>4, <1>5
  <2>5. job.kind = "scaleout" /\ pc = "rungs" /\ pc' = "rungs"
    BY <1>1, <1>5
  <2> QED BY Zenon, <2>1, <2>2, <2>3, <2>4, <2>5, RungUsed
<1>6. ASSUME Firable(job) # {}, pc' = "rungs", NEW o \in PassiveOutcomes(n), RanPassive("yes", o),
             job' = [j EXCEPT !.filled = j.filled + o.filled]
      PROVE  SellingInv'
  <2> HIDE DEF i
  <2>1. j.filled = job.filled
    BY <1>1 DEF RunnerRecords
  <2>2. job' = [job EXCEPT !.fired = job.fired \cup {i}, !.posted = job.posted + n,
                           !.filled = job.filled + o.filled]
    BY <1>6, <2>1
  <2> HIDE DEF n, j
  <2>3. n = RungSize(job.size, job.rungs[i])
    BY DEF n
  <2>4. o.filled \in Nat /\ SoldMore(o.filled)
    BY <1>4, <1>6, SoldRan
  <2>5. i \in DOMAIN job.rungs \ job.fired
    BY <1>4, <1>6
  <2>6. job.kind = "scaleout" /\ pc = "rungs" /\ pc' = "rungs"
    BY <1>1, <1>6
  <2> DEFINE d == o.filled
  <2>7. d \in Nat /\ SoldMore(d)
    BY <2>4
  <2>8. job' = [job EXCEPT !.fired = job.fired \cup {i}, !.posted = job.posted + n,
                           !.filled = job.filled + d]
    BY <2>2
  <2> HIDE DEF d
  <2> QED BY Zenon, <2>3, <2>5, <2>6, <2>7, <2>8, RungUsed
<1>7. CASE Firable(job) = {}
  BY Zenon, <1>2, <1>3, <1>7 DEF ScaleOutRung
<1>8. CASE Firable(job) # {}
  BY Zenon, <1>5, <1>6, <1>8 DEF ScaleOutRung
<1> QED BY Zenon, <1>7, <1>8

LEMMA ArbInv == SellingInv /\ ArbPhase => SellingInv'
<1> SUFFICES ASSUME SellingInv, ArbPhase PROVE SellingInv'
  OBVIOUS
<1>1. /\ job.kind = "arb" /\ pc = "tick" /\ job \in RunnerRecords(SellingKinds, PhasedStatuses)
      /\ job.size \in Nat /\ job.filled \in Nat /\ job.step \in Int /\ job.want \in Nat
      /\ job.filled <= job.size
  BY Zenon, SellingFacts DEF ArbPhase, SellingInv
<1>2. Left \in Nat
  BY <1>1 DEF Left
<1>3. CASE SweepThrows("yes", Left) /\ Finish(job, "error")
  <2>1. SoldMore(0)
    BY <1>2, <1>3, SoldThrows
  <2> QED BY <1>1, <1>3, <2>1, SellingStops DEF PhasedStatuses
<1>4. ASSUME NEW f \in ReduceFills("yes", Left), Take("yes", Left, f)
      PROVE  f \in Nat /\ SoldMore(f) /\ job.filled + f <= job.size
  <2>1. f \in 0 .. Left /\ SoldMore(f)
    BY <1>2, <1>4, SoldTakes
  <2> QED BY <1>1, <2>1 DEF Left
<1> DEFINE step == job.step + 1
           j(f) == [job EXCEPT !.filled = job.filled + f, !.step = step]
<1>5. step \in Int
  BY <1>1
<1> HIDE DEF step
<1>6. ASSUME NEW f \in ReduceFills("yes", Left), Take("yes", Left, f),
             NEW st \in PhasedStatuses, Finish(j(f), st)
      PROVE  SellingInv'
  BY Zenon, <1>1, <1>4, <1>5, <1>6, SellingEnds
<1>7. ASSUME NEW f \in ReduceFills("yes", Left), Take("yes", Left, f), pc' = "tick", job' = j(f)
      PROVE  SellingInv'
  <2>1. job' = [job EXCEPT !.filled = job.filled + f, !.step = step, !.want = job.want]
    BY <1>1, <1>7 DEF RunnerRecords
  <2> QED BY Zenon, <1>1, <1>4, <1>5, <1>7, <2>1, SellingGoesOn
<1> QED BY Zenon, <1>3, <1>6, <1>7 DEF ArbPhase, PhasedStatuses, step

LEMMA SellingWaits == SellingInv /\ (Stop \/ Elsewhere) => SellingInv'
<1> SUFFICES ASSUME SellingInv, Stop \/ Elsewhere PROVE SellingInv'
  OBVIOUS
<1>1. job \in RunnerRecords(SellingKinds, PhasedStatuses) /\ job.filled \in Nat
  BY SellingFacts
<1>2. SoldMore(0) /\ pc' = pc /\ job' \in {job, [job EXCEPT !.stopped = TRUE]}
  <2>1. CASE Stop
    <3>1. UNCHANGED market
      BY <2>1 DEF Stop, market
    <3> QED BY <2>1, <3>1, SoldKept DEF Stop
  <2>2. CASE Elsewhere
    BY <2>2, SoldElsewhere
  <2> QED BY <2>1, <2>2
<1>3. /\ job' \in RunnerRecords(SellingKinds, PhasedStatuses)
      /\ job'.kind = job.kind /\ job'.size = job.size /\ job'.unit = job.unit /\ job'.rungs = job.rungs
      /\ job'.filled = job.filled /\ job'.posted = job.posted /\ job'.fired = job.fired
      /\ job'.step = job.step /\ job'.status = job.status
  BY <1>1, <1>2 DEF RunnerRecords
<1>4. job'.filled = job.filled + 0
  BY <1>1, <1>3
<1>5. SlicesAsked'
  BY <1>2, <1>3 DEF SellingInv, SlicesAsked
<1>6. RungsAsked'
  BY <1>3 DEF SellingInv, RungsAsked
<1>7. /\ pc' \in {"tick", "fired", "phase", "rungs", "done"}
      /\ pc' # "done" => job'.status = "running"
      /\ job'.kind = "arb" /\ pc' = "tick" => job'.filled <= job'.size
  BY <1>2, <1>3 DEF SellingInv
<1> QED BY <1>2, <1>3, <1>4, <1>5, <1>6, <1>7, SellingProceeds

LEMMA SellingStep == SellingInv /\ (PhasedNext \/ Elsewhere) => SellingInv'
<1> SUFFICES ASSUME SellingInv, PhasedNext \/ Elsewhere PROVE SellingInv'
  OBVIOUS
<1>1. job.kind \in SellingKinds
  BY SellingFacts
<1>2. ~(RollClose \/ ReverseClose \/ PairedOpen \/ CashSell \/ CashCount)
  BY Zenon, <1>1 DEF RollClose, ReverseClose, PairedOpen, CashSell, CashCount, SellingKinds
<1> QED BY <1>2, TwapSliceInv, TwapFiredInv, EmergencyInv, ScaleOutPollInv, ScaleOutRungInv, ArbInv,
           SellingWaits DEF PhasedNext, PhasedSteps

-----------------------------------------------------------------------------
(* Roll and stop-and-reverse.                                              *)

PairedKinds == {"roll", "reverse"}

\* Nothing is opened before the close has answered, and then, by a roll, no
\* more than was closed.
PairedInv ==
  /\ job \in RunnerRecords(PairedKinds, PhasedStatuses) /\ pc \in {"tick", "open", "done"}
  /\ MarketTypeOK /\ job.filled <= traded["yes"]
  /\ ~lost => Clean("yes") /\ Clean("no") /\ job.filled = traded["yes"]
  /\ pc = "tick" => job.filled = 0
  /\ pc # "done" => Committed("no") = 0
  /\ job.kind = "roll" => Committed("no") <= job.filled /\ (pc = "open" => job.want <= job.filled)

LEMMA PairedFacts ==
  ASSUME PairedInv
  PROVE  /\ job \in RunnerRecords(PairedKinds, PhasedStatuses) /\ job.kind \in PairedKinds /\ MarketTypeOK
         /\ job.size \in Nat /\ job.unit \in Nat /\ job.filled \in Nat /\ job.want \in Nat
         /\ traded["yes"] \in Nat /\ Committed("no") \in Nat /\ job.filled <= traded["yes"]
         /\ (~lost => Clean("yes")) /\ (~lost => Clean("no"))
         /\ "yes" \in Legs /\ "no" \in Legs
<1>1. /\ "yes" \in Legs /\ "no" \in Legs /\ MarketTypeOK
      /\ job \in RunnerRecords(PairedKinds, PhasedStatuses) /\ job.filled <= traded["yes"]
      /\ ~lost => Clean("yes") /\ Clean("no")
  BY DEF Legs, PairedInv
<1> QED BY <1>1, RunnerFields, OrderFacts

LEMMA PairedInitInv == PhasedInit /\ job.kind \in PairedKinds => PairedInv
<1> SUFFICES ASSUME PhasedInit, job.kind \in PairedKinds PROVE PairedInv
  OBVIOUS
<1>1. /\ MarketTypeOK /\ ~lost /\ \A l \in Legs : Clean(l) /\ traded[l] = 0 /\ Committed(l) = 0
  BY MarketInitFacts DEF PhasedInit
<1>2. PICK kind \in PairedKinds, n \in PhasedSizes, m \in PhasedSizes : job = NewJob(kind, n, m, <<>>)
  <2>1. job \notin TwapJobs \cup EmergencyJobs \cup ScaleOutJobs \cup ArbJobs \cup CashJobs
    BY DEF TwapJobs, EmergencyJobs, ScaleOutJobs, ArbJobs, CashJobs, NewJob, PairedKinds
  <2>2. job \in PairedJobs
    BY <2>1 DEF PhasedInit, PhasedJobs
  <2> QED BY <2>2 DEF PairedJobs, PairedKinds
<1>3. n \in Nat /\ m \in Nat /\ <<>> \in Rungs /\ "running" \in PhasedStatuses
  BY PhasedAssumption DEF Rungs, PhasedStatuses
<1>4. job \in RunnerRecords(PairedKinds, PhasedStatuses) /\ job.filled = 0
  BY <1>2, <1>3, NewJobFields
<1>5. pc = "tick" /\ "yes" \in Legs /\ "no" \in Legs
  BY DEF PhasedInit, Legs
<1> QED BY <1>1, <1>4, <1>5 DEF PairedInv

\* The close sold d shares, or all of it that is known.
LEMMA PairedCloses ==
  ASSUME PairedInv, pc = "tick", NEW d \in Nat, Sells("yes", d), Apart("yes"),
         NEW j, j = [job EXCEPT !.filled = d],
         \/ \E st \in PhasedStatuses : Finish(j, st)
         \/ pc' = "open" /\ job' = [j EXCEPT !.want = OpenSize(j)]
  PROVE  PairedInv'
<1>1. /\ job \in RunnerRecords(PairedKinds, PhasedStatuses) /\ job.unit \in Nat /\ traded["yes"] \in Nat
      /\ job.filled \in Nat /\ job.filled <= traded["yes"] /\ (~lost => Clean("no"))
      /\ "yes" \in Legs /\ "no" \in Legs
  BY PairedFacts
<1>2. job.filled = 0 /\ Committed("no") = 0 /\ (~lost => traded["yes"] = 0)
  BY DEF PairedInv
<1>3. /\ j \in RunnerRecords(PairedKinds, PhasedStatuses) /\ j.kind = job.kind /\ j.unit = job.unit
      /\ j.filled = d
  BY <1>1 DEF RunnerRecords
<1>4. OpenSize(j) \in Nat /\ (j.kind = "roll" => OpenSize(j) <= d)
  BY <1>1, <1>3 DEF OpenSize, Least
<1>5. /\ job' \in RunnerRecords(PairedKinds, PhasedStatuses) /\ job'.kind = job.kind
      /\ job'.filled = d /\ pc' \in {"open", "done"}
      /\ pc' = "open" => job'.want = OpenSize(j)
  <2>1. ASSUME NEW st \in PhasedStatuses, Finish(j, st)
        PROVE  /\ job' \in RunnerRecords(PairedKinds, PhasedStatuses) /\ job'.kind = job.kind
               /\ job'.filled = d /\ pc' = "done"
    BY Zenon, <1>3, <2>1 DEF RunnerRecords, Finish
  <2>2. ASSUME pc' = "open", job' = [j EXCEPT !.want = OpenSize(j)]
        PROVE  /\ job' \in RunnerRecords(PairedKinds, PhasedStatuses) /\ job'.kind = job.kind
               /\ job'.filled = d /\ job'.want = OpenSize(j)
    BY <1>3, <1>4, <2>2 DEF RunnerRecords
  <2> QED BY <2>1, <2>2
<1>6. MarketTypeOK' /\ Untouched("no")
  BY DEF Sells, Apart, Legs
<1>7. traded'["yes"] \in Nat /\ lost' \in BOOLEAN
  BY <1>1, <1>6 DEF MarketTypeOK
<1>8. d <= traded'["yes"]
  BY <1>1, <1>7 DEF Sells
<1>9. ~lost' => Clean("yes")' /\ Clean("no")' /\ d = traded'["yes"]
  <2>1. ASSUME ~lost' PROVE Clean("yes")' /\ traded'["yes"] = traded["yes"] + d /\ ~lost
    BY <2>1 DEF Sells
  <2>2. ASSUME ~lost' PROVE Clean("no")'
    BY <1>1, <1>6, <2>1, <2>2 DEF Untouched, Clean
  <2>3. ASSUME ~lost' PROVE d = traded'["yes"]
    BY <1>2, <2>1, <2>3
  <2> QED BY <2>1, <2>2, <2>3
<1>10. Committed("no")' = 0
  BY <1>2, <1>6 DEF Untouched, Committed
<1>11. job'.kind = "roll" => Committed("no")' <= job'.filled /\ (pc' = "open" => job'.want <= job'.filled)
  BY <1>3, <1>4, <1>5, <1>10
<1>12. job'.filled <= traded'["yes"]
  BY <1>5, <1>8
<1> QED BY <1>5, <1>6, <1>9, <1>10, <1>11, <1>12 DEF PairedInv

\* What ends a job: the second leg commits c shares more.
LEMMA PairedEnds ==
  ASSUME PairedInv, pc = "open", NEW st \in PhasedStatuses, Finish(job, st),
         MarketTypeOK', Untouched("yes"), lost => lost', ~lost' => Clean("no")',
         NEW c \in Nat, c <= job.want, Committed("no")' = Committed("no") + c
  PROVE  PairedInv'
<1>1. /\ job \in RunnerRecords(PairedKinds, PhasedStatuses) /\ job.want \in Nat
      /\ job.filled \in Nat /\ job.filled <= traded["yes"]
  BY PairedFacts
<1>2. /\ Committed("no") = 0 /\ (~lost => Clean("yes") /\ job.filled = traded["yes"])
      /\ job.kind = "roll" => job.want <= job.filled
  BY DEF PairedInv
<1>3. /\ job' \in RunnerRecords(PairedKinds, PhasedStatuses) /\ job'.kind = job.kind
      /\ job'.filled = job.filled /\ pc' = "done"
  BY <1>1 DEF RunnerRecords, Finish
<1>4. ~lost' => Clean("yes")' /\ Clean("no")' /\ job'.filled = traded'["yes"]
  BY <1>2, <1>3 DEF Untouched, Clean
<1>5. Committed("no")' = c
  BY <1>2
<1>6. job'.kind = "roll" => Committed("no")' <= job'.filled
  BY <1>1, <1>2, <1>3, <1>5
<1>7. job'.filled <= traded'["yes"]
  BY <1>1, <1>3 DEF Untouched
<1> QED BY <1>3, <1>4, <1>6, <1>7 DEF PairedInv

LEMMA PairedStep == PairedInv /\ (PhasedNext \/ Elsewhere) => PairedInv'
<1> SUFFICES ASSUME PairedInv, PhasedNext \/ Elsewhere PROVE PairedInv'
  OBVIOUS
<1>1. /\ job \in RunnerRecords(PairedKinds, PhasedStatuses) /\ job.kind \in PairedKinds /\ MarketTypeOK
      /\ job.size \in Nat /\ job.unit \in Nat /\ job.filled \in Nat /\ job.want \in Nat
      /\ traded["yes"] \in Nat /\ Committed("no") \in Nat /\ job.filled <= traded["yes"]
      /\ (~lost => Clean("yes")) /\ (~lost => Clean("no"))
      /\ "yes" \in Legs /\ "no" \in Legs
  BY PairedFacts
<1>2. ASSUME NEW d \in Nat, pc = "tick", Sells("yes", d), Apart("yes"), Closed([job EXCEPT !.filled = d])
      PROVE  PairedInv'
  <2> DEFINE j == [job EXCEPT !.filled = d]
  <2>1. Closed(j)
    BY <1>2
  <2> HIDE DEF j
  <2>2. \/ \E st \in PhasedStatuses : Finish(j, st)
        \/ pc' = "open" /\ job' = [j EXCEPT !.want = OpenSize(j)]
    BY <2>1 DEF Closed, PhasedStatuses
  <2>3. j = [job EXCEPT !.filled = d]
    BY DEF j
  <2> QED BY <1>2, <2>2, <2>3, PairedCloses
<1>3. CASE RollClose
  <2>1. PICK o \in PassiveOutcomes(job.size) :
          RanPassive("yes", o) /\ Closed([job EXCEPT !.filled = o.filled])
    BY <1>3 DEF RollClose
  <2>2. o.filled \in Nat /\ Sells("yes", o.filled) /\ Apart("yes") /\ pc = "tick"
    BY <1>1, <1>3, <2>1, SellsPassively DEF RollClose
  <2> QED BY <1>2, <2>1, <2>2
<1>4. CASE ReverseClose
  <2>1. ASSUME SweepThrows("yes", job.size), Finish(job, "error") PROVE PairedInv'
    <3> DEFINE zero == 0
    <3>1. Sells("yes", zero) /\ Apart("yes") /\ zero \in Nat /\ pc = "tick"
      BY <1>1, <1>4, <2>1, SellsThrowing DEF ReverseClose
    <3>2. job = [job EXCEPT !.filled = zero]
      <4>1. job.filled = 0
        BY <3>1 DEF PairedInv
      <4> QED BY <1>1, <4>1 DEF RunnerRecords
    <3>3. \E st \in PhasedStatuses : Finish(job, st)
      BY <2>1 DEF PhasedStatuses
    <3> HIDE DEF zero
    <3> QED BY <3>1, <3>2, <3>3, PairedCloses
  <2>2. ASSUME NEW f \in ReduceFills("yes", job.size), Take("yes", job.size, f),
               Closed([job EXCEPT !.filled = f])
        PROVE  PairedInv'
    <3>1. f \in 0 .. job.size /\ Sells("yes", f) /\ Apart("yes") /\ pc = "tick"
      BY <1>1, <1>4, <2>2, SellsSweeping DEF ReverseClose
    <3>2. f \in Nat
      BY <1>1, <3>1
    <3> QED BY <1>2, <2>2, <3>1, <3>2
  <2> QED BY <1>4, <2>1, <2>2 DEF ReverseClose
<1>5. CASE PairedOpen
  <2>1. pc = "open"
    BY <1>5 DEF PairedOpen
  <2>2. ASSUME SweepThrows("no", job.want), Finish(job, "error") PROVE PairedInv'
    <3>1. /\ Sells("no", 0) /\ Apart("no")
          /\ Committed("no")' \in {Committed("no"), Committed("no") + job.want}
      BY <1>1, <2>2, SellsThrowing
    <3>2. PICK c \in {0, job.want} : Committed("no")' = Committed("no") + c
      BY <1>1, <3>1
    <3>3. MarketTypeOK' /\ Untouched("yes") /\ (lost => lost') /\ (~lost' => Clean("no")')
      BY <3>1 DEF Sells, Apart, Legs
    <3>4. c \in Nat /\ c <= job.want
      BY <1>1
    <3> QED BY <2>1, <2>2, <3>2, <3>3, <3>4, PairedEnds DEF PhasedStatuses
  <2>3. ASSUME NEW f \in ReduceFills("no", job.want), Take("no", job.want, f),
               NEW st \in PhasedStatuses, Finish(job, st)
        PROVE  PairedInv'
    <3>1. /\ f \in 0 .. job.want /\ Sells("no", f) /\ Apart("no")
          /\ Committed("no")' = Committed("no") + f
      BY <1>1, <2>3, SellsSweeping
    <3>2. MarketTypeOK' /\ Untouched("yes") /\ (lost => lost') /\ (~lost' => Clean("no")')
      BY <3>1 DEF Sells, Apart, Legs
    <3>3. f \in Nat /\ f <= job.want
      BY <1>1, <3>1
    <3> QED BY <2>1, <2>3, <3>1, <3>2, <3>3, PairedEnds
  <2> QED BY <1>5, <2>2, <2>3 DEF PairedOpen, PhasedStatuses
<1>6. CASE Elsewhere
  <2>1. /\ Sells("yes", 0) /\ lost' = lost /\ pc' = pc /\ job' = job
        /\ Sells("no", 0)
    BY <1>1, <1>6, SellsElsewhere
  <2>2. MarketTypeOK' /\ Drifts("no") /\ Drifts("yes")
    BY <1>1, <1>6, ElsewhereMoves
  <2>3. traded'["yes"] \in Nat /\ Committed("no")' \in Nat /\ Committed("no")' <= Committed("no")
    BY <1>1, <2>2, OrderFactsNext DEF Drifts
  <2>4. job'.filled <= traded'["yes"]
    BY <1>1, <2>1, <2>3 DEF Sells
  <2>5. ~lost' => Clean("yes")' /\ Clean("no")' /\ job'.filled = traded'["yes"]
    BY <1>1, <2>1 DEF PairedInv, Sells
  <2>6. pc' # "done" => Committed("no")' = 0
    BY <1>1, <2>1, <2>3 DEF PairedInv
  <2>7. job'.kind = "roll" => Committed("no")' <= job'.filled /\ (pc' = "open" => job'.want <= job'.filled)
    BY SMTT(30), <1>1, <2>1, <2>3 DEF PairedInv
  <2> QED BY <1>1, <2>1, <2>2, <2>4, <2>5, <2>6, <2>7 DEF PairedInv
<1>7. ~(job.kind \in {"twap", "scaleout"}) /\ ~(TwapSlice \/ TwapFired \/ EmergencyStart \/ EmergencyPhase
        \/ ScaleOutPoll \/ ScaleOutRung \/ ArbPhase \/ CashSell \/ CashCount)
  BY Zenon, <1>1 DEF TwapSlice, TwapFired, EmergencyStart, EmergencyPhase, ScaleOutPoll, ScaleOutRung, ArbPhase,
              CashSell, CashCount, PairedKinds
<1> QED BY <1>3, <1>4, <1>5, <1>6, <1>7 DEF PhasedNext, PhasedSteps

-----------------------------------------------------------------------------
(* Cash raise.                                                             *)

CashKinds == {"cash"}

CashInv ==
  /\ job \in RunnerRecords(CashKinds, PhasedStatuses) /\ pc \in {"tick", "count", "done"}
  /\ job.step \in 0 .. 2 /\ (pc = "count" => job.step < 2)
  /\ MarketTypeOK /\ (~lost => \A l \in Legs : Clean(l))

LEMMA CashInitInv == PhasedInit /\ job.kind \in CashKinds => CashInv
<1> SUFFICES ASSUME PhasedInit, job.kind \in CashKinds PROVE CashInv
  OBVIOUS
<1>1. MarketTypeOK /\ \A l \in Legs : Clean(l)
  BY MarketInitFacts DEF PhasedInit
<1>2. PICK kind \in CashKinds, n \in PhasedSizes, m \in PhasedSizes : job = NewJob(kind, n, m, <<>>)
  <2>1. job \notin TwapJobs \cup EmergencyJobs \cup ScaleOutJobs \cup ArbJobs \cup PairedJobs
    BY DEF TwapJobs, EmergencyJobs, ScaleOutJobs, ArbJobs, PairedJobs, NewJob, CashKinds
  <2>2. job \in CashJobs
    BY <2>1 DEF PhasedInit, PhasedJobs
  <2> QED BY <2>2 DEF CashJobs, CashKinds
<1>3. n \in Nat /\ m \in Nat /\ <<>> \in Rungs /\ "running" \in PhasedStatuses
  BY PhasedAssumption DEF Rungs, PhasedStatuses
<1>4. job \in RunnerRecords(CashKinds, PhasedStatuses) /\ job.step = 0
  BY <1>2, <1>3, NewJobFields
<1> QED BY <1>1, <1>4 DEF PhasedInit, CashInv

LEMMA CashStep == CashInv /\ (PhasedNext \/ Elsewhere) => CashInv'
<1> SUFFICES ASSUME CashInv, PhasedNext \/ Elsewhere PROVE CashInv'
  OBVIOUS
<1>1. /\ job \in RunnerRecords(CashKinds, PhasedStatuses) /\ MarketTypeOK /\ job.step \in 0 .. 2
      /\ pc = "count" => job.step < 2
      /\ ~lost => \A l \in Legs : Clean(l)
  BY DEF CashInv
<1>2. /\ job.kind \in CashKinds /\ job.size \in Nat /\ job.filled \in Nat /\ job.posted \in Nat
      /\ job.want \in Nat
  BY <1>1, RunnerFields
<1>3. ASSUME NEW l \in Legs, NEW d, Sells(l, d), Apart(l)
      PROVE  MarketTypeOK' /\ (~lost' => \A k \in Legs : Clean(k)')
  <2>1. MarketTypeOK' /\ (~lost' => ~lost /\ Clean(l)')
    BY <1>3 DEF Sells
  <2>2. ASSUME ~lost', NEW k \in Legs \ {l} PROVE Clean(k)'
    BY <1>1, <1>3, <2>1, <2>2 DEF Apart, Untouched, Clean
  <2> QED BY <2>1, <2>2
<1>4. ASSUME UNCHANGED market PROVE MarketTypeOK' /\ (~lost' => \A k \in Legs : Clean(k)')
  BY <1>1, <1>4, MarketKept
<1>5. CASE CashSell
  <2> DEFINE l == CashPositions[job.step + 1]
  <2>1. job.step < 2 => l \in Legs
    <3>1. CASE job.step = 0
      BY <3>1 DEF CashPositions, Legs
    <3>2. CASE job.step = 1
      BY <3>2 DEF CashPositions, Legs
    <3> QED BY <1>1, <3>1, <3>2
  <2> HIDE DEF l
  <2>2. CASE Finish(job, IF job.step = 2 THEN "finished" ELSE "deadline_hit") /\ UNCHANGED market
    <3>1. PICK st \in PhasedStatuses : Finish(job, st)
      BY <2>2 DEF PhasedStatuses
    <3>2. job' \in RunnerRecords(CashKinds, PhasedStatuses) /\ job'.step = job.step /\ pc' = "done"
      BY <1>1, <3>1 DEF Finish, RunnerRecords
    <3> QED BY <1>1, <1>4, <2>2, <3>2 DEF CashInv
  <2>3. ASSUME job.step < 2, NEW p \in Nat, pc' = "count", job' = [job EXCEPT !.posted = p],
               NEW d, Sells(l, d), Apart(l)
        PROVE  CashInv'
    <3>1. job' \in RunnerRecords(CashKinds, PhasedStatuses) /\ job'.step = job.step
      BY <1>1, <2>3 DEF RunnerRecords
    <3>2. MarketTypeOK' /\ (~lost' => \A k \in Legs : Clean(k)')
      BY <1>3, <2>1, <2>3
    <3> QED BY <1>1, <2>3, <3>1, <3>2 DEF CashInv
  <2>4. ASSUME job.step < 2, pc' = "count", SweepThrows(l, job.size), job' = [job EXCEPT !.posted = 0]
        PROVE  CashInv'
    <3> DEFINE zero == 0
    <3>1. Sells(l, 0) /\ Apart(l) /\ zero \in Nat
      BY <1>1, <1>2, <2>1, <2>4, SellsThrowing
    <3> HIDE DEF zero
    <3>2. job' = [job EXCEPT !.posted = zero]
      BY <2>4 DEF zero
    <3> QED BY <2>3, <2>4, <3>1, <3>2
  <2>5. ASSUME job.step < 2, pc' = "count", NEW f \in ReduceFills(l, job.size), Take(l, job.size, f),
               job' = [job EXCEPT !.posted = f]
        PROVE  CashInv'
    <3>1. f \in 0 .. job.size /\ Sells(l, f) /\ Apart(l)
      BY <1>1, <1>2, <2>1, <2>5, SellsSweeping
    <3>2. f \in Nat
      BY <1>2, <3>1
    <3> QED BY <2>3, <2>5, <3>1, <3>2
  <2>6. ASSUME job.step < 2, pc' = "count", NEW o \in PassiveOutcomes(job.size), RanPassive(l, o),
               job' = [job EXCEPT !.posted = o.filled]
        PROVE  CashInv'
    <3>1. o.filled \in Nat /\ Sells(l, o.filled) /\ Apart(l)
      BY <1>1, <1>2, <2>1, <2>6, SellsPassively
    <3> QED BY <2>3, <2>6, <3>1
  <2> QED BY <1>5, <2>2, <2>4, <2>5, <2>6 DEF CashSell, l
<1>6. CASE CashCount
  <2>1. pc = "count" /\ UNCHANGED market
    BY <1>6 DEF CashCount
  <2>2. PICK bid \in Bids \cup {0} :
          LET j == [job EXCEPT !.want = job.want + bid * job.posted, !.posted = 0,
                               !.step = job.step + 1, !.filled = job.filled + job.posted]
          IN \/ \E st \in PhasedStatuses : Finish(j, st)
             \/ pc' = "tick" /\ job' = j
    BY Zenon, <1>6 DEF CashCount, PhasedStatuses
  <2> DEFINE want == job.want + bid * job.posted
             filled == job.filled + job.posted
             step == job.step + 1
             zero == 0
             j == [job EXCEPT !.want = want, !.posted = zero, !.step = step, !.filled = filled]
  <2>3. want \in Nat /\ filled \in Nat /\ step \in 0 .. 2 /\ step \in Int /\ zero \in Nat
    <3>1. bid \in Nat
      BY PhasedAssumption
    <3>2. bid * job.posted \in Nat
      BY <1>2, <3>1
    <3> QED BY <1>1, <1>2, <2>1, <3>2
  <2>4. \/ \E st \in PhasedStatuses : Finish(j, st)
        \/ pc' = "tick" /\ job' = j
    BY <2>2
  <2> HIDE DEF want, filled, step, zero
  <2>5. j \in RunnerRecords(CashKinds, PhasedStatuses) /\ j.step = step
    BY <1>1, <2>3 DEF RunnerRecords
  <2> HIDE DEF j
  <2>6. /\ job' \in RunnerRecords(CashKinds, PhasedStatuses) /\ job'.step \in 0 .. 2
        /\ pc' \in {"tick", "done"}
    BY <2>3, <2>4, <2>5 DEF Finish, RunnerRecords
  <2> QED BY <1>4, <2>1, <2>6 DEF CashInv
<1>7. CASE Elsewhere
  <2>1. MarketTypeOK' /\ pc' = pc /\ job' = job /\ lost' = lost
    BY <1>1, <1>7, ElsewhereMoves
  <2>2. ASSUME ~lost, NEW l \in Legs PROVE Clean(l)'
    <3>1. Sells(l, 0) /\ lost' = lost
      BY Zenon, <1>1, <1>7, <2>2, SellsElsewhere
    <3> QED BY <2>2, <3>1 DEF Sells
  <2> QED BY <1>1, <2>1, <2>2 DEF CashInv
<1>8. ~(job.kind \in {"twap", "scaleout"}) /\ ~(TwapSlice \/ TwapFired \/ EmergencyStart \/ EmergencyPhase
        \/ ScaleOutPoll \/ ScaleOutRung \/ ArbPhase \/ RollClose \/ ReverseClose \/ PairedOpen)
  BY Zenon, <1>2 DEF TwapSlice, TwapFired, EmergencyStart, EmergencyPhase, ScaleOutPoll, ScaleOutRung, ArbPhase,
              RollClose, ReverseClose, PairedOpen, CashKinds
<1> QED BY <1>5, <1>6, <1>7, <1>8 DEF PhasedNext, PhasedSteps

-----------------------------------------------------------------------------
(* The coordinator of several legs.                                        *)

MultiRecords ==
  [kind : {"multi"}, arb : BOOLEAN, halted : BOOLEAN,
   status : {"running", "error", "complete", "halted"},
   legs : [Legs -> LegStates], report : [Legs -> Nat]]

\* What leg l is known to have sold
LegAccount(l) ==
  /\ job.legs[l].filled <= traded[l]
  /\ ~lost => Clean(l) /\ job.legs[l].filled = traded[l]
  /\ ~job.legs[l].ran => job.legs[l].filled = 0
  /\ ~job.halted /\ job.legs[l].done => job.legs[l].ran

\* What is reported of leg l: a leg that was halted may sell more afterwards.
LegReport(l) ==
  /\ job.report[l] <= traded[l]
  /\ ~job.halted => job.legs[l].done /\ job.report[l] = job.legs[l].filled

MultiInv ==
  /\ job \in MultiRecords /\ pc \in {"start", "poll", "fetch", "skew", "settle", "done", "killed"}
  /\ MarketTypeOK
  /\ \A l \in Legs : LegAccount(l)
  /\ pc = "settle" /\ ~job.halted => \A l \in Legs : job.legs[l].done
  /\ pc = "done" /\ job.status # "error" => \A l \in Legs : LegReport(l)

LEMMA MultiFacts ==
  ASSUME MultiInv
  PROVE  /\ job \in MultiRecords /\ job.kind = "multi" /\ MarketTypeOK /\ job.halted \in BOOLEAN
         /\ job.legs \in [Legs -> LegStates] /\ job.report \in [Legs -> Nat]
         /\ \A l \in Legs :
              /\ job.legs[l] \in LegStates /\ job.legs[l].size \in Nat /\ job.legs[l].filled \in Nat
              /\ job.legs[l].done \in BOOLEAN /\ job.legs[l].ran \in BOOLEAN
              /\ job.report[l] \in Nat /\ traded[l] \in Nat
              /\ LegAccount(l) /\ (~lost => Clean(l))
<1>1. job \in MultiRecords /\ MarketTypeOK /\ \A l \in Legs : LegAccount(l)
  BY DEF MultiInv
<1>2. /\ job.kind = "multi" /\ job.halted \in BOOLEAN
      /\ job.legs \in [Legs -> LegStates] /\ job.report \in [Legs -> Nat]
  BY <1>1 DEF MultiRecords
<1>3. ASSUME NEW l \in Legs
      PROVE  /\ job.legs[l] \in LegStates /\ job.legs[l].size \in Nat /\ job.legs[l].filled \in Nat
             /\ job.legs[l].done \in BOOLEAN /\ job.legs[l].ran \in BOOLEAN
             /\ job.report[l] \in Nat /\ traded[l] \in Nat
  <2>1. job.legs[l] \in LegStates /\ job.report[l] \in Nat /\ traded[l] \in Nat
    BY <1>1, <1>2, OrderFacts
  <2>2. LegSizes \subseteq Nat
    BY MultiAssumption
  <2> QED BY <2>1, <2>2 DEF LegStates
<1> QED BY <1>1, <1>2, <1>3 DEF LegAccount

LEMMA MultiInitInv == MultiInit => MultiInv
<1> SUFFICES ASSUME MultiInit PROVE MultiInv
  OBVIOUS
<1>1. /\ MarketTypeOK /\ ~lost /\ \A l \in Legs : Clean(l) /\ traded[l] = 0
  BY MarketInitFacts DEF MultiInit
<1> DEFINE NewLegs == {[size |-> n, mode |-> mode, filled |-> 0, done |-> FALSE, ran |-> FALSE,
                        paused |-> FALSE] :
                          n \in LegSizes, mode \in {"aggressive", "passive"}}
           none == [l \in Legs |-> 0]
<1>2. PICK arb \in BOOLEAN, legs \in [Legs -> NewLegs] :
        job = [kind |-> "multi", arb |-> arb, halted |-> FALSE, status |-> "running",
               legs |-> legs, report |-> none]
  BY DEF MultiInit, MultiJobs
<1>3. \A g \in NewLegs : g \in LegStates /\ g.filled = 0 /\ ~g.done /\ ~g.ran
  <2>1. ASSUME NEW g \in NewLegs PROVE g \in LegStates /\ g.filled = 0 /\ ~g.done /\ ~g.ran
    <3>1. PICK n \in LegSizes, mode \in {"aggressive", "passive"} :
            g = [size |-> n, mode |-> mode, filled |-> 0, done |-> FALSE, ran |-> FALSE,
                 paused |-> FALSE]
      BY <2>1
    <3> QED BY <3>1 DEF LegStates
  <2> QED BY <2>1
<1>4. none \in [Legs -> Nat]
  OBVIOUS
<1> HIDE DEF NewLegs, none
<1>5. legs \in [Legs -> LegStates] /\ \A l \in Legs : legs[l].filled = 0 /\ ~legs[l].done /\ ~legs[l].ran
  BY <1>3
<1>6. job \in MultiRecords /\ job.legs = legs /\ ~job.halted
  BY <1>2, <1>4, <1>5 DEF MultiRecords
<1>7. \A l \in Legs : LegAccount(l)
  BY <1>1, <1>5, <1>6 DEF LegAccount
<1> QED BY <1>1, <1>6, <1>7 DEF MultiInv, MultiInit

\* A leg answers that it sold d shares.
LEMMA LegSells ==
  ASSUME MultiInv, NEW l \in Legs, NEW d \in Nat,
         ~job.legs[l].ran, LegAnswers(l, d), pc' = pc, Sells(l, d), Apart(l)
  PROVE  MultiInv'
<1>1. /\ job \in MultiRecords /\ MarketTypeOK /\ job.halted \in BOOLEAN
      /\ job.legs \in [Legs -> LegStates] /\ job.report \in [Legs -> Nat]
  BY MultiFacts
<1>2. \A k \in Legs :
        /\ job.legs[k] \in LegStates /\ job.legs[k].filled \in Nat
        /\ job.legs[k].done \in BOOLEAN /\ job.legs[k].ran \in BOOLEAN
        /\ job.report[k] \in Nat /\ traded[k] \in Nat /\ LegAccount(k)
  BY MultiFacts
<1> DEFINE leg == job.legs[l]
           g == [Settled(leg) EXCEPT !.filled = d]
<1>3. leg \in LegStates
  BY <1>2
<1>4. g \in LegStates /\ g.filled = d /\ g.done /\ g.ran
  <2> HIDE DEF leg
  <2> QED BY <1>3 DEF Settled, LegStates
<1>5. job' = [job EXCEPT !.legs = [job.legs EXCEPT ![l] = g]]
  BY DEF LegAnswers
<1> HIDE DEF leg, g
<1> DEFINE legs == [job.legs EXCEPT ![l] = g]
<1>6. legs \in [Legs -> LegStates] /\ legs[l] = g /\ \A k \in Legs \ {l} : legs[k] = job.legs[k]
  BY <1>1, <1>4
<1> HIDE DEF legs
<1>7. /\ job' \in MultiRecords /\ job'.legs = legs /\ job'.halted = job.halted
      /\ job'.status = job.status /\ job'.report = job.report
  <2>1. job' = [job EXCEPT !.legs = legs]
    BY <1>5 DEF legs
  <2> QED BY <1>1, <1>6, <2>1 DEF MultiRecords
<1>8. MarketTypeOK' /\ (lost => lost') /\ \A k \in Legs \ {l} : Untouched(k)
  BY DEF Sells, Apart
<1>9. traded[l] \in Nat /\ traded'[l] \in Nat
  BY <1>1, <1>8, OrderFacts DEF MarketTypeOK
<1>10. ASSUME ~lost' PROVE Clean(l)' /\ traded'[l] = d
  <2>1. ~lost /\ Clean(l)' /\ traded'[l] = traded[l] + d
    BY <1>10 DEF Sells
  <2>2. traded[l] = 0
    BY <1>2, <2>1 DEF LegAccount
  <2> QED BY <2>1, <2>2
<1>11. d <= traded'[l] /\ traded[l] <= traded'[l]
  BY <1>9 DEF Sells
<1>12. LegAccount(l)'
  BY <1>4, <1>6, <1>7, <1>10, <1>11 DEF LegAccount
<1>13. ASSUME NEW k \in Legs \ {l} PROVE LegAccount(k)'
  <2>1. LegAccount(k) /\ Untouched(k)
    BY <1>2, <1>8
  <2>2. ~lost' => Clean(k)' /\ job'.legs[k].filled = traded'[k]
    BY <1>6, <1>7, <1>8, <2>1 DEF LegAccount, Untouched, Clean
  <2> QED BY <1>6, <1>7, <2>1, <2>2 DEF LegAccount, Untouched
<1>14. ASSUME pc' = "settle", ~job'.halted, NEW k \in Legs PROVE job'.legs[k].done
  BY <1>4, <1>6, <1>7, <1>14 DEF MultiInv
<1>15. ASSUME pc' = "done", job'.status # "error", NEW k \in Legs PROVE LegReport(k)'
  <2>1. \A m \in Legs : LegReport(m)
    BY <1>7, <1>15 DEF MultiInv
  <2>2. job.halted
    BY <1>2, <2>1 DEF LegReport, LegAccount
  <2>3. traded[k] <= traded'[k] /\ traded[k] \in Nat /\ traded'[k] \in Nat /\ job.report[k] \in Nat
    BY <1>2, <1>8, <1>11, OrderFactsNext DEF Untouched
  <2>4. job'.report[k] <= traded'[k]
    BY <1>7, <2>1, <2>3 DEF LegReport
  <2> QED BY <1>7, <2>2, <2>4 DEF LegReport
<1>16. \A k \in Legs : LegAccount(k)'
  BY <1>12, <1>13
<1> QED BY <1>7, <1>8, <1>14, <1>15, <1>16 DEF MultiInv

\* The process dies while leg l may have been selling: what is known of it stays true.
LEMMA LegKills ==
  ASSUME MultiInv, NEW l \in Legs, NEW zero \in Nat, zero = 0,
         Sells(l, zero), Apart(l), UNCHANGED job, pc' = "killed"
  PROVE  MultiInv'
<1>1. MarketTypeOK' /\ (lost => lost') /\ \A k \in Legs \ {l} : Untouched(k)
  BY DEF Sells, Apart
<1>2. \A k \in Legs : LegAccount(k) /\ job.legs[k].filled \in Nat /\ traded[k] \in Nat
  BY MultiFacts
<1>3. traded[l] <= traded'[l] /\ traded'[l] \in Nat
  <2>1. traded'[l] \in Nat
    BY <1>1 DEF MarketTypeOK, Orders
  <2> QED BY <1>2, <2>1 DEF Sells
<1>4. ~lost' => ~lost /\ Clean(l)' /\ traded'[l] = traded[l]
  BY <1>2 DEF Sells
<1>5. LegAccount(l)'
  BY <1>2, <1>3, <1>4 DEF LegAccount
<1>6. ASSUME NEW k \in Legs \ {l} PROVE LegAccount(k)'
  <2>1. LegAccount(k) /\ Untouched(k)
    BY <1>1, <1>2
  <2>2. ~lost' => Clean(k)' /\ job'.legs[k].filled = traded'[k]
    BY <1>1, <2>1 DEF LegAccount, Untouched, Clean
  <2> QED BY <2>1, <2>2 DEF LegAccount, Untouched
<1>7. \A k \in Legs : LegAccount(k)'
  BY <1>5, <1>6
<1> QED BY <1>1, <1>7 DEF MultiInv

LEMMA LegRunsInv == ASSUME MultiInv, NEW l \in Legs, LegRuns(l) PROVE MultiInv'
<1>1. MarketTypeOK /\ job.legs[l].size \in Nat /\ (~lost => Clean(l))
  BY MultiFacts
<1>2. ~job.legs[l].ran
  BY DEF LegRuns, LegEnds, LegThrows, LegUnderWay
<1> DEFINE n == job.legs[l].size
<1>3. ASSUME NEW o \in PassiveOutcomes(n), RanPassive(l, o), LegAnswers(l, o.filled), pc' = pc
      PROVE  MultiInv'
  <2>1. o.filled \in Nat /\ Sells(l, o.filled) /\ Apart(l)
    BY <1>1, <1>3, SellsPassively
  <2> QED BY <1>2, <1>3, <2>1, LegSells
<1>4. ASSUME SweepThrows(l, n), NEW zero \in Nat, zero = 0,
             \/ LegAnswers(l, zero) /\ UNCHANGED pc
             \/ pc' = "killed" /\ UNCHANGED job
      PROVE  MultiInv'
  <2>1. Sells(l, zero) /\ Apart(l)
    BY <1>1, <1>4, SellsThrowing
  <2> QED BY <1>2, <1>4, <2>1, LegSells, LegKills
<1>5. ASSUME NEW f \in ReduceFills(l, n), Take(l, n, f), LegAnswers(l, f), pc' = pc
      PROVE  MultiInv'
  <2>1. f \in 0 .. n /\ Sells(l, f) /\ Apart(l)
    BY <1>1, <1>5, SellsSweeping
  <2>2. f \in Nat
    BY <1>1, <2>1
  <2> QED BY <1>2, <1>5, <2>1, <2>2, LegSells
<1>6. CASE LegEnds(l)
  BY <1>3, <1>5, <1>6 DEF LegEnds
<1>7. CASE LegThrows(l)
  <2>1. SweepThrows(l, n)
    BY <1>7 DEF LegThrows
  <2>2. PICK zero \in Nat : zero = 0
    OBVIOUS
  <2>3. CASE LegAnswers(l, 0) /\ UNCHANGED pc
    <3>1. LegAnswers(l, zero) /\ UNCHANGED pc
      BY <2>2, <2>3
    <3> QED BY <1>4, <2>1, <2>2, <3>1
  <2>4. CASE pc' = "killed" /\ UNCHANGED job
    BY <1>4, <2>1, <2>2, <2>4
  <2> QED BY <1>7, <2>3, <2>4 DEF LegThrows
<1> QED BY <1>6, <1>7 DEF LegRuns

\* Steps of the loop leave the market alone, and what the legs have sold.
LEMMA LoopInv == MultiInv /\ MultiLoop => MultiInv'
<1> SUFFICES ASSUME MultiInv, MultiLoop PROVE MultiInv'
  OBVIOUS
<1>1. /\ job \in MultiRecords /\ MarketTypeOK /\ job.halted \in BOOLEAN
      /\ job.legs \in [Legs -> LegStates] /\ job.report \in [Legs -> Nat]
  BY MultiFacts
<1>2. \A k \in Legs :
        /\ job.legs[k] \in LegStates /\ job.legs[k].filled \in Nat
        /\ job.legs[k].done \in BOOLEAN /\ job.legs[k].ran \in BOOLEAN
        /\ job.report[k] \in Nat /\ traded[k] \in Nat /\ LegAccount(k)
  BY MultiFacts
<1>3. UNCHANGED market
  BY DEF MultiLoop, MultiStart, MultiPoll, MultiFetch, MultiSkew, MultiFinish, market
<1>4. /\ MarketTypeOK' /\ lost' = lost /\ \A k \in Legs : Untouched(k) /\ Clean(k)' = Clean(k)
  BY <1>1, <1>3, MarketKept
\* as long as each leg keeps what it sold
<1>5. ASSUME job' \in MultiRecords,
             \A k \in Legs : /\ job'.legs[k].filled = job.legs[k].filled
                             /\ job'.legs[k].ran = job.legs[k].ran
                             /\ ~job'.halted => ~job.halted /\ (job'.legs[k].done => job.legs[k].done)
      PROVE  \A k \in Legs : LegAccount(k)'
  <2>1. ASSUME NEW k \in Legs PROVE LegAccount(k)'
    <3>1. LegAccount(k) /\ traded'[k] = traded[k] /\ Clean(k)' = Clean(k)
      BY <1>2, <1>4 DEF Untouched
    <3>2. ~lost' => Clean(k)' /\ job'.legs[k].filled = traded'[k]
      BY <1>4, <1>5, <3>1 DEF LegAccount
    <3> QED BY <1>5, <3>1, <3>2 DEF LegAccount
  <2> QED BY <2>1
<1>6. CASE UNCHANGED job /\ pc' \in {"poll", "skew", "fetch"}
  <2>1. \A k \in Legs : LegAccount(k)'
    BY <1>1, <1>5, <1>6
  <2> QED BY <1>1, <1>4, <1>6, <2>1 DEF MultiInv
<1>7. CASE MultiStart /\ Finish(job, "error")
  <2>1. /\ job' \in MultiRecords /\ job'.legs = job.legs /\ job'.halted = job.halted
        /\ job'.status = "error" /\ pc' = "done"
    BY <1>1, <1>7 DEF MultiRecords, Finish
  <2>2. \A k \in Legs : LegAccount(k)'
    BY <1>5, <2>1
  <2> QED BY <1>4, <2>1, <2>2 DEF MultiInv
<1>8. CASE pc' = "settle" /\ job' = Halted(job)
  <2> DEFINE legs == [l \in Legs |-> [job.legs[l] EXCEPT !.done = TRUE]]
  <2>1. /\ legs \in [Legs -> LegStates]
        /\ \A l \in Legs : legs[l].filled = job.legs[l].filled /\ legs[l].ran = job.legs[l].ran /\ legs[l].done
    BY <1>2 DEF LegStates
  <2>2. job' = [job EXCEPT !.halted = TRUE, !.legs = legs]
    BY <1>8 DEF Halted
  <2> HIDE DEF legs
  <2>3. job' \in MultiRecords /\ job'.legs = legs /\ job'.halted
    BY <1>1, <2>1, <2>2 DEF MultiRecords
  <2>4. \A k \in Legs : LegAccount(k)'
    BY <1>5, <2>1, <2>3
  <2> QED BY <1>4, <1>8, <2>3, <2>4 DEF MultiInv
<1>9. CASE MultiSkew
  <2> DEFINE legs == [l \in Legs |-> [job.legs[l] EXCEPT !.paused = PausedNow(job.legs, l)]]
  <2>1. \A l \in Legs : PausedNow(job.legs, l) \in BOOLEAN
    <3>1. ASSUME NEW l \in Legs PROVE PausedNow(job.legs, l) \in BOOLEAN
      <4>1. job.legs[l].paused \in BOOLEAN
        BY <1>2 DEF LegStates
      <4> QED BY <4>1, Zenon DEF PausedNow
    <3> QED BY <3>1
  <2>2. /\ legs \in [Legs -> LegStates]
        /\ \A l \in Legs : /\ legs[l].filled = job.legs[l].filled /\ legs[l].ran = job.legs[l].ran
                           /\ legs[l].done = job.legs[l].done
    BY <1>2, <2>1 DEF LegStates
  <2>3. job' = [job EXCEPT !.legs = legs]
    BY <1>9 DEF MultiSkew
  <2> HIDE DEF legs
  <2>4. job' \in MultiRecords /\ job'.legs = legs /\ job'.halted = job.halted
    BY <1>1, <2>2, <2>3 DEF MultiRecords
  <2>5. \A k \in Legs : LegAccount(k)'
    BY <1>5, <2>2, <2>4
  <2>6. pc' = IF \A l \in Legs : job.legs[l].done THEN "settle" ELSE "poll"
    BY <1>9 DEF MultiSkew
  <2>7. pc' \in {"settle", "poll"} /\ (pc' = "settle" => \A l \in Legs : job.legs[l].done)
    BY <2>6
  <2> QED BY <1>4, <2>2, <2>4, <2>5, <2>7 DEF MultiInv
<1>10. CASE MultiFinish
  <2> DEFINE report == [l \in Legs |-> Reported(job.legs[l])]
             st == IF job.halted THEN "halted" ELSE "complete"
  <2>1. report \in [Legs -> Nat] /\ \A l \in Legs : report[l] = job.legs[l].filled
    BY <1>2 DEF Reported
  <2>2. Finish([job EXCEPT !.report = report], st) /\ pc = "settle"
    BY <1>10 DEF MultiFinish
  <2>3. st \in {"running", "error", "complete", "halted"}
    OBVIOUS
  <2> HIDE DEF report, st
  <2>4. job' = [[job EXCEPT !.report = report] EXCEPT !.status = st] /\ pc' = "done"
    BY <2>2 DEF Finish
  <2>5. /\ job' \in MultiRecords /\ job'.legs = job.legs /\ job'.halted = job.halted
        /\ job'.report = report
    BY <1>1, <2>1, <2>3, <2>4 DEF MultiRecords
  <2>6. \A k \in Legs : LegAccount(k)'
    BY <1>5, <2>5
  <2>7. ASSUME NEW k \in Legs PROVE LegReport(k)'
    <3>1. job'.report[k] <= traded'[k]
      BY <1>2, <1>4, <2>1, <2>5 DEF LegAccount, Untouched
    <3>2. ~job.halted => job.legs[k].done
      BY <2>2 DEF MultiInv
    <3> QED BY <2>1, <2>5, <3>1, <3>2 DEF LegReport
  <2> QED BY <1>4, <2>4, <2>5, <2>6, <2>7 DEF MultiInv
<1>11. CASE MultiStart
  BY <1>6, <1>7, <1>11 DEF MultiStart
<1>12. CASE MultiPoll
  BY <1>6, <1>12 DEF MultiPoll
<1>13. CASE MultiFetch
  BY <1>6, <1>8, <1>13 DEF MultiFetch
<1> QED BY <1>9, <1>10, <1>11, <1>12, <1>13 DEF MultiLoop

LEMMA MultiStep == MultiInv /\ (MultiNext \/ Elsewhere) => MultiInv'
<1> SUFFICES ASSUME MultiInv, MultiNext \/ Elsewhere PROVE MultiInv'
  OBVIOUS
<1>1. CASE Elsewhere
  <2>1. /\ MarketTypeOK /\ \A l \in Legs :
             /\ job.report[l] \in Nat /\ traded[l] \in Nat /\ LegAccount(l) /\ job.legs[l].filled \in Nat
             /\ (~lost => Clean(l))
    BY MultiFacts
  <2>2. MarketTypeOK' /\ pc' = pc /\ job' = job /\ lost' = lost /\ \A l \in Legs : Drifts(l)
    BY <1>1, <2>1, ElsewhereMoves
  <2>3. ASSUME NEW l \in Legs
        PROVE  /\ traded'[l] \in Nat /\ traded[l] <= traded'[l]
               /\ ~lost => Clean(l)' /\ traded'[l] = traded[l]
    <3>1. ~lost => Untouched(l) /\ Clean(l)'
      BY <2>1, <2>2, CleanStays
    <3>2. traded'[l] \in Nat
      BY <2>2, OrderFactsNext
    <3> QED BY <2>2, <3>1, <3>2 DEF Untouched, Drifts
  <2>4. ASSUME NEW l \in Legs PROVE LegAccount(l)'
    <3>1. job'.legs[l].filled <= traded'[l]
      BY <2>1, <2>2, <2>3 DEF LegAccount
    <3>2. ~lost' => Clean(l)' /\ job'.legs[l].filled = traded'[l]
      BY <2>1, <2>2, <2>3 DEF LegAccount
    <3>3. LegAccount(l) /\ job' = job
      BY <2>1, <2>2
    <3> QED BY <3>1, <3>2, <3>3 DEF LegAccount
  <2>5. ASSUME NEW l \in Legs, LegReport(l) PROVE LegReport(l)'
    <3>1. job'.report[l] <= traded'[l]
      BY <2>1, <2>2, <2>3, <2>5 DEF LegReport
    <3> QED BY <2>2, <2>5, <3>1 DEF LegReport
  <2> QED BY <2>2, <2>4, <2>5 DEF MultiInv
<1>2. CASE MultiNext
  BY <1>2, LegRunsInv, LoopInv DEF MultiNext
<1> QED BY <1>1, <1>2

-----------------------------------------------------------------------------
(* All strategies.                                                         *)

\* Which kinds of jobs take which steps
LEMMA OwnSteps ==
  /\ PassiveNext => job.kind \in {"passive", "replay"}
  /\ RestingNext => job.kind \in SweepingKinds \cup {"ladder"}
  /\ PhasedNext => job.kind \in SellingKinds \cup PairedKinds \cup CashKinds
  /\ MakerNext => job.kind = "maker"
  /\ MultiNext => job.kind = "multi"
<1>1. PassiveNext => job.kind \in {"passive", "replay"}
  BY Zenon DEF PassiveNext, PassiveTick, PassiveGuard, PassivePost, PassiveFilled, PassiveCancel,
         ReplayDrain, ReplayTight, ReplayGuard, ReplayKeep, ReplayReplace, ReplayPost
<1>2. RestingNext => job.kind \in SweepingKinds \cup {"ladder"}
  BY ZenonT(60) DEF RestingNext, RestingSteps, AggressiveRun, IcebergPost, IcebergCheck, IcebergPoll,
         StealthEnd, StealthChunk, PrependPost, PrependCancel, PrependSweep, LadderRung, SweepingKinds
<1>3. PhasedNext => job.kind \in SellingKinds \cup PairedKinds \cup CashKinds
  BY Zenon DEF PhasedNext, PhasedSteps, TwapSlice, TwapFired, EmergencyStart, EmergencyPhase, ScaleOutPoll,
         ScaleOutRung, RollClose, ReverseClose, PairedOpen, ArbPhase, CashSell, CashCount,
         SellingKinds, PairedKinds, CashKinds
<1>4. MakerNext => job.kind = "maker"
  BY DEF MakerNext, MakerBook, MakerRead, MakerCapped, MakerFlatten, MakerQuote, MakerStop, MakerThrows
<1>5. MultiNext => job.kind = "multi"
  BY DEF MultiNext, MultiLoop, MultiStart, MultiPoll, MultiFetch, MultiSkew, MultiFinish, LegRuns, LegEnds, LegThrows,
              LegUnderWay
<1> QED BY Zenon, <1>1, <1>2, <1>3, <1>4, <1>5

\* Each family of strategies keeps an invariant of its own.
StrategyInv ==
  \/ PassiveInv \/ ReplayInv \/ SweepingInv \/ LadderInv
  \/ SellingInv \/ PairedInv \/ CashInv \/ MultiInv \/ MakerInv

LEMMA OwnKinds ==
  /\ PassiveInv => job.kind = "passive"
  /\ ReplayInv => job.kind = "replay"
  /\ SweepingInv => job.kind \in SweepingKinds
  /\ LadderInv => job.kind = "ladder"
  /\ SellingInv => job.kind \in SellingKinds
  /\ PairedInv => job.kind \in PairedKinds
  /\ CashInv => job.kind \in CashKinds
  /\ MultiInv => job.kind = "multi"
  /\ MakerInv => job.kind = "maker"
<1>1. PassiveInv => job.kind = "passive"
  BY DEF PassiveInv, PassiveTypeOK, RunnerRecords
<1>2. ReplayInv => job.kind = "replay"
  BY DEF ReplayInv, RunnerRecords
<1>3. LadderInv => job.kind = "ladder"
  BY DEF LadderInv, RunnerRecords
<1>4. CashInv => job.kind \in CashKinds
  BY DEF CashInv, RunnerRecords
<1> QED BY <1>1, <1>2, <1>3, <1>4, SweepingFacts, SellingFacts, PairedFacts, MultiFacts, MakerFields

LEMMA StrategyInitInv == StrategyInit => StrategyInv
<1>1. PassiveInit => job.kind \in {"passive", "replay"}
  BY DEF PassiveInit, PassiveJobs, NewJob
<1>2. PassiveInit => StrategyInv
  BY <1>1, PassiveInitInv, ReplayInitInv DEF StrategyInv
<1>3. RestingInit => StrategyInv
  BY SweepingInitInv, LadderInitInv DEF StrategyInv
<1>4. PhasedInit => job.kind \in SellingKinds \cup PairedKinds \cup CashKinds
  BY DEF PhasedInit, PhasedJobs, TwapJobs, EmergencyJobs, ScaleOutJobs, PairedJobs, ArbJobs, CashJobs, NewJob,
         SellingKinds, PairedKinds, CashKinds
<1>5. PhasedInit => StrategyInv
  BY <1>4, SellingInitInv, PairedInitInv, CashInitInv DEF StrategyInv
<1> QED BY <1>2, <1>3, <1>5, MultiInitInv, MakerInitInv DEF StrategyInit, StrategyInv

LEMMA StrategyStutters == StrategyInv /\ UNCHANGED trading => StrategyInv'
<1> SUFFICES ASSUME StrategyInv, UNCHANGED trading PROVE StrategyInv'
  OBVIOUS
<1>1. MarketTypeOK' <=> MarketTypeOK
  BY DEF trading, MarketTypeOK
<1>2. \A l : (Clean(l)' <=> Clean(l)) /\ Committed(l)' = Committed(l)
  BY DEF trading, Clean, Committed
<1>3. CASE PassiveInv
  <2>1. PassiveInv'
    BY <1>1, <1>2, <1>3 DEF PassiveInv, PassiveTypeOK, PassiveSizeOK, PassiveAccount, PassiveExposure,
       Following, trading
  <2> QED BY <2>1 DEF StrategyInv
<1>4. CASE ReplayInv
  <2>1. ReplayInv'
    BY <1>1, <1>2, <1>4 DEF ReplayInv, trading
  <2> QED BY <2>1 DEF StrategyInv
<1>5. CASE SweepingInv
  <2>1. SweepingInv'
    BY <1>1, <1>2, <1>5 DEF SweepingInv, SweepingTypeOK, SweepingWork, SweepingEnd, Holding, Held, trading
  <2> QED BY <2>1 DEF StrategyInv
<1>6. CASE LadderInv
  <2>1. LadderInv'
    BY <1>1, <1>2, <1>6 DEF LadderInv, trading
  <2> QED BY <2>1 DEF StrategyInv
<1>7. CASE SellingInv
  <2>1. SellingInv'
    BY <1>1, <1>2, <1>7 DEF SellingInv, Sold, SlicesAsked, RungsAsked, trading
  <2> QED BY <2>1 DEF StrategyInv
<1>8. CASE PairedInv
  <2>1. PairedInv'
    BY <1>1, <1>2, <1>8 DEF PairedInv, trading
  <2> QED BY <2>1 DEF StrategyInv
<1>9. CASE CashInv
  <2>1. CashInv'
    BY <1>1, <1>2, <1>9 DEF CashInv, trading
  <2> QED BY <2>1 DEF StrategyInv
<1>10. CASE MultiInv
  <2>1. MultiInv'
    BY <1>1, <1>2, <1>10 DEF MultiInv, LegAccount, LegReport, trading
  <2> QED BY <2>1 DEF StrategyInv
<1>11. CASE MakerInv
  <2>1. MakerInv'
    BY <1>1, <1>2, <1>11 DEF MakerInv, QuoteSound, MakerBounds, MakerAccount, TrueInventory, Seen, Unread,
       Pending, trading
  <2> QED BY <2>1 DEF StrategyInv
<1> QED BY <1>3, <1>4, <1>5, <1>6, <1>7, <1>8, <1>9, <1>10, <1>11 DEF StrategyInv

LEMMA StrategyStep == StrategyInv /\ [StrategyNext]_trading => StrategyInv'
<1> SUFFICES ASSUME StrategyInv, StrategyNext PROVE StrategyInv'
  BY StrategyStutters
<1>1. StrategyNext <=> \/ PassiveNext \/ RestingNext \/ PhasedNext \/ MakerNext \/ MultiNext \/ Elsewhere
  BY DEF StrategyNext, RunnerNext
<1>2. CASE PassiveInv
  <2>1. job.kind = "passive" /\ ~(RestingNext \/ PhasedNext \/ MakerNext \/ MultiNext)
    BY <1>2, OwnKinds, OwnSteps DEF SweepingKinds, SellingKinds, PairedKinds, CashKinds
  <2> QED BY <1>1, <1>2, <2>1, PassiveStep DEF StrategyInv
<1>3. CASE ReplayInv
  <2>1. job.kind = "replay" /\ ~(RestingNext \/ PhasedNext \/ MakerNext \/ MultiNext)
    BY <1>3, OwnKinds, OwnSteps DEF SweepingKinds, SellingKinds, PairedKinds, CashKinds
  <2> QED BY <1>1, <1>3, <2>1, ReplayStep DEF StrategyInv
<1>4. CASE SweepingInv
  <2>1. job.kind \in SweepingKinds /\ ~(PassiveNext \/ PhasedNext \/ MakerNext \/ MultiNext)
    BY <1>4, OwnKinds, OwnSteps DEF SweepingKinds, SellingKinds, PairedKinds, CashKinds
  <2> QED BY <1>1, <1>4, <2>1, SweepingStep DEF StrategyInv
<1>5. CASE LadderInv
  <2>1. job.kind = "ladder" /\ ~(PassiveNext \/ PhasedNext \/ MakerNext \/ MultiNext)
    BY <1>5, OwnKinds, OwnSteps DEF SweepingKinds, SellingKinds, PairedKinds, CashKinds
  <2> QED BY <1>1, <1>5, <2>1, LadderStep DEF StrategyInv
<1>6. CASE SellingInv
  <2>1. ~(PassiveNext \/ RestingNext \/ MakerNext \/ MultiNext)
    BY <1>6, OwnKinds, OwnSteps DEF SweepingKinds, SellingKinds, PairedKinds, CashKinds
  <2> QED BY <1>1, <1>6, <2>1, SellingStep DEF StrategyInv
<1>7. CASE PairedInv
  <2>1. ~(PassiveNext \/ RestingNext \/ MakerNext \/ MultiNext)
    BY <1>7, OwnKinds, OwnSteps DEF SweepingKinds, SellingKinds, PairedKinds, CashKinds
  <2> QED BY <1>1, <1>7, <2>1, PairedStep DEF StrategyInv
<1>8. CASE CashInv
  <2>1. ~(PassiveNext \/ RestingNext \/ MakerNext \/ MultiNext)
    BY <1>8, OwnKinds, OwnSteps DEF SweepingKinds, SellingKinds, PairedKinds, CashKinds
  <2> QED BY <1>1, <1>8, <2>1, CashStep DEF StrategyInv
<1>9. CASE MultiInv
  <2>1. ~(PassiveNext \/ RestingNext \/ PhasedNext \/ MakerNext)
    BY <1>9, OwnKinds, OwnSteps DEF SweepingKinds, SellingKinds, PairedKinds, CashKinds
  <2> QED BY <1>1, <1>9, <2>1, MultiStep DEF StrategyInv
<1>10. CASE MakerInv
  <2>1. ~(PassiveNext \/ RestingNext \/ PhasedNext \/ MultiNext)
    BY <1>10, OwnKinds, OwnSteps DEF SweepingKinds, SellingKinds, PairedKinds, CashKinds
  <2> QED BY <1>1, <1>10, <2>1, MakerStep DEF StrategyInv
<1> QED BY <1>2, <1>3, <1>4, <1>5, <1>6, <1>7, <1>8, <1>9, <1>10 DEF StrategyInv

\* Every job keeps the invariant of its family, for all sizes, ladders,
\* chunks, caps and positions that the configurations may have.
THEOREM StrategiesKeepInv == StrategySpec => []StrategyInv
<1> QED BY StrategyInitInv, StrategyStep, PTL DEF StrategySpec

-----------------------------------------------------------------------------
(* What the strategies promise.                                            *)

\* The market maker's account of its inventory stays within its cap and is off
\* by no more than the fills it has not read (sMarketMake.ts).
THEOREM MakerKeepsInventory == StrategySpec => []InventoryKept
<1>1. StrategyInv => InventoryKept
  <2>1. ~MakerInv /\ StrategyInv => job.kind # "maker"
    BY OwnKinds DEF StrategyInv, SweepingKinds, SellingKinds, PairedKinds, CashKinds
  <2>2. job.kind # "maker" => InventoryKept
    BY DEF InventoryKept
  <2> QED BY <2>1, <2>2, MakerInventory
<1> QED BY <1>1, StrategiesKeepInv, PTL

\* A run of the passive runner comes to one of the outcomes that its callers
\* are modelled with, and sells less than one chunk too much (passive.ts).
THEOREM PassiveRunnerContract == StrategySpec => []PassiveContract
<1>1. StrategyInv => PassiveContract
  <2>1. ~PassiveInv /\ StrategyInv => job.kind # "passive"
    BY OwnKinds DEF StrategyInv, SweepingKinds, SellingKinds, PairedKinds, CashKinds
  <2>2. job.kind # "passive" => PassiveContract
    BY DEF PassiveContract
  <2> QED BY <2>1, <2>2, PassiveKeepsContract
<1> QED BY <1>1, StrategiesKeepInv, PTL

\* What a job has sold, has on the book and may have left behind stays within
\* its size (aggressive.ts, sIceberg.ts, sStealth.ts, sPrependThenSweep.ts,
\* limitLadder.ts).
THEOREM RestingStaysWithinSize == StrategySpec => []RestingWithinSize
<1>1. StrategyInv => RestingWithinSize
  <2>1. SweepingInv \/ LadderInv => Committed("yes") <= job.size
    BY DEF SweepingInv, SweepingEnd, LadderInv
  <2>2. ~(SweepingInv \/ LadderInv) /\ StrategyInv => job.kind \notin RestingKinds
    BY OwnKinds DEF StrategyInv, SellingKinds, PairedKinds, CashKinds, RestingKinds
  <2> QED BY <2>1, <2>2 DEF RestingWithinSize, Committed
<1> QED BY <1>1, StrategiesKeepInv, PTL

\* No strategy reports more than it has sold, and one that ends in order
\* reports all of it.
THEOREM ReportsAreTrue == StrategySpec => []ReportTrue
<1>1. ASSUME StrategyInv, job.kind \in ExitKinds \cup {"roll", "reverse"}
      PROVE  job.filled <= traded["yes"]
  <2>1. ~(CashInv \/ MultiInv \/ MakerInv)
    BY <1>1, OwnKinds DEF CashKinds, ExitKinds, RestingKinds
  <2>2. CASE PassiveInv
    BY <2>2, PassiveFacts, OrderFacts DEF PassiveInv, PassiveAccount, Following
  <2>3. CASE ReplayInv
    BY <2>3 DEF ReplayInv
  <2>4. CASE SweepingInv
    BY <2>4 DEF SweepingInv, SweepingEnd
  <2>5. CASE LadderInv
    <3>1. "yes" \in Legs
      BY DEF Legs
    <3> QED BY <2>5, <3>1, OrderFacts DEF LadderInv
  <2>6. CASE SellingInv \/ PairedInv
    BY <2>6, SellingFacts, PairedFacts
  <2> QED BY <1>1, <2>1, <2>2, <2>3, <2>4, <2>5, <2>6 DEF StrategyInv
<1>2. ASSUME StrategyInv, job.kind \in ExitKinds \cup {"roll", "reverse"}, job.kind \notin {"ladder", "replay"},
             pc = "done", ~lost, job.status # "error", ~(job.kind = "iceberg" /\ job.stopped)
      PROVE  job.filled = traded["yes"]
  <2>1. ~(CashInv \/ MultiInv \/ MakerInv \/ LadderInv \/ ReplayInv)
    BY <1>2, OwnKinds DEF CashKinds, ExitKinds, RestingKinds
  <2>2. CASE PassiveInv
    BY <1>2, <2>2, PassiveFacts DEF PassiveInv, PassiveAccount, Following
  <2>3. CASE SweepingInv
    BY <1>2, <2>3 DEF SweepingInv, SweepingEnd
  <2>4. CASE SellingInv
    BY <1>2, <2>4, SellingFacts
  <2>5. CASE PairedInv
    BY <1>2, <2>5 DEF PairedInv
  <2> QED BY <1>2, <2>1, <2>2, <2>3, <2>4, <2>5 DEF StrategyInv
<1>3. StrategyInv => ReportTrue
  BY <1>1, <1>2 DEF ReportTrue
<1> QED BY <1>3, StrategiesKeepInv, PTL

\* A roll opens no more than it has closed (sRoll.ts).
THEOREM RollsAreCovered == StrategySpec => []RollCovered
<1>1. StrategyInv => RollCovered
  <2>1. ASSUME PairedInv, job.kind = "roll" PROVE traded["no"] + stray["no"] <= traded["yes"]
    <3>1. /\ job.filled <= traded["yes"] /\ Committed("no") <= job.filled
          /\ job.filled \in Nat /\ traded["yes"] \in Nat /\ MarketTypeOK /\ "no" \in Legs
      BY <2>1, PairedFacts DEF PairedInv
    <3>2. stray["no"] \in Nat /\ traded["no"] \in Nat /\ Outstanding(live["no"]) \in Nat
      BY <3>1, OrderFacts
    <3> QED BY <3>1, <3>2 DEF Committed
  <2>2. ~PairedInv /\ StrategyInv => job.kind # "roll"
    BY OwnKinds DEF StrategyInv, SweepingKinds, SellingKinds, CashKinds
  <2> QED BY <2>1, <2>2 DEF RollCovered
<1> QED BY <1>1, StrategiesKeepInv, PTL

\* The slices of a TWAP and the rungs of a scale-out ask for no more than the
\* size, and a TWAP that completes has asked for all of it (sTwap.ts,
\* s7ScaleOut.ts).
THEOREM AskedStaysWithinSize == StrategySpec => []AskedWithinSize
<1>1. StrategyInv => AskedWithinSize
  <2>1. SellingInv => AskedWithinSize
    BY DEF SellingInv, SlicesAsked, RungsAsked, AskedWithinSize
  <2>2. ~SellingInv /\ StrategyInv => job.kind \notin {"twap", "scaleout"}
    BY OwnKinds DEF StrategyInv, SweepingKinds, PairedKinds, CashKinds
  <2> QED BY <2>1, <2>2 DEF AskedWithinSize
<1> QED BY <1>1, StrategiesKeepInv, PTL

\* A pair that was not halted reports for each leg exactly what it has traded,
\* and never more (multiLeg.ts).
THEOREM PairsReportExactly == StrategySpec => []PairReportExact
<1>1. StrategyInv => PairReportExact
  <2>1. ASSUME MultiInv, pc = "done", job.status # "error", NEW l \in Legs
        PROVE  /\ job.report[l] <= traded[l]
               /\ ~job.halted /\ ~lost => job.report[l] = traded[l]
    BY <2>1, MultiFacts DEF MultiInv, LegReport, LegAccount
  <2>2. ~MultiInv /\ StrategyInv => job.kind # "multi"
    BY OwnKinds DEF StrategyInv, SweepingKinds, SellingKinds, PairedKinds, CashKinds
  <2> QED BY <2>1, <2>2 DEF PairReportExact
<1> QED BY <1>1, StrategiesKeepInv, PTL

\* A job that ends without an error or a lost answer leaves nothing on the book.
THEOREM NothingIsLeftOnBook == StrategySpec => []NothingLeftOnBook
<1>1. ASSUME StrategyInv, pc = "done", ~lost, job.status # "error", job.kind \notin {"ladder", "replay"},
             NEW l \in Legs
      PROVE  stray[l] + Outstanding(live[l]) = 0
  <2>1. Clean(l) => stray[l] + Outstanding(live[l]) = 0
    BY DEF Clean, Outstanding
  <2>2. l \in {"yes", "no"}
    BY DEF Legs
  <2>3. ~(LadderInv \/ ReplayInv)
    BY <1>1, OwnKinds
  <2>4. CASE PassiveInv
    BY <1>1, <2>1, <2>2, <2>4 DEF PassiveInv, PassiveTypeOK, PassiveAccount, Clean
  <2>5. CASE SweepingInv
    BY <1>1, <2>1, <2>2, <2>5, SweepingFacts DEF SweepingInv, SweepingEnd
  <2>6. CASE SellingInv \/ PairedInv
    BY <1>1, <2>1, <2>2, <2>6, SellingFacts, PairedFacts
  <2>7. CASE CashInv
    BY <1>1, <2>1, <2>7 DEF CashInv
  <2>8. CASE MultiInv
    BY <1>1, <2>1, <2>8, MultiFacts
  <2>9. CASE MakerInv
    <3>1. ~live[l].open /\ QuoteSound(l)
      BY <1>1, <2>9 DEF MakerInv
    <3>2. Clean(l)
      BY <1>1, <3>1 DEF QuoteSound, Clean
    <3> QED BY <2>1, <3>2
  <2> QED BY <1>1, <2>3, <2>4, <2>5, <2>6, <2>7, <2>8, <2>9 DEF StrategyInv
<1>2. StrategyInv => NothingLeftOnBook
  BY <1>1 DEF NothingLeftOnBook
<1> QED BY <1>2, StrategiesKeepInv, PTL
=============================================================================
