------------------------------- MODULE Market -------------------------------
(***************************************************************************)
(* The exchange as the strategy runners use it, and the job of one runner. *)
(* A runner follows at most one order per leg; an order that it replaces   *)
(* without canceling it, or whose submission it believes to have failed,   *)
(* may still fill.  External: modelled from the calls of                   *)
(* KalshiClientLike and the fields of OrderResult that the runners read.   *)
(***************************************************************************)
EXTENDS Integers, Sequences

CONSTANT Reducible    \* [Legs -> Nat]: what a reduce_only order on a leg may fill

VARIABLES
  pc,            \* where the runner is
  job,           \* its configuration and its accounting
  live,          \* [Legs -> order]: the order it follows on each leg
  stray,         \* [Legs -> Nat]: shares of orders it no longer follows
  traded,        \* [Legs -> Nat]: history, the shares that really traded
  lost           \* history: an answer about an order never arrived

Legs == {"yes", "no"}        \* a job of one leg trades "yes"

ASSUME ReducibleAssumption == Reducible \in [Legs -> Nat]

market == <<live, stray, traded, lost>>
trading == <<pc, job, live, stray, traded, lost>>

Monus(a, b) == IF a > b THEN a - b ELSE 0
Least(a, b) == IF a < b THEN a ELSE b

Orders == [n : Nat, got : Nat, open : BOOLEAN]
NoOrder == [n |-> 0, got |-> 0, open |-> FALSE]

Outstanding(o) == IF o.open THEN o.n - o.got ELSE 0
Complete(o) == o.got = o.n

(***************************************************************************)
(* The job of a runner that works one order at a time.                     *)
(*   size    shares to trade                                               *)
(*   unit    its parameter: chunk, visible size, number of slices, ...     *)
(*   rungs   [price, pct] of ladders                                       *)
(*   filled  shares it believes to have traded                             *)
(*   posted  shares it has submitted                                       *)
(*   want    size of the order it works on                                 *)
(*   step    how far it is: walks left, fills seen, slice, phase, ...      *)
(*   fired   rungs that were used                                          *)
(***************************************************************************)
NewJob(kind, size, unit, rungs) ==
  [kind |-> kind, size |-> size, unit |-> unit, rungs |-> rungs, filled |-> 0, posted |-> 0,
   want |-> 0, step |-> 0, fired |-> {}, stopped |-> FALSE, status |-> "running"]

MarketInit ==
  /\ live = [l \in Legs |-> NoOrder]
  /\ stray = [l \in Legs |-> 0]
  /\ traded = [l \in Legs |-> 0]
  /\ lost = FALSE

-----------------------------------------------------------------------------
(* Calls of the runner.                                                    *)

\* The order that was followed stays behind.
Follow(l, o) ==
  /\ live' = [live EXCEPT ![l] = o]
  /\ stray' = [stray EXCEPT ![l] = @ + Outstanding(live[l])]
  /\ traded' = [traded EXCEPT ![l] = @ + o.got]
  /\ lost' = lost

\* good_till_canceled: what does not fill at once rests.
Rest(l, n) == \E f \in 0 .. n : Follow(l, [n |-> n, got |-> f, open |-> f < n])

\* immediate_or_cancel
Take(l, n, f) == Follow(l, [n |-> n, got |-> f, open |-> FALSE])

\* The submission throws; the order may have arrived all the same.
PostLost(l, n) ==
  /\ \E s \in {0, n} : stray' = [stray EXCEPT ![l] = @ + s]
  /\ lost' = TRUE
  /\ UNCHANGED <<live, traded>>

Cancel(ls) ==
  /\ live' = [l \in Legs |-> IF l \in ls THEN [live[l] EXCEPT !.open = FALSE] ELSE live[l]]
  /\ UNCHANGED <<stray, traded, lost>>

CancelLost == lost' = TRUE /\ UNCHANGED <<live, stray, traded>>

\* What an order that only reduces a position can fill
ReduceFills(l, n) == 0 .. Least(n, Monus(Reducible[l], traded[l]))

Finish(j, status) == pc' = "done" /\ job' = [j EXCEPT !.status = status]

-----------------------------------------------------------------------------
(* The rest of the market.                                                 *)

OrderFills(l) ==
  /\ live[l].open
  /\ \E f \in 1 .. (live[l].n - live[l].got) :
       /\ live' = [live EXCEPT ![l].got = @ + f, ![l].open = live[l].got + f < live[l].n]
       /\ traded' = [traded EXCEPT ![l] = @ + f]
  /\ UNCHANGED <<pc, job, stray, lost>>

\* The exchange cancels a resting order: the market closes or expires.
OrderExpires(l) ==
  /\ live[l].open
  /\ live' = [live EXCEPT ![l].open = FALSE]
  /\ UNCHANGED <<pc, job, stray, traded, lost>>

StrayFills(l) ==
  /\ \E f \in 1 .. stray[l] :
       /\ stray' = [stray EXCEPT ![l] = @ - f]
       /\ traded' = [traded EXCEPT ![l] = @ + f]
  /\ UNCHANGED <<pc, job, live, lost>>

\* stop() of the runners that have one
Stop ==
  /\ pc /= "done" /\ ~job.stopped
  /\ job' = [job EXCEPT !.stopped = TRUE]
  /\ UNCHANGED <<pc, live, stray, traded, lost>>

Elsewhere == \E l \in Legs : OrderFills(l) \/ OrderExpires(l) \/ StrayFills(l)

MarketTypeOK ==
  /\ live \in [Legs -> Orders]
  /\ \A l \in Legs : live[l].got <= live[l].n /\ (live[l].open => live[l].got < live[l].n)
  /\ stray \in [Legs -> Nat]
  /\ traded \in [Legs -> Nat]
  /\ lost \in BOOLEAN
=============================================================================
