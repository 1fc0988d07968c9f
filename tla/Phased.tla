------------------------------- MODULE Phased -------------------------------
(***************************************************************************)
(* The strategies that run the passive and aggressive runners one after    *)
(* the other: TWAP, time emergency, scale-out, roll, stop-and-reverse,     *)
(* pre-resolution arbitrage and cash raise.  A run of the passive runner   *)
(* is one of the outcomes that module Passive is checked to come to; a     *)
(* sweep is one IOC order that only reduces.                               *)
(***************************************************************************)
EXTENDS Passive, Resting

CONSTANTS
  PhasedSizes,      \* sizes of jobs
  MaxIterations,    \* polls of the scale-out
  Bids              \* bids at which cash is counted

ASSUME PhasedAssumption ==
  PhasedSizes \subseteq Nat \ {0} /\ MaxIterations \in Nat /\ Bids \subseteq Nat

TwapJobs == {NewJob("twap", n, slices, <<>>) : n \in PhasedSizes, slices \in {2, 3}}
EmergencyJobs == {NewJob("emergency", n, 1, <<>>) : n \in PhasedSizes}
ScaleOutJobs == {NewJob("scaleout", n, 1, rungs) : n \in PhasedSizes, rungs \in Ladders}
PairedJobs == {NewJob(kind, n, m, <<>>) : kind \in {"roll", "reverse"}, n, m \in PhasedSizes}
ArbJobs == {NewJob("arb", n, 1, <<>>) : n \in PhasedSizes}
CashJobs == {NewJob("cash", n, target, <<>>) : n \in PhasedSizes, target \in PhasedSizes}

PhasedJobs == TwapJobs \cup EmergencyJobs \cup ScaleOutJobs \cup PairedJobs \cup ArbJobs \cup CashJobs

PhasedInit == MarketInit /\ pc = "tick" /\ job \in PhasedJobs

\* The passive runner has run on leg l with outcome o.
RanPassive(l, o) ==
  /\ traded' = [traded EXCEPT ![l] = @ + o.traded]
  /\ stray' = [stray EXCEPT ![l] = @ + o.stray]
  /\ lost' = (lost \/ o.lost)
  /\ UNCHANGED live

-----------------------------------------------------------------------------
(* TWAP: step slices have been run; unit is how many there are.            *)

SliceSize(j) ==
  (j.size \div j.unit) + IF j.step = j.unit - 1 THEN j.size % j.unit ELSE 0

TwapSlice ==
  /\ job.kind = "twap" /\ pc = "tick"
  /\ \/ job.stopped /\ Finish(job, "caller_stopped") /\ UNCHANGED market
     \/ /\ ~job.stopped
        /\ \E o \in PassiveOutcomes(SliceSize(job)) :
             /\ RanPassive("yes", o)
             /\ job' = [job EXCEPT !.filled = @ + o.filled, !.posted = @ + SliceSize(job)]
             /\ pc' = "fired"

TwapFired ==
  /\ job.kind = "twap" /\ pc = "fired"
  /\ IF job.stopped THEN Finish(job, "caller_stopped")
     ELSE IF job.step + 1 = job.unit THEN Finish(job, "complete")
     ELSE pc' = "tick" /\ job' = [job EXCEPT !.step = @ + 1]
  /\ UNCHANGED market

-----------------------------------------------------------------------------
(* Time emergency: phases 1 passive, 2 scale-out, 3 aggressive, 4 cross.   *)

EmergencyStart ==
  /\ job.kind = "emergency" /\ pc = "tick"
  /\ \/ Finish(job, "not_in_window")
     \/ \E phase \in 1 .. 4 : pc' = "phase" /\ job' = [job EXCEPT !.step = phase]
  /\ UNCHANGED market

\* The one rung of phase 2 has price 0: the scale-out's validateConfig throws.
EmergencyPhase ==
  /\ job.kind = "emergency" /\ pc = "phase"
  /\ LET next == [job EXCEPT !.step = @ + 1]
     IN \/ Left <= 0 /\ Finish(job, "position_closed") /\ UNCHANGED market
        \/ Left > 0 /\ job.step = 5 /\ Finish(job, "time_emergency_finished") /\ UNCHANGED market
        \/ /\ Left > 0 /\ job.step = 1 /\ pc' = "phase"
           /\ \E o \in PassiveOutcomes(Left) :
                RanPassive("yes", o) /\ job' = [next EXCEPT !.filled = @ + o.filled]
        \/ Left > 0 /\ job.step = 2 /\ Finish(job, "error") /\ UNCHANGED market
        \/ /\ Left > 0 /\ job.step \in {3, 4}
           /\ \/ SweepThrows("yes", Left) /\ Finish(job, "error")
              \/ \E f \in ReduceFills("yes", Left) :
                   Take("yes", Left, f) /\ pc' = "phase" /\ job' = [next EXCEPT !.filled = @ + f]

-----------------------------------------------------------------------------
(* Scale-out: step polls so far; want is the top bid of the last one.      *)

Firable(j) == {i \in DOMAIN j.rungs \ j.fired : j.rungs[i].price <= j.want}

ScaleOutPoll ==
  /\ job.kind = "scaleout" /\ pc = "tick"
  /\ \/ job.stopped /\ Finish(job, "caller_stopped")
     \/ ~job.stopped /\ job.step >= MaxIterations /\ Finish(job, "max_iterations")
     \/ /\ ~job.stopped /\ job.step < MaxIterations
        /\ \/ Finish(job, "error")
           \/ \E bid \in {0} \cup {job.rungs[i].price : i \in DOMAIN job.rungs} :
                pc' = "rungs" /\ job' = [job EXCEPT !.step = @ + 1, !.want = bid]
  /\ UNCHANGED market

\* A rung whose run throws counts as used.
ScaleOutRung ==
  /\ job.kind = "scaleout" /\ pc = "rungs"
  /\ IF Firable(job) = {}
     THEN /\ UNCHANGED market
          /\ IF job.fired = DOMAIN job.rungs
             THEN Finish(job, "all_rungs_fired")
             ELSE pc' = "tick" /\ UNCHANGED job
     ELSE LET i == CHOOSE i \in Firable(job) : \A k \in Firable(job) : i <= k
              n == RungSize(job.size, job.rungs[i])
              j == [job EXCEPT !.fired = @ \cup {i}, !.posted = @ + n]
          IN /\ pc' = "rungs"
             /\ \/ job' = j /\ UNCHANGED market
                \/ \E o \in PassiveOutcomes(n) :
                     RanPassive("yes", o) /\ job' = [j EXCEPT !.filled = @ + o.filled]

-----------------------------------------------------------------------------
(* Roll and stop-and-reverse: close on "yes", then open on "no".           *)

OpenSize(j) == IF j.kind = "roll" THEN Least(j.unit, j.filled) ELSE j.unit

Closed(j) == IF j.filled = 0
             THEN Finish(j, "phase1_unfilled")
             ELSE pc' = "open" /\ job' = [j EXCEPT !.want = OpenSize(j)]

RollClose ==
  /\ job.kind = "roll" /\ pc = "tick"
  /\ \E o \in PassiveOutcomes(job.size) :
       RanPassive("yes", o) /\ Closed([job EXCEPT !.filled = o.filled])

ReverseClose ==
  /\ job.kind = "reverse" /\ pc = "tick"
  /\ \/ SweepThrows("yes", job.size) /\ Finish(job, "error")
     \/ \E f \in ReduceFills("yes", job.size) :
          Take("yes", job.size, f) /\ Closed([job EXCEPT !.filled = f])

\* The buy is reduce_only like every sweep.
PairedOpen ==
  /\ job.kind \in {"roll", "reverse"} /\ pc = "open"
  /\ \/ SweepThrows("no", job.want) /\ Finish(job, "error")
     \/ \E f \in ReduceFills("no", job.want) :
          /\ Take("no", job.want, f)
          /\ Finish(job, IF job.filled = job.size THEN "complete" ELSE "phase1_partial_completed")

-----------------------------------------------------------------------------
(* Pre-resolution arbitrage: one order, then a sweep of the remainder.     *)

ArbPhase ==
  /\ job.kind = "arb" /\ pc = "tick"
  /\ \/ SweepThrows("yes", Left) /\ Finish(job, "error")
     \/ \E f \in ReduceFills("yes", Left) :
          LET j == [job EXCEPT !.filled = @ + f, !.step = @ + 1]
          IN /\ Take("yes", Left, f)
             /\ IF j.filled >= j.size
                THEN Finish(j, IF j.step = 1 THEN "arb_filled_phase1" ELSE "phase2_complete")
                ELSE IF j.step = 2 THEN Finish(j, "phase2_partial")
                ELSE pc' = "tick" /\ job' = j

-----------------------------------------------------------------------------
(* Cash raise: one position per leg; want is the cash raised so far, unit  *)
(* the target, posted what the last position sold, step how many were run. *)

CashPositions == <<"yes", "no">>

\* Aggressive or passive; a position whose run throws has sold nothing.
CashSell ==
  /\ job.kind = "cash" /\ pc = "tick"
  /\ LET l == CashPositions[job.step + 1]
     IN \/ Finish(job, IF job.step = 2 THEN "finished" ELSE "deadline_hit") /\ UNCHANGED market
        \/ /\ job.step < 2 /\ pc' = "count"
           /\ \/ SweepThrows(l, job.size) /\ job' = [job EXCEPT !.posted = 0]
              \/ \E f \in ReduceFills(l, job.size) :
                   Take(l, job.size, f) /\ job' = [job EXCEPT !.posted = f]
              \/ \E o \in PassiveOutcomes(job.size) :
                   RanPassive(l, o) /\ job' = [job EXCEPT !.posted = o.filled]

\* A bid that cannot be fetched counts as 0.
CashCount ==
  /\ job.kind = "cash" /\ pc = "count"
  /\ \E bid \in Bids \cup {0} :
       LET j == [job EXCEPT !.want = @ + bid * job.posted, !.posted = 0, !.step = @ + 1,
                            !.filled = @ + job.posted]
       IN IF j.want >= j.unit THEN Finish(j, "target_met")
          ELSE Finish(j, "deadline_hit") \/ (pc' = "tick" /\ job' = j)
  /\ UNCHANGED market

PhasedSteps ==
  \/ TwapSlice \/ TwapFired
  \/ EmergencyStart \/ EmergencyPhase
  \/ ScaleOutPoll \/ ScaleOutRung
  \/ RollClose \/ ReverseClose \/ PairedOpen
  \/ ArbPhase
  \/ CashSell \/ CashCount

PhasedNext ==
  \/ PhasedSteps
  \/ job.kind \in {"twap", "scaleout"} /\ Stop

-----------------------------------------------------------------------------
ExitKinds == RestingKinds \cup {"passive", "replay", "twap", "emergency", "scaleout", "arb"}

\* No strategy believes to have sold more than it has, whatever was lost, and
\* one that ends without a lost answer or an error reports exactly what it has
\* traded.  (A stopped iceberg misses the fills since its last poll, the ladder
\* reports none, and a backtest drops those of orders it cancels.)
ReportTrue ==
  /\ job.kind \in ExitKinds \cup {"roll", "reverse"} => job.filled <= traded["yes"]
  /\ /\ job.kind \in ExitKinds \ {"ladder", "replay"}
     /\ pc = "done" /\ ~lost /\ job.status /= "error"
     /\ ~(job.kind = "iceberg" /\ job.stopped)
     => job.filled = traded["yes"]

\* A roll opens no more than it has closed, even if answers are lost on the way.
RollCovered == job.kind = "roll" => traded["no"] + stray["no"] <= traded["yes"]

\* The slices of a TWAP and the rungs of a scale-out ask for no more than the
\* size of the job, and a TWAP that completes has asked for all of it.
AskedWithinSize ==
  /\ job.kind \in {"twap", "scaleout"} => job.posted <= job.size
  /\ job.kind = "twap" /\ job.status = "complete" => job.posted = job.size
=============================================================================
