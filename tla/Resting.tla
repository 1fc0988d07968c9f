------------------------------ MODULE Resting ------------------------------
(***************************************************************************)
(* The strategies that work one order after another until a size is        *)
(* traded: aggressive sweep (aggressive.ts), iceberg (sIceberg.ts),        *)
(* stealth (sStealth.ts), prepend-then-sweep (sPrependThenSweep.ts) and    *)
(* the limit ladder (limitLadder.ts).  A call that throws and is not       *)
(* caught ends the job with the status "error" and leaves what it has      *)
(* posted on the book.                                                     *)
(***************************************************************************)
EXTENDS Market, Functions

CONSTANTS
  RestingSizes,     \* sizes of jobs
  Ladders,          \* sequences of rungs
  StealthMultiple   \* safetySubmittedMultiple of the stealth runner

\* The shares of a ladder, in percent
Pcts(rungs) == [i \in DOMAIN rungs |-> rungs[i].pct]

\* validateConfig: positive prices and shares, of no more than the whole
ValidLadder(rungs) ==
  /\ rungs \in Seq([price : Nat \ {0}, pct : Nat \ {0}])
  /\ SumFunction(Pcts(rungs)) <= 100

ASSUME RestingAssumption ==
  /\ RestingSizes \subseteq Nat \ {0} /\ StealthMultiple \in Nat
  /\ \A rungs \in Ladders : ValidLadder(rungs)

\* Configurations that pass validateConfig
AggressiveJobs == {NewJob("aggressive", n, 1, <<>>) : n \in RestingSizes}
IcebergJobs ==
  {j \in {NewJob("iceberg", n, u, <<>>) : n, u \in RestingSizes} : j.unit <= j.size}
StealthJobs == {NewJob("stealth", n, u, <<>>) : n, u \in RestingSizes}
PrependJobs == {NewJob("prepend", n, 1, <<>>) : n \in RestingSizes}
LadderJobs == {NewJob("ladder", n, 1, rungs) : n \in RestingSizes, rungs \in Ladders}

RestingJobs == AggressiveJobs \cup IcebergJobs \cup StealthJobs \cup PrependJobs \cup LadderJobs

RestingInit == MarketInit /\ pc = "tick" /\ job \in RestingJobs

Left == job.size - job.filled

-----------------------------------------------------------------------------
(* One sweep of AggressiveRunner: an IOC order at the best price.          *)

SweepStatus(f, n) == IF f = n THEN "filled" ELSE IF f > 0 THEN "partial" ELSE "unfilled"

\* An empty book or a failed liveness check throws before the order is sent.
SweepThrows(l, n) == UNCHANGED market \/ PostLost(l, n)

AggressiveRun ==
  /\ job.kind = "aggressive" /\ pc = "tick"
  /\ \/ SweepThrows("yes", job.size) /\ Finish(job, "error")
     \/ \E f \in ReduceFills("yes", job.size) :
          /\ Take("yes", job.size, f)
          /\ Finish([job EXCEPT !.filled = f], SweepStatus(f, job.size))

-----------------------------------------------------------------------------
(* Iceberg: slices of at most unit shares; step is what the last poll saw. *)

\* Mutant: the last slice is as large as the others.
IcebergSlice_Whole(j) == j.unit

IcebergSlice(j) == Least(j.unit, j.size - j.filled)

IcebergPost ==
  /\ job.kind = "iceberg" /\ pc = "tick"
  /\ \/ Left <= 0 /\ Finish(job, "complete") /\ UNCHANGED market
     \/ Left > 0 /\ job.stopped /\ Finish(job, "caller_stopped") /\ UNCHANGED market
     \/ /\ Left > 0 /\ ~job.stopped
        /\ LET n == IcebergSlice(job)
           IN \/ PostLost("yes", n) /\ Finish(job, "error")
              \/ /\ Rest("yes", n)
                 /\ pc' = "check"
                 /\ job' = [job EXCEPT !.want = n, !.posted = @ + n, !.step = 0]

\* Fills since the last poll are not counted.
IcebergCheck ==
  /\ job.kind = "iceberg" /\ pc = "check"
  /\ \/ ~job.stopped /\ pc' = "poll" /\ UNCHANGED <<job, live, stray, traded, lost>>
     \/ /\ job.stopped
        /\ \/ Cancel({"yes"}) /\ Finish([job EXCEPT !.filled = @ + job.step], "caller_stopped")
           \/ CancelLost /\ Finish(job, "error")

IcebergPoll ==
  /\ job.kind = "iceberg" /\ pc = "poll"
  /\ LET seen == live["yes"].got
     IN \/ Finish(job, "error")
        \/ seen < job.want /\ pc' = "check" /\ job' = [job EXCEPT !.step = seen]
        \/ seen = job.want /\ pc' = "tick" /\ job' = [job EXCEPT !.filled = @ + seen]
  /\ UNCHANGED market

-----------------------------------------------------------------------------
(* Stealth: jittered IOC chunks under a cap on submitted shares.           *)

StealthRoom(j) == StealthMultiple * j.size - j.posted

StealthEnd ==
  /\ job.kind = "stealth" /\ pc = "tick"
  /\ Left <= 0 \/ job.stopped \/ StealthRoom(job) <= 0
  /\ Finish(job, IF Left <= 0 THEN "complete"
                 ELSE IF job.stopped THEN "caller_stopped" ELSE "safety_cap_hit")
  /\ UNCHANGED market

\* jitterChunkSize: around the base, at least one
JitteredChunks(base) == 1 .. (base + 1)

StealthChunk ==
  /\ job.kind = "stealth" /\ pc = "tick"
  /\ Left > 0 /\ ~job.stopped /\ StealthRoom(job) > 0
  /\ \E raw \in JitteredChunks(job.unit) :
       LET n == Least(Least(raw, Left), StealthRoom(job))
           j == [job EXCEPT !.posted = @ + n]
       IN \/ PostLost("yes", n) /\ Finish(j, "error")
          \/ \E f \in 0 .. n :
               Take("yes", n, f) /\ job' = [j EXCEPT !.filled = @ + f] /\ pc' = "tick"

-----------------------------------------------------------------------------
(* Prepend-then-sweep: rest the whole size, cancel, sweep what is left.    *)

PrependPost ==
  /\ job.kind = "prepend" /\ pc = "tick"
  /\ \/ UNCHANGED market /\ Finish(job, "error")
     \/ PostLost("yes", job.size) /\ Finish(job, "error")
     \/ Rest("yes", job.size) /\ pc' = "wait" /\ job' = [job EXCEPT !.posted = @ + job.size]

\* Mutant: the fills that the cancel finds are not deducted.
AfterCancel_Ignored(o) == 0

\* What the lookup that follows the cancel returns
AfterCancel(o) == o.got

PrependCancel ==
  /\ job.kind = "prepend" /\ pc = "wait"
  /\ \/ CancelLost /\ Finish(job, "error")
     \/ Cancel({"yes"}) /\ Finish(job, "error")
     \/ /\ Cancel({"yes"})
        /\ LET j == [job EXCEPT !.filled = AfterCancel(live["yes"])]
           IN IF j.filled = j.size
              THEN Finish(j, "gtc_fully_filled")
              ELSE pc' = "sweep" /\ job' = j

PrependSweep ==
  /\ job.kind = "prepend" /\ pc = "sweep"
  /\ \/ SweepThrows("yes", Left) /\ Finish(job, "error")
     \/ \E f \in ReduceFills("yes", Left) :
          /\ Take("yes", Left, f)
          /\ Finish([job EXCEPT !.filled = @ + f, !.posted = @ + Left],
                    IF f = Left THEN "complete" ELSE "sweep_partial")

-----------------------------------------------------------------------------
(* Limit ladder: one resting order per rung, left on the book.             *)

RungSize(size, rung) == (size * rung.pct) \div 100

LadderRung ==
  /\ job.kind = "ladder" /\ pc = "tick"
  /\ LET i == job.step + 1
         n == RungSize(job.size, job.rungs[i])
         j == [job EXCEPT !.step = i]
     IN \/ i > Len(job.rungs) /\ Finish(job, "complete") /\ UNCHANGED market
        \/ i <= Len(job.rungs) /\ n = 0 /\ pc' = "tick" /\ job' = j /\ UNCHANGED market
        \/ /\ i <= Len(job.rungs) /\ n > 0
           /\ \/ PostLost("yes", n) /\ Finish(job, "error")
              \/ Rest("yes", n) /\ pc' = "tick" /\ job' = [j EXCEPT !.posted = @ + n]

RestingSteps ==
  \/ AggressiveRun
  \/ IcebergPost \/ IcebergCheck \/ IcebergPoll
  \/ StealthEnd \/ StealthChunk
  \/ PrependPost \/ PrependCancel \/ PrependSweep
  \/ LadderRung

RestingNext ==
  \/ RestingSteps
  \/ job.kind \in {"iceberg", "stealth"} /\ Stop

RestingKinds == {"aggressive", "iceberg", "stealth", "prepend", "ladder"}

\* Whatever fails, what these strategies have sold, still have on the book and
\* may have left behind never exceeds the size of the job.
RestingWithinSize ==
  job.kind \in RestingKinds =>
    traded["yes"] + stray["yes"] + Outstanding(live["yes"]) <= job.size
=============================================================================
