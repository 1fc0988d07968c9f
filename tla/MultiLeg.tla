------------------------------ MODULE MultiLeg ------------------------------
(***************************************************************************)
(* The multi-leg coordinator (multiLeg.ts) with pairs (sPair.ts) and the   *)
(* basis arbitrage (sBasisArb.ts) that run on it: the legs run in the      *)
(* background while a loop looks at the books, pauses the legs that lead   *)
(* and halts them all when a book is empty or cannot be read.  A leg is    *)
(* one outcome of the passive runner or one sweep; the two runners need    *)
(* not start or answer in any order.                                       *)
(*                                                                         *)
(* A leg that throws rejects its promise, which has no handler until the   *)
(* loop is over: Node ends the process (pc = "killed") as it does for any  *)
(* rejection that nobody handles, and nothing in src/ prevents it.         *)
(***************************************************************************)
EXTENDS Phased

CONSTANT LegSizes      \* sizes of a leg

ASSUME MultiAssumption == LegSizes \subseteq Nat \ {0}

\* done: its promise is settled; ran: its runner has ended
LegStates ==
  [size : LegSizes, mode : {"aggressive", "passive"}, filled : Nat,
   done : BOOLEAN, ran : BOOLEAN, paused : BOOLEAN]

\* arb: the pair of a basis arbitrage, of which each leg is aggressive
MultiJobs ==
  {[kind |-> "multi", arb |-> arb, halted |-> FALSE, status |-> "running",
    legs |-> legs, report |-> [l \in Legs |-> 0]] :
     arb \in BOOLEAN,
     legs \in [Legs -> {[size |-> n, mode |-> mode, filled |-> 0, done |-> FALSE, ran |-> FALSE,
                         paused |-> FALSE] :
                          n \in LegSizes, mode \in {"aggressive", "passive"}}]}

MultiInit ==
  /\ MarketInit /\ pc = "start"
  /\ job \in {j \in MultiJobs :
       j.arb => /\ \A l \in Legs : j.legs[l].mode = "aggressive"
                /\ j.legs["yes"].size = j.legs["no"].size}

\* The preflight of the arbitrage throws when it is closed, empty or too dear.
MultiStart ==
  /\ job.kind = "multi" /\ pc = "start"
  /\ \/ job.arb /\ Finish(job, "error")
     \/ pc' = "poll" /\ UNCHANGED job
  /\ UNCHANGED market

\* Mutant: the loop is not told.
Settled_Running(leg) == [leg EXCEPT !.ran = TRUE]

\* A leg that was halted is done already.
Settled(leg) == [leg EXCEPT !.ran = TRUE, !.done = TRUE]

LegAnswers(l, r) == job' = [job EXCEPT !.legs[l] = [Settled(@) EXCEPT !.filled = r]]

\* The runner of a leg is under way, whether or not the coordinator still waits for it.
LegUnderWay(l) ==
  /\ job.kind = "multi" /\ pc \notin {"start", "killed"} /\ job.status /= "error"
  /\ ~job.legs[l].ran

LegEnds(l) ==
  /\ LegUnderWay(l)
  /\ \/ /\ job.legs[l].mode = "passive"
        /\ \E o \in PassiveOutcomes(job.legs[l].size) : RanPassive(l, o) /\ LegAnswers(l, o.filled)
     \/ /\ job.legs[l].mode = "aggressive"
        /\ \E f \in ReduceFills(l, job.legs[l].size) :
             Take(l, job.legs[l].size, f) /\ LegAnswers(l, f)
  /\ UNCHANGED pc

\* The error of a leg is heard of by nobody if the leg was halted, and in time if
\* the loop finds all legs done in the same turn of the event loop.
Handled(l) ==
  \/ job.legs[l].done
  \/ pc = "skew" /\ \A k \in Legs \ {l} : job.legs[k].done

\* Any other error ends the process, and the other leg with it.
LegThrows(l) ==
  /\ LegUnderWay(l) /\ job.legs[l].mode = "aggressive"
  /\ SweepThrows(l, job.legs[l].size)
  /\ \/ Handled(l) /\ LegAnswers(l, 0) /\ UNCHANGED pc
     \/ ~job.legs[l].done /\ pc' = "killed" /\ UNCHANGED job

LegRuns(l) == LegEnds(l) \/ LegThrows(l)

Halted(j) ==
  [j EXCEPT !.halted = TRUE, !.legs = [l \in Legs |-> [j.legs[l] EXCEPT !.done = TRUE]]]

\* Books are only looked at for legs that are not done.
MultiPoll ==
  /\ job.kind = "multi" /\ pc = "poll"
  /\ pc' = IF \A l \in Legs : job.legs[l].done THEN "skew" ELSE "fetch"
  /\ UNCHANGED <<job, live, stray, traded, lost>>

\* A book is empty or cannot be read, or the monitor of the arbitrage reports
\* it so because the arbitrage closed; the legs may have ended meanwhile.
MultiFetch ==
  /\ job.kind = "multi" /\ pc = "fetch"
  /\ \/ pc' = "settle" /\ job' = Halted(job)
     \/ pc' = "skew" /\ UNCHANGED job
  /\ UNCHANGED market

\* How far leg l is ahead of the other one, in percent
Progress(leg) == (100 * leg.filled) \div leg.size
Lead(legs, l) == Progress(legs[l]) - Progress(legs[CHOOSE k \in Legs : k /= l])
SkewPct == 10
Skew(legs) == IF Lead(legs, "yes") > 0 THEN Lead(legs, "yes") ELSE Lead(legs, "no")

PausedNow(legs, l) ==
  LET leading == Lead(legs, l) > SkewPct \div 2 /\ Skew(legs) > SkewPct
  IN IF leading THEN TRUE
     ELSE legs[l].paused /\ Skew(legs) > SkewPct \div 2

\* Pausing changes nothing for a leg that has started.
MultiSkew ==
  /\ job.kind = "multi" /\ pc = "skew"
  /\ job' = [job EXCEPT !.legs =
               [l \in Legs |-> [job.legs[l] EXCEPT !.paused = PausedNow(job.legs, l)]]]
  /\ pc' = IF \A l \in Legs : job.legs[l].done THEN "settle" ELSE "poll"
  /\ UNCHANGED market

\* Mutant: a leg that is done has filled.
Reported_Whole(leg) == IF leg.done THEN leg.size ELSE leg.filled

Reported(leg) == leg.filled

MultiFinish ==
  /\ job.kind = "multi" /\ pc = "settle"
  /\ Finish([job EXCEPT !.report = [l \in Legs |-> Reported(job.legs[l])]],
            IF job.halted THEN "halted" ELSE "complete")
  /\ UNCHANGED market

MultiLoop == MultiStart \/ MultiPoll \/ MultiFetch \/ MultiSkew \/ MultiFinish

MultiNext ==
  \/ MultiLoop
  \/ \E l \in Legs : LegRuns(l)

-----------------------------------------------------------------------------
\* A pair that was not halted reports for each leg exactly what it has traded,
\* unless an answer was lost; halted or not, it never reports more.
PairReportExact ==
  job.kind = "multi" /\ pc = "done" /\ job.status /= "error" =>
    \A l \in Legs :
      /\ job.report[l] <= traded[l]
      /\ ~job.halted /\ ~lost => job.report[l] = traded[l]
=============================================================================
