------------------------------ MODULE Passive ------------------------------
(***************************************************************************)
(* The passive runner (passive.ts): post a chunk, wait, cancel, walk the   *)
(* price one step and post again, until the size is filled, the price      *)
(* meets its limit or too many shares were submitted.  A job of kind       *)
(* "passive" is run(); one of kind "replay" is the variant that the        *)
(* backtest drives tick by tick.  Prices appear as the number of walks     *)
(* left until the limit; spreads and changed quotes are free choices.      *)
(***************************************************************************)
EXTENDS Market

CONSTANTS
  PassiveSizes,      \* sizes of jobs
  Chunks,            \* chunkSize
  Multiple,          \* safetySubmittedMultiple
  MaxWalks           \* bound: walks from the first price to the limit

ASSUME PassiveAssumption ==
  /\ PassiveSizes \subseteq Nat /\ Chunks \subseteq Nat \ {0}
  /\ Multiple \in Nat /\ MaxWalks \in Nat

PassiveJobs ==
  {NewJob(kind, size, chunk, <<>>) :
     kind \in {"passive", "replay"}, size \in PassiveSizes, chunk \in Chunks}

PassiveInit == MarketInit /\ pc = "tick" /\ job \in PassiveJobs

Remaining(j) == Monus(j.size, j.filled)

Credited(j, n) == [j EXCEPT !.filled = @ + n]

OverCap(j, n) == j.posted + n > Multiple * j.size

-----------------------------------------------------------------------------
(* run() and runOneTick().                                                 *)

PassiveTick ==
  /\ job.kind = "passive" /\ pc = "tick"
  /\ \/ Remaining(job) = 0 /\ Finish(job, "complete")
     \/ Remaining(job) > 0 /\ \E status \in {"spread_too_tight", "error"} : Finish(job, status)
     \/ /\ Remaining(job) > 0
        /\ pc' = "walk"
        /\ \E walks \in 0 .. MaxWalks :
             job' = [job EXCEPT !.want = Least(job.unit, Remaining(job)), !.step = walks]
  /\ UNCHANGED market

\* Floor or ceiling hit, or the safety cap breached
PassiveGuard ==
  /\ job.kind = "passive" /\ pc = "walk"
  /\ job.step = 0 \/ OverCap(job, job.want)
  /\ Finish(job, "partial")
  /\ UNCHANGED market

PassivePost ==
  /\ job.kind = "passive" /\ pc = "walk"
  /\ job.step > 0 /\ ~OverCap(job, job.want)
  /\ \/ /\ Rest("yes", job.want)
        /\ pc' = "wait"
        /\ job' = [job EXCEPT !.posted = @ + job.want]
     \/ PostLost("yes", job.want) /\ Finish(job, "error")

PassiveFilled ==
  /\ job.kind = "passive" /\ pc = "wait"
  /\ Complete(live["yes"])
  /\ pc' = "tick"
  /\ job' = Credited(job, live["yes"].got)
  /\ UNCHANGED market

\* Mutant: only a full fill counts.
CancelCredit_Full(o, answered) == IF answered /\ Complete(o) THEN o.got ELSE 0

\* What a cancel at the end of the timebox credits
CancelCredit(o, answered) == IF answered THEN o.got ELSE 0

\* The timebox ends, or the order was canceled, or it cannot be looked up.
PassiveCancel ==
  /\ job.kind = "passive" /\ pc = "wait"
  /\ \E answered \in BOOLEAN :
       LET fill == CancelCredit(live["yes"], answered)
           j == Credited(job, fill)
       IN /\ IF answered THEN Cancel({"yes"}) ELSE CancelLost
          /\ IF fill = job.want \/ Remaining(j) = 0
             THEN pc' = "tick" /\ job' = j
             ELSE pc' = "walk" /\ job' = [j EXCEPT !.step = @ - 1]

-----------------------------------------------------------------------------
(* runOneTickBacktest(): want is the size of the order that rests, or 0.   *)

ReplayDrain ==
  /\ job.kind = "replay" /\ pc = "tick"
  /\ LET o == live["yes"]
         j == IF job.want > 0 /\ ~o.open
              THEN [job EXCEPT !.want = 0, !.filled = @ + IF Complete(o) THEN o.got ELSE 0]
              ELSE job
     IN IF Remaining(j) = 0
        THEN Finish(j, "complete")
        ELSE pc' = "quote" /\ job' = j
  /\ UNCHANGED market

\* The fills of the canceled order are not looked at.
ReplayTight ==
  /\ job.kind = "replay" /\ pc = "quote"
  /\ job.want > 0 \/ job.filled > 0
  /\ Finish([job EXCEPT !.want = 0], "spread_too_tight")
  /\ IF job.want > 0 THEN Cancel({"yes"}) \/ CancelLost ELSE UNCHANGED market

\* The order that rests is left on the book.
ReplayGuard ==
  /\ job.kind = "replay" /\ pc = "quote"
  /\ Finish(job, "partial")
  /\ UNCHANGED market

ReplayKeep ==
  /\ job.kind = "replay" /\ pc = "quote" /\ job.want > 0
  /\ pc' = "tick"
  /\ UNCHANGED <<job, live, stray, traded, lost>>

ReplayReplace ==
  /\ job.kind = "replay" /\ pc = "quote" /\ job.want > 0
  /\ \E answered \in BOOLEAN :
       LET fill == Least(Remaining(job), CancelCredit(live["yes"], answered))
           j == [Credited(job, fill) EXCEPT !.want = 0]
       IN /\ IF answered THEN Cancel({"yes"}) ELSE CancelLost
          /\ IF Remaining(j) = 0 THEN Finish(j, "complete") ELSE pc' = "post" /\ job' = j

ReplayPost ==
  /\ job.kind = "replay"
  /\ pc = "post" \/ (pc = "quote" /\ job.want = 0)
  /\ LET chunk == Least(job.unit, Remaining(job))
         j == [job EXCEPT !.posted = @ + chunk]
     IN \/ OverCap(job, chunk) /\ Finish(job, "partial") /\ UNCHANGED market
        \/ ~OverCap(job, chunk) /\ PostLost("yes", chunk) /\ Finish(j, "error")
        \/ /\ ~OverCap(job, chunk)
           /\ \E f \in 0 .. chunk : Follow("yes", [n |-> chunk, got |-> f, open |-> f < chunk])
           /\ IF Complete(live'["yes"])
              THEN IF Remaining(Credited(j, chunk)) = 0
                   THEN Finish(Credited(j, chunk), "complete")
                   ELSE pc' = "tick" /\ job' = Credited(j, chunk)
              ELSE pc' = "tick" /\ job' = [j EXCEPT !.want = chunk]

PassiveNext ==
  \/ PassiveTick \/ PassiveGuard \/ PassivePost \/ PassiveFilled \/ PassiveCancel
  \/ ReplayDrain \/ ReplayTight \/ ReplayGuard \/ ReplayKeep \/ ReplayReplace \/ ReplayPost

-----------------------------------------------------------------------------
(* What a caller may rely on.                                              *)

\* What n shares on a leg can come to: reported filled, traded, still loose.
PassiveOutcomes(n) ==
  {[filled |-> r, traded |-> r, stray |-> 0, lost |-> FALSE] : r \in 0 .. Monus(2 * n, 1)}
  \cup {o \in [filled : 0 .. Monus(2 * n, 1), traded : 0 .. Multiple * n, stray : 0 .. Multiple * n,
               lost : {TRUE}] : o.filled <= o.traded /\ o.traded + o.stray <= Multiple * n}

\* A finished run of the passive runner comes to one of the outcomes its
\* callers are modelled with: what it reports it has traded, no order is left
\* behind unless an answer was lost, and it never trades beyond the cap on
\* submitted shares.  At any time, reposting a whole chunk after a partial fill
\* sells more than the job was given by less than one chunk.
PassiveContract ==
  job.kind = "passive" =>
    /\ ~lost => traded["yes"] < job.size + job.unit
    /\ pc = "done" =>
         [filled |-> job.filled, traded |-> traded["yes"],
          stray |-> stray["yes"] + Outstanding(live["yes"]), lost |-> lost]
           \in PassiveOutcomes(job.size)
=============================================================================
