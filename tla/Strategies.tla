----------------------------- MODULE Strategies -----------------------------
(***************************************************************************)
(* A job of any strategy, and the market it trades on: every runner shares *)
(* the state of module Market, and the kind of the job says which of them  *)
(* takes the steps.                                                        *)
(***************************************************************************)
EXTENDS MultiLeg, MarketMaking

StrategyInit == PassiveInit \/ RestingInit \/ PhasedInit \/ MultiInit \/ MakerInit

RunnerNext == PassiveNext \/ RestingNext \/ PhasedNext \/ MakerNext

StrategyNext == RunnerNext \/ MultiNext \/ Elsewhere

\* Every call that a runner awaits answers in the end; nobody has to fill an
\* order or to stop a job.
StrategyFairness ==
  /\ WF_trading(PassiveNext) /\ WF_trading(RestingSteps) /\ WF_trading(PhasedSteps)
  /\ WF_trading(MultiLoop) /\ \A l \in Legs : WF_trading(LegRuns(l))

StrategySpec == StrategyInit /\ [][StrategyNext]_trading /\ StrategyFairness

-----------------------------------------------------------------------------
\* A job that ends without an error or a lost answer leaves nothing on the book:
\* neither an order that rests nor one that was replaced and forgotten.  (The
\* ladder is meant to leave its orders; a backtest leaves its last one.)
NothingLeftOnBook ==
  pc = "done" /\ ~lost /\ job.status /= "error" /\ job.kind \notin {"ladder", "replay"} =>
    \A l \in Legs : stray[l] + Outstanding(live[l]) = 0

\* The runners that bound their own work: passive by its limit and its caps,
\* the others by their slices, rungs, polls and chunks.  The iceberg waits for
\* its slice, the market maker quotes until it is stopped, and a backtest ends
\* with its recording.
EndKinds ==
  {"passive", "aggressive", "stealth", "prepend", "ladder", "twap", "emergency", "scaleout",
   "roll", "reverse", "arb", "cash", "multi"}

\* Whatever the market does, such a job comes to its end, or a leg of it that threw
\* has ended the process.
JobEnds == job.kind \in EndKinds ~> pc \in {"done", "killed"}

\* The promise of a leg resolves when its runner finishes or errors, so a pair comes to
\* its end and reports either way.
PairReports == job.kind = "multi" ~> pc = "done"
=============================================================================
