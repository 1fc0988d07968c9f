------------------------------ MODULE Evaluators ------------------------------
(***************************************************************************)
(* The synthetic-order evaluators of src/synthetics/: pure functions from  *)
(* a synthetic's parameters, its persisted evaluator state and the top bid *)
(* on its side of the book to a verdict.  Prices are whole cents; 0 is the *)
(* top bid of an empty book.                                               *)
(*                                                                         *)
(* Parameters p are records whose fields depend on p.kind:                 *)
(*   stop_loss, stop_limit  trigger                                        *)
(*   trailing_stop          trail, floor                                   *)
(*   step_trail             trail, floor, step                             *)
(*   take_profit            trigger, rungs  (rungs = <<>>: one trigger)    *)
(*   time_stop              gate            (gate = NoGate: none)          *)
(*   oco, bracket           legs                                           *)
(***************************************************************************)
EXTENDS Integers, Sequences, FiniteSets

NoPeak == -1      \* peakBidCentsExact absent from the persisted state
NoGate == -1      \* exitIfBelowCents undefined

EvalState == [peak : Int, armed : BOOLEAN, rungs : SUBSET Nat]

\* state: {} of a synthetic that was never evaluated
NoState == [peak |-> NoPeak, armed |-> FALSE, rungs |-> {}]

MaxOf(a, b) == IF a >= b THEN a ELSE b

\* A verdict.  "update" says that newState is present, i.e. that the state is
\* stored and journaled whether or not the synthetic fires.
Verdict(fire, unregister, update, st) ==
  [fire |-> fire, unregister |-> unregister, update |-> update, state |-> st]

Verdicts ==
  [fire : BOOLEAN, unregister : BOOLEAN, update : BOOLEAN, state : EvalState]

-----------------------------------------------------------------------------

\* stop_loss, and stop_limit, whose trigger is the same
EvalStop(p, st, bid) == Verdict(bid <= p.trigger, FALSE, FALSE, st)

StopPrice(p, peak) == MaxOf(peak - p.trail, p.floor)

\* Mutant: the persisted peak is not read.
PeakSoFar_Current(st, bid) == bid

PeakSoFar(st, bid) == IF st.peak = NoPeak THEN bid ELSE st.peak

EvalTrailingStop(p, st, bid) ==
  LET peak == MaxOf(PeakSoFar(st, bid), bid)
  IN  Verdict(bid <= StopPrice(p, peak), FALSE, TRUE, [st EXCEPT !.peak = peak])

\* The peak moves only when the bid clears it by more than one step.
EvalStepTrail(p, st, bid) ==
  LET before == PeakSoFar(st, bid)
      peak   == IF bid > before + p.step THEN bid ELSE before
  IN  Verdict(bid <= StopPrice(p, peak), FALSE, TRUE, [st EXCEPT !.peak = peak])

\* One trigger, armed by a bid below it; a firing verdict carries no new state.
EvalSingleTakeProfit(p, st, bid) ==
  LET armed == st.armed \/ bid < p.trigger
  IN  IF armed /\ bid >= p.trigger
      THEN Verdict(TRUE, TRUE, FALSE, st)
      ELSE Verdict(FALSE, FALSE, TRUE, [st EXCEPT !.armed = armed, !.rungs = {}])

\* Rungs fire one per tick, the first reached rung first; the verdict that fires
\* a rung already records it as fired.
EvalRungs(p, st, bid) ==
  LET unfired == DOMAIN p.rungs \ st.rungs
      next    == CHOOSE i \in unfired : \A k \in unfired : i <= k
      armed   == st.rungs # {} \/ st.armed \/ bid < p.rungs[next]
      reached == {i \in unfired : armed /\ bid >= p.rungs[i]}
      rung    == CHOOSE i \in reached : \A k \in reached : i <= k
  IN  IF unfired = {}
      THEN Verdict(FALSE, TRUE, FALSE, st)
      ELSE IF reached = {}
      THEN Verdict(FALSE, FALSE, TRUE, [st EXCEPT !.armed = armed])
      ELSE Verdict(TRUE, unfired = {rung}, TRUE,
                   [st EXCEPT !.armed = armed, !.rungs = @ \cup {rung}])

EvalTimeStop(p, st, bid, late) ==
  IF late /\ (p.gate = NoGate \/ bid < p.gate)
  THEN Verdict(TRUE, TRUE, FALSE, st)
  ELSE Verdict(FALSE, FALSE, FALSE, st)

\* late: the wall clock has passed a time_stop's deadline
Evaluate(p, st, bid, late) ==
  CASE p.kind \in {"stop_loss", "stop_limit"} -> EvalStop(p, st, bid)
    [] p.kind = "trailing_stop"               -> EvalTrailingStop(p, st, bid)
    [] p.kind = "step_trail"                  -> EvalStepTrail(p, st, bid)
    [] p.kind = "take_profit"                 -> IF p.rungs = <<>>
                                                 THEN EvalSingleTakeProfit(p, st, bid)
                                                 ELSE EvalRungs(p, st, bid)
    [] p.kind = "time_stop"                   -> EvalTimeStop(p, st, bid, late)
    [] p.kind \in {"oco", "bracket"}          -> Verdict(FALSE, FALSE, FALSE, st)
=============================================================================
