------------------------- MODULE WorkflowTemplates -------------------------
(***************************************************************************)
(* The prebuilt workflows (workflows/templates.ts) as data, and the        *)
(* matching of events and guards that decides about their transitions      *)
(* (matchesEvent of engine.ts, predicate.ts).                              *)
(*                                                                         *)
(* A definition has max, initial and states; a state has the actions run   *)
(* on entry and a list of transitions.  An event has a kind and facts, a   *)
(* matcher a kind and the facts it wants.  A guard is a set of             *)
(* conjunctions, each a set of comparisons: nested all and any multiplied  *)
(* out.  Texts, prices and strategy parameters are left out.               *)
(***************************************************************************)
EXTENDS Integers, Sequences, TLC

(* Guards.                                                                 *)

Timed == {"durationMs", "timestamp"}

\* A time matches from the wanted one on, everything else exactly; a fact that the
\* matcher does not want is ignored.
MatchesEvent(event, on) ==
  /\ event.kind = on.kind
  /\ \A f \in DOMAIN on.want :
       /\ f \in DOMAIN event.facts
       /\ IF f \in Timed THEN event.facts[f] >= on.want[f] ELSE event.facts[f] = on.want[f]

\* The value of a field, if it has one.  A path without "event." or "var." has none.
ResolveField(p, event, vars) ==
  CASE p.root = "event" -> {event.facts[k] : k \in {p.key} \cap DOMAIN event.facts}
    [] p.root = "var" -> {vars[k] : k \in {p.key} \cap DOMAIN vars}
    [] OTHER -> {}

\* A field without a value satisfies neq and nothing else.
EvaluateLeaf(p, event, vars) ==
  LET field == ResolveField(p, event, vars)
  IN  CASE p.op = "eq" -> p.value \in field
        [] p.op = "neq" -> p.value \notin field
        [] p.op = "in" -> \E v \in field : v \in p.value
        [] p.op = "gte" -> \E v \in field : v >= p.value
        [] p.op = "lte" -> \E v \in field : v <= p.value
        [] p.op = "gt" -> \E v \in field : v > p.value
        [] p.op = "lt" -> \E v \in field : v < p.value

EvaluatePredicate(guard, event, vars) ==
  \E all \in guard : \A p \in all : EvaluateLeaf(p, event, vars)

NoGuard == {{}}

-----------------------------------------------------------------------------
(* Actions, matchers and transitions.                                      *)

RegisterSynthetic(kind) == [type |-> "register_synthetic", what |-> kind]
CancelLast == [type |-> "cancel_synthetic", what |-> "last_registered"]
RunStrategy(strategy) == [type |-> "run_strategy", what |-> strategy]
Alert == [type |-> "alert", what |-> "log"]
SetVar(key, value) == [type |-> "set_var", what |-> key, value |-> value]

On(kind, want) == [kind |-> kind, want |-> want]
Fired(kind) == On("synthetic_fired", "syntheticKind" :> kind)
AnyFired == On("synthetic_fired", <<>>)
Filled == On("fill_received", <<>>)
\* In hours
Elapsed(hours) == On("time_elapsed", "durationMs" :> hours)

Goes(on, actions, next) == [on |-> on, guard |-> NoGuard, actions |-> actions, next |-> next]

\* The guard of the two templates that loop: its path has no root.
Exhausted ==
  {{[root |-> "none", key |-> "remainingContracts", op |-> "lte", value |-> 0]}}
GoesWhenExhausted(on) ==
  [on |-> on, guard |-> Exhausted, actions |-> <<Alert>>, next |-> "TERMINAL"]

State(entry, transitions) == [entry |-> entry, transitions |-> transitions]
Terminal == "TERMINAL" :> State(<<>>, <<>>)

-----------------------------------------------------------------------------
(* The eight templates.                                                    *)

ContinuousTrailing ==
  [max |-> 200, initial |-> "ARMED", states |->
     "ARMED" :> State(<<RegisterSynthetic("trailing_stop")>>,
                      <<GoesWhenExhausted(AnyFired), Goes(AnyFired, <<Alert>>, "ARMED")>>)
     @@ Terminal]

TakeProfitThenTrail ==
  [max |-> 50, initial |-> "TAKE_PROFIT", states |->
     "TAKE_PROFIT" :> State(<<RegisterSynthetic("take_profit")>>,
                            <<Goes(Fired("take_profit"), <<CancelLast, Alert>>, "TRAILING")>>)
     @@ "TRAILING" :> State(<<RegisterSynthetic("trailing_stop")>>,
                            <<Goes(Fired("trailing_stop"), <<Alert>>, "TERMINAL")>>)
     @@ Terminal]

StopThenRotate ==
  [max |-> 50, initial |-> "STOP_ARMED", states |->
     "STOP_ARMED" :> State(<<RegisterSynthetic("stop_loss")>>,
                           <<Goes(Fired("stop_loss"), <<Alert, RunStrategy("S-roll")>>, "ROTATING")>>)
     @@ "ROTATING" :> State(<<>>, <<Goes(Filled, <<Alert>>, "TERMINAL")>>)
     @@ Terminal]

BracketAndRoll ==
  [max |-> 100, initial |-> "BRACKETED", states |->
     "BRACKETED" :> State(<<RegisterSynthetic("bracket")>>,
                          <<Goes(Fired("take_profit"), <<CancelLast, Alert>>, "ROLLING"),
                            Goes(Fired("stop_loss"), <<CancelLast, Alert>>, "TERMINAL")>>)
     @@ "ROLLING" :> State(<<RunStrategy("S-roll")>>, <<Goes(Filled, <<Alert>>, "BRACKETED")>>)
     @@ Terminal]

ScaleOutThenRearm ==
  [max |-> 200, initial |-> "SCALING", states |->
     "SCALING" :> State(<<RegisterSynthetic("take_profit")>>,
                        <<GoesWhenExhausted(Fired("take_profit")),
                          Goes(Fired("take_profit"), <<Alert>>, "SCALING")>>)
     @@ Terminal]

\* A stop that a later band replaces
Band(hours, next, leaving) ==
  State(<<RegisterSynthetic("stop_loss"), Alert>>,
        <<Goes(Fired("stop_loss"), <<Alert>>, "TERMINAL"), Goes(Elapsed(hours), leaving, next)>>)

TimeDecayStopLoss ==
  [max |-> 50, initial |-> "EARLY", states |->
     "EARLY" :> Band(72, "MID", <<CancelLast, Alert>>)
     @@ "MID" :> Band(48, "FINAL", <<CancelLast, Alert>>)
     @@ "FINAL" :> Band(24, "TERMINAL", <<CancelLast, RunStrategy("S-losing"), Alert>>)
     @@ Terminal]

DrawdownThenFlatten ==
  [max |-> 50, initial |-> "WATCHING", states |->
     "WATCHING" :> State(<<RegisterSynthetic("trailing_stop"), Alert>>,
                         <<Goes(Fired("trailing_stop"), <<RunStrategy("S-aggressive"), Alert>>,
                                "FLATTENING")>>)
     @@ "FLATTENING" :> State(<<>>, <<Goes(Filled, <<Alert>>, "TERMINAL")>>)
     @@ Terminal]

ProfitTargetThenIceberg ==
  [max |-> 50, initial |-> "WAITING_TP", states |->
     "WAITING_TP" :> State(<<RegisterSynthetic("take_profit"), Alert>>,
                           <<Goes(Fired("take_profit"),
                                  <<CancelLast, RunStrategy("S-iceberg"), Alert>>, "ICEBERGING")>>)
     @@ "ICEBERGING" :> State(<<>>, <<Goes(Filled, <<Alert>>, "TERMINAL")>>)
     @@ Terminal]

Templates ==
  {ContinuousTrailing, TakeProfitThenTrail, StopThenRotate, BracketAndRoll,
   ScaleOutThenRearm, TimeDecayStopLoss, DrawdownThenFlatten, ProfitTargetThenIceberg}
=============================================================================
