----------------------------- MODULE MCWorkflow -----------------------------
(* Instances of Workflow for model checking: definitions that register() takes. *)
EXTENDS Workflow, WorkflowValidation

Event(kind, facts) == [kind |-> kind, facts |-> facts]
FiredEvent(kind) == Event("synthetic_fired", "syntheticKind" :> kind)

\* A stop rearms, a fill ends it or, once rearmed, starts it over.  The cap is met in a
\* state and on the way to TERMINAL; of two stops at once the later one may find the
\* variable that the earlier one sets.
TwoStrikes ==
  LET struck == {{[root |-> "var", key |-> "struck", op |-> "eq", value |-> 1]}}
  IN  [max |-> 2, initial |-> "WATCH", states |->
         "WATCH" :> State(<<>>,
            <<[on |-> Fired("stop_loss"), guard |-> struck, actions |-> <<Alert>>, next |-> "TERMINAL"],
              Goes(Fired("stop_loss"), <<SetVar("struck", 1)>>, "REARM"),
              Goes(Filled, <<>>, "TERMINAL")>>)
         @@ "REARM" :> State(<<RegisterSynthetic("stop_loss")>>,
            <<Goes(Fired("stop_loss"), <<>>, "REARM"), Goes(Filled, <<CancelLast>>, "WATCH")>>)]

\* One defect in each: caps, states, events, actions and guards that the schema excludes
Malformed ==
  LET broken(tr) == [max |-> 1, initial |-> "WATCH", states |-> "WATCH" :> State(<<>>, <<tr>>)]
      acting(a) == broken(Goes(Filled, <<a>>, "TERMINAL"))
  IN  "cap-zero" :> [TwoStrikes EXCEPT !.max = 0] @@ "cap-beyond" :> [TwoStrikes EXCEPT !.max = 501]
      @@ "starts-nowhere" :> [TwoStrikes EXCEPT !.initial = "START"]
      @@ "goes-nowhere" :> broken(Goes(Filled, <<>>, "DONE"))
      @@ "no-event" :> broken(Goes(On("filled", <<>>), <<>>, "TERMINAL"))
      @@ "at-once" :> broken(Goes(Elapsed(0), <<>>, "WATCH"))
      @@ "no-action" :> acting([type |-> "sell", what |-> "all"])
      @@ "no-channel" :> acting([type |-> "alert", what |-> "mail"])
      @@ "no-key" :> acting(SetVar("", 1))
      @@ "no-op" :> broken([Goes(Filled, <<>>, "TERMINAL") EXCEPT
                       !.guard = {{[root |-> "var", key |-> "struck", op |-> "is", value |-> 1]}}])

SmallWorkflows == "stop-then-rotate" :> StopThenRotate @@ "two-strikes" :> TwoStrikes

SmallEvents == {FiredEvent("stop_loss"), Event("fill_received", <<>>)}

\* Every template, beside the definition that sets a variable
AllWorkflows ==
  "continuous-trailing" :> ContinuousTrailing @@ "take-profit-then-trail" :> TakeProfitThenTrail
  @@ "stop-then-rotate" :> StopThenRotate @@ "bracket-and-roll" :> BracketAndRoll
  @@ "scale-out-then-rearm" :> ScaleOutThenRearm @@ "time-decay-stop-loss" :> TimeDecayStopLoss
  @@ "drawdown-then-flatten" :> DrawdownThenFlatten
  @@ "profit-target-then-iceberg" :> ProfitTargetThenIceberg @@ "two-strikes" :> TwoStrikes
  @@ "no-cap" :> Completed(
       [initial |-> "WATCH", states |-> "WATCH" :> State(<<>>, <<Goes(Filled, <<Alert>>, "TERMINAL")>>)])

AllEvents ==
  {FiredEvent(kind) : kind \in {"take_profit", "stop_loss", "trailing_stop"}}
  \cup {Event("fill_received", <<>>), Event("time_elapsed", "durationMs" :> 72)}

\* register() throws on the others.
ASSUME RegisterAssumption ==
  /\ \A w \in DOMAIN Workflows : ValidWorkflow(Workflows[w])
  /\ \A w \in DOMAIN Malformed : ~ ValidWorkflow(Malformed[w])
=============================================================================
