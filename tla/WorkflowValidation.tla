------------------------ MODULE WorkflowValidation ------------------------
(***************************************************************************)
(* validateWorkflow (workflows/validate.ts): which definitions register()  *)
(* takes.  A definition is checked in full before its first instance       *)
(* exists, so the engine never sees a state, an action or an event outside *)
(* the closed sets of workflows/types.ts.                                  *)
(*                                                                         *)
(* Definitions have the form of WorkflowTemplates; one that names no cap   *)
(* lacks the field max.  The checks that a field has its type, and the     *)
(* texts of the errors, are left out.                                      *)
(***************************************************************************)
EXTENDS WorkflowTemplates

MaxTransitionsHardCap == 500
MaxTransitionsDefault == 50

EventMatcherKinds ==
  {"synthetic_fired", "synthetic_canceled", "fill_received", "time_elapsed", "time_at"}
ActionTypes == {"register_synthetic", "cancel_synthetic", "run_strategy", "alert", "set_var"}
PredicateOps == {"eq", "neq", "in", "gte", "lte", "gt", "lt"}

\* "last_registered" stands for {ref: 'last_registered'}; any other text is an id.
ValidAction(a) ==
  /\ a.type \in ActionTypes
  /\ a.type \in {"cancel_synthetic", "set_var"} => a.what # ""
  /\ a.type = "alert" => a.what \in {"log", "tui", "mcp"}

ValidActions(list) == \A k \in DOMAIN list : ValidAction(list[k])

\* A delay of zero would make a state follow itself for ever.
ValidEventMatcher(on) ==
  /\ on.kind \in EventMatcherKinds
  /\ on.kind = "time_elapsed" => "durationMs" \in DOMAIN on.want /\ on.want["durationMs"] > 0
  /\ on.kind = "time_at" => "timestamp" \in DOMAIN on.want

\* A leaf may name any field; ResolveField finds no value for most of them.
ValidPredicate(guard) == \A all \in guard : \A p \in all : p.op \in PredicateOps

ValidTransition(d, tr) ==
  /\ ValidEventMatcher(tr.on)
  /\ ValidPredicate(tr.guard)
  /\ ValidActions(tr.actions)
  /\ tr.next \in DOMAIN d.states \cup {"TERMINAL"}

ValidState(d, name) ==
  /\ name # ""
  /\ ValidActions(d.states[name].entry)
  /\ \A t \in DOMAIN d.states[name].transitions : ValidTransition(d, d.states[name].transitions[t])

ValidCap(d) == "max" \in DOMAIN d => d.max \in 1 .. MaxTransitionsHardCap

ValidWorkflow(d) ==
  /\ ValidCap(d)
  /\ d.initial \in DOMAIN d.states
  /\ \A name \in DOMAIN d.states : ValidState(d, name)

\* The definition that is registered
Completed(d) ==
  [max |-> IF "max" \in DOMAIN d THEN d.max ELSE MaxTransitionsDefault,
   initial |-> d.initial, states |-> d.states]
=============================================================================
