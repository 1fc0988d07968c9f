------------------------- MODULE WorkflowLifecycle -------------------------
(***************************************************************************)
(* What the workflow engine promises about an instance, as its journal     *)
(* tells it: it walks along the transitions of its definition while it is  *)
(* active, at most max of them, and ends terminal or halted.  A cancel or  *)
(* the cap may overtake the end of a transition under way, and are then    *)
(* overtaken by it.  Only if events are handled one after the other does a *)
(* transition start from the state that the journal has.                   *)
(***************************************************************************)
EXTENDS Integers

CONSTANTS
  Ids,
  Workflows     \* definitions by name

VARIABLES
  serial,       \* events are handled one after the other
  workflow,     \* name of an instance's definition
  node, life, count

vars == <<serial, workflow, node, life, count>>

States(w) == DOMAIN Workflows[w].states

\* where a transition from n leads to
Targets(w, n) ==
  LET transitions == Workflows[w].states[n].transitions
  IN  {transitions[t].next : t \in DOMAIN transitions}

Init ==
  /\ serial \in BOOLEAN
  /\ workflow \in [Ids -> DOMAIN Workflows]
  /\ node = [i \in Ids |-> Workflows[workflow[i]].initial]
  /\ life = [i \in Ids |-> "none"]
  /\ count = [i \in Ids |-> 0]

Start(i) ==
  /\ life[i] = "none"
  /\ life' = [life EXCEPT ![i] = "active"]
  /\ UNCHANGED <<serial, workflow, node, count>>

Move(i) ==
  /\ life[i] = "active" /\ count[i] < Workflows[workflow[i]].max
  /\ count' = [count EXCEPT ![i] = @ + 1]
  /\ \E n \in States(workflow[i]), to \in States(workflow[i]) \cup {"TERMINAL"} :
       /\ to \in Targets(workflow[i], n)
       /\ serial => n = node[i]
       /\ node' = [node EXCEPT ![i] = to]
  /\ UNCHANGED <<serial, workflow, life>>

Finish(i) ==
  /\ life[i] # "none" /\ count[i] > 0
  /\ serial => node[i] = "TERMINAL"
  /\ life' = [life EXCEPT ![i] = "terminal"]
  /\ UNCHANGED <<serial, workflow, node, count>>

\* By the operator, or at the cap
Halt(i) ==
  /\ life[i] # "none"
  /\ life' = [life EXCEPT ![i] = "halted"]
  /\ UNCHANGED <<serial, workflow, node, count>>

Next == \E i \in Ids : Start(i) \/ Move(i) \/ Finish(i) \/ Halt(i)

Spec == Init /\ [][Next]_vars
=============================================================================
