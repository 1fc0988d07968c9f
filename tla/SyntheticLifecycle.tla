------------------------- MODULE SyntheticLifecycle -------------------------
(***************************************************************************)
(* What the watcher promises about a synthetic order across crashes: the   *)
(* status that its journal stands for moves along the documented lifecycle *)
(* armed -> fired | fire_failed | canceled, with the one exception that    *)
(* the code has.  A tick works on a snapshot, so a leaf that is canceled   *)
(* while the tick is under way can still be armed again, fired or failed   *)
(* by that tick, and by nothing else.                                      *)
(***************************************************************************)
CONSTANTS Synthetic, LegsOf     \* LegsOf[s]: legs of a composite; {} of a leaf

VARIABLES
  life,       \* status of a synthetic according to the journal
  inFlight    \* synthetics the current tick may still decide

Outcomes == {"fired", "fire_failed"}

Leaf == {s \in Synthetic : LegsOf[s] = {}}

Init == life = [s \in Synthetic |-> "absent"] /\ inFlight = {}

\* A composite appears only when both its legs are there.
Register(s) ==
  /\ life[s] = "absent"
  /\ \A l \in LegsOf[s] : life[l] # "absent"
  /\ life' = [life EXCEPT ![s] = "armed"]
  /\ UNCHANGED inFlight

Cancel(s) ==
  /\ life[s] = "armed"
  /\ life' = [life EXCEPT ![s] = "canceled"]
  /\ UNCHANGED inFlight

\* A tick takes the armed synthetics along ...
Snapshot ==
  /\ inFlight = {}
  /\ inFlight' = {s \in Synthetic : life[s] = "armed"}
  /\ UNCHANGED life

\* ... and is done with some of them, or crashes.
Drop == inFlight' \subseteq inFlight /\ UNCHANGED life

\* A leaf taken along may have been canceled since.
Overtake(s) ==
  /\ s \in inFlight \cap Leaf /\ life[s] = "canceled"
  /\ life' = [life EXCEPT ![s] = "armed"]
  /\ UNCHANGED inFlight

Settle(s, outcome) ==
  /\ s \in inFlight \cap Leaf /\ life[s] \in {"armed", "canceled"}
  /\ life' = [life EXCEPT ![s] = outcome]
  /\ inFlight' = inFlight \ {s}

\* A composite fires by propagation from a leg only.
Propagate(c) ==
  /\ life[c] = "armed"
  /\ \E l \in LegsOf[c] : life[l] = "fired"
  /\ life' = [life EXCEPT ![c] = "fired"]
  /\ UNCHANGED inFlight

Next ==
  \/ Snapshot
  \/ Drop
  \/ \E s \in Synthetic :
       \/ Register(s) \/ Cancel(s) \/ Overtake(s) \/ Propagate(s)
       \/ \E outcome \in Outcomes : Settle(s, outcome)

Spec == Init /\ [][Next]_<<life, inFlight>>
=============================================================================
