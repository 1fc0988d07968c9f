------------------------------ MODULE Workflow ------------------------------
(***************************************************************************)
(* The workflow engine (workflows/engine.ts, workflows/journal.ts): it     *)
(* advances the active instances on each event, executes the actions of    *)
(* the transition taken, and journals what it does.  handleEvent suspends  *)
(* at every action; whether its caller waits for it before it delivers the *)
(* next event is up to the caller (serial).                                *)
(*                                                                         *)
(* The journal is kept as what replayFromJournal makes of it, which is a   *)
(* fold over its lines; lines are written synchronously.                   *)
(***************************************************************************)
EXTENDS WorkflowTemplates, FiniteSets, SequencesExt

CONSTANTS
  Ids,           \* instances, numbered in the order of their registration
  Workflows,     \* definitions by name
  Events,        \* what handleEvent may be called with
  Calls,         \* slots for the calls of handleEvent under way, numbered
  MaxEvents,     \* bound: calls of handleEvent
  MaxFailures    \* bound: failed actions

\* The lists of actions in the definitions
EntryLists ==
  UNION {{Workflows[w].states[n].entry : n \in DOMAIN Workflows[w].states} : w \in DOMAIN Workflows}
TransitionLists ==
  UNION {{tr.actions : tr \in UNION {{Workflows[w].states[n].transitions[t] :
                                       t \in DOMAIN Workflows[w].states[n].transitions} :
                                      n \in DOMAIN Workflows[w].states}} : w \in DOMAIN Workflows}
Actions == UNION {{list[k] : k \in DOMAIN list} : list \in EntryLists \cup TransitionLists}

\* What validateWorkflow accepts
ASSUME WorkflowAssumption ==
  /\ Ids \subseteq Nat \ {0} /\ Calls \subseteq Nat
  /\ MaxEvents \in Nat /\ MaxFailures \in Nat
  /\ \A w \in DOMAIN Workflows :
       LET d == Workflows[w]
       IN  /\ d.max \in Nat \ {0}
           /\ d.initial \in DOMAIN d.states
           /\ \A n \in DOMAIN d.states :
                \A t \in DOMAIN d.states[n].transitions :
                  d.states[n].transitions[t].next \in DOMAIN d.states \cup {"TERMINAL"}
  /\ \A w \in DOMAIN Workflows : \A n \in DOMAIN Workflows[w].states :
       DOMAIN Workflows[w].states[n].transitions \subseteq Nat
  /\ EntryLists \cup TransitionLists \subseteq Seq(Actions)
  /\ \A a \in Actions : a.type \in STRING /\ a.what \in STRING

VARIABLES
  serial,     \* each call of handleEvent is awaited before the next
  workflow,   \* the definition that an instance is registered with
  inst,       \* WorkflowInstance, without its vars
  vars,       \* its vars
  last,       \* lastRegisteredSyntheticId of its meta; 0: undefined
  calls,      \* the suspended calls of handleEvent
  file,       \* what replayFromJournal returns, without its vars
  replayedVars,  \* the vars it returns
  log,        \* the action lines of the journal
  events      \* calls of handleEvent so far

state == <<serial, workflow, inst, vars, last, calls, file, replayedVars, log, events>>

Def(i) == Workflows[workflow[i]]
States(i) == DOMAIN Def(i).states
Transitions(i) == Def(i).states[inst[i].node].transitions

-----------------------------------------------------------------------------
(* Instances and calls.                                                    *)

Nodes == {"TERMINAL"} \cup UNION {DOMAIN Workflows[w].states : w \in DOMAIN Workflows}

\* A history entry: the state left, the index of the transition, the state entered
Moves == Nodes \X Nat \X Nodes

Instances ==
  [node : Nodes, status : {"none", "active", "terminal", "halted"},
   reason : {"", "canceled", "runaway"}, count : Nat, history : Seq(Moves)]

Unregistered(w) ==
  [node |-> Workflows[w].initial, status |-> "none", reason |-> "", count |-> 0, history |-> <<>>]

Halted(r, why) == [r EXCEPT !.status = "halted", !.reason = why]

LogLines == [type : STRING, ok : BOOLEAN, ref : Nat]

\* The event kinds are a closed set without this one.
NoEvent == [kind |-> "none", facts |-> <<>>]

\* turn: between two instances; acting: between two actions; waiting: in a callback
\* todo: the rest of the snapshot of active instances
\* id: 0, or the instance whose transition (to move[3]) or entry actions it executes
\* rest: actions not settled yet; ref: resolved id of a synthetic to be canceled
CallRecords ==
  [at : {"idle", "turn", "acting", "waiting"}, event : Events \cup {NoEvent},
   todo : SUBSET Ids, id : Ids \cup {0}, stage : {"none", "transition", "entry"},
   move : Moves \cup {<<>>}, rest : Seq(Actions), ref : Nat]

\* A call that has no transition in hand
Between(at, event, todo) ==
  [at |-> at, event |-> event, todo |-> todo, id |-> 0, stage |-> "none",
   move |-> <<>>, rest |-> <<>>, ref |-> 0]

Idle == Between("idle", NoEvent, {})

\* Where a call is when it is done with an instance
Onward(event, todo) == IF todo = {} THEN Idle ELSE Between("turn", event, todo)

\* Mutant: no look at the status
Active_Registered(i) == inst[i].status # "none"

Active(i) == inst[i].status = "active"

\* The type invariant.
TypeOK ==
  /\ serial \in BOOLEAN
  /\ workflow \in [Ids -> DOMAIN Workflows]
  /\ inst \in [Ids -> Instances] /\ file \in [Ids -> Instances]
  /\ \A i \in Ids : inst[i].status \in {"none", "active"} => inst[i].node \in States(i)
  /\ DOMAIN vars = Ids /\ \A i \in Ids : DOMAIN vars[i] \subseteq STRING
  /\ DOMAIN replayedVars = Ids /\ \A i \in Ids : DOMAIN replayedVars[i] \subseteq STRING
  /\ last \in [Ids -> Nat]
  /\ log \in [Ids -> Seq(LogLines)]
  /\ calls \in [Calls -> CallRecords]
  /\ \A c \in Calls :
       /\ IF calls[c].at \in {"acting", "waiting"}
          THEN /\ calls[c].id \in Ids /\ calls[c].move \in Moves /\ calls[c].stage # "none"
               /\ calls[c].move[3] \in States(calls[c].id) \cup {"TERMINAL"}
          ELSE calls[c].stage = "none"
       /\ calls[c].at = "waiting" => calls[c].rest # <<>>
  /\ events \in 0 .. MaxEvents

Init ==
  /\ serial \in BOOLEAN
  /\ workflow \in [Ids -> DOMAIN Workflows]
  /\ inst = [i \in Ids |-> Unregistered(workflow[i])]
  /\ vars = [i \in Ids |-> <<>>]
  /\ last = [i \in Ids |-> 0]
  /\ calls = [c \in Calls |-> Idle]
  /\ file = inst
  /\ replayedVars = vars
  /\ log = [i \in Ids |-> <<>>]
  /\ events = 0

-----------------------------------------------------------------------------
(* register and cancel.                                                    *)

Started(r) == [r EXCEPT !.status = "active"]

\* The line of workflow_started has the vars of the instance.  The actions that the initial state has for its entry are not executed.
Register(i) ==
  /\ inst[i].status = "none"
  /\ \A j \in Ids : j < i => inst[j].status # "none"
  /\ inst' = [inst EXCEPT ![i] = Started(@)]
  /\ file' = [file EXCEPT ![i] = Started(@)]
  /\ replayedVars' = [replayedVars EXCEPT ![i] = vars[i]]
  /\ UNCHANGED <<serial, workflow, vars, last, calls, log, events>>

\* Any instance can be canceled, whatever its status is.
Cancel(i) ==
  /\ inst[i].status # "none"
  /\ inst' = [inst EXCEPT ![i] = Halted(@, "canceled")]
  /\ file' = [file EXCEPT ![i] = Halted(@, "canceled")]
  /\ UNCHANGED <<serial, workflow, replayedVars, vars, last, calls, log, events>>

-----------------------------------------------------------------------------
(* handleEvent: the turn of one instance.                                  *)

\* Mutant: one transition too many
Runaway_Beyond(i) == inst[i].count > Def(i).max

Runaway(i) == inst[i].count >= Def(i).max

Matching(i, event) ==
  {t \in DOMAIN Transitions(i) :
     /\ MatchesEvent(event, Transitions(i)[t].on)
     /\ EvaluatePredicate(Transitions(i)[t].guard, event, vars[i])}

\* An instance that is no longer active, or that the event is nothing to
PassOver(i, event) ==
  /\ Active(i) => ~ Runaway(i) /\ Matching(i, event) = {}
  /\ UNCHANGED <<inst, file>>

HaltRunaway(i) ==
  /\ Active(i) /\ Runaway(i)
  /\ inst' = [inst EXCEPT ![i] = Halted(@, "runaway")]
  /\ file' = [file EXCEPT ![i] = Halted(@, "runaway")]

\* Mutant: the journal stays in the state that the transition leaves.
Journaled_From(r, move, count) ==
  [r EXCEPT !.node = move[1], !.count = count, !.history = Append(@, move)]

Journaled(r, move, count) ==
  [r EXCEPT !.node = move[3], !.count = count, !.history = Append(@, move)]

\* The transition is counted and journaled before its actions are executed, and the
\* instance stays in the state it leaves until then.  The line has no vars (it could
\* have some: a replay would take them), so a replay keeps those it has.
TakeTransition(c, event, todo, i) ==
  /\ Active(i) /\ ~ Runaway(i)
  /\ \E t \in Matching(i, event) :
       /\ \A u \in Matching(i, event) : t <= u
       /\ LET move == <<inst[i].node, t, Transitions(i)[t].next>>
          IN  /\ file' = [file EXCEPT ![i] = Journaled(@, move, inst[i].count + 1)]
              /\ calls' = [calls EXCEPT ![c] =
                   [at |-> "acting", event |-> event, todo |-> todo \ {i}, id |-> i,
                    stage |-> "transition", move |-> move, rest |-> Transitions(i)[t].actions,
                    ref |-> 0]]
  /\ inst' = [inst EXCEPT ![i].count = @ + 1]

\* processInstanceEvent up to its first await, for the first instance of todo
Turn(c, event, todo) ==
  /\ \E i \in todo :
       /\ \A j \in todo : i <= j
       /\ \/ /\ PassOver(i, event) \/ HaltRunaway(i)
             /\ calls' = [calls EXCEPT ![c] = Onward(event, todo \ {i})]
          \/ TakeTransition(c, event, todo, i)
  /\ UNCHANGED <<serial, workflow, replayedVars, vars, last, log>>

\* handleEvent, with the snapshot of the active instances; it is a no-op without any.
HandleEvent(c, event) ==
  LET active == {i \in Ids : Active(i)}
  IN  /\ calls[c].at = "idle" /\ \A d \in Calls : d < c => calls[d].at # "idle"
      /\ serial => \A d \in Calls : calls[d].at = "idle"
      /\ events < MaxEvents /\ active # {}
      /\ Turn(c, event, active)
      /\ events' = events + 1

NextTurn(c) ==
  /\ calls[c].at = "turn"
  /\ Turn(c, calls[c].event, calls[c].todo)
  /\ UNCHANGED events

-----------------------------------------------------------------------------
(* executeActions and executeAction.                                       *)

LogAction(i, a, ok, ref) ==
  log' = [log EXCEPT ![i] = Append(@, [type |-> a.type, ok |-> ok, ref |-> ref])]

\* The next action of the call's list
Acting(c, i, a) ==
  calls[c].at = "acting" /\ calls[c].rest # <<>> /\ i = calls[c].id /\ a = Head(calls[c].rest)

\* Mutant: the call still counts as waiting.
Settled_Waiting(c) == calls' = [calls EXCEPT ![c].rest = Tail(@), ![c].ref = 0]

Settled(c) == calls' = [calls EXCEPT ![c].at = "acting", ![c].rest = Tail(@), ![c].ref = 0]

LacksSynthetic(i, a) ==
  a.type = "cancel_synthetic" /\ a.what = "last_registered" /\ last[i] = 0

NothingToCancel(c) ==
  \E i \in Ids : LET a == Head(calls[c].rest) IN
    /\ Acting(c, i, a) /\ LacksSynthetic(i, a)
    /\ LogAction(i, a, FALSE, 0)
    /\ Settled(c)
    /\ UNCHANGED <<serial, workflow, replayedVars, inst, vars, last, file, events>>

WithVar(values, key, value) ==
  [k \in DOMAIN values \cup {key} |-> IF k = key THEN value ELSE values[k]]

SetsVar(c) ==
  \E i \in Ids : LET a == Head(calls[c].rest) IN
    /\ Acting(c, i, a) /\ a.type = "set_var"
    /\ vars' = [vars EXCEPT ![i] = WithVar(@, a.what, a.value)]
    /\ LogAction(i, a, TRUE, 0)
    /\ Settled(c)
    /\ UNCHANGED <<serial, workflow, replayedVars, inst, last, file, events>>

\* The callback is called and awaited; what to cancel is resolved before.
CallBack(c) ==
  \E i \in Ids : LET a == Head(calls[c].rest) IN
    /\ Acting(c, i, a) /\ ~ LacksSynthetic(i, a) /\ a.type # "set_var"
    /\ calls' = [calls EXCEPT ![c].at = "waiting",
                              ![c].ref = IF a.type = "cancel_synthetic" /\ a.what = "last_registered"
                                        THEN last[i] ELSE 0]
    /\ UNCHANGED <<serial, workflow, replayedVars, inst, vars, last, file, log, events>>

\* Synthetics are numbered as they are registered.
Fresh(i) ==
  1 + Cardinality({k \in DOMAIN log[i] : log[i][k].type = "register_synthetic" /\ log[i][k].ok})

CallbackResolves(c) ==
  \E i \in Ids : LET a == Head(calls[c].rest) IN
    /\ calls[c].at = "waiting" /\ i = calls[c].id
    /\ IF a.type = "register_synthetic"
       THEN last' = [last EXCEPT ![i] = Fresh(i)] /\ LogAction(i, a, TRUE, Fresh(i))
       ELSE LogAction(i, a, TRUE, calls[c].ref) /\ UNCHANGED last
    /\ Settled(c)
    /\ UNCHANGED <<serial, workflow, replayedVars, inst, vars, file, events>>

Failures(i) == {k \in DOMAIN log[i] : ~ log[i][k].ok}

\* A failed action is journaled, and the next one is executed all the same.
CallbackRejects(c) ==
  \E i \in Ids : LET a == Head(calls[c].rest) IN
    /\ calls[c].at = "waiting" /\ i = calls[c].id
    /\ Cardinality(UNION {{<<j, k>> : k \in Failures(j)} : j \in Ids}) < MaxFailures
    /\ LogAction(i, a, FALSE, 0)
    /\ Settled(c)
    /\ UNCHANGED <<serial, workflow, replayedVars, inst, vars, last, file, events>>

-----------------------------------------------------------------------------
(* The end of a transition.                                                *)

\* Mutant: the cap is looked at before the next transition only.
CapReached_Later(r, i) == r

\* The cap ends the instance as soon as it is reached.
CapReached(r, i) == IF r.count >= Def(i).max THEN Halted(r, "runaway") ELSE r

\* Mutant: the instance stays in its state.
Entered_Stays(r, move) == [r EXCEPT !.history = Append(@, move)]

Entered(r, move) == [r EXCEPT !.node = move[3], !.history = Append(@, move)]

\* Mutant: the actions are not awaited.
Acted_Unawaited(c, i, stage) ==
  calls[c].at = "acting" /\ calls[c].stage = stage /\ i = calls[c].id

Acted(c, i, stage) ==
  calls[c].at = "acting" /\ calls[c].rest = <<>> /\ calls[c].stage = stage /\ i = calls[c].id

Terminate(c) ==
  \E i \in Ids :
    /\ Acted(c, i, "transition") /\ calls[c].move[3] = "TERMINAL"
    /\ inst' = [inst EXCEPT ![i] = [Entered(@, calls[c].move) EXCEPT !.status = "terminal"]]
    /\ file' = [file EXCEPT ![i].status = "terminal"]
    /\ calls' = [calls EXCEPT ![c] = Onward(@.event, @.todo)]
    /\ UNCHANGED <<serial, workflow, replayedVars, vars, last, log, events>>

Entry(i, n) == Def(i).states[n].entry

Advance(c) ==
  \E i \in Ids : LET to == calls[c].move[3] IN
    /\ Acted(c, i, "transition") /\ to # "TERMINAL"
    /\ IF Entry(i, to) # <<>>
       THEN /\ calls' = [calls EXCEPT ![c].stage = "entry", ![c].rest = Entry(i, to)]
            /\ inst' = [inst EXCEPT ![i] = Entered(@, calls[c].move)]
            /\ UNCHANGED file
       ELSE /\ calls' = [calls EXCEPT ![c] = Onward(@.event, @.todo)]
            /\ inst' = [inst EXCEPT ![i] = CapReached(Entered(@, calls[c].move), i)]
            /\ file' = [file EXCEPT ![i] = IF Runaway(i) THEN Halted(@, "runaway") ELSE @]
    /\ UNCHANGED <<serial, workflow, replayedVars, vars, last, log, events>>

EntryDone(c) ==
  \E i \in Ids :
    /\ Acted(c, i, "entry")
    /\ calls' = [calls EXCEPT ![c] = Onward(@.event, @.todo)]
    /\ inst' = [inst EXCEPT ![i] = CapReached(@, i)]
    /\ file' = [file EXCEPT ![i] = IF Runaway(i) THEN Halted(@, "runaway") ELSE @]
    /\ UNCHANGED <<serial, workflow, replayedVars, vars, last, log, events>>

-----------------------------------------------------------------------------
Proceed(c) ==
  \/ NextTurn(c)
  \/ NothingToCancel(c) \/ SetsVar(c) \/ CallBack(c) \/ CallbackResolves(c) \/ CallbackRejects(c)
  \/ Terminate(c) \/ Advance(c) \/ EntryDone(c)

Next ==
  \/ \E i \in Ids : Register(i) \/ Cancel(i)
  \/ \E c \in Calls : Proceed(c) \/ \E event \in Events : HandleEvent(c, event)

Spec == Init /\ [][Next]_state

-----------------------------------------------------------------------------
(* Properties.                                                             *)

Quiet == \A c \in Calls : calls[c].at = "idle"

\* The cap bounds the transitions of an instance, on file too, however many events
\* are handled at the same time: check and count are in one turn, before any await.
TransitionsBounded ==
  \A i \in Ids : inst[i].count <= Def(i).max /\ file[i].count = inst[i].count

\* No transition starts once an instance was canceled, halted or ended, not even by a
\* call whose snapshot still has it.
NoTransitionAfterEnd ==
  [][\A i \in Ids : inst[i].status # "active" => inst'[i].count = inst[i].count]_state

\* Whenever no event is being handled, replayFromJournal returns what the engine has in
\* memory, whatever was canceled in the middle of a transition; provided that events
\* are delivered one after the other.  Its vars are those in memory only as long as no
\* set_var was executed: see VarsReplayed.
ReplayMatchesMemory ==
  serial /\ Quiet =>
    /\ file = inst
    /\ \A i \in Ids :
         (\A k \in DOMAIN log[i] : log[i][k].type # "set_var") => replayedVars[i] = vars[i]

\* A replay reconstructs the vars of an instance too.
VarsReplayed == serial /\ Quiet => replayedVars = vars

\* An instance that has reached its cap stays active only while a transition of it is
\* under way, which then halts or ends it: no further event is needed.
CapEndsInstance ==
  \A i \in Ids :
    Active(i) /\ inst[i].count >= Def(i).max =>
      \E c \in Calls : calls[c].at \in {"acting", "waiting"} /\ calls[c].id = i

\* The actions that a history entry stands for, and those of all of them
MoveActions(d, move) ==
  d.states[move[1]].transitions[move[2]].actions
  \o (IF move[3] = "TERMINAL" THEN <<>> ELSE d.states[move[3]].entry)
HistoryActions(d, history) ==
  FlattenSeq([k \in DOMAIN history |-> MoveActions(d, history[k])])

\* Every action of every transition taken, and of every state entered, is executed once
\* and in order, even if an action before it failed or the instance was canceled.
ActionsFollowHistory ==
  serial /\ Quiet =>
    \A i \in Ids :
      LET owed == HistoryActions(Def(i), inst[i].history)
      IN  /\ Len(log[i]) = Len(owed)
          /\ \A k \in DOMAIN log[i] : log[i][k].type = owed[k].type

\* The journal obeys the lifecycle.
Lifecycle ==
  INSTANCE WorkflowLifecycle WITH
    node <- [i \in Ids |-> file[i].node],
    life <- [i \in Ids |-> file[i].status],
    count <- [i \in Ids |-> file[i].count]

LifecycleSpec == Lifecycle!Spec
=============================================================================
