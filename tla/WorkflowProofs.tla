--------------------------- MODULE WorkflowProofs ---------------------------
(***************************************************************************)
(* Theorems of the workflow engine: its type invariant, the cap, what a    *)
(* replay returns, the lifecycle that its journal obeys, and that what it  *)
(* executes follows from the histories of its instances.                   *)
(***************************************************************************)
EXTENDS Workflow, FiniteSums, FiniteSetTheorems, SequenceTheorems, TLAPS

-----------------------------------------------------------------------------
(* Definitions and calls.                                                  *)

\* What the assumption says of a state and its transitions.
LEMMA DefinitionFacts ==
  ASSUME NEW w \in DOMAIN Workflows, NEW n \in DOMAIN Workflows[w].states
  PROVE  /\ n \in Nodes /\ Workflows[w].initial \in Nodes /\ "TERMINAL" \in Nodes
         /\ Workflows[w].states[n].entry \in Seq(Actions)
         /\ \A t \in DOMAIN Workflows[w].states[n].transitions :
              /\ t \in Nat
              /\ Workflows[w].states[n].transitions[t].actions \in Seq(Actions)
              /\ Workflows[w].states[n].transitions[t].next \in DOMAIN Workflows[w].states \cup {"TERMINAL"}
              /\ Workflows[w].states[n].transitions[t].next \in Nodes
<1>1. Workflows[w].initial \in DOMAIN Workflows[w].states
  BY WorkflowAssumption
<1>2. DOMAIN Workflows[w].states \cup {"TERMINAL"} \subseteq Nodes
  BY DEF Nodes
<1>3. Workflows[w].states[n].entry \in EntryLists
  BY DEF EntryLists
<1>4. ASSUME NEW t \in DOMAIN Workflows[w].states[n].transitions
      PROVE  Workflows[w].states[n].transitions[t].actions \in TransitionLists
  <2> DEFINE trs == UNION {{Workflows[w].states[m].transitions[u] :
                              u \in DOMAIN Workflows[w].states[m].transitions} :
                             m \in DOMAIN Workflows[w].states}
  <2>1. Workflows[w].states[n].transitions[t] \in trs
    OBVIOUS
  <2>2. {tr.actions : tr \in trs} \subseteq TransitionLists
    BY DEF TransitionLists
  <2> HIDE DEF trs
  <2> QED BY <2>1, <2>2
<1>5. \A t \in DOMAIN Workflows[w].states[n].transitions :
        Workflows[w].states[n].transitions[t].next \in DOMAIN Workflows[w].states \cup {"TERMINAL"}
  BY WorkflowAssumption
<1> QED BY <1>1, <1>2, <1>3, <1>4, <1>5, WorkflowAssumption

\* A call is typed on its own.
CallOK(call, wf) ==
  /\ call \in CallRecords
  /\ IF call.at \in {"acting", "waiting"}
     THEN /\ call.id \in Ids /\ call.move \in Moves /\ call.stage # "none"
          /\ call.move[3] \in DOMAIN Workflows[wf[call.id]].states \cup {"TERMINAL"}
     ELSE call.stage = "none"
  /\ call.at = "waiting" => call.rest # <<>>

\* Between two instances a call has no transition in hand.
LEMMA BetweenOK ==
  ASSUME NEW at \in {"idle", "turn"}, NEW event \in Events \cup {NoEvent}, NEW todo \in SUBSET Ids,
         NEW wf
  PROVE  CallOK(Between(at, event, todo), wf)
<1>1. <<>> \in Seq(Actions) /\ <<>> \in Moves \cup {<<>>}
  OBVIOUS
<1> QED BY <1>1 DEF CallOK, Between, CallRecords

LEMMA OnwardOK ==
  ASSUME NEW event \in Events \cup {NoEvent}, NEW todo \in SUBSET Ids,
         NEW wf
  PROVE  /\ CallOK(Onward(event, todo), wf)
         /\ Onward(event, todo).at \in {"idle", "turn"} /\ Onward(event, todo).stage = "none"
<1>1. CallOK(Idle, wf) /\ CallOK(Between("turn", event, todo), wf)
  BY BetweenOK DEF Idle
<1>2. Idle.at = "idle" /\ Idle.stage = "none"
      /\ Between("turn", event, todo).at = "turn" /\ Between("turn", event, todo).stage = "none"
  BY DEF Idle, Between
<1> QED BY <1>1, <1>2 DEF Onward

\* Executing the rest of a list of actions
LEMMA SettledOK ==
  ASSUME NEW wf, NEW call, CallOK(call, wf), call.at \in {"acting", "waiting"}, call.rest # <<>>
  PROVE  CallOK([call EXCEPT !.at = "acting", !.rest = Tail(@), !.ref = 0], wf)
<1>1. Tail(call.rest) \in Seq(Actions)
  BY DEF CallOK, CallRecords
<1> QED BY <1>1 DEF CallOK, CallRecords

\* The next action is one of a definition.
LEMMA HeadIsAction ==
  ASSUME NEW wf, NEW call, CallOK(call, wf), call.rest # <<>>
  PROVE  Head(call.rest) \in Actions /\ Head(call.rest).type \in STRING
                                     /\ Head(call.rest).what \in STRING
<1>1. Head(call.rest) \in Actions
  BY DEF CallOK, CallRecords
<1> QED BY <1>1, WorkflowAssumption

\* Journaling an action keeps the log typed.
LEMMA LogActionOK ==
  ASSUME NEW i \in Ids, NEW a, a.type \in STRING, NEW ok \in BOOLEAN, NEW ref \in Nat,
         log \in [Ids -> Seq(LogLines)], LogAction(i, a, ok, ref)
  PROVE  log' \in [Ids -> Seq(LogLines)]
<1>1. [type |-> a.type, ok |-> ok, ref |-> ref] \in LogLines
  BY DEF LogLines
<1>2. Append(log[i], [type |-> a.type, ok |-> ok, ref |-> ref]) \in Seq(LogLines)
  BY <1>1
<1> QED BY <1>2 DEF LogAction

\* The records of an instance field by field
LEMMA HaltedFields ==
  ASSUME NEW r \in Instances, NEW why \in {"canceled", "runaway"}
  PROVE  /\ Halted(r, why) \in Instances
         /\ Halted(r, why).status = "halted" /\ Halted(r, why).reason = why
         /\ Halted(r, why).node = r.node /\ Halted(r, why).count = r.count
         /\ Halted(r, why).history = r.history
BY Zenon DEF Halted, Instances

LEMMA StartedFields ==
  ASSUME NEW r \in Instances
  PROVE  /\ Started(r) \in Instances
         /\ Started(r).status = "active" /\ Started(r).reason = r.reason
         /\ Started(r).node = r.node /\ Started(r).count = r.count
         /\ Started(r).history = r.history
BY Zenon DEF Started, Instances

LEMMA EnteredFields ==
  ASSUME NEW r \in Instances, NEW move \in Moves
  PROVE  /\ Entered(r, move) \in Instances
         /\ Entered(r, move).status = r.status /\ Entered(r, move).reason = r.reason
         /\ Entered(r, move).node = move[3] /\ Entered(r, move).count = r.count
         /\ Entered(r, move).history = Append(r.history, move)
<1>1. move[3] \in Nodes /\ r.history \in Seq(Moves)
  BY Zenon DEF Instances, Moves
<1>2. Append(r.history, move) \in Seq(Moves)
  BY <1>1
<1> QED BY Zenon, <1>1, <1>2 DEF Entered, Instances

LEMMA JournaledFields ==
  ASSUME NEW r \in Instances, NEW move \in Moves, NEW count \in Nat
  PROVE  /\ Journaled(r, move, count) \in Instances
         /\ Journaled(r, move, count).status = r.status /\ Journaled(r, move, count).reason = r.reason
         /\ Journaled(r, move, count).node = move[3] /\ Journaled(r, move, count).count = count
         /\ Journaled(r, move, count).history = Append(r.history, move)
<1>1. move[3] \in Nodes /\ r.history \in Seq(Moves)
  BY Zenon DEF Instances, Moves
<1>2. Append(r.history, move) \in Seq(Moves)
  BY <1>1
<1> QED BY Zenon, <1>1, <1>2 DEF Journaled, Instances

-----------------------------------------------------------------------------
(* The type invariant.                                                     *)

\* What the type invariant says, call by call and list by list
LEMMA TypeFacts ==
  TypeOK <=> /\ serial \in BOOLEAN /\ workflow \in [Ids -> DOMAIN Workflows]
             /\ inst \in [Ids -> Instances] /\ file \in [Ids -> Instances]
             /\ \A i \in Ids :
                  inst[i].status \in {"none", "active"} => inst[i].node \in States(i)
             /\ DOMAIN vars = Ids /\ \A i \in Ids : DOMAIN vars[i] \subseteq STRING
             /\ DOMAIN replayedVars = Ids /\ \A i \in Ids : DOMAIN replayedVars[i] \subseteq STRING
             /\ last \in [Ids -> Nat] /\ log \in [Ids -> Seq(LogLines)]
             /\ calls \in [Calls -> CallRecords] /\ \A c \in Calls : CallOK(calls[c], workflow)
             /\ events \in 0 .. MaxEvents
BY Zenon DEF TypeOK, CallOK, States, Def

\* A call that changes to a typed record
LEMMA CallChanges ==
  ASSUME TypeOK, NEW c \in Calls, NEW call, CallOK(call, workflow), calls' = [calls EXCEPT ![c] = call]
  PROVE  calls' \in [Calls -> CallRecords] /\ \A d \in Calls : CallOK(calls'[d], workflow)
BY TypeFacts DEF CallOK

\* An action settled by a call
LEMMA SettledType ==
  ASSUME TypeOK, NEW c \in Calls, calls[c].at \in {"acting", "waiting"}, calls[c].rest # <<>>,
         Settled(c)
  PROVE  calls' \in [Calls -> CallRecords] /\ \A d \in Calls : CallOK(calls'[d], workflow)
<1> DEFINE call == [calls[c] EXCEPT !.at = "acting", !.rest = Tail(@), !.ref = 0]
<1>1. CallOK(calls[c], workflow)
  BY TypeFacts
<1>2. CallOK(call, workflow)
  BY Zenon, <1>1, SettledOK
<1>3. calls' = [calls EXCEPT ![c] = call]
  BY TypeFacts DEF Settled
<1> HIDE DEF call
<1> QED BY <1>2, <1>3, CallChanges

LEMMA InitType == Init => TypeOK
<1> SUFFICES ASSUME Init PROVE TypeOK
  OBVIOUS
<1>1. \A i \in Ids : Unregistered(workflow[i]) \in Instances
  <2> SUFFICES ASSUME NEW i \in Ids PROVE Unregistered(workflow[i]) \in Instances
    OBVIOUS
  <2>1. workflow[i] \in DOMAIN Workflows
    BY DEF Init
  <2>2. Workflows[workflow[i]].initial \in DOMAIN Workflows[workflow[i]].states
    BY <2>1, WorkflowAssumption
  <2>3. Workflows[workflow[i]].initial \in Nodes
    BY <2>1, <2>2, DefinitionFacts
  <2>4. <<>> \in Seq(Moves)
    OBVIOUS
  <2> QED BY <2>3, <2>4 DEF Unregistered, Instances
<1>2. inst \in [Ids -> Instances] /\ file \in [Ids -> Instances]
  BY <1>1 DEF Init
<1>3. CallOK(Idle, workflow)
  BY BetweenOK DEF Idle
<1>4. calls \in [Calls -> CallRecords] /\ \A c \in Calls : CallOK(calls[c], workflow)
  BY <1>3 DEF Init, CallOK
<1>7. \A i \in Ids : inst[i].node \in States(i)
  <2> SUFFICES ASSUME NEW i \in Ids PROVE inst[i].node \in States(i)
    OBVIOUS
  <2>1. workflow[i] \in DOMAIN Workflows
    BY DEF Init
  <2>2. Workflows[workflow[i]].initial \in DOMAIN Workflows[workflow[i]].states
    BY <2>1, WorkflowAssumption
  <2>3. inst[i] = Unregistered(workflow[i])
    BY DEF Init
  <2>4. Unregistered(workflow[i]).node = Workflows[workflow[i]].initial
    BY DEF Unregistered
  <2> QED BY <2>2, <2>3, <2>4 DEF States, Def
<1>5. log \in [Ids -> Seq(LogLines)] /\ last \in [Ids -> Nat]
  BY DEF Init
<1>6. /\ DOMAIN vars = Ids /\ \A i \in Ids : DOMAIN vars[i] \subseteq STRING
      /\ DOMAIN replayedVars = Ids /\ \A i \in Ids : DOMAIN replayedVars[i] \subseteq STRING
  BY DEF Init
<1>8. events \in 0 .. MaxEvents
  BY WorkflowAssumption DEF Init
<1> QED BY <1>2, <1>4, <1>5, <1>6, <1>7, <1>8, TypeFacts DEF Init


\* What a step has to establish
LEMMA TypeKept ==
  ASSUME TypeOK, UNCHANGED <<serial, workflow>>,
         inst' \in [Ids -> Instances], file' \in [Ids -> Instances],
         \A i \in Ids : inst'[i].status \in {"none", "active"} => inst'[i].node \in States(i),
         DOMAIN vars' = Ids /\ \A i \in Ids : DOMAIN vars'[i] \subseteq STRING,
         DOMAIN replayedVars' = Ids /\ \A i \in Ids : DOMAIN replayedVars'[i] \subseteq STRING,
         last' \in [Ids -> Nat], log' \in [Ids -> Seq(LogLines)],
         calls' \in [Calls -> CallRecords], \A c \in Calls : CallOK(calls'[c], workflow),
         events' \in 0 .. MaxEvents
  PROVE  TypeOK'
BY Zenon DEF TypeOK, CallOK, States, Def

\* The number of the next synthetic is one.
LEMMA FreshType == log \in [Ids -> Seq(LogLines)] => \A i \in Ids : Fresh(i) \in Nat
<1> SUFFICES ASSUME log \in [Ids -> Seq(LogLines)], NEW i \in Ids PROVE Fresh(i) \in Nat
  OBVIOUS
<1> DEFINE K == {k \in DOMAIN log[i] : log[i][k].type = "register_synthetic" /\ log[i][k].ok}
<1>1. DOMAIN log[i] = 1 .. Len(log[i]) /\ Len(log[i]) \in Nat
  OBVIOUS
<1>2. IsFiniteSet(1 .. Len(log[i]))
  BY <1>1, FS_Interval
<1>3. IsFiniteSet(K)
  BY <1>1, <1>2, FS_Subset
<1>4. Cardinality(K) \in Nat
  BY Zenon, <1>3, FS_CardinalityType
<1> QED BY <1>4 DEF Fresh

\* Steps that change no instance and journal no change of one
LEMMA ActionType ==
  ASSUME TypeOK, NEW c \in Calls,
         NothingToCancel(c) \/ SetsVar(c) \/ CallBack(c) \/ CallbackResolves(c) \/ CallbackRejects(c)
  PROVE  TypeOK'
<1>1. CallOK(calls[c], workflow) /\ calls[c].at \in {"acting", "waiting"} /\ calls[c].rest # <<>>
  BY Zenon, TypeFacts DEF NothingToCancel, SetsVar, CallBack, CallbackResolves, CallbackRejects, Acting, CallOK
<1>2. Head(calls[c].rest).type \in STRING /\ Head(calls[c].rest).what \in STRING
  BY <1>1, HeadIsAction
<1>3. UNCHANGED <<serial, workflow, inst, file, replayedVars, events>>
  BY DEF NothingToCancel, SetsVar, CallBack, CallbackResolves, CallbackRejects
<1>4. calls' \in [Calls -> CallRecords] /\ \A d \in Calls : CallOK(calls'[d], workflow)
  <2>1. CASE Settled(c)
    BY <1>1, <2>1, SettledType
  <2>2. CASE CallBack(c)
    <3> PICK i \in Ids :
          /\ Acting(c, i, Head(calls[c].rest))
          /\ calls' = [calls EXCEPT ![c].at = "waiting",
                         ![c].ref = IF Head(calls[c].rest).type = "cancel_synthetic"
                                       /\ Head(calls[c].rest).what = "last_registered"
                                    THEN last[i] ELSE 0]
      BY <2>2 DEF CallBack
    <3> DEFINE ref == IF Head(calls[c].rest).type = "cancel_synthetic"
                         /\ Head(calls[c].rest).what = "last_registered" THEN last[i] ELSE 0
               call == [calls[c] EXCEPT !.at = "waiting", !.ref = ref]
    <3>1. ref \in Nat
      BY TypeFacts
    <3>2. calls' = [calls EXCEPT ![c] = call]
      BY TypeFacts
    <3> HIDE DEF ref
    <3>3. CallOK(call, workflow)
      BY <1>1, <3>1 DEF CallOK, CallRecords, Acting
    <3> HIDE DEF call
    <3> QED BY <3>2, <3>3, CallChanges
  <2> QED BY <2>1, <2>2 DEF NothingToCancel, SetsVar, CallbackResolves, CallbackRejects
<1>5. last' \in [Ids -> Nat] /\ \A i \in Ids : Fresh(i) \in Nat
  <2>1. \A i \in Ids : Fresh(i) \in Nat
    BY TypeFacts, FreshType
  <2> QED BY Zenon, <2>1, TypeFacts DEF NothingToCancel, SetsVar, CallBack, CallbackResolves, CallbackRejects
<1>6. log' \in [Ids -> Seq(LogLines)]
  <2>1. CASE UNCHANGED log
    BY <2>1, TypeFacts
  <2>2. ASSUME NEW i \in Ids, NEW ok \in BOOLEAN, NEW ref \in Nat,
               LogAction(i, Head(calls[c].rest), ok, ref)
        PROVE  log' \in [Ids -> Seq(LogLines)]
    BY <1>2, <2>2, LogActionOK, TypeFacts
  <2>3. calls[c].ref \in Nat
    BY <1>1 DEF CallOK, CallRecords
  <2> QED BY <2>1, <2>2, <2>3, <1>5
        DEF NothingToCancel, SetsVar, CallBack, CallbackResolves, CallbackRejects
<1>7. DOMAIN vars' = Ids /\ \A i \in Ids : DOMAIN vars'[i] \subseteq STRING
  <2>1. CASE UNCHANGED vars
    BY <2>1, TypeFacts
  <2>2. CASE SetsVar(c)
    <3> PICK i \in Ids : vars' = [vars EXCEPT ![i] =
                           WithVar(@, Head(calls[c].rest).what, Head(calls[c].rest).value)]
      BY <2>2 DEF SetsVar
    <3>1. DOMAIN WithVar(vars[i], Head(calls[c].rest).what, Head(calls[c].rest).value) \subseteq STRING
      BY <1>2, TypeFacts DEF WithVar
    <3> QED BY <3>1, TypeFacts
  <2> QED BY <2>1, <2>2 DEF NothingToCancel, CallBack, CallbackResolves, CallbackRejects
<1> QED BY Zenon, <1>3, <1>4, <1>5, <1>6, <1>7, TypeKept, TypeFacts DEF States, Def

\* Steps that change the records of one instance
LEMMA RecordsType ==
  ASSUME TypeOK, UNCHANGED <<serial, workflow, vars, last, log>>, NEW i \in Ids,
         replayedVars' \in {replayedVars, [replayedVars EXCEPT ![i] = vars[i]]},
         NEW r \in Instances, r.status \in {"none", "active"} => r.node \in States(i),
         NEW f \in Instances, inst' = [inst EXCEPT ![i] = r], file' = [file EXCEPT ![i] = f],
         calls' \in [Calls -> CallRecords], \A c \in Calls : CallOK(calls'[c], workflow),
         events' \in 0 .. MaxEvents
  PROVE  TypeOK'
<1>1. inst' \in [Ids -> Instances] /\ file' \in [Ids -> Instances]
  BY TypeFacts
<1>2. \A j \in Ids : inst'[j].status \in {"none", "active"} => inst'[j].node \in States(j)
  <2> SUFFICES ASSUME NEW j \in Ids
               PROVE  inst'[j].status \in {"none", "active"} => inst'[j].node \in States(j)
    OBVIOUS
  <2>1. CASE j = i
    BY <2>1, TypeFacts
  <2>2. CASE j # i
    <3>1. inst'[j] = inst[j]
      BY <2>2, TypeFacts
    <3> QED BY <3>1, TypeFacts
  <2> QED BY <2>1, <2>2
<1>3. DOMAIN replayedVars' = Ids /\ \A j \in Ids : DOMAIN replayedVars'[j] \subseteq STRING
  BY TypeFacts
<1> QED BY <1>1, <1>2, <1>3, TypeKept, TypeFacts

LEMMA RegisterType == ASSUME TypeOK, NEW i \in Ids, Register(i) PROVE TypeOK'
<1>1. inst[i] \in Instances /\ file[i] \in Instances
  BY TypeFacts
<1>2. Started(inst[i]) \in Instances /\ Started(file[i]) \in Instances
  BY <1>1, StartedFields
<1>3. Started(inst[i]).node \in States(i)
  BY <1>1, StartedFields, TypeFacts DEF Register
<1> QED BY <1>2, <1>3, RecordsType, TypeFacts DEF Register

LEMMA CancelType == ASSUME TypeOK, NEW i \in Ids, Cancel(i) PROVE TypeOK'
<1>1. inst[i] \in Instances /\ file[i] \in Instances
  BY TypeFacts
<1>2. /\ Halted(inst[i], "canceled") \in Instances /\ Halted(file[i], "canceled") \in Instances
      /\ Halted(inst[i], "canceled").status = "halted"
  BY <1>1, HaltedFields
<1> QED BY <1>2, RecordsType, TypeFacts DEF Cancel

\* The turn of an instance, and handing over to the next one
LEMMA TurnType ==
  ASSUME TypeOK, NEW c \in Calls, NEW event \in Events \cup {NoEvent}, NEW todo \in SUBSET Ids,
         Turn(c, event, todo), events' \in 0 .. MaxEvents
  PROVE  TypeOK'
<1> PICK i \in todo :
      \/ /\ PassOver(i, event) \/ HaltRunaway(i)
         /\ calls' = [calls EXCEPT ![c] = Onward(event, todo \ {i})]
      \/ TakeTransition(c, event, todo, i)
  BY DEF Turn
<1>1. UNCHANGED <<serial, workflow, vars, replayedVars, last, log>>
  BY DEF Turn
<1>2. CASE calls' = [calls EXCEPT ![c] = Onward(event, todo \ {i})]
           /\ (PassOver(i, event) \/ HaltRunaway(i))
  <2>1. calls' \in [Calls -> CallRecords] /\ \A d \in Calls : CallOK(calls'[d], workflow)
    BY <1>2, OnwardOK, CallChanges
  <2>2. CASE UNCHANGED <<inst, file>>
    <3>1. \A j \in Ids : inst'[j].status \in {"none", "active"} => inst'[j].node \in States(j)
      BY <2>2, TypeFacts
    <3> QED BY <1>1, <2>1, <2>2, <3>1, TypeKept, TypeFacts
  <2>3. CASE HaltRunaway(i)
    <3>1. inst[i] \in Instances /\ file[i] \in Instances
      BY TypeFacts
    <3>2. /\ Halted(inst[i], "runaway") \in Instances /\ Halted(file[i], "runaway") \in Instances
          /\ Halted(inst[i], "runaway").status = "halted"
      BY <3>1, HaltedFields
    <3> QED BY <1>1, <2>1, <2>3, <3>2, RecordsType DEF HaltRunaway
  <2> QED BY <1>2, <2>2, <2>3 DEF PassOver
<1>3. CASE TakeTransition(c, event, todo, i)
  <2> PICK t \in Matching(i, event) :
        LET move == <<inst[i].node, t, Transitions(i)[t].next>>
        IN  /\ file' = [file EXCEPT ![i] = Journaled(@, move, inst[i].count + 1)]
            /\ calls' = [calls EXCEPT ![c] =
                 [at |-> "acting", event |-> event, todo |-> todo \ {i}, id |-> i,
                  stage |-> "transition", move |-> move, rest |-> Transitions(i)[t].actions,
                  ref |-> 0]]
    BY <1>3 DEF TakeTransition
  <2> DEFINE move == <<inst[i].node, t, Transitions(i)[t].next>>
             call == [at |-> "acting", event |-> event, todo |-> todo \ {i}, id |-> i,
                      stage |-> "transition", move |-> move, rest |-> Transitions(i)[t].actions,
                      ref |-> 0]
  <2>1. inst[i].status = "active" /\ inst[i] \in Instances /\ file[i] \in Instances
    BY <1>3, TypeFacts DEF TakeTransition, Active
  <2>2. inst[i].node \in States(i) /\ workflow[i] \in DOMAIN Workflows
    BY <2>1, TypeFacts
  <2>3. t \in DOMAIN Transitions(i)
    BY Zenon DEF Matching
  <2>4. /\ inst[i].node \in Nodes /\ t \in Nat /\ Transitions(i)[t].next \in Nodes
        /\ Transitions(i)[t].next \in States(i) \cup {"TERMINAL"}
        /\ Transitions(i)[t].actions \in Seq(Actions)
    BY Zenon, <2>2, <2>3, DefinitionFacts DEF Transitions, States, Def
  <2>5. move \in Moves /\ move[3] \in States(i) \cup {"TERMINAL"}
    BY <2>4 DEF Moves
  <2>6. /\ file' = [file EXCEPT ![i] = Journaled(file[i], move, inst[i].count + 1)]
        /\ calls' = [calls EXCEPT ![c] = call]
    OBVIOUS
  <2> HIDE DEF move
  <2>7. CallOK(call, workflow)
    BY <2>4, <2>5 DEF CallOK, CallRecords, States, Def
  <2> HIDE DEF call
  <2>8. calls' \in [Calls -> CallRecords] /\ \A d \in Calls : CallOK(calls'[d], workflow)
    BY <2>6, <2>7, CallChanges
  <2>0. inst[i].count \in Nat
    BY Zenon, <2>1 DEF Instances
  <2>10. inst[i].count + 1 \in Nat
    BY <2>0
  <2> DEFINE r == [inst[i] EXCEPT !.count = @ + 1]
             f == Journaled(file[i], move, inst[i].count + 1)
  <2>9. inst' = [inst EXCEPT ![i] = r] /\ file' = [file EXCEPT ![i] = f]
    <3>1. inst' = [inst EXCEPT ![i].count = @ + 1]
      BY <1>3 DEF TakeTransition
    <3>2. inst' = [inst EXCEPT ![i] = r]
      BY <3>1
    <3>3. file' = [file EXCEPT ![i] = f]
      BY <2>6
    <3> QED BY <3>2, <3>3
  <2>11. r \in Instances /\ f \in Instances
    BY Zenon, <2>1, <2>5, <2>10, JournaledFields DEF Instances
  <2>12. r.node = inst[i].node
    BY Zenon, <2>1 DEF Instances
  <2> HIDE DEF r, f
  <2> QED BY <1>1, <2>2, <2>8, <2>9, <2>11, <2>12, RecordsType
<1> QED BY <1>2, <1>3

\* The end of a transition
LEMMA EndType ==
  ASSUME TypeOK, NEW c \in Calls, Terminate(c) \/ Advance(c) \/ EntryDone(c) PROVE TypeOK'
<1> DEFINE i == calls[c].id
           move == calls[c].move
           onward == Onward(calls[c].event, calls[c].todo)
<1>1. /\ CallOK(calls[c], workflow) /\ calls[c].at = "acting" /\ i \in Ids
      /\ move \in Moves /\ move[3] \in States(i) \cup {"TERMINAL"}
      /\ calls[c].event \in Events \cup {NoEvent} /\ calls[c].todo \in SUBSET Ids
  BY TypeFacts DEF Terminate, Advance, EntryDone, Acted, CallOK, CallRecords, States, Def
<1>2. UNCHANGED <<serial, workflow, vars, replayedVars, last, log, events>>
  BY DEF Terminate, Advance, EntryDone
<1>3. inst[i] \in Instances /\ file[i] \in Instances
  BY <1>1, TypeFacts
<1>4. /\ Entered(inst[i], move) \in Instances /\ Entered(inst[i], move).node = move[3]
      /\ \A r \in Instances : /\ Halted(r, "runaway") \in Instances
                              /\ Halted(r, "runaway").status = "halted"
  BY <1>1, <1>3, EnteredFields, HaltedFields
<1>5. CallOK(onward, workflow)
  BY <1>1, OnwardOK
<1> HIDE DEF onward
<1>6. calls' = [calls EXCEPT ![c] = onward] =>
        calls' \in [Calls -> CallRecords] /\ \A d \in Calls : CallOK(calls'[d], workflow)
  BY <1>5, CallChanges
<1>7. CASE Terminate(c)
  <2> DEFINE r == [Entered(inst[i], move) EXCEPT !.status = "terminal"]
             f == [file[i] EXCEPT !.status = "terminal"]
  <2>1. inst' = [inst EXCEPT ![i] = r] /\ calls' = [calls EXCEPT ![c] = onward]
    BY <1>7 DEF Terminate, Acted, onward
  <2>2. file' = [file EXCEPT ![i] = f]
    BY <1>7 DEF Terminate, Acted
  <2>3. r \in Instances /\ r.status = "terminal"
    BY Zenon, <1>4 DEF Instances
  <2>4. f \in Instances
    BY Zenon, <1>3 DEF Instances
  <2> HIDE DEF r, f, i
  <2> QED BY <1>1, <1>2, <1>6, <2>1, <2>2, <2>3, <2>4, RecordsType, TypeFacts
<1>8. CASE Advance(c) /\ Entry(i, move[3]) # <<>>
  <2> DEFINE call == [calls[c] EXCEPT !.stage = "entry", !.rest = Entry(i, move[3])]
  <2>1. move[3] # "TERMINAL" /\ move[3] \in States(i)
    BY <1>1, <1>8 DEF Advance
  <2>2. Entry(i, move[3]) \in Seq(Actions)
    <3>1. workflow[i] \in DOMAIN Workflows
      BY <1>1, TypeFacts
    <3> QED BY Zenon, <2>1, <3>1, DefinitionFacts DEF Entry, States, Def
  <2>3. CallOK(call, workflow)
    BY <1>1, <2>2 DEF CallOK, CallRecords
  <2>4. /\ inst' = [inst EXCEPT ![i] = Entered(inst[i], move)] /\ UNCHANGED file
        /\ calls' = [calls EXCEPT ![c].stage = "entry", ![c].rest = Entry(i, move[3])]
    BY <1>8 DEF Advance, Acted
  <2>5. calls' = [calls EXCEPT ![c] = call]
    BY <2>4
  <2> HIDE DEF call
  <2>6. calls' \in [Calls -> CallRecords] /\ \A d \in Calls : CallOK(calls'[d], workflow)
    BY <2>3, <2>5, CallChanges
  <2>7. file' = [file EXCEPT ![i] = file[i]]
    BY <2>4, TypeFacts
  <2> HIDE DEF i, move
  <2> QED BY Zenon, <1>1, <1>2, <1>3, <1>4, <2>1, <2>4, <2>6, <2>7, RecordsType, TypeFacts
<1>9. ASSUME NEW entered \in Instances, entered.status \in {"none", "active"} => entered.node \in States(i),
             inst' = [inst EXCEPT ![i] = CapReached(entered, i)],
             file' = [file EXCEPT ![i] = IF Runaway(i) THEN Halted(@, "runaway") ELSE @],
             calls' = [calls EXCEPT ![c] = onward]
      PROVE  TypeOK'
  <2> DEFINE r == CapReached(entered, i)
             f == IF Runaway(i) THEN Halted(file[i], "runaway") ELSE file[i]
  <2>1. r \in Instances /\ (r.status \in {"none", "active"} => r.node \in States(i))
    BY <1>4, <1>9 DEF CapReached
  <2>2. f \in Instances
    BY <1>3, <1>4
  <2>3. inst' = [inst EXCEPT ![i] = r] /\ file' = [file EXCEPT ![i] = f]
    BY <1>9
  <2>4. calls' \in [Calls -> CallRecords] /\ \A d \in Calls : CallOK(calls'[d], workflow)
    BY <1>6, <1>9
  <2>5. events' \in 0 .. MaxEvents /\ i \in Ids
    BY <1>1, <1>2, TypeFacts
  <2> HIDE DEF r, f, i
  <2> QED BY <1>2, <2>1, <2>2, <2>3, <2>4, <2>5, RecordsType
<1>10. CASE Advance(c) /\ Entry(i, move[3]) = <<>>
  <2>1. /\ inst' = [inst EXCEPT ![i] = CapReached(Entered(inst[i], move), i)]
        /\ file' = [file EXCEPT ![i] = IF Runaway(i) THEN Halted(@, "runaway") ELSE @]
        /\ calls' = [calls EXCEPT ![c] = onward] /\ move[3] # "TERMINAL"
    BY <1>10 DEF Advance, Acted, onward
  <2> HIDE DEF i, move
  <2> QED BY <1>1, <1>4, <1>9, <2>1
<1>11. CASE EntryDone(c)
  <2>1. /\ inst' = [inst EXCEPT ![i] = CapReached(inst[i], i)]
        /\ file' = [file EXCEPT ![i] = IF Runaway(i) THEN Halted(@, "runaway") ELSE @]
        /\ calls' = [calls EXCEPT ![c] = onward]
    BY <1>11 DEF EntryDone, Acted, onward
  <2>2. inst[i].status \in {"none", "active"} => inst[i].node \in States(i)
    BY <1>1, TypeFacts
  <2> HIDE DEF i, move
  <2> QED BY <1>3, <1>9, <2>1, <2>2
<1> QED BY Zenon, <1>7, <1>8, <1>10, <1>11

\* Every step keeps the type invariant.
LEMMA TypeStep == ASSUME TypeOK, [Next]_state PROVE TypeOK'
<1>1. CASE UNCHANGED state
  BY <1>1 DEF state, TypeOK, States, Def
<1>2. ASSUME NEW i \in Ids, Register(i) \/ Cancel(i) PROVE TypeOK'
  BY <1>2, RegisterType, CancelType
<1>3. ASSUME NEW c \in Calls, Proceed(c) PROVE TypeOK'
  <2>1. CASE NextTurn(c)
    <3>1. CallOK(calls[c], workflow) /\ calls[c].at = "turn"
      BY <2>1, TypeFacts DEF NextTurn
    <3>2. calls[c].event \in Events \cup {NoEvent} /\ calls[c].todo \in SUBSET Ids
      BY <3>1 DEF CallOK, CallRecords
    <3>3. Turn(c, calls[c].event, calls[c].todo) /\ events' \in 0 .. MaxEvents
      BY <2>1, TypeFacts DEF NextTurn
    <3> QED BY <3>2, <3>3, TurnType
  <2> QED BY <1>3, <2>1, ActionType, EndType DEF Proceed
<1>4. ASSUME NEW c \in Calls, NEW event \in Events, HandleEvent(c, event) PROVE TypeOK'
  <2> DEFINE active == {i \in Ids : Active(i)}
  <2>1. Turn(c, event, active) /\ events < MaxEvents /\ events' = events + 1
    BY <1>4 DEF HandleEvent
  <2>2. events' \in 0 .. MaxEvents
    BY <2>1, TypeFacts, WorkflowAssumption
  <2>3. active \in SUBSET Ids
    OBVIOUS
  <2> HIDE DEF active
  <2> QED BY <2>1, <2>2, <2>3, TurnType
<1> QED BY <1>1, <1>2, <1>3, <1>4 DEF Next

\* The type invariant of the engine (TypeOK) holds for every set of instances,
\* definitions and events.
THEOREM TypeCorrect == Spec => []TypeOK
<1>1. TypeOK /\ [Next]_state => TypeOK'
  BY TypeStep
<1> QED BY <1>1, InitType, PTL DEF Spec

-----------------------------------------------------------------------------
(* The inductive invariant.                                                *)

\* A call that executes the actions of an instance
Busy(call) == call.at \in {"acting", "waiting"}

\* A call that has not entered the next state yet
Moving(call) == Busy(call) /\ call.stage = "transition"

\* The journal has the status and the count that the engine has.
Agreement ==
  \A i \in Ids :
    /\ file[i].status = inst[i].status /\ file[i].reason = inst[i].reason
    /\ file[i].count = inst[i].count
    /\ inst[i].count <= Def(i).max
    /\ inst[i].status = "none" => inst[i].count = 0

WorkSound ==
  \A c \in Calls : Busy(calls[c]) => inst[calls[c].id].status # "none" /\ inst[calls[c].id].count > 0

OneCall ==
  serial => \A c, d \in Calls : calls[c].at # "idle" /\ calls[d].at # "idle" => c = d

\* The journal is ahead of an instance by the transition that is under way.
InStep ==
  serial =>
    /\ \A c \in Calls :
         Moving(calls[c]) =>
           /\ file[calls[c].id].node = calls[c].move[3]
           /\ file[calls[c].id].history = Append(inst[calls[c].id].history, calls[c].move)
    /\ \A i \in Ids :
         (\A c \in Calls : Moving(calls[c]) => calls[c].id # i) =>
           file[i].node = inst[i].node /\ file[i].history = inst[i].history

Records == Agreement /\ WorkSound /\ CapEndsInstance /\ InStep

IInv == TypeOK /\ Records /\ OneCall

\* An instance for which no set_var has been executed
NothingSet(i) == \A k \in DOMAIN log[i] : log[i][k].type # "set_var"

\* The vars on file are those in memory until a set_var is executed.
VarsKnown == \A i \in Ids : NothingSet(i) => replayedVars[i] = vars[i]

LEMMA InitInv == Init => IInv
<1> SUFFICES ASSUME Init PROVE IInv
  OBVIOUS
<1>1. TypeOK
  BY InitType
<1>2. \A c \in Calls : calls[c].at = "idle"
  BY DEF Init, Idle, Between
<1>3. \A i \in Ids : inst[i].status = "none" /\ inst[i].count = 0 /\ file[i] = inst[i]
  BY Zenon DEF Init, Unregistered
<1>4. \A i \in Ids : Def(i).max \in Nat
  BY WorkflowAssumption, <1>1, TypeFacts DEF Def
<1>5. Agreement
  BY <1>3, <1>4 DEF Agreement
<1>6. CapEndsInstance
  BY <1>3 DEF CapEndsInstance, Active
<1>7. WorkSound /\ InStep /\ OneCall
  BY <1>2, <1>3 DEF WorkSound, InStep, OneCall, Busy, Moving
<1> QED BY <1>1, <1>5, <1>6, <1>7 DEF IInv, Records

\* Two records of a call that work on the same
SameWork(call, next) ==
  /\ Busy(call) <=> Busy(next)
  /\ Busy(call) => next.id = call.id /\ next.stage = call.stage /\ next.move = call.move

\* Steps that leave the records alone, but for the status of an instance
LEMMA RecordsKept ==
  ASSUME IInv, UNCHANGED <<serial, workflow, inst, file>>,
         \A d \in Calls : SameWork(calls[d], calls'[d])
  PROVE  Records'
<1>1. Agreement'
  BY DEF IInv, Records, Agreement, Def
<1>2. WorkSound'
  BY DEF IInv, Records, WorkSound, SameWork
<1>3. CapEndsInstance'
  BY DEF IInv, Records, CapEndsInstance, Active, Def, SameWork, Busy
<1>4. InStep'
  BY ZenonT(60) DEF IInv, Records, InStep, SameWork, Moving
<1> QED BY <1>1, <1>2, <1>3, <1>4 DEF Records

LEMMA StatusChanged ==
  ASSUME IInv, UNCHANGED <<serial, workflow>>, NEW i \in Ids,
         NEW r, NEW f, inst' = [inst EXCEPT ![i] = r], file' = [file EXCEPT ![i] = f],
         f.status = r.status, f.reason = r.reason,
         r.node = inst[i].node, r.count = inst[i].count, r.history = inst[i].history,
         f.node = file[i].node, f.count = file[i].count, f.history = file[i].history,
         r.status # "none", r.status = "active" => inst[i].status = "none",
         \A d \in Calls : SameWork(calls[d], calls'[d])
  PROVE  Records'
<1>1. /\ \A j \in Ids : inst'[j] = IF j = i THEN r ELSE inst[j]
      /\ \A j \in Ids : file'[j] = IF j = i THEN f ELSE file[j]
  BY TypeFacts DEF IInv
<1>2. Agreement'
  BY <1>1 DEF IInv, Records, Agreement, Def
<1>3. WorkSound'
  <2> SUFFICES ASSUME NEW c \in Calls, Busy(calls'[c])
               PROVE  inst'[calls'[c].id].status # "none" /\ inst'[calls'[c].id].count > 0
    BY DEF WorkSound
  <2>1. Busy(calls[c]) /\ calls'[c].id = calls[c].id
    BY DEF SameWork
  <2>2. calls[c].id \in Ids
    BY <2>1, TypeFacts DEF IInv, CallOK, Busy
  <2> QED BY <1>1, <2>1, <2>2 DEF IInv, Records, WorkSound
<1>4. CapEndsInstance'
  <2> SUFFICES ASSUME NEW j \in Ids, inst'[j].status = "active", inst'[j].count >= Def(j).max
               PROVE  \E c \in Calls : Busy(calls'[c]) /\ calls'[c].id = j
    BY DEF CapEndsInstance, Active, Def, Busy
  <2>1. CASE j = i
    <3>1. inst[i].count = 0 /\ inst[i].count >= Def(i).max
      BY <1>1, <2>1 DEF IInv, Records, Agreement
    <3>2. Def(i).max \in Nat \ {0}
      BY WorkflowAssumption, TypeFacts DEF Def, IInv
    <3> QED BY <3>1, <3>2
  <2>2. CASE j # i
    <3>1. \E c \in Calls : Busy(calls[c]) /\ calls[c].id = j
      BY SMTT(30), <1>1, <2>2 DEF IInv, Records, CapEndsInstance, Active, Busy
    <3> QED BY <3>1 DEF SameWork
  <2> QED BY <2>1, <2>2
<1>5. InStep'
  <2> SUFFICES ASSUME serial
               PROVE  InStep'
    BY Zenon DEF InStep
  <2>1. ASSUME NEW c \in Calls, Moving(calls'[c])
        PROVE  /\ file'[calls'[c].id].node = calls'[c].move[3]
               /\ file'[calls'[c].id].history = Append(inst'[calls'[c].id].history, calls'[c].move)
    <3>1. /\ Moving(calls[c]) /\ calls'[c].id = calls[c].id /\ calls'[c].move = calls[c].move
      BY <2>1 DEF SameWork, Moving
    <3>2. calls[c].id \in Ids
      BY Zenon, <3>1, TypeFacts DEF IInv, CallOK, Busy, Moving
    <3>3. /\ file[calls[c].id].node = calls[c].move[3]
          /\ file[calls[c].id].history = Append(inst[calls[c].id].history, calls[c].move)
      BY Zenon, <3>1 DEF IInv, Records, InStep
    <3>4. /\ file'[calls[c].id].node = file[calls[c].id].node
          /\ file'[calls[c].id].history = file[calls[c].id].history
          /\ inst'[calls[c].id].history = inst[calls[c].id].history
      BY <1>1, <3>2
    <3> QED BY Zenon, <3>1, <3>3, <3>4
  <2>2. ASSUME NEW j \in Ids, \A c \in Calls : Moving(calls'[c]) => calls'[c].id # j
        PROVE  file'[j].node = inst'[j].node /\ file'[j].history = inst'[j].history
    <3>1. \A c \in Calls : Moving(calls[c]) => calls[c].id # j
      BY <2>2 DEF SameWork, Moving
    <3> QED BY <1>1, <3>1 DEF IInv, Records, InStep
  <2> QED BY Zenon, <2>1, <2>2 DEF InStep
<1> QED BY <1>2, <1>3, <1>4, <1>5 DEF Records

\* The steps that leave the work of the calls as it is
LEMMA QuietSteps ==
  ASSUME IInv, NEW c \in Calls,
         NothingToCancel(c) \/ SetsVar(c) \/ CallBack(c) \/ CallbackResolves(c) \/ CallbackRejects(c)
  PROVE  Records'
<1>1. UNCHANGED <<serial, workflow, inst, file>>
  BY DEF NothingToCancel, SetsVar, CallBack, CallbackResolves, CallbackRejects
<1>2. \A d \in Calls : SameWork(calls[d], calls'[d])
  <2>1. calls[c].at \in {"acting", "waiting"} /\ calls[c] \in CallRecords
    BY TypeFacts DEF IInv, NothingToCancel, SetsVar, CallBack, CallbackResolves, CallbackRejects, Acting
  <2>2. CASE Settled(c)
    <3>1. \A d \in Calls : d # c => calls'[d] = calls[d]
      BY <2>2, TypeFacts DEF IInv, Settled
    <3>2. calls'[c] = [calls[c] EXCEPT !.at = "acting", !.rest = Tail(@), !.ref = 0]
      BY <2>2, TypeFacts DEF IInv, Settled
    <3>3. SameWork(calls[c], calls'[c])
      BY Zenon, <2>1, <3>2 DEF SameWork, Busy, CallRecords
    <3> QED BY <3>1, <3>3 DEF SameWork
  <2>3. CASE CallBack(c)
    <3>0. PICK ref : calls' = [calls EXCEPT ![c].at = "waiting", ![c].ref = ref]
      BY <2>3 DEF CallBack
    <3>1. \A d \in Calls : d # c => calls'[d] = calls[d]
      BY <3>0, TypeFacts DEF IInv
    <3>2. calls'[c] = [calls[c] EXCEPT !.at = "waiting", !.ref = ref]
      BY <3>0, TypeFacts DEF IInv
    <3>3. SameWork(calls[c], calls'[c])
      BY <2>1, <3>2 DEF SameWork, Busy, CallRecords
    <3> QED BY <3>1, <3>3 DEF SameWork
  <2> QED BY <2>2, <2>3 DEF NothingToCancel, SetsVar, CallbackResolves, CallbackRejects
<1> QED BY Zenon, <1>1, <1>2, RecordsKept

LEMMA RegisterRecords == ASSUME IInv, NEW i \in Ids, Register(i) PROVE Records'
<1>1. inst[i] \in Instances /\ file[i] \in Instances
  BY TypeFacts DEF IInv
<1>2. \A d \in Calls : SameWork(calls[d], calls'[d])
  BY DEF Register, SameWork
<1>3. inst[i].reason = file[i].reason /\ inst[i].status = "none"
  BY DEF Register, IInv, Records, Agreement
<1>4. /\ inst' = [inst EXCEPT ![i] = Started(inst[i])] /\ file' = [file EXCEPT ![i] = Started(file[i])]
      /\ UNCHANGED <<serial, workflow>>
  BY DEF Register
<1>5. /\ Started(inst[i]).status = "active" /\ Started(inst[i]).reason = inst[i].reason
      /\ Started(inst[i]).node = inst[i].node /\ Started(inst[i]).count = inst[i].count
      /\ Started(inst[i]).history = inst[i].history
  BY <1>1, StartedFields
<1>6. /\ Started(file[i]).status = "active" /\ Started(file[i]).reason = file[i].reason
      /\ Started(file[i]).node = file[i].node /\ Started(file[i]).count = file[i].count
      /\ Started(file[i]).history = file[i].history
  BY <1>1, StartedFields
<1> QED BY <1>2, <1>3, <1>4, <1>5, <1>6, StatusChanged

\* An instance halted, by the operator or before a turn
LEMMA HaltRecords ==
  ASSUME IInv, NEW i \in Ids, NEW why \in {"canceled", "runaway"}, UNCHANGED <<serial, workflow>>,
         inst' = [inst EXCEPT ![i] = Halted(@, why)], file' = [file EXCEPT ![i] = Halted(@, why)],
         \A d \in Calls : SameWork(calls[d], calls'[d])
  PROVE  Records'
<1>1. inst[i] \in Instances /\ file[i] \in Instances
  BY TypeFacts DEF IInv
<1>2. /\ Halted(inst[i], why).status = "halted" /\ Halted(inst[i], why).reason = why
      /\ Halted(inst[i], why).node = inst[i].node /\ Halted(inst[i], why).count = inst[i].count
      /\ Halted(inst[i], why).history = inst[i].history
  BY <1>1, HaltedFields
<1>3. /\ Halted(file[i], why).status = "halted" /\ Halted(file[i], why).reason = why
      /\ Halted(file[i], why).node = file[i].node /\ Halted(file[i], why).count = file[i].count
      /\ Halted(file[i], why).history = file[i].history
  BY <1>1, HaltedFields
<1> QED BY <1>2, <1>3, StatusChanged

\* A transition taken: what it comes from
LEMMA TakeFacts ==
  ASSUME IInv, NEW c \in Calls, NEW event, NEW todo \in SUBSET Ids, NEW i \in todo,
         TakeTransition(c, event, todo, i)
  PROVE  /\ inst[i].status = "active" /\ inst[i].count < Def(i).max
         /\ inst[i].node \in States(i)
<1>1. inst[i].status = "active" /\ ~ Runaway(i)
  BY DEF TakeTransition, Active
<1>2. /\ inst[i] \in Instances /\ workflow[i] \in DOMAIN Workflows /\ inst[i].node \in States(i)
  BY <1>1, TypeFacts DEF IInv
<1>3. inst[i].count \in Nat /\ Def(i).max \in Nat
  BY Zenon, <1>2, WorkflowAssumption DEF Instances, Def
<1>4. inst[i].count < Def(i).max
  BY <1>1, <1>3 DEF Runaway
<1> QED BY <1>1, <1>2, <1>4

\* A transition taken: where it leads to
TakesMove(c, event, todo, i, move) ==
  /\ move[3] \in {Transitions(i)[t].next : t \in DOMAIN Transitions(i)}
  /\ move[3] \in States(i) \cup {"TERMINAL"}
  /\ file' = [file EXCEPT ![i] = Journaled(file[i], move, inst[i].count + 1)]
  /\ \E actions :
       calls' = [calls EXCEPT ![c] =
         [at |-> "acting", event |-> event, todo |-> todo \ {i}, id |-> i,
          stage |-> "transition", move |-> move, rest |-> actions, ref |-> 0]]

LEMMA TakeMove ==
  ASSUME IInv, NEW c \in Calls, NEW event, NEW todo \in SUBSET Ids, NEW i \in todo,
         TakeTransition(c, event, todo, i)
  PROVE  \E move \in Moves : TakesMove(c, event, todo, i, move)
<1>1. inst[i].node \in States(i) /\ workflow[i] \in DOMAIN Workflows
  BY TakeFacts, TypeFacts DEF IInv
<1> PICK t \in Matching(i, event) :
      LET move == <<inst[i].node, t, Transitions(i)[t].next>>
      IN  /\ file' = [file EXCEPT ![i] = Journaled(@, move, inst[i].count + 1)]
          /\ calls' = [calls EXCEPT ![c] =
               [at |-> "acting", event |-> event, todo |-> todo \ {i}, id |-> i,
                stage |-> "transition", move |-> move, rest |-> Transitions(i)[t].actions,
                ref |-> 0]]
  BY DEF TakeTransition
<1> DEFINE move == <<inst[i].node, t, Transitions(i)[t].next>>
           actions == Transitions(i)[t].actions
<1>2. t \in DOMAIN Transitions(i)
  BY DEF Matching
<1>3. /\ inst[i].node \in Nodes /\ t \in Nat /\ Transitions(i)[t].next \in Nodes
      /\ Transitions(i)[t].next \in States(i) \cup {"TERMINAL"}
  BY Zenon, <1>1, <1>2, DefinitionFacts DEF Transitions, States, Def
<1>4. move \in Moves /\ move[3] = Transitions(i)[t].next
  BY <1>3 DEF Moves
<1>5. /\ file' = [file EXCEPT ![i] = Journaled(file[i], move, inst[i].count + 1)]
      /\ calls' = [calls EXCEPT ![c] =
           [at |-> "acting", event |-> event, todo |-> todo \ {i}, id |-> i,
            stage |-> "transition", move |-> move, rest |-> actions, ref |-> 0]]
  OBVIOUS
<1> HIDE DEF move, actions
<1>6. TakesMove(c, event, todo, i, move)
  BY <1>2, <1>3, <1>4, <1>5 DEF TakesMove
<1> QED BY <1>4, <1>6

LEMMA TakeRecords ==
  ASSUME IInv, NEW c \in Calls, NEW event \in Events \cup {NoEvent}, NEW todo \in SUBSET Ids,
         NEW i \in todo, TakeTransition(c, event, todo, i), UNCHANGED <<serial, workflow>>,
         ~ Busy(calls[c]), serial => \A d \in Calls : d # c => calls[d].at = "idle"
  PROVE  Records'
<1>1. /\ inst[i].status = "active" /\ inst[i].count < Def(i).max /\ i \in Ids
  BY TakeFacts
<1>0. inst' = [inst EXCEPT ![i].count = @ + 1]
  BY DEF TakeTransition
<1> PICK move \in Moves : TakesMove(c, event, todo, i, move)
  BY TakeMove
<1> PICK actions :
       calls' = [calls EXCEPT ![c] =
         [at |-> "acting", event |-> event, todo |-> todo \ {i}, id |-> i,
          stage |-> "transition", move |-> move, rest |-> actions, ref |-> 0]]
  BY DEF TakesMove
<1>2. inst[i] \in Instances /\ file[i] \in Instances /\ inst[i].count \in Nat /\ Def(i).max \in Nat
  BY Zenon, TypeFacts, WorkflowAssumption DEF IInv, Instances, Def
<1>3. /\ file'[i].status = file[i].status /\ file'[i].reason = file[i].reason
      /\ file'[i].node = move[3] /\ file'[i].count = inst[i].count + 1
      /\ file'[i].history = Append(file[i].history, move)
  <2>1. file'[i] = Journaled(file[i], move, inst[i].count + 1)
    <3>1. file' = [file EXCEPT ![i] = Journaled(file[i], move, inst[i].count + 1)]
      BY DEF TakesMove
    <3>2. DOMAIN file = Ids
      BY TypeFacts DEF IInv
    <3> QED BY <1>1, <3>1, <3>2
  <2>2. inst[i].count + 1 \in Nat
    BY <1>2
  <2> DEFINE n == inst[i].count + 1
  <2>3. n \in Nat /\ file'[i] = Journaled(file[i], move, n)
    BY <2>1, <2>2
  <2> HIDE DEF n
  <2>4. /\ Journaled(file[i], move, n).status = file[i].status
        /\ Journaled(file[i], move, n).reason = file[i].reason
        /\ Journaled(file[i], move, n).node = move[3] /\ Journaled(file[i], move, n).count = n
        /\ Journaled(file[i], move, n).history = Append(file[i].history, move)
    BY ZenonT(60), <1>2, <2>3, JournaledFields
  <2> QED BY <2>3, <2>4 DEF n
<1>4. /\ inst'[i].status = "active" /\ inst'[i].reason = inst[i].reason
      /\ inst'[i].node = inst[i].node /\ inst'[i].count = inst[i].count + 1
      /\ inst'[i].history = inst[i].history
  <2>1. inst'[i] = [inst[i] EXCEPT !.count = inst[i].count + 1]
    BY <1>0, <1>1, TypeFacts DEF IInv
  <2> QED BY Zenon, <1>1, <1>2, <2>1 DEF Instances
<1>5. \A j \in Ids : j # i => inst'[j] = inst[j] /\ file'[j] = file[j]
  BY <1>0, TypeFacts DEF IInv, TakesMove
<1>6. /\ Busy(calls'[c]) /\ Moving(calls'[c]) /\ calls'[c].id = i /\ calls'[c].move = move
      /\ \A d \in Calls : d # c => calls'[d] = calls[d]
  BY TypeFacts DEF IInv, Busy, Moving
<1>7. Agreement'
  <2> SUFFICES ASSUME NEW j \in Ids
               PROVE  /\ file'[j].status = inst'[j].status /\ file'[j].reason = inst'[j].reason
                      /\ file'[j].count = inst'[j].count
                      /\ inst'[j].count <= Def(j).max
                      /\ inst'[j].status = "none" => inst'[j].count = 0
    BY DEF Agreement, Def
  <2>1. CASE j = i
    BY <1>1, <1>2, <1>3, <1>4, <2>1 DEF IInv, Records, Agreement
  <2>2. CASE j # i
    BY <1>5, <2>2 DEF IInv, Records, Agreement
  <2> QED BY <2>1, <2>2
<1>8. WorkSound'
  <2> SUFFICES ASSUME NEW d \in Calls, Busy(calls'[d])
               PROVE  inst'[calls'[d].id].status # "none" /\ inst'[calls'[d].id].count > 0
    BY DEF WorkSound
  <2>1. CASE d = c
    BY <1>2, <1>4, <1>6, <2>1
  <2>2. CASE d # c
    <3>1. Busy(calls[d]) /\ calls'[d] = calls[d] /\ calls[d].id \in Ids
      BY <1>6, <2>2, TypeFacts DEF IInv, CallOK, Busy
    <3>2. inst[calls[d].id].status # "none" /\ inst[calls[d].id].count > 0
      BY <3>1 DEF IInv, Records, WorkSound
    <3> QED BY <1>2, <1>4, <1>5, <3>1, <3>2
  <2> QED BY <2>1, <2>2
<1>9. CapEndsInstance'
  <2> SUFFICES ASSUME NEW j \in Ids, inst'[j].status = "active", inst'[j].count >= Def(j).max
               PROVE  \E d \in Calls : Busy(calls'[d]) /\ calls'[d].id = j
    BY DEF CapEndsInstance, Active, Def, Busy
  <2>1. CASE j = i
    BY <1>6, <2>1
  <2>2. CASE j # i
    <3>1. PICK d \in Calls : Busy(calls[d]) /\ calls[d].id = j
      BY Zenon, <1>5, <2>2 DEF IInv, Records, CapEndsInstance, Active, Busy
    <3> QED BY <1>6, <3>1
  <2> QED BY <2>1, <2>2
<1>10. InStep'
  <2> SUFFICES ASSUME serial PROVE InStep'
    BY DEF InStep
  <2>1. \A d \in Calls : ~ Moving(calls[d]) /\ (Moving(calls'[d]) => d = c)
    BY <1>6 DEF Moving, Busy
  <2>2. \A j \in Ids : file[j].node = inst[j].node /\ file[j].history = inst[j].history
    BY <2>1 DEF IInv, Records, InStep
  <2>3. file'[i].history = Append(inst'[i].history, move)
    BY Zenon, <1>1, <1>3, <1>4, <2>2
  <2>4. \A d \in Calls : Moving(calls'[d]) =>
           /\ file'[calls'[d].id].node = calls'[d].move[3]
           /\ file'[calls'[d].id].history = Append(inst'[calls'[d].id].history, calls'[d].move)
    BY <1>3, <1>6, <2>1, <2>3
  <2>5. \A j \in Ids : (\A d \in Calls : Moving(calls'[d]) => calls'[d].id # j) =>
           file'[j].node = inst'[j].node /\ file'[j].history = inst'[j].history
    BY ZenonT(60), <1>5, <1>6, <2>2
  <2> QED BY <2>4, <2>5 DEF InStep
<1> QED BY <1>7, <1>8, <1>9, <1>10 DEF Records

\* A turn, whatever comes of it
LEMMA TurnRecords ==
  ASSUME IInv, NEW c \in Calls, NEW event \in Events \cup {NoEvent}, NEW todo \in SUBSET Ids,
         Turn(c, event, todo),
         ~ Busy(calls[c]), serial => \A d \in Calls : d # c => calls[d].at = "idle"
  PROVE  Records'
<1> PICK i \in todo :
      \/ /\ PassOver(i, event) \/ HaltRunaway(i)
         /\ calls' = [calls EXCEPT ![c] = Onward(event, todo \ {i})]
      \/ TakeTransition(c, event, todo, i)
  BY DEF Turn
<1>1. UNCHANGED <<serial, workflow>>
  BY DEF Turn
<1>2. CASE calls' = [calls EXCEPT ![c] = Onward(event, todo \ {i})]
  <2>1. ~ Busy(Onward(event, todo \ {i}))
    BY OnwardOK DEF Busy
  <2>2. \A d \in Calls : SameWork(calls[d], calls'[d])
    BY <1>2, <2>1, TypeFacts DEF IInv, SameWork
  <2>3. CASE HaltRunaway(i)
    BY <1>1, <2>2, <2>3, HaltRecords DEF HaltRunaway
  <2>4. CASE UNCHANGED <<inst, file>>
    BY <1>1, <2>2, <2>4, RecordsKept
  <2>5. CASE TakeTransition(c, event, todo, i)
    BY <1>1, <2>5, TakeRecords
  <2> QED BY <2>3, <2>4, <2>5 DEF PassOver
<1>3. CASE TakeTransition(c, event, todo, i)
  BY <1>1, <1>3, TakeRecords
<1> QED BY <1>2, <1>3

\* The end of a transition
LEMMA EndRecords ==
  ASSUME IInv, NEW c \in Calls, Terminate(c) \/ Advance(c) \/ EntryDone(c)
  PROVE  Records'
<1> DEFINE i == calls[c].id
           move == calls[c].move
<1>1. /\ Busy(calls[c]) /\ i \in Ids /\ move \in Moves /\ move[3] \in States(i) \cup {"TERMINAL"}
      /\ calls[c].event \in Events \cup {NoEvent} /\ calls[c].todo \in SUBSET Ids
  BY TypeFacts DEF IInv, Terminate, Advance, EntryDone, Acted, CallOK, CallRecords, States, Def, Busy
<1>2. UNCHANGED <<serial, workflow>>
  BY DEF Terminate, Advance, EntryDone
<1>3. /\ inst[i] \in Instances /\ file[i] \in Instances
      /\ inst[i].count \in Nat /\ Def(i).max \in Nat
  BY Zenon, <1>1, TypeFacts, WorkflowAssumption DEF IInv, Instances, Def
<1>4. /\ file[i].status = inst[i].status /\ file[i].reason = inst[i].reason
      /\ file[i].count = inst[i].count /\ inst[i].count <= Def(i).max
      /\ inst[i].status # "none" /\ inst[i].count > 0
  BY <1>1 DEF IInv, Records, Agreement, WorkSound
<1>5. ASSUME NEW r, NEW f, inst' = [inst EXCEPT ![i] = r], file' = [file EXCEPT ![i] = f],
             r.status = f.status, r.reason = f.reason, r.count = inst[i].count,
             f.count = inst[i].count, r.status # "none",
             r.status = "active" /\ ~ Busy(calls'[c]) => r.count < Def(i).max,
             \A d \in Calls : d # c => calls'[d] = calls[d], Busy(calls'[c]) => calls'[c].id = i
      PROVE  Agreement' /\ WorkSound' /\ CapEndsInstance'
  <2> HIDE DEF i, move
  <2>1. /\ inst'[i] = r /\ file'[i] = f
        /\ \A j \in Ids : j # i => inst'[j] = inst[j] /\ file'[j] = file[j]
    BY <1>1, <1>5, TypeFacts DEF IInv
  <2>2. Agreement'
    <3> SUFFICES ASSUME NEW j \in Ids
                 PROVE  /\ file'[j].status = inst'[j].status /\ file'[j].reason = inst'[j].reason
                        /\ file'[j].count = inst'[j].count
                        /\ inst'[j].count <= Def(j).max
                        /\ inst'[j].status = "none" => inst'[j].count = 0
      BY <1>2 DEF Agreement, Def
    <3>1. CASE j = i
      BY <1>4, <1>5, <2>1, <3>1
    <3>2. CASE j # i
      BY <2>1, <3>2 DEF IInv, Records, Agreement
    <3> QED BY <3>1, <3>2
  <2>3. WorkSound'
    <3> SUFFICES ASSUME NEW d \in Calls, Busy(calls'[d])
                 PROVE  inst'[calls'[d].id].status # "none" /\ inst'[calls'[d].id].count > 0
      BY DEF WorkSound
    <3>1. CASE calls'[d].id = i
      BY <1>4, <1>5, <2>1, <3>1
    <3>2. CASE calls'[d].id # i
      <4>1. calls'[d] = calls[d]
        BY <1>5, <3>2
      <4>2. calls[d].id \in Ids
        BY <4>1, TypeFacts DEF IInv, CallOK, Busy
      <4> QED BY <2>1, <3>2, <4>1, <4>2 DEF IInv, Records, WorkSound
    <3> QED BY <3>1, <3>2
  <2>4. CapEndsInstance'
    <3> SUFFICES ASSUME NEW j \in Ids, inst'[j].status = "active", inst'[j].count >= Def(j).max
                 PROVE  \E d \in Calls : Busy(calls'[d]) /\ calls'[d].id = j
      BY <1>2 DEF CapEndsInstance, Active, Def, Busy
    <3>1. CASE j = i
      <4>1. ~ (inst[i].count < Def(i).max)
        BY <1>3, <1>5, <2>1, <3>1
      <4>2. Busy(calls'[c])
        BY <1>5, <2>1, <3>1, <4>1
      <4> QED BY <1>5, <3>1, <4>2
    <3>2. CASE j # i
      <4>1. PICK d \in Calls : Busy(calls[d]) /\ calls[d].id = j
        BY <2>1, <3>2 DEF IInv, Records, CapEndsInstance, Active, Busy
      <4>2. d # c
        BY Zenon, <3>2, <4>1 DEF i
      <4> QED BY <1>5, <4>1, <4>2
    <3> QED BY <3>1, <3>2
  <2> QED BY <2>2, <2>3, <2>4
<1>6. ASSUME NEW r, NEW f, inst' = [inst EXCEPT ![i] = r], file' = [file EXCEPT ![i] = f],
             \A d \in Calls : d # c => calls'[d] = calls[d], ~ Moving(calls'[c]),
             f.node = file[i].node, f.history = file[i].history,
             IF Moving(calls[c]) THEN r.node = move[3] /\ r.history = Append(inst[i].history, move)
             ELSE r.node = inst[i].node /\ r.history = inst[i].history
      PROVE  InStep'
  <2> SUFFICES ASSUME serial PROVE InStep'
    BY <1>2 DEF InStep
  <2>1. \A d \in Calls : d # c => ~ Moving(calls[d]) /\ ~ Moving(calls'[d])
    BY Zenon, <1>1, <1>6 DEF IInv, OneCall, Busy, Moving
  <2>2. Moving(calls[c]) => file[i].node = move[3] /\ file[i].history = Append(inst[i].history, move)
    BY DEF IInv, Records, InStep
  <2>3. \A j \in Ids : j # i \/ ~ Moving(calls[c]) =>
          file[j].node = inst[j].node /\ file[j].history = inst[j].history
    <3> SUFFICES ASSUME NEW j \in Ids, j # i \/ ~ Moving(calls[c])
                 PROVE  file[j].node = inst[j].node /\ file[j].history = inst[j].history
      OBVIOUS
    <3>1. \A d \in Calls : Moving(calls[d]) => calls[d].id # j
      BY <2>1
    <3> QED BY <3>1 DEF IInv, Records, InStep
  <2> HIDE DEF i, move
  <2>4. /\ inst'[i] = r /\ file'[i] = f
        /\ \A j \in Ids : j # i => inst'[j] = inst[j] /\ file'[j] = file[j]
    BY <1>1, <1>6, TypeFacts DEF IInv
  <2>5. file'[i].node = inst'[i].node /\ file'[i].history = inst'[i].history
    BY ZenonT(60), <1>1, <1>6, <2>2, <2>3, <2>4
  <2>6. \A j \in Ids : file'[j].node = inst'[j].node /\ file'[j].history = inst'[j].history
    BY <2>3, <2>4, <2>5
  <2> QED BY Zenon, <1>6, <2>1, <2>6 DEF InStep
<1>7. \A d \in Calls : d # c => calls'[d] = calls[d]
  BY TypeFacts DEF IInv, Terminate, Advance, EntryDone
<1>8. calls' = [calls EXCEPT ![c] = Onward(calls[c].event, calls[c].todo)] => ~ Busy(calls'[c])
  BY <1>1, OnwardOK, TypeFacts DEF IInv, Busy
<1>9. /\ Entered(inst[i], move) \in Instances
      /\ Entered(inst[i], move).status = inst[i].status /\ Entered(inst[i], move).reason = inst[i].reason
      /\ Entered(inst[i], move).node = move[3] /\ Entered(inst[i], move).count = inst[i].count
      /\ Entered(inst[i], move).history = Append(inst[i].history, move)
  BY <1>1, <1>3, EnteredFields
<1>10. CASE Terminate(c)
  <2> DEFINE r == [Entered(inst[i], move) EXCEPT !.status = "terminal"]
             f == [file[i] EXCEPT !.status = "terminal"]
  <2>1. /\ inst' = [inst EXCEPT ![i] = r] /\ Moving(calls[c])
        /\ calls' = [calls EXCEPT ![c] = Onward(calls[c].event, calls[c].todo)]
    BY <1>1, <1>10 DEF Terminate, Acted, Moving
  <2>2. file' = [file EXCEPT ![i] = f]
    BY Zenon, <1>10 DEF Terminate, Acted
  <2>3. /\ r.status = "terminal" /\ r.reason = inst[i].reason /\ r.count = inst[i].count
        /\ r.node = move[3] /\ r.history = Append(inst[i].history, move)
    <3>1. /\ r.status = "terminal" /\ r.reason = Entered(inst[i], move).reason
          /\ r.count = Entered(inst[i], move).count /\ r.node = Entered(inst[i], move).node
          /\ r.history = Entered(inst[i], move).history
      BY Zenon, <1>9 DEF Instances
    <3> HIDE DEF r
    <3> QED BY ZenonT(60), <1>9, <3>1
  <2>4. /\ f.status = "terminal" /\ f.reason = file[i].reason /\ f.count = file[i].count
        /\ f.node = file[i].node /\ f.history = file[i].history
    BY Zenon, <1>3 DEF Instances
  <2> HIDE DEF r, f, i, move
  <2>5. ~ Busy(calls'[c]) /\ ~ Moving(calls'[c])
    BY <1>8, <2>1 DEF Moving, i, move
  <2>6. Agreement' /\ WorkSound' /\ CapEndsInstance'
    BY <1>4, <1>5, <1>7, <2>1, <2>2, <2>3, <2>4, <2>5
  <2>7. InStep'
    BY <1>6, <1>7, <2>1, <2>2, <2>3, <2>4, <2>5
  <2> QED BY <2>6, <2>7 DEF Records
<1>11. CASE Advance(c) /\ Entry(i, move[3]) # <<>>
  <2>1. /\ inst' = [inst EXCEPT ![i] = Entered(inst[i], move)] /\ UNCHANGED file
        /\ calls' = [calls EXCEPT ![c].stage = "entry", ![c].rest = Entry(i, move[3])]
        /\ Moving(calls[c])
    BY <1>1, <1>11 DEF Advance, Acted, Moving
  <2>2. calls'[c] = [calls[c] EXCEPT !.stage = "entry", !.rest = Entry(i, move[3])]
    BY <2>1, TypeFacts DEF IInv
  <2>3. calls'[c].stage = "entry" /\ calls'[c].id = i
    BY <2>2, TypeFacts DEF IInv, CallRecords
  <2>4. Busy(calls'[c]) /\ ~ Moving(calls'[c])
    BY <1>1, <2>2, <2>3, TypeFacts DEF IInv, CallRecords, Busy, Moving
  <2>5. file' = [file EXCEPT ![i] = file[i]]
    BY Zenon, <2>1, TypeFacts DEF IInv
  <2> DEFINE r == Entered(inst[i], move)
  <2>8. /\ inst' = [inst EXCEPT ![i] = r]
        /\ r.status = file[i].status /\ r.reason = file[i].reason
        /\ r.count = inst[i].count /\ file[i].count = inst[i].count /\ r.status # "none"
        /\ r.node = move[3] /\ r.history = Append(inst[i].history, move)
    BY Zenon, <1>4, <1>9, <2>1
  <2> HIDE DEF r, i, move
  <2>6. Agreement' /\ WorkSound' /\ CapEndsInstance'
    BY <1>5, <1>7, <2>3, <2>4, <2>5, <2>8
  <2>7. InStep'
    BY Zenon, <1>6, <1>7, <2>1, <2>4, <2>5, <2>8
  <2> QED BY <2>6, <2>7 DEF Records
<1>12. ASSUME NEW e \in Instances, e.status = inst[i].status, e.reason = inst[i].reason,
              e.count = inst[i].count,
              IF Moving(calls[c]) THEN e.node = move[3] /\ e.history = Append(inst[i].history, move)
              ELSE e.node = inst[i].node /\ e.history = inst[i].history,
              inst' = [inst EXCEPT ![i] = CapReached(e, i)],
              file' = [file EXCEPT ![i] = IF Runaway(i) THEN Halted(@, "runaway") ELSE @],
              calls' = [calls EXCEPT ![c] = Onward(calls[c].event, calls[c].todo)]
       PROVE  Records'
  <2> DEFINE r == CapReached(e, i)
             f == IF Runaway(i) THEN Halted(file[i], "runaway") ELSE file[i]
  <2>1. inst' = [inst EXCEPT ![i] = r] /\ file' = [file EXCEPT ![i] = f]
    BY <1>12
  <2>2. r = IF Runaway(i) THEN Halted(e, "runaway") ELSE e
    BY <1>12 DEF CapReached, Runaway
  <2>3. /\ Halted(e, "runaway").status = "halted" /\ Halted(e, "runaway").reason = "runaway"
        /\ Halted(e, "runaway").node = e.node /\ Halted(e, "runaway").count = e.count
        /\ Halted(e, "runaway").history = e.history
    BY <1>12, HaltedFields
  <2>4. /\ Halted(file[i], "runaway").status = "halted" /\ Halted(file[i], "runaway").reason = "runaway"
        /\ Halted(file[i], "runaway").node = file[i].node /\ Halted(file[i], "runaway").count = file[i].count
        /\ Halted(file[i], "runaway").history = file[i].history
    BY Zenon, <1>3, HaltedFields
  <2> HIDE DEF r
  <2>5. /\ r.status = f.status /\ r.reason = f.reason /\ r.count = inst[i].count
        /\ f.count = inst[i].count /\ r.status # "none"
        /\ f.node = file[i].node /\ f.history = file[i].history
        /\ r.node = e.node /\ r.history = e.history
    BY Zenon, <1>4, <1>12, <2>2, <2>3, <2>4
  <2>6. r.status = "active" => r.count < Def(i).max
    BY <1>3, <1>4, <1>12, <2>2, <2>3 DEF Runaway
  <2>7. ~ Busy(calls'[c]) /\ ~ Moving(calls'[c])
    BY <1>8, <1>12 DEF Moving
  <2> HIDE DEF f, i, move
  <2>8. Agreement' /\ WorkSound' /\ CapEndsInstance'
    BY <1>5, <1>7, <2>1, <2>5, <2>6, <2>7
  <2>10. IF Moving(calls[c]) THEN r.node = move[3] /\ r.history = Append(inst[i].history, move)
         ELSE r.node = inst[i].node /\ r.history = inst[i].history
    BY <1>12, <2>5
  <2>11. f.node = file[i].node /\ f.history = file[i].history
    BY <2>5
  <2>9. InStep'
    BY <1>6, <1>7, <2>1, <2>7, <2>10, <2>11
  <2> QED BY <2>8, <2>9 DEF Records
<1>13. CASE Advance(c) /\ Entry(i, move[3]) = <<>>
  <2>1. /\ inst' = [inst EXCEPT ![i] = CapReached(Entered(inst[i], move), i)]
        /\ file' = [file EXCEPT ![i] = IF Runaway(i) THEN Halted(@, "runaway") ELSE @]
        /\ calls' = [calls EXCEPT ![c] = Onward(calls[c].event, calls[c].todo)]
        /\ Moving(calls[c])
    BY <1>1, <1>13 DEF Advance, Acted, Moving
  <2> HIDE DEF i, move
  <2> QED BY <1>9, <1>12, <2>1
<1>14. CASE EntryDone(c)
  <2>1. /\ inst' = [inst EXCEPT ![i] = CapReached(inst[i], i)]
        /\ file' = [file EXCEPT ![i] = IF Runaway(i) THEN Halted(@, "runaway") ELSE @]
        /\ calls' = [calls EXCEPT ![c] = Onward(calls[c].event, calls[c].todo)]
        /\ ~ Moving(calls[c])
    BY <1>14 DEF EntryDone, Acted, Moving
  <2> HIDE DEF i, move
  <2> QED BY <1>3, <1>12, <2>1
<1> QED BY Zenon, <1>10, <1>11, <1>13, <1>14

\* Only one call changes in a step, and with serial calls only it is under way.
LEMMA OneCallStep == ASSUME IInv, [Next]_state PROVE OneCall'
<1>1. CASE UNCHANGED <<serial, calls>>
  BY <1>1 DEF IInv, OneCall
<1>2. ASSUME NEW c \in Calls, UNCHANGED serial, \A d \in Calls : d # c => calls'[d] = calls[d],
             serial => \A d \in Calls : d # c => calls[d].at = "idle"
      PROVE  OneCall'
  BY <1>2 DEF OneCall
<1>3. ASSUME NEW c \in Calls, calls[c].at # "idle"
      PROVE  serial => \A d \in Calls : d # c => calls[d].at = "idle"
  BY <1>3 DEF IInv, OneCall
<1>4. ASSUME NEW c \in Calls, NEW event, NEW todo, Turn(c, event, todo)
      PROVE  UNCHANGED serial /\ \A d \in Calls : d # c => calls'[d] = calls[d]
  BY Zenon, <1>4, TypeFacts DEF IInv, Turn, TakeTransition
<1>5. ASSUME NEW c \in Calls, Proceed(c) PROVE OneCall'
  <2>1. calls[c].at # "idle"
    BY Zenon, <1>5 DEF Proceed, NextTurn, NothingToCancel, SetsVar, CallBack, CallbackResolves,
                CallbackRejects, Terminate, Advance, EntryDone, Acting, Acted
  <2>2. CASE NextTurn(c)
    BY <1>2, <1>3, <1>4, <2>1, <2>2 DEF NextTurn
  <2>3. CASE Terminate(c) \/ Advance(c) \/ EntryDone(c)
    <3>1. UNCHANGED serial /\ \A d \in Calls : d # c => calls'[d] = calls[d]
      BY ZenonT(60), <2>3, TypeFacts DEF IInv, Terminate, Advance, EntryDone
    <3> QED BY <1>2, <1>3, <2>1, <3>1
  <2>4. CASE NothingToCancel(c) \/ SetsVar(c) \/ CallBack(c) \/ CallbackResolves(c) \/ CallbackRejects(c)
    <3>1. UNCHANGED serial /\ \A d \in Calls : d # c => calls'[d] = calls[d]
      BY <2>4, TypeFacts DEF IInv, NothingToCancel, SetsVar, CallBack, CallbackResolves,
                             CallbackRejects, Settled
    <3> QED BY <1>2, <1>3, <2>1, <3>1
  <2> QED BY <1>5, <2>2, <2>3, <2>4 DEF Proceed
<1>6. ASSUME NEW c \in Calls, NEW event \in Events, HandleEvent(c, event) PROVE OneCall'
  <2>1. /\ Turn(c, event, {i \in Ids : Active(i)})
        /\ serial => \A d \in Calls : calls[d].at = "idle"
    BY <1>6 DEF HandleEvent
  <2> QED BY <1>2, <1>4, <2>1
<1>7. ASSUME NEW i \in Ids, Register(i) \/ Cancel(i) PROVE UNCHANGED <<serial, calls>>
  BY <1>7 DEF Register, Cancel
<1> QED BY <1>1, <1>5, <1>6, <1>7 DEF Next, state

LEMMA InvStep == IInv /\ [Next]_state => IInv'
<1> SUFFICES ASSUME IInv, [Next]_state PROVE IInv'
  OBVIOUS
<1>1. TypeOK' /\ OneCall'
  BY TypeStep, OneCallStep DEF IInv
<1>2. CASE UNCHANGED state
  <2>1. \A d \in Calls : SameWork(calls[d], calls'[d])
    BY <1>2 DEF SameWork, state
  <2> QED BY <1>1, <1>2, <2>1, RecordsKept DEF IInv, state
<1>3. ASSUME NEW i \in Ids, Register(i) PROVE Records'
  BY <1>3, RegisterRecords
<1>4. ASSUME NEW i \in Ids, Cancel(i) PROVE Records'
  <2>1. \A d \in Calls : SameWork(calls[d], calls'[d])
    BY <1>4 DEF SameWork, Cancel
  <2> QED BY <1>4, <2>1, HaltRecords DEF Cancel
<1>5. ASSUME NEW c \in Calls, calls[c].at # "idle"
      PROVE  serial => \A d \in Calls : d # c => calls[d].at = "idle"
  BY <1>5 DEF IInv, OneCall
<1>6. ASSUME NEW c \in Calls, NextTurn(c) PROVE Records'
  <2>1. /\ calls[c].at = "turn" /\ calls[c].event \in Events \cup {NoEvent}
        /\ calls[c].todo \in SUBSET Ids
    BY <1>6, TypeFacts DEF IInv, NextTurn, CallRecords
  <2>2. ~ Busy(calls[c]) /\ Turn(c, calls[c].event, calls[c].todo)
    BY <1>6, <2>1 DEF NextTurn, Busy
  <2>3. serial => \A d \in Calls : d # c => calls[d].at = "idle"
    BY <1>5, <2>1
  <2> QED BY <2>1, <2>2, <2>3, TurnRecords
<1>7. ASSUME NEW c \in Calls, NEW event \in Events, HandleEvent(c, event) PROVE Records'
  <2> DEFINE active == {i \in Ids : Active(i)}
  <2>1. /\ Turn(c, event, active) /\ calls[c].at = "idle"
        /\ serial => \A d \in Calls : d # c => calls[d].at = "idle"
    BY <1>7 DEF HandleEvent
  <2>2. ~ Busy(calls[c]) /\ active \in SUBSET Ids
    BY <2>1 DEF Busy
  <2> HIDE DEF active
  <2> QED BY <2>1, <2>2, TurnRecords
<1>8. ASSUME NEW c \in Calls, Proceed(c) PROVE Records'
  BY <1>6, <1>8, QuietSteps, EndRecords DEF Proceed
<1> QED BY <1>1, <1>2, <1>3, <1>4, <1>7, <1>8 DEF Next, IInv

\* The inductive invariant holds for every instance of the constants.
THEOREM Invariance == Spec => []IInv
<1> QED BY InitInv, InvStep, PTL DEF Spec

-----------------------------------------------------------------------------
(* What follows from it.                                                   *)

\* No instance makes more transitions than its definition allows (TransitionsBounded),
\* however the calls of handleEvent overlap and whatever definitions are registered.
THEOREM CapHolds == Spec => []TransitionsBounded
<1>1. IInv => TransitionsBounded
  BY DEF IInv, Records, Agreement, TransitionsBounded
<1> QED BY <1>1, Invariance, PTL

\* An instance at its cap is active only while a transition of it is under way
\* (CapEndsInstance).
THEOREM CapEnds == Spec => []CapEndsInstance
<1>1. IInv => CapEndsInstance
  BY DEF IInv, Records
<1> QED BY <1>1, Invariance, PTL

\* An action journaled adds its type to those of the log.
LEMMA LoggedType ==
  ASSUME NEW i \in Ids, NEW a, NEW ok, NEW ref, log \in [Ids -> Seq(LogLines)],
         a.type \in STRING, ok \in BOOLEAN, ref \in Nat, LogAction(i, a, ok, ref)
  PROVE  \A j \in Ids : NothingSet(j)' => NothingSet(j) /\ (j = i => a.type # "set_var")
<1> DEFINE line == [type |-> a.type, ok |-> ok, ref |-> ref]
<1> SUFFICES ASSUME NEW j \in Ids, NothingSet(j)'
             PROVE  NothingSet(j) /\ (j = i => a.type # "set_var")
  OBVIOUS
<1>1. log' = [log EXCEPT ![i] = Append(@, line)]
  BY DEF LogAction
<1>2. CASE j = i
  <2>1. log'[i] = Append(log[i], line) /\ log[i] \in Seq(LogLines) /\ line.type = a.type
    BY <1>1
  <2> HIDE DEF line
  <2>2. /\ Len(log[i]) + 1 \in DOMAIN log'[i] /\ log'[i][Len(log[i]) + 1] = line
        /\ \A k \in DOMAIN log[i] : k \in DOMAIN log'[i] /\ log'[i][k] = log[i][k]
    BY <2>1
  <2> QED BY Zenon, <1>2, <2>1, <2>2 DEF NothingSet
<1>3. CASE j # i
  <2>1. log'[j] = log[j]
    BY <1>1, <1>3
  <2> QED BY <1>3, <2>1 DEF NothingSet
<1> QED BY <1>2, <1>3

\* Every step keeps what is known of the vars on file.
LEMMA VarsStep == TypeOK /\ VarsKnown /\ [Next]_state => VarsKnown'
<1> SUFFICES ASSUME TypeOK, VarsKnown, [Next]_state PROVE VarsKnown'
  OBVIOUS
<1>1. CASE UNCHANGED <<vars, replayedVars, log>>
  BY <1>1 DEF VarsKnown, NothingSet
<1>2. ASSUME NEW i \in Ids, Register(i) PROVE VarsKnown'
  <2>1. UNCHANGED <<vars, log>> /\ replayedVars' = [replayedVars EXCEPT ![i] = vars[i]]
    BY <1>2 DEF Register
  <2>2. \A j \in Ids : replayedVars'[j] = IF j = i THEN vars[i] ELSE replayedVars[j]
    BY <2>1, TypeFacts
  <2> QED BY <2>1, <2>2 DEF VarsKnown, NothingSet
<1>3. ASSUME NEW c \in Calls,
             NothingToCancel(c) \/ SetsVar(c) \/ CallbackResolves(c) \/ CallbackRejects(c)
      PROVE  VarsKnown'
  <2> DEFINE a == Head(calls[c].rest)
  <2>1. CallOK(calls[c], workflow) /\ calls[c].rest # <<>> /\ calls[c].ref \in Nat
    BY Zenon, <1>3, TypeFacts DEF NothingToCancel, SetsVar, CallbackResolves, CallbackRejects, Acting,
                                  CallOK, CallRecords
  <2>2. a.type \in STRING
    BY <2>1, HeadIsAction
  <2>3. \A i \in Ids : Fresh(i) \in Nat
    BY TypeFacts, FreshType
  <2>4. UNCHANGED replayedVars
    BY <1>3 DEF NothingToCancel, SetsVar, CallbackResolves, CallbackRejects
  <2>5. PICK i \in Ids : /\ \E ok \in BOOLEAN, ref \in Nat : LogAction(i, a, ok, ref)
                         /\ \/ UNCHANGED vars
                            \/ /\ a.type = "set_var"
                               /\ vars' = [vars EXCEPT ![i] = WithVar(@, a.what, a.value)]
    BY Zenon, <1>3, <2>1, <2>3 DEF NothingToCancel, SetsVar, CallbackResolves, CallbackRejects
  <2>6. \A j \in Ids : NothingSet(j)' => NothingSet(j) /\ (j = i => a.type # "set_var")
    BY Zenon, <2>2, <2>5, LoggedType, TypeFacts
  <2>7. \A j \in Ids : j # i \/ a.type # "set_var" => vars'[j] = vars[j]
    BY <2>5, TypeFacts
  <2> QED BY <2>4, <2>6, <2>7 DEF VarsKnown
<1>4. ASSUME NEW c \in Calls, NEW event, NEW todo, Turn(c, event, todo)
      PROVE  VarsKnown'
  BY <1>1, <1>4 DEF Turn
<1>5. ASSUME NEW c \in Calls, CallBack(c) \/ Terminate(c) \/ Advance(c) \/ EntryDone(c)
      PROVE  VarsKnown'
  BY <1>1, <1>5 DEF CallBack, Terminate, Advance, EntryDone
<1>6. ASSUME NEW i \in Ids, Cancel(i) PROVE VarsKnown'
  BY <1>1, <1>6 DEF Cancel
<1> QED BY <1>1, <1>2, <1>3, <1>4, <1>5, <1>6 DEF Next, Proceed, NextTurn, HandleEvent, state

\* A replay of the journal yields the instances in memory whenever no event is being
\* handled, if events are delivered one after the other, with the vars they have there
\* as long as no set_var was executed (ReplayMatchesMemory).
THEOREM ReplayCorrect == Spec => []ReplayMatchesMemory
<1>1. IInv /\ VarsKnown => ReplayMatchesMemory
  <2> SUFFICES ASSUME IInv, serial, Quiet PROVE file = inst
    BY DEF ReplayMatchesMemory, VarsKnown, NothingSet
  <2>1. \A c \in Calls : ~ Moving(calls[c])
    BY DEF Quiet, Moving, Busy
  <2>2. ASSUME NEW i \in Ids PROVE file[i] = inst[i]
    <3>1. file[i].node = inst[i].node /\ file[i].history = inst[i].history
      BY <2>1 DEF IInv, Records, InStep
    <3>2. /\ file[i].status = inst[i].status /\ file[i].reason = inst[i].reason
          /\ file[i].count = inst[i].count
      BY DEF IInv, Records, Agreement
    <3>3. file[i] \in Instances /\ inst[i] \in Instances
      BY TypeFacts DEF IInv
    <3>4. ASSUME NEW r \in Instances
          PROVE  r = [node |-> r.node, status |-> r.status, reason |-> r.reason,
                      count |-> r.count, history |-> r.history]
      BY Zenon DEF Instances
    <3> QED BY <3>1, <3>2, <3>3, <3>4
  <2>3. file = [i \in Ids |-> file[i]] /\ inst = [i \in Ids |-> inst[i]]
    BY TypeFacts DEF IInv
  <2> QED BY <2>2, <2>3
<1>2. Init => VarsKnown
  BY DEF Init, VarsKnown
<1>3. IInv => TypeOK
  BY DEF IInv
<1> QED BY <1>1, <1>2, <1>3, VarsStep, Invariance, PTL DEF Spec

\* No transition starts of an instance that is not active (NoTransitionAfterEnd), not
\* even by a call that took it into its snapshot while it was.
THEOREM NoLateTransition == Spec => NoTransitionAfterEnd
<1> DEFINE Step == \A i \in Ids : inst[i].status # "active" => inst'[i].count = inst[i].count
<1>1. ASSUME IInv, NEW i \in Ids, NEW r, inst' = [inst EXCEPT ![i] = r], r.count = inst[i].count
      PROVE  Step
  BY <1>1, TypeFacts DEF IInv
<1>2. ASSUME IInv, NEW i \in Ids, Register(i) PROVE Step
  <2>1. inst[i] \in Instances
    BY <1>2, TypeFacts DEF IInv
  <2>2. inst' = [inst EXCEPT ![i] = Started(inst[i])] /\ Started(inst[i]).count = inst[i].count
    BY <1>2, <2>1, StartedFields DEF Register
  <2> HIDE DEF Step
  <2> QED BY <1>1, <1>2, <2>2
<1>3. ASSUME IInv, NEW i \in Ids, NEW why \in {"canceled", "runaway"},
             inst' = [inst EXCEPT ![i] = Halted(@, why)]
      PROVE  Step
  <2>1. inst[i] \in Instances
    BY <1>3, TypeFacts DEF IInv
  <2>2. inst' = [inst EXCEPT ![i] = Halted(inst[i], why)] /\ Halted(inst[i], why).count = inst[i].count
    BY <1>3, <2>1, HaltedFields
  <2> HIDE DEF Step
  <2> QED BY <1>1, <1>3, <2>2
<1>4. ASSUME IInv, NEW c \in Calls, NEW event, NEW todo \in SUBSET Ids, Turn(c, event, todo)
      PROVE  Step
  <2> PICK i \in todo : PassOver(i, event) \/ HaltRunaway(i) \/ TakeTransition(c, event, todo, i)
    BY <1>4 DEF Turn
  <2>1. CASE PassOver(i, event)
    BY <2>1 DEF PassOver
  <2>2. CASE HaltRunaway(i)
    <3> HIDE DEF Step
    <3> QED BY <1>3, <1>4, <2>2 DEF HaltRunaway
  <2>3. CASE TakeTransition(c, event, todo, i)
    <3>1. inst[i].status = "active" /\ inst' = [inst EXCEPT ![i].count = @ + 1]
      BY <2>3 DEF TakeTransition, Active
    <3> QED BY <1>4, <3>1, TypeFacts DEF IInv
  <2> QED BY <2>1, <2>2, <2>3
<1>5. ASSUME IInv, NEW c \in Calls, Terminate(c) \/ Advance(c) \/ EntryDone(c) PROVE Step
  <2> DEFINE i == calls[c].id
             move == calls[c].move
             entered == Entered(inst[i], move)
             ended == [entered EXCEPT !.status = "terminal"]
  <2>1. i \in Ids /\ move \in Moves /\ inst[i] \in Instances
    BY <1>5, TypeFacts DEF IInv, Terminate, Advance, EntryDone, Acted, CallOK
  <2>2. \/ inst' = [inst EXCEPT ![i] = ended] \/ inst' = [inst EXCEPT ![i] = entered]
        \/ inst' = [inst EXCEPT ![i] = CapReached(entered, i)]
        \/ inst' = [inst EXCEPT ![i] = CapReached(inst[i], i)]
    <3>1. CASE Terminate(c)
      BY <3>1 DEF Terminate, Acted
    <3>2. CASE Advance(c)
      BY <3>2 DEF Advance, Acted
    <3>3. CASE EntryDone(c)
      BY <3>3 DEF EntryDone, Acted
    <3> QED BY <1>5, <3>1, <3>2, <3>3
  <2>3. entered.count = inst[i].count /\ entered \in Instances
    BY <2>1, EnteredFields
  <2> HIDE DEF entered
  <2>4. ended.count = inst[i].count
    BY Zenon, <2>3 DEF Instances
  <2>5. CapReached(entered, i).count = inst[i].count /\ CapReached(inst[i], i).count = inst[i].count
    BY <2>1, <2>3, HaltedFields DEF CapReached
  <2> HIDE DEF i, move, ended, Step
  <2> QED BY Zenon, <1>1, <1>5, <2>1, <2>2, <2>3, <2>4, <2>5
<1>6. ASSUME IInv, NEW c \in Calls, Proceed(c) PROVE Step
  <2>1. CASE NextTurn(c)
    <3>1. calls[c].todo \in SUBSET Ids /\ Turn(c, calls[c].event, calls[c].todo)
      BY <1>6, <2>1, TypeFacts DEF IInv, NextTurn, CallRecords
    <3> HIDE DEF Step
    <3> QED BY <1>4, <1>6, <3>1
  <2>2. CASE UNCHANGED inst
    BY <2>2
  <2> HIDE DEF Step
  <2> QED BY <1>5, <1>6, <2>1, <2>2
          DEF Proceed, NothingToCancel, SetsVar, CallBack, CallbackResolves, CallbackRejects
<1>7. ASSUME IInv, [Next]_state PROVE Step
  <2>1. CASE UNCHANGED state
    BY <2>1 DEF state
  <2>2. ASSUME NEW c \in Calls, NEW event \in Events, HandleEvent(c, event) PROVE Step
    <3> DEFINE active == {i \in Ids : Active(i)}
    <3>1. Turn(c, event, active) /\ active \in SUBSET Ids
      BY <2>2 DEF HandleEvent
    <3> HIDE DEF active, Step
    <3> QED BY <1>4, <1>7, <3>1
  <2>3. ASSUME NEW i \in Ids, Cancel(i) PROVE Step
    <3> HIDE DEF Step
    <3> QED BY <1>3, <1>7, <2>3 DEF Cancel
  <2> HIDE DEF Step
  <2> QED BY <1>2, <1>6, <1>7, <2>1, <2>2, <2>3 DEF Next
<1>8. IInv /\ [Next]_state =>
        [\A i \in Ids : inst[i].status # "active" => inst'[i].count = inst[i].count]_state
  BY <1>7
<1> QED BY <1>8, Invariance, PTL DEF Spec, NoTransitionAfterEnd

-----------------------------------------------------------------------------
(* The journal obeys the lifecycle.                                        *)

\* The lifecycle's variables, as the refinement has them
node == [i \in Ids |-> file[i].node]
life == [i \in Ids |-> file[i].status]
count == [i \in Ids |-> file[i].count]

Put(function, i, value) == [function EXCEPT ![i] = value]

\* What they become when the record of one instance does
LEMMA Mapped ==
  ASSUME TypeOK, NEW i \in Ids, NEW f, file' = [file EXCEPT ![i] = f]
  PROVE  /\ node' = Put(node, i, f.node) /\ life' = Put(life, i, f.status)
         /\ count' = Put(count, i, f.count)
         /\ f.node = file[i].node => node' = node
         /\ f.status = file[i].status => life' = life
         /\ f.count = file[i].count => count' = count
<1>1. \A j \in Ids : file'[j] = IF j = i THEN f ELSE file[j]
  BY TypeFacts
<1>2. node' = [j \in Ids |-> IF j = i THEN f.node ELSE file[j].node]
  BY <1>1 DEF node
<1>3. life' = [j \in Ids |-> IF j = i THEN f.status ELSE file[j].status]
  BY <1>1 DEF life
<1>4. count' = [j \in Ids |-> IF j = i THEN f.count ELSE file[j].count]
  BY <1>1 DEF count
<1>5. /\ node' = Put(node, i, f.node)
      /\ f.node = file[i].node => node' = node
  BY <1>2 DEF node, Put
<1>6. /\ life' = Put(life, i, f.status)
      /\ f.status = file[i].status => life' = life
  BY <1>3 DEF life, Put
<1>7. /\ count' = Put(count, i, f.count)
      /\ f.count = file[i].count => count' = count
  BY <1>4 DEF count, Put
<1> QED BY <1>5, <1>6, <1>7

\* Steps of the lifecycle for an instance
LEMMA LifecycleSteps ==
  ASSUME NEW i \in Ids, UNCHANGED <<serial, workflow>>
  PROVE  /\ UNCHANGED file => UNCHANGED Lifecycle!vars
         /\ UNCHANGED <<node, count>> /\ life[i] # "none" /\ life' = Put(life, i, "halted")
              => Lifecycle!Halt(i)
         /\ UNCHANGED <<node, count>> /\ life[i] = "none" /\ life' = Put(life, i, "active")
              => Lifecycle!Start(i)
         /\ UNCHANGED <<node, count>> /\ life[i] # "none" /\ count[i] > 0
            /\ (serial => node[i] = "TERMINAL") /\ life' = Put(life, i, "terminal")
              => Lifecycle!Finish(i)
<1>1. UNCHANGED file => UNCHANGED Lifecycle!vars
  BY DEF Lifecycle!vars
<1>2. UNCHANGED <<node, count>> /\ life[i] # "none" /\ life' = Put(life, i, "halted")
        => Lifecycle!Halt(i)
  BY DEF Lifecycle!Halt, node, life, count, Put
<1>3. UNCHANGED <<node, count>> /\ life[i] = "none" /\ life' = Put(life, i, "active")
        => Lifecycle!Start(i)
  BY DEF Lifecycle!Start, node, life, count, Put
<1>4. UNCHANGED <<node, count>> /\ life[i] # "none" /\ count[i] > 0
      /\ (serial => node[i] = "TERMINAL") /\ life' = Put(life, i, "terminal")
        => Lifecycle!Finish(i)
  BY DEF Lifecycle!Finish, node, life, count, Put
<1> QED BY <1>1, <1>2, <1>3, <1>4

\* A record journaled as halted is a halt of the lifecycle.
LEMMA HaltMaps ==
  ASSUME IInv, UNCHANGED <<serial, workflow>>, NEW i \in Ids, inst[i].status # "none",
         NEW why \in {"canceled", "runaway"}, file' = [file EXCEPT ![i] = Halted(@, why)]
  PROVE  Lifecycle!Halt(i)
<1> DEFINE f == Halted(file[i], why)
<1>1. file[i] \in Instances /\ file[i].status # "none"
  BY TypeFacts DEF IInv, Records, Agreement
<1>2. f.status = "halted" /\ f.node = file[i].node /\ f.count = file[i].count
  BY <1>1, HaltedFields
<1>3. file' = [file EXCEPT ![i] = f]
  OBVIOUS
<1> HIDE DEF f
<1>6. TypeOK /\ f.node = file[i].node /\ f.count = file[i].count
  BY <1>2 DEF IInv
<1>7. node' = node /\ count' = count /\ life' = Put(life, i, f.status)
  BY <1>3, <1>6, Mapped
<1>4. UNCHANGED <<node, count>> /\ life' = Put(life, i, "halted")
  BY <1>2, <1>7
<1>5. life[i] # "none"
  BY <1>1 DEF life
<1> QED BY <1>4, <1>5, LifecycleSteps

LEMMA TakeMaps ==
  ASSUME IInv, NEW c \in Calls, NEW event, NEW todo \in SUBSET Ids, NEW i \in todo,
         TakeTransition(c, event, todo, i), UNCHANGED <<serial, workflow>>,
         ~ Busy(calls[c]), serial => \A d \in Calls : d # c => calls[d].at = "idle"
  PROVE  Lifecycle!Move(i)
<1>1. /\ inst[i].status = "active" /\ inst[i].count < Def(i).max /\ inst[i].node \in States(i)
      /\ i \in Ids
  BY TakeFacts
<1> PICK move \in Moves : TakesMove(c, event, todo, i, move)
  BY TakeMove
<1> DEFINE n == inst[i].count + 1
           f == Journaled(file[i], move, n)
<1>2. /\ file[i] \in Instances /\ inst[i].count \in Nat /\ file[i].status = "active"
      /\ file[i].count = inst[i].count
  BY Zenon, <1>1, TypeFacts DEF IInv, Instances, Records, Agreement
<1>3. n \in Nat
  BY <1>2
<1>4. file' = [file EXCEPT ![i] = f]
  BY DEF TakesMove
<1> HIDE DEF n
<1>5. f.status = file[i].status /\ f.node = move[3] /\ f.count = n
  BY ZenonT(60), <1>2, <1>3, JournaledFields
<1> HIDE DEF f
<1>6. /\ node' = Put(node, i, move[3]) /\ life' = life /\ count' = Put(count, i, n)
  BY ZenonT(60), <1>1, <1>4, <1>5, Mapped DEF IInv
<1>7. serial => file[i].node = inst[i].node
  <2>1. serial => \A d \in Calls : ~ Moving(calls[d])
    BY DEF Moving, Busy
  <2> QED BY <1>1, <2>1 DEF IInv, Records, InStep
<1>8. /\ life[i] = "active" /\ count[i] < Workflows[workflow[i]].max
      /\ count' = Put(count, i, count[i] + 1)
  BY Zenon, <1>1, <1>2, <1>6 DEF life, count, n, Def
<1>9. /\ inst[i].node \in DOMAIN Workflows[workflow[i]].states
      /\ move[3] \in DOMAIN Workflows[workflow[i]].states \cup {"TERMINAL"}
      /\ move[3] \in {Workflows[workflow[i]].states[inst[i].node].transitions[t].next :
                        t \in DOMAIN Workflows[workflow[i]].states[inst[i].node].transitions}
      /\ serial => inst[i].node = node[i]
  BY Zenon, <1>1, <1>7 DEF TakesMove, Transitions, States, Def, node
<1> QED BY ZenonT(60), <1>6, <1>8, <1>9
        DEF Lifecycle!Move, Lifecycle!States, Lifecycle!Targets, node, life, count, Put

\* How a turn shows in the journal
LEMMA TurnMaps ==
  ASSUME IInv, NEW c \in Calls, NEW event, NEW todo \in SUBSET Ids, Turn(c, event, todo),
         ~ Busy(calls[c]), serial => \A d \in Calls : d # c => calls[d].at = "idle"
  PROVE  Lifecycle!Next \/ UNCHANGED Lifecycle!vars
<1> PICK i \in todo : PassOver(i, event) \/ HaltRunaway(i) \/ TakeTransition(c, event, todo, i)
  BY DEF Turn
<1>1. UNCHANGED <<serial, workflow>>
  BY DEF Turn
<1>2. CASE PassOver(i, event)
  BY <1>1, <1>2, LifecycleSteps DEF PassOver
<1>3. CASE HaltRunaway(i)
  <2>1. Lifecycle!Halt(i)
    BY <1>1, <1>3, HaltMaps DEF HaltRunaway, Active
  <2> QED BY <2>1 DEF Lifecycle!Next
<1>4. CASE TakeTransition(c, event, todo, i)
  <2>1. Lifecycle!Move(i)
    BY <1>1, <1>4, TakeMaps
  <2> QED BY <2>1 DEF Lifecycle!Next
<1> QED BY <1>2, <1>3, <1>4

\* How the end of a transition shows in the journal
LEMMA EndMaps ==
  ASSUME IInv, NEW c \in Calls, Terminate(c) \/ Advance(c) \/ EntryDone(c)
  PROVE  Lifecycle!Next \/ UNCHANGED Lifecycle!vars
<1>1. Busy(calls[c]) /\ calls[c].id \in Ids
  BY TypeFacts DEF IInv, Terminate, Advance, EntryDone, Acted, CallOK, Busy
<1> PICK i \in Ids : i = calls[c].id
  BY <1>1
<1>2. UNCHANGED <<serial, workflow>>
  BY DEF Terminate, Advance, EntryDone
<1>3. inst[i].status # "none" /\ inst[i].count > 0
  BY <1>1 DEF IInv, Records, WorkSound
<1>4. CASE Terminate(c)
  <2> DEFINE f == [file[i] EXCEPT !.status = "terminal"]
  <2>1. file' = [file EXCEPT ![i] = f] /\ Moving(calls[c]) /\ calls[c].move[3] = "TERMINAL"
    BY <1>1, <1>4 DEF Terminate, Acted, Moving
  <2>2. file[i] \in Instances
    BY <1>1, TypeFacts DEF IInv
  <2>3. f.status = "terminal" /\ f.node = file[i].node /\ f.count = file[i].count
    BY Zenon, <2>2 DEF Instances
  <2>4. serial => file[i].node = "TERMINAL"
    BY <2>1 DEF IInv, Records, InStep
  <2>5. life[i] # "none" /\ count[i] > 0 /\ (serial => node[i] = "TERMINAL")
    BY <1>1, <1>3, <2>4 DEF IInv, Records, Agreement, life, count, node
  <2> HIDE DEF f
  <2>6. node' = node /\ count' = count /\ life' = Put(life, i, f.status)
    BY <1>1, <2>1, <2>3, Mapped DEF IInv
  <2>7. UNCHANGED <<node, count>> /\ life' = Put(life, i, "terminal")
    BY <2>3, <2>6
  <2>8. Lifecycle!Finish(i)
    BY <1>1, <1>2, <2>5, <2>7, LifecycleSteps
  <2> QED BY <1>1, <2>8 DEF Lifecycle!Next
<1>5. CASE UNCHANGED file
  BY <1>1, <1>2, <1>5, LifecycleSteps
<1>6. CASE file' = [file EXCEPT ![i] = IF Runaway(i) THEN Halted(@, "runaway") ELSE @]
  <2>1. CASE Runaway(i)
    <3>1. file' = [file EXCEPT ![i] = Halted(file[i], "runaway")]
      BY <1>6, <2>1
    <3>2. Lifecycle!Halt(i)
      BY <1>1, <1>2, <1>3, <3>1, HaltMaps
    <3> QED BY <1>1, <3>2 DEF Lifecycle!Next
  <2>2. CASE ~ Runaway(i)
    <3>1. UNCHANGED file
      BY <1>6, <2>2, TypeFacts DEF IInv
    <3> QED BY <1>1, <1>2, <3>1, LifecycleSteps
  <2> QED BY <2>1, <2>2
<1> QED BY Zenon, <1>4, <1>5, <1>6 DEF Advance, EntryDone, Acted

\* The engine's journal obeys WorkflowLifecycle, for every set of definitions and
\* however events overlap (LifecycleSpec).
THEOREM ObeysLifecycle == Spec => LifecycleSpec
<1>1. Init => Lifecycle!Init
  <2> SUFFICES ASSUME Init PROVE Lifecycle!Init
    OBVIOUS
  <2>1. \A i \in Ids : /\ file[i].node = Workflows[workflow[i]].initial
                       /\ file[i].status = "none" /\ file[i].count = 0
    BY Zenon DEF Init, Unregistered
  <2> QED BY <2>1 DEF Init, Lifecycle!Init
<1>2. ASSUME IInv, [Next]_state PROVE [Lifecycle!Next]_Lifecycle!vars
  <2>1. CASE UNCHANGED state
    BY <2>1 DEF state, Lifecycle!vars
  <2>2. ASSUME NEW i \in Ids, Register(i) PROVE Lifecycle!Next
    <3> DEFINE f == Started(file[i])
    <3>1. /\ file' = [file EXCEPT ![i] = f] /\ UNCHANGED <<serial, workflow>>
          /\ inst[i].status = "none"
      BY <2>2 DEF Register
    <3>2. file[i] \in Instances /\ file[i].status = "none"
      BY <1>2, <3>1, TypeFacts DEF IInv, Records, Agreement
    <3>3. f.status = "active" /\ f.node = file[i].node /\ f.count = file[i].count
      BY <3>2, StartedFields
    <3> HIDE DEF f
    <3>4. node' = node /\ count' = count /\ life' = Put(life, i, f.status)
      BY <1>2, <3>1, <3>3, Mapped DEF IInv
    <3>5. UNCHANGED <<node, count>> /\ life' = Put(life, i, "active") /\ life[i] = "none"
      BY <3>2, <3>3, <3>4 DEF life
    <3>6. Lifecycle!Start(i)
      BY <3>1, <3>5, LifecycleSteps
    <3> QED BY <3>6 DEF Lifecycle!Next
  <2>3. ASSUME NEW i \in Ids, Cancel(i) PROVE Lifecycle!Next
    <3>1. /\ file' = [file EXCEPT ![i] = Halted(@, "canceled")] /\ UNCHANGED <<serial, workflow>>
          /\ inst[i].status # "none"
      BY <2>3 DEF Cancel
    <3>2. Lifecycle!Halt(i)
      BY <1>2, <3>1, HaltMaps
    <3> QED BY <3>2 DEF Lifecycle!Next
  <2>4. ASSUME NEW c \in Calls, NEW event \in Events, HandleEvent(c, event)
        PROVE  Lifecycle!Next \/ UNCHANGED Lifecycle!vars
    <3> DEFINE active == {i \in Ids : Active(i)}
    <3>1. /\ Turn(c, event, active) /\ calls[c].at = "idle"
          /\ serial => \A d \in Calls : d # c => calls[d].at = "idle"
      BY <2>4 DEF HandleEvent
    <3>2. ~ Busy(calls[c]) /\ active \in SUBSET Ids
      BY <3>1 DEF Busy
    <3> HIDE DEF active
    <3> QED BY <1>2, <3>1, <3>2, TurnMaps
  <2>5. ASSUME NEW c \in Calls, NextTurn(c) PROVE Lifecycle!Next \/ UNCHANGED Lifecycle!vars
    <3>1. calls[c].at = "turn" /\ calls[c].todo \in SUBSET Ids /\ ~ Busy(calls[c])
      BY <1>2, <2>5, TypeFacts DEF IInv, NextTurn, CallRecords, Busy
    <3>2. serial => \A d \in Calls : d # c => calls[d].at = "idle"
      BY <1>2, <3>1 DEF IInv, OneCall
    <3>3. Turn(c, calls[c].event, calls[c].todo)
      BY <2>5 DEF NextTurn
    <3> QED BY <1>2, <3>1, <3>2, <3>3, TurnMaps
  <2>6. CASE UNCHANGED <<serial, workflow, file>>
    BY <2>6 DEF Lifecycle!vars
  <2>7. ASSUME NEW c \in Calls, Proceed(c) PROVE Lifecycle!Next \/ UNCHANGED Lifecycle!vars
    <3>1. CASE NextTurn(c)
      BY <2>5, <3>1
    <3>2. CASE Terminate(c) \/ Advance(c) \/ EntryDone(c)
      BY <1>2, <3>2, EndMaps
    <3>3. CASE NothingToCancel(c) \/ SetsVar(c) \/ CallBack(c) \/ CallbackResolves(c) \/ CallbackRejects(c)
      <4>1. UNCHANGED <<serial, workflow, file>>
        BY <3>3 DEF NothingToCancel, SetsVar, CallBack, CallbackResolves, CallbackRejects
      <4> QED BY <4>1 DEF Lifecycle!vars
    <3> QED BY <2>7, <3>1, <3>2, <3>3 DEF Proceed
  <2> QED BY <1>2, <2>1, <2>2, <2>3, <2>4, <2>7 DEF Next
<1>3. IInv /\ [Next]_state => [Lifecycle!Next]_Lifecycle!vars
  BY <1>2
<1> QED BY <1>1, <1>3, Invariance, PTL DEF Spec, LifecycleSpec, Lifecycle!Spec

-----------------------------------------------------------------------------
(***************************************************************************)
(* Sequences of sequences, joined.                                         *)
(***************************************************************************)

\* FlattenSeq is a recursion on the positions.
JoinsUp(q, n, g) == g = [i \in 1 .. n |-> IF i = 1 THEN q[i] ELSE g[i - 1] \o q[i]]

LEMMA FlattenUnfolds ==
  ASSUME NEW q, Len(q) # 0
  PROVE  FlattenSeq(q) = (CHOOSE g : JoinsUp(q, Len(q), g))[Len(q)]
BY DEF FlattenSeq, JoinsUp

\* It has a solution ...
LEMMA JoinsExist ==
  ASSUME NEW q, NEW n \in Nat
  PROVE  \E g : JoinsUp(q, n, g)
<1> DEFINE Bad == {m \in Nat : ~ \E g : JoinsUp(q, m, g)}
<1> SUFFICES ASSUME Bad # {} PROVE FALSE
  OBVIOUS
<1>1. PICK m \in Bad : \A k \in Bad : m <= k
  <2>1. Bad \in SUBSET Nat
    OBVIOUS
  <2> HIDE DEF Bad
  <2> QED BY <2>1, LeastOfSet
<1>2. m # 0
  <2> DEFINE g == [i \in 1 .. 0 |-> q]
  <2>1. JoinsUp(q, 0, g)
    BY DEF JoinsUp
  <2> QED BY <2>1
<1>3. m \in Nat /\ m - 1 \in Nat /\ m - 1 \notin Bad
  BY <1>1, <1>2
<1>4. PICK g : JoinsUp(q, m - 1, g)
  BY <1>3
<1> DEFINE h == [i \in 1 .. m |-> IF i = 1 THEN q[i] ELSE g[i - 1] \o q[i]]
<1>5. ASSUME NEW i \in 1 .. (m - 1) PROVE h[i] = g[i]
  <2>1. i \in 1 .. m
    BY <1>3
  <2> QED BY <1>4, <2>1 DEF JoinsUp
<1>6. ASSUME NEW i \in 1 .. m, i # 1 PROVE g[i - 1] = h[i - 1]
  <2>1. i - 1 \in 1 .. (m - 1)
    BY <1>3, <1>6
  <2> QED BY <1>5, <2>1
<1>7. h = [i \in 1 .. m |-> IF i = 1 THEN q[i] ELSE h[i - 1] \o q[i]]
  <2> SUFFICES ASSUME NEW i \in 1 .. m
               PROVE  h[i] = IF i = 1 THEN q[i] ELSE h[i - 1] \o q[i]
    OBVIOUS
  <2>1. h[i] = IF i = 1 THEN q[i] ELSE g[i - 1] \o q[i]
    OBVIOUS
  <2> HIDE DEF h
  <2> QED BY <1>6, <2>1
<1> HIDE DEF h
<1>8. JoinsUp(q, m, h)
  BY <1>7 DEF JoinsUp
<1> QED BY <1>1, <1>8

\* What has been joined, one sequence after another
Joins(q, w) == w[0] = <<>> /\ \A k \in 1 .. Len(q) : w[k] = w[k - 1] \o q[k]

LEMMA FlattenIsLast ==
  ASSUME NEW S, NEW q \in Seq(Seq(S))
  PROVE  \E w : Joins(q, w) /\ FlattenSeq(q) = w[Len(q)]
<1>0. Len(q) \in Nat /\ \A k \in 1 .. Len(q) : q[k] \in Seq(S)
  OBVIOUS
<1>1. CASE Len(q) = 0
  <2> DEFINE w == [k \in 0 .. 0 |-> <<>>]
  <2>1. q = <<>> /\ FlattenSeq(q) = q
    BY <1>1 DEF FlattenSeq
  <2>2. Joins(q, w) /\ w[0] = <<>>
    BY <1>1 DEF Joins
  <2> HIDE DEF w
  <2> QED BY <1>1, <2>1, <2>2
<1>2. CASE Len(q) # 0
  <2> DEFINE n == Len(q)
             g == CHOOSE g : JoinsUp(q, n, g)
             w == [k \in 0 .. n |-> IF k = 0 THEN <<>> ELSE g[k]]
  <2>1. JoinsUp(q, n, g)
    BY <1>0, JoinsExist
  <2>2. FlattenSeq(q) = g[n]
    BY <1>2, FlattenUnfolds
  <2> HIDE DEF n, g
  <2>3. n \in Nat /\ n # 0 /\ 0 \in 0 .. n /\ n \in 0 .. n
    BY <1>0, <1>2 DEF n
  <2>4. w[0] = <<>> /\ w[n] = g[n]
    BY <2>3
  <2>5. ASSUME NEW k \in 1 .. n PROVE w[k] = w[k - 1] \o q[k]
    <3>1. k \in Nat /\ k \in 0 .. n /\ k - 1 \in 0 .. n /\ k # 0 /\ w[k] = g[k]
      BY <2>3
    <3>2. CASE k = 1
      <4>1. w[k - 1] = <<>> /\ g[k] = q[k]
        BY <2>1, <2>3, <3>2 DEF JoinsUp
      <4>2. q[k] \in Seq(S)
        BY <1>0 DEF n
      <4> HIDE DEF w
      <4> QED BY <3>1, <4>1, <4>2, ConcatEmptySeq
    <3>3. CASE k # 1
      <4>1. w[k - 1] = g[k - 1] /\ g[k] = g[k - 1] \o q[k]
        <5>1. k - 1 # 0
          BY <3>1, <3>3
        <5> QED BY <2>1, <3>1, <3>3, <5>1 DEF JoinsUp
      <4> HIDE DEF w
      <4> QED BY <3>1, <4>1
    <3> QED BY <3>2, <3>3
  <2> HIDE DEF w
  <2>6. Joins(q, w)
    BY <2>4, <2>5 DEF Joins, n
  <2> QED BY <2>2, <2>4, <2>6 DEF n
<1> QED BY <1>1, <1>2

\* ... and one only.
LEMMA JoinsAgree ==
  ASSUME NEW q, NEW w, Joins(q, w), NEW r, NEW v, Joins(r, v), Len(q) \in Nat, Len(r) \in Nat,
         Len(q) <= Len(r), \A k \in 1 .. Len(q) : r[k] = q[k]
  PROVE  \A k \in 0 .. Len(q) : v[k] = w[k]
<1> DEFINE n == Len(q)
           Bad == {k \in 0 .. n : v[k] # w[k]}
<1> SUFFICES ASSUME Bad # {} PROVE FALSE
  OBVIOUS
<1>1. PICK k \in Bad : \A i \in Bad : k <= i
  <2>1. Bad \in SUBSET Nat
    OBVIOUS
  <2> HIDE DEF Bad
  <2> QED BY <2>1, LeastOfSet
<1>2. k # 0
  BY DEF Joins
<1>3. k \in 1 .. n /\ k \in 1 .. Len(r) /\ k - 1 \in 0 .. n /\ k - 1 \notin Bad
  BY <1>1, <1>2
<1> QED BY <1>3 DEF Joins

\* A sequence more is joined at the end.
LEMMA FlattenAppend ==
  ASSUME NEW S, NEW q \in Seq(Seq(S)), NEW s \in Seq(S)
  PROVE  FlattenSeq(Append(q, s)) = FlattenSeq(q) \o s
<1> DEFINE r == Append(q, s)
<1>1. r \in Seq(Seq(S)) /\ Len(q) \in Nat /\ Len(r) = Len(q) + 1 /\ r[Len(q) + 1] = s
      /\ \A k \in 1 .. Len(q) : r[k] = q[k]
  OBVIOUS
<1> HIDE DEF r
<1>2. PICK w : Joins(q, w) /\ FlattenSeq(q) = w[Len(q)]
  BY FlattenIsLast
<1>3. PICK v : Joins(r, v) /\ FlattenSeq(r) = v[Len(r)]
  BY <1>1, FlattenIsLast
<1>4. \A k \in 0 .. Len(q) : v[k] = w[k]
  BY <1>1, <1>2, <1>3, JoinsAgree
<1>5. v[Len(q)] = w[Len(q)]
  BY <1>1, <1>4
<1>6. v[Len(q) + 1] = v[Len(q)] \o s
  <2> DEFINE n == Len(q) + 1
  <2>1. n \in 1 .. Len(r) /\ n - 1 = Len(q) /\ r[n] = s
    BY <1>1
  <2>2. v[n] = v[n - 1] \o r[n]
    BY <1>3, <2>1 DEF Joins
  <2> QED BY <2>1, <2>2
<1> QED BY <1>1, <1>2, <1>3, <1>5, <1>6 DEF r

(***************************************************************************)
(* The types of the actions in a sequence.                                 *)
(***************************************************************************)

Types(s) == [k \in DOMAIN s |-> s[k].type]

Typed(S) == \A x \in S : x.type \in STRING

LEMMA TypesType ==
  ASSUME NEW S, Typed(S), NEW s \in Seq(S)
  PROVE  Types(s) \in Seq(STRING) /\ Len(Types(s)) = Len(s) /\ DOMAIN Types(s) = DOMAIN s
<1>1. DOMAIN s = 1 .. Len(s) /\ Len(s) \in Nat
  OBVIOUS
<1>2. \A k \in 1 .. Len(s) : s[k].type \in STRING
  BY DEF Typed
<1>3. Types(s) = [k \in 1 .. Len(s) |-> s[k].type]
  BY <1>1 DEF Types
<1>4. Types(s) \in [1 .. Len(s) -> STRING]
  BY <1>2, <1>3
<1> QED BY <1>1, <1>4

LEMMA TypesConcat ==
  ASSUME NEW S, Typed(S), NEW s \in Seq(S), NEW t \in Seq(S)
  PROVE  Types(s \o t) = Types(s) \o Types(t)
<1>1. s \o t \in Seq(S) /\ Len(s \o t) = Len(s) + Len(t) /\ Len(s) \in Nat /\ Len(t) \in Nat
  OBVIOUS
<1>2. /\ Types(s) \in Seq(STRING) /\ Types(t) \in Seq(STRING) /\ Types(s \o t) \in Seq(STRING)
      /\ Len(Types(s)) = Len(s) /\ Len(Types(t)) = Len(t) /\ Len(Types(s \o t)) = Len(s) + Len(t)
  BY <1>1, TypesType
<1>3. /\ Types(s) \o Types(t) \in Seq(STRING)
      /\ Len(Types(s) \o Types(t)) = Len(s) + Len(t)
  BY <1>2, ConcatProperties
<1>4. ASSUME NEW k \in 1 .. Len(s) + Len(t) PROVE Types(s \o t)[k] = (Types(s) \o Types(t))[k]
  <2>1. CASE k <= Len(s)
    <3>1. k \in 1 .. Len(s) /\ (s \o t)[k] = s[k]
      BY <1>1, <2>1
    <3>2. Types(s)[k] = s[k].type /\ Types(s \o t)[k] = (s \o t)[k].type
      BY <1>1, <3>1 DEF Types
    <3>3. (Types(s) \o Types(t))[k] = Types(s)[k]
      BY <1>2, <3>1
    <3> QED BY <3>1, <3>2, <3>3
  <2>2. CASE ~(k <= Len(s))
    <3>1. k - Len(s) \in 1 .. Len(t) /\ (s \o t)[k] = t[k - Len(s)]
      BY <1>1, <2>2
    <3>2. Types(t)[k - Len(s)] = t[k - Len(s)].type /\ Types(s \o t)[k] = (s \o t)[k].type
      BY <1>1, <3>1 DEF Types
    <3>3. (Types(s) \o Types(t))[k] = Types(t)[k - Len(s)]
      BY <1>1, <1>2, <2>2, <3>1
    <3> QED BY <3>1, <3>2, <3>3
  <2> QED BY <2>1, <2>2
<1>5. \A k \in 1 .. Len(Types(s \o t)) : Types(s \o t)[k] = (Types(s) \o Types(t))[k]
  BY <1>2, <1>4
<1>6. Len(Types(s \o t)) = Len(Types(s) \o Types(t))
  BY <1>2, <1>3
<1> QED BY <1>2, <1>3, <1>5, <1>6, SeqEqual

LEMMA TypesOfNone == Types(<<>>) = <<>>
BY DEF Types

LEMMA TypesOfOne == ASSUME NEW x PROVE Types(<<x>>) = <<x.type>>
BY DEF Types

\* Once the first action that is owed is logged, the others are.
LEMMA OneMoreLogged ==
  ASSUME NEW L, Typed(L), NEW log1 \in Seq(L), NEW line \in L,
         NEW A, Typed(A), NEW rest \in Seq(A), rest # <<>>, line.type = Head(rest).type
  PROVE  Types(Append(log1, line)) \o Types(Tail(rest)) = Types(log1) \o Types(rest)
<1>1. Append(log1, line) = log1 \o <<line>> /\ <<line>> \in Seq(L)
  OBVIOUS
<1>2. Types(Append(log1, line)) = Types(log1) \o <<line.type>>
  BY ZenonT(60), <1>1, TypesConcat, TypesOfOne
<1>3. Head(rest) \in A /\ Tail(rest) \in Seq(A) /\ <<Head(rest)>> \in Seq(A)
  OBVIOUS
<1>4. rest = <<Head(rest)>> \o Tail(rest)
  <2> DEFINE r == <<Head(rest)>> \o Tail(rest)
  <2>1. r \in Seq(A) /\ Len(r) = Len(rest)
    BY <1>3
  <2>2. \A k \in 1 .. Len(rest) : rest[k] = r[k]
    BY <1>3
  <2> HIDE DEF r
  <2>3. rest = r
    BY <2>1, <2>2, SeqEqual
  <2> QED BY <2>3 DEF r
<1>5. Types(rest) = <<line.type>> \o Types(Tail(rest))
  <2>1. Types(<<Head(rest)>> \o Tail(rest)) = Types(<<Head(rest)>>) \o Types(Tail(rest))
    BY <1>3, TypesConcat
  <2> QED BY <1>4, <2>1, TypesOfOne
<1>6. /\ Types(log1) \in Seq(STRING) /\ <<line.type>> \in Seq(STRING)
      /\ Types(Tail(rest)) \in Seq(STRING)
  <2>1. line.type \in STRING
    BY DEF Typed
  <2>2. <<line.type>> \in Seq(STRING)
    BY <2>1
  <2>3. Types(log1) \in Seq(STRING)
    BY TypesType
  <2>4. Types(Tail(rest)) \in Seq(STRING)
    BY <1>3, TypesType
  <2> QED BY <2>2, <2>3, <2>4
<1>7. (Types(log1) \o <<line.type>>) \o Types(Tail(rest)) = Types(log1) \o (<<line.type>> \o Types(Tail(rest)))
  BY SMTT(30), <1>6, ConcatAssociative
<1> QED BY <1>2, <1>5, <1>7

LEMMA TypesAssociate ==
  ASSUME NEW s \in Seq(STRING), NEW t \in Seq(STRING), NEW u \in Seq(STRING)
  PROVE  s \o (t \o u) = (s \o t) \o u
BY SMTT(30), ConcatAssociative

LEMMA FunctionIsSeq ==
  ASSUME NEW T, NEW n \in Nat, NEW f \in [1 .. n -> T]
  PROVE  f \in Seq(T) /\ Len(f) = n
OBVIOUS

-----------------------------------------------------------------------------
(* What was executed follows from the history.                             *)

\* A move along a definition
IsMove(d, move) ==
  /\ move[1] \in DOMAIN d.states
  /\ move[2] \in DOMAIN d.states[move[1]].transitions
  /\ move[3] \in DOMAIN d.states \cup {"TERMINAL"}

\* The two parts of MoveActions
Leaving(d, move) == d.states[move[1]].transitions[move[2]].actions
Entering(d, move) == IF move[3] = "TERMINAL" THEN <<>> ELSE d.states[move[3]].entry

\* The actions that the history does not stand for yet
Ahead(d, call) == IF call.stage = "transition" THEN Leaving(d, call.move) ELSE <<>>

\* Histories are of moves along the definition.
HistoriesSound ==
  /\ \A i \in Ids : \A k \in DOMAIN inst[i].history : IsMove(Def(i), inst[i].history[k])
  /\ \A i \in Ids : HistoryActions(Def(i), inst[i].history) \in Seq(Actions)
  /\ \A c \in Calls : Moving(calls[c]) => IsMove(Def(calls[c].id), calls[c].move)

\* What is logged of an instance and what a call has yet to execute of it are the
\* actions of its history and of the transition that the call has in hand.
LogSound ==
  serial =>
    /\ \A c \in Calls :
         Busy(calls[c]) =>
           Types(log[calls[c].id]) \o Types(calls[c].rest)
             = Types(HistoryActions(Def(calls[c].id), inst[calls[c].id].history))
               \o Types(Ahead(Def(calls[c].id), calls[c]))
    /\ \A i \in Ids :
         (\A c \in Calls : Busy(calls[c]) => calls[c].id # i) =>
           Types(log[i]) = Types(HistoryActions(Def(i), inst[i].history))

HistoryInv == HistoriesSound /\ LogSound

LEMMA ActionsTyped == Typed(Actions) /\ Typed(LogLines)
BY WorkflowAssumption DEF Typed, LogLines

LEMMA MoveLists ==
  ASSUME NEW w \in DOMAIN Workflows, NEW move, IsMove(Workflows[w], move)
  PROVE  /\ Leaving(Workflows[w], move) \in Seq(Actions)
         /\ Entering(Workflows[w], move) \in Seq(Actions)
         /\ MoveActions(Workflows[w], move) = Leaving(Workflows[w], move) \o Entering(Workflows[w], move)
         /\ MoveActions(Workflows[w], move) \in Seq(Actions)
<1>1. Leaving(Workflows[w], move) \in Seq(Actions)
  BY DefinitionFacts DEF IsMove, Leaving
<1>2. Entering(Workflows[w], move) \in Seq(Actions)
  <2>1. move[3] # "TERMINAL" => Workflows[w].states[move[3]].entry \in Seq(Actions)
    BY DefinitionFacts DEF IsMove
  <2> QED BY <2>1 DEF Entering
<1>3. MoveActions(Workflows[w], move) = Leaving(Workflows[w], move) \o Entering(Workflows[w], move)
  BY DEF MoveActions, Leaving, Entering
<1>4. Leaving(Workflows[w], move) \o Entering(Workflows[w], move) \in Seq(Actions)
  BY <1>1, <1>2, ConcatProperties
<1> QED BY <1>1, <1>2, <1>3, <1>4

\* The actions of a history that is one move longer
LEMMA OneMoreMove ==
  ASSUME NEW w \in DOMAIN Workflows, NEW h \in Seq(Moves), NEW move \in Moves,
         IsMove(Workflows[w], move), \A k \in DOMAIN h : IsMove(Workflows[w], h[k]),
         HistoryActions(Workflows[w], h) \in Seq(Actions)
  PROVE  /\ HistoryActions(Workflows[w], Append(h, move))
              = HistoryActions(Workflows[w], h) \o MoveActions(Workflows[w], move)
         /\ HistoryActions(Workflows[w], Append(h, move)) \in Seq(Actions)
         /\ \A k \in DOMAIN Append(h, move) : IsMove(Workflows[w], Append(h, move)[k])
<1> DEFINE d == Workflows[w]
           Of(s) == [k \in DOMAIN s |-> MoveActions(d, s[k])]
<1>1. \A m : IsMove(d, m) => MoveActions(d, m) \in Seq(Actions)
  BY MoveLists
<1>2. /\ Len(h) \in Nat /\ DOMAIN h = 1 .. Len(h)
      /\ DOMAIN Append(h, move) = 1 .. (Len(h) + 1)
      /\ \A k \in 1 .. Len(h) : Append(h, move)[k] = h[k]
      /\ Append(h, move)[Len(h) + 1] = move
  OBVIOUS
<1> HIDE DEF d
<1>3. ASSUME NEW k \in DOMAIN Append(h, move) PROVE IsMove(d, Append(h, move)[k])
  <2>1. CASE k \in 1 .. Len(h)
    BY <1>2, <2>1 DEF d
  <2>2. CASE k = Len(h) + 1
    BY <1>2, <2>2 DEF d
  <2> QED BY <1>2, <2>1, <2>2
<1>4. Of(h) \in Seq(Seq(Actions)) /\ Len(Of(h)) = Len(h)
  <2>1. \A k \in 1 .. Len(h) : MoveActions(d, h[k]) \in Seq(Actions)
    BY <1>1, <1>2 DEF d
  <2>2. Of(h) = [k \in 1 .. Len(h) |-> MoveActions(d, h[k])]
    BY <1>2
  <2>3. Of(h) \in [1 .. Len(h) -> Seq(Actions)]
    BY <2>1, <2>2
  <2> HIDE DEF Of
  <2> QED BY <1>2, <2>3, FunctionIsSeq
<1>5. MoveActions(d, move) \in Seq(Actions)
  BY <1>1 DEF d
<1>6. Of(Append(h, move)) = Append(Of(h), MoveActions(d, move))
  <2> DEFINE s == Append(h, move)
             t == Append(Of(h), MoveActions(d, move))
  <2>1. t \in Seq(Seq(Actions)) /\ Len(t) = Len(h) + 1
    <3> HIDE DEF Of
    <3> QED BY <1>4, <1>5
  <2>2. \A k \in 1 .. Len(h) : t[k] = Of(h)[k] /\ Of(h)[k] = MoveActions(d, h[k])
    <3>1. \A k \in 1 .. Len(h) : Of(h)[k] = MoveActions(d, h[k])
      BY <1>2
    <3> HIDE DEF Of
    <3> QED BY <1>2, <1>4, <1>5, <3>1, AppendProperties
  <2>3. t[Len(h) + 1] = MoveActions(d, move)
    <3> HIDE DEF Of
    <3> QED BY <1>4, <1>5, AppendProperties
  <2>4. ASSUME NEW k \in 1 .. (Len(h) + 1) PROVE Of(s)[k] = t[k]
    <3>1. Of(s)[k] = MoveActions(d, s[k])
      BY <1>2
    <3> HIDE DEF Of, t
    <3>2. CASE k \in 1 .. Len(h)
      BY <1>2, <2>2, <3>1, <3>2
    <3>3. CASE k = Len(h) + 1
      BY <1>2, <2>3, <3>1, <3>3
    <3> QED BY <1>2, <3>2, <3>3
  <2>5. Of(s) = [k \in 1 .. (Len(h) + 1) |-> Of(s)[k]]
    BY <1>2
  <2>6. t = [k \in 1 .. (Len(h) + 1) |-> t[k]]
    <3> HIDE DEF t
    <3> QED BY <2>1
  <2> HIDE DEF Of, t, s
  <2>7. Of(s) = t
    BY <2>4, <2>5, <2>6
  <2> QED BY <2>7 DEF s, t
<1>7. FlattenSeq(Append(Of(h), MoveActions(d, move))) = FlattenSeq(Of(h)) \o MoveActions(d, move)
  <2> HIDE DEF Of
  <2> QED BY <1>4, <1>5, FlattenAppend
<1>8. HistoryActions(d, h) = FlattenSeq(Of(h))
      /\ HistoryActions(d, Append(h, move)) = FlattenSeq(Of(Append(h, move)))
  BY DEF HistoryActions
<1> HIDE DEF Of
<1>9. HistoryActions(d, Append(h, move)) = HistoryActions(d, h) \o MoveActions(d, move)
  BY <1>6, <1>7, <1>8
<1>10. HistoryActions(d, h) \o MoveActions(d, move) \in Seq(Actions)
  BY <1>5 DEF d
<1> QED BY <1>3, <1>9, <1>10 DEF d

LEMMA NoHistory == ASSUME NEW d PROVE HistoryActions(d, <<>>) = <<>>
<1> DEFINE q == [k \in DOMAIN <<>> |-> MoveActions(d, <<>>[k])]
<1>1. q = <<>>
  OBVIOUS
<1> HIDE DEF q
<1>2. FlattenSeq(q) = <<>>
  BY <1>1 DEF FlattenSeq
<1> QED BY <1>2 DEF HistoryActions, q

LEMMA InitHistories == Init => HistoryInv
<1> SUFFICES ASSUME Init PROVE HistoryInv
  OBVIOUS
<1>1. \A c \in Calls : ~ Busy(calls[c]) /\ ~ Moving(calls[c])
  BY DEF Init, Idle, Between, Busy, Moving
<1>2. \A i \in Ids : inst[i].history = <<>> /\ log[i] = <<>>
  BY Zenon DEF Init, Unregistered
<1>3. \A d : HistoryActions(d, <<>>) = <<>> /\ <<>> \in Seq(Actions) /\ DOMAIN <<>> = {}
  BY NoHistory
<1>4. HistoriesSound
  <2>1. ASSUME NEW i \in Ids
        PROVE  /\ \A k \in DOMAIN inst[i].history : IsMove(Def(i), inst[i].history[k])
               /\ HistoryActions(Def(i), inst[i].history) \in Seq(Actions)
    <3>1. DOMAIN inst[i].history = {}
      BY <1>2, <1>3
    <3>2. HistoryActions(Def(i), inst[i].history) = <<>>
      BY <1>2, <1>3
    <3> QED BY <1>3, <3>1, <3>2
  <2> QED BY <1>1, <2>1 DEF HistoriesSound
<1>5. LogSound
  BY <1>2, <1>3, <1>1 DEF LogSound
<1> QED BY <1>4, <1>5 DEF HistoryInv

\* Steps that leave histories, logs and the work of the calls as they are
LEMMA HistoriesKept ==
  ASSUME IInv, HistoryInv, UNCHANGED <<serial, workflow, log>>,
         \A i \in Ids : inst'[i].history = inst[i].history,
         \A d \in Calls : SameWork(calls[d], calls'[d])
                          /\ (Busy(calls[d]) => calls'[d].rest = calls[d].rest)
  PROVE  HistoryInv'
<1>1. ASSUME NEW i \in Ids PROVE Def(i)' = Def(i)
  BY DEF Def
<1>2. ASSUME NEW d \in Calls, Busy(calls'[d])
      PROVE  /\ Busy(calls[d]) /\ calls'[d].id = calls[d].id /\ calls[d].id \in Ids
             /\ calls'[d].move = calls[d].move /\ calls'[d].stage = calls[d].stage
             /\ calls'[d].rest = calls[d].rest
  BY <1>2, TypeFacts DEF IInv, SameWork, CallOK, Busy
<1>3. HistoriesSound'
  <2>1. ASSUME NEW i \in Ids
        PROVE  /\ \A k \in DOMAIN inst'[i].history : IsMove(Def(i)', inst'[i].history[k])
               /\ HistoryActions(Def(i)', inst'[i].history) \in Seq(Actions)
    BY <1>1 DEF HistoryInv, HistoriesSound
  <2>2. ASSUME NEW c \in Calls, Moving(calls'[c])
        PROVE  IsMove(Workflows[workflow'[calls'[c].id]], calls'[c].move)
    <3>1. Moving(calls[c]) /\ calls'[c].id = calls[c].id /\ calls'[c].move = calls[c].move
      BY <1>2, <2>2 DEF Moving
    <3>2. IsMove(Workflows[workflow[calls[c].id]], calls[c].move)
      BY Zenon, <3>1 DEF HistoryInv, HistoriesSound, Def
    <3> QED BY <3>1, <3>2
  <2> QED BY <2>1, <2>2 DEF HistoriesSound, Def
<1>4. LogSound'
  <2> SUFFICES ASSUME serial PROVE LogSound'
    BY Zenon DEF LogSound
  <2>1. ASSUME NEW c \in Calls, Busy(calls'[c])
        PROVE  Types(log'[calls'[c].id]) \o Types(calls'[c].rest)
             = Types(HistoryActions(Workflows[workflow'[calls'[c].id]], inst'[calls'[c].id].history))
               \o Types(Ahead(Workflows[workflow'[calls'[c].id]], calls'[c]))
    <3>1. Types(log[calls[c].id]) \o Types(calls[c].rest)
             = Types(HistoryActions(Workflows[workflow[calls[c].id]], inst[calls[c].id].history))
               \o Types(Ahead(Workflows[workflow[calls[c].id]], calls[c]))
      BY <1>2, <2>1 DEF HistoryInv, LogSound, Def
    <3>2. Ahead(Workflows[workflow[calls[c].id]], calls'[c])
            = Ahead(Workflows[workflow[calls[c].id]], calls[c])
      BY <1>2, <2>1 DEF Ahead
    <3> QED BY Zenon, <1>2, <2>1, <3>1, <3>2
  <2>2. ASSUME NEW i \in Ids, \A c \in Calls : Busy(calls'[c]) => calls'[c].id # i
        PROVE  Types(log'[i]) = Types(HistoryActions(Workflows[workflow'[i]], inst'[i].history))
    <3>1. \A c \in Calls : Busy(calls[c]) => calls[c].id # i
      BY Zenon, <2>2 DEF SameWork
    <3>2. Types(log[i]) = Types(HistoryActions(Workflows[workflow[i]], inst[i].history))
      BY <3>1 DEF HistoryInv, LogSound, Def
    <3> QED BY <3>2
  <2> QED BY <2>1, <2>2 DEF LogSound, Def
<1> QED BY <1>3, <1>4 DEF HistoryInv

\* An action that was executed or that failed is logged, and is not owed any longer.
LEMMA LoggedHistories ==
  ASSUME IInv, HistoryInv, NEW c \in Calls,
         NothingToCancel(c) \/ SetsVar(c) \/ CallbackResolves(c) \/ CallbackRejects(c)
  PROVE  HistoryInv'
<1> DEFINE i == calls[c].id
           a == Head(calls[c].rest)
<1>1. /\ Busy(calls[c]) /\ calls[c].rest # <<>> /\ Settled(c)
      /\ UNCHANGED <<serial, workflow, inst>>
  BY TypeFacts DEF IInv, CallOK, NothingToCancel, SetsVar, CallbackResolves, CallbackRejects, Acting, Busy
<1>2. /\ calls[c] \in CallRecords /\ i \in Ids /\ calls[c].rest \in Seq(Actions)
      /\ log \in [Ids -> Seq(LogLines)] /\ log[i] \in Seq(LogLines)
      /\ a \in Actions /\ a.type \in STRING /\ Tail(calls[c].rest) \in Seq(Actions)
  <2>1. CallOK(calls[c], workflow) /\ log \in [Ids -> Seq(LogLines)]
    BY TypeFacts DEF IInv
  <2>2. calls[c] \in CallRecords /\ i \in Ids
    BY <1>1, <2>1 DEF CallOK, Busy
  <2>3. calls[c].rest \in Seq(Actions)
    BY <2>2 DEF CallRecords
  <2>4. a \in Actions /\ a.type \in STRING
    BY <1>1, <2>1, HeadIsAction
  <2>5. Tail(calls[c].rest) \in Seq(Actions)
    BY <1>1, <2>3
  <2> QED BY <2>1, <2>2, <2>3, <2>4, <2>5
<1>3. \E ok, ref : LogAction(i, a, ok, ref)
  BY ZenonT(60) DEF NothingToCancel, SetsVar, CallbackResolves, CallbackRejects, Acting
<1>4. PICK line : line.type = a.type /\ log' = [log EXCEPT ![i] = Append(@, line)]
  <2>1. PICK ok, ref : LogAction(i, a, ok, ref)
    BY <1>3
  <2> DEFINE line == [type |-> a.type, ok |-> ok, ref |-> ref]
  <2>2. line.type = a.type /\ log' = [log EXCEPT ![i] = Append(@, line)]
    BY <2>1 DEF LogAction
  <2> HIDE DEF line
  <2> QED BY <2>2
<1>5. \A d \in Calls : d # c => calls'[d] = calls[d]
  BY <1>1, TypeFacts DEF IInv, Settled
<1>6. /\ Busy(calls'[c]) /\ calls'[c].id = i /\ calls'[c].stage = calls[c].stage
      /\ calls'[c].move = calls[c].move /\ calls'[c].rest = Tail(calls[c].rest)
  <2>1. calls'[c] = [calls[c] EXCEPT !.at = "acting", !.rest = Tail(@), !.ref = 0]
    BY <1>1, TypeFacts DEF IInv, Settled
  <2> QED BY <1>2, <2>1 DEF CallRecords, Busy
<1>7. log'[i] = Append(log[i], line) /\ \A j \in Ids : j # i => log'[j] = log[j]
  BY <1>2, <1>4
<1>8. Types(log'[i]) \o Types(calls'[c].rest) = Types(log[i]) \o Types(calls[c].rest)
  <2> DEFINE L == LogLines \cup {line}
  <2>1. Typed(L) /\ Typed(Actions) /\ line \in L
    BY <1>2, <1>4, ActionsTyped DEF Typed
  <2>2. log[i] \in Seq(L)
    BY <1>2, SeqMonotonic
  <2> HIDE DEF L, i, a
  <2>3. Types(Append(log[i], line)) \o Types(Tail(calls[c].rest)) = Types(log[i]) \o Types(calls[c].rest)
    BY ZenonT(60), <1>1, <1>2, <1>4, <2>1, <2>2, OneMoreLogged DEF a
  <2> QED BY <1>6, <1>7, <2>3
<1> HIDE DEF i, a
<1>9. HistoriesSound'
  <2>1. ASSUME NEW d \in Calls, Moving(calls'[d])
        PROVE  IsMove(Workflows[workflow'[calls'[d].id]], calls'[d].move)
    <3>1. Moving(calls[d]) /\ calls'[d].id = calls[d].id /\ calls'[d].move = calls[d].move
      BY <1>1, <1>5, <1>6, <2>1 DEF Moving, i
    <3>2. IsMove(Workflows[workflow[calls[d].id]], calls[d].move)
      BY Zenon, <3>1 DEF HistoryInv, HistoriesSound, Def
    <3> QED BY <1>1, <3>1, <3>2
  <2> QED BY <1>1, <2>1 DEF HistoryInv, HistoriesSound, Def
<1>10. LogSound'
  <2> SUFFICES ASSUME serial PROVE LogSound'
    BY <1>1 DEF LogSound
  <2>1. \A d \in Calls : d # c => ~ Busy(calls[d]) /\ ~ Busy(calls'[d])
    BY <1>1, <1>5 DEF IInv, OneCall, Busy
  <2>2. Types(log'[i]) \o Types(calls'[c].rest)
             = Types(HistoryActions(Workflows[workflow'[i]], inst'[i].history))
               \o Types(Ahead(Workflows[workflow'[i]], calls'[c]))
    <3>1. Types(log[i]) \o Types(calls[c].rest)
             = Types(HistoryActions(Workflows[workflow[i]], inst[i].history))
               \o Types(Ahead(Workflows[workflow[i]], calls[c]))
      BY <1>1 DEF HistoryInv, LogSound, Def, i
    <3>2. Ahead(Workflows[workflow[i]], calls'[c]) = Ahead(Workflows[workflow[i]], calls[c])
      BY <1>6 DEF Ahead
    <3> QED BY <1>1, <1>8, <3>1, <3>2
  <2>3. ASSUME NEW j \in Ids, \A d \in Calls : Busy(calls'[d]) => calls'[d].id # j
        PROVE  Types(log'[j]) = Types(HistoryActions(Workflows[workflow'[j]], inst'[j].history))
    <3>1. j # i
      BY <1>6, <2>3
    <3>2. \A d \in Calls : Busy(calls[d]) => calls[d].id # j
      BY <2>1, <3>1 DEF i
    <3>3. Types(log[j]) = Types(HistoryActions(Workflows[workflow[j]], inst[j].history))
      BY <3>2 DEF HistoryInv, LogSound, Def
    <3> QED BY <1>1, <1>7, <3>1, <3>3
  <2> QED BY <1>6, <2>1, <2>2, <2>3 DEF LogSound, Def
<1> QED BY Zenon, <1>9, <1>10 DEF HistoryInv

\* A transition taken owes its actions.
LEMMA TakeHistories ==
  ASSUME IInv, HistoryInv, NEW c \in Calls, NEW event, NEW todo \in SUBSET Ids, NEW i \in todo,
         TakeTransition(c, event, todo, i), UNCHANGED <<serial, workflow, log>>,
         ~ Busy(calls[c]), serial => \A d \in Calls : d # c => calls[d].at = "idle"
  PROVE  HistoryInv'
<1>1. /\ inst[i].node \in States(i) /\ workflow[i] \in DOMAIN Workflows /\ i \in Ids
      /\ inst' = [inst EXCEPT ![i].count = @ + 1]
  <2>1. inst[i].node \in States(i)
    BY TakeFacts
  <2>2. i \in Ids /\ workflow[i] \in DOMAIN Workflows
    BY TypeFacts DEF IInv
  <2> QED BY <2>1, <2>2 DEF TakeTransition
<1> PICK t \in Matching(i, event) :
      LET move == <<inst[i].node, t, Transitions(i)[t].next>>
      IN  /\ file' = [file EXCEPT ![i] = Journaled(@, move, inst[i].count + 1)]
          /\ calls' = [calls EXCEPT ![c] =
               [at |-> "acting", event |-> event, todo |-> todo \ {i}, id |-> i,
                stage |-> "transition", move |-> move, rest |-> Transitions(i)[t].actions,
                ref |-> 0]]
  BY Zenon DEF TakeTransition
<1> DEFINE move == <<inst[i].node, t, Transitions(i)[t].next>>
           actions == Transitions(i)[t].actions
<1>2. t \in DOMAIN Transitions(i)
  BY DEF Matching
<1>3. Transitions(i)[t].next \in States(i) \cup {"TERMINAL"}
  BY Zenon, <1>1, <1>2, DefinitionFacts DEF Transitions, States, Def
<1>4. move[1] = inst[i].node /\ move[2] = t /\ move[3] = Transitions(i)[t].next
  BY Zenon
<1>5. IsMove(Def(i), move) /\ actions = Leaving(Def(i), move)
  <2> HIDE DEF move
  <2> QED BY <1>1, <1>2, <1>3, <1>4 DEF IsMove, Leaving, Transitions, States
<1> DEFINE call == [at |-> "acting", event |-> event, todo |-> todo \ {i}, id |-> i,
                    stage |-> "transition", move |-> move, rest |-> actions, ref |-> 0]
<1>6. /\ call.at = "acting" /\ call.id = i /\ call.move = move /\ call.rest = actions
      /\ call.stage = "transition"
  OBVIOUS
<1>7. calls'[c] = call /\ \A d \in Calls : d # c => calls'[d] = calls[d]
  BY TypeFacts DEF IInv
<1> HIDE DEF move, actions, call
<1>8. \A j \in Ids : inst'[j].history = inst[j].history
  <2>1. \A j \in Ids : j # i => inst'[j] = inst[j]
    BY <1>1, TypeFacts DEF IInv
  <2>2. inst'[i] = [inst[i] EXCEPT !.count = @ + 1] /\ inst[i] \in Instances
    BY <1>1, TypeFacts DEF IInv
  <2>3. inst'[i].history = inst[i].history
    BY Zenon, <2>2 DEF Instances
  <2> QED BY <2>1, <2>3
<1>9. HistoriesSound'
  <2>1. ASSUME NEW d \in Calls, Moving(calls'[d])
        PROVE  IsMove(Workflows[workflow'[calls'[d].id]], calls'[d].move)
    <3>1. CASE d = c
      BY <1>5, <1>6, <1>7, <3>1 DEF Def
    <3>2. CASE d # c
      <4>1. Moving(calls[d]) /\ calls'[d] = calls[d]
        BY <1>7, <2>1, <3>2
      <4>2. IsMove(Workflows[workflow[calls[d].id]], calls[d].move)
        BY <4>1 DEF HistoryInv, HistoriesSound, Def
      <4> QED BY <4>1, <4>2
    <3> QED BY <3>1, <3>2
  <2>2. ASSUME NEW j \in Ids
        PROVE  /\ \A k \in DOMAIN inst'[j].history : IsMove(Workflows[workflow'[j]], inst'[j].history[k])
               /\ HistoryActions(Workflows[workflow'[j]], inst'[j].history) \in Seq(Actions)
    BY Zenon, <1>8 DEF HistoryInv, HistoriesSound, Def
  <2> QED BY <2>1, <2>2 DEF HistoriesSound, Def
<1>10. LogSound'
  <2> SUFFICES ASSUME serial PROVE LogSound'
    BY DEF LogSound
  <2>1. \A d \in Calls : ~ Busy(calls[d]) /\ (d # c => ~ Busy(calls'[d]))
    BY <1>7 DEF Busy
  <2>2. \A j \in Ids : Types(log[j]) = Types(HistoryActions(Workflows[workflow[j]], inst[j].history))
    BY <2>1 DEF HistoryInv, LogSound, Def
  <2>3. Ahead(Workflows[workflow[i]], calls'[c]) = actions
    BY <1>5, <1>6, <1>7 DEF Ahead, Def
  <2>4. Types(log'[i]) \o Types(calls'[c].rest)
             = Types(HistoryActions(Workflows[workflow'[i]], inst'[i].history))
               \o Types(Ahead(Workflows[workflow'[i]], calls'[c]))
    BY <1>1, <1>6, <1>7, <1>8, <2>2, <2>3
  <2>5. \A j \in Ids : Types(log'[j]) = Types(HistoryActions(Workflows[workflow'[j]], inst'[j].history))
    BY <1>8, <2>2
  <2>6. \A d \in Calls : Busy(calls'[d]) => d = c /\ calls'[d].id = i
    BY <1>6, <1>7, <2>1
  <2> QED BY ZenonT(60), <2>4, <2>5, <2>6 DEF LogSound, Def
<1> QED BY <1>9, <1>10 DEF HistoryInv

LEMMA TurnHistories ==
  ASSUME IInv, HistoryInv, NEW c \in Calls, NEW event \in Events \cup {NoEvent},
         NEW todo \in SUBSET Ids, Turn(c, event, todo),
         ~ Busy(calls[c]), serial => \A d \in Calls : d # c => calls[d].at = "idle"
  PROVE  HistoryInv'
<1> PICK i \in todo :
      \/ /\ PassOver(i, event) \/ HaltRunaway(i)
         /\ calls' = [calls EXCEPT ![c] = Onward(event, todo \ {i})]
      \/ TakeTransition(c, event, todo, i)
  BY DEF Turn
<1>1. UNCHANGED <<serial, workflow, log>>
  BY DEF Turn
<1>2. CASE calls' = [calls EXCEPT ![c] = Onward(event, todo \ {i})] /\ (PassOver(i, event) \/ HaltRunaway(i))
  <2>1. ~ Busy(Onward(event, todo \ {i}))
    BY OnwardOK DEF Busy
  <2>2. \A d \in Calls : SameWork(calls[d], calls'[d])
                         /\ (Busy(calls[d]) => calls'[d].rest = calls[d].rest)
    BY <1>2, <2>1, TypeFacts DEF IInv, SameWork
  <2>3. \A j \in Ids : inst'[j].history = inst[j].history
    <3>1. CASE PassOver(i, event)
      BY <3>1 DEF PassOver
    <3>2. CASE HaltRunaway(i)
      <4>1. Halted(inst[i], "runaway").history = inst[i].history
        BY TypeFacts, HaltedFields DEF IInv
      <4>2. inst' = [inst EXCEPT ![i] = Halted(inst[i], "runaway")]
        BY <3>2 DEF HaltRunaway
      <4>3. \A j \in Ids : inst'[j] = IF j = i THEN Halted(inst[i], "runaway") ELSE inst[j]
        BY <4>2, TypeFacts DEF IInv
      <4> QED BY <4>1, <4>3
    <3> QED BY <1>2, <3>1, <3>2
  <2> QED BY <1>1, <2>2, <2>3, HistoriesKept
<1>3. CASE TakeTransition(c, event, todo, i)
  BY <1>1, <1>3, TakeHistories
<1> QED BY <1>2, <1>3

\* Once the actions of a transition are done its move is in the history, which then stands
\* for the entry actions as well.
LEMMA MoveDone ==
  ASSUME NEW w \in DOMAIN Workflows, NEW h \in Seq(Moves), NEW move \in Moves,
         IsMove(Workflows[w], move), \A k \in DOMAIN h : IsMove(Workflows[w], h[k]),
         HistoryActions(Workflows[w], h) \in Seq(Actions), NEW l \in Seq(LogLines),
         Types(l) \o Types(<<>>)
           = Types(HistoryActions(Workflows[w], h)) \o Types(Leaving(Workflows[w], move))
  PROVE  Types(l) \o Types(Entering(Workflows[w], move))
           = Types(HistoryActions(Workflows[w], Append(h, move)))
<1> DEFINE H == HistoryActions(Workflows[w], h)
           s == Leaving(Workflows[w], move)
           t == Entering(Workflows[w], move)
<1>0. Typed(Actions) /\ Typed(LogLines)
  BY ActionsTyped
<1>1. s \in Seq(Actions) /\ t \in Seq(Actions) /\ MoveActions(Workflows[w], move) = s \o t
  BY MoveLists
<1>2. HistoryActions(Workflows[w], Append(h, move)) = H \o (s \o t)
  BY <1>1, OneMoreMove
<1>3. H \in Seq(Actions)
  OBVIOUS
<1>a. Types(l) \o Types(<<>>) = Types(H) \o Types(s)
  OBVIOUS
<1> HIDE DEF H, s, t
<1>4. Types(H \o (s \o t)) = Types(H) \o (Types(s) \o Types(t))
  <2>1. Types(s \o t) = Types(s) \o Types(t)
    BY ONLY <1>0, <1>1, TypesConcat
  <2>2. s \o t \in Seq(Actions)
    BY ONLY <1>1, ConcatProperties
  <2>3. Types(H \o (s \o t)) = Types(H) \o Types(s \o t)
    BY ONLY <1>0, <1>3, <2>2, TypesConcat
  <2> QED BY ONLY <2>1, <2>3
<1>5. /\ Types(H) \in Seq(STRING) /\ Types(s) \in Seq(STRING) /\ Types(t) \in Seq(STRING)
      /\ Types(l) \in Seq(STRING)
  <2>1. \A q \in Seq(Actions) : Types(q) \in Seq(STRING)
    BY ONLY <1>0, TypesType
  <2>2. Types(l) \in Seq(STRING)
    BY <1>0, TypesType
  <2>3. Types(H) \in Seq(STRING)
    BY ONLY <1>3, <2>1
  <2>4. Types(s) \in Seq(STRING) /\ Types(t) \in Seq(STRING)
    BY ONLY <1>1, <2>1
  <2> QED BY ONLY <2>2, <2>3, <2>4
<1>6. Types(H) \o (Types(s) \o Types(t)) = (Types(H) \o Types(s)) \o Types(t)
  BY ONLY <1>5, TypesAssociate
<1>7. Types(H) \o Types(s) = Types(l)
  <2>1. Types(l) \o <<>> = Types(l)
    BY ONLY <1>5, ConcatEmptySeq
  <2> QED BY ONLY <1>a, <2>1, TypesOfNone
<1>8. Types(l) \o Types(t) = Types(HistoryActions(Workflows[w], Append(h, move)))
  BY ONLY <1>2, <1>4, <1>6, <1>7
<1> QED BY <1>8 DEF t

LEMMA EndHistories ==
  ASSUME IInv, HistoryInv, NEW c \in Calls, Terminate(c) \/ Advance(c) \/ EntryDone(c)
  PROVE  HistoryInv'
<1> DEFINE i == calls[c].id
           move == calls[c].move
           h == inst[i].history
<1>1. /\ Busy(calls[c]) /\ i \in Ids /\ move \in Moves /\ calls[c].rest = <<>>
      /\ calls[c].event \in Events \cup {NoEvent} /\ calls[c].todo \in SUBSET Ids
      /\ calls[c] \in CallRecords
  BY TypeFacts DEF IInv, Terminate, Advance, EntryDone, Acted, CallOK, CallRecords, Busy
<1>2. UNCHANGED <<serial, workflow, log>>
  BY DEF Terminate, Advance, EntryDone
<1>3. inst[i] \in Instances /\ h \in Seq(Moves) /\ workflow[i] \in DOMAIN Workflows
      /\ log[i] \in Seq(LogLines)
  BY Zenon, <1>1, TypeFacts DEF IInv, Instances
<1>4. \A d \in Calls : d # c => calls'[d] = calls[d]
  BY TypeFacts DEF IInv, Terminate, Advance, EntryDone
<1>5. calls' = [calls EXCEPT ![c] = Onward(calls[c].event, calls[c].todo)] => ~ Busy(calls'[c])
  BY <1>1, OnwardOK, TypeFacts DEF IInv, Busy
<1>6. \A j \in Ids : j # i => inst'[j] = inst[j]
  BY <1>1, TypeFacts DEF IInv, Terminate, Advance, EntryDone, Acted
<1>7. /\ Entered(inst[i], move) \in Instances
      /\ Entered(inst[i], move).history = Append(h, move)
  BY <1>1, <1>3, EnteredFields
<1>8. ASSUME NEW r \in Instances PROVE CapReached(r, i).history = r.history
  BY HaltedFields DEF CapReached
<1>9. serial => \A d \in Calls : d # c => ~ Busy(calls[d]) /\ ~ Busy(calls'[d])
  BY <1>1, <1>4 DEF IInv, OneCall, Busy
<1>10. /\ \A k \in DOMAIN h : IsMove(Workflows[workflow[i]], h[k])
       /\ HistoryActions(Workflows[workflow[i]], h) \in Seq(Actions)
  BY <1>1 DEF HistoryInv, HistoriesSound, Def
<1>11. Moving(calls[c]) => IsMove(Workflows[workflow[i]], move)
  BY Zenon DEF HistoryInv, HistoriesSound, Def
<1>12. serial => Types(log[i]) \o Types(<<>>)
               = Types(HistoryActions(Workflows[workflow[i]], h))
                 \o Types(Ahead(Workflows[workflow[i]], calls[c]))
  BY <1>1 DEF HistoryInv, LogSound, Def
\* what the history of i must be for the invariant to hold again
<1>13. ASSUME ~ Moving(calls'[c]), Busy(calls'[c]) => calls'[c].id = i,
              \A k \in DOMAIN inst'[i].history : IsMove(Workflows[workflow[i]], inst'[i].history[k]),
              HistoryActions(Workflows[workflow[i]], inst'[i].history) \in Seq(Actions),
              serial =>
                IF Busy(calls'[c])
                THEN Types(log[i]) \o Types(calls'[c].rest)
                       = Types(HistoryActions(Workflows[workflow[i]], inst'[i].history))
                ELSE Types(log[i]) = Types(HistoryActions(Workflows[workflow[i]], inst'[i].history))
       PROVE  HistoryInv'
  <2> HIDE DEF i, move, h
  <2>1. HistoriesSound'
    <3>1. ASSUME NEW d \in Calls, Moving(calls'[d])
          PROVE  IsMove(Workflows[workflow'[calls'[d].id]], calls'[d].move)
      <4>1. d # c /\ Moving(calls[d]) /\ calls'[d] = calls[d]
        BY <1>4, <1>13, <3>1
      <4>2. IsMove(Workflows[workflow[calls[d].id]], calls[d].move)
        BY <4>1 DEF HistoryInv, HistoriesSound, Def
      <4> QED BY <1>2, <4>1, <4>2
    <3>2. ASSUME NEW j \in Ids
          PROVE  /\ \A k \in DOMAIN inst'[j].history : IsMove(Workflows[workflow'[j]], inst'[j].history[k])
                 /\ HistoryActions(Workflows[workflow'[j]], inst'[j].history) \in Seq(Actions)
      <4>1. CASE j = i
        BY <1>2, <1>13, <4>1
      <4>2. CASE j # i
        BY Zenon, <1>2, <1>6, <4>2 DEF HistoryInv, HistoriesSound, Def
      <4> QED BY <4>1, <4>2
    <3> QED BY <3>1, <3>2 DEF HistoriesSound, Def
  <2>2. LogSound'
    <3> SUFFICES ASSUME serial PROVE LogSound'
      BY <1>2 DEF LogSound
    <3>1. ASSUME Busy(calls'[c])
          PROVE  Types(log'[i]) \o Types(calls'[c].rest)
             = Types(HistoryActions(Workflows[workflow'[i]], inst'[i].history))
               \o Types(Ahead(Workflows[workflow'[i]], calls'[c]))
      <4>1. Ahead(Workflows[workflow'[i]], calls'[c]) = <<>>
        BY <1>13, <3>1 DEF Ahead, Moving
      <4> DEFINE H == HistoryActions(Workflows[workflow[i]], inst'[i].history)
      <4>2. Types(H) \in Seq(STRING)
        BY <1>13, TypesType, ActionsTyped
      <4>3. Types(log[i]) \o Types(calls'[c].rest) = Types(H)
        BY <1>13, <3>1
      <4> HIDE DEF H
      <4>4. Types(H) \o <<>> = Types(H)
        BY <4>2, ConcatEmptySeq
      <4>5. H = HistoryActions(Workflows[workflow'[i]], inst'[i].history)
        BY <1>2 DEF H
      <4> QED BY <1>2, <4>1, <4>3, <4>4, <4>5, TypesOfNone
    <3>2. ASSUME NEW j \in Ids, \A d \in Calls : Busy(calls'[d]) => calls'[d].id # j
          PROVE  Types(log'[j]) = Types(HistoryActions(Workflows[workflow'[j]], inst'[j].history))
      <4>1. CASE j = i
        <5>1. ~ Busy(calls'[c])
          BY <1>13, <3>2, <4>1
        <5> QED BY <1>2, <1>13, <4>1, <5>1
      <4>2. CASE j # i
        <5>1. \A d \in Calls : Busy(calls[d]) => calls[d].id # j
          BY <1>9, <4>2 DEF i
        <5>2. Types(log[j]) = Types(HistoryActions(Workflows[workflow[j]], inst[j].history))
          BY <5>1 DEF HistoryInv, LogSound, Def
        <5> QED BY <1>2, <1>6, <4>2, <5>2
      <4> QED BY <4>1, <4>2
    <3>3. \A d \in Calls : Busy(calls'[d]) => d = c /\ calls'[d].id = i
      BY <1>9, <1>13
    <3> QED BY <3>1, <3>2, <3>3 DEF LogSound, Def
  <2> QED BY <2>1, <2>2 DEF HistoryInv
\* the ends of a transition: its move is appended
<1>14. ASSUME Moving(calls[c]), inst'[i].history = Append(h, move), ~ Moving(calls'[c]),
              NEW t, t = Entering(Workflows[workflow[i]], move),
              IF Busy(calls'[c]) THEN calls'[c].id = i /\ calls'[c].rest = t ELSE t = <<>>
       PROVE  HistoryInv'
  <2> DEFINE w == workflow[i]
             l == log[i]
  <2>1. Ahead(Workflows[w], calls[c]) = Leaving(Workflows[w], move)
    BY <1>14 DEF Ahead, Moving
  <2>2. /\ w \in DOMAIN Workflows /\ h \in Seq(Moves) /\ move \in Moves /\ l \in Seq(LogLines)
        /\ IsMove(Workflows[w], move)
        /\ HistoryActions(Workflows[w], h) \in Seq(Actions)
        /\ \A k \in DOMAIN h : IsMove(Workflows[w], h[k])
    BY Zenon, <1>1, <1>3, <1>10, <1>11, <1>14
  <2>3. serial => Types(l) \o Types(<<>>)
                 = Types(HistoryActions(Workflows[w], h)) \o Types(Leaving(Workflows[w], move))
    BY Zenon, <1>12, <2>1
  <2> HIDE DEF i, h, move, w, l
  <2>4. serial => Types(l) \o Types(Entering(Workflows[w], move))
                 = Types(HistoryActions(Workflows[w], Append(h, move)))
    BY ONLY <2>2, <2>3, MoveDone
  <2>5. /\ HistoryActions(Workflows[w], Append(h, move)) \in Seq(Actions)
        /\ \A k \in DOMAIN Append(h, move) : IsMove(Workflows[w], Append(h, move)[k])
    BY ONLY <2>2, OneMoreMove
  <2>6. Types(l) \o Types(<<>>) = Types(l)
    <3>1. Types(l) \in Seq(STRING)
      BY ONLY <2>2, TypesType, ActionsTyped
    <3> QED BY ONLY <3>1, TypesOfNone, ConcatEmptySeq
  <2> QED BY <1>13, <1>14, <2>4, <2>5, <2>6 DEF w, l
<1>15. CASE Terminate(c)
  <2>1. /\ inst' = [inst EXCEPT ![i] = [Entered(inst[i], move) EXCEPT !.status = "terminal"]]
        /\ Moving(calls[c]) /\ move[3] = "TERMINAL"
        /\ calls' = [calls EXCEPT ![c] = Onward(calls[c].event, calls[c].todo)]
    BY <1>1, <1>15 DEF Terminate, Acted, Moving
  <2>2. inst'[i] = [Entered(inst[i], move) EXCEPT !.status = "terminal"]
    BY Zenon, <1>1, <2>1, TypeFacts DEF IInv
  <2>3. inst'[i].history = Append(h, move)
    BY Zenon, <1>7, <2>2 DEF Instances
  <2>4. ~ Busy(calls'[c]) /\ ~ Moving(calls'[c])
    BY <1>5, <2>1 DEF Moving
  <2>5. Entering(Workflows[workflow[i]], move) = <<>>
    BY <2>1 DEF Entering
  <2> HIDE DEF i, h, move
  <2> QED BY <1>14, <2>1, <2>3, <2>4, <2>5
<1>16. CASE Advance(c) /\ Entry(i, move[3]) # <<>>
  <2>1. /\ inst' = [inst EXCEPT ![i] = Entered(inst[i], move)] /\ move[3] # "TERMINAL"
        /\ calls' = [calls EXCEPT ![c].stage = "entry", ![c].rest = Entry(i, move[3])]
        /\ Moving(calls[c])
    BY <1>1, <1>16 DEF Advance, Acted, Moving
  <2>2. calls'[c] = [calls[c] EXCEPT !.stage = "entry", !.rest = Entry(i, move[3])]
    BY <2>1, TypeFacts DEF IInv
  <2>3. calls'[c].stage = "entry" /\ calls'[c].id = i /\ calls'[c].rest = Entry(i, move[3])
    BY <1>1, <2>2 DEF CallRecords
  <2>4. Busy(calls'[c]) /\ ~ Moving(calls'[c])
    BY Zenon, <1>1, <2>2, <2>3 DEF CallRecords, Busy, Moving
  <2>5. inst'[i].history = Append(h, move)
    BY Zenon, <1>1, <1>7, <2>1, TypeFacts DEF IInv
  <2>6. Entry(i, move[3]) = Entering(Workflows[workflow[i]], move)
    BY <2>1 DEF Entry, Def, Entering
  <2> HIDE DEF i, h, move
  <2> QED BY <1>14, <2>1, <2>3, <2>4, <2>5, <2>6
<1>17. CASE Advance(c) /\ Entry(i, move[3]) = <<>>
  <2>1. /\ inst' = [inst EXCEPT ![i] = CapReached(Entered(inst[i], move), i)] /\ move[3] # "TERMINAL"
        /\ calls' = [calls EXCEPT ![c] = Onward(calls[c].event, calls[c].todo)]
        /\ Moving(calls[c])
    BY Zenon, <1>1, <1>17 DEF Advance, Acted, Moving
  <2>2. inst'[i].history = Append(h, move)
    BY <1>1, <1>7, <1>8, <2>1, TypeFacts DEF IInv
  <2>3. ~ Busy(calls'[c]) /\ ~ Moving(calls'[c])
    BY <1>5, <2>1 DEF Moving
  <2>4. Entry(i, move[3]) = Entering(Workflows[workflow[i]], move)
    BY <2>1 DEF Entry, Def, Entering
  <2> HIDE DEF i, h, move
  <2> QED BY <1>14, <1>17, <2>1, <2>2, <2>3, <2>4
<1>18. CASE EntryDone(c)
  <2>1. /\ inst' = [inst EXCEPT ![i] = CapReached(inst[i], i)] /\ calls[c].stage = "entry"
        /\ calls' = [calls EXCEPT ![c] = Onward(calls[c].event, calls[c].todo)]
    BY <1>1, <1>18 DEF EntryDone, Acted
  <2>2. inst'[i].history = h
    BY <1>1, <1>3, <1>8, <2>1, TypeFacts DEF IInv
  <2>3. ~ Busy(calls'[c]) /\ ~ Moving(calls'[c])
    BY <1>5, <2>1 DEF Moving
  <2>4. Ahead(Workflows[workflow[i]], calls[c]) = <<>>
    BY <2>1 DEF Ahead
  <2> DEFINE H == HistoryActions(Workflows[workflow[i]], h)
  <2>5. serial => Types(log[i]) = Types(H)
    <3>1. log[i] \in Seq(LogLines) /\ H \in Seq(Actions)
      BY Zenon, <1>3, <1>10
    <3>2. serial => Types(log[i]) \o <<>> = Types(H) \o <<>>
      BY Zenon, <1>12, <2>4, TypesOfNone
    <3> DEFINE l == log[i]
    <3> HIDE DEF H, l
    <3>3. Types(l) \in Seq(STRING)
      BY <3>1, TypesType, ActionsTyped DEF l
    <3>4. Types(H) \in Seq(STRING)
      BY <3>1, TypesType, ActionsTyped
    <3>5. Types(l) \o <<>> = Types(l)
      BY ONLY <3>3, ConcatEmptySeq
    <3>6. Types(H) \o <<>> = Types(H)
      BY ONLY <3>4, ConcatEmptySeq
    <3> QED BY <3>2, <3>5, <3>6 DEF l
  <2>6. /\ \A k \in DOMAIN inst'[i].history : IsMove(Workflows[workflow[i]], inst'[i].history[k])
        /\ HistoryActions(Workflows[workflow[i]], inst'[i].history) \in Seq(Actions)
        /\ serial => Types(log[i]) = Types(HistoryActions(Workflows[workflow[i]], inst'[i].history))
    BY <1>10, <2>2, <2>5
  <2> HIDE DEF i, h, move, H
  <2> QED BY <1>13, <2>3, <2>6
<1> QED BY Zenon, <1>15, <1>16, <1>17, <1>18

LEMMA HistoryStep == IInv /\ HistoryInv /\ [Next]_state => HistoryInv'
<1> SUFFICES ASSUME IInv, HistoryInv, [Next]_state PROVE HistoryInv'
  OBVIOUS
<1>1. ASSUME UNCHANGED <<serial, workflow, log, calls>>,
             \A i \in Ids : inst'[i].history = inst[i].history
      PROVE  HistoryInv'
  <2>1. \A d \in Calls : SameWork(calls[d], calls'[d])
                         /\ (Busy(calls[d]) => calls'[d].rest = calls[d].rest)
    BY <1>1 DEF SameWork
  <2> QED BY <1>1, <2>1, HistoriesKept
<1>2. CASE UNCHANGED state
  BY <1>1, <1>2 DEF state
<1>3. ASSUME NEW i \in Ids, Register(i) \/ Cancel(i) PROVE HistoryInv'
  <2>1. \/ inst' = [inst EXCEPT ![i] = Started(inst[i])]
        \/ inst' = [inst EXCEPT ![i] = Halted(inst[i], "canceled")]
    BY <1>3 DEF Register, Cancel
  <2>2. /\ Started(inst[i]).history = inst[i].history
        /\ Halted(inst[i], "canceled").history = inst[i].history
    BY TypeFacts, StartedFields, HaltedFields DEF IInv
  <2>3. \A j \in Ids : inst'[j].history = inst[j].history
    BY <2>1, <2>2, TypeFacts DEF IInv
  <2>4. UNCHANGED <<serial, workflow, log, calls>>
    BY <1>3 DEF Register, Cancel
  <2> QED BY <1>1, <2>3, <2>4
<1>4. ASSUME NEW c \in Calls, calls[c].at # "idle"
      PROVE  serial => \A d \in Calls : d # c => calls[d].at = "idle"
  BY <1>4 DEF IInv, OneCall
<1>5. ASSUME NEW c \in Calls, NextTurn(c) PROVE HistoryInv'
  <2>1. /\ calls[c].at = "turn" /\ calls[c].event \in Events \cup {NoEvent}
        /\ calls[c].todo \in SUBSET Ids
    BY <1>5, TypeFacts DEF IInv, NextTurn, CallRecords
  <2>2. ~ Busy(calls[c]) /\ Turn(c, calls[c].event, calls[c].todo)
    BY <1>5, <2>1 DEF NextTurn, Busy
  <2>3. serial => \A d \in Calls : d # c => calls[d].at = "idle"
    BY <1>4, <2>1
  <2> QED BY <2>1, <2>2, <2>3, TurnHistories
<1>6. ASSUME NEW c \in Calls, NEW event \in Events, HandleEvent(c, event) PROVE HistoryInv'
  <2> DEFINE active == {i \in Ids : Active(i)}
  <2>1. /\ Turn(c, event, active) /\ calls[c].at = "idle"
        /\ serial => \A d \in Calls : d # c => calls[d].at = "idle"
    BY <1>6 DEF HandleEvent
  <2>2. ~ Busy(calls[c]) /\ active \in SUBSET Ids
    BY <2>1 DEF Busy
  <2> HIDE DEF active
  <2> QED BY <2>1, <2>2, TurnHistories
<1>7. ASSUME NEW c \in Calls, CallBack(c) PROVE HistoryInv'
  <2>0. PICK ref : calls' = [calls EXCEPT ![c].at = "waiting", ![c].ref = ref]
    BY <1>7 DEF CallBack
  <2>1. \A d \in Calls : d # c => calls'[d] = calls[d]
    BY <2>0, TypeFacts DEF IInv
  <2>2. calls'[c] = [calls[c] EXCEPT !.at = "waiting", !.ref = ref] /\ calls[c] \in CallRecords
        /\ calls[c].at = "acting"
    BY <1>7, <2>0, TypeFacts DEF IInv, CallBack, Acting
  <2>3. SameWork(calls[c], calls'[c]) /\ calls'[c].rest = calls[c].rest
    BY <2>2 DEF SameWork, Busy, CallRecords
  <2>4. \A d \in Calls : SameWork(calls[d], calls'[d])
                         /\ (Busy(calls[d]) => calls'[d].rest = calls[d].rest)
    BY <2>1, <2>3 DEF SameWork
  <2>5. UNCHANGED <<serial, workflow, log, inst>>
    BY <1>7 DEF CallBack
  <2> QED BY <2>4, <2>5, HistoriesKept
<1>8. ASSUME NEW c \in Calls, Proceed(c) PROVE HistoryInv'
  BY <1>5, <1>7, <1>8, LoggedHistories, EndHistories DEF Proceed
<1> QED BY <1>2, <1>3, <1>6, <1>8 DEF Next

\* Every action of every transition taken and of every state entered is executed once and
\* in order (ActionsFollowHistory): for any definitions and any number of instances and
\* events, whatever fails or is canceled, if events are delivered one after the other.
THEOREM ActionsFollow == Spec => []ActionsFollowHistory
<1>1. Spec => []HistoryInv
  BY InitHistories, HistoryStep, Invariance, PTL DEF Spec
<1>2. IInv /\ HistoryInv => ActionsFollowHistory
  <2> SUFFICES ASSUME IInv, HistoryInv, serial, Quiet, NEW i \in Ids
               PROVE  LET owed == HistoryActions(Def(i), inst[i].history)
                      IN  /\ Len(log[i]) = Len(owed)
                          /\ \A k \in DOMAIN log[i] : log[i][k].type = owed[k].type
    BY DEF ActionsFollowHistory
  <2> DEFINE owed == HistoryActions(Def(i), inst[i].history)
  <2>1. Types(log[i]) = Types(owed)
    BY DEF HistoryInv, LogSound, Quiet, Busy
  <2>2. owed \in Seq(Actions) /\ log[i] \in Seq(LogLines)
    BY TypeFacts DEF HistoryInv, HistoriesSound, IInv
  <2> HIDE DEF owed
  <2>3. /\ Len(Types(owed)) = Len(owed) /\ Len(Types(log[i])) = Len(log[i])
        /\ DOMAIN Types(owed) = DOMAIN owed /\ DOMAIN Types(log[i]) = DOMAIN log[i]
    BY <2>2, TypesType, ActionsTyped
  <2>4. ASSUME NEW k \in DOMAIN log[i] PROVE log[i][k].type = owed[k].type
    <3>1. k \in DOMAIN owed
      BY <2>1, <2>3
    <3>2. Types(log[i])[k] = log[i][k].type /\ Types(owed)[k] = owed[k].type
      BY <3>1 DEF Types
    <3> QED BY <2>1, <3>2
  <2> QED BY <2>1, <2>3, <2>4 DEF owed
<1> QED BY <1>1, <1>2, Invariance, PTL
=============================================================================
