------------------------------- MODULE Watcher -------------------------------
(***************************************************************************)
(* The synthetic-order watcher (watcher.ts) with its append-only journal   *)
(* (watcherJournal.ts): operators register and cancel synthetics while one *)
(* tick after another snapshots the armed ones, fetches books, evaluates   *)
(* each one, and runs an exit for those that fire.  The process may be     *)
(* killed between any two journal lines and is then rebuilt by replay.     *)
(*                                                                         *)
(* JavaScript runs a handler to its next await without interruption, so an *)
(* action below is one such stretch.  Its journal lines are issued at once *)
(* and reach the file one by one (WriteLine); until all have, the process  *)
(* does nothing else, but a crash may still cut the sequence short.        *)
(*                                                                         *)
(* The file is represented by what replay() makes of it, the three jXxx    *)
(* variables: replay() is a fold over the lines, and WriteLine is its step. *)
(***************************************************************************)
EXTENDS Evaluators

CONSTANTS
  Synthetic,    \* ids that register() may hand out
  Params,       \* [Synthetic -> record]: kind, ticker, autoCancel and the
                \* evaluator's parameters; legs of a composite
  Bids,         \* top bids a fetched book may show
  FlatThrows,   \* does getPosition throw when no position is held?  TRUE for
                \* KalshiClient, FALSE for the replay client of backtests
  MaxCrashes    \* bound: kill -9 happens at most this often

Kinds == {"stop_loss", "stop_limit", "trailing_stop", "step_trail",
          "take_profit", "time_stop", "oco", "bracket"}

Composite == {s \in Synthetic : Params[s].kind \in {"oco", "bracket"}}

Ticker == {Params[s].ticker : s \in Synthetic}

\* childIds of a composite, in registration order
Leg(c, i) == Params[c].legs[i]

Legs(s) == IF s \in Composite THEN {Leg(s, 1), Leg(s, 2)} ELSE {}

\* A synthetic with a parentId is registered by its parent only.
Root == {s \in Synthetic : \A c \in Composite : s \notin Legs(c)}

\* {s.parentId}, or {} when it is undefined
ParentOf(s) == {c \in Composite : s \in Legs(c)}

ASSUME ParamsAssumption ==
  /\ \A s \in Synthetic :
       /\ Params[s].kind \in Kinds
       /\ Params[s].autoCancel \in BOOLEAN
       /\ Params[s].kind = "take_profit" => DOMAIN Params[s].rungs \subseteq Nat
  /\ \A c \in Composite :               \* two distinct legs, not composite, not
       /\ Leg(c, 1) \in Synthetic       \* shared, that inherit these two fields
       /\ Leg(c, 2) \in Synthetic
       /\ Leg(c, 1) # Leg(c, 2)
       /\ Legs(c) \cap Composite = {}
       /\ \A s \in Legs(c) : /\ Params[s].ticker = Params[c].ticker
                            /\ Params[s].autoCancel = Params[c].autoCancel
       /\ \A d \in Composite : c # d => Legs(c) \cap Legs(d) = {}
  /\ Bids \subseteq Nat

ASSUME SwitchAssumption == FlatThrows \in BOOLEAN /\ MaxCrashes \in Nat

-----------------------------------------------------------------------------

VARIABLES
  status,       \* status of the synthetics Map's entries ("absent": no entry)
  evalState,    \* their evaluator state
  order,        \* the Map's keys, in insertion order
  jStatus,      \* status, state and order that replay() would rebuild from
  jState,       \*   the lines in the file
  jOrder,
  pending,      \* lines issued that have not reached the file
  pc,           \* where the tick stands; "down" after a crash
  queue,        \* the rest of the tick's snapshot of armed synthetics
  books,        \* top bids the tick fetched, per ticker
  flat,         \* tickers whose fetched position was 0
  parentFired,  \* parentFiredThisTick
  firing,       \* {the synthetic whose fire hook is awaited}
  held,         \* is a position held, per ticker (on the exchange)
  exits,        \* how often a synthetic's exit has placed orders (history)
  crashes

memory  == <<status, evalState, order>>
file    == <<jStatus, jState, jOrder>>
journal == <<file, pending>>
tick    == <<pc, queue, books, flat, parentFired, firing>>
world   == <<held, exits, crashes>>
vars    == <<memory, journal, tick, world>>

Outcomes == {"fired", "fire_failed"}
Status   == {"absent", "armed", "canceled"} \cup Outcomes
Places   == {"idle", "fetching", "scanning", "firing", "settled", "down"}

StatusLines == {"registered", "fire_pending", "canceled"} \cup Outcomes

Lines == [type : StatusLines \cup {"state_update"}, id : Synthetic, state : EvalState]

Line(type, s) == [type |-> type, id |-> s, state |-> NoState]

\* The type invariant.
TypeOK ==
  /\ status \in [Synthetic -> Status] /\ jStatus \in [Synthetic -> Status]
  /\ evalState \in [Synthetic -> EvalState] /\ jState \in [Synthetic -> EvalState]
  /\ order \in Seq(Synthetic) /\ jOrder \in Seq(Synthetic)
  /\ pending \in Seq(Lines)
  /\ pc \in Places
  /\ queue \subseteq Synthetic
  /\ books \in [Ticker -> Bids \cup {0}]
  /\ flat \subseteq Ticker
  /\ parentFired \subseteq Composite
  /\ firing \subseteq Synthetic
  /\ held \in [Ticker -> BOOLEAN]
  /\ exits \in [Synthetic -> Nat]
  /\ crashes \in 0 .. MaxCrashes

-----------------------------------------------------------------------------
(* The journal.                                                            *)

\* Mutant: replay() takes the kind of the line for the status.
StatusAfter_Verbatim(type) == IF type = "registered" THEN "armed" ELSE type

\* What replay() makes of a line; fire_pending re-arms, whatever came before.
StatusAfter(type) == IF type \in {"registered", "fire_pending"} THEN "armed" ELSE type

Issue(lines) == pending' = lines /\ UNCHANGED file

Written == pending = <<>>

\* One more line is in the file.  replay() ignores the lines of an unknown id.
WriteLine ==
  LET l     == Head(pending)
      new   == l.type = "registered"
      known == jStatus[l.id] # "absent"
  IN  /\ pc # "down" /\ ~ Written
      /\ pending' = Tail(pending)
      /\ jStatus' = IF l.type \in StatusLines /\ (new \/ known)
                    THEN [jStatus EXCEPT ![l.id] = StatusAfter(l.type)] ELSE jStatus
      /\ jState' = IF new \/ (l.type = "state_update" /\ known)
                   THEN [jState EXCEPT ![l.id] = l.state] ELSE jState
      /\ jOrder' = IF new /\ ~ known THEN Append(jOrder, l.id) ELSE jOrder
      /\ UNCHANGED <<memory, tick, world>>

-----------------------------------------------------------------------------
(* register() and cancel(), called by an operator whenever the event loop  *)
(* is free: between ticks and while the tick awaits books or a fire hook.  *)

Awaiting == Written /\ pc \in {"idle", "fetching", "firing", "settled"}

\* The Map entries, and the journal lines, that registering s adds, in order:
\* the Map holds a composite before its children, the journal after them.
NewEntries(s) == IF s \in Composite THEN <<s, Leg(s, 1), Leg(s, 2)>> ELSE <<s>>

\* Mutant: the composite is journaled before it is expanded.
RegisterLines_ParentFirst(s) ==
  IF s \in Composite
  THEN <<Line("registered", s), Line("registered", Leg(s, 1)), Line("registered", Leg(s, 2))>>
  ELSE <<Line("registered", s)>>

RegisterLines(s) ==
  IF s \in Composite
  THEN <<Line("registered", Leg(s, 1)), Line("registered", Leg(s, 2)), Line("registered", s)>>
  ELSE <<Line("registered", s)>>

\* register() draws fresh ids.
Register(s) ==
  /\ Awaiting
  /\ s \in Root
  /\ \A x \in {s} \cup Legs(s) : status[x] = "absent"
  /\ status' = [x \in Synthetic |-> IF x \in {s} \cup Legs(s) THEN "armed" ELSE status[x]]
  /\ evalState' = [x \in Synthetic |-> IF x \in {s} \cup Legs(s) THEN NoState ELSE evalState[x]]
  /\ order' = order \o NewEntries(s)
  /\ Issue(RegisterLines(s))
  /\ UNCHANGED <<tick, world>>

\* What cancel(s) does to the statuses st: nothing unless s is armed, and a
\* composite takes its armed children along.
Canceled(st, s) ==
  [x \in Synthetic |->
     IF st[s] = "armed" /\ st[x] = "armed" /\ x \in {s} \cup Legs(s)
     THEN "canceled" ELSE st[x]]

CancelLine(st, x) == IF st[x] = "armed" THEN <<Line("canceled", x)>> ELSE <<>>

\* Mutant: the children of a canceled composite are not journaled.
CancelLines_ParentOnly(st, s) == CancelLine(st, s)

CancelLines(st, s) ==
  IF st[s] = "armed" /\ s \in Composite
  THEN <<Line("canceled", s)>> \o CancelLine(st, Leg(s, 1)) \o CancelLine(st, Leg(s, 2))
  ELSE CancelLine(st, s)

Cancel(s) ==
  /\ Awaiting
  /\ status[s] = "armed"
  /\ status' = Canceled(status, s)
  /\ Issue(CancelLines(status, s))
  /\ UNCHANGED <<evalState, order, tick, world>>

-----------------------------------------------------------------------------
(* tick().                                                                 *)

\* Mutant: the snapshot leaves only canceled synthetics out.
Armed_NotCanceled == {s \in Synthetic : status[s] \notin {"absent", "canceled"}}

Armed == {s \in Synthetic : status[s] = "armed"}

\* A tick that finds nothing armed returns at once.
TickBegin ==
  /\ pc = "idle" /\ Written
  /\ Armed # {}
  /\ queue' = Armed
  /\ pc' = "fetching"
  /\ UNCHANGED <<books, flat, parentFired, firing, memory, journal, world>>

Tickers(S) == {Params[s].ticker : s \in S}

\* The tick asks for the position only where a snapshot member auto-cancels.
AsksPosition == Tickers({s \in queue : Params[s].autoCancel})

FetchBooks(b) ==
  /\ pc = "fetching" /\ Written
  /\ FlatThrows => \A t \in AsksPosition : held[t]
  /\ books' = [t \in Ticker |-> IF t \in Tickers(queue) THEN b[t] ELSE 0]
  /\ flat' = {t \in AsksPosition : ~ held[t]}
  /\ pc' = "scanning"
  /\ UNCHANGED <<queue, parentFired, firing, memory, journal, world>>

\* One rejected call rejects the Promise.all: the tick throws, and start()
\* swallows that and waits for the next one.  Any call may fail on the network.
FetchFails ==
  /\ pc = "fetching" /\ Written
  /\ pc' = "idle" /\ queue' = {}
  /\ UNCHANGED <<books, flat, parentFired, firing, memory, journal, world>>

\* s is the next element of the snapshot, which keeps the Map's order.  Whether
\* it is still armed is not asked.
Scanning(s) ==
  /\ pc = "scanning" /\ Written
  /\ s \in queue
  /\ \E i \in DOMAIN order : /\ order[i] = s
                           /\ \A k \in 1 .. (i - 1) : order[k] \notin queue
  /\ queue' = queue \ {s}

\* Mutant: no parentFiredThisTick.
SiblingFired_Never(s) == FALSE

\* The parent of s was fired earlier in this tick.
SiblingFired(s) == ParentOf(s) \cap parentFired # {}

SkipSibling(s) ==
  /\ Scanning(s)
  /\ SiblingFired(s)
  /\ UNCHANGED <<pc, books, flat, parentFired, firing, memory, journal, world>>

\* Mutant: composites are left to their children.
AutoCancels_ChildrenOnly(s) ==
  Params[s].autoCancel /\ ParentOf(s) # {} /\ Params[s].ticker \in flat

AutoCancels(s) == Params[s].autoCancel /\ Params[s].ticker \in flat

AutoCancel(s) ==
  /\ Scanning(s)
  /\ ~ SiblingFired(s)
  /\ AutoCancels(s)
  /\ status' = Canceled(status, s)
  /\ Issue(CancelLines(status, s))
  /\ UNCHANGED <<evalState, order, pc, books, flat, parentFired, firing, world>>

StateLine(s, v) ==
  IF v.update THEN <<[type |-> "state_update", id |-> s, state |-> v.state]>> ELSE <<>>

\* evaluate(), the state update, and either nothing, an unregister or the start
\* of a fire.
Judge(s, late) ==
  LET v == Evaluate(Params[s], evalState[s], books[Params[s].ticker], late)
  IN  /\ Scanning(s)
      /\ ~ SiblingFired(s)
      /\ ~ AutoCancels(s)
      /\ evalState' = IF v.update THEN [evalState EXCEPT ![s] = v.state] ELSE evalState
      /\ IF v.fire
         THEN /\ Issue(StateLine(s, v) \o <<Line("fire_pending", s)>>)
              /\ pc' = "firing" /\ firing' = {s}
              /\ UNCHANGED status
         ELSE /\ Issue(StateLine(s, v) \o (IF v.unregister THEN CancelLines(status, s) ELSE <<>>))
              /\ status' = IF v.unregister THEN Canceled(status, s) ELSE status
              /\ UNCHANGED <<pc, firing>>
      /\ UNCHANGED <<order, books, flat, parentFired, world>>

\* The kinds for which invokeFire runs an exit.  stop_limit needs postLimit,
\* which always throws; time_stop and step_trail have no case and place nothing.
RunsExit(s) == Params[s].kind \in {"stop_loss", "trailing_stop", "take_profit"}

\* The awaited exit sells some or all of the position ...
ExitSells(s) ==
  /\ pc = "firing" /\ Written /\ s \in firing
  /\ RunsExit(s)
  /\ exits' = [exits EXCEPT ![s] = @ + 1]
  /\ \E left \in {held[Params[s].ticker], FALSE} : held' = [held EXCEPT ![Params[s].ticker] = left]
  /\ pc' = "settled"
  /\ UNCHANGED <<queue, books, flat, parentFired, firing, memory, journal, crashes>>

\* ... or places nothing and still resolves: ExitRunner.run reports an error in
\* its loop as lastError, and other kinds never had an exit to run.
HookPlacesNothing(s) ==
  /\ pc = "firing" /\ Written /\ s \in firing
  /\ Params[s].kind # "stop_limit"
  /\ pc' = "settled"
  /\ UNCHANGED <<queue, books, flat, parentFired, firing, memory, journal, world>>

HookThrows(s) ==
  /\ pc = "firing" /\ Written /\ s \in firing
  /\ RunsExit(s) \/ Params[s].kind = "stop_limit"
  /\ status' = [status EXCEPT ![s] = "fire_failed"]
  /\ Issue(<<Line("fire_failed", s)>>)
  /\ pc' = "scanning" /\ firing' = {}
  /\ UNCHANGED <<evalState, order, queue, books, flat, parentFired, world>>

\* The composite that a fired leg s takes along: its parent, if still armed
ArmedParent(s) == {c \in ParentOf(s) : status[c] = "armed"}

Siblings(s) == {b \in Synthetic \ {s} : \E c \in ArmedParent(s) : b \in Legs(c)}

\* Mutant: only the parent and the sibling are updated.
Cascaded_NotSelf(s) ==
  [x \in Synthetic |->
     IF x \in ArmedParent(s) THEN "fired"
     ELSE IF x \in Siblings(s) /\ status[x] = "armed" THEN "canceled"
     ELSE status[x]]

\* After the hook: s is fired, whatever its status became meanwhile; then its
\* armed parent is fired and the armed sibling canceled.
Cascaded(s) ==
  [x \in Synthetic |->
     IF x \in {s} \cup ArmedParent(s) THEN "fired"
     ELSE IF x \in Siblings(s) /\ status[x] = "armed" THEN "canceled"
     ELSE status[x]]

FireDone(s) ==
  /\ pc = "settled" /\ Written /\ s \in firing
  /\ status' = Cascaded(s)
  /\ Issue(IF ArmedParent(s) = {}
           THEN <<Line("fired", s)>>
           ELSE LET c == CHOOSE c \in ArmedParent(s) : TRUE
                    b == CHOOSE b \in Legs(c) : b # s
                IN  <<Line("fired", s), Line("fired", c)>> \o CancelLine(status, b))
  /\ parentFired' = parentFired \cup ArmedParent(s)
  /\ pc' = "scanning" /\ firing' = {}
  /\ UNCHANGED <<evalState, order, queue, books, flat, world>>

TickEnd ==
  /\ pc = "scanning" /\ Written /\ queue = {}
  /\ pc' = "idle" /\ flat' = {} /\ parentFired' = {}
  /\ books' = [t \in Ticker |-> 0]
  /\ UNCHANGED <<queue, firing, memory, journal, world>>

-----------------------------------------------------------------------------
(* The surroundings: the account and kill -9.                              *)

\* Trades outside the watcher open and close positions.
PositionMoves(t) ==
  /\ held' = [held EXCEPT ![t] = ~ @]
  /\ UNCHANGED <<memory, journal, tick, exits, crashes>>

Forget ==
  /\ queue' = {} /\ flat' = {} /\ parentFired' = {} /\ firing' = {}
  /\ books' = [t \in Ticker |-> 0]

\* Lines that had not reached the file are lost, and so is the memory.
Crash ==
  /\ pc # "down" /\ crashes < MaxCrashes
  /\ pending' = <<>>
  /\ status' = [s \in Synthetic |-> "absent"]
  /\ evalState' = [s \in Synthetic |-> NoState]
  /\ order' = <<>>
  /\ pc' = "down" /\ Forget
  /\ crashes' = crashes + 1
  /\ UNCHANGED <<file, held, exits>>

\* Mutant: the daemon starts with an empty map.
Restart_NoReplay ==
  /\ pc = "down"
  /\ pc' = "idle"
  /\ UNCHANGED <<memory, journal, queue, books, flat, parentFired, firing, world>>

\* buildDaemon: replayFromJournal, then the loop starts.
Restart ==
  /\ pc = "down"
  /\ status' = jStatus /\ evalState' = jState /\ order' = jOrder
  /\ pc' = "idle"
  /\ UNCHANGED <<journal, queue, books, flat, parentFired, firing, world>>

-----------------------------------------------------------------------------

Init ==
  /\ status = [s \in Synthetic |-> "absent"] /\ jStatus = status
  /\ evalState = [s \in Synthetic |-> NoState] /\ jState = evalState
  /\ order = <<>> /\ jOrder = <<>> /\ pending = <<>>
  /\ pc = "idle"
  /\ queue = {} /\ flat = {} /\ parentFired = {} /\ firing = {}
  /\ books = [t \in Ticker |-> 0]
  /\ held = [t \in Ticker |-> TRUE]
  /\ exits = [s \in Synthetic |-> 0]
  /\ crashes = 0

Hook(s) == ExitSells(s) \/ HookPlacesNothing(s) \/ HookThrows(s)

Scan(s) ==
  \/ SkipSibling(s)
  \/ AutoCancel(s)
  \/ \E late \in BOOLEAN : Judge(s, late)

Operator == \E s \in Synthetic : Register(s) \/ Cancel(s)

Fetch == \E b \in [Ticker -> Bids] : FetchBooks(b)

Loop ==
  \/ WriteLine
  \/ TickBegin
  \/ Fetch
  \/ \E s \in Synthetic : Scan(s) \/ Hook(s) \/ FireDone(s)
  \/ TickEnd
  \/ Restart

Next ==
  \/ Operator
  \/ Loop
  \/ FetchFails
  \/ \E t \in Ticker : PositionMoves(t)
  \/ Crash

Spec == Init /\ [][Next]_vars

\* The scheduling that liveness rests on.  The loop of start() goes on: timers
\* fire, appended lines reach the file, an exit ends (its orders and its ticks
\* are capped) and a killed daemon is started again.  The network does not fail
\* for ever.  Operators, the account and crashes owe nothing.
FairSpec == Spec /\ WF_vars(Loop) /\ SF_vars(Fetch)

-----------------------------------------------------------------------------
(* What must hold.                                                         *)

MyLines(s, types) == {i \in DOMAIN pending : pending[i].id = s /\ pending[i].type \in types}

\* Only the synthetic whose hook runs may be on file as armed (fire_pending)
\* and canceled in memory: it was canceled after the snapshot, or it will be
\* overwritten with its outcome.
Agrees(onFile, s) ==
  onFile = status[s] \/ (s \in firing /\ onFile = "armed" /\ status[s] = "canceled")

\* A restart loses nothing: once the lines already issued are written, replay()
\* rebuilds the status and the evaluator state that the process has in memory
\* ("every transition writes to the Watcher Journal").
MemoryMatchesJournal ==
  pc # "down" =>
    \A s \in Synthetic :
      /\ \A i \in MyLines(s, StatusLines) : Agrees(StatusAfter(pending[i].type), s)
      /\ MyLines(s, StatusLines) = {} => Agrees(jStatus[s], s)
      /\ \A i \in MyLines(s, {"registered", "state_update"}) : pending[i].state = evalState[s]
      /\ MyLines(s, {"registered", "state_update"}) = {} => jState[s] = evalState[s]

\* No double exit: a synthetic's exit runs at most once in the life of a process,
\* so a synthetic sells twice only when a kill -9 cut off its first exit.
ExitsBounded == \A s \in Synthetic : exits[s] <= crashes + 1

\* Outcomes are final: once fired or fire_failed is on file, before a crash or
\* after it, nothing is sold for the synthetic and no later line revives it.
NoExitAfterOutcome ==
  [][\A s \in Synthetic :
       jStatus[s] \in Outcomes => jStatus'[s] = jStatus[s] /\ exits'[s] = exits[s]]_vars

\* One-cancels-the-other: without a crash both legs of a composite sell only if
\* the composite was canceled while its first leg was being sold.
OneLegUnlessCanceled ==
  crashes = 0 =>
    \A c \in Composite :
      (\A s \in Legs(c) : exits[s] > 0) => status[c] = "canceled"

\* The stop of a trailing or step-trailing stop never loosens, not even across
\* a restart: the peak on file does not fall.
StopNeverLoosens ==
  [][\A s \in Synthetic : jState'[s].peak >= jState[s].peak]_vars

\* The statuses on file obey the lifecycle.
InFlight ==
  queue \cup firing \cup
    {s \in Synthetic \ Composite : MyLines(s, {"fire_pending"} \cup Outcomes) # {}}

Lifecycle == INSTANCE SyntheticLifecycle
  WITH life <- jStatus, inFlight <- InFlight, LegsOf <- [s \in Synthetic |-> Legs(s)]

LifecycleSpec == Lifecycle!Spec

\* A stop whose trigger no bid clears does not stay armed for ever.
AlwaysCrossed(s) ==
  Params[s].kind = "stop_loss" /\ \A b \in Bids : b <= Params[s].trigger

StopResolves ==
  \A s \in Synthetic :
    AlwaysCrossed(s) => (jStatus[s] = "armed" ~> jStatus[s] # "armed")

\* "Auto-cancel when position reaches zero" (mcp.ts:454): once a position is gone
\* for good, no synthetic on it stays armed.
AutoCancelWhenFlat ==
  \A s \in Synthetic :
    Params[s].autoCancel =>
      (<>[](~ held[Params[s].ticker]) => []<>(jStatus[s] # "armed"))

\* "guaranteeing exactly one child fires per OCO" (oco.ts:19)
ExactlyOneLeg ==
  \A c \in Composite : \E s \in Legs(c) : exits[s] = 0
=============================================================================
