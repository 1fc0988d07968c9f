--------------------------- MODULE WatcherProofs ---------------------------
(* Machine-checked theorems about Watcher. *)
EXTENDS Watcher, WellFoundedInduction, SequenceTheorems, TLAPS

-----------------------------------------------------------------------------
(* Evaluators.                                                             *)

\* The smallest element that the multi-rung take-profit chooses exists.
LEMMA NatSetHasMin ==
  ASSUME NEW I \in SUBSET Nat, I # {}
  PROVE  /\ (CHOOSE i \in I : \A k \in I : i <= k) \in I
         /\ \A k \in I : (CHOOSE i \in I : \A j \in I : i <= j) <= k
<1> DEFINE R == {ss \in Nat \X Nat : ss[1] < ss[2]}
<1>1. PICK m \in I : \A k \in I : ~ (<<k, m>> \in R)
  <2>1. IsWellFoundedOn(R, Nat)  BY NatLessThanWellFounded, Zenon DEF OpToRel
  <2> HIDE DEF R
  <2> QED BY <2>1, WFMin
<1>2. \A k \in I : m <= k
  <2> TAKE k \in I
  <2>1. ~ (k < m)  BY <1>1
  <2> QED BY <2>1
<1> QED  BY <1>2

\* A verdict has the type of one, so the evaluator state keeps its type.
LEMMA VerdictType ==
  ASSUME NEW s \in Synthetic, NEW st \in EvalState, NEW bid \in Nat, NEW late \in BOOLEAN
  PROVE  Evaluate(Params[s], st, bid, late) \in Verdicts
<1> DEFINE p == Params[s]
<1> USE DEF EvalState, Verdict, Verdicts
<1> HIDE DEF p
<1>1. EvalStop(p, st, bid) \in Verdicts
  BY DEF EvalStop
<1>2. EvalTrailingStop(p, st, bid) \in Verdicts
  BY DEF EvalTrailingStop, MaxOf, PeakSoFar
<1>3. EvalStepTrail(p, st, bid) \in Verdicts
  BY DEF EvalStepTrail, PeakSoFar
<1>4. EvalSingleTakeProfit(p, st, bid) \in Verdicts
  BY DEF EvalSingleTakeProfit
<1>5. ASSUME DOMAIN p.rungs \subseteq Nat
      PROVE  EvalRungs(p, st, bid) \in Verdicts
  <2> DEFINE unfired == DOMAIN p.rungs \ st.rungs
             next    == CHOOSE i \in unfired : \A k \in unfired : i <= k
             armed   == st.rungs # {} \/ st.armed \/ bid < p.rungs[next]
             reached == {i \in unfired : armed /\ bid >= p.rungs[i]}
             rung    == CHOOSE i \in reached : \A k \in reached : i <= k
  <2>1. reached # {} => rung \in Nat
    <3>1. reached \in SUBSET Nat  BY <1>5
    <3> HIDE DEF reached
    <3> QED BY <3>1, NatSetHasMin
  <2>2. armed \in BOOLEAN  OBVIOUS
  <2> HIDE DEF armed, reached, rung, unfired
  <2>3. EvalRungs(p, st, bid) =
          IF unfired = {} THEN Verdict(FALSE, TRUE, FALSE, st)
          ELSE IF reached = {} THEN Verdict(FALSE, FALSE, TRUE, [st EXCEPT !.armed = armed])
          ELSE Verdict(TRUE, unfired = {rung}, TRUE,
                       [st EXCEPT !.armed = armed, !.rungs = @ \cup {rung}])
    BY Zenon DEF EvalRungs, armed, reached, rung, unfired
  <2>4. [st EXCEPT !.armed = armed] \in EvalState  BY <2>2
  <2>5. rung \in Nat => [st EXCEPT !.armed = armed, !.rungs = @ \cup {rung}] \in EvalState
    BY <2>2
  <2>6. (unfired = {rung}) \in BOOLEAN  OBVIOUS
  <2> HIDE DEF EvalState
  <2> QED BY <2>1, <2>3, <2>4, <2>5, <2>6
<1>6. EvalTimeStop(p, st, bid, late) \in Verdicts
  BY DEF EvalTimeStop
<1>7. Verdict(FALSE, FALSE, FALSE, st) \in Verdicts
  OBVIOUS
<1> QED BY <1>1, <1>2, <1>3, <1>4, <1>5, <1>6, <1>7, ParamsAssumption DEF Evaluate, Kinds, p

-----------------------------------------------------------------------------
(* Short sequences.                                                        *)

\* Appending one line to one line gives two.
LEMMA PairSeq ==
  ASSUME NEW S, NEW x \in S, NEW y \in S
  PROVE  <<x>> \o <<y>> = <<x, y>>
<1>1. <<x>> \in Seq(S) /\ <<y>> \in Seq(S) /\ <<x, y>> \in Seq(S)  OBVIOUS
<1>2. Len(<<x>> \o <<y>>) = 2 /\ \A i \in 1 .. 2 : (<<x>> \o <<y>>)[i] = <<x, y>>[i]
  BY <1>1, ConcatProperties
<1>3. <<x>> \o <<y>> \in Seq(S)  BY <1>1, ConcatProperties
<1> QED BY <1>1, <1>2, <1>3, SeqEqual

\* Appending one line to two gives three.
LEMMA TripleSeq ==
  ASSUME NEW S, NEW x \in S, NEW y \in S, NEW z \in S
  PROVE  <<x, y>> \o <<z>> = <<x, y, z>>
<1>1. <<x, y>> \in Seq(S) /\ <<z>> \in Seq(S) /\ <<x, y, z>> \in Seq(S)  OBVIOUS
<1>2. Len(<<x, y>> \o <<z>>) = 3
      /\ \A i \in 1 .. 3 : (<<x, y>> \o <<z>>)[i] = <<x, y, z>>[i]
  BY <1>1, ConcatProperties
<1>3. <<x, y>> \o <<z>> \in Seq(S)  BY <1>1, ConcatProperties
<1> QED BY <1>1, <1>2, <1>3, SeqEqual

-----------------------------------------------------------------------------
(* Journal lines.                                                          *)

\* Every line the code writes is a line of the journal's type.
LEMMA LineType ==
  ASSUME NEW s \in Synthetic, NEW type \in StatusLines
  PROVE  /\ NoState \in EvalState
         /\ Line(type, s) \in Lines
         /\ <<Line(type, s)>> \in Seq(Lines)
BY DEF NoState, NoPeak, EvalState, Line, Lines

\* Composites are synthetics, and their legs are synthetics that are not composite.
LEMMA LegsType ==
  /\ Composite \subseteq Synthetic
  /\ \A s \in Synthetic : Legs(s) \subseteq Synthetic \ Composite
BY ParamsAssumption DEF Composite, Legs

\* A synthetic has a ticker.
LEMMA TickerType == \A s \in Synthetic : Params[s].ticker \in Ticker
BY DEF Ticker

\* A bid is a natural number, that of an empty book included.
LEMMA BidsType == \A b \in Bids \cup {0} : b \in Nat
BY ParamsAssumption

\* register() issues journal lines, and new keys of the Map are synthetics.
LEMMA RegisterLinesType ==
  ASSUME NEW s \in Synthetic
  PROVE  /\ RegisterLines(s) \in Seq(Lines)
         /\ NewEntries(s) \in Seq(Synthetic)
<1>1. CASE s \in Composite
  <2>1. Leg(s, 1) \in Synthetic /\ Leg(s, 2) \in Synthetic  BY <1>1, ParamsAssumption
  <2>2. \A x \in Synthetic : Line("registered", x) \in Lines  BY LineType DEF StatusLines
  <2> QED BY <1>1, <2>1, <2>2 DEF RegisterLines, NewEntries
<1>2. CASE s \notin Composite
  BY <1>2, LineType DEF RegisterLines, NewEntries, StatusLines
<1> QED BY <1>1, <1>2

\* cancel() journals exactly the synthetics whose status it changes, each once.
LEMMA CancelLinesFacts ==
  ASSUME NEW s \in Synthetic, NEW st
  PROVE  LET L == CancelLines(st, s) IN
         /\ L \in Seq(Lines)
         /\ \A i \in DOMAIN L :
              /\ L[i] = Line("canceled", L[i].id)
              /\ L[i].id \in {s} \cup Legs(s)
              /\ st[s] = "armed" /\ st[L[i].id] = "armed"
         /\ \A i, k \in DOMAIN L : L[i].id = L[k].id => i = k
         /\ \A x \in {s} \cup Legs(s) :
              st[s] = "armed" /\ st[x] = "armed" => \E i \in DOMAIN L : L[i].id = x
<1> DEFINE L == CancelLines(st, s)
           C(x) == Line("canceled", x)
<1>0. \A x \in Synthetic : C(x) \in Lines /\ C(x).id = x
  BY LineType DEF StatusLines, Line
<1>1. CASE ~ (st[s] = "armed" /\ s \in Composite)
  <2>1. L = CancelLine(st, s)  BY <1>1 DEF CancelLines
  <2>2. CASE st[s] = "armed"
    <3>1. L = <<C(s)>> /\ Legs(s) = {}  BY <1>1, <2>1, <2>2 DEF CancelLine, Legs
    <3> HIDE DEF L, C
    <3>2. DOMAIN L = {1} /\ L[1] = C(s) /\ L \in Seq(Lines)  BY <3>1, <1>0
    <3> QED BY <3>1, <3>2, <2>2, <1>0 DEF C, L
  <2>3. CASE st[s] # "armed"
    <3>1. L = << >>  BY <2>1, <2>3 DEF CancelLine
    <3> QED BY <3>1, <2>3
  <2> QED BY <2>2, <2>3
<1>2. CASE st[s] = "armed" /\ s \in Composite
  <2> DEFINE l == Leg(s, 1)  r == Leg(s, 2)
  <2>0. /\ l \in Synthetic /\ r \in Synthetic /\ l # r /\ l # s /\ r # s
        /\ Legs(s) = {l, r}
    BY <1>2, ParamsAssumption DEF Legs
  <2>1. L = <<C(s)>> \o CancelLine(st, l) \o CancelLine(st, r)  BY <1>2 DEF CancelLines
  <2> HIDE DEF C, l, r
  <2>2. CASE st[l] = "armed" /\ st[r] = "armed"
    <3>0. CancelLine(st, l) = <<C(l)>> /\ CancelLine(st, r) = <<C(r)>>
      BY <2>2 DEF CancelLine, C
    <3>1. L = <<C(s), C(l), C(r)>>
      <4>1. C(s) \in Lines /\ C(l) \in Lines /\ C(r) \in Lines  BY <1>0, <2>0
      <4>2. <<C(s)>> \o <<C(l)>> = <<C(s), C(l)>>  BY <4>1, PairSeq
      <4> HIDE DEF L, C
      <4> QED BY ZenonT(60), <2>1, <3>0, <4>1, PairSeq, TripleSeq, <4>2
    <3> HIDE DEF L
    <3>2. /\ DOMAIN L = {1, 2, 3} /\ L \in Seq(Lines)
          /\ L[1] = C(s) /\ L[2] = C(l) /\ L[3] = C(r)
      BY <3>1, <2>0, <1>0
    <3> QED BY <3>2, <2>2, <2>0, <1>2, <1>0 DEF C, L
  <2>3. CASE st[l] = "armed" /\ st[r] # "armed"
    <3>0. CancelLine(st, l) = <<C(l)>> /\ CancelLine(st, r) = << >>
      BY <2>3 DEF CancelLine, C
    <3>1. L = <<C(s), C(l)>>
      <4>1. C(s) \in Lines /\ C(l) \in Lines /\ C(r) \in Lines  BY <1>0, <2>0
      <4> HIDE DEF L
      <4> QED BY <2>1, <3>0, <4>1, PairSeq, TripleSeq
    <3> HIDE DEF L
    <3>2. DOMAIN L = {1, 2} /\ L \in Seq(Lines) /\ L[1] = C(s) /\ L[2] = C(l)
      BY <3>1, <2>0, <1>0
    <3> QED BY <3>2, <2>3, <2>0, <1>2, <1>0 DEF C, L
  <2>4. CASE st[l] # "armed" /\ st[r] = "armed"
    <3>0. CancelLine(st, l) = << >> /\ CancelLine(st, r) = <<C(r)>>
      BY <2>4 DEF CancelLine, C
    <3>1. L = <<C(s), C(r)>>
      <4>1. C(s) \in Lines /\ C(l) \in Lines /\ C(r) \in Lines  BY <1>0, <2>0
      <4> HIDE DEF L
      <4> QED BY <2>1, <3>0, <4>1, PairSeq, TripleSeq
    <3> HIDE DEF L
    <3>2. DOMAIN L = {1, 2} /\ L \in Seq(Lines) /\ L[1] = C(s) /\ L[2] = C(r)
      BY <3>1, <2>0, <1>0
    <3> QED BY <3>2, <2>4, <2>0, <1>2, <1>0 DEF C, L
  <2>5. CASE st[l] # "armed" /\ st[r] # "armed"
    <3>1. L = <<C(s)>>  BY <2>1, <2>5 DEF CancelLine, C
    <3> HIDE DEF L
    <3>2. DOMAIN L = {1} /\ L \in Seq(Lines) /\ L[1] = C(s)
      BY <3>1, <2>0, <1>0
    <3> QED BY <3>2, <2>5, <2>0, <1>2, <1>0 DEF C, L
  <2> QED BY <2>2, <2>3, <2>4, <2>5
<1> QED BY <1>1, <1>2

\* A state update can precede any other lines.
LEMMA JudgeLinesType ==
  ASSUME NEW s \in Synthetic, NEW v \in Verdicts, NEW L \in Seq(Lines)
  PROVE  StateLine(s, v) \o L \in Seq(Lines)
<1>1. [type |-> "state_update", id |-> s, state |-> v.state] \in Lines  BY DEF Lines, Verdicts
<1>2. StateLine(s, v) \in Seq(Lines)  BY <1>1 DEF StateLine
<1> QED BY <1>2, ConcatProperties

\* The journal lines of FireDone
FireDoneLines(s) ==
  IF ArmedParent(s) = {}
  THEN <<Line("fired", s)>>
  ELSE LET c == CHOOSE c \in ArmedParent(s) : TRUE
           b == CHOOSE b \in Legs(c) : b # s
       IN  <<Line("fired", s), Line("fired", c)>> \o CancelLine(status, b)

\* A leg has one parent, which has one other leg.
LEMMA FamilyFacts ==
  ASSUME NEW s \in Synthetic, ArmedParent(s) # {}
  PROVE  \E c \in Composite, b \in Synthetic \ Composite :
           /\ ArmedParent(s) = {c} /\ c = CHOOSE d \in ArmedParent(s) : TRUE
           /\ b = CHOOSE d \in Legs(c) : d # s
           /\ Legs(c) = {s, b} /\ b # s /\ s \notin Composite /\ c # s /\ c # b
           /\ status[c] = "armed"
           /\ Siblings(s) = {b}
<1>1. PICK c : c \in ArmedParent(s)  OBVIOUS
<1>2. c \in Composite /\ s \in Legs(c) /\ status[c] = "armed"
  BY <1>1 DEF ArmedParent, ParentOf
<1>3. ArmedParent(s) = {c}
  BY <1>1, <1>2, ParamsAssumption DEF ArmedParent, ParentOf
<1>4. PICK b : Legs(c) = {s, b} /\ b # s /\ b \in Synthetic
  BY <1>2, ParamsAssumption DEF Legs
<1>5. b = CHOOSE d \in Legs(c) : d # s  BY <1>4
<1>6. Siblings(s) = {b}  BY <1>3, <1>4 DEF Siblings
<1>7. b \notin Composite /\ s \notin Composite  BY <1>2, <1>4, ParamsAssumption
<1> QED BY <1>2, <1>3, <1>4, <1>5, <1>6, <1>7

-----------------------------------------------------------------------------
(* The type invariant.                                                     *)

\* The initial state is well typed.
LEMMA InitType == Init => TypeOK
BY ParamsAssumption, SwitchAssumption
   DEF Init, TypeOK, NoState, NoPeak, EvalState, Status, Places

\* A step keeps the types.
LEMMA NextType == TypeOK /\ [Next]_vars => TypeOK'
<1> SUFFICES ASSUME TypeOK, [Next]_vars PROVE TypeOK'
  OBVIOUS
<1> USE DEF TypeOK
<1>1. CASE WriteLine
  <2> DEFINE l == Head(pending)
  <2>1. l \in Lines /\ Tail(pending) \in Seq(Lines)
    BY <1>1, HeadTailProperties DEF WriteLine, Written
  <2>2. l.type \in StatusLines => StatusAfter(l.type) \in Status
    BY DEF StatusAfter, StatusLines, Status, Outcomes
  <2>3. l.id \in Synthetic /\ l.state \in EvalState
    BY <2>1 DEF Lines
  <2>4. Append(jOrder, l.id) \in Seq(Synthetic)  BY <2>3
  <2> HIDE DEF l
  <2>5. /\ jStatus' \in [Synthetic -> Status]
        /\ jState' \in [Synthetic -> EvalState]
        /\ jOrder' \in Seq(Synthetic)
    BY <1>1, <2>2, <2>3, <2>4 DEF WriteLine, l
  <2> QED BY <1>1, <2>1, <2>5 DEF WriteLine, l, memory, tick, world
<1>2. ASSUME NEW s \in Synthetic, Register(s) PROVE TypeOK'
  <2>1. NoState \in EvalState  BY DEF NoState, NoPeak, EvalState
  <2>2. order' \in Seq(Synthetic) /\ pending' \in Seq(Lines)
    BY <1>2, RegisterLinesType, ConcatProperties DEF Register, Issue
  <2>3. status' \in [Synthetic -> Status] /\ evalState' \in [Synthetic -> EvalState]
    BY <1>2, <2>1 DEF Register, Status
  <2> QED BY <1>2, <2>2, <2>3 DEF Register, Issue, file, tick, world
<1>3. \A s \in Synthetic : Canceled(status, s) \in [Synthetic -> Status]
  BY DEF Canceled, Status
<1>4. ASSUME NEW s \in Synthetic, Cancel(s) PROVE TypeOK'
  BY <1>3, <1>4, CancelLinesFacts DEF Cancel, Issue, file, tick, world
<1>5. CASE TickBegin
  BY <1>5 DEF TickBegin, Armed, memory, journal, file, world, Places
<1>6. CASE Fetch
  <2> PICK b \in [Ticker -> Bids] : FetchBooks(b)  BY <1>6 DEF Fetch
  <2>1. books' \in [Ticker -> Bids \cup {0}]  BY DEF FetchBooks
  <2>2. flat' \subseteq Ticker  BY DEF FetchBooks, AsksPosition, Tickers, Ticker
  <2> QED BY <2>1, <2>2 DEF FetchBooks, memory, journal, file, world, Places
<1>7. CASE FetchFails
  BY <1>7 DEF FetchFails, memory, journal, file, world, Places
<1>8. ASSUME NEW s \in Synthetic, SkipSibling(s) PROVE TypeOK'
  BY <1>8 DEF SkipSibling, Scanning, memory, journal, file, world
<1>9. ASSUME NEW s \in Synthetic, AutoCancel(s) PROVE TypeOK'
  BY <1>3, <1>9, CancelLinesFacts DEF AutoCancel, Scanning, Issue, file, world
<1>10. ASSUME NEW s \in Synthetic, NEW late \in BOOLEAN, Judge(s, late) PROVE TypeOK'
  <2> DEFINE v == Evaluate(Params[s], evalState[s], books[Params[s].ticker], late)
             L == IF v.unregister THEN CancelLines(status, s) ELSE <<>>
  <2>1. v \in Verdicts
    <3>1. books[Params[s].ticker] \in Bids \cup {0}  BY TickerType
    <3>2. books[Params[s].ticker] \in Nat  BY <3>1, BidsType
    <3> QED BY <3>2, VerdictType
  <2> HIDE DEF v
  <2>2. evalState' \in [Synthetic -> EvalState]
    BY <1>10, <2>1 DEF Judge, v, Verdicts
  <2>3. pending' \in Seq(Lines)
    <3>1. L \in Seq(Lines)  BY CancelLinesFacts
    <3>2. <<Line("fire_pending", s)>> \in Seq(Lines)  BY LineType DEF StatusLines
    <3>3. \/ pending' = StateLine(s, v) \o <<Line("fire_pending", s)>>
          \/ pending' = StateLine(s, v) \o L
      BY <1>10 DEF Judge, Issue, v
    <3> HIDE DEF L
    <3>4. StateLine(s, v) \o L \in Seq(Lines)  BY <2>1, <3>1, JudgeLinesType
    <3>5. StateLine(s, v) \o <<Line("fire_pending", s)>> \in Seq(Lines)
      BY <2>1, <3>2, JudgeLinesType
    <3> QED BY <3>3, <3>4, <3>5
  <2>4. status' \in [Synthetic -> Status] /\ pc' \in Places /\ firing' \subseteq Synthetic
    BY <1>3, <1>10 DEF Judge, Places
  <2>5. queue' \subseteq Synthetic  BY Zenon, <1>10 DEF Judge, Scanning
  <2>6. UNCHANGED <<order, books, flat, parentFired, world, file>>
    BY <1>10 DEF Judge, Issue
  <2> QED BY <2>2, <2>3, <2>4, <2>5, <2>6 DEF file, world
<1>11. ASSUME NEW s \in Synthetic, ExitSells(s) PROVE TypeOK'
  <2>1. held[Params[s].ticker] \in BOOLEAN  BY TickerType
  <2>2. held' \in [Ticker -> BOOLEAN]  BY <1>11, <2>1 DEF ExitSells
  <2>3. exits' \in [Synthetic -> Nat]  BY <1>11 DEF ExitSells
  <2> QED BY <1>11, <2>2, <2>3 DEF ExitSells, memory, journal, file, Places
<1>12. ASSUME NEW s \in Synthetic, HookPlacesNothing(s) PROVE TypeOK'
  BY <1>12 DEF HookPlacesNothing, memory, journal, file, world, Places
<1>13. ASSUME NEW s \in Synthetic, HookThrows(s) PROVE TypeOK'
  <2>1. pending' \in Seq(Lines)
    BY <1>13, LineType DEF HookThrows, Issue, StatusLines, Outcomes
  <2> QED BY <1>13, <2>1 DEF HookThrows, Issue, file, world, Status, Outcomes, Places
<1>14. ASSUME NEW s \in Synthetic, FireDone(s) PROVE TypeOK'
  <2>1. FireDoneLines(s) \in Seq(Lines)
    <3>1. \A x \in Synthetic : Line("fired", x) \in Lines /\ Line("canceled", x) \in Lines
      BY LineType DEF StatusLines, Outcomes
    <3>2. CASE ArmedParent(s) = {}
      BY <3>1, <3>2 DEF FireDoneLines
    <3>3. CASE ArmedParent(s) # {}
      <4>1. PICK c \in Composite, b \in Synthetic :
              FireDoneLines(s) = <<Line("fired", s), Line("fired", c)>> \o CancelLine(status, b)
        <5>1. PICK c \in Composite, b \in Synthetic \ Composite :
                /\ c = CHOOSE d \in ArmedParent(s) : TRUE
                /\ b = CHOOSE d \in Legs(c) : d # s
          BY ZenonT(60), <3>3, FamilyFacts
        <5> QED BY ZenonT(60), <3>3, <5>1 DEF FireDoneLines
      <4>2. CancelLine(status, b) \in Seq(Lines)  BY <3>1 DEF CancelLine
      <4>3. <<Line("fired", s), Line("fired", c)>> \in Seq(Lines)  BY <3>1, LegsType
      <4> QED BY <4>1, <4>2, <4>3, ConcatProperties
    <3> QED BY <3>2, <3>3
  <2>2. pending' = FireDoneLines(s)  BY <1>14 DEF FireDone, Issue, FireDoneLines
  <2>3. status' \in [Synthetic -> Status]
    BY <1>14 DEF FireDone, Cascaded, Status, Outcomes
  <2>4. parentFired' \subseteq Composite
    BY <1>14 DEF FireDone, ArmedParent, ParentOf
  <2> QED BY <1>14, <2>1, <2>2, <2>3, <2>4 DEF FireDone, Issue, file, world, Places
<1>15. CASE TickEnd
  BY <1>15 DEF TickEnd, memory, journal, file, world, Places
<1>16. ASSUME NEW t \in Ticker, PositionMoves(t) PROVE TypeOK'
  BY <1>16 DEF PositionMoves, memory, journal, file, tick
<1>17. CASE Crash
  <2>1. NoState \in EvalState  BY DEF NoState, NoPeak, EvalState
  <2> QED BY <1>17, <2>1, SwitchAssumption DEF Crash, Forget, file, Places, Status
<1>18. CASE Restart
  BY <1>18 DEF Restart, journal, file, world, Places
<1>19. CASE UNCHANGED vars
  BY <1>19 DEF vars, memory, journal, file, tick, world
<1> QED
  BY <1>1, <1>2, <1>4, <1>5, <1>6, <1>7, <1>8, <1>9, <1>10, <1>11, <1>12, <1>13, <1>14,
     <1>15, <1>16, <1>17, <1>18, <1>19
  DEF Next, Operator, Loop, Scan, Hook

\* In every behaviour of the watcher, whatever the synthetics, the bids and the
\* number of crashes, each variable keeps its type.
THEOREM TypeCorrect == Spec => []TypeOK
<1>1. Init => TypeOK  BY InitType
<1>2. TypeOK /\ [Next]_vars => TypeOK'  BY NextType
<1> QED BY <1>1, <1>2, PTL DEF Spec

-----------------------------------------------------------------------------
(* The inductive invariant.                                                *)

\* At most one hook runs, for a leaf whose outcome is open.
FiringInv ==
  /\ firing # {} <=> pc \in {"firing", "settled"}
  /\ \A s, t \in firing : s = t
  /\ \A s \in firing : s \notin Composite /\ status[s] \in {"armed", "canceled"}

\* So is the outcome of the leaves that the tick has still to look at.
QueueInv ==
  /\ queue # {} => pc \in {"fetching", "scanning", "firing", "settled"}
  /\ queue \cap firing = {}
  /\ \A s \in queue : status[s] # "absent"
  /\ \A s \in queue : s \in Composite \/ status[s] \in {"armed", "canceled"}

\* Line i is preceded, among the pending ones, by such a line for x.
Earlier(i, x, type) == \E k \in 1 .. (i - 1) : pending[k].id = x /\ pending[k].type = type

\* What a line that has not been written says about the lines before it.
LineInv(i) ==
  LET type == pending[i].type
      id   == pending[i].id
  IN  /\ type = "registered" =>
           /\ jStatus[id] = "absent"
           /\ \A x \in Legs(id) : jStatus[x] # "absent" \/ Earlier(i, x, "registered")
      /\ type # "registered" => jStatus[id] # "absent"
      /\ type = "canceled" => jStatus[id] = "armed"
      /\ type = "fire_pending" => id \in firing /\ jStatus[id] \in {"armed", "canceled"}
      /\ type = "fire_failed" => id \notin Composite
      /\ type \in Outcomes /\ id \notin Composite =>
           id \notin queue \cup firing /\ jStatus[id] \in {"armed", "canceled"}
      /\ type = "fired" /\ id \in Composite =>
           /\ jStatus[id] = "armed"
           /\ \E x \in Legs(id) : jStatus[x] = "fired" \/ Earlier(i, x, "fired")

PendingInv ==
  /\ pc = "down" => Written
  /\ \A i \in DOMAIN pending : LineInv(i)
  /\ \A i, k \in DOMAIN pending :
       /\ pending[i].id = pending[k].id
       /\ pending[i].type \in StatusLines /\ pending[k].type \in StatusLines
       => i = k

\* The inductive invariant.
IInv == TypeOK /\ FiringInv /\ QueueInv /\ PendingInv /\ MemoryMatchesJournal

\* Between two journal lines memory and file agree.
LEMMA Synced ==
  ASSUME IInv, Written, pc # "down"
  PROVE  \A s \in Synthetic : Agrees(jStatus[s], s) /\ jState[s] = evalState[s]
<1> TAKE s \in Synthetic
<1>1. \A T : MyLines(s, T) = {}  BY DEF MyLines, Written
<1> QED BY <1>1 DEF IInv, MemoryMatchesJournal

\* One more line in the file keeps the invariant.
LEMMA WriteLineStep == IInv /\ WriteLine => IInv'
<1> SUFFICES ASSUME IInv, WriteLine PROVE IInv'
  OBVIOUS
<1> DEFINE l == Head(pending)
<1>1. /\ pending \in Seq(Lines) /\ pending # << >> /\ pending[1] = l
      /\ jStatus \in [Synthetic -> Status] /\ jState \in [Synthetic -> EvalState]
  BY DEF IInv, TypeOK, WriteLine, Written
<1>2. /\ Len(pending') = Len(pending) - 1 /\ Len(pending) \in Nat \ {0}
      /\ DOMAIN pending = 1 .. Len(pending) /\ DOMAIN pending' = 1 .. Len(pending')
      /\ \A i \in DOMAIN pending' : pending'[i] = pending[i + 1]
  <2>1. pending' = Tail(pending)  BY DEF WriteLine
  <2> QED BY <1>1, <2>1, HeadTailProperties, LenProperties, EmptySeq
<1>3. l.id \in Synthetic /\ LineInv(1) /\ 1 \in DOMAIN pending
  <2>1. 1 \in DOMAIN pending  BY <1>2
  <2>2. LineInv(1)  BY <2>1 DEF IInv, PendingInv
  <2>3. l \in Lines  BY <1>1, HeadTailProperties
  <2> QED BY <2>1, <2>2, <2>3 DEF Lines
<1>4. /\ UNCHANGED <<status, evalState, order, pc, queue, firing>>
      /\ pc # "down"
  BY DEF WriteLine, memory, tick
<1>5. l.type \in StatusLines => jStatus' = [jStatus EXCEPT ![l.id] = StatusAfter(l.type)]
  BY <1>1, <1>3 DEF WriteLine, LineInv
<1>6. l.type \notin StatusLines => jStatus' = jStatus
  BY DEF WriteLine, StatusLines
<1>7. \A x \in Synthetic :
        /\ jStatus[x] # "absent" => jStatus'[x] # "absent"
        /\ jStatus[x] \in Outcomes => jStatus'[x] = jStatus[x]
  <2>1. StatusAfter(l.type) # "absent" \/ l.type \notin StatusLines
    BY DEF StatusAfter, StatusLines, Outcomes
  <2>2. l.type \in StatusLines => jStatus[l.id] \notin Outcomes
    BY <1>1, <1>3 DEF LineInv, StatusLines, Outcomes
  <2> QED BY <1>1, <1>3, <1>5, <1>6, <2>1, <2>2
<1>8. TypeOK'  BY NextType DEF IInv, Next, Loop
<1>9. FiringInv' /\ QueueInv'
  BY <1>4 DEF IInv, FiringInv, QueueInv
<1>10. PendingInv'
  <2>1. (pc = "down" => Written)'  BY <1>4
  <2>2. ASSUME NEW i \in DOMAIN pending'  PROVE LineInv(i)'
    <3> DEFINE m == pending[i + 1]
    <3>1. /\ m = pending'[i] /\ i + 1 \in DOMAIN pending /\ LineInv(i + 1)
          /\ i \in Nat /\ i >= 1
      BY <1>2, <2>2 DEF IInv, PendingInv
    <3>2. m \in Lines  BY <1>1, <1>2, <3>1, ElementOfSeq
    <3>3. m.type \in StatusLines => (jStatus'[m.id] = jStatus[m.id])
      <4>1. m.type \in StatusLines /\ l.type \in StatusLines => m.id # l.id
        BY <1>1, <1>2, <1>3, <3>1 DEF IInv, PendingInv
      <4>2. m.id \in Synthetic  BY <3>2 DEF Lines
      <4> HIDE DEF m, l
      <4> QED BY <1>1, <1>5, <1>6, <4>1, <4>2
    <3>4. ASSUME NEW x \in Synthetic, Earlier(i + 1, x, "registered")
          PROVE  jStatus'[x] # "absent" \/ Earlier(i, x, "registered")'
      <4>1. PICK k \in 1 .. i : pending[k].id = x /\ pending[k].type = "registered"
        BY <3>1, <3>4 DEF Earlier
      <4>2. CASE k = 1
        BY <1>1, <1>5, <4>1, <4>2 DEF StatusLines, StatusAfter
      <4>3. CASE k # 1
        <5>1. k - 1 \in 1 .. (i - 1) /\ k - 1 \in DOMAIN pending'
          BY <1>2, <2>2, <3>1, <4>1, <4>3
        <5>2. pending'[k - 1] = pending[k]  BY <1>2, <5>1
        <5> QED BY <4>1, <5>1, <5>2 DEF Earlier
      <4> QED BY <4>2, <4>3
    <3>5. ASSUME NEW x \in Synthetic, Earlier(i + 1, x, "fired")
          PROVE  jStatus'[x] = "fired" \/ Earlier(i, x, "fired")'
      <4>1. PICK k \in 1 .. i : pending[k].id = x /\ pending[k].type = "fired"
        BY <3>1, <3>5 DEF Earlier
      <4>2. CASE k = 1
        BY <1>1, <1>5, <4>1, <4>2 DEF StatusLines, StatusAfter, Outcomes
      <4>3. CASE k # 1
        <5>1. k - 1 \in 1 .. (i - 1) /\ k - 1 \in DOMAIN pending'
          BY <1>2, <2>2, <3>1, <4>1, <4>3
        <5>2. pending'[k - 1] = pending[k]  BY <1>2, <5>1
        <5> QED BY <4>1, <5>1, <5>2 DEF Earlier
      <4> QED BY <4>2, <4>3
    <3>6. m.id \in Synthetic /\ Legs(m.id) \subseteq Synthetic
      BY <3>2, LegsType DEF Lines
    <3> HIDE DEF m, l
    <3>7. (m.type = "registered" =>
             /\ jStatus'[m.id] = "absent"
             /\ \A x \in Legs(m.id) : jStatus'[x] # "absent" \/ Earlier(i, x, "registered")')
      BY <1>7, <3>1, <3>3, <3>4, <3>6 DEF LineInv, StatusLines, m
    <3>8. m.type = "fired" /\ m.id \in Composite =>
             /\ jStatus'[m.id] = "armed"
             /\ \E x \in Legs(m.id) : jStatus'[x] = "fired" \/ Earlier(i, x, "fired")'
      BY <1>7, <3>1, <3>3, <3>5, <3>6 DEF LineInv, StatusLines, Outcomes, m
    <3>9. /\ m.type # "registered" => jStatus'[m.id] # "absent"
          /\ m.type = "canceled" => jStatus'[m.id] = "armed"
          /\ m.type = "fire_pending" => m.id \in firing' /\ jStatus'[m.id] \in {"armed", "canceled"}
          /\ m.type = "fire_failed" => m.id \notin Composite
          /\ m.type \in Outcomes /\ m.id \notin Composite =>
               m.id \notin queue' \cup firing' /\ jStatus'[m.id] \in {"armed", "canceled"}
      BY <1>4, <1>7, <3>1, <3>3, <3>6 DEF LineInv, StatusLines, m
    <3> QED BY <3>1, <3>7, <3>8, <3>9 DEF LineInv
  <2>3. ASSUME NEW i \in DOMAIN pending', NEW k \in DOMAIN pending',
               pending'[i].id = pending'[k].id,
               pending'[i].type \in StatusLines, pending'[k].type \in StatusLines
        PROVE  i = k
    <3>1. i + 1 \in DOMAIN pending /\ k + 1 \in DOMAIN pending /\ i \in Nat /\ k \in Nat
      BY <1>2, <2>3
    <3>2. i + 1 = k + 1  BY <1>2, <2>3, <3>1 DEF IInv, PendingInv
    <3> QED BY <3>1, <3>2
  <2> QED BY <2>1, <2>2, <2>3 DEF PendingInv
<1>11. MemoryMatchesJournal'
  <2> SUFFICES ASSUME NEW s \in Synthetic
      PROVE
        (/\ \A i \in MyLines(s, StatusLines) : Agrees(StatusAfter(pending[i].type), s)
         /\ MyLines(s, StatusLines) = {} => Agrees(jStatus[s], s)
         /\ \A i \in MyLines(s, {"registered", "state_update"}) : pending[i].state = evalState[s]
         /\ MyLines(s, {"registered", "state_update"}) = {} => jState[s] = evalState[s])'
    BY DEF MemoryMatchesJournal
  <2>1. /\ \A i \in MyLines(s, StatusLines) : Agrees(StatusAfter(pending[i].type), s)
        /\ MyLines(s, StatusLines) = {} => Agrees(jStatus[s], s)
        /\ \A i \in MyLines(s, {"registered", "state_update"}) : pending[i].state = evalState[s]
        /\ MyLines(s, {"registered", "state_update"}) = {} => jState[s] = evalState[s]
    BY <1>4 DEF IInv, MemoryMatchesJournal
  <2>2. \A o : Agrees(o, s)' <=> Agrees(o, s)  BY <1>4 DEF Agrees
  <2>3. \A T : \A i \in MyLines(s, T)' : i + 1 \in MyLines(s, T) /\ pending'[i] = pending[i + 1]
    BY <1>2 DEF MyLines
  <2>4. \A T : MyLines(s, T)' = {} => MyLines(s, T) \subseteq {1}
    <3> SUFFICES ASSUME NEW T, NEW j \in MyLines(s, T), j # 1
                 PROVE  MyLines(s, T)' # {}
      OBVIOUS
    <3>1. j - 1 \in DOMAIN pending' /\ pending'[j - 1] = pending[j]
      BY <1>2 DEF MyLines
    <3> QED BY <3>1 DEF MyLines
  <2>5. (\A i \in MyLines(s, StatusLines) : Agrees(StatusAfter(pending[i].type), s))'
    BY <1>4, <2>1, <2>3 DEF Agrees
  <2>6. ASSUME MyLines(s, StatusLines)' = {}  PROVE Agrees(jStatus[s], s)'
    <3>1. CASE MyLines(s, StatusLines) = {}
      <4>1. l.type \in StatusLines => l.id # s
        BY <1>1, <1>3, <3>1 DEF MyLines
      <4>2. jStatus'[s] = jStatus[s]  BY <1>1, <1>5, <1>6, <4>1
      <4> QED BY <2>1, <2>2, <3>1, <4>2 DEF Agrees
    <3>2. CASE MyLines(s, StatusLines) # {}
      <4>1. 1 \in MyLines(s, StatusLines)  BY <2>4, <2>6, <3>2
      <4>2. l.id = s /\ l.type \in StatusLines /\ Agrees(StatusAfter(l.type), s)
        BY <1>1, <2>1, <4>1 DEF MyLines
      <4>3. jStatus'[s] = StatusAfter(l.type)  BY <1>1, <1>5, <4>2
      <4> QED BY <2>2, <4>2, <4>3 DEF Agrees
    <3> QED BY <3>1, <3>2
  <2>7. (\A i \in MyLines(s, {"registered", "state_update"}) : pending[i].state = evalState[s])'
    BY <1>4, <2>1, <2>3
  <2>8. ASSUME MyLines(s, {"registered", "state_update"})' = {}
        PROVE  jState'[s] = evalState'[s]
    <3>1. jState' = IF l.type \in {"registered", "state_update"}
                    THEN [jState EXCEPT ![l.id] = l.state] ELSE jState
      BY <1>1, <1>3 DEF WriteLine, LineInv
    <3>2. CASE MyLines(s, {"registered", "state_update"}) = {}
      <4>1. l.type \in {"registered", "state_update"} => l.id # s
        BY <1>1, <1>3, <3>2 DEF MyLines
      <4>2. jState'[s] = jState[s]  BY <1>1, <3>1, <4>1
      <4> QED BY <1>4, <2>1, <3>2, <4>2
    <3>3. CASE MyLines(s, {"registered", "state_update"}) # {}
      <4>1. 1 \in MyLines(s, {"registered", "state_update"})  BY <2>4, <2>8, <3>3
      <4>2. l.id = s /\ l.type \in {"registered", "state_update"} /\ l.state = evalState[s]
        BY <1>1, <2>1, <4>1 DEF MyLines
      <4> QED BY <1>1, <1>4, <3>1, <4>2
    <3> QED BY <3>2, <3>3
  <2> QED BY <2>5, <2>6, <2>7, <2>8
<1> QED BY <1>8, <1>9, <1>10, <1>11 DEF IInv

\* A handler that issues a line for all it changes keeps memory and journal
\* together.
LEMMA IssueMatches ==
  ASSUME IInv, Written, pc # "down", pending' \in Seq(Lines),
         UNCHANGED <<jStatus, jState>>,
         \A i \in DOMAIN pending' :
           pending'[i].type \in StatusLines =>
             LET st == StatusAfter(pending'[i].type)
                 x  == pending'[i].id
             IN  st = status'[x] \/ (x \in firing' /\ st = "armed" /\ status'[x] = "canceled"),
         \A i \in DOMAIN pending' :
           pending'[i].type \in {"registered", "state_update"} =>
             pending'[i].state = evalState'[pending'[i].id],
         \A x \in Synthetic :
           \/ \E i \in DOMAIN pending' : pending'[i].id = x /\ pending'[i].type \in StatusLines
           \/ status'[x] = status[x] /\ (x \in firing => x \in firing'),
         \A x \in Synthetic :
           \/ \E i \in DOMAIN pending' :
                pending'[i].id = x /\ pending'[i].type \in {"registered", "state_update"}
           \/ evalState'[x] = evalState[x]
  PROVE  MemoryMatchesJournal'
<1> SUFFICES ASSUME NEW s \in Synthetic
    PROVE
      (/\ \A i \in MyLines(s, StatusLines) : Agrees(StatusAfter(pending[i].type), s)
       /\ MyLines(s, StatusLines) = {} => Agrees(jStatus[s], s)
       /\ \A i \in MyLines(s, {"registered", "state_update"}) : pending[i].state = evalState[s]
       /\ MyLines(s, {"registered", "state_update"}) = {} => jState[s] = evalState[s])'
  BY DEF MemoryMatchesJournal
<1>1. Agrees(jStatus[s], s) /\ jState[s] = evalState[s]  BY Synced
<1>2. (\A i \in MyLines(s, StatusLines) : Agrees(StatusAfter(pending[i].type), s))'
  BY DEF MyLines, Agrees
<1>3. (MyLines(s, StatusLines) = {} => Agrees(jStatus[s], s))'
  BY <1>1 DEF MyLines, Agrees
<1>4. (\A i \in MyLines(s, {"registered", "state_update"}) : pending[i].state = evalState[s])'
  BY DEF MyLines
<1>5. (MyLines(s, {"registered", "state_update"}) = {} => jState[s] = evalState[s])'
  BY <1>1 DEF MyLines
<1> QED BY <1>2, <1>3, <1>4, <1>5

\* What cancel() does, alone or after a state update, keeps the invariant.
LEMMA CancelEffect ==
  ASSUME IInv, Written, pc # "down", TypeOK',
         UNCHANGED <<jStatus, jState, pc, firing>>,
         queue' \subseteq queue,
         \A i \in DOMAIN pending' :
           LET x == pending'[i].id
           IN  /\ status[x] # "absent" /\ x \in Synthetic
               /\ \/ pending'[i].type = "state_update" /\ pending'[i].state = evalState'[x]
                  \/ /\ pending'[i].type = "canceled"
                     /\ status[x] = "armed" /\ status'[x] = "canceled",
         \A i, k \in DOMAIN pending' :
           /\ pending'[i].type = "canceled" /\ pending'[k].type = "canceled"
           /\ pending'[i].id = pending'[k].id
           => i = k,
         \A x \in Synthetic :
           \/ status'[x] = status[x]
           \/ /\ status'[x] = "canceled" /\ status[x] = "armed"
              /\ \E i \in DOMAIN pending' : pending'[i].id = x /\ pending'[i].type = "canceled",
         \A x \in Synthetic :
           \/ evalState'[x] = evalState[x]
           \/ \E i \in DOMAIN pending' : pending'[i].id = x /\ pending'[i].type = "state_update"
  PROVE  IInv'
<1>1. MemoryMatchesJournal'
  <2>1. pending' \in Seq(Lines)  BY DEF TypeOK
  <2>2. \A i \in DOMAIN pending' :
          pending'[i].type \in StatusLines => StatusAfter(pending'[i].type) = status'[pending'[i].id]
    BY DEF StatusLines, StatusAfter, Outcomes
  <2>3. \A i \in DOMAIN pending' :
          pending'[i].type \in {"registered", "state_update"} =>
            pending'[i].state = evalState'[pending'[i].id]
    OBVIOUS
  <2>4. "canceled" \in StatusLines  BY DEF StatusLines
  <2> QED BY <2>1, <2>2, <2>3, <2>4, IssueMatches
<1>2. FiringInv'
  BY DEF IInv, FiringInv, TypeOK
<1>3. QueueInv'
  BY DEF IInv, QueueInv, TypeOK
<1>4. PendingInv'
  <2>1. ASSUME NEW i \in DOMAIN pending'  PROVE LineInv(i)'
    <3> DEFINE x == pending'[i].id
    <3>1. Agrees(jStatus[x], x)  BY Synced
    <3>2. jStatus[x] # "absent"  BY <3>1 DEF Agrees
    <3>3. status[x] = "armed" => jStatus[x] = "armed"  BY <3>1 DEF Agrees
    <3> QED BY <3>2, <3>3 DEF LineInv, Outcomes
  <2>2. \A i, k \in DOMAIN pending' :
          /\ pending'[i].id = pending'[k].id
          /\ pending'[i].type \in StatusLines /\ pending'[k].type \in StatusLines
          => i = k
    BY DEF StatusLines, Outcomes
  <2> QED BY <2>1, <2>2 DEF PendingInv
<1> QED BY <1>1, <1>2, <1>3, <1>4 DEF IInv

\* cancel(), by the operator or by the tick, keeps the invariant.
LEMMA CancelStep ==
  ASSUME NEW s \in Synthetic, IInv, TypeOK', Written, pc # "down",
         UNCHANGED <<evalState, pc, firing, jStatus, jState>>, queue' \subseteq queue,
         status' = Canceled(status, s), pending' = CancelLines(status, s)
  PROVE  IInv'
<1>1. \A i \in DOMAIN pending' :
        /\ pending'[i].type = "canceled"
        /\ pending'[i].id \in {s} \cup Legs(s)
        /\ status[s] = "armed" /\ status[pending'[i].id] = "armed"
  BY CancelLinesFacts DEF Line
<1>2. \A x \in Synthetic :
        status'[x] = IF status[s] = "armed" /\ status[x] = "armed" /\ x \in {s} \cup Legs(s)
                     THEN "canceled" ELSE status[x]
  BY DEF Canceled
<1>3. \A x \in {s} \cup Legs(s) :
        status[s] = "armed" /\ status[x] = "armed" => \E i \in DOMAIN pending' : pending'[i].id = x
  BY CancelLinesFacts
<1>4. \A i, k \in DOMAIN pending' : pending'[i].id = pending'[k].id => i = k
  BY CancelLinesFacts
<1>5. Legs(s) \subseteq Synthetic  BY LegsType
<1> QED BY <1>1, <1>2, <1>3, <1>4, <1>5, CancelEffect

\* Steps that leave memory and journal alone.
LEMMA QuietEffect ==
  ASSUME IInv, UNCHANGED <<status, evalState, jStatus, jState, pending, firing>>,
         pc # "down", pc' # "down", Written \/ UNCHANGED queue
  PROVE  PendingInv' /\ MemoryMatchesJournal'
<1>1. MemoryMatchesJournal'
  BY DEF IInv, MemoryMatchesJournal, MyLines, Agrees
<1>2. CASE Written
  <2>1. DOMAIN pending' = {}  BY <1>2 DEF Written
  <2> QED BY <1>1, <2>1 DEF PendingInv
<1>3. CASE UNCHANGED queue
  <2>1. ASSUME NEW i \in DOMAIN pending'  PROVE LineInv(i)'
    <3>1. LineInv(i)  BY <2>1 DEF IInv, PendingInv
    <3> QED BY <1>3, <3>1 DEF LineInv, Earlier
  <2> QED BY <1>1, <2>1 DEF IInv, PendingInv
<1> QED BY <1>2, <1>3

\* register() keeps the invariant: it draws fresh ids.
LEMMA RegisterStep ==
  ASSUME NEW s \in Synthetic, IInv, TypeOK', Register(s)
  PROVE  IInv'
<1> DEFINE New == {s} \cup Legs(s)
<1>1. /\ Written /\ pc # "down"
      /\ UNCHANGED <<jStatus, jState, pc, queue, firing>>
      /\ pending' = RegisterLines(s)
      /\ \A x \in New : status[x] = "absent"
  BY DEF Register, Awaiting, Issue, file, tick
<1>2. \A x \in Synthetic :
        /\ x \in New => status'[x] = "armed" /\ evalState'[x] = NoState /\ jStatus[x] = "absent"
        /\ x \notin New => status'[x] = status[x] /\ evalState'[x] = evalState[x]
  BY <1>1, Synced DEF Register, Agrees
<1>3. /\ pending' \in Seq(Lines)
      /\ \A i \in DOMAIN pending' :
           /\ pending'[i] = Line("registered", pending'[i].id)
           /\ pending'[i].id \in New
           /\ \A x \in Legs(pending'[i].id) : Earlier(i, x, "registered")'
      /\ \A x \in New : \E i \in DOMAIN pending' : pending'[i].id = x
      /\ \A i, k \in DOMAIN pending' : pending'[i].id = pending'[k].id => i = k
  <2> DEFINE R(x) == Line("registered", x)
  <2>1. \A x : R(x).id = x /\ R(x).type = "registered"  BY DEF Line
  <2>2. CASE s \notin Composite
    <3>1. pending' = <<R(s)>> /\ Legs(s) = {}  BY <1>1, <2>2 DEF RegisterLines, Legs
    <3>2. DOMAIN pending' = {1} /\ pending'[1] = R(s)  BY <3>1
    <3> HIDE DEF R
    <3>3. pending'[1].id = s  BY <2>1, <3>2
    <3> QED BY <2>1, <3>1, <3>2, <3>3, RegisterLinesType, <1>1 DEF R
  <2>3. CASE s \in Composite
    <3> DEFINE l == Leg(s, 1)  r == Leg(s, 2)
    <3>1. /\ l \in Synthetic \ Composite /\ r \in Synthetic \ Composite
          /\ l # r /\ l # s /\ r # s /\ Legs(s) = {l, r}
      BY <2>3, ParamsAssumption DEF Legs
    <3>2. pending' = <<R(l), R(r), R(s)>>  BY <1>1, <2>3 DEF RegisterLines
    <3> HIDE DEF l, r, R
    <3>3. /\ DOMAIN pending' = {1, 2, 3}
          /\ pending'[1] = R(l) /\ pending'[2] = R(r) /\ pending'[3] = R(s)
      BY <3>2
    <3>4. pending'[1].id = l /\ pending'[2].id = r /\ pending'[3].id = s
      BY <2>1, <3>3
    <3>5. Legs(l) = {} /\ Legs(r) = {}  BY <3>1 DEF Legs
    <3>6. \A x \in Legs(s) : Earlier(3, x, "registered")'
      <4>1. Earlier(3, l, "registered")'  BY <2>1, <3>3, <3>4 DEF Earlier
      <4>2. Earlier(3, r, "registered")'  BY <2>1, <3>3, <3>4 DEF Earlier
      <4> QED BY <3>1, <4>1, <4>2
    <3>7. \A i \in DOMAIN pending' :
            /\ pending'[i] = R(pending'[i].id)
            /\ pending'[i].id \in New
            /\ \A x \in Legs(pending'[i].id) : Earlier(i, x, "registered")'
      BY <3>1, <3>3, <3>4, <3>5, <3>6
    <3>8. \A x \in New : \E i \in DOMAIN pending' : pending'[i].id = x
      BY <3>1, <3>3, <3>4
    <3>9. \A i, k \in DOMAIN pending' : pending'[i].id = pending'[k].id => i = k
      BY <3>1, <3>3, <3>4
    <3>10. pending' \in Seq(Lines)  BY <1>1, RegisterLinesType
    <3> QED BY <3>7, <3>8, <3>9, <3>10 DEF R
  <2> QED BY <2>2, <2>3
<1>4. \A i \in DOMAIN pending' :
        pending'[i].type = "registered" /\ pending'[i].state = NoState
  BY <1>3 DEF Line
<1>5. New \subseteq Synthetic  BY LegsType
<1> HIDE DEF New
<1>6. MemoryMatchesJournal'
  <2>1. "registered" \in StatusLines /\ StatusAfter("registered") = "armed"
    BY DEF StatusLines, StatusAfter
  <2> QED BY <1>1, <1>2, <1>3, <1>4, <1>5, <2>1, IssueMatches
<1>7. FiringInv' /\ QueueInv'
  <2>1. \A x \in queue \cup firing : x \notin New
    BY <1>1 DEF IInv, QueueInv, FiringInv, New
  <2> QED BY ZenonT(60), <1>1, <1>2, <2>1 DEF IInv, QueueInv, FiringInv, TypeOK
<1>8. PendingInv'
  <2>1. \A i \in DOMAIN pending' : LineInv(i)'
    BY <1>1, <1>2, <1>3, <1>4, <1>5 DEF LineInv, Outcomes
  <2> QED BY <1>1, <1>3, <2>1 DEF PendingInv
<1> QED BY <1>6, <1>7, <1>8 DEF IInv

\* A composite is never judged to fire, nor to change its state.
LEMMA CompositesAreNoops ==
  ASSUME NEW s \in Composite, NEW st, NEW bid, NEW late
  PROVE  Evaluate(Params[s], st, bid, late) = Verdict(FALSE, FALSE, FALSE, st)
BY DEF Composite, Evaluate

\* Evaluating a synthetic keeps the invariant, whatever the verdict.
LEMMA JudgeStep ==
  ASSUME NEW s \in Synthetic, NEW late \in BOOLEAN, IInv, TypeOK', Judge(s, late)
  PROVE  IInv'
<1> DEFINE v == Evaluate(Params[s], evalState[s], books[Params[s].ticker], late)
           u == [type |-> "state_update", id |-> s, state |-> v.state]
<1>1. /\ Written /\ pc = "scanning" /\ s \in queue /\ queue' = queue \ {s}
      /\ firing = {} /\ UNCHANGED <<jStatus, jState>>
      /\ status[s] # "absent"
      /\ evalState' = IF v.update THEN [evalState EXCEPT ![s] = v.state] ELSE evalState
  BY DEF Judge, Scanning, Issue, file, IInv, FiringInv, QueueInv
<1>2. v \in Verdicts /\ u \in Lines /\ u.type = "state_update" /\ u.id = s /\ u.state = v.state
  <2>0. books \in [Ticker -> Bids \cup {0}] /\ evalState \in [Synthetic -> EvalState]
    BY DEF IInv, TypeOK
  <2>1. Params[s].ticker \in Ticker  BY TickerType
  <2>2. books[Params[s].ticker] \in Nat
    <3>1. books[Params[s].ticker] \in Bids \cup {0}  BY <2>0, <2>1
    <3> QED BY <3>1, BidsType
  <2>3. v \in Verdicts  BY <2>0, <2>2, VerdictType
  <2> QED BY <2>3 DEF Lines, Verdicts
<1>3. /\ v.update => evalState'[s] = v.state
      /\ ~ v.update => evalState'[s] = evalState[s]
      /\ \A x \in Synthetic \ {s} : evalState'[x] = evalState[x]
  BY <1>1 DEF IInv, TypeOK
<1> HIDE DEF v
<1>4. ASSUME NEW L \in Seq(Lines), pending' = StateLine(s, v) \o L
      PROVE  /\ \A i \in DOMAIN pending' :
                  \/ v.update /\ pending'[i] = u /\ i = 1
                  \/ \E k \in DOMAIN L :
                       pending'[i] = L[k] /\ i = k + (IF v.update THEN 1 ELSE 0)
             /\ \A k \in DOMAIN L :
                  \E i \in DOMAIN pending' : pending'[i] = L[k]
             /\ v.update => \E i \in DOMAIN pending' : pending'[i] = u
  <2>0. Len(L) \in Nat /\ DOMAIN L = 1 .. Len(L)  BY LenProperties
  <2>1. CASE v.update
    <3>1. pending' = <<u>> \o L /\ <<u>> \in Seq(Lines)
      BY <1>2, <1>4, <2>1 DEF StateLine
    <3>2. /\ pending' \in Seq(Lines) /\ Len(pending') = Len(L) + 1
          /\ \A i \in 1 .. Len(L) + 1 : pending'[i] = IF i <= 1 THEN u ELSE L[i - 1]
      <4> HIDE DEF u
      <4> QED BY <1>4, <3>1, ConcatProperties
    <3>3. DOMAIN pending' = 1 .. Len(L) + 1  BY <3>2, LenProperties
    <3> HIDE DEF u
    <3>4. \A k \in DOMAIN L : k + 1 \in DOMAIN pending' /\ pending'[k + 1] = L[k]
      BY <2>0, <3>2, <3>3
    <3>5. 1 \in DOMAIN pending' /\ pending'[1] = u  BY <2>0, <3>2, <3>3
    <3>6. \A i \in DOMAIN pending' :
            i = 1 \/ (i - 1 \in DOMAIN L /\ pending'[i] = L[i - 1] /\ i = (i - 1) + 1)
      BY <2>0, <3>2, <3>3
    <3> QED BY <2>1, <3>4, <3>5, <3>6
  <2>2. CASE ~ v.update
    <3>1. pending' = L  BY <1>4, <2>2, ConcatEmptySeq DEF StateLine
    <3> QED BY <2>0, <2>2, <3>1
  <2> QED BY <2>1, <2>2
<1>5. CASE v.fire
  <2> DEFINE f == Line("fire_pending", s)
  <2>1. /\ pending' = StateLine(s, v) \o <<f>>
        /\ pc' = "firing" /\ firing' = {s} /\ status' = status
    BY <1>5 DEF Judge, Issue, v
  <2>2. s \notin Composite
    <3>1. s \in Composite => v = Verdict(FALSE, FALSE, FALSE, evalState[s])
      BY CompositesAreNoops DEF v
    <3> QED BY <1>5, <3>1 DEF Verdict
  <2>3. <<f>> \in Seq(Lines) /\ f.type = "fire_pending" /\ f.id = s
    BY LineType DEF StatusLines, Line
  <2> HIDE DEF f, u
  <2>4. /\ \A i \in DOMAIN pending' :
             \/ v.update /\ pending'[i] = u /\ i = 1
             \/ pending'[i] = f /\ i = 1 + (IF v.update THEN 1 ELSE 0)
        /\ \E i \in DOMAIN pending' : pending'[i] = f
        /\ v.update => \E i \in DOMAIN pending' : pending'[i] = u
    <3>1. DOMAIN <<f>> = {1} /\ <<f>>[1] = f  OBVIOUS
    <3> HIDE DEF f
    <3>2. /\ \A i \in DOMAIN pending' :
               \/ v.update /\ pending'[i] = u /\ i = 1
               \/ \E k \in DOMAIN <<f>> :
                    pending'[i] = <<f>>[k] /\ i = k + (IF v.update THEN 1 ELSE 0)
          /\ \A k \in DOMAIN <<f>> : \E i \in DOMAIN pending' : pending'[i] = <<f>>[k]
          /\ v.update => \E i \in DOMAIN pending' : pending'[i] = u
      BY <1>4, <2>1, <2>3
    <3> QED BY <3>1, <3>2
  <2>5. status[s] \in {"armed", "canceled"}
    BY <1>1, <2>2 DEF IInv, QueueInv
  <2>6. MemoryMatchesJournal'
    <3>1. /\ "fire_pending" \in StatusLines /\ "state_update" \notin StatusLines
          /\ StatusAfter("fire_pending") = "armed"
      BY DEF StatusLines, Outcomes, StatusAfter
    <3>2. pending' \in Seq(Lines) /\ pc # "down"  BY <1>1 DEF TypeOK
    <3>3. \A i \in DOMAIN pending' :
            pending'[i].type \in StatusLines =>
              LET st == StatusAfter(pending'[i].type)
                  x  == pending'[i].id
              IN  st = status'[x] \/ (x \in firing' /\ st = "armed" /\ status'[x] = "canceled")
      BY <1>2, <2>1, <2>3, <2>4, <2>5, <3>1
    <3>4. \A i \in DOMAIN pending' :
            pending'[i].type \in {"registered", "state_update"} =>
              pending'[i].state = evalState'[pending'[i].id]
      BY <1>2, <1>3, <2>3, <2>4
    <3>5. \A x \in Synthetic :
            \/ \E i \in DOMAIN pending' : pending'[i].id = x /\ pending'[i].type \in StatusLines
            \/ status'[x] = status[x] /\ (x \in firing => x \in firing')
      BY <1>1, <2>1
    <3>6. \A x \in Synthetic :
            \/ \E i \in DOMAIN pending' :
                 pending'[i].id = x /\ pending'[i].type \in {"registered", "state_update"}
            \/ evalState'[x] = evalState[x]
      BY <1>2, <1>3, <2>4
    <3> QED BY <1>1, <3>2, <3>3, <3>4, <3>5, <3>6, IssueMatches
  <2>7. FiringInv'
    BY <2>1, <2>2, <2>5 DEF FiringInv
  <2>8. QueueInv'
    BY <1>1, <2>1 DEF IInv, QueueInv
  <2>9. PendingInv'
    <3>1. Agrees(jStatus[s], s)  BY <1>1, Synced
    <3>2. jStatus[s] \in {"armed", "canceled"}  BY <1>1, <2>5, <3>1 DEF Agrees
    <3>3. \A i \in DOMAIN pending' : LineInv(i)'
      BY Zenon, <1>1, <1>2, <2>1, <2>3, <2>4, <3>2 DEF LineInv, Outcomes
    <3>4. "state_update" \notin StatusLines  BY DEF StatusLines, Outcomes
    <3> QED BY <1>2, <2>1, <2>4, <3>3, <3>4 DEF PendingInv
  <2> QED BY Zenon, <2>6, <2>7, <2>8, <2>9 DEF IInv
<1>6. CASE ~ v.fire
  <2> DEFINE L == IF v.unregister THEN CancelLines(status, s) ELSE <<>>
  <2>1. /\ pending' = StateLine(s, v) \o L
        /\ status' = IF v.unregister THEN Canceled(status, s) ELSE status
        /\ UNCHANGED <<pc, firing>>
    BY <1>6 DEF Judge, Issue, v
  <2>2. /\ L \in Seq(Lines)
        /\ \A k \in DOMAIN L :
             /\ L[k].type = "canceled" /\ L[k].id \in Synthetic
             /\ status[L[k].id] = "armed" /\ status'[L[k].id] = "canceled"
        /\ \A i, k \in DOMAIN L : L[i].id = L[k].id => i = k
        /\ \A x \in Synthetic :
             \/ status'[x] = status[x]
             \/ /\ status'[x] = "canceled" /\ status[x] = "armed"
                /\ \E k \in DOMAIN L : L[k].id = x
    <3>1. CASE v.unregister
      <4>1. Legs(s) \subseteq Synthetic  BY LegsType
      <4> QED BY <2>1, <3>1, <4>1, CancelLinesFacts DEF Canceled, Line
    <3>2. CASE ~ v.unregister
      BY <2>1, <3>2
    <3> QED BY <3>1, <3>2
  <2> HIDE DEF L, u
  <2>3. /\ \A i \in DOMAIN pending' :
             \/ v.update /\ pending'[i] = u /\ i = 1
             \/ \E k \in DOMAIN L : pending'[i] = L[k] /\ i = k + (IF v.update THEN 1 ELSE 0)
        /\ \A k \in DOMAIN L : \E i \in DOMAIN pending' : pending'[i] = L[k]
        /\ v.update => \E i \in DOMAIN pending' : pending'[i] = u
    BY <1>4, <2>1, <2>2
  <2>4. \A i \in DOMAIN pending' :
          LET x == pending'[i].id
          IN  /\ status[x] # "absent" /\ x \in Synthetic
              /\ \/ pending'[i].type = "state_update" /\ pending'[i].state = evalState'[x]
                 \/ /\ pending'[i].type = "canceled"
                    /\ status[x] = "armed" /\ status'[x] = "canceled"
    BY <1>1, <1>2, <1>3, <2>2, <2>3
  <2>5. \A i, k \in DOMAIN pending' :
          /\ pending'[i].type = "canceled" /\ pending'[k].type = "canceled"
          /\ pending'[i].id = pending'[k].id
          => i = k
    BY <1>2, <2>2, <2>3
  <2>6. \A x \in Synthetic :
          \/ status'[x] = status[x]
          \/ /\ status'[x] = "canceled" /\ status[x] = "armed"
             /\ \E i \in DOMAIN pending' : pending'[i].id = x /\ pending'[i].type = "canceled"
    BY <2>2, <2>3
  <2>7. \A x \in Synthetic :
          \/ evalState'[x] = evalState[x]
          \/ \E i \in DOMAIN pending' : pending'[i].id = x /\ pending'[i].type = "state_update"
    BY <1>2, <1>3, <2>3
  <2> QED BY Zenon, <1>1, <2>1, <2>4, <2>5, <2>6, <2>7, CancelEffect
<1> QED BY <1>5, <1>6

\* A hook that throws keeps the invariant.
LEMMA HookThrowsStep ==
  ASSUME NEW s \in Synthetic, IInv, TypeOK', HookThrows(s)
  PROVE  IInv'
<1> DEFINE f == Line("fire_failed", s)
<1>1. /\ Written /\ pc = "firing" /\ s \in firing
      /\ status' = [status EXCEPT ![s] = "fire_failed"]
      /\ pending' = <<f>> /\ pc' = "scanning" /\ firing' = {}
      /\ UNCHANGED <<evalState, jStatus, jState, queue>>
  BY DEF HookThrows, Issue, file
<1>2. /\ s \notin Composite /\ status[s] \in {"armed", "canceled"} /\ s \notin queue
      /\ \A x \in firing : x = s
      /\ status \in [Synthetic -> Status]
  BY <1>1 DEF IInv, FiringInv, QueueInv, TypeOK
<1>3. Agrees(jStatus[s], s)  BY <1>1, Synced
<1>4. jStatus[s] \in {"armed", "canceled"}  BY <1>2, <1>3 DEF Agrees
<1>5. f.type = "fire_failed" /\ f.id = s  BY DEF Line
<1> HIDE DEF f
<1>6. DOMAIN pending' = {1} /\ pending'[1] = f  BY <1>1
<1>7. "fire_failed" \in StatusLines /\ StatusAfter("fire_failed") = "fire_failed"
  BY DEF StatusLines, Outcomes, StatusAfter
<1>8. MemoryMatchesJournal'
  <2>1. pending' \in Seq(Lines) /\ pc # "down"  BY <1>1 DEF TypeOK
  <2> QED BY <1>1, <1>2, <1>5, <1>6, <1>7, <2>1, IssueMatches
<1>9. FiringInv' /\ QueueInv'
  BY <1>1, <1>2 DEF IInv, FiringInv, QueueInv
<1>10. PendingInv'
  <2>1. LineInv(1)'  BY <1>1, <1>2, <1>4, <1>5, <1>6 DEF LineInv
  <2> QED BY <1>1, <1>6, <2>1 DEF PendingInv
<1> QED BY <1>8, <1>9, <1>10 DEF IInv

\* Recording a fire, with its cascade to parent and sibling, keeps the invariant.
LEMMA FireDoneStep ==
  ASSUME NEW s \in Synthetic, IInv, TypeOK', FireDone(s)
  PROVE  IInv'
<1> DEFINE F(x) == Line("fired", x)
<1>1. /\ Written /\ pc = "settled" /\ s \in firing
      /\ status' = Cascaded(s)
      /\ pending' = FireDoneLines(s) /\ pc' = "scanning" /\ firing' = {}
      /\ UNCHANGED <<evalState, jStatus, jState, queue>>
  BY DEF FireDone, Issue, file, FireDoneLines
<1>2. /\ s \notin Composite /\ status[s] \in {"armed", "canceled"} /\ s \notin queue
      /\ \A x \in firing : x = s
      /\ status \in [Synthetic -> Status] /\ jStatus \in [Synthetic -> Status]
  BY <1>1 DEF IInv, FiringInv, QueueInv, TypeOK
<1>3. \A x \in Synthetic : Agrees(jStatus[x], x)  BY <1>1, Synced
<1>4. /\ jStatus[s] \in {"armed", "canceled"}
      /\ \A x \in Synthetic \ {s} : jStatus[x] = status[x]
  BY <1>2, <1>3 DEF Agrees
<1>5. \A x : /\ F(x).type = "fired" /\ F(x).id = x
             /\ Line("canceled", x).type = "canceled" /\ Line("canceled", x).id = x
  BY DEF Line
<1>6. /\ "fired" \in StatusLines /\ StatusAfter("fired") = "fired"
      /\ "canceled" \in StatusLines /\ StatusAfter("canceled") = "canceled"
      /\ "fired" \in Outcomes /\ "canceled" \notin Outcomes
  BY DEF StatusLines, Outcomes, StatusAfter
<1>7. pending' \in Seq(Lines) /\ pc # "down"  BY <1>1 DEF TypeOK
<1>8. QueueInv' /\ FiringInv'
  <2>1. \A x \in Synthetic : status[x] # "absent" => status'[x] # "absent"
    BY <1>1 DEF Cascaded
  <2>2. \A x \in Synthetic \ Composite :
          x # s /\ status[x] \in {"armed", "canceled"} => status'[x] \in {"armed", "canceled"}
    BY <1>1 DEF Cascaded, ArmedParent, ParentOf
  <2>3. queue \subseteq Synthetic  BY DEF IInv, TypeOK
  <2>4. QueueInv'
    BY <1>1, <1>2, <2>1, <2>2, <2>3 DEF IInv, QueueInv
  <2> QED BY <1>1, <2>4 DEF FiringInv
<1>9. CASE ArmedParent(s) = {}
  <2>1. pending' = <<F(s)>>  BY <1>1, <1>9 DEF FireDoneLines
  <2>2. \A x \in Synthetic : status'[x] = IF x = s THEN "fired" ELSE status[x]
    BY <1>1, <1>9 DEF Cascaded, Siblings
  <2> HIDE DEF F
  <2>3. DOMAIN pending' = {1} /\ pending'[1] = F(s)  BY <2>1
  <2>4. MemoryMatchesJournal'
    BY <1>1, <1>2, <1>5, <1>6, <1>7, <2>2, <2>3, IssueMatches
  <2>5. PendingInv'
    <3>1. LineInv(1)'  BY <1>1, <1>2, <1>4, <1>5, <2>3 DEF LineInv
    <3> QED BY <1>1, <2>3, <3>1 DEF PendingInv
  <2> QED BY <1>8, <2>4, <2>5 DEF IInv
<1>10. CASE ArmedParent(s) # {}
  <2>1. PICK c \in Composite, b \in Synthetic \ Composite :
           /\ ArmedParent(s) = {c} /\ c = CHOOSE d \in ArmedParent(s) : TRUE
           /\ b = CHOOSE d \in Legs(c) : d # s
           /\ Legs(c) = {s, b} /\ b # s /\ c # s /\ c # b
           /\ status[c] = "armed" /\ Siblings(s) = {b}
    BY <1>10, FamilyFacts
  <2>2. \A x \in Synthetic :
          status'[x] = IF x \in {s, c} THEN "fired"
                       ELSE IF x = b /\ status[x] = "armed" THEN "canceled" ELSE status[x]
    BY <1>1, <2>1 DEF Cascaded
  <2>3. pending' = <<F(s), F(c)>> \o CancelLine(status, b)
    BY <1>1, <1>10, <2>1 DEF FireDoneLines
  <2>4. F(s) \in Lines /\ F(c) \in Lines /\ Line("canceled", b) \in Lines /\ c \in Synthetic
    BY <1>6, <2>1, LineType, LegsType
  <2>5. PendingInv' /\ MemoryMatchesJournal'
    <3>1. CASE status[b] = "armed"
      <4> DEFINE C == Line("canceled", b)
      <4>1. pending' = <<F(s), F(c)>> \o <<C>>  BY <2>3, <3>1 DEF CancelLine
      <4> HIDE DEF F, C
      <4>2. pending' = <<F(s), F(c), C>>  BY <2>4, <4>1, TripleSeq DEF C
      <4>3. /\ DOMAIN pending' = {1, 2, 3}
            /\ pending'[1] = F(s) /\ pending'[2] = F(c) /\ pending'[3] = C
        BY <4>2
      <4>4. /\ pending'[1].id = s /\ pending'[2].id = c /\ pending'[3].id = b
            /\ pending'[1].type = "fired" /\ pending'[2].type = "fired"
            /\ pending'[3].type = "canceled"
        BY <1>5, <4>3 DEF C
      <4>5. MemoryMatchesJournal'
        <5>1. \A i \in DOMAIN pending' :
                /\ pending'[i].type \in {"fired", "canceled"}
                /\ StatusAfter(pending'[i].type) = status'[pending'[i].id]
          <6>1. status'[s] = "fired" /\ status'[c] = "fired" /\ status'[b] = "canceled"
            BY <2>1, <2>2, <2>4, <3>1
          <6> QED BY <1>6, <4>3, <4>4, <6>1
        <5>2. \A x \in Synthetic :
                \/ \E i \in DOMAIN pending' : pending'[i].id = x /\ pending'[i].type \in StatusLines
                \/ status'[x] = status[x] /\ (x \in firing => x \in firing')
          <6> SUFFICES ASSUME NEW x \in Synthetic, x \notin {s, c, b}
                       PROVE  status'[x] = status[x] /\ x \notin firing
            BY <1>6, <4>3, <4>4
          <6> QED BY <1>2, <2>2, <3>1
        <5> QED BY <1>1, <1>7, <5>1, <5>2, IssueMatches
      <4>6. LineInv(1)'  BY <1>1, <1>2, <1>4, <4>3, <4>4 DEF LineInv
      <4>7. LineInv(2)'
        <5>1. Earlier(2, s, "fired")'  BY <4>4 DEF Earlier
        <5> QED BY <1>1, <1>4, <2>1, <2>4, <4>3, <4>4, <5>1 DEF LineInv
      <4>8. LineInv(3)'  BY <1>1, <1>4, <1>6, <2>1, <3>1, <4>3, <4>4 DEF LineInv
      <4>9. PendingInv'
        BY <1>1, <2>1, <4>3, <4>4, <4>6, <4>7, <4>8 DEF PendingInv
      <4> QED BY <4>5, <4>9
    <3>2. CASE status[b] # "armed"
      <4>1. pending' = <<F(s), F(c)>> \o << >>  BY <2>3, <3>2 DEF CancelLine
      <4> HIDE DEF F
      <4>2. pending' = <<F(s), F(c)>>
        <5>1. <<F(s), F(c)>> \in Seq(Lines)  BY <2>4
        <5> QED BY <4>1, <5>1, ConcatEmptySeq
      <4>3. /\ DOMAIN pending' = {1, 2}
            /\ pending'[1] = F(s) /\ pending'[2] = F(c)
        BY <4>2
      <4>4. /\ pending'[1].id = s /\ pending'[2].id = c
            /\ pending'[1].type = "fired" /\ pending'[2].type = "fired"
        BY <1>5, <4>3
      <4>5. MemoryMatchesJournal'
        <5>1. \A i \in DOMAIN pending' :
                /\ pending'[i].type \in {"fired", "canceled"}
                /\ StatusAfter(pending'[i].type) = status'[pending'[i].id]
          BY <1>2, <1>6, <2>1, <2>2, <2>4, <3>2, <4>3, <4>4
        <5>2. \A x \in Synthetic :
                \/ \E i \in DOMAIN pending' : pending'[i].id = x /\ pending'[i].type \in StatusLines
                \/ status'[x] = status[x] /\ (x \in firing => x \in firing')
          <6> SUFFICES ASSUME NEW x \in Synthetic, x \notin {s, c}
                       PROVE  status'[x] = status[x] /\ x \notin firing
            BY <1>6, <4>3, <4>4
          <6> QED BY <1>2, <2>2, <3>2
        <5> QED BY <1>1, <1>7, <5>1, <5>2, IssueMatches
      <4>6. LineInv(1)'  BY <1>1, <1>2, <1>4, <4>3, <4>4 DEF LineInv
      <4>7. LineInv(2)'
        <5>1. Earlier(2, s, "fired")'  BY <4>4 DEF Earlier
        <5> QED BY <1>1, <1>4, <2>1, <2>4, <4>3, <4>4, <5>1 DEF LineInv
      <4>8. PendingInv'
        BY <1>1, <2>1, <4>3, <4>4, <4>6, <4>7 DEF PendingInv
      <4> QED BY <4>5, <4>8
    <3> QED BY <3>1, <3>2
  <2> QED BY <1>8, <2>5 DEF IInv
<1> QED BY <1>9, <1>10

\* A crash keeps the invariant: what is lost was only in memory.
LEMMA CrashStep == IInv /\ TypeOK' /\ Crash => IInv'
<1> SUFFICES ASSUME IInv, TypeOK', Crash PROVE IInv'
  OBVIOUS
<1>1. pending' = << >> /\ pc' = "down" /\ queue' = {} /\ firing' = {}
  BY DEF Crash, Forget
<1>2. DOMAIN pending' = {}  BY <1>1
<1> QED
  BY <1>1, <1>2
  DEF IInv, FiringInv, QueueInv, PendingInv, MemoryMatchesJournal, Written

\* A replay establishes that memory matches the journal.
LEMMA RestartStep == IInv /\ TypeOK' /\ Restart => IInv'
<1> SUFFICES ASSUME IInv, TypeOK', Restart PROVE IInv'
  OBVIOUS
<1>1. /\ pc = "down" /\ pc' = "idle" /\ Written /\ queue = {} /\ firing = {}
      /\ status' = jStatus /\ evalState' = jState
      /\ UNCHANGED <<jStatus, jState, pending, queue, firing>>
  BY DEF Restart, journal, file, IInv, PendingInv, QueueInv, FiringInv
<1>2. DOMAIN pending' = {} /\ DOMAIN pending = {}  BY <1>1 DEF Written
<1>3. MemoryMatchesJournal'
  BY <1>1, <1>2 DEF MemoryMatchesJournal, MyLines, Agrees
<1> QED
  BY <1>1, <1>2, <1>3 DEF IInv, FiringInv, QueueInv, PendingInv

\* The invariant holds initially.
LEMMA InitInv == Init => IInv
<1> SUFFICES ASSUME Init PROVE IInv
  OBVIOUS
<1>1. DOMAIN pending = {}  BY DEF Init
<1> QED
  BY <1>1, InitType
  DEF Init, IInv, FiringInv, QueueInv, PendingInv, MemoryMatchesJournal, MyLines, Agrees, Written

\* The invariant is inductive.
LEMMA NextInv == IInv /\ [Next]_vars => IInv'
<1> SUFFICES ASSUME IInv, [Next]_vars PROVE IInv'
  OBVIOUS
<1>0. TypeOK'  BY NextType DEF IInv
<1>1. CASE WriteLine
  BY <1>1, WriteLineStep
<1>2. ASSUME NEW s \in Synthetic, Register(s) PROVE IInv'
  BY <1>0, <1>2, RegisterStep
<1>3. ASSUME NEW s \in Synthetic, Cancel(s) PROVE IInv'
  BY <1>0, <1>3, CancelStep DEF Cancel, Awaiting, Issue, file, tick
<1>4. CASE TickBegin
  <2>1. /\ Written /\ pc = "idle" /\ pc' = "fetching"
        /\ queue' = Armed
        /\ UNCHANGED <<status, evalState, jStatus, jState, pending, firing>>
    BY <1>4 DEF TickBegin, memory, journal, file
  <2>2. firing = {}  BY <2>1 DEF IInv, FiringInv
  <2>3. PendingInv' /\ MemoryMatchesJournal'  BY <2>1, QuietEffect
  <2>4. FiringInv' /\ QueueInv'
    BY <2>1, <2>2 DEF FiringInv, QueueInv, Armed
  <2> QED BY <1>0, <2>3, <2>4 DEF IInv
<1>5. CASE Fetch
  <2>1. /\ Written /\ pc = "fetching" /\ pc' = "scanning"
        /\ UNCHANGED <<status, evalState, jStatus, jState, pending, queue, firing>>
    BY <1>5 DEF Fetch, FetchBooks, memory, journal, file
  <2>2. PendingInv' /\ MemoryMatchesJournal'  BY <2>1, QuietEffect
  <2> QED BY <1>0, <2>1, <2>2 DEF IInv, FiringInv, QueueInv
<1>6. CASE FetchFails
  <2>1. /\ Written /\ pc = "fetching" /\ pc' = "idle" /\ queue' = {}
        /\ UNCHANGED <<status, evalState, jStatus, jState, pending, firing>>
    BY <1>6 DEF FetchFails, memory, journal, file
  <2>2. PendingInv' /\ MemoryMatchesJournal'  BY <2>1, QuietEffect
  <2> QED BY <1>0, <2>1, <2>2 DEF IInv, FiringInv, QueueInv
<1>7. ASSUME NEW s \in Synthetic, SkipSibling(s) PROVE IInv'
  <2>1. /\ Written /\ pc = "scanning" /\ pc' = pc /\ queue' = queue \ {s}
        /\ UNCHANGED <<status, evalState, jStatus, jState, pending, firing>>
    BY <1>7 DEF SkipSibling, Scanning, memory, journal, file
  <2>2. PendingInv' /\ MemoryMatchesJournal'  BY <2>1, QuietEffect
  <2> QED BY <1>0, <2>1, <2>2 DEF IInv, FiringInv, QueueInv
<1>8. ASSUME NEW s \in Synthetic, AutoCancel(s) PROVE IInv'
  BY <1>0, <1>8, CancelStep DEF AutoCancel, Scanning, Issue, file
<1>9. ASSUME NEW s \in Synthetic, NEW late \in BOOLEAN, Judge(s, late) PROVE IInv'
  BY <1>0, <1>9, JudgeStep
<1>10. ASSUME NEW s \in Synthetic, ExitSells(s) \/ HookPlacesNothing(s) PROVE IInv'
  <2>1. /\ Written /\ pc = "firing" /\ pc' = "settled"
        /\ UNCHANGED <<status, evalState, jStatus, jState, pending, queue, firing>>
    BY <1>10 DEF ExitSells, HookPlacesNothing, memory, journal, file
  <2>2. PendingInv' /\ MemoryMatchesJournal'  BY <2>1, QuietEffect
  <2> QED BY <1>0, <2>1, <2>2 DEF IInv, FiringInv, QueueInv
<1>11. ASSUME NEW s \in Synthetic, HookThrows(s) PROVE IInv'
  BY <1>0, <1>11, HookThrowsStep
<1>12. ASSUME NEW s \in Synthetic, FireDone(s) PROVE IInv'
  BY <1>0, <1>12, FireDoneStep
<1>13. CASE TickEnd
  <2>1. /\ Written /\ pc = "scanning" /\ pc' = "idle" /\ queue = {}
        /\ UNCHANGED <<status, evalState, jStatus, jState, pending, queue, firing>>
    BY <1>13 DEF TickEnd, memory, journal, file
  <2>2. PendingInv' /\ MemoryMatchesJournal'  BY <2>1, QuietEffect
  <2> QED BY <1>0, <2>1, <2>2 DEF IInv, FiringInv, QueueInv
<1>14. CASE (\E t \in Ticker : PositionMoves(t)) \/ UNCHANGED vars
  <2>1. UNCHANGED <<status, evalState, jStatus, jState, pending, pc, queue, firing>>
    BY <1>14 DEF PositionMoves, vars, memory, journal, file, tick
  <2>2. FiringInv' /\ QueueInv'  BY <2>1 DEF IInv, FiringInv, QueueInv
  <2>3. CASE pc = "down"
    <3>1. DOMAIN pending' = {}  BY <2>1, <2>3 DEF IInv, PendingInv, Written
    <3> QED BY <1>0, <2>1, <2>2, <2>3, <3>1
            DEF IInv, PendingInv, MemoryMatchesJournal, Written
  <2>4. CASE pc # "down"
    <3>1. PendingInv' /\ MemoryMatchesJournal'  BY <2>1, <2>4, QuietEffect
    <3> QED BY <1>0, <2>2, <3>1 DEF IInv
  <2> QED BY <2>3, <2>4
<1>15. CASE Crash
  BY <1>0, <1>15, CrashStep
<1>16. CASE Restart
  BY <1>0, <1>16, RestartStep
<1> QED
  BY <1>1, <1>2, <1>3, <1>4, <1>5, <1>6, <1>7, <1>8, <1>9, <1>10, <1>11, <1>12, <1>13,
     <1>14, <1>15, <1>16
  DEF Next, Operator, Loop, Scan, Hook

\* The inductive invariant holds in every reachable state of every instance.
THEOREM InvariantHolds == Spec => []IInv
<1>1. Init => IInv  BY InitInv
<1>2. IInv /\ [Next]_vars => IInv'  BY NextInv
<1> QED BY <1>1, <1>2, PTL DEF Spec

\* A restart loses nothing, for every set of synthetics and any number of
\* crashes: memory is what the journal rebuilds.
THEOREM JournalRebuildsMemory == Spec => []MemoryMatchesJournal
<1>1. IInv => MemoryMatchesJournal  BY DEF IInv
<1> QED BY <1>1, InvariantHolds, PTL

-----------------------------------------------------------------------------
(***************************************************************************)
(* What the watcher sells.                                                 *)
(***************************************************************************)

(* An exit runs once per life of the process.                              *)

\* The process will not run the exit of s again: it has its outcome, or the
\* outcome is about to be recorded.
Spent(s) == status[s] \in Outcomes \/ (pc = "settled" /\ s \in firing)

\* A crash wipes out what was spent, but is counted.
ExitInv ==
  \A s \in Synthetic :
    IF pc # "down" /\ Spent(s) THEN exits[s] <= crashes + 1 ELSE exits[s] <= crashes

\* Between exits and crashes, nothing that was spent becomes unspent.
LEMMA SpentStays ==
  ASSUME IInv, TypeOK', ExitInv,
         UNCHANGED <<exits, crashes>>,
         pc # "down", pc' # "down",
         \A s \in Synthetic : Spent(s) => Spent(s)'
  PROVE  ExitInv'
<1> SUFFICES ASSUME NEW s \in Synthetic
    PROVE (IF pc # "down" /\ Spent(s) THEN exits[s] <= crashes + 1 ELSE exits[s] <= crashes)'
  BY DEF ExitInv
<1>1. exits[s] \in Nat /\ crashes \in Nat
  BY SwitchAssumption DEF IInv, TypeOK
<1> QED BY <1>1 DEF ExitInv

\* cancel() leaves outcomes alone.
LEMMA CanceledKeepsOutcomes ==
  ASSUME NEW s \in Synthetic, NEW x \in Synthetic, status[x] \in Outcomes
  PROVE  Canceled(status, s)[x] = status[x]
BY DEF Canceled, Outcomes

\* No step breaks the bound on exits.
LEMMA ExitNext == IInv /\ ExitInv /\ [Next]_vars => ExitInv'
<1> SUFFICES ASSUME IInv, ExitInv, [Next]_vars PROVE ExitInv'
  OBVIOUS
<1>0. /\ TypeOK /\ TypeOK'
      /\ exits \in [Synthetic -> Nat] /\ crashes \in Nat
      /\ firing # {} <=> pc \in {"firing", "settled"}
  <2>1. TypeOK  BY DEF IInv
  <2>2. TypeOK'  BY <2>1, NextType
  <2>3. exits \in [Synthetic -> Nat] /\ crashes \in Nat
    BY <2>1, SwitchAssumption DEF TypeOK
  <2> QED BY <2>1, <2>2, <2>3 DEF IInv, FiringInv
<1>1. CASE WriteLine
  BY <1>0, <1>1, SpentStays DEF WriteLine, memory, tick, world, Spent
<1>2. ASSUME NEW s \in Synthetic, Register(s) PROVE ExitInv'
  <2>1. \A x \in Synthetic : status[x] \in Outcomes => status'[x] = status[x]
    BY <1>2 DEF Register, Outcomes
  <2> QED BY <1>0, <1>2, <2>1, SpentStays DEF Register, Awaiting, tick, world, Spent
<1>3. ASSUME NEW s \in Synthetic, Cancel(s) PROVE ExitInv'
  <2>1. \A x \in Synthetic : status[x] \in Outcomes => status'[x] = status[x]
    BY <1>3, CanceledKeepsOutcomes DEF Cancel
  <2> QED BY <1>0, <1>3, <2>1, SpentStays DEF Cancel, Awaiting, tick, world, Spent
<1>4. CASE TickBegin \/ Fetch \/ FetchFails \/ TickEnd
  BY <1>0, <1>4, SpentStays
     DEF TickBegin, Fetch, FetchBooks, FetchFails, TickEnd, memory, world, Spent
<1>5. ASSUME NEW s \in Synthetic, SkipSibling(s) PROVE ExitInv'
  BY <1>0, <1>5, SpentStays DEF SkipSibling, Scanning, memory, world, Spent
<1>6. ASSUME NEW s \in Synthetic, AutoCancel(s) PROVE ExitInv'
  <2>1. \A x \in Synthetic : status[x] \in Outcomes => status'[x] = status[x]
    BY <1>6, CanceledKeepsOutcomes DEF AutoCancel
  <2> QED BY <1>0, <1>6, <2>1, SpentStays DEF AutoCancel, Scanning, world, Spent
<1>7. ASSUME NEW s \in Synthetic, NEW late \in BOOLEAN, Judge(s, late) PROVE ExitInv'
  <2>1. \A x \in Synthetic : status[x] \in Outcomes => status'[x] = status[x]
    BY <1>7, CanceledKeepsOutcomes DEF Judge
  <2>2. pc = "scanning" /\ pc' # "down" /\ UNCHANGED <<exits, crashes>>
    BY <1>7 DEF Judge, Scanning, world
  <2> QED BY <1>0, <2>1, <2>2, SpentStays DEF Spent
<1>8. ASSUME NEW s \in Synthetic, ExitSells(s) PROVE ExitInv'
  <2>1. /\ pc = "firing" /\ pc' = "settled" /\ s \in firing /\ ~ Spent(s)
        /\ exits' = [exits EXCEPT ![s] = @ + 1]
        /\ UNCHANGED <<status, firing, crashes>>
    BY <1>8 DEF ExitSells, memory, IInv, FiringInv, Spent, Outcomes
  <2>2. \A x \in Synthetic : Spent(x) => Spent(x)'
    BY <2>1 DEF Spent
  <2>3. Spent(s)'  BY <2>1 DEF Spent
  <2> SUFFICES ASSUME NEW x \in Synthetic
      PROVE (IF pc # "down" /\ Spent(x) THEN exits[x] <= crashes + 1 ELSE exits[x] <= crashes)'
    BY DEF ExitInv
  <2>4. CASE x = s
    BY <1>0, <2>1, <2>3, <2>4 DEF ExitInv
  <2>5. CASE x # s
    BY <1>0, <2>1, <2>2, <2>5 DEF ExitInv
  <2> QED BY <2>4, <2>5
<1>9. ASSUME NEW s \in Synthetic, HookPlacesNothing(s) PROVE ExitInv'
  BY <1>0, <1>9, SpentStays DEF HookPlacesNothing, memory, world, Spent
<1>10. ASSUME NEW s \in Synthetic, HookThrows(s) PROVE ExitInv'
  <2>1. \A x \in Synthetic : status[x] \in Outcomes => status'[x] \in Outcomes
    BY <1>0, <1>10 DEF HookThrows, Outcomes, TypeOK
  <2> QED BY <1>0, <1>10, <2>1, SpentStays DEF HookThrows, world, Spent
<1>11. ASSUME NEW s \in Synthetic, FireDone(s) PROVE ExitInv'
  <2>1. /\ \A x \in Synthetic : status[x] \in Outcomes => status'[x] \in Outcomes
        /\ status'[s] \in Outcomes
    BY <1>11 DEF FireDone, Cascaded, Outcomes
  <2>2. \A x \in firing : x = s
    BY <1>11 DEF FireDone, IInv, FiringInv
  <2>3. pc = "settled" /\ pc' = "scanning" /\ UNCHANGED <<exits, crashes>>
    BY <1>11 DEF FireDone, world
  <2> QED BY <1>0, <2>1, <2>2, <2>3, SpentStays DEF Spent
<1>12. CASE (\E t \in Ticker : PositionMoves(t)) \/ UNCHANGED vars
  BY <1>12 DEF PositionMoves, vars, memory, tick, world, ExitInv, Spent
<1>13. CASE Crash
  BY <1>0, <1>13 DEF Crash, ExitInv
<1>14. CASE Restart
  BY <1>0, <1>14 DEF Restart, world, ExitInv
<1> QED
  BY <1>1, <1>2, <1>3, <1>4, <1>5, <1>6, <1>7, <1>8, <1>9, <1>10, <1>11, <1>12, <1>13, <1>14
  DEF Next, Operator, Loop, Scan, Hook

\* No double exit, for every set of synthetics, whatever operators do while a
\* hook is awaited: an exit runs at most once in the life of a process.
THEOREM ExitsAreBounded == Spec => []ExitsBounded
<1>1. Init => ExitInv
  BY DEF Init, ExitInv, Spent, Outcomes
<1>2. IInv /\ ExitInv => ExitsBounded
  <2> SUFFICES ASSUME IInv, ExitInv, NEW s \in Synthetic PROVE exits[s] <= crashes + 1
    BY DEF ExitsBounded
  <2>1. exits[s] \in Nat /\ crashes \in Nat
    BY SwitchAssumption DEF IInv, TypeOK
  <2> QED BY <2>1 DEF ExitInv
<1> QED BY <1>1, <1>2, ExitNext, InvariantHolds, PTL DEF Spec

-----------------------------------------------------------------------------
(* Outcomes are final.                                                     *)

\* A synthetic with an outcome on file is not the one whose hook runs.
LEMMA OutcomeStopsExits ==
  ASSUME IInv, [Next]_vars, NEW s \in Synthetic, jStatus[s] \in Outcomes
  PROVE  exits'[s] = exits[s]
<1>1. ASSUME NEW x \in Synthetic, ExitSells(x) PROVE x # s /\ exits'[s] = exits[s]
  <2>1. /\ Written /\ pc = "firing" /\ x \in firing
        /\ exits' = [exits EXCEPT ![x] = @ + 1]
    BY <1>1 DEF ExitSells
  <2>2. Agrees(jStatus[x], x)  BY <2>1, Synced
  <2>3. status[x] \in {"armed", "canceled"}  BY <2>1 DEF IInv, FiringInv
  <2>4. x # s  BY <2>2, <2>3 DEF Agrees, Outcomes
  <2> QED BY <2>1, <2>4 DEF IInv, TypeOK
<1>2. CASE ~ \E x \in Synthetic : ExitSells(x)
  <2>1. UNCHANGED exits
    BY Zenon, <1>2
    DEF Next, Operator, Loop, Scan, Hook, WriteLine, Register, Cancel, TickBegin, Fetch,
        FetchBooks, FetchFails, SkipSibling, AutoCancel, Judge, HookPlacesNothing, HookThrows,
        FireDone, TickEnd, PositionMoves, Crash, Restart, world, vars
  <2> QED BY Zenon, <2>1
<1> QED BY <1>1, <1>2

\* No pending line would take an outcome off the file.
LEMMA OutcomeStaysOnFile ==
  ASSUME IInv, [Next]_vars, NEW s \in Synthetic, jStatus[s] \in Outcomes
  PROVE  jStatus'[s] = jStatus[s]
<1>1. CASE WriteLine
  <2> DEFINE l == Head(pending)
  <2>1. /\ pending \in Seq(Lines) /\ pending # << >> /\ pending[1] = l
        /\ jStatus \in [Synthetic -> Status]
    BY <1>1 DEF IInv, TypeOK, WriteLine, Written
  <2>2. 1 \in DOMAIN pending /\ l \in Lines
    BY <2>1, HeadTailProperties, LenProperties, EmptySeq
  <2>3. LineInv(1)  BY <2>2 DEF IInv, PendingInv
  <2>4. l.type \in StatusLines => l.id # s
    BY <2>1, <2>2, <2>3 DEF LineInv, StatusLines, Outcomes
  <2> QED BY <1>1, <2>1, <2>2, <2>4 DEF WriteLine, Lines
<1>2. CASE ~ WriteLine
  <2>1. UNCHANGED jStatus
    BY ZenonT(60), <1>2
    DEF Next, Operator, Loop, Scan, Hook, Register, Cancel, TickBegin, Fetch, FetchBooks,
        FetchFails, SkipSibling, AutoCancel, Judge, ExitSells, HookPlacesNothing, HookThrows,
        FireDone, TickEnd, PositionMoves, Crash, Restart, Issue, journal, file, vars
  <2> QED BY Zenon, <2>1
<1> QED BY <1>1, <1>2

\* An outcome that is on file is final for every instance: nothing is sold for
\* that synthetic any more and it is not revived, before a crash or after it.
THEOREM OutcomesAreFinal == Spec => NoExitAfterOutcome
<1>1. IInv /\ [Next]_vars =>
        [\A s \in Synthetic :
           jStatus[s] \in Outcomes => jStatus'[s] = jStatus[s] /\ exits'[s] = exits[s]]_vars
  BY OutcomeStopsExits, OutcomeStaysOnFile
<1> QED BY <1>1, InvariantHolds, PTL DEF Spec, NoExitAfterOutcome

-----------------------------------------------------------------------------
(* One cancels the other.                                                  *)

\* Until the first crash: a composite is absent together with its legs; while it
\* is armed no leg has sold but the one whose outcome is about to be recorded;
\* and once it has fired one leg has not sold and will not, since it is neither
\* armed nor being fired, and the tick that still holds it knows the parent fired.
FamilyInv(c) ==
  /\ status[c] # "fire_failed"
  /\ status[c] = "absent" => \A s \in Legs(c) : status[s] = "absent"
  /\ status[c] \in {"absent", "armed"} =>
       \A s \in Legs(c) : exits[s] > 0 => pc = "settled" /\ s \in firing
  /\ status[c] = "fired" =>
       /\ \E s \in Legs(c) : exits[s] = 0
       /\ \A s \in Legs(c) :
            /\ s \notin firing /\ status[s] # "armed"
            /\ s \in queue => c \in parentFired

OcoInv == crashes = 0 => pc # "down" /\ \A c \in Composite : FamilyInv(c)

\* Steps that sell nothing, start no exit and at most cancel keep a family's
\* invariant.
LEMMA CalmFamily ==
  ASSUME NEW c \in Composite, FamilyInv(c),
         UNCHANGED <<exits, firing>>, UNCHANGED parentFired \/ queue' = {},
         pc = "settled" => pc' = "settled",
         \/ queue' \subseteq queue
         \/ queue' \subseteq {s \in Synthetic : status'[s] = "armed"},
         \A s \in {c} \cup Legs(c) :
           status'[s] = status[s] \/ (status[s] = "armed" /\ status'[s] = "canceled")
  PROVE  FamilyInv(c)'
<1>1. Legs(c) \subseteq Synthetic /\ c \in Synthetic  BY LegsType
<1>2. status'[c] = status[c] \/ status'[c] = "canceled"  OBVIOUS
<1>3. CASE status'[c] = "canceled"
  BY <1>3 DEF FamilyInv
<1>4. CASE status'[c] = status[c]
  <2>1. status'[c] # "fire_failed" /\ (status'[c] = "absent" => \A s \in Legs(c) : status'[s] = "absent")
    BY <1>4 DEF FamilyInv
  <2>2. status'[c] \in {"absent", "armed"} =>
          \A s \in Legs(c) : exits'[s] > 0 => pc' = "settled" /\ s \in firing'
    BY <1>4 DEF FamilyInv
  <2>3. ASSUME status'[c] = "fired"
        PROVE  /\ \E s \in Legs(c) : exits'[s] = 0
               /\ \A s \in Legs(c) :
                    /\ s \notin firing' /\ status'[s] # "armed"
                    /\ s \in queue' => c \in parentFired'
    BY <1>1, <1>4, <2>3 DEF FamilyInv
  <2> QED BY <2>1, <2>2, <2>3 DEF FamilyInv
<1> QED BY <1>2, <1>3, <1>4

\* Canceling a synthetic, and its legs with it, only takes armed ones.
LEMMA CanceledOnlyCancels ==
  ASSUME NEW s \in Synthetic
  PROVE  \A x \in Synthetic :
           \/ Canceled(status, s)[x] = status[x]
           \/ status[x] = "armed" /\ Canceled(status, s)[x] = "canceled"
BY DEF Canceled

\* A leg is registered by its parent only.
LEMMA RegisterFamily ==
  ASSUME NEW r \in Synthetic, NEW c \in Composite, IInv, FamilyInv(c), Register(r)
  PROVE  FamilyInv(c)'
<1>1. /\ UNCHANGED <<pc, queue, parentFired, firing, exits>>
      /\ r \in Root
      /\ \A x \in {r} \cup Legs(r) : status[x] = "absent"
      /\ status' = [x \in Synthetic |-> IF x \in {r} \cup Legs(r) THEN "armed" ELSE status[x]]
  BY DEF Register, tick, world
<1>2. Legs(c) \subseteq Synthetic /\ c \in Synthetic  BY LegsType
<1>3. ASSUME r # c
      PROVE  \A s \in {c} \cup Legs(c) : s \notin {r} \cup Legs(r)
  <2>1. r \notin Legs(c)  BY <1>1 DEF Root
  <2>2. Legs(r) \cap ({c} \cup Legs(c)) = {}
    <3>1. CASE r \in Composite
      BY <1>3, <3>1, ParamsAssumption
    <3>2. CASE r \notin Composite
      BY <3>2 DEF Legs
    <3> QED BY <3>1, <3>2
  <2> QED BY <1>3, <2>1, <2>2
<1>4. CASE r = c
  <2>1. status[c] = "absent" /\ status'[c] = "armed"  BY <1>1, <1>2, <1>4
  <2> QED BY <1>1, <2>1 DEF FamilyInv
<1>5. CASE r # c
  <2>1. \A s \in {c} \cup Legs(c) : status'[s] = status[s]  BY <1>1, <1>2, <1>3, <1>5
  <2> QED BY <1>1, <2>1, CalmFamily
<1> QED BY <1>4, <1>5

\* The start of a fire: a leg of a fired composite is not fired in the same tick.
LEMMA JudgeFamily ==
  ASSUME NEW x \in Synthetic, NEW late \in BOOLEAN, NEW c \in Composite,
         IInv, FamilyInv(c), Judge(x, late)
  PROVE  FamilyInv(c)'
<1>1. /\ pc = "scanning" /\ x \in queue /\ queue' = queue \ {x} /\ ~ SiblingFired(x)
      /\ UNCHANGED <<exits, parentFired>>
  BY DEF Judge, Scanning, world
<1>2. Legs(c) \subseteq Synthetic /\ c \in Synthetic  BY LegsType
<1>3. CASE UNCHANGED firing
  <2>1. status' = status \/ status' = Canceled(status, x)  BY DEF Judge
  <2>2. \A s \in {c} \cup Legs(c) :
          status'[s] = status[s] \/ (status[s] = "armed" /\ status'[s] = "canceled")
    BY <1>2, <2>1, CanceledOnlyCancels
  <2> QED BY <1>1, <1>3, <2>2, CalmFamily
<1>4. CASE firing' = {x} /\ UNCHANGED status
  <2>1. firing = {}  BY <1>1 DEF IInv, FiringInv
  <2>2. status[c] \in {"absent", "armed"} => \A s \in Legs(c) : ~ (exits[s] > 0)
    BY <1>1 DEF FamilyInv
  <2>3. ASSUME status[c] = "fired" PROVE x \notin Legs(c)
    <3>1. SUFFICES ASSUME x \in Legs(c) PROVE FALSE  OBVIOUS
    <3>2. c \in parentFired  BY <1>1, <2>3, <3>1 DEF FamilyInv
    <3> QED BY <1>1, <3>1, <3>2 DEF SiblingFired, ParentOf
  <2>4. \A s \in Legs(c) : s \in queue' => s \in queue  BY <1>1
  <2> QED BY <1>1, <1>4, <2>2, <2>3, <2>4 DEF FamilyInv
<1>5. UNCHANGED firing \/ (firing' = {x} /\ UNCHANGED status)
  BY DEF Judge
<1> QED BY <1>3, <1>4, <1>5

\* An exit sells for a leg only while no leg of an armed composite has sold.
LEMMA SellsFamily ==
  ASSUME NEW x \in Synthetic, NEW c \in Composite, IInv, FamilyInv(c), ExitSells(x)
  PROVE  FamilyInv(c)'
<1>1. /\ pc = "firing" /\ pc' = "settled" /\ x \in firing
      /\ exits' = [exits EXCEPT ![x] = @ + 1]
      /\ UNCHANGED <<status, queue, parentFired, firing>>
  BY DEF ExitSells, memory
<1>2. Legs(c) \subseteq Synthetic /\ exits \in [Synthetic -> Nat]
  BY LegsType DEF IInv, TypeOK
<1>3. \A s \in Legs(c) \ {x} : exits'[s] = exits[s]  BY <1>1, <1>2
<1>4. ASSUME status[c] \in {"absent", "armed"}, NEW s \in Legs(c), exits'[s] > 0
      PROVE  s \in firing
  BY <1>1, <1>3, <1>4 DEF FamilyInv
<1>5. ASSUME status[c] = "fired" PROVE \E s \in Legs(c) : exits'[s] = 0
  BY <1>1, <1>3, <1>5 DEF FamilyInv
<1> QED BY <1>1, <1>4, <1>5 DEF FamilyInv

\* A hook that throws has not sold.
LEMMA ThrowsFamily ==
  ASSUME NEW x \in Synthetic, NEW c \in Composite, IInv, FamilyInv(c), HookThrows(x)
  PROVE  FamilyInv(c)'
<1>1. /\ pc = "firing" /\ x \in firing /\ firing' = {}
      /\ status' = [status EXCEPT ![x] = "fire_failed"]
      /\ UNCHANGED <<exits, queue, parentFired>>
  BY DEF HookThrows, world
<1>2. /\ Legs(c) \subseteq Synthetic /\ c \in Synthetic
      /\ status \in [Synthetic -> Status] /\ x # c /\ status[x] # "absent"
  BY <1>1, LegsType DEF IInv, TypeOK, FiringInv
<1>3. status'[c] = status[c]  BY <1>1, <1>2
<1>4. status[c] = "absent" => \A s \in Legs(c) : status'[s] = "absent"
  BY <1>1, <1>2 DEF FamilyInv
<1>5. \A s \in Legs(c) : status[s] # "armed" => status'[s] # "armed"
  BY <1>1, <1>2
<1> QED BY <1>1, <1>3, <1>4, <1>5 DEF FamilyInv

\* Recording that a leg fired fires its armed composite and spares the other leg.
LEMMA DoneFamily ==
  ASSUME NEW x \in Synthetic, NEW c \in Composite, IInv, FamilyInv(c), FireDone(x)
  PROVE  FamilyInv(c)'
<1>1. /\ pc = "settled" /\ x \in firing /\ firing' = {}
      /\ status' = Cascaded(x)
      /\ parentFired' = parentFired \cup ArmedParent(x)
      /\ UNCHANGED <<exits, queue>>
  BY DEF FireDone, world
<1>2. /\ Legs(c) \subseteq Synthetic \ Composite /\ c \in Synthetic
      /\ exits \in [Synthetic -> Nat]
      /\ x \notin Composite /\ status[x] # "absent" /\ \A s \in firing : s = x
  BY <1>1, LegsType DEF IInv, TypeOK, FiringInv
<1>3. \A s \in Legs(c) : s # x => status'[s] = status[s] \/ status'[s] = "canceled"
  BY <1>1, <1>2 DEF Cascaded, ArmedParent, ParentOf
<1>4. status'[x] = "fired"  BY <1>1 DEF Cascaded
<1>5. CASE c \in ArmedParent(x)
  <2>1. PICK b \in Synthetic : Legs(c) = {x, b} /\ b # x /\ Siblings(x) = {b}
    BY <1>5, FamilyFacts
  <2>2. status'[c] = "fired"  BY <1>1, <1>2, <1>5 DEF Cascaded
  <2>3. status[c] = "armed"  BY <1>5 DEF ArmedParent
  <2>4. exits[b] = 0  BY <1>2, <2>1, <2>3 DEF FamilyInv
  <2>5. status'[b] # "armed"  BY <1>1, <1>2, <2>1 DEF Cascaded
  <2> QED BY <1>1, <1>4, <1>5, <2>1, <2>2, <2>4, <2>5 DEF FamilyInv
<1>6. CASE c \notin ArmedParent(x)
  <2>1. status'[c] = status[c]
    <3>1. c \notin Siblings(x)  BY LegsType DEF Siblings, ArmedParent, ParentOf
    <3> QED BY <1>1, <1>2, <1>6, <3>1 DEF Cascaded
  <2>2. ASSUME status[c] \in {"absent", "armed"}
        PROVE  x \notin Legs(c) /\ \A s \in Legs(c) : exits[s] = 0
    <3>1. x \notin Legs(c)
      BY <1>2, <1>6, <2>2 DEF FamilyInv, ArmedParent, ParentOf
    <3> QED BY <1>2, <2>2, <3>1 DEF FamilyInv
  <2>3. ASSUME status[c] = "absent" PROVE \A s \in Legs(c) : status'[s] = "absent"
    <3> SUFFICES ASSUME NEW s \in Legs(c) PROVE status'[s] = "absent"
      OBVIOUS
    <3>1. status[s] = "absent" /\ s # x  BY <1>2, <2>3 DEF FamilyInv
    <3> QED BY <1>1, <1>2, <3>1 DEF Cascaded, ArmedParent, ParentOf
  <2>4. ASSUME status[c] = "fired" PROVE \A s \in Legs(c) : status'[s] # "armed"
    BY <1>3, <1>4, <2>4 DEF FamilyInv
  <2> QED BY <1>1, <2>1, <2>2, <2>3, <2>4 DEF FamilyInv
<1> QED BY <1>5, <1>6

\* Every step keeps every family's invariant until the process is killed.
LEMMA OcoNext == IInv /\ OcoInv /\ [Next]_vars => OcoInv'
<1> SUFFICES ASSUME IInv, OcoInv, [Next]_vars, crashes' = 0
             PROVE  pc' # "down" /\ \A c \in Composite : FamilyInv(c)'
  BY DEF OcoInv
<1>0. crashes \in Nat /\ \A s \in Synthetic : Legs(s) \subseteq Synthetic
  BY SwitchAssumption, LegsType DEF IInv, TypeOK
<1>1. ~ Crash  BY SMTT(30), <1>0 DEF Crash
<1>2. crashes = 0
  BY ZenonT(60), <1>1 DEF Next, Operator, Loop, Scan, Hook, WriteLine, Register, Cancel, TickBegin, Fetch,
        FetchBooks, FetchFails, SkipSibling, AutoCancel, Judge, ExitSells, HookPlacesNothing,
        HookThrows, FireDone, TickEnd, PositionMoves, Restart, world, vars
<1>3. pc # "down" /\ \A c \in Composite : FamilyInv(c)  BY <1>2 DEF OcoInv
<1>4. ~ Restart  BY <1>3 DEF Restart
<1>5. pc' # "down"
  BY ZenonT(60), <1>1, <1>3 DEF Next, Operator, Loop, Scan, Hook, WriteLine, Register, Cancel, TickBegin,
        Fetch, FetchBooks, FetchFails, SkipSibling, AutoCancel, Judge, Scanning, ExitSells,
        HookPlacesNothing, HookThrows, FireDone, TickEnd, PositionMoves, Restart, tick, vars
<1> SUFFICES ASSUME NEW c \in Composite PROVE FamilyInv(c)'
  BY <1>5
<1>6. c \in Synthetic /\ Legs(c) \subseteq Synthetic  BY <1>0, LegsType
<1>7. ASSUME NEW x \in Synthetic, Register(x) PROVE FamilyInv(c)'
  BY <1>3, <1>7, RegisterFamily
<1>8. ASSUME NEW x \in Synthetic, Cancel(x) \/ AutoCancel(x) PROVE FamilyInv(c)'
  <2>1. /\ status' = Canceled(status, x) /\ queue' \subseteq queue
        /\ pc = "settled" => pc' = "settled"
        /\ UNCHANGED <<exits, parentFired, firing>>
    BY <1>8 DEF Cancel, AutoCancel, Scanning, tick, world
  <2> QED BY <1>3, <1>6, <2>1, CanceledOnlyCancels, CalmFamily
<1>9. ASSUME NEW x \in Synthetic, NEW late \in BOOLEAN, Judge(x, late) PROVE FamilyInv(c)'
  BY <1>3, <1>9, JudgeFamily
<1>10. ASSUME NEW x \in Synthetic, ExitSells(x) PROVE FamilyInv(c)'
  BY <1>3, <1>10, SellsFamily
<1>11. ASSUME NEW x \in Synthetic, HookThrows(x) PROVE FamilyInv(c)'
  BY <1>3, <1>11, ThrowsFamily
<1>12. ASSUME NEW x \in Synthetic, FireDone(x) PROVE FamilyInv(c)'
  BY <1>3, <1>12, DoneFamily
<1>13. ASSUME \/ WriteLine \/ Fetch \/ FetchFails \/ TickEnd
              \/ (\E t \in Ticker : PositionMoves(t)) \/ UNCHANGED vars
              \/ (\E x \in Synthetic : SkipSibling(x) \/ HookPlacesNothing(x))
       PROVE  FamilyInv(c)'
  <2>1. /\ UNCHANGED <<status, exits, firing>>
        /\ UNCHANGED parentFired \/ queue' = {}
        /\ pc = "settled" => pc' = "settled"
        /\ queue' \subseteq queue
    BY <1>13 DEF WriteLine, Fetch, FetchBooks, FetchFails, TickEnd, PositionMoves, vars,
          SkipSibling, Scanning, HookPlacesNothing, memory, tick, world
  <2> QED BY <1>3, <2>1, CalmFamily
<1>14. CASE TickBegin
  <2>1. /\ UNCHANGED <<status, exits, parentFired, firing>> /\ pc # "settled"
        /\ queue' = Armed
    BY <1>14 DEF TickBegin, memory, world
  <2> QED BY <1>3, <2>1, CalmFamily DEF Armed
<1> QED
  BY <1>1, <1>4, <1>7, <1>8, <1>9, <1>10, <1>11, <1>12, <1>13, <1>14
  DEF Next, Operator, Loop, Scan, Hook

\* One cancels the other, for any number of composites whose legs are crossed by
\* one bid, and whatever operators do while a hook is awaited: without a crash
\* both legs sell only under a composite that has been canceled.
THEOREM OneLegSells == Spec => []OneLegUnlessCanceled
<1>1. Init => OcoInv
  BY LegsType DEF Init, OcoInv, FamilyInv
<1>2. IInv /\ OcoInv => OneLegUnlessCanceled
  <2> SUFFICES ASSUME IInv, OcoInv, crashes = 0, NEW c \in Composite,
                      \A s \in Legs(c) : exits[s] > 0
               PROVE  status[c] = "canceled"
    BY DEF OneLegUnlessCanceled
  <2>1. FamilyInv(c)  BY DEF OcoInv
  <2>2. PICK l, r \in Legs(c) : l # r  BY ParamsAssumption DEF Legs
  <2>3. \A s, t \in firing : s = t  BY DEF IInv, FiringInv
  <2>4. status[c] \notin {"absent", "armed"}  BY <2>1, <2>2, <2>3 DEF FamilyInv
  <2>5. status[c] \notin {"fired", "fire_failed"}  BY <2>1 DEF FamilyInv
  <2>6. status[c] \in Status  BY LegsType DEF IInv, TypeOK
  <2> QED BY <2>4, <2>5, <2>6 DEF Status, Outcomes
<1> QED BY <1>1, <1>2, OcoNext, InvariantHolds, PTL DEF Spec

-----------------------------------------------------------------------------
(* A stop never loosens.                                                   *)

\* The steps of step-trails, which sStepTrail checks (and the general register()
\* of mcp.ts does not): with a negative one the peak would follow the bid down.
StepsAreNatural == \A s \in Synthetic : Params[s].kind = "step_trail" => Params[s].step \in Nat

\* Evaluating a synthetic does not lower its peak.
LEMMA PeakGrows ==
  ASSUME StepsAreNatural,
         NEW s \in Synthetic, NEW st \in EvalState, NEW bid \in Nat, NEW late \in BOOLEAN,
         st.peak >= NoPeak
  PROVE  Evaluate(Params[s], st, bid, late).state.peak >= st.peak
<1> DEFINE p == Params[s]
<1> USE DEF EvalState, Verdict, NoPeak
<1> HIDE DEF p
<1>1. EvalStop(p, st, bid).state.peak >= st.peak  BY DEF EvalStop
<1>2. EvalTrailingStop(p, st, bid).state.peak >= st.peak
  BY DEF EvalTrailingStop, MaxOf, PeakSoFar
<1>3. ASSUME p.step \in Nat
      PROVE  EvalStepTrail(p, st, bid).state.peak >= st.peak
  <2> DEFINE peak == IF bid > PeakSoFar(st, bid) + p.step THEN bid ELSE PeakSoFar(st, bid)
  <2>1. EvalStepTrail(p, st, bid).state.peak = peak  BY DEF EvalStepTrail
  <2> QED BY <1>3, <2>1 DEF PeakSoFar
<1>4. EvalSingleTakeProfit(p, st, bid).state.peak >= st.peak
  BY DEF EvalSingleTakeProfit
<1>5. EvalRungs(p, st, bid).state.peak >= st.peak
  BY DEF EvalRungs
<1>6. EvalTimeStop(p, st, bid, late).state.peak >= st.peak
  BY DEF EvalTimeStop
<1>7. Verdict(FALSE, FALSE, FALSE, st).state.peak >= st.peak
  OBVIOUS
<1> QED BY <1>1, <1>2, <1>3, <1>4, <1>5, <1>6, <1>7, ParamsAssumption
   DEF Evaluate, Kinds, StepsAreNatural, p

\* The peak in memory is never below the one on file, and an id that is not on
\* file has none.
PeakInv ==
  /\ \A s \in Synthetic : jState[s].peak >= NoPeak /\ evalState[s].peak >= NoPeak
  /\ \A s \in Synthetic : jStatus[s] = "absent" => jState[s] = NoState
  /\ pc # "down" => \A s \in Synthetic : evalState[s].peak >= jState[s].peak

\* A line brings the file up to the memory.
LEMMA WriteLinePeak ==
  ASSUME IInv, PeakInv, WriteLine
  PROVE  /\ PeakInv'
         /\ \A s \in Synthetic : jState'[s].peak >= jState[s].peak
<1> DEFINE l == Head(pending)
<1>1. /\ pending \in Seq(Lines) /\ pending # << >> /\ pending[1] = l
      /\ jStatus \in [Synthetic -> Status] /\ jState \in [Synthetic -> EvalState]
      /\ pc # "down"
  BY DEF IInv, TypeOK, WriteLine, Written
<1>2. 1 \in DOMAIN pending /\ l \in Lines
  BY <1>1, HeadTailProperties, LenProperties, EmptySeq
<1>3. l.id \in Synthetic /\ LineInv(1)
  BY <1>2 DEF IInv, PendingInv, Lines
<1>4. l.type \in {"registered", "state_update"} => l.state = evalState[l.id]
  BY <1>1, <1>2, <1>3 DEF IInv, MemoryMatchesJournal, MyLines
<1>5. /\ jStatus' = IF l.type \in StatusLines
                    THEN [jStatus EXCEPT ![l.id] = StatusAfter(l.type)] ELSE jStatus
      /\ jState' = IF l.type \in {"registered", "state_update"}
                   THEN [jState EXCEPT ![l.id] = l.state] ELSE jState
  BY <1>1, <1>3 DEF WriteLine, LineInv
<1>6. UNCHANGED <<evalState, pc>>  BY DEF WriteLine, memory, tick
<1>7. \A s \in Synthetic : jState[s].peak \in Int /\ evalState[s].peak \in Int
  BY DEF IInv, TypeOK, EvalState
<1>8. \A s \in Synthetic : jState'[s] = jState[s] \/ jState'[s] = evalState[s]
  BY <1>1, <1>4, <1>5
<1>9. \A s \in Synthetic : jState'[s].peak >= jState[s].peak /\ evalState[s].peak >= jState'[s].peak
  BY <1>1, <1>7, <1>8 DEF PeakInv
<1>10. \A s \in Synthetic : jStatus'[s] = "absent" => jState'[s] = NoState
  <2> SUFFICES ASSUME NEW s \in Synthetic, jStatus'[s] = "absent" PROVE jState'[s] = NoState
    OBVIOUS
  <2>1. \A k \in StatusLines : StatusAfter(k) # "absent"
    BY DEF StatusAfter, StatusLines, Outcomes
  <2>2. jStatus[s] = "absent" \/ s = l.id  BY <1>1, <1>5
  <2>3. ~ (s = l.id /\ l.type \in StatusLines)  BY <1>1, <1>3, <1>5, <2>1
  <2>4. "registered" \in StatusLines  BY DEF StatusLines
  <2>5. jStatus[s] = "absent"  BY <1>5, <2>2, <2>3
  <2>6. s # l.id  BY <1>1, <1>3, <2>3, <2>4, <2>5 DEF LineInv
  <2> QED BY <1>1, <1>5, <2>5, <2>6 DEF PeakInv
<1> QED BY <1>1, <1>6, <1>8, <1>9, <1>10 DEF PeakInv

\* No other step writes to the file, and none lowers a peak in memory but a
\* crash.
LEMMA PeakNext ==
  ASSUME StepsAreNatural, IInv, PeakInv, [Next]_vars
  PROVE  PeakInv'
<1>0. /\ TypeOK /\ TypeOK' /\ NoState.peak = NoPeak /\ NoPeak \in Int
      /\ \A s \in Synthetic : evalState[s].peak \in Int /\ jState[s].peak \in Int
  <2>1. TypeOK  BY DEF IInv
  <2>2. TypeOK'  BY <2>1, NextType
  <2>3. NoState.peak = NoPeak /\ NoPeak \in Int  BY DEF NoState, NoPeak
  <2>4. \A s \in Synthetic : evalState[s].peak \in Int /\ jState[s].peak \in Int
    BY <2>1 DEF TypeOK, EvalState
  <2> QED BY <2>1, <2>2, <2>3, <2>4
<1>1. CASE WriteLine
  BY <1>1, WriteLinePeak
<1>2. ASSUME NEW s \in Synthetic, Register(s) PROVE PeakInv'
  <2>1. /\ Written /\ pc # "down" /\ UNCHANGED <<jStatus, jState, pc>>
        /\ \A x \in {s} \cup Legs(s) : status[x] = "absent"
        /\ evalState' = [x \in Synthetic |-> IF x \in {s} \cup Legs(s) THEN NoState ELSE evalState[x]]
    BY <1>2 DEF Register, Awaiting, Issue, file, tick
  <2>2. \A x \in Synthetic : x \in {s} \cup Legs(s) => jState[x] = NoState
    BY <2>1, Synced DEF Agrees, PeakInv
  <2>3. \A x \in Synthetic : evalState'[x].peak >= NoPeak /\ evalState'[x].peak >= jState[x].peak
    BY <1>0, <2>1, <2>2 DEF PeakInv
  <2> QED BY <2>1, <2>3 DEF PeakInv
<1>3. ASSUME NEW s \in Synthetic, NEW late \in BOOLEAN, Judge(s, late) PROVE PeakInv'
  <2> DEFINE v == Evaluate(Params[s], evalState[s], books[Params[s].ticker], late)
  <2>1. /\ pc # "down" /\ UNCHANGED <<jStatus, jState>>
        /\ evalState' = IF v.update THEN [evalState EXCEPT ![s] = v.state] ELSE evalState
    BY <1>3 DEF Judge, Scanning, Issue, file
  <2>2. v \in Verdicts /\ v.state.peak >= evalState[s].peak
    <3>1. books[Params[s].ticker] \in Nat
      <4>1. books[Params[s].ticker] \in Bids \cup {0}  BY <1>0, TickerType DEF TypeOK
      <4> QED BY <4>1, BidsType
    <3>2. evalState[s] \in EvalState /\ evalState[s].peak >= NoPeak
      BY <1>0 DEF TypeOK, PeakInv
    <3> QED BY <3>1, <3>2, VerdictType, PeakGrows
  <2>3. v.state.peak \in Int  BY <2>2 DEF Verdicts, EvalState
  <2> HIDE DEF v
  <2>4. evalState \in [Synthetic -> EvalState]  BY <1>0 DEF TypeOK
  <2>5. \A x \in Synthetic : evalState'[x] = evalState[x] \/ (x = s /\ evalState'[x] = v.state)
    BY <2>1, <2>4
  <2>6. \A x \in Synthetic : evalState'[x].peak >= NoPeak /\ evalState'[x].peak >= jState[x].peak
    BY <1>0, <2>1, <2>2, <2>3, <2>5 DEF PeakInv
  <2> QED BY Zenon, <2>1, <2>6 DEF PeakInv
<1>4. CASE Crash
  <2>1. /\ pc' = "down" /\ UNCHANGED <<jStatus, jState>>
        /\ \A x \in Synthetic : evalState'[x] = NoState
    BY <1>4 DEF Crash, file
  <2> QED BY <1>0, <2>1 DEF PeakInv
<1>5. CASE Restart
  <2>1. evalState' = jState /\ UNCHANGED <<jStatus, jState>>
    BY <1>5 DEF Restart, journal, file
  <2> QED BY <1>0, <2>1 DEF PeakInv
<1>6. CASE UNCHANGED <<evalState, jStatus, jState>> /\ (pc' # "down" => pc # "down")
  BY <1>6 DEF PeakInv
<1>7. ASSUME NEW s \in Synthetic,
             Cancel(s) \/ SkipSibling(s) \/ AutoCancel(s) \/ Hook(s) \/ FireDone(s)
      PROVE  PeakInv'
  <2>1. UNCHANGED <<evalState, jStatus, jState>> /\ pc # "down"
    BY <1>7 DEF Cancel, Awaiting, SkipSibling, AutoCancel, Scanning, Hook, ExitSells,
                HookPlacesNothing, HookThrows, FireDone, Issue, memory, journal, file
  <2> QED BY <1>6, <2>1
<1>8. CASE \/ TickBegin \/ Fetch \/ FetchFails \/ TickEnd
           \/ (\E t \in Ticker : PositionMoves(t)) \/ UNCHANGED vars
  <2>1. UNCHANGED <<evalState, jStatus, jState>> /\ (pc' # "down" => pc # "down")
    BY <1>8 DEF TickBegin, Fetch, FetchBooks, FetchFails, TickEnd, PositionMoves,
                vars, memory, journal, file, tick
  <2> QED BY <1>6, <2>1
<1> QED BY <1>1, <1>2, <1>3, <1>4, <1>5, <1>7, <1>8 DEF Next, Operator, Loop, Scan

\* In every behaviour the peak on file never falls: a trailing stop does not
\* loosen, not even by a crash between an evaluation and its journal line.
THEOREM StopsNeverLoosen ==
  ASSUME StepsAreNatural
  PROVE  Spec => StopNeverLoosens
<1>1. Init => IInv /\ PeakInv
  BY InitInv DEF Init, PeakInv, NoState, NoPeak
<1>2. IInv /\ PeakInv /\ [Next]_vars => (IInv /\ PeakInv)'
  BY NextInv, PeakNext
<1>3. IInv /\ PeakInv /\ [Next]_vars =>
        [\A s \in Synthetic : jState'[s].peak >= jState[s].peak]_vars
  <2> SUFFICES ASSUME IInv, PeakInv, [Next]_vars
               PROVE  \A s \in Synthetic : jState'[s].peak >= jState[s].peak
    OBVIOUS
  <2>1. CASE WriteLine
    BY <2>1, WriteLinePeak
  <2>2. CASE UNCHANGED jState
    <3>1. \A s \in Synthetic : jState[s].peak \in Int  BY DEF IInv, TypeOK, EvalState
    <3> QED BY <2>2, <3>1
  <2>3. CASE ~ WriteLine
    <3>1. ASSUME NEW s \in Synthetic,
                 \/ Register(s) \/ Cancel(s) \/ SkipSibling(s) \/ AutoCancel(s)
                 \/ (\E late \in BOOLEAN : Judge(s, late)) \/ Hook(s) \/ FireDone(s)
          PROVE  UNCHANGED jState
      BY Zenon, <3>1 DEF Register, Cancel, SkipSibling, AutoCancel, Judge, Hook, ExitSells,
                  HookPlacesNothing, HookThrows, FireDone, Issue, memory, journal, file
    <3>2. ASSUME \/ TickBegin \/ Fetch \/ FetchFails \/ TickEnd \/ Crash \/ Restart
                 \/ (\E t \in Ticker : PositionMoves(t)) \/ UNCHANGED vars
          PROVE  UNCHANGED jState
      BY <3>2 DEF TickBegin, Fetch, FetchBooks, FetchFails, TickEnd, Crash, Restart,
                  PositionMoves, vars, memory, journal, file
    <3>3. UNCHANGED jState  BY <2>3, <3>1, <3>2 DEF Next, Operator, Loop, Scan
    <3> QED BY Zenon, <2>2, <3>3
  <2> QED BY <2>1, <2>3
<1> QED BY <1>1, <1>2, <1>3, PTL DEF Spec, StopNeverLoosens

-----------------------------------------------------------------------------
(***************************************************************************)
(* The watcher implements SyntheticLifecycle: read as the status on file,  *)
(* a synthetic obeys the lifecycle at every step, crashes included.        *)
(***************************************************************************)

\* The leaves of the lifecycle are the synthetics that are not composite.
LEMMA LeafIsNotComposite ==
  /\ Lifecycle!Leaf = Synthetic \ Composite
  /\ Lifecycle!Outcomes = Outcomes
BY ParamsAssumption DEF Lifecycle!Leaf, Lifecycle!Outcomes, Outcomes, Legs

\* The elements of a concatenation come from one of its parts.
LEMMA ConcatElements ==
  ASSUME NEW S, NEW A \in Seq(S), NEW B \in Seq(S), NEW i \in DOMAIN (A \o B)
  PROVE  \/ \E k \in DOMAIN A : (A \o B)[i] = A[k]
         \/ \E k \in DOMAIN B : (A \o B)[i] = B[k]
<1>1. Len(A) \in Nat /\ Len(B) \in Nat /\ DOMAIN A = 1 .. Len(A) /\ DOMAIN B = 1 .. Len(B)
  BY LenProperties
<1>2. DOMAIN (A \o B) = 1 .. (Len(A) + Len(B))
  BY ConcatProperties, LenProperties
<1>3. i \in 1 .. (Len(A) + Len(B))
      /\ (A \o B)[i] = IF i <= Len(A) THEN A[i] ELSE B[i - Len(A)]
  BY <1>2, ConcatProperties
<1> QED BY <1>1, <1>3

\* The lines that decide the fate of a leaf
Deciding == {"fire_pending"} \cup Outcomes

\* One of them is issued for x.
Decided(x) == \E i \in DOMAIN pending : pending[i].id = x /\ pending[i].type \in Deciding

\* A step that issues lines decides at most what the tick has in hand.
LEMMA IssueDrops ==
  ASSUME UNCHANGED jStatus,
         queue' \cup firing' \subseteq queue \cup firing,
         \A i \in DOMAIN pending' :
           pending'[i].type \in Deciding /\ pending'[i].id \notin Composite =>
             pending'[i].id \in queue \cup firing
  PROVE  Lifecycle!Drop
<1>1. InFlight' \subseteq InFlight
  BY DEF InFlight, MyLines, Deciding
<1> QED BY <1>1 DEF Lifecycle!Drop

\* register() writes registered lines only.
LEMMA RegisterLinesKind ==
  ASSUME NEW s \in Synthetic, NEW i \in DOMAIN RegisterLines(s)
  PROVE  RegisterLines(s)[i].type = "registered"
BY DEF RegisterLines, Line

\* A fire decides the fate of one leaf and, beyond it, of composites only.
LEMMA FireDoneLinesKind ==
  ASSUME NEW s \in Synthetic, NEW i \in DOMAIN FireDoneLines(s),
         FireDoneLines(s)[i].type \in Deciding
  PROVE  FireDoneLines(s)[i].id \in {s} \cup Composite
<1> DEFINE F(x) == Line("fired", x)
<1>1. CASE ArmedParent(s) = {}
  BY <1>1 DEF FireDoneLines, Line
<1>2. CASE ArmedParent(s) # {}
  <2>1. PICK c \in Composite, b \in Synthetic \ Composite :
           /\ c = CHOOSE d \in ArmedParent(s) : TRUE
           /\ b = CHOOSE d \in Legs(c) : d # s
    BY <1>2, FamilyFacts
  <2>2. FireDoneLines(s) = <<F(s), F(c)>> \o CancelLine(status, b)
    BY <1>2, <2>1 DEF FireDoneLines
  <2>3. F(s) \in Lines /\ F(c) \in Lines /\ Line("canceled", b) \in Lines
    BY <2>1, LineType DEF StatusLines, Outcomes, Composite
  <2>4. /\ F(s).id = s /\ F(c).id = c /\ Line("canceled", b).type = "canceled"
    BY DEF Line
  <2> HIDE DEF F
  <2>5. <<F(s), F(c)>> \in Seq(Lines)  BY <2>3
  <2>6. /\ CancelLine(status, b) \in Seq(Lines)
        /\ \A k \in DOMAIN CancelLine(status, b) : CancelLine(status, b)[k].type = "canceled"
    BY <2>3, <2>4 DEF CancelLine
  <2>7. \A k \in DOMAIN <<F(s), F(c)>> : <<F(s), F(c)>>[k].id \in {s, c}
    BY <2>4
  <2>8. "canceled" \notin Deciding  BY DEF Deciding, Outcomes
  <2> DEFINE A == <<F(s), F(c)>>
             B == CancelLine(status, b)
  <2> HIDE DEF A, B
  <2>9. \/ \E k \in DOMAIN A : FireDoneLines(s)[i] = A[k]
        \/ \E k \in DOMAIN B : FireDoneLines(s)[i] = B[k]
    <3>1. FireDoneLines(s) = A \o B  BY <2>2 DEF A, B
    <3>2. A \in Seq(Lines) /\ B \in Seq(Lines)  BY <2>5, <2>6 DEF A, B
    <3>3. i \in DOMAIN (A \o B)  BY <3>1
    <3> QED BY <3>1, <3>2, <3>3, ConcatElements
  <2> QED BY Zenon, <2>1, <2>6, <2>7, <2>8, <2>9 DEF A, B
<1> QED BY <1>1, <1>2

\* cancel() decides no outcome and fires nothing.
LEMMA CancelLinesKind ==
  ASSUME NEW s \in Synthetic, NEW st, NEW i \in DOMAIN CancelLines(st, s)
  PROVE  CancelLines(st, s)[i].type \notin Deciding
<1>1. CancelLines(st, s)[i] = Line("canceled", CancelLines(st, s)[i].id)
  BY CancelLinesFacts
<1> QED BY <1>1 DEF Line, Deciding, Outcomes

\* Judging a synthetic issues deciding lines for that synthetic only.
LEMMA JudgeDrops ==
  ASSUME IInv, NEW s \in Synthetic, NEW late \in BOOLEAN, Judge(s, late)
  PROVE  Lifecycle!Drop
<1> DEFINE v == Evaluate(Params[s], evalState[s], books[Params[s].ticker], late)
           L == IF v.fire THEN <<Line("fire_pending", s)>>
                ELSE IF v.unregister THEN CancelLines(status, s) ELSE <<>>
<1>1. /\ s \in queue /\ queue' \subseteq queue /\ UNCHANGED jStatus
      /\ firing' \subseteq firing \cup {s}
      /\ pending' = StateLine(s, v) \o L
  BY DEF Judge, Scanning, Issue, file
<1>2. v \in Verdicts
  <2>1. books[Params[s].ticker] \in Nat
    <3>1. books[Params[s].ticker] \in Bids \cup {0}
      BY Zenon, TickerType DEF IInv, TypeOK
    <3> QED BY <3>1, BidsType
  <2> QED BY <2>1, VerdictType DEF IInv, TypeOK
<1>3. /\ L \in Seq(Lines)
      /\ \A k \in DOMAIN L : L[k].type \in Deciding => L[k].id = s
  <2>1. CASE v.fire
    BY <2>1, LineType DEF Line, StatusLines
  <2>2. CASE ~ v.fire
    BY <2>2, CancelLinesFacts, CancelLinesKind
  <2> QED BY <2>1, <2>2
<1> HIDE DEF L, v
<1>4. /\ StateLine(s, v) \in Seq(Lines)
      /\ \A k \in DOMAIN StateLine(s, v) : StateLine(s, v)[k].type \notin Deciding
  <2> DEFINE u == [type |-> "state_update", id |-> s, state |-> v.state]
  <2>1. u \in Lines /\ u.type = "state_update"  BY <1>2 DEF Lines, Verdicts
  <2>2. "state_update" \notin Deciding  BY DEF Deciding, Outcomes
  <2>3. StateLine(s, v) = IF v.update THEN <<u>> ELSE <<>>  BY DEF StateLine
  <2> HIDE DEF u
  <2> QED BY <2>1, <2>2, <2>3
<1>5. \A i \in DOMAIN pending' : pending'[i].type \in Deciding => pending'[i].id = s
  BY <1>1, <1>3, <1>4, ConcatElements
<1> QED BY Zenon, <1>1, <1>5, IssueDrops

-----------------------------------------------------------------------------
(* One more line in the file is one step of the lifecycle.                 *)

\* A line that reaches the file is a step of the lifecycle, or changes nothing.
LEMMA WriteLineMaps ==
  ASSUME IInv, WriteLine
  PROVE  Lifecycle!Next \/ UNCHANGED <<jStatus, InFlight>>
<1>0. /\ pending # <<>> /\ pending \in Seq(Lines) /\ pending[1] \in Lines
      /\ DOMAIN pending = 1 .. Len(pending) /\ Len(pending) \in Nat \ {0}
      /\ 1 \in DOMAIN pending /\ pending[1] = Head(pending)
  BY DEF WriteLine, Written, IInv, TypeOK
<1> PICK l \in Lines : l = pending[1]  BY <1>0
<1> PICK id \in Synthetic : id = l.id  BY DEF Lines
<1>1. /\ DOMAIN pending = 1 .. Len(pending) /\ Len(pending) \in Nat \ {0}
      /\ 1 \in DOMAIN pending /\ pending[1] = l /\ l = Head(pending) /\ id = l.id
  BY <1>0
<1>2. /\ pending' = Tail(pending)
      /\ DOMAIN pending' = 1 .. (Len(pending) - 1)
      /\ \A i \in DOMAIN pending' : pending'[i] = pending[i + 1] /\ i + 1 \in DOMAIN pending
      /\ \A i \in DOMAIN pending : i # 1 => i - 1 \in DOMAIN pending' /\ pending'[i - 1] = pending[i]
      /\ UNCHANGED <<queue, firing>>
  BY <1>0, <1>1 DEF WriteLine, tick
<1>3. /\ jStatus' = IF l.type \in StatusLines /\ (l.type = "registered" \/ jStatus[id] # "absent")
                    THEN [jStatus EXCEPT ![id] = StatusAfter(l.type)] ELSE jStatus
      /\ id \in Synthetic /\ l.type \in StatusLines \cup {"state_update"}
      /\ jStatus \in [Synthetic -> Status]
  BY <1>1 DEF WriteLine, IInv, TypeOK, Lines
<1>4. LineInv(1)  BY <1>1 DEF IInv, PendingInv
<1>5. \A x, t : ~ Earlier(1, x, t)  BY DEF Earlier
<1>6. InFlight = queue \cup firing \cup {x \in Synthetic \ Composite : Decided(x)}
  BY DEF InFlight, MyLines, Deciding, Decided
<1>7. InFlight' = queue \cup firing \cup {x \in Synthetic \ Composite : Decided(x)'}
  BY <1>2 DEF InFlight, MyLines, Deciding, Decided
<1>8. ASSUME NEW x, x # id PROVE Decided(x) <=> Decided(x)'
  <2>1. Decided(x) => Decided(x)'  BY <1>1, <1>2, <1>8 DEF Decided
  <2>2. Decided(x)' => Decided(x)  BY <1>2 DEF Decided
  <2> QED BY <2>1, <2>2
<1>9. ASSUME l.type \notin Deciding \/ id \in Composite
      PROVE  InFlight' = InFlight
  <2>1. Decided(id)' => Decided(id)  BY <1>2 DEF Decided
  <2>2. id \notin Composite /\ Decided(id) => Decided(id)'
    BY ZenonT(60), <1>1, <1>2, <1>9 DEF Decided
  <2> QED BY <1>6, <1>7, <1>8, <2>1, <2>2
<1>10. CASE l.type = "registered"
  <2>1. Lifecycle!Register(id)
    <3>1. jStatus[id] = "absent" /\ \A x \in Legs(id) : jStatus[x] # "absent"
      BY <1>1, <1>4, <1>5, <1>10 DEF LineInv
    <3>2. jStatus' = [jStatus EXCEPT ![id] = "armed"]
      BY <1>3, <1>10 DEF StatusAfter, StatusLines
    <3>3. InFlight' = InFlight  BY <1>9, <1>10 DEF Deciding, Outcomes
    <3> QED BY <1>3, <3>1, <3>2, <3>3 DEF Lifecycle!Register
  <2> QED BY <1>3, <2>1 DEF Lifecycle!Next
<1>11. CASE l.type = "state_update"
  BY <1>3, <1>9, <1>11 DEF Deciding, Outcomes, StatusLines
<1>12. CASE l.type = "canceled"
  <2>1. Lifecycle!Cancel(id)
    <3>1. jStatus[id] = "armed"  BY <1>1, <1>4, <1>12 DEF LineInv
    <3>2. jStatus' = [jStatus EXCEPT ![id] = "canceled"]
      BY <1>3, <1>12, <3>1 DEF StatusAfter, StatusLines
    <3>3. InFlight' = InFlight  BY <1>9, <1>12 DEF Deciding, Outcomes
    <3> QED BY <3>1, <3>2, <3>3 DEF Lifecycle!Cancel
  <2> QED BY <1>3, <2>1 DEF Lifecycle!Next
<1>13. CASE l.type = "fire_pending"
  <2>1. id \in firing /\ jStatus[id] \in {"armed", "canceled"}
    BY <1>1, <1>4, <1>13 DEF LineInv
  <2>2. id \notin Composite  BY <2>1 DEF IInv, FiringInv
  <2>3. InFlight' = InFlight
    BY <1>6, <1>7, <1>8, <2>1
  <2>4. jStatus' = [jStatus EXCEPT ![id] = "armed"]
    BY <1>3, <1>13, <2>1 DEF StatusAfter, StatusLines
  <2>5. CASE jStatus[id] = "armed"
    BY <1>3, <2>3, <2>4, <2>5
  <2>6. CASE jStatus[id] = "canceled"
    <3>1. id \in InFlight  BY <2>1 DEF InFlight
    <3>2. Lifecycle!Overtake(id)
      BY <1>3, <2>2, <2>3, <2>4, <2>6, <3>1, LeafIsNotComposite DEF Lifecycle!Overtake
    <3> QED BY <1>3, <3>2 DEF Lifecycle!Next
  <2> QED BY <2>1, <2>5, <2>6
<1>14. CASE l.type \in Outcomes /\ id \notin Composite
  <2>1. id \notin queue \cup firing /\ jStatus[id] \in {"armed", "canceled"}
    BY <1>1, <1>4, <1>14 DEF LineInv
  <2>2. Decided(id)
    BY <1>1, <1>14 DEF Decided, Deciding
  <2>3. ~ Decided(id)'
    <3>1. \A i, k \in DOMAIN pending :
            /\ pending[i].id = pending[k].id
            /\ pending[i].type \in StatusLines /\ pending[k].type \in StatusLines
            => i = k
      BY DEF IInv, PendingInv
    <3>2. Deciding \subseteq StatusLines  BY DEF Deciding, StatusLines
    <3>3. SUFFICES ASSUME NEW i \in DOMAIN pending',
                          pending'[i].id = id, pending'[i].type \in Deciding
                   PROVE  FALSE
      BY DEF Decided
    <3>4. /\ i + 1 \in DOMAIN pending
          /\ pending[i + 1].id = pending[1].id
          /\ pending[i + 1].type \in StatusLines /\ pending[1].type \in StatusLines
      BY <1>1, <1>2, <1>14, <3>2, <3>3 DEF StatusLines
    <3>5. i + 1 = 1  BY <1>1, <3>1, <3>4
    <3>6. i \in 1 .. (Len(pending) - 1)  BY <1>2, <3>3
    <3> QED BY <1>1, <3>5, <3>6
  <2>4. InFlight' = InFlight \ {id}
    BY <1>6, <1>7, <1>8, <2>1, <2>3
  <2>5. id \in InFlight  BY <1>14, <1>6, <2>2
  <2>6. jStatus' = [jStatus EXCEPT ![id] = l.type]
    BY <1>3, <1>14, <2>1 DEF StatusAfter, StatusLines, Outcomes
  <2>7. Lifecycle!Settle(id, l.type)
    BY <1>3, <1>14, <2>1, <2>4, <2>5, <2>6, LeafIsNotComposite DEF Lifecycle!Settle
  <2> QED BY <1>3, <1>14, <2>7, LeafIsNotComposite DEF Lifecycle!Next
<1>15. CASE l.type \in Outcomes /\ id \in Composite
  <2>1. l.type = "fired" /\ jStatus[id] = "armed" /\ \E x \in Legs(id) : jStatus[x] = "fired"
    BY <1>1, <1>4, <1>5, <1>15 DEF LineInv, Outcomes
  <2>2. jStatus' = [jStatus EXCEPT ![id] = "fired"]
    BY <1>3, <2>1 DEF StatusAfter, StatusLines, Outcomes
  <2>3. InFlight' = InFlight  BY <1>9, <1>15
  <2>4. Lifecycle!Propagate(id)
    BY <1>3, <2>1, <2>2, <2>3 DEF Lifecycle!Propagate
  <2> QED BY <1>3, <2>4 DEF Lifecycle!Next
<1> QED
  BY <1>3, <1>10, <1>11, <1>12, <1>13, <1>14, <1>15 DEF StatusLines
-----------------------------------------------------------------------------
(* No other step changes the file, and none gives the tick more to decide,  *)
(* except that a new tick takes its snapshot.                              *)

\* Every other step is a snapshot, or drops some of what the tick had in hand.
LEMMA OtherStepsMap ==
  ASSUME IInv, [Next]_vars, ~ WriteLine
  PROVE  Lifecycle!Next \/ UNCHANGED <<jStatus, InFlight>>
<1>1. ASSUME NEW s \in Synthetic, Register(s) PROVE Lifecycle!Drop
  <2>1. pending' = RegisterLines(s) /\ UNCHANGED <<jStatus, queue, firing>>
    BY <1>1 DEF Register, Issue, file, tick
  <2>2. "registered" \notin Deciding  BY DEF Deciding, Outcomes
  <2> QED BY <2>1, <2>2, RegisterLinesKind, IssueDrops
<1>2. ASSUME NEW s \in Synthetic, Cancel(s) PROVE Lifecycle!Drop
  <2>1. pending' = CancelLines(status, s) /\ UNCHANGED <<jStatus, queue, firing>>
    BY <1>2 DEF Cancel, Issue, file, tick
  <2> QED BY <2>1, CancelLinesKind, IssueDrops
<1>3. CASE TickBegin
  <2>1. /\ pc = "idle" /\ pending = <<>> /\ queue' = Armed
        /\ UNCHANGED <<status, jStatus, firing, pending>>
    BY <1>3 DEF TickBegin, Written, memory, journal, file
  <2>2. queue = {} /\ firing = {}
    BY <2>1 DEF IInv, QueueInv, FiringInv
  <2>3. \A x \in Synthetic : jStatus[x] = status[x]
    BY <2>1, <2>2, Synced DEF Written, Agrees
  <2>4. InFlight = {} /\ InFlight' = Armed
    BY <2>1, <2>2 DEF InFlight, MyLines
  <2>5. Lifecycle!Snapshot
    BY <2>1, <2>3, <2>4 DEF Lifecycle!Snapshot, Armed
  <2> QED BY <2>5 DEF Lifecycle!Next
<1>4. CASE Fetch \/ FetchFails \/ TickEnd \/ (\E t \in Ticker : PositionMoves(t)) \/ UNCHANGED vars
  <2>1. InFlight' \subseteq InFlight /\ UNCHANGED jStatus
    BY <1>4 DEF Fetch, FetchBooks, FetchFails, TickEnd, PositionMoves, vars, journal, file, tick,
                InFlight, MyLines
  <2> QED BY <2>1 DEF Lifecycle!Next, Lifecycle!Drop
<1>5. ASSUME NEW s \in Synthetic, SkipSibling(s) \/ ExitSells(s) \/ HookPlacesNothing(s)
      PROVE  Lifecycle!Drop
  <2>1. InFlight' \subseteq InFlight /\ UNCHANGED jStatus
    BY <1>5 DEF SkipSibling, Scanning, ExitSells, HookPlacesNothing, journal, file,
                InFlight, MyLines
  <2> QED BY <2>1 DEF Lifecycle!Drop
<1>6. ASSUME NEW s \in Synthetic, AutoCancel(s) PROVE Lifecycle!Drop
  <2>1. /\ pending' = CancelLines(status, s)
        /\ queue' \subseteq queue /\ UNCHANGED <<jStatus, firing>>
    BY <1>6 DEF AutoCancel, Scanning, Issue, file
  <2> QED BY <2>1, CancelLinesKind, IssueDrops
<1>7. ASSUME NEW s \in Synthetic, NEW late \in BOOLEAN, Judge(s, late) PROVE Lifecycle!Drop
  BY <1>7, JudgeDrops
<1>8. ASSUME NEW s \in Synthetic, HookThrows(s) PROVE Lifecycle!Drop
  <2>1. /\ s \in firing /\ pending' = <<Line("fire_failed", s)>>
        /\ firing' = {} /\ UNCHANGED <<jStatus, queue>>
    BY <1>8 DEF HookThrows, Issue, file
  <2>2. \A i \in DOMAIN pending' : pending'[i].id = s
    BY <2>1 DEF Line
  <2> QED BY <2>1, <2>2, IssueDrops
<1>9. ASSUME NEW s \in Synthetic, FireDone(s) PROVE Lifecycle!Drop
  <2>1. /\ s \in firing /\ pending' = FireDoneLines(s)
        /\ firing' = {} /\ UNCHANGED <<jStatus, queue>>
    BY <1>9 DEF FireDone, FireDoneLines, Issue, file
  <2> QED BY <2>1, FireDoneLinesKind, IssueDrops
<1>10. CASE Crash \/ Restart
  <2>1. pc' # "down" => pending = <<>> /\ pending' = <<>>
    BY <1>10 DEF Crash, Restart, journal, IInv, PendingInv, Written
  <2>2. InFlight' \subseteq InFlight /\ UNCHANGED jStatus
    BY <1>10, <2>1 DEF Crash, Restart, Forget, journal, file, InFlight, MyLines
  <2> QED BY <2>2 DEF Lifecycle!Next, Lifecycle!Drop
<1>11. Lifecycle!Drop => Lifecycle!Next  BY DEF Lifecycle!Next
<1> QED
  BY <1>1, <1>2, <1>3, <1>4, <1>5, <1>6, <1>7, <1>8, <1>9, <1>10, <1>11
  DEF Next, Operator, Loop, Scan, Hook

\* Read as the statuses on file, every behaviour of the watcher is a behaviour
\* of the lifecycle, for every set of synthetics and any number of crashes.
THEOREM WatcherImplementsLifecycle == Spec => LifecycleSpec
<1>1. Init => Lifecycle!Init
  BY DEF Init, Lifecycle!Init, InFlight, MyLines
<1>2. IInv /\ [Next]_vars => [Lifecycle!Next]_<<jStatus, InFlight>>
  BY WriteLineMaps, OtherStepsMap
<1> QED BY <1>1, <1>2, InvariantHolds, PTL DEF Spec, LifecycleSpec, Lifecycle!Spec
=============================================================================
