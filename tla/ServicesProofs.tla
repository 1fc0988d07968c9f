---------------------------- MODULE ServicesProofs ----------------------------
(***************************************************************************)
(* What a caller of the REST client may rely on, for any number of         *)
(* attempts and any size; the daily cap of the micro harness, for any      *)
(* desks, caps and days; that no recording is lost, and that a line is in  *)
(* its own file; and that the book kept from the websocket follows the     *)
(* exchange's, for any number of messages.                                 *)
(***************************************************************************)
EXTENDS KalshiClient, MicroHarness, RecordingSync, BookFeed, PollRecorder, FiniteSums,
  TLAPS

(***************************************************************************)
(* The client.                                                             *)
(***************************************************************************)

\* Types, and attempts that are left to a call that will send again
ClientSound ==
  /\ ClientTypeOK
  /\ call.at \in {"sending", "waiting"} => call.attempt < MaxAttempts

\* While it is not known that the order is there, it is not: only a lookup under
\* way may be about to find one.
NoneUnseen ==
  call.op = "create" /\ ~doubt =>
    /\ site.copies <= 1
    /\ call.at \in {"sending", "waiting", "threw"} => site.copies = 0

\* What a call that returned has done, and what it says
DoneAndSaid ==
  /\ call.at = "returned" =>
       /\ call.op = "create" => site.copies >= 1
       /\ call.op = "cancel" => site.canceled
  /\ call.full => call.result = call.truth

\* Only a cancel cancels, and nothing fills afterwards.
CanceledLeft == site.canceled => call.op = "cancel" /\ site.filled < OrderSize

\* The call has not begun.
IdleSite == call.at = "idle" => call = IdleCall /\ site.flying = 0

\* Only a POST is looked up.
LooksUp == call.at = "lookup" => call.op = "create"

ClientInv == ClientSound /\ NoneUnseen /\ DoneAndSaid /\ CanceledLeft /\ IdleSite /\ LooksUp

-----------------------------------------------------------------------------
Calls ==
  [op : Operations, at : {"idle", "sending", "lookup", "waiting", "returned", "threw"},
   attempt : 0 .. MaxAttempts, result : Nat, truth : Nat, full : BOOLEAN]
Sites ==
  [copies : Nat, filled : 0 .. OrderSize, canceled : BOOLEAN, flying : Nat, dedupes : BOOLEAN]

\* An answer that carries enough is read as what was filled.
LEMMA FilledCountTells ==
  ASSUME NEW shape \in Shapes, NEW f \in 0 .. OrderSize
  PROVE  /\ FilledCount(shape, f) \in Nat
         /\ Tells(shape) => FilledCount(shape, f) = f
BY ClientAssumption DEF FilledCount, Tells, Or0, Shapes

\* What a request does when it is carried out leaves a site of its type.
LEMMA CarriedOutType ==
  ASSUME ClientTypeOK, NEW op \in Operations
  PROVE  CarriedOut(op) \in Sites
<1> DEFINE left == site.filled < OrderSize
           more == site.copies + 1
<1>1. site \in Sites /\ left \in BOOLEAN /\ more \in Nat
  BY DEF ClientTypeOK, Sites
<1> HIDE DEF left, more
<1>2. [site EXCEPT !.canceled = left] \in Sites
  BY <1>1 DEF Sites
<1>3. [site EXCEPT !.copies = more] \in Sites
  BY <1>1 DEF Sites
<1>4. CASE op = "create"
  <2>1. CarriedOut(op) = IF Taken THEN site ELSE [site EXCEPT !.copies = more]
    BY <1>4 DEF CarriedOut, more
  <2> QED BY <1>1, <1>3, <2>1
<1>5. CASE op = "cancel"
  <2>1. CarriedOut(op) = [site EXCEPT !.canceled = left]
    BY <1>5 DEF CarriedOut, left
  <2> QED BY <1>2, <2>1
<1>6. CASE op = "read"
  BY <1>1, <1>6 DEF CarriedOut
<1> QED BY <1>4, <1>5, <1>6 DEF Operations

LEMMA IdleCallType == IdleCall \in Calls /\ NoSite \in Sites
BY ClientAssumption DEF IdleCall, NoSite, Calls, Sites, Operations

LEMMA ClientInitInv == ClientInit => ClientInv
<1> SUFFICES ASSUME ClientInit PROVE ClientInv
  OBVIOUS
<1>1. ClientTypeOK
  BY IdleCallType DEF ClientInit, ClientTypeOK, Calls, Sites
<1>2. call.at = "idle" /\ call.op = "read" /\ ~call.full /\ ~site.canceled /\ site.flying = 0
  BY DEF ClientInit, IdleCall, NoSite
<1> QED BY <1>1, <1>2 DEF ClientInit, ClientInv, ClientSound, NoneUnseen, DoneAndSaid,
        CanceledLeft, IdleSite, LooksUp

LEMMA CallBeginsInv ==
  ASSUME ClientInv, NEW op \in Operations, CallBegins(op)
  PROVE  ClientInv'
<1>1. PICK dedupes \in BOOLEAN :
        site' = [NoSite EXCEPT !.copies = IF op = "create" THEN 0 ELSE 1, !.dedupes = dedupes]
  BY Zenon DEF CallBegins
<1> DEFINE copies == IF op = "create" THEN 0 ELSE 1
<1>2. copies \in Nat /\ (op = "create" => copies = 0)
  OBVIOUS
<1> HIDE DEF copies
<1>3. site' = [NoSite EXCEPT !.copies = copies, !.dedupes = dedupes]
  BY <1>1 DEF copies
<1>4. site' \in Sites /\ ~site'.canceled /\ site'.copies = copies
  BY <1>2, <1>3, IdleCallType DEF NoSite, Sites
<1>5. call' = [IdleCall EXCEPT !.op = op, !.at = "sending"] /\ doubt' = doubt
  BY DEF CallBegins
<1>6. /\ call' \in Calls /\ call'.at = "sending" /\ call'.op = op /\ ~call'.full
      /\ call'.attempt = 0
  BY <1>5, IdleCallType DEF IdleCall, Calls
<1>7. ClientTypeOK'
  BY <1>4, <1>5, <1>6 DEF ClientTypeOK, Calls, Sites, ClientInv, ClientSound
<1>8. call'.attempt < MaxAttempts
  BY <1>6, ClientAssumption
<1> QED BY <1>2, <1>4, <1>6, <1>7, <1>8 DEF ClientInv, ClientSound, NoneUnseen, DoneAndSaid,
        CanceledLeft, IdleSite, LooksUp

LEMMA AnsweredInv ==
  ASSUME ClientInv, NEW shape \in Shapes, Answered(shape)
  PROVE  ClientInv'
<1>1. PICK f \in IF call.op = "create" THEN site.filled .. OrderSize ELSE {site.filled} :
        /\ site' = [CarriedOut(call.op) EXCEPT !.filled = f]
        /\ Return([site EXCEPT !.filled = f], shape)
  BY DEF Answered
<1>2. call \in Calls /\ site \in Sites /\ call.at = "sending" /\ ~Conflicts(call.op) /\ doubt' = doubt
  BY DEF Answered, ClientInv, ClientSound, ClientTypeOK, Calls, Sites
<1>3. f \in 0 .. OrderSize
  BY <1>1, <1>2, ClientAssumption DEF Sites
<1>4. FilledCount(shape, f) \in Nat /\ (Tells(shape) => FilledCount(shape, f) = f)
  BY <1>3, FilledCountTells
<1>5. call' = [call EXCEPT !.at = "returned", !.result = FilledCount(shape, f),
                           !.truth = f, !.full = Tells(shape)]
  BY <1>1, <1>2 DEF Return, Sites
<1>6. Tells(shape) \in BOOLEAN
  BY DEF Tells
<1>7. /\ call' \in Calls /\ call'.at = "returned" /\ call'.op = call.op
      /\ call'.full => call'.result = call'.truth
  <2> DEFINE n == FilledCount(shape, f)
             told == Tells(shape)
  <2>1. n \in Nat /\ f \in Nat /\ told \in BOOLEAN /\ (told => n = f)
    BY <1>3, <1>4, <1>6
  <2>2. call' = [call EXCEPT !.at = "returned", !.result = n, !.truth = f, !.full = told]
    BY <1>5
  <2> HIDE DEF n, told
  <2> QED BY <1>2, <2>1, <2>2 DEF Calls
<1>8. CarriedOut(call.op) \in Sites
  BY <1>2, CarriedOutType DEF ClientInv, ClientSound, Calls
<1>9. /\ site' \in Sites /\ site'.filled = f
      /\ site'.copies = CarriedOut(call.op).copies
      /\ site'.canceled = CarriedOut(call.op).canceled
  BY <1>1, <1>3, <1>8 DEF Sites
<1>10. CASE call.op = "create"
  <2>1. site'.copies = site.copies + 1 /\ site'.canceled = site.canceled
    BY <1>2, <1>9, <1>10 DEF CarriedOut, Conflicts, Taken, Sites
  <2>2. ~site.canceled
    BY <1>10 DEF ClientInv, CanceledLeft
  <2> QED BY <1>2, <1>7, <1>9, <1>10, <2>1, <2>2
          DEF ClientInv, ClientSound, ClientTypeOK, NoneUnseen, DoneAndSaid, CanceledLeft, IdleSite,
              LooksUp, Calls, Sites
<1>11. CASE call.op = "cancel"
  <2>1. site.filled < OrderSize
    BY <1>2, <1>11, ClientAssumption DEF Conflicts, Sites
  <2>2. site'.canceled /\ f = site.filled
    BY <1>1, <1>2, <1>9, <1>11, <2>1 DEF CarriedOut, Sites
  <2> QED BY <1>2, <1>7, <1>9, <1>11, <2>1, <2>2
          DEF ClientInv, ClientSound, ClientTypeOK, NoneUnseen, DoneAndSaid, CanceledLeft, IdleSite,
              LooksUp, Calls, Sites
<1>12. CASE call.op = "read"
  <2>1. ~site'.canceled
    BY <1>2, <1>9, <1>12 DEF CarriedOut, ClientInv, CanceledLeft
  <2> QED BY <1>2, <1>7, <1>9, <1>12, <2>1
          DEF ClientInv, ClientSound, ClientTypeOK, NoneUnseen, DoneAndSaid, CanceledLeft, IdleSite,
              LooksUp, Calls, Sites
<1> QED BY <1>2, <1>10, <1>11, <1>12 DEF Calls, Operations

\* A request that goes wrong, or arrives late, leaves one of these.
LEMMA CarriedOutKeeps ==
  ASSUME ClientInv
  PROVE  /\ CarriedOut(call.op) \in Sites
         /\ CarriedOut(call.op).copies \in {site.copies, site.copies + 1}
         /\ CarriedOut(call.op).copies # site.copies => call.op = "create"
         /\ CarriedOut(call.op).filled = site.filled
         /\ CarriedOut(call.op).flying = site.flying
         /\ CarriedOut(call.op).canceled => call.op = "cancel" /\ site.filled < OrderSize
         /\ site.canceled => CarriedOut(call.op).canceled
<1>1. call \in Calls /\ site \in Sites /\ CanceledLeft
  BY DEF ClientInv, ClientSound, ClientTypeOK, Calls, Sites
<1>2. CASE call.op = "create"
  BY <1>1, <1>2 DEF CarriedOut, Taken, Sites, CanceledLeft
<1>3. CASE call.op = "cancel"
  <2> DEFINE left == site.filled < OrderSize
  <2>1. left \in BOOLEAN /\ (site.canceled => left)
    BY <1>1 DEF CanceledLeft
  <2>2. CarriedOut(call.op) = [site EXCEPT !.canceled = left]
    BY <1>3 DEF CarriedOut
  <2>3. [site EXCEPT !.canceled = left] \in Sites
    BY <1>1, <2>1 DEF Sites
  <2>4. /\ [site EXCEPT !.canceled = left].canceled = left
        /\ [site EXCEPT !.canceled = left].copies = site.copies
        /\ [site EXCEPT !.canceled = left].filled = site.filled
        /\ [site EXCEPT !.canceled = left].flying = site.flying
    <3> HIDE DEF left
    <3> QED BY <1>1 DEF Sites
  <2> QED BY <1>3, <2>1, <2>2, <2>3, <2>4
<1>4. CASE call.op = "read"
  BY <1>1, <1>4 DEF CarriedOut, Sites, CanceledLeft
<1> QED BY <1>1, <1>2, <1>3, <1>4 DEF Calls, Operations

LEMMA RequestFailsInv ==
  ASSUME ClientInv, NEW failure \in Failures, RequestFails(failure)
  PROVE  ClientInv'
<1> DEFINE next == IF ~Retryable(failure) THEN "threw"
                   ELSE IF NeedsLookup(call.op, failure) THEN "lookup"
                   ELSE IF call.attempt + 1 = MaxAttempts THEN "threw" ELSE "waiting"
<1>1. call \in Calls /\ site \in Sites /\ call.at = "sending" /\ doubt' = doubt
  BY DEF RequestFails, ClientInv, ClientSound, ClientTypeOK, Calls, Sites
<1>2. call.attempt < MaxAttempts
  BY <1>1 DEF ClientInv, ClientSound
<1>3. /\ next \in {"threw", "lookup", "waiting"}
      /\ next = "waiting" => call.attempt + 1 # MaxAttempts
      /\ next = "lookup" => call.op = "create"
      /\ call.op = "create" /\ next # "lookup" => failure \notin {"network", "5xx"}
  BY DEF Retryable, NeedsLookup
<1>4. call' = [call EXCEPT !.attempt = @ + 1, !.at = next]
  BY DEF RequestFails
<1> HIDE DEF next
<1>5. /\ call' \in Calls /\ call'.at = next /\ call'.op = call.op
      /\ call'.at = "waiting" => call'.attempt < MaxAttempts
      /\ call'.full = call.full /\ call'.result = call.result /\ call'.truth = call.truth
  <2> DEFINE n == call.attempt + 1
  <2>1. n \in 0 .. MaxAttempts /\ (n # MaxAttempts => n < MaxAttempts)
    BY <1>1, <1>2, ClientAssumption DEF Calls
  <2>2. call' = [call EXCEPT !.attempt = n, !.at = next] /\ (next = "waiting" => n # MaxAttempts)
    BY <1>3, <1>4
  <2> HIDE DEF n
  <2> QED BY <1>1, <1>3, <2>1, <2>2 DEF Calls
<1>6. /\ site' \in Sites
      /\ site'.copies \in {site.copies, site.copies + 1}
      /\ site'.copies # site.copies => failure \in {"network", "5xx"}
      /\ site'.canceled => call.op = "cancel" /\ site'.filled < OrderSize
  BY <1>1, CarriedOutKeeps DEF RequestFails, Outcomes, Sites, ClientInv, CanceledLeft
<1>7. NoneUnseen'
  <2> SUFFICES ASSUME call'.op = "create", ~doubt'
               PROVE  /\ site'.copies <= 1
                      /\ call'.at \in {"sending", "waiting", "threw"} => site'.copies = 0
    BY DEF NoneUnseen
  <2>1. site.copies = 0
    BY <1>1, <1>5 DEF ClientInv, NoneUnseen
  <2> QED BY <1>1, <1>3, <1>5, <1>6, <2>1 DEF Sites
<1> QED BY <1>1, <1>3, <1>5, <1>6, <1>7
        DEF ClientInv, ClientSound, ClientTypeOK, DoneAndSaid, CanceledLeft, IdleSite, LooksUp,
            Calls, Sites

LEMMA LookupInv ==
  ASSUME ClientInv, NEW shape \in Shapes, Lookup(shape)
  PROVE  ClientInv'
<1>1. call \in Calls /\ site \in Sites /\ call.at = "lookup" /\ doubt' = doubt /\ site' = site
  BY DEF Lookup, ClientInv, ClientSound, ClientTypeOK, Calls, Sites
<1>2. CASE site.copies > 0
  <2>1. Return(site, shape)
    BY <1>2 DEF Lookup
  <2>2. FilledCount(shape, site.filled) \in Nat
        /\ (Tells(shape) => FilledCount(shape, site.filled) = site.filled)
    BY <1>1, FilledCountTells DEF Sites
  <2>3. Tells(shape) \in BOOLEAN
    BY DEF Tells
  <2>4. /\ call' \in Calls /\ call'.at = "returned" /\ call'.op = call.op
        /\ call'.full => call'.result = call'.truth
    <3> DEFINE n == FilledCount(shape, site.filled)
               told == Tells(shape)
    <3>1. n \in Nat /\ site.filled \in Nat /\ told \in BOOLEAN /\ (told => n = site.filled)
      BY <1>1, <2>2, <2>3 DEF Sites
    <3>2. call' = [call EXCEPT !.at = "returned", !.result = n, !.truth = site.filled, !.full = told]
      BY <2>1 DEF Return
    <3> HIDE DEF n, told
    <3> QED BY <1>1, <3>1, <3>2 DEF Calls
  <2>5. call.op = "create"
    BY <1>1 DEF ClientInv, LooksUp
  <2> QED BY <1>1, <1>2, <2>4, <2>5
          DEF ClientInv, ClientSound, ClientTypeOK, NoneUnseen, DoneAndSaid, CanceledLeft, IdleSite,
              LooksUp, Calls, Sites
<1>3. CASE ~(site.copies > 0)
  <2>1. call' = [call EXCEPT !.at = NextAttempt]
    BY <1>3 DEF Lookup
  <2>2. NextAttempt = (IF call.attempt = MaxAttempts THEN "threw" ELSE "waiting")
    BY DEF NextAttempt, LastAttempt
  <2> QED BY <1>1, <1>3, <2>1, <2>2, ClientAssumption
          DEF ClientInv, ClientSound, ClientTypeOK, NoneUnseen, DoneAndSaid, CanceledLeft, IdleSite,
              LooksUp, Calls, Sites
<1> QED BY <1>2, <1>3

LEMMA LookupFailsInv == ClientInv /\ LookupFails => ClientInv'
<1> SUFFICES ASSUME ClientInv, LookupFails PROVE ClientInv'
  OBVIOUS
<1>1. call \in Calls /\ site \in Sites /\ call.at = "lookup" /\ doubt \in BOOLEAN /\ site' = site
  BY DEF LookupFails, ClientInv, ClientSound, ClientTypeOK, Calls, Sites
<1>2. NextAttempt = (IF call.attempt = MaxAttempts THEN "threw" ELSE "waiting")
  BY DEF NextAttempt, LastAttempt
<1>3. call' = [call EXCEPT !.at = NextAttempt] /\ doubt' = (doubt \/ site.copies > 0)
  BY DEF LookupFails
<1>4. /\ call' \in Calls /\ call'.at \in {"threw", "waiting"} /\ call'.op = call.op
      /\ call'.at = "waiting" => call'.attempt < MaxAttempts
      /\ call'.full = call.full /\ call'.result = call.result /\ call'.truth = call.truth
  BY <1>1, <1>2, <1>3, ClientAssumption DEF Calls
<1>5. doubt' \in BOOLEAN /\ (~doubt' => ~doubt /\ site.copies = 0)
  <2>1. site.copies \in Nat
    BY <1>1 DEF Sites
  <2>2. doubt' \in BOOLEAN
    BY <1>3
  <2>3. ~doubt' => ~doubt /\ ~(site.copies > 0)
    BY <1>3
  <2> QED BY <2>1, <2>2, <2>3
<1> QED BY <1>1, <1>4, <1>5
        DEF ClientInv, ClientSound, ClientTypeOK, NoneUnseen, DoneAndSaid, CanceledLeft, IdleSite,
            LooksUp, Calls, Sites

LEMMA WaitOverInv == ClientInv /\ WaitOver => ClientInv'
BY DEF WaitOver, ClientInv, ClientSound, ClientTypeOK, NoneUnseen, DoneAndSaid, CanceledLeft,
   IdleSite, LooksUp, Operations

LEMMA FillInv == ClientInv /\ Fill => ClientInv'
BY ClientAssumption DEF Fill, ClientInv, ClientSound, ClientTypeOK, NoneUnseen, DoneAndSaid,
   CanceledLeft, IdleSite, LooksUp

LEMMA ArrivesLateInv == ClientInv /\ ArrivesLate => ClientInv'
<1> SUFFICES ASSUME ClientInv, ArrivesLate PROVE ClientInv'
  OBVIOUS
<1>1. call \in Calls /\ site \in Sites /\ call' = call /\ site.flying > 0 /\ doubt \in BOOLEAN
  BY DEF ArrivesLate, ClientInv, ClientSound, ClientTypeOK, Calls, Sites
<1>2. CASE site' = [site EXCEPT !.flying = @ - 1] /\ UNCHANGED doubt
  BY <1>1, <1>2 DEF ClientInv, ClientSound, ClientTypeOK, NoneUnseen, DoneAndSaid, CanceledLeft,
     IdleSite, LooksUp, Calls, Sites
<1>3. CASE /\ site' = [CarriedOut(call.op) EXCEPT !.flying = @ - 1]
           /\ doubt' = (doubt \/ call.at # "lookup" \/ site.copies > 0)
  <2>1. /\ site' \in Sites
        /\ site'.copies \in {site.copies, site.copies + 1}
        /\ site'.canceled => call.op = "cancel" /\ site'.filled < OrderSize
        /\ site.canceled => site'.canceled
    BY <1>1, <1>3, CarriedOutKeeps DEF Sites
  <2>2. doubt' \in BOOLEAN /\ (~doubt' => call.at = "lookup" /\ site.copies = 0)
    <3>1. site.copies \in Nat
      BY <1>1 DEF Sites
    <3>2. doubt' \in BOOLEAN
      BY <1>3
    <3>3. ~doubt' => call.at = "lookup" /\ ~(site.copies > 0)
      BY <1>3
    <3> QED BY <3>1, <3>2, <3>3
  <2>3. call.at # "idle"
    BY <1>1 DEF ClientInv, IdleSite
  <2> QED BY <1>1, <2>1, <2>2, <2>3
          DEF ClientInv, ClientSound, ClientTypeOK, NoneUnseen, DoneAndSaid, CanceledLeft, IdleSite,
              LooksUp, Calls, Sites
<1> QED BY <1>2, <1>3 DEF ArrivesLate

LEMMA ClientStep == ClientInv /\ [ClientNext]_client => ClientInv'
<1> SUFFICES ASSUME ClientInv, [ClientNext]_client PROVE ClientInv'
  OBVIOUS
<1>1. CASE UNCHANGED client
  BY <1>1 DEF client, ClientInv, ClientSound, ClientTypeOK, NoneUnseen, DoneAndSaid, CanceledLeft,
     IdleSite, LooksUp
<1>2. CASE \E op \in Operations : CallBegins(op)
  BY <1>2, CallBeginsInv
<1>3. CASE ClientSteps
  BY <1>3, AnsweredInv, LookupInv, RequestFailsInv, LookupFailsInv, WaitOverInv DEF ClientSteps
<1>4. CASE Fill \/ ArrivesLate
  BY <1>4, FillInv, ArrivesLateInv
<1> QED BY <1>1, <1>2, <1>3, <1>4 DEF ClientNext

\* The invariant of a call and of what the exchange made of its requests.
THEOREM ClientInvariance == ClientSpec => []ClientInv
<1>1. ClientInit => ClientInv
  BY ClientInitInv
<1>2. ClientInv /\ [ClientNext]_client => ClientInv'
  BY ClientStep
<1> QED BY <1>1, <1>2, PTL DEF ClientSpec

\* A createOrder places at most one order and leaves none when it throws, and a call
\* that returns was carried out and reports the fill, however many attempts there are.
THEOREM ClientKeepsContract == ClientSpec => []ClientContract
<1>1. ClientInv => ClientContract
  BY DEF ClientInv, NoneUnseen, DoneAndSaid, ClientContract, OneOrderPerCall, OutcomeKnown
<1> QED BY <1>1, ClientInvariance, PTL

(***************************************************************************)
(* The micro harness.                                                      *)
(***************************************************************************)

Sums == [1 .. LastDay -> Nat]

Trials ==
  [at : {"idle", "due", "started", "loaded", "gated", "executing"}, left : Nat, notional : Nat,
   day : 0 .. LastDay, seen : Sums, summed : 0 .. LastDay]

\* A trial has its day once it has started, and one that waits for its
\* confirmation would have fitted into the day that was summed.
FitsDay(t) ==
  /\ t.at \in {"started", "loaded", "gated", "executing"} => t.day \in 1 .. LastDay
  /\ t.at = "gated" => t.summed \in 1 .. LastDay /\ t.seen[t.summed] + t.notional <= DailyCap

MicroInv ==
  /\ desk \in [Desks -> Trials]
  /\ day \in 1 .. LastDay
  /\ spent \in Sums
  /\ raced \in [1 .. LastDay -> BOOLEAN]
  /\ misdated \in [1 .. LastDay -> BOOLEAN]
  /\ \A d \in Desks : FitsDay(desk[d])
  /\ DailyCapKept

\* What a desk does is a trial that fits, and what was spent is left alone.
LEMMA DeskMoves ==
  ASSUME MicroInv, NEW d \in Desks, NEW t \in Trials, desk' = [desk EXCEPT ![d] = t],
         FitsDay(t), UNCHANGED <<day, spent, raced, misdated>>
  PROVE  MicroInv'
<1>1. desk' \in [Desks -> Trials]
  BY DEF MicroInv
<1>2. \A e \in Desks : desk'[e] = t \/ desk'[e] = desk[e]
  BY DEF MicroInv
<1>3. \A e \in Desks : FitsDay(desk'[e])
  BY <1>2 DEF MicroInv
<1> QED BY <1>1, <1>3 DEF MicroInv, DailyCapKept

LEMMA NoTrialType == NoTrial \in Trials /\ FitsDay(NoTrial)
BY MicroAssumption DEF NoTrial, Nothing, Sums, Trials, FitsDay

LEMMA NextTrialType == ASSUME MicroInv, NEW d \in Desks
                       PROVE  NextTrial(d) \in Trials /\ FitsDay(NextTrial(d))
<1>1. desk[d] \in Trials
  BY DEF MicroInv
<1>2. CASE desk[d].left = 0
  BY <1>2, NoTrialType DEF NextTrial
<1>3. CASE desk[d].left # 0
  <2> DEFINE n == desk[d].left - 1
             m == desk[d].notional
  <2>1. n \in Nat /\ m \in Nat
    BY <1>1, <1>3 DEF Trials
  <2>2. NextTrial(d) = [NoTrial EXCEPT !.at = "due", !.left = n, !.notional = m]
    BY <1>3 DEF NextTrial
  <2> HIDE DEF n, m
  <2>3. NextTrial(d) \in Trials /\ NextTrial(d).at = "due"
    BY <2>1, <2>2, NoTrialType DEF NoTrial, Trials
  <2> QED BY <2>3 DEF FitsDay
<1> QED BY <1>2, <1>3

LEMMA MicroStep == MicroInv /\ [MicroNext]_trialing => MicroInv'
<1> SUFFICES ASSUME MicroInv, [MicroNext]_trialing PROVE MicroInv'
  OBVIOUS
<1>1. CASE UNCHANGED trialing
  BY <1>1 DEF trialing, MicroInv, FitsDay, DailyCapKept
<1>2. CASE Midnight
  BY <1>2, MicroAssumption DEF Midnight, MicroInv, FitsDay, DailyCapKept
<1>3. ASSUME NEW d \in Desks, NEW left \in 0 .. MaxSweep - 1, NEW notional \in Notionals,
             MicroBegins(d, left, notional)
      PROVE  MicroInv'
  <2> DEFINE t == [NoTrial EXCEPT !.at = "due", !.left = left, !.notional = notional]
  <2>1. t \in Trials /\ t.at = "due"
    <3>1. left \in Nat /\ notional \in Nat
      BY MicroAssumption
    <3> QED BY <3>1, NoTrialType DEF NoTrial, Trials
  <2>2. desk' = [desk EXCEPT ![d] = t] /\ UNCHANGED <<day, spent, raced, misdated>>
    BY <1>3 DEF MicroBegins
  <2> HIDE DEF t
  <2>3. FitsDay(t)
    BY <2>1 DEF FitsDay
  <2> QED BY <2>1, <2>2, <2>3, DeskMoves
<1>4. ASSUME NEW d \in Desks, TrialStarted(d) \/ JournalsLoaded(d) PROVE MicroInv'
  <2>1. desk[d] \in Trials /\ FitsDay(desk[d]) /\ spent \in Sums /\ day \in 1 .. LastDay
    BY DEF MicroInv
  <2>2. CASE TrialStarted(d)
    <3> DEFINE t == [desk[d] EXCEPT !.at = "started", !.day = day]
    <3>1. t \in Trials /\ t.at = "started" /\ t.day = day
      <4>1. day \in 0 .. LastDay
        BY <2>1
      <4> QED BY <2>1, <4>1 DEF Trials
    <3>2. desk' = [desk EXCEPT ![d] = t] /\ UNCHANGED <<day, spent, raced, misdated>>
      BY <2>2 DEF TrialStarted
    <3> HIDE DEF t
    <3>3. FitsDay(t)
      BY <2>1, <3>1 DEF FitsDay
    <3> QED BY <3>1, <3>2, <3>3, DeskMoves
  <2>3. CASE JournalsLoaded(d)
    <3> DEFINE t == [desk[d] EXCEPT !.at = "loaded", !.seen = spent]
    <3>1. t \in Trials /\ t.at = "loaded" /\ t.day = desk[d].day
      BY <2>1 DEF Trials
    <3>2. desk' = [desk EXCEPT ![d] = t] /\ UNCHANGED <<day, spent, raced, misdated>>
      BY <2>3 DEF JournalsLoaded
    <3>3. desk[d].at = "started"
      BY <2>3 DEF JournalsLoaded
    <3> HIDE DEF t
    <3>4. FitsDay(t)
      BY <2>1, <3>1, <3>3 DEF FitsDay
    <3> QED BY <3>1, <3>2, <3>4, DeskMoves
  <2> QED BY <1>4, <2>2, <2>3
<1>5. ASSUME NEW d \in Desks, NEW configured \in BOOLEAN, NEW listed \in BOOLEAN,
             Gated(d, configured, listed)
      PROVE  MicroInv'
  <2>1. /\ desk[d] \in Trials /\ FitsDay(desk[d]) /\ day \in 1 .. LastDay /\ desk[d].at = "loaded"
        /\ desk[d].seen \in Sums
    BY <1>5 DEF Gated, MicroInv, Trials
  <2>2. CASE GateTrial(configured, desk[d].notional, listed, desk[d].seen[day])
    <3> DEFINE t == [desk[d] EXCEPT !.at = "gated", !.summed = day]
    <3>1. /\ t \in Trials /\ t.at = "gated" /\ t.day = desk[d].day /\ t.summed = day
          /\ t.seen = desk[d].seen /\ t.notional = desk[d].notional
      <4>1. day \in 0 .. LastDay
        BY <2>1
      <4> QED BY <2>1, <4>1 DEF Trials
    <3>2. desk' = [desk EXCEPT ![d] = t] /\ UNCHANGED <<day, spent, raced, misdated>>
      BY <1>5, <2>2 DEF Gated
    <3> HIDE DEF t
    <3>3. FitsDay(t)
      BY <2>1, <2>2, <3>1 DEF FitsDay, GateTrial
    <3> QED BY <3>1, <3>2, <3>3, DeskMoves
  <2>3. CASE ~GateTrial(configured, desk[d].notional, listed, desk[d].seen[day])
    <3>1. desk' = [desk EXCEPT ![d] = NoTrial] /\ UNCHANGED <<day, spent, raced, misdated>>
      BY <1>5, <2>3 DEF Gated
    <3> QED BY <3>1, NoTrialType, DeskMoves
  <2> QED BY <2>2, <2>3
<1>6. ASSUME NEW d \in Desks, Confirmed(d) PROVE MicroInv'
  <2> DEFINE n == desk[d].day
             sum == spent[n] + desk[d].notional
             late == raced[n] \/ spent[n] # desk[d].seen[n]
             other == misdated[n] \/ n # desk[d].summed
             t == [desk[d] EXCEPT !.at = "executing", !.seen = Nothing, !.summed = 0]
  <2>1. /\ desk[d] \in Trials /\ desk[d].at = "gated" /\ FitsDay(desk[d]) /\ spent \in Sums
        /\ raced \in [1 .. LastDay -> BOOLEAN] /\ misdated \in [1 .. LastDay -> BOOLEAN]
    BY <1>6 DEF Confirmed, MicroInv
  <2>2. /\ n \in 1 .. LastDay /\ desk[d].notional \in Nat
        /\ desk[d].seen[desk[d].summed] + desk[d].notional <= DailyCap
    BY <2>1 DEF FitsDay, Trials
  <2>3. spent[n] \in Nat
    BY <2>1, <2>2 DEF Sums
  <2>4. sum \in Nat /\ (~late /\ ~other => sum <= DailyCap) /\ late \in BOOLEAN /\ other \in BOOLEAN
    BY <2>1, <2>2, <2>3
  <2>5. t \in Trials /\ FitsDay(t)
    <3>1. t \in Trials /\ t.at = "executing" /\ t.day = n
      <4>1. Nothing \in Sums /\ 0 \in 0 .. LastDay
        BY MicroAssumption DEF Nothing, Sums
      <4> QED BY <2>1, <4>1 DEF Trials
    <3> HIDE DEF t
    <3> QED BY <2>2, <3>1 DEF FitsDay
  <2>6. /\ spent' = [spent EXCEPT ![n] = sum] /\ raced' = [raced EXCEPT ![n] = late]
        /\ misdated' = [misdated EXCEPT ![n] = other] /\ desk' = [desk EXCEPT ![d] = t] /\ day' = day
    BY <1>6 DEF Confirmed
  <2> HIDE DEF n, sum, late, other, t
  <2>7. /\ spent' \in Sums /\ raced' \in [1 .. LastDay -> BOOLEAN]
        /\ misdated' \in [1 .. LastDay -> BOOLEAN]
    BY <2>1, <2>4, <2>6 DEF Sums
  <2>8. DailyCapKept'
    <3> SUFFICES ASSUME NEW k \in 1 .. LastDay, ~raced'[k], ~misdated'[k]
                 PROVE  spent'[k] <= DailyCap
      BY <2>7 DEF DailyCapKept, Sums
    <3>1. CASE k = n
      <4>1. raced'[k] = late /\ misdated'[k] = other /\ spent'[k] = sum
        BY <2>1, <2>6, <3>1 DEF Sums
      <4> QED BY <2>4, <4>1
    <3>2. CASE k # n
      <4>1. raced'[k] = raced[k] /\ misdated'[k] = misdated[k] /\ spent'[k] = spent[k]
        BY <2>1, <2>6, <3>2 DEF Sums
      <4> QED BY <2>1, <4>1 DEF MicroInv, DailyCapKept, Sums
    <3> QED BY <3>1, <3>2
  <2>9. desk' \in [Desks -> Trials] /\ \A e \in Desks : FitsDay(desk'[e])
    <3>1. desk \in [Desks -> Trials] /\ \A e \in Desks : FitsDay(desk[e])
      BY DEF MicroInv
    <3>2. \A e \in Desks : desk'[e] = t \/ desk'[e] = desk[e]
      BY <2>6, <3>1
    <3> QED BY <2>5, <2>6, <3>1, <3>2
  <2> QED BY <2>6, <2>7, <2>8, <2>9 DEF MicroInv
<1>7. ASSUME NEW d \in Desks, Declined(d) \/ Executed(d) PROVE MicroInv'
  <2>1. desk' = [desk EXCEPT ![d] = NextTrial(d)] /\ UNCHANGED <<day, spent, raced, misdated>>
    BY <1>7 DEF Declined, Executed
  <2> QED BY <2>1, NextTrialType, DeskMoves
<1>8. ASSUME NEW d \in Desks, DeskDies(d) PROVE MicroInv'
  <2>1. desk' = [desk EXCEPT ![d] = NoTrial] /\ UNCHANGED <<day, spent, raced, misdated>>
    BY <1>8 DEF DeskDies
  <2> QED BY <2>1, NoTrialType, DeskMoves
<1> QED BY <1>1, <1>2, <1>3, <1>4, <1>5, <1>6, <1>7, <1>8 DEF MicroNext

\* The trials of a day stay within the daily cap, whatever they ask for and however
\* many desks, sweeps and days there are, unless one was counted behind another's
\* back or on a day other than the one that was summed for it.
THEOREM DailyCapHolds == MicroSpec => []DailyCapKept
<1>1. MicroInit => MicroInv
  <2> SUFFICES ASSUME MicroInit PROVE MicroInv
    OBVIOUS
  <2>1. desk \in [Desks -> Trials] /\ \A d \in Desks : FitsDay(desk[d])
    BY NoTrialType DEF MicroInit
  <2>2. spent \in Sums /\ \A n \in DOMAIN spent : spent[n] = 0
    BY DEF MicroInit, Nothing, Sums
  <2> QED BY <2>1, <2>2, MicroAssumption DEF MicroInit, MicroInv, DailyCapKept
<1>2. MicroInv /\ [MicroNext]_trialing => MicroInv'
  BY MicroStep
<1>3. MicroInv => DailyCapKept
  BY DEF MicroInv
<1> QED BY <1>1, <1>2, <1>3, PTL DEF MicroSpec

-----------------------------------------------------------------------------
(***************************************************************************)
(* No recording is lost, for any number of days and of lines and however   *)
(* often syncs are killed.                                                 *)
(***************************************************************************)

Dirs == [Files -> Nat]

Pulls ==
  [at : {"idle", "listed", "extracted", "verified", "aside", "swapped", "merged"},
   on : Nat, manifest : Dirs, staging : Dirs, prior : Dirs, fresh : SUBSET Files]

SyncTypeOK ==
  /\ fly \in [today : Files, recorded : Dirs, files : Dirs]
  /\ mirror \in Dirs /\ attic \in Dirs
  /\ pull \in Pulls
  /\ upset \in BOOLEAN

\* A sync lasts a day at most, so what it listed from before that day stays as it was.
OneMidnight == pull.at # "idle" => pull.on <= fly.today /\ fly.today <= pull.on + 1

Deleted(d) == fly.files[d] # fly.recorded[d]

\* No copy is longer than what was recorded.
Bounded(d) ==
  /\ fly.files[d] <= fly.recorded[d] /\ mirror[d] <= fly.recorded[d]
  /\ pull.prior[d] <= fly.recorded[d] /\ attic[d] <= fly.recorded[d]
  /\ pull.staging[d] <= fly.recorded[d]

\* A file is deleted whole, once it is old, and is then on no list.
DeletedOld(d) ==
  /\ Deleted(d) => fly.files[d] = 0 /\ d + 2 <= fly.today
  /\ pull.at # "idle" => /\ Deleted(d) => pull.manifest[d] = 0
                         /\ d < pull.on => pull.manifest[d] = fly.files[d]

\* From the verification on, a staged file is a listed file, with its size.
StagedListed(d) ==
  pull.at \in {"verified", "aside", "swapped", "merged"} => pull.staging[d] = pull.manifest[d]

\* Where the old and the new directory are
Placed(d) ==
  /\ pull.at \notin {"aside", "swapped"} => pull.prior[d] = 0
  /\ pull.at = "aside" => mirror[d] = 0
  /\ pull.at \in {"swapped", "merged"} =>
       /\ d \in pull.fresh <=> pull.staging[d] > 0
       /\ d \in pull.fresh => mirror[d] = pull.staging[d]
  /\ pull.at = "swapped" /\ d \notin pull.fresh /\ pull.prior[d] > 0 => mirror[d] = 0

\* Where the whole copy of a deleted file is
Somewhere(d) ==
  Deleted(d) =>
    /\ fly.recorded[d] \in {mirror[d], pull.prior[d], attic[d]}
    /\ ~upset => fly.recorded[d] \in
         CASE pull.at = "aside" -> {pull.prior[d]}
           [] pull.at = "swapped" -> {mirror[d], pull.prior[d]}
           [] OTHER -> {mirror[d]}

FileSound(d) == Bounded(d) /\ DeletedOld(d) /\ StagedListed(d) /\ Placed(d) /\ Somewhere(d)

SyncInv == SyncTypeOK /\ OneMidnight /\ \A d \in Files : FileSound(d)

-----------------------------------------------------------------------------
LEMMA NoFilesType == NoFiles \in Dirs /\ NoPull \in Pulls
BY RecordingAssumption DEF NoFiles, NoPull, Dirs, Pulls

LEMMA SyncInitInv == SyncInit => SyncInv
<1> SUFFICES ASSUME SyncInit PROVE SyncInv
  OBVIOUS
<1>1. SyncTypeOK
  <2>1. 1 \in Files
    BY RecordingAssumption DEF Files
  <2>2. fly \in [today : Files, recorded : Dirs, files : Dirs]
    BY <2>1, NoFilesType DEF SyncInit
  <2> QED BY <2>2, NoFilesType DEF SyncInit, SyncTypeOK
<1>2. OneMidnight
  BY DEF SyncInit, OneMidnight, NoPull
<1>3. ASSUME NEW d \in Files PROVE FileSound(d)
  BY <1>3 DEF SyncInit, NoPull, NoFiles, FileSound, Bounded, DeletedOld, StagedListed, Placed,
     Somewhere, Deleted
<1> QED BY <1>1, <1>2, <1>3 DEF SyncInv

-----------------------------------------------------------------------------
(***************************************************************************)
(* Steps of the recorder.                                                  *)
(***************************************************************************)

\* A line is added to the file of today, which is neither old nor on the part of
\* the list that may no longer change.
LEMMA RecordsInv == SyncInv /\ Records => SyncInv'
<1> SUFFICES ASSUME SyncInv, Records PROVE SyncInv'
  OBVIOUS
<1> DEFINE t == fly.today
<1>1. /\ t \in Files /\ fly.recorded \in Dirs /\ fly.files \in Dirs
      /\ fly' = [fly EXCEPT !.recorded = [fly.recorded EXCEPT ![t] = @ + 1],
                            !.files = [fly.files EXCEPT ![t] = @ + 1]]
      /\ UNCHANGED <<mirror, pull, attic, upset>>
  BY DEF SyncInv, SyncTypeOK, Records
<1>2. SyncTypeOK'
  <2>1. /\ [fly.recorded EXCEPT ![t] = @ + 1] \in Dirs
        /\ [fly.files EXCEPT ![t] = @ + 1] \in Dirs
    BY <1>1 DEF Dirs
  <2>2. fly' \in [today : Files, recorded : Dirs, files : Dirs]
    BY <1>1, <2>1 DEF SyncInv, SyncTypeOK
  <2> QED BY <1>1, <2>2 DEF SyncInv, SyncTypeOK
<1>3. OneMidnight'
  BY <1>1 DEF SyncInv, SyncTypeOK, OneMidnight
<1>4. ASSUME NEW d \in Files PROVE FileSound(d)'
  <2>1. FileSound(d) /\ fly.recorded[d] \in Nat /\ fly.files[d] \in Nat /\ d \in Int
    BY <1>1, RecordingAssumption DEF SyncInv, Dirs, Files
  <2>2. CASE d = t
    <3>1. fly'.recorded[d] = fly.recorded[d] + 1 /\ fly'.files[d] = fly.files[d] + 1
          /\ fly'.today = fly.today
      BY <1>1, <2>2 DEF SyncInv, SyncTypeOK, Dirs
    <3>2. ~Deleted(d) /\ ~Deleted(d)'
      BY <2>1, <2>2, <3>1 DEF FileSound, DeletedOld, Deleted
    <3>3. pull.at # "idle" => ~(d < pull.on)
      BY <2>1, <2>2 DEF SyncInv, SyncTypeOK, OneMidnight, Pulls
    <3>4. mirror[d] \in Nat /\ attic[d] \in Nat /\ pull.prior[d] \in Nat /\ pull.staging[d] \in Nat
      BY DEF SyncInv, SyncTypeOK, Pulls, Dirs
    <3> QED BY <1>1, <2>1, <3>1, <3>2, <3>3, <3>4
            DEF FileSound, Bounded, DeletedOld, StagedListed, Placed, Somewhere
  <2>3. CASE d # t
    <3>1. fly'.recorded[d] = fly.recorded[d] /\ fly'.files[d] = fly.files[d]
          /\ fly'.today = fly.today
      BY <1>1, <2>3 DEF SyncInv, SyncTypeOK, Dirs
    <3> QED BY <1>1, <2>1, <3>1
            DEF FileSound, Bounded, DeletedOld, StagedListed, Placed, Somewhere, Deleted
  <2> QED BY <2>2, <2>3
<1> QED BY <1>2, <1>3, <1>4 DEF SyncInv

LEMMA DayPassesInv == SyncInv /\ DayPasses => SyncInv'
<1> SUFFICES ASSUME SyncInv, DayPasses PROVE SyncInv'
  OBVIOUS
<1>1. /\ fly.today \in Nat /\ fly' = [fly EXCEPT !.today = fly.today + 1]
      /\ UNCHANGED <<mirror, pull, attic, upset>>
      /\ fly.today + 1 \in Files
  BY RecordingAssumption DEF SyncInv, SyncTypeOK, DayPasses, Files
<1>2. SyncTypeOK'
  BY <1>1 DEF SyncInv, SyncTypeOK
<1>3. fly'.today = fly.today + 1 /\ fly'.recorded = fly.recorded /\ fly'.files = fly.files
  BY <1>1 DEF SyncInv, SyncTypeOK
<1>4. OneMidnight'
  BY <1>1, <1>3 DEF SyncInv, SyncTypeOK, OneMidnight, DayPasses, Pulls
<1>5. ASSUME NEW d \in Files PROVE FileSound(d)'
  <2>1. FileSound(d) /\ d \in Int
    BY RecordingAssumption DEF SyncInv, Files
  <2> QED BY <1>1, <1>3, <2>1
          DEF FileSound, Bounded, DeletedOld, StagedListed, Placed, Somewhere, Deleted
<1> QED BY <1>2, <1>4, <1>5 DEF SyncInv
-----------------------------------------------------------------------------
(***************************************************************************)
(* Steps of the sync.                                                      *)
(***************************************************************************)

\* The sync ends: what it leaves of the old directory joins the attic.
LEMMA OverMoves ==
  ASSUME SyncInv, NEW left \in Dirs, Over(left),
         \A d \in Files : left[d] <= fly.recorded[d]
  PROVE  /\ pull' = NoPull /\ attic' \in Dirs
         /\ \A d \in Files : /\ attic'[d] <= fly.recorded[d]
                             /\ fly.recorded[d] \in {left[d], attic[d]} => attic'[d] = fly.recorded[d]
<1>1. /\ pull' = NoPull
      /\ attic' = [d \in Files |-> IF attic[d] < left[d] THEN left[d] ELSE attic[d]]
  BY DEF Over
<1>2. attic \in Dirs /\ fly.recorded \in Dirs
  BY DEF SyncInv, SyncTypeOK
<1>3. attic' \in Dirs
  BY <1>1, <1>2 DEF Dirs
<1>4. ASSUME NEW d \in Files
      PROVE  /\ attic'[d] <= fly.recorded[d]
             /\ fly.recorded[d] \in {left[d], attic[d]} => attic'[d] = fly.recorded[d]
  <2>1. attic[d] <= fly.recorded[d] /\ left[d] <= fly.recorded[d]
    BY DEF SyncInv, FileSound, Bounded
  <2>2. attic[d] \in Nat /\ left[d] \in Nat /\ fly.recorded[d] \in Nat
    BY <1>2 DEF Dirs
  <2> QED BY <1>1, <2>1, <2>2
<1> QED BY <1>1, <1>3, <1>4

\* What is true of the files of any sync that is over
LEMMA IdleKeeps ==
  ASSUME SyncInv, pull' = NoPull, fly' \in [today : Files, recorded : Dirs, files : Dirs],
         mirror' \in Dirs, attic' \in Dirs, upset' \in BOOLEAN,
         NEW d \in Files,
         fly'.files[d] <= fly'.recorded[d], mirror'[d] <= fly'.recorded[d], attic'[d] <= fly'.recorded[d],
         Deleted(d)' => /\ fly'.files[d] = 0 /\ d + 2 <= fly'.today
                        /\ fly'.recorded[d] \in {mirror'[d], attic'[d]}
                        /\ ~upset' => mirror'[d] = fly'.recorded[d]
  PROVE  FileSound(d)'
<1>1. pull'.at = "idle" /\ pull'.prior[d] = 0 /\ pull'.staging[d] = 0 /\ fly'.recorded[d] \in Nat
  BY DEF NoPull, NoFiles, Dirs
<1> QED BY <1>1 DEF FileSound, Bounded, DeletedOld, StagedListed, Placed, Somewhere

LEMMA ListsInv == SyncInv /\ Lists => SyncInv'
<1> SUFFICES ASSUME SyncInv, Lists PROVE SyncInv'
  OBVIOUS
<1>1. /\ pull.at = "idle" /\ UNCHANGED <<fly, mirror, attic, upset>>
      /\ fly.today \in Nat /\ fly.files \in Dirs /\ NoPull \in Pulls
      /\ pull' = [NoPull EXCEPT !.at = "listed", !.on = fly.today, !.manifest = fly.files]
  BY NoFilesType, RecordingAssumption DEF SyncInv, SyncTypeOK, Lists, Files
<1>2. SyncTypeOK'
  BY <1>1 DEF SyncInv, SyncTypeOK, Pulls
<1>3. /\ pull'.at = "listed" /\ pull'.on = fly.today /\ pull'.manifest = fly.files
      /\ pull'.prior = NoFiles /\ pull'.staging = NoFiles
  BY <1>1 DEF NoPull
<1>4. OneMidnight'
  BY <1>1, <1>3 DEF OneMidnight
<1>5. ASSUME NEW d \in Files PROVE FileSound(d)'
  <2>1. /\ FileSound(d) /\ fly.recorded[d] \in Nat /\ pull'.prior[d] = 0 /\ pull'.staging[d] = 0
        /\ pull'.manifest[d] = fly.files[d]
    BY <1>3 DEF SyncInv, SyncTypeOK, Dirs, NoFiles
  <2> QED BY <1>1, <1>3, <2>1
          DEF FileSound, Bounded, DeletedOld, StagedListed, Placed, Somewhere, Deleted
<1> QED BY <1>2, <1>4, <1>5 DEF SyncInv

LEMMA ExtractsInv == SyncInv /\ Extracts => SyncInv'
<1> SUFFICES ASSUME SyncInv, Extracts PROVE SyncInv'
  OBVIOUS
<1> PICK skipped \in SUBSET Present(fly.files) :
      pull' = [pull EXCEPT !.at = "extracted",
                           !.staging = [d \in Files |-> IF d \in skipped THEN 0 ELSE fly.files[d]]]
  BY Zenon DEF Extracts
<1> DEFINE staged == [d \in Files |-> IF d \in skipped THEN 0 ELSE fly.files[d]]
<1>1. /\ pull.at = "listed" /\ UNCHANGED <<fly, mirror, attic, upset>>
      /\ pull \in Pulls /\ fly.files \in Dirs /\ fly.recorded \in Dirs
      /\ pull' = [pull EXCEPT !.at = "extracted", !.staging = staged]
  BY DEF SyncInv, SyncTypeOK, Extracts
<1>2. staged \in Dirs /\ \A d \in Files : staged[d] = 0 \/ staged[d] = fly.files[d]
  BY <1>1 DEF Dirs
<1> HIDE DEF staged
<1>3. /\ pull'.at = "extracted" /\ pull'.on = pull.on /\ pull'.manifest = pull.manifest
      /\ pull'.prior = pull.prior /\ pull'.staging = staged
  BY <1>1 DEF Pulls
<1>4. SyncTypeOK'
  BY Zenon, <1>1, <1>2 DEF SyncInv, SyncTypeOK, Pulls
<1>5. OneMidnight'
  BY <1>1, <1>3 DEF SyncInv, OneMidnight
<1>6. ASSUME NEW d \in Files PROVE FileSound(d)'
  <2>1. FileSound(d) /\ fly.recorded[d] \in Nat
    BY <1>1 DEF SyncInv, Dirs
  <2> QED BY <1>1, <1>2, <1>3, <2>1
          DEF FileSound, Bounded, DeletedOld, StagedListed, Placed, Somewhere, Deleted
<1> QED BY Zenon, <1>4, <1>5, <1>6 DEF SyncInv
LEMMA VerifiesInv == SyncInv /\ Verifies => SyncInv'
<1> SUFFICES ASSUME SyncInv, Verifies PROVE SyncInv'
  OBVIOUS
<1>1. /\ pull.at = "extracted" /\ UNCHANGED <<fly, mirror, upset>>
      /\ pull \in Pulls /\ fly.recorded \in Dirs
  BY DEF SyncInv, SyncTypeOK, Verifies
<1>2. CASE Verified(pull.staging, pull.manifest)
  <2>1. pull' = [pull EXCEPT !.at = "verified"] /\ UNCHANGED attic
    BY <1>2 DEF Verifies
  <2>2. /\ pull'.at = "verified" /\ pull'.on = pull.on /\ pull'.manifest = pull.manifest
        /\ pull'.prior = pull.prior /\ pull'.staging = pull.staging
    BY <1>1, <2>1 DEF Pulls
  <2>3. SyncTypeOK'
    BY <1>1, <2>1 DEF SyncInv, SyncTypeOK, Pulls
  <2>4. OneMidnight'
    BY <1>1, <2>2 DEF SyncInv, OneMidnight
  <2>5. ASSUME NEW d \in Files PROVE FileSound(d)'
    <3>1. FileSound(d)
      BY DEF SyncInv
    <3>2. pull.staging[d] \in Nat /\ pull.manifest[d] \in Nat
      BY <1>1 DEF Pulls, Dirs
    <3>3. pull.staging[d] = pull.manifest[d]
      <4>1. CASE pull.manifest[d] > 0
        BY <1>2, <4>1 DEF Verified, Present
      <4>2. CASE ~(pull.manifest[d] > 0)
        <5>1. d \notin Present(pull.staging)
          BY <1>2, <4>2 DEF Verified, Present
        <5> QED BY <3>2, <4>2, <5>1 DEF Present
      <4> QED BY <4>1, <4>2
    <3> QED BY <1>1, <2>1, <2>2, <3>1, <3>3
            DEF FileSound, Bounded, DeletedOld, StagedListed, Placed, Somewhere, Deleted
  <2> QED BY <2>3, <2>4, <2>5 DEF SyncInv
<1>3. CASE ~Verified(pull.staging, pull.manifest)
  <2>1. Over(NoFiles)
    BY <1>3 DEF Verifies
  <2>2. \A d \in Files : NoFiles[d] <= fly.recorded[d]
    BY <1>1 DEF NoFiles, Dirs
  <2>3. /\ pull' = NoPull /\ attic' \in Dirs
        /\ \A d \in Files : /\ attic'[d] <= fly.recorded[d]
                            /\ fly.recorded[d] = attic[d] => attic'[d] = fly.recorded[d]
    BY <2>1, <2>2, OverMoves, NoFilesType
  <2>4. SyncTypeOK'
    BY <1>1, <2>3, NoFilesType DEF SyncInv, SyncTypeOK
  <2>5. OneMidnight'
    BY <2>3 DEF OneMidnight, NoPull
  <2>6. ASSUME NEW d \in Files PROVE FileSound(d)'
    <3>1. FileSound(d) /\ fly.recorded[d] \in Nat
      BY <1>1 DEF SyncInv, Dirs
    <3>2. Deleted(d)' => /\ fly.files[d] = 0 /\ d + 2 <= fly.today /\ fly.recorded[d] # 0
                         /\ fly.recorded[d] \in {mirror[d], attic[d]}
                         /\ ~upset => mirror[d] = fly.recorded[d]
      BY <1>1, <3>1 DEF FileSound, DeletedOld, Placed, Somewhere, Deleted
    <3> QED BY <1>1, <2>3, <2>4, <3>1, <3>2, IdleKeeps DEF SyncTypeOK, FileSound, Bounded
  <2> QED BY <2>4, <2>5, <2>6 DEF SyncInv
<1> QED BY <1>2, <1>3

LEMMA MovesAsideInv == SyncInv /\ MovesAside => SyncInv'
<1> SUFFICES ASSUME SyncInv, MovesAside PROVE SyncInv'
  OBVIOUS
<1>1. /\ pull.at = "verified" /\ UNCHANGED <<fly, attic, upset>>
      /\ pull \in Pulls /\ fly.recorded \in Dirs /\ mirror \in Dirs
      /\ pull' = [pull EXCEPT !.at = "aside", !.prior = mirror] /\ mirror' = NoFiles
  BY DEF SyncInv, SyncTypeOK, MovesAside
<1>2. /\ pull'.at = "aside" /\ pull'.on = pull.on /\ pull'.manifest = pull.manifest
      /\ pull'.prior = mirror /\ pull'.staging = pull.staging
  BY <1>1 DEF Pulls
<1>3. SyncTypeOK'
  BY <1>1, NoFilesType DEF SyncInv, SyncTypeOK, Pulls
<1>4. OneMidnight'
  BY <1>1, <1>2 DEF SyncInv, OneMidnight
<1>5. ASSUME NEW d \in Files PROVE FileSound(d)'
  <2>1. FileSound(d) /\ fly.recorded[d] \in Nat /\ mirror'[d] = 0
    BY <1>1 DEF SyncInv, Dirs, NoFiles
  <2> QED BY <1>1, <1>2, <2>1
          DEF FileSound, Bounded, DeletedOld, StagedListed, Placed, Somewhere, Deleted
<1> QED BY <1>3, <1>4, <1>5 DEF SyncInv

LEMMA SwapsInv == SyncInv /\ Swaps => SyncInv'
<1> SUFFICES ASSUME SyncInv, Swaps PROVE SyncInv'
  OBVIOUS
<1>1. /\ pull.at = "aside" /\ UNCHANGED <<fly, attic, upset>>
      /\ pull \in Pulls /\ fly.recorded \in Dirs
      /\ pull' = [pull EXCEPT !.at = "swapped", !.fresh = Present(pull.staging)]
      /\ mirror' = pull.staging
  BY DEF SyncInv, SyncTypeOK, Swaps
<1>2. /\ pull'.at = "swapped" /\ pull'.on = pull.on /\ pull'.manifest = pull.manifest
      /\ pull'.prior = pull.prior /\ pull'.staging = pull.staging
      /\ pull'.fresh = Present(pull.staging)
  BY <1>1 DEF Pulls
<1>3. SyncTypeOK'
  BY Zenon, <1>1 DEF SyncInv, SyncTypeOK, Pulls, Present
<1>4. OneMidnight'
  BY <1>1, <1>2 DEF SyncInv, OneMidnight
<1>5. ASSUME NEW d \in Files PROVE FileSound(d)'
  <2>1. FileSound(d) /\ fly.recorded[d] \in Nat /\ pull.staging[d] \in Nat
        /\ (d \in pull'.fresh <=> pull.staging[d] > 0)
    BY <1>1, <1>2 DEF SyncInv, Pulls, Dirs, Present
  <2>2. Deleted(d) => fly.recorded[d] # 0
    BY <2>1 DEF FileSound, DeletedOld, Deleted
  <2> QED BY <1>1, <1>2, <2>1, <2>2
          DEF FileSound, Bounded, DeletedOld, StagedListed, Placed, Somewhere, Deleted
<1> QED BY <1>3, <1>4, <1>5 DEF SyncInv

\* The old directory is put back, or left where it is.
LEMMA SwapFailsInv == SyncInv /\ SwapFails => SyncInv'
<1> SUFFICES ASSUME SyncInv, SwapFails PROVE SyncInv'
  OBVIOUS
<1>1. /\ pull.at = "aside" /\ UNCHANGED fly /\ pull.prior \in Dirs /\ fly.recorded \in Dirs
  BY DEF SyncInv, SyncTypeOK, SwapFails, Pulls
<1>2. ASSUME NEW left \in Dirs, Over(left), \A d \in Files : left[d] <= fly.recorded[d],
             mirror' \in Dirs, upset' \in BOOLEAN,
             \A d \in Files : mirror'[d] = pull.prior[d] \/ (upset' /\ mirror' = mirror /\ left = pull.prior)
      PROVE  SyncInv'
  <2>1. /\ pull' = NoPull /\ attic' \in Dirs
        /\ \A d \in Files : /\ attic'[d] <= fly.recorded[d]
                            /\ fly.recorded[d] \in {left[d], attic[d]} => attic'[d] = fly.recorded[d]
    BY <1>2, OverMoves
  <2>2. SyncTypeOK'
    BY <1>1, <1>2, <2>1, NoFilesType DEF SyncInv, SyncTypeOK
  <2>3. OneMidnight'
    BY <2>1 DEF OneMidnight, NoPull
  <2>4. ASSUME NEW d \in Files PROVE FileSound(d)'
    <3>1. FileSound(d) /\ fly.recorded[d] \in Nat
      BY <1>1 DEF SyncInv, Dirs
    <3>2. mirror'[d] <= fly.recorded[d]
      BY <1>2, <3>1 DEF FileSound, Bounded
    <3>3. Deleted(d)' => /\ fly.files[d] = 0 /\ d + 2 <= fly.today /\ fly.recorded[d] # 0
                         /\ fly.recorded[d] \in {mirror'[d], attic'[d]}
                         /\ ~upset' => mirror'[d] = fly.recorded[d]
      <4>1. Deleted(d) => /\ fly.files[d] = 0 /\ d + 2 <= fly.today /\ fly.recorded[d] # 0
                          /\ fly.recorded[d] \in {pull.prior[d], attic[d]}
                          /\ ~upset => pull.prior[d] = fly.recorded[d]
        BY <1>1, <3>1 DEF FileSound, DeletedOld, Placed, Somewhere, Deleted
      <4>2. ~upset' => ~upset /\ mirror'[d] = pull.prior[d]
        BY <1>2 DEF SwapFails
      <4> QED BY <1>1, <1>2, <2>1, <4>1, <4>2 DEF Deleted
    <3> QED BY <1>1, <1>2, <2>1, <2>2, <3>1, <3>2, <3>3, IdleKeeps DEF SyncTypeOK, FileSound, Bounded
  <2> QED BY <2>2, <2>3, <2>4 DEF SyncInv
<1>3. CASE mirror' = pull.prior /\ Over(NoFiles) /\ UNCHANGED upset
  <2>1. \A d \in Files : NoFiles[d] <= fly.recorded[d]
    BY <1>1 DEF NoFiles, Dirs
  <2>2. upset' \in BOOLEAN
    BY <1>3 DEF SyncInv, SyncTypeOK
  <2> QED BY <1>1, <1>2, <1>3, <2>1, <2>2, NoFilesType
<1>4. CASE Over(pull.prior) /\ upset' = TRUE /\ UNCHANGED mirror
  <2>1. \A d \in Files : pull.prior[d] <= fly.recorded[d]
    BY DEF SyncInv, FileSound, Bounded
  <2>2. mirror' \in Dirs
    BY <1>4 DEF SyncInv, SyncTypeOK
  <2> QED BY <1>1, <1>2, <1>4, <2>1, <2>2
<1> QED BY <1>3, <1>4 DEF SwapFails
LEMMA MergesInv == ASSUME SyncInv, NEW m \in Files, Merges(m) PROVE SyncInv'
<1>1. /\ pull.at = "swapped" /\ UNCHANGED <<fly, attic, upset>>
      /\ pull \in Pulls /\ fly.recorded \in Dirs /\ mirror \in Dirs /\ pull.prior \in Dirs
      /\ pull.prior[m] > 0 /\ m \notin pull.fresh
      /\ mirror' = [mirror EXCEPT ![m] = pull.prior[m]]
      /\ pull' = [pull EXCEPT !.prior = [pull.prior EXCEPT ![m] = 0]]
  BY DEF SyncInv, SyncTypeOK, Merges, ToMerge, Present, Pulls
<1>2. /\ pull'.at = "swapped" /\ pull'.on = pull.on /\ pull'.manifest = pull.manifest
      /\ pull'.prior = [pull.prior EXCEPT ![m] = 0] /\ pull'.staging = pull.staging
      /\ pull'.fresh = pull.fresh
  BY <1>1 DEF Pulls
<1>3. SyncTypeOK'
  <2>1. mirror' \in Dirs /\ [pull.prior EXCEPT ![m] = 0] \in Dirs
    BY <1>1 DEF Dirs
  <2>2. pull' \in Pulls
    BY <1>1, <2>1 DEF Pulls
  <2> QED BY <1>1, <2>1, <2>2 DEF SyncInv, SyncTypeOK
<1>4. OneMidnight'
  BY <1>1, <1>2 DEF SyncInv, OneMidnight
<1>5. ASSUME NEW d \in Files PROVE FileSound(d)'
  <2>1. /\ FileSound(d) /\ fly.recorded[d] \in Nat /\ pull.prior[d] \in Nat
    BY <1>1 DEF SyncInv, Dirs
  <2>2. CASE d = m
    <3>1. mirror'[d] = pull.prior[d] /\ pull'.prior[d] = 0 /\ mirror[d] = 0
      BY <1>1, <1>2, <2>1, <2>2 DEF Dirs, FileSound, Placed
    <3>2. Deleted(d) => fly.recorded[d] # 0
      BY <2>1 DEF FileSound, DeletedOld, Deleted
    <3> QED BY <1>1, <1>2, <2>1, <2>2, <3>1, <3>2
            DEF FileSound, Bounded, DeletedOld, StagedListed, Placed, Somewhere, Deleted
  <2>3. CASE d # m
    <3>1. mirror'[d] = mirror[d] /\ pull'.prior[d] = pull.prior[d]
      BY <1>1, <1>2, <2>3 DEF Dirs
    <3> QED BY <1>1, <1>2, <2>1, <3>1
            DEF FileSound, Bounded, DeletedOld, StagedListed, Placed, Somewhere, Deleted
  <2> QED BY <2>2, <2>3
<1> QED BY <1>3, <1>4, <1>5 DEF SyncInv

\* What remains of the old directory has a counterpart in the new one, and a deleted
\* file, being on no list, has none.
LEMMA PriorRemovedInv == SyncInv /\ PriorRemoved => SyncInv'
<1> SUFFICES ASSUME SyncInv, PriorRemoved PROVE SyncInv'
  OBVIOUS
<1>1. /\ pull.at = "swapped" /\ UNCHANGED <<fly, mirror, attic, upset>> /\ ToMerge = {}
      /\ pull \in Pulls /\ fly.recorded \in Dirs
      /\ pull' = [pull EXCEPT !.at = "merged", !.prior = NoFiles]
  BY DEF SyncInv, SyncTypeOK, PriorRemoved
<1>2. /\ pull'.at = "merged" /\ pull'.on = pull.on /\ pull'.manifest = pull.manifest
      /\ pull'.prior = NoFiles /\ pull'.staging = pull.staging /\ pull'.fresh = pull.fresh
  BY <1>1 DEF Pulls
<1>3. SyncTypeOK'
  BY <1>1, NoFilesType DEF SyncInv, SyncTypeOK, Pulls
<1>4. OneMidnight'
  BY <1>1, <1>2 DEF SyncInv, OneMidnight
<1>5. ASSUME NEW d \in Files PROVE FileSound(d)'
  <2>1. /\ FileSound(d) /\ fly.recorded[d] \in Nat /\ pull.prior[d] \in Nat /\ pull'.prior[d] = 0
    BY <1>1, <1>2 DEF SyncInv, Pulls, Dirs, NoFiles
  <2>2. Deleted(d) => d \notin pull.fresh /\ fly.recorded[d] # 0
    BY <1>1, <2>1 DEF FileSound, DeletedOld, StagedListed, Placed, Deleted
  <2>3. d \notin pull.fresh => pull.prior[d] = 0
    BY <1>1, <2>1 DEF ToMerge, Present
  <2> QED BY <1>1, <1>2, <2>1, <2>2, <2>3
          DEF FileSound, Bounded, DeletedOld, StagedListed, Placed, Somewhere, Deleted
<1> QED BY <1>3, <1>4, <1>5 DEF SyncInv

\* Only what is old is deleted, and what is old was listed as it is.
LEMMA CleansInv == SyncInv /\ Cleans => SyncInv'
<1> SUFFICES ASSUME SyncInv, Cleans PROVE SyncInv'
  OBVIOUS
<1> PICK gone \in SUBSET Aged :
      fly' = [fly EXCEPT !.files = [d \in Files |-> IF d \in gone THEN 0 ELSE fly.files[d]]]
  BY DEF Cleans
<1> DEFINE kept == [d \in Files |-> IF d \in gone THEN 0 ELSE fly.files[d]]
<1>1. /\ pull.at = "merged" /\ Over(NoFiles) /\ UNCHANGED <<mirror, upset>>
      /\ fly \in [today : Files, recorded : Dirs, files : Dirs]
      /\ fly' = [fly EXCEPT !.files = kept]
      /\ mirror \in Dirs /\ pull \in Pulls
  BY DEF SyncInv, SyncTypeOK, Cleans
<1>2. kept \in Dirs
  BY <1>1 DEF Dirs
<1>3. \A d \in Files : /\ d \in gone => kept[d] = 0 /\ fly.files[d] > 0 /\ d + 2 <= fly.today
                       /\ d \notin gone => kept[d] = fly.files[d]
  BY DEF Aged, Present
<1> HIDE DEF kept
<1>4. \A d \in Files : NoFiles[d] <= fly.recorded[d]
  BY <1>1 DEF NoFiles, Dirs
<1>5. /\ pull' = NoPull /\ attic' \in Dirs
      /\ \A d \in Files : /\ attic'[d] <= fly.recorded[d]
                          /\ fly.recorded[d] = attic[d] => attic'[d] = fly.recorded[d]
  BY <1>1, <1>4, OverMoves, NoFilesType
<1>6. fly'.today = fly.today /\ fly'.recorded = fly.recorded /\ fly'.files = kept
      /\ fly' \in [today : Files, recorded : Dirs, files : Dirs]
  BY <1>1, <1>2
<1>7. SyncTypeOK'
  BY <1>1, <1>5, <1>6, NoFilesType DEF SyncInv, SyncTypeOK
<1>8. OneMidnight'
  BY <1>5 DEF OneMidnight, NoPull
<1>9. ASSUME NEW d \in Files PROVE FileSound(d)'
  <2>1. /\ FileSound(d) /\ fly.recorded[d] \in Nat /\ d \in Int /\ fly.today \in Int
        /\ pull.on \in Nat /\ mirror[d] \in Nat /\ pull.staging[d] \in Nat
    BY SMTT(30), <1>1, RecordingAssumption DEF SyncInv, Dirs, Pulls, Files
  <2>2. d \in gone => mirror[d] = fly.files[d]
    <3> SUFFICES ASSUME d \in gone PROVE mirror[d] = fly.files[d]
      OBVIOUS
    <3>1. d < pull.on /\ fly.files[d] > 0
      BY <1>1, <1>3, <2>1 DEF SyncInv, OneMidnight
    <3>2. pull.staging[d] = fly.files[d]
      BY <1>1, <2>1, <3>1 DEF FileSound, DeletedOld, StagedListed
    <3> QED BY <1>1, <2>1, <3>1, <3>2 DEF FileSound, Placed
  <2>3. Deleted(d) => /\ fly.files[d] = 0 /\ d + 2 <= fly.today
                      /\ fly.recorded[d] # 0 /\ fly.recorded[d] \in {mirror[d], attic[d]}
                      /\ ~upset => mirror[d] = fly.recorded[d]
    BY <1>1, <2>1 DEF FileSound, DeletedOld, Placed, Somewhere, Deleted
  <2>4. Deleted(d)' => /\ fly'.files[d] = 0 /\ d + 2 <= fly'.today
                       /\ fly'.recorded[d] \in {mirror'[d], attic'[d]}
                       /\ ~upset' => mirror'[d] = fly'.recorded[d]
    <3>1. CASE d \in gone
      <4>1. ~Deleted(d)
        BY <1>3, <2>3, <3>1
      <4> QED BY <1>1, <1>3, <1>6, <2>2, <3>1, <4>1 DEF Deleted
    <3>2. CASE d \notin gone
      BY <1>1, <1>3, <1>5, <1>6, <2>3, <3>2 DEF Deleted
    <3> QED BY <3>1, <3>2
  <2>5. /\ fly'.files[d] <= fly'.recorded[d] /\ mirror'[d] <= fly'.recorded[d]
        /\ attic'[d] <= fly'.recorded[d]
    BY <1>1, <1>3, <1>5, <1>6, <2>1 DEF FileSound, Bounded
  <2> QED BY <1>5, <1>6, <1>7, <2>4, <2>5, IdleKeeps DEF SyncTypeOK
<1> QED BY <1>7, <1>8, <1>9 DEF SyncInv

LEMMA SyncDiesInv == SyncInv /\ SyncDies => SyncInv'
<1> SUFFICES ASSUME SyncInv, SyncDies PROVE SyncInv'
  OBVIOUS
<1>1. /\ Over(pull.prior) /\ UNCHANGED <<fly, mirror>> /\ pull \in Pulls
      /\ upset' = (upset \/ pull.at \in {"aside", "swapped"})
      /\ pull.prior \in Dirs /\ fly.recorded \in Dirs
  BY DEF SyncInv, SyncTypeOK, SyncDies, Pulls
<1>2. \A d \in Files : pull.prior[d] <= fly.recorded[d]
  BY DEF SyncInv, FileSound, Bounded
<1>3. /\ pull' = NoPull /\ attic' \in Dirs
      /\ \A d \in Files : /\ attic'[d] <= fly.recorded[d]
                          /\ fly.recorded[d] \in {pull.prior[d], attic[d]} => attic'[d] = fly.recorded[d]
  BY <1>1, <1>2, OverMoves
<1>4. upset' \in BOOLEAN
  BY <1>1, Zenon DEF SyncInv, SyncTypeOK
<1>5. SyncTypeOK'
  BY <1>1, <1>3, <1>4, NoFilesType DEF SyncInv, SyncTypeOK
<1>6. OneMidnight'
  BY <1>3 DEF OneMidnight, NoPull
<1>7. ASSUME NEW d \in Files PROVE FileSound(d)'
  <2>1. FileSound(d) /\ fly.recorded[d] \in Nat
    BY <1>1 DEF SyncInv, Dirs
  <2>2. Deleted(d)' => /\ fly.files[d] = 0 /\ d + 2 <= fly.today
                       /\ fly.recorded[d] \in {mirror[d], attic'[d]}
                       /\ ~upset' => mirror[d] = fly.recorded[d]
    BY <1>1, <1>3, <2>1 DEF FileSound, DeletedOld, Placed, Somewhere, Deleted
  <2> QED BY <1>1, <1>3, <1>5, <2>1, <2>2, IdleKeeps DEF SyncTypeOK, FileSound, Bounded
<1> QED BY <1>5, <1>6, <1>7 DEF SyncInv

-----------------------------------------------------------------------------
LEMMA SyncStep == SyncInv /\ [SyncNext]_syncing => SyncInv'
<1> SUFFICES ASSUME SyncInv, [SyncNext]_syncing PROVE SyncInv'
  OBVIOUS
<1>1. CASE UNCHANGED syncing
  BY ZenonT(60), <1>1 DEF syncing, SyncInv, SyncTypeOK, OneMidnight, FileSound, Bounded, DeletedOld,
     StagedListed, Placed, Somewhere, Deleted
<1>2. CASE SyncNext
  BY <1>2, RecordsInv, DayPassesInv, ListsInv, ExtractsInv, VerifiesInv, MovesAsideInv,
     SwapsInv, SwapFailsInv, MergesInv, PriorRemovedInv, CleansInv, SyncDiesInv DEF SyncNext
<1> QED BY <1>1, <1>2

\* The invariant of a sync: which copy of a deleted file is whole at each step of
\* the swap, and why the files that are deleted are among those that were verified.
THEOREM SyncInvariance == SyncSpec => []SyncInv
<1>1. SyncInit => SyncInv
  BY SyncInitInv
<1>2. SyncInv /\ [SyncNext]_syncing => SyncInv'
  BY SyncStep
<1> QED BY <1>1, <1>2, PTL DEF SyncSpec

\* Every recorded line is on the machine or in a local directory wherever syncs
\* are killed, and in the local directory itself unless one stopped inside the swap.
THEOREM RecordingsAreKept == SyncSpec => []RecordingsKept
<1>1. SyncInv => RecordingsKept
  <2> SUFFICES ASSUME SyncInv, NEW d \in Files, Deleted(d)
      PROVE  /\ fly.recorded[d] \in {mirror[d], pull.prior[d], attic[d]}
             /\ pull.at = "idle" /\ ~upset => mirror[d] = fly.recorded[d]
    BY DEF RecordingsKept, Deleted
  <2> QED BY DEF SyncInv, FileSound, Somewhere
<1> QED BY <1>1, SyncInvariance, PTL

(***************************************************************************)
(* The feed.                                                               *)
(***************************************************************************)

(* What FoldLeft comes to.  It is a recursion on the sets of positions.    *)

FoldStep(b, q, g, s) == IF s = {} THEN b ELSE Applied(g[s \ {Max(s)}], q[Max(s)])

FoldsUp(b, q, S, g) == g = [s \in SUBSET S |-> FoldStep(b, q, g, s)]

LEMMA FoldUnfolds ==
  ASSUME NEW b, NEW q
  PROVE  FoldLeft(Applied, b, q) = (CHOOSE g : FoldsUp(b, q, DOMAIN q, g))[DOMAIN q]
BY DEF FoldLeft, MapThenFoldSet, FoldsUp, FoldStep

\* A set of positions has a last one.
LEMMA LastPosition ==
  ASSUME NEW n \in Nat, NEW s \in SUBSET (1 .. n), s # {}
  PROVE  Max(s) \in s /\ \A k \in s : k <= Max(s)
<1> DEFINE T == {n - k : k \in s}
<1>0. \A k \in s : k \in Nat /\ n - k \in Nat
  OBVIOUS
<1>1. T \in SUBSET Nat /\ T # {}
  BY <1>0
<1>2. PICK m \in T : \A k \in T : m <= k
  <2> HIDE DEF T
  <2> QED BY <1>1, LeastOfSet
<1>3. PICK x \in s : m = n - x
  OBVIOUS
<1>4. ASSUME NEW y \in s PROVE x >= y
  <2>1. n - y \in T
    OBVIOUS
  <2>2. n - x <= n - y
    BY <1>2, <1>3, <2>1
  <2> QED BY <1>0, <2>2
<1>5. \A y \in s : Max(s) >= y
  BY <1>4 DEF Max
<1>6. Max(s) \in s
  BY <1>4 DEF Max
<1> QED BY <1>5, <1>6

LEMMA PositionsAreFinite ==
  ASSUME NEW n \in Nat, NEW s \in SUBSET (1 .. n)
  PROVE  IsFiniteSet(s)
<1>1. IsFiniteSet(1 .. n)
  BY FS_Interval
<1> QED BY <1>1, FS_Subset

\* The recursion has one solution at most ...
LEMMA FoldsAgree ==
  ASSUME NEW b, NEW q, NEW n \in Nat, NEW S \in SUBSET (1 .. n), NEW T, S \subseteq T,
         NEW g, FoldsUp(b, q, S, g), NEW h, FoldsUp(b, q, T, h)
  PROVE  \A s \in SUBSET S : g[s] = h[s]
<1> DEFINE P == {s \in SUBSET S : g[s] = h[s]}
<1>0. \A s \in SUBSET S : g[s] = FoldStep(b, q, g, s) /\ h[s] = FoldStep(b, q, h, s)
  BY DEF FoldsUp
<1>1. {} \in P
  BY <1>0 DEF FoldStep
<1>2. ASSUME NEW s \in SUBSET S, s # {}, \A x \in s : s \ {x} \in P PROVE s \in P
  <2>1. Max(s) \in s
    BY <1>2, LastPosition
  <2> QED BY <1>0, <1>2, <2>1 DEF FoldStep
<1>3. P = SUBSET S
  <2>1. P \in SUBSET (SUBSET S)
    OBVIOUS
  <2>2. IsFiniteSet(S)
    BY PositionsAreFinite
  <2> HIDE DEF P
  <2> QED BY <1>1, <1>2, <2>1, <2>2, SubsetInduction
<1> QED BY <1>3

\* ... and one at least.
LEMMA FoldsExist ==
  ASSUME NEW b, NEW q, NEW n \in Nat, NEW S \in SUBSET (1 .. n)
  PROVE  \E g : FoldsUp(b, q, S, g)
<1> DEFINE Solved(s) == \E g : FoldsUp(b, q, s, g)
           Of(s) == CHOOSE g : FoldsUp(b, q, s, g)
           P == {s \in SUBSET S : Solved(s)}
<1>1. {} \in P
  <2> DEFINE g == [s \in SUBSET {} |-> b]
  <2>1. FoldsUp(b, q, {}, g)
    BY DEF FoldsUp, FoldStep
  <2> QED BY <2>1
<1>2. ASSUME NEW s \in SUBSET S, s # {}, \A x \in s : s \ {x} \in P PROVE s \in P
  <2>1. ASSUME NEW t \in SUBSET s, t # s PROVE Solved(t)
    <3>1. PICK x \in s : x \notin t
      BY <2>1
    <3>2. PICK g : FoldsUp(b, q, s \ {x}, g)
      BY <1>2
    <3> DEFINE h == [u \in SUBSET t |-> g[u]]
    <3>3. SUBSET t \subseteq SUBSET (s \ {x})
      BY <3>1
    <3>4. \A u \in SUBSET t : u # {} => Max(u) \in u
      BY LastPosition
    <3>5. \A u \in SUBSET t : h[u] = FoldStep(b, q, h, u)
      BY <3>2, <3>3, <3>4 DEF FoldsUp, FoldStep
    <3>6. FoldsUp(b, q, t, h)
      BY <3>5 DEF FoldsUp
    <3> QED BY <3>6
  <2>2. \A t \in SUBSET s : t # s => FoldsUp(b, q, t, Of(t))
    BY <2>1
  <2> DEFINE c == Max(s)
             G == [t \in SUBSET s |-> IF t = s THEN Applied(Of(s \ {c})[s \ {c}], q[c]) ELSE Of(t)[t]]
  <2>3. c \in s /\ s \ {c} \in SUBSET s /\ s \ {c} # s
    BY <1>2, LastPosition
  <2>4. ASSUME NEW t \in SUBSET s PROVE G[t] = FoldStep(b, q, G, t)
    <3> HIDE DEF Of
    <3>1. CASE t = s
      BY <3>1, <1>2, <2>3 DEF FoldStep
    <3>2. CASE t # s /\ t = {}
      BY <2>2, <3>2 DEF FoldsUp, FoldStep
    <3>3. CASE t # s /\ t # {}
      <4> DEFINE d == Max(t)
                 u == t \ {d}
      <4>1. d \in t /\ u \in SUBSET s /\ u # s /\ u \subseteq t
        BY <3>3, LastPosition
      <4>2. Of(t)[t] = Applied(Of(t)[u], q[d])
        BY <2>2, <3>3 DEF FoldsUp, FoldStep
      <4>3. Of(u)[u] = Of(t)[u]
        <5>1. FoldsUp(b, q, u, Of(u)) /\ FoldsUp(b, q, t, Of(t))
          BY <2>2, <4>1, <3>3
        <5>2. u \in SUBSET (1 .. n)
          BY <4>1
        <5>3. u \subseteq t /\ u \in SUBSET u
          OBVIOUS
        <5> HIDE DEF u
        <5>4. \A v \in SUBSET u : Of(u)[v] = Of(t)[v]
          BY <5>1, <5>2, <5>3, FoldsAgree
        <5> QED BY <5>3, <5>4
      <4> HIDE DEF d, u
      <4>4. G[t] = Applied(G[u], q[d])
        BY <3>3, <4>1, <4>2, <4>3
      <4> QED BY <4>4, <3>3 DEF FoldStep, d, u
    <3> QED BY <3>1, <3>2, <3>3
  <2>5. FoldsUp(b, q, s, G)
    <3> HIDE DEF Of
    <3> QED BY <2>4 DEF FoldsUp
  <2> HIDE DEF G
  <2> QED BY <2>5
<1>3. P = SUBSET S
  <2>1. P \in SUBSET (SUBSET S)
    OBVIOUS
  <2>2. IsFiniteSet(S)
    BY PositionsAreFinite
  <2> HIDE DEF P
  <2> QED BY <1>1, <1>2, <2>1, <2>2, SubsetInduction
<1> QED BY <1>3

\* The books that a tracker with book b has, one message of q after another
Course(b, q, w) == w[0] = b /\ \A k \in 1 .. Len(q) : w[k] = Applied(w[k - 1], q[k])

\* The fold over the messages is the last of them.
LEMMA FoldIsLast ==
  ASSUME NEW S, NEW q \in Seq(S), NEW b, NEW w, Course(b, q, w)
  PROVE  FoldLeft(Applied, b, q) = w[Len(q)]
<1> DEFINE n == Len(q)
           g == CHOOSE g : FoldsUp(b, q, 1 .. n, g)
           Bad == {k \in 0 .. n : g[1 .. k] # w[k]}
<1>1. n \in Nat /\ DOMAIN q = 1 .. n
  OBVIOUS
<1>2. FoldLeft(Applied, b, q) = g[1 .. n]
  BY <1>1, FoldUnfolds
<1>3. FoldsUp(b, q, 1 .. n, g)
  BY <1>1, FoldsExist
<1> HIDE DEF n, g
<1>4. ASSUME NEW k \in 1 .. n PROVE g[1 .. k] = Applied(g[1 .. (k - 1)], q[k])
  <2>1. 1 .. k \in SUBSET (1 .. n) /\ 1 .. k # {}
    <3>1. n \in Nat /\ k \in Nat /\ 1 <= k /\ k <= n
      BY <1>1
    <3>2. k \in 1 .. k /\ \A i \in 1 .. k : i \in 1 .. n
      BY <3>1
    <3> QED BY <3>2
  <2>2. Max(1 .. k) = k
    <3>1. n \in Nat /\ k \in 1 .. k /\ k \in Nat
      BY <1>1
    <3>2. Max(1 .. k) \in 1 .. k /\ k <= Max(1 .. k)
      BY <2>1, <3>1, LastPosition
    <3> QED BY <3>1, <3>2
  <2>3. (1 .. k) \ {k} = 1 .. (k - 1)
    BY <1>1
  <2>4. g[1 .. k] = FoldStep(b, q, g, 1 .. k)
    BY <1>3, <2>1 DEF FoldsUp
  <2> QED BY <2>1, <2>2, <2>3, <2>4 DEF FoldStep
<1>5. g[1 .. 0] = b
  <2>1. 1 .. 0 = {}
    OBVIOUS
  <2> QED BY <1>3, <2>1 DEF FoldsUp, FoldStep
<1>6. Bad = {}
  <2> SUFFICES ASSUME Bad # {} PROVE FALSE
    OBVIOUS
  <2>1. Bad \in SUBSET Nat
    BY <1>1
  <2>2. PICK k \in Bad : \A i \in Bad : k <= i
    <3> HIDE DEF Bad
    <3> QED BY <2>1, LeastOfSet
  <2>3. k # 0
    BY <1>5 DEF Course
  <2>4. k \in 1 .. n /\ k - 1 \in 0 .. n /\ k - 1 \notin Bad
    BY <1>1, <2>2, <2>3
  <2>5. g[1 .. (k - 1)] = w[k - 1]
    BY <2>4
  <2>6. w[k] = Applied(w[k - 1], q[k])
    BY <2>4 DEF Course, n
  <2> QED BY <1>4, <2>4, <2>5, <2>6
<1>7. n \in 0 .. n /\ n \notin Bad
  BY <1>1, <1>6
<1> QED BY <1>2, <1>7 DEF n

-----------------------------------------------------------------------------
(* The invariant.                                                          *)

Books == [has : BOOLEAN, size : Int, seq : Int, gap : BOOLEAN]

Messages ==
  {Ack} \cup [type : {"snapshot"}, size : Int, seq : Int]
        \cup [type : {"delta"}, change : Int, seq : Int]

FeedTypeOK ==
  /\ level \in [size : Int, seq : Nat]
  /\ book \in Books
  /\ socket \in [msgs : Seq(Messages), subs : Int, live : BOOLEAN]

\* A book that saw no gap and has the number of level l has its size.
Sound(b, l) ==
  /\ b \in Books
  /\ b.seq <= l.seq
  /\ b.has /\ ~b.gap /\ b.seq = l.seq => b.size = l.size

\* Every book on the way from b through the messages q is sound.
SoundCourse(b, q, l) == \E w : Course(b, q, w) /\ \A k \in 0 .. Len(q) : Sound(w[k], l)

FeedInv == FeedTypeOK /\ SoundCourse(book, socket.msgs, level)

\* The tracker's book stays a book.
LEMMA AppliedType ==
  ASSUME NEW b \in Books, NEW m \in Messages
  PROVE  Applied(b, m) \in Books
<1>1. CASE m = Ack
  BY <1>1 DEF Applied, Ack
<1>2. CASE m \in [type : {"snapshot"}, size : Int, seq : Int]
  BY <1>2 DEF Applied, Books
<1>3. CASE m \in [type : {"delta"}, change : Int, seq : Int]
  <2>1. b.size \in Int /\ m.change \in Int /\ m.seq \in Int /\ b.size + m.change \in Int
        /\ m.type = "delta"
    BY <1>3 DEF Books
  <2>2. (b.gap \/ m.seq # b.seq + 1) \in BOOLEAN
    OBVIOUS
  <2>3. CASE b.has
    BY <2>1, <2>2, <2>3 DEF Applied, AfterDelta, Books
  <2>4. CASE ~b.has
    BY <2>1, <2>4 DEF Applied
  <2> QED BY <2>3, <2>4
<1> QED BY <1>1, <1>2, <1>3 DEF Messages

\* A book that is sound is the only one on its way through no messages.
LEMMA NoCourse ==
  ASSUME NEW b, NEW l, Sound(b, l)
  PROVE  SoundCourse(b, <<>>, l)
<1> DEFINE w == [k \in 0 .. 0 |-> b]
<1>1. Len(<<>>) = 0 /\ 0 .. 0 = {0} /\ 1 .. 0 = {}
  OBVIOUS
<1>2. w[0] = b
  OBVIOUS
<1>3. Course(b, <<>>, w)
  BY <1>1, <1>2 DEF Course
<1>4. \A k \in 0 .. Len(<<>>) : Sound(w[k], l)
  BY <1>1, <1>2
<1> HIDE DEF w
<1> QED BY <1>3, <1>4 DEF SoundCourse

\* Its first book is the tracker's.
LEMMA FirstIsSound ==
  ASSUME NEW b, NEW q \in Seq(Messages), NEW l, SoundCourse(b, q, l)
  PROVE  Sound(b, l)
<1>1. PICK w : Course(b, q, w) /\ \A k \in 0 .. Len(q) : Sound(w[k], l)
  BY DEF SoundCourse
<1>2. 0 \in 0 .. Len(q)
  OBVIOUS
<1> QED BY <1>1, <1>2 DEF Course

\* The first message is taken.
LEMMA CourseGoesOn ==
  ASSUME NEW b, NEW q \in Seq(Messages), q # <<>>, NEW l, SoundCourse(b, q, l)
  PROVE  SoundCourse(Applied(b, Head(q)), Tail(q), l)
<1>1. PICK w : Course(b, q, w) /\ \A k \in 0 .. Len(q) : Sound(w[k], l)
  BY DEF SoundCourse
<1> DEFINE n == Len(q)
           v == [k \in 0 .. (n - 1) |-> w[k + 1]]
<1>2. n \in Nat /\ n >= 1 /\ Len(Tail(q)) = n - 1 /\ Head(q) = q[1]
  OBVIOUS
<1>3. \A k \in 1 .. (n - 1) : Tail(q)[k] = q[k + 1]
  OBVIOUS
<1>a. b = w[0] /\ \A k \in 1 .. n : w[k] = Applied(w[k - 1], q[k])
  BY <1>1 DEF Course
<1> HIDE DEF n
<1>4. v[0] = Applied(b, Head(q))
  <2>1. 0 \in 0 .. (n - 1) /\ 1 \in 1 .. n /\ 0 + 1 = 1 /\ 1 - 1 = 0
    BY <1>2
  <2>2. v[0] = w[1]
    BY <2>1
  <2> QED BY <2>1, <2>2, <1>a, <1>2
<1>5. ASSUME NEW k \in 1 .. (n - 1) PROVE v[k] = Applied(v[k - 1], Tail(q)[k])
  <2>1. k \in 0 .. (n - 1) /\ k - 1 \in 0 .. (n - 1) /\ (k - 1) + 1 = k /\ k + 1 \in 1 .. n
        /\ (k + 1) - 1 = k
    BY <1>2
  <2>2. v[k] = w[k + 1] /\ v[k - 1] = w[k]
    BY <2>1
  <2>3. w[k + 1] = Applied(w[k], q[k + 1])
    BY <2>1, <1>a
  <2> QED BY <2>2, <2>3, <1>3
<1>6. ASSUME NEW k \in 0 .. (n - 1) PROVE Sound(v[k], l)
  <2>1. k + 1 \in 0 .. n
    BY <1>2
  <2> QED BY <2>1, <1>1 DEF n
<1> HIDE DEF v
<1>7. Course(Applied(b, Head(q)), Tail(q), v)
  BY <1>2, <1>4, <1>5 DEF Course
<1> QED BY <1>2, <1>6, <1>7 DEF SoundCourse

\* The level moves on, and its message is lost.
LEMMA LevelMovesOn ==
  ASSUME NEW b, NEW q \in Seq(Messages), NEW l \in [size : Int, seq : Nat], NEW size \in Int,
         SoundCourse(b, q, l)
  PROVE  SoundCourse(b, q, [size |-> size, seq |-> l.seq + 1])
<1>1. PICK w : Course(b, q, w) /\ \A k \in 0 .. Len(q) : Sound(w[k], l)
  BY DEF SoundCourse
<1>2. \A k \in 0 .. Len(q) : Sound(w[k], [size |-> size, seq |-> l.seq + 1])
  BY <1>1 DEF Sound, Books
<1> QED BY <1>1, <1>2 DEF SoundCourse

\* One more message is sent, which the last book stands.
LEMMA CourseGetsLonger ==
  ASSUME NEW b, NEW q \in Seq(Messages), NEW m \in Messages, NEW l, NEW w,
         Course(b, q, w), \A k \in 0 .. Len(q) : Sound(w[k], l),
         Sound(Applied(w[Len(q)], m), l)
  PROVE  \E v : /\ Course(b, Append(q, m), v)
               /\ \A k \in 0 .. Len(Append(q, m)) : Sound(v[k], l)
               /\ v[Len(Append(q, m))] = Applied(w[Len(q)], m)
<1> DEFINE n == Len(q)
           r == Append(q, m)
           v == [k \in 0 .. (n + 1) |-> IF k = n + 1 THEN Applied(w[n], m) ELSE w[k]]
<1>1. n \in Nat /\ Len(r) = n + 1 /\ r[n + 1] = m /\ \A k \in 1 .. n : r[k] = q[k]
  OBVIOUS
<1>2. b = w[0] /\ \A k \in 1 .. n : w[k] = Applied(w[k - 1], q[k])
  BY DEF Course
<1>3. \A k \in 0 .. n : Sound(w[k], l)
  OBVIOUS
<1>4. Sound(Applied(w[n], m), l)
  OBVIOUS
<1> HIDE DEF n, r
<1>5. v[n + 1] = Applied(w[n], m)
  BY <1>1
<1>6. \A k \in 0 .. n : v[k] = w[k]
  BY <1>1
<1> HIDE DEF v
<1>7. ASSUME NEW k \in 1 .. (n + 1) PROVE v[k] = Applied(v[k - 1], r[k])
  <2>1. k - 1 \in 0 .. n
    BY <1>1
  <2>2. CASE k = n + 1
    <3>1. k - 1 = n
      BY <1>1, <2>2
    <3> QED BY <1>1, <1>5, <1>6, <2>1, <2>2, <3>1
  <2>3. CASE k # n + 1
    <3>1. k \in 1 .. n /\ k \in 0 .. n
      BY <1>1, <2>3
    <3> QED BY <1>1, <1>2, <1>6, <2>1, <3>1
  <2> QED BY <2>2, <2>3
<1>8. v[0] = b
  BY <1>1, <1>2, <1>6
<1>9. ASSUME NEW k \in 0 .. (n + 1) PROVE Sound(v[k], l)
  <2>1. CASE k = n + 1
    BY <1>4, <1>5, <2>1
  <2>2. CASE k # n + 1
    <3>1. k \in 0 .. n
      BY <1>1, <2>2
    <3> QED BY <1>3, <1>6, <3>1
  <2> QED BY <2>1, <2>2
<1>10. Course(b, r, v)
  BY <1>1, <1>7, <1>8 DEF Course
<1> QED BY <1>1, <1>5, <1>9, <1>10 DEF r, n

\* The level changes, and its message is sent.
LEMMA LevelIsTold ==
  ASSUME NEW b, NEW q \in Seq(Messages), NEW l \in [size : Int, seq : Nat], NEW size \in Int,
         SoundCourse(b, q, l)
  PROVE  SoundCourse(b, Append(q, Delta(size - l.size, l.seq + 1)),
                     [size |-> size, seq |-> l.seq + 1])
<1> DEFINE m == Delta(size - l.size, l.seq + 1)
           l2 == [size |-> size, seq |-> l.seq + 1]
<1>1. PICK w : Course(b, q, w) /\ \A k \in 0 .. Len(q) : Sound(w[k], l)
  BY DEF SoundCourse
<1> DEFINE e == w[Len(q)]
<1>2. Sound(e, l)
  <2>1. Len(q) \in 0 .. Len(q)
    OBVIOUS
  <2> QED BY <1>1, <2>1
<1>3. m \in Messages /\ m.type = "delta" /\ m.change = size - l.size /\ m.seq = l.seq + 1
  BY DEF Delta, Messages
<1>4. l.size \in Int /\ l.seq \in Nat /\ l2.size = size /\ l2.seq = l.seq + 1
  OBVIOUS
<1> HIDE DEF m, e, l2
<1>5. e \in Books /\ Applied(e, m) \in Books
  BY <1>2, <1>3, AppliedType DEF Sound
<1>6. Sound(Applied(e, m), l2)
  <2>1. e.seq \in Int /\ e.size \in Int
    BY <1>5 DEF Books
  <2>2. CASE ~e.has
    <3>1. Applied(e, m) = e
      BY <2>2, <1>3 DEF Applied
    <3>2. e.seq <= l2.seq
      BY <1>2, <1>4, <2>1 DEF Sound
    <3> QED BY <1>5, <2>2, <3>1, <3>2 DEF Sound
  <2>3. CASE e.has
    <3>1. Applied(e, m) = AfterDelta(e, m)
      BY <2>3, <1>3 DEF Applied
    <3>2. /\ Applied(e, m).seq = m.seq
          /\ Applied(e, m).size = e.size + m.change
          /\ Applied(e, m).gap = (e.gap \/ m.seq # e.seq + 1)
      BY <1>5, <3>1 DEF AfterDelta, Books
    <3>3. Applied(e, m).seq <= l2.seq
      BY <1>3, <1>4, <3>2
    <3>4. ASSUME ~Applied(e, m).gap PROVE Applied(e, m).size = l2.size
      <4>1. ~e.gap /\ m.seq = e.seq + 1
        BY <3>2, <3>4
      <4>2. e.seq = l.seq
        BY <4>1, <1>3, <1>4, <2>1
      <4>3. e.size = l.size
        BY <4>1, <4>2, <2>3, <1>2 DEF Sound
      <4> QED BY <4>3, <3>2, <1>3, <1>4, <2>1
    <3> QED BY <1>5, <3>3, <3>4 DEF Sound
  <2> QED BY <2>2, <2>3
<1>7. \A k \in 0 .. Len(q) : Sound(w[k], l2)
  BY <1>1, <1>4 DEF Sound, Books
<1>8. \E v : Course(b, Append(q, m), v) /\ \A k \in 0 .. Len(Append(q, m)) : Sound(v[k], l2)
  BY <1>1, <1>3, <1>6, <1>7, CourseGetsLonger DEF e
<1> QED BY <1>8 DEF SoundCourse, m, l2

\* A subscription is acknowledged, and the book is sent.
LEMMA BookIsSent ==
  ASSUME NEW b, NEW q \in Seq(Messages), NEW l \in [size : Int, seq : Nat], SoundCourse(b, q, l)
  PROVE  SoundCourse(b, Append(Append(q, Ack), Snapshot(l.size, l.seq)), l)
<1> DEFINE m == Snapshot(l.size, l.seq)
           r == Append(q, Ack)
<1>1. PICK w : Course(b, q, w) /\ \A k \in 0 .. Len(q) : Sound(w[k], l)
  BY DEF SoundCourse
<1>2. Sound(w[Len(q)], l)
  <2>1. Len(q) \in 0 .. Len(q)
    OBVIOUS
  <2> QED BY <1>1, <2>1
<1>3. Applied(w[Len(q)], Ack) = w[Len(q)]
  BY DEF Applied, Ack
<1>4. Ack \in Messages /\ m \in Messages /\ r \in Seq(Messages)
  BY DEF Messages, Snapshot
<1>5. ASSUME NEW c PROVE Sound(Applied(c, m), l)
  <2>1. l.size \in Int /\ l.seq \in Nat
    OBVIOUS
  <2>2. Applied(c, m) = [has |-> TRUE, size |-> l.size, seq |-> l.seq, gap |-> FALSE]
    BY DEF Applied, Snapshot
  <2> DEFINE d == Applied(c, m)
  <2>3. d.has = TRUE /\ d.size = l.size /\ d.seq = l.seq /\ d.gap = FALSE /\ d \in Books
    BY <2>1, <2>2 DEF Books
  <2> HIDE DEF d
  <2>4. Sound(d, l)
    BY <2>1, <2>3 DEF Sound
  <2> QED BY <2>4 DEF d
<1> HIDE DEF m, r
<1>6. \E v : Course(b, r, v) /\ \A k \in 0 .. Len(r) : Sound(v[k], l)
  <2> DEFINE e == w[Len(q)]
  <2>1. Sound(Applied(e, Ack), l)
    BY <1>2, <1>3
  <2> QED BY Zenon, <1>1, <1>4, <2>1, CourseGetsLonger DEF r
<1>7. PICK v : Course(b, r, v) /\ \A k \in 0 .. Len(r) : Sound(v[k], l)
  BY <1>6
<1>8. \E u : Course(b, Append(r, m), u) /\ \A k \in 0 .. Len(Append(r, m)) : Sound(u[k], l)
  BY ZenonT(60), <1>4, <1>5, <1>7, CourseGetsLonger
<1> QED BY <1>8 DEF SoundCourse, r, m

LEMMA FeedStarts == FeedInit => FeedInv
<1> SUFFICES ASSUME FeedInit PROVE FeedInv
  OBVIOUS
<1>1. FeedTypeOK
  BY DEF FeedInit, FeedTypeOK, NoBook, Books
<1>2. Sound(book, level)
  BY DEF FeedInit, NoBook, Books, Sound
<1>3. SoundCourse(book, <<>>, level)
  BY <1>2, NoCourse
<1> QED BY <1>1, <1>3 DEF FeedInit, FeedInv

LEMMA FeedStepKeepsInv == FeedInv /\ [FeedNext]_feeding => FeedInv'
<1> SUFFICES ASSUME FeedInv, [FeedNext]_feeding PROVE FeedInv'
  OBVIOUS
<1> USE FeedAssumption
<1>0. /\ level \in [size : Int, seq : Nat] /\ level.size \in Int /\ level.seq \in Nat
      /\ book \in Books
      /\ socket \in [msgs : Seq(Messages), subs : Int, live : BOOLEAN]
      /\ socket.msgs \in Seq(Messages) /\ socket.subs \in Int
      /\ SoundCourse(book, socket.msgs, level)
      /\ Sound(book, level)
  BY FirstIsSound DEF FeedInv, FeedTypeOK
<1>a. ASSUME UNCHANGED <<socket, level, book>> PROVE FeedInv'
  BY <1>a, <1>0 DEF FeedInv, FeedTypeOK
<1>b. ASSUME UNCHANGED <<level, book>>, socket'.msgs = <<>>,
             socket' \in [msgs : Seq(Messages), subs : Int, live : BOOLEAN]
      PROVE  FeedInv'
  <2>1. SoundCourse(book, <<>>, level)
    BY <1>0, NoCourse
  <2> QED BY <2>1, <1>0, <1>b DEF FeedInv, FeedTypeOK
<1>1. CASE UNCHANGED feeding
  BY <1>1, <1>a DEF feeding
<1>2. CASE Start
  BY <1>2, <1>a DEF Start
<1>3. CASE Connected
  BY <1>3, <1>b DEF Connected
<1>4. CASE ConnectFails
  BY <1>4, <1>a DEF ConnectFails
<1>5. CASE Disconnects
  BY <1>5, <1>b DEF Disconnects, NoSocket
<1>6. CASE TimerFires
  BY <1>6, <1>a DEF TimerFires
<1>7. CASE StopFeed
  BY <1>7, <1>b DEF StopFeed, NoSocket
<1>8. CASE Receives
  <2> DEFINE m == Head(socket.msgs)
             q == Tail(socket.msgs)
  <2>1. m \in Messages /\ q \in Seq(Messages)
    BY <1>8, <1>0 DEF Receives
  <2>2. level' = level /\ book' = Applied(book, m) /\ socket' = [socket EXCEPT !.msgs = q]
    BY <1>8 DEF Receives
  <2>3. SoundCourse(Applied(book, m), q, level)
    BY <1>8, <1>0, CourseGoesOn DEF Receives
  <2> HIDE DEF m, q
  <2>4. Applied(book, m) \in Books
    BY <1>0, <2>1, AppliedType
  <2>5. FeedTypeOK'
    BY <1>0, <2>1, <2>2, <2>4 DEF FeedTypeOK
  <2>6. socket'.msgs = q
    BY <1>0, <2>2
  <2> QED BY <2>2, <2>3, <2>5, <2>6 DEF FeedInv
<1>9. CASE Stale
  <2>1. Sound(NoBook, level)
    BY <1>0 DEF Sound, NoBook, Books
  <2>2. SoundCourse(NoBook, <<>>, level)
    BY <2>1, NoCourse
  <2>3. book' = NoBook /\ level' = level /\ socket.msgs = <<>>
        /\ socket' = [socket EXCEPT !.subs = @ + 1]
    BY <1>9 DEF Stale
  <2>4. socket'.msgs = <<>> /\ socket' \in [msgs : Seq(Messages), subs : Int, live : BOOLEAN]
    BY <2>3, <1>0
  <2>5. NoBook \in Books
    BY DEF NoBook, Books
  <2> QED BY <1>0, <2>2, <2>3, <2>4, <2>5 DEF FeedInv, FeedTypeOK
<1>10. CASE Emit
  BY <1>10, <1>a DEF Emit
<1>11. CASE Subscribes
  <2> DEFINE s == Snapshot(level.size, level.seq)
             q == Append(Append(socket.msgs, Ack), s)
  <2>1. s \in Messages /\ Ack \in Messages
    BY <1>0 DEF Snapshot, Messages
  <2>2. SoundCourse(book, q, level)
    BY <1>0, BookIsSent
  <2>3. socket' = [msgs |-> socket.msgs \o <<Ack, s>>, subs |-> socket.subs - 1, live |-> TRUE]
        /\ UNCHANGED <<level, book>>
    BY <1>11 DEF Subscribes
  <2> HIDE DEF s
  <2>4. socket.msgs \o <<Ack, s>> = q /\ q \in Seq(Messages)
    BY <1>0, <2>1
  <2> HIDE DEF q
  <2>5. socket'.msgs = q /\ socket' \in [msgs : Seq(Messages), subs : Int, live : BOOLEAN]
    BY SMTT(30), <1>0, <2>3, <2>4
  <2> QED BY <1>0, <2>2, <2>3, <2>5 DEF FeedInv, FeedTypeOK
<1>12. ASSUME NEW size \in 0 .. MaxLevel, LevelChanges(size) PROVE FeedInv'
  <2> DEFINE m == Delta(size - level.size, level.seq + 1)
             l == [size |-> size, seq |-> level.seq + 1]
             q == Append(socket.msgs, m)
  <2>0. size \in Int
    BY <1>12
  <2>1. l \in [size : Int, seq : Nat] /\ m \in Messages
    BY <1>0, <2>0 DEF Delta, Messages
  <2>2. SoundCourse(book, socket.msgs, l)
    BY <1>0, <2>0, LevelMovesOn
  <2>3. SoundCourse(book, q, l)
    BY <1>0, <2>0, LevelIsTold
  <2>4. level' = l /\ book' = book /\ socket' \in {socket, [socket EXCEPT !.msgs = q]}
    BY <1>12 DEF LevelChanges
  <2> HIDE DEF m, l
  <2>5. q \in Seq(Messages)
    BY <1>0, <2>1
  <2> HIDE DEF q
  <2>6. CASE socket' = socket
    BY <1>0, <2>1, <2>2, <2>4, <2>6 DEF FeedInv, FeedTypeOK
  <2>7. CASE socket' = [socket EXCEPT !.msgs = q]
    <3>1. socket'.msgs = q /\ socket' \in [msgs : Seq(Messages), subs : Int, live : BOOLEAN]
      BY <1>0, <2>5, <2>7
    <3> QED BY <1>0, <2>1, <2>3, <2>4, <3>1 DEF FeedInv, FeedTypeOK
  <2> QED BY <2>4, <2>6, <2>7
<1> QED BY <1>1, <1>2, <1>3, <1>4, <1>5, <1>6, <1>7, <1>8, <1>9, <1>10, <1>11, <1>12 DEF FeedNext

\* Every course's last book is sound, and it is what arrives.
LEMMA InvFollows == FeedInv => BookFollows
<1> SUFFICES ASSUME FeedInv PROVE BookFollows
  OBVIOUS
<1>1. PICK w : Course(book, socket.msgs, w) /\ \A k \in 0 .. Len(socket.msgs) : Sound(w[k], level)
  BY DEF FeedInv, SoundCourse
<1>2. socket.msgs \in Seq(Messages)
  BY DEF FeedInv, FeedTypeOK
<1>3. FoldLeft(Applied, book, socket.msgs) = w[Len(socket.msgs)]
  BY <1>1, <1>2, FoldIsLast
<1>4. Sound(w[Len(socket.msgs)], level)
  <2>1. Len(socket.msgs) \in 0 .. Len(socket.msgs)
    BY <1>2
  <2> QED BY <1>1, <2>1
<1> DEFINE arrived == FoldLeft(Applied, book, socket.msgs)
<1>5. Sound(arrived, level)
  BY <1>3, <1>4
<1> HIDE DEF arrived
<1>6. arrived.has /\ ~arrived.gap /\ arrived.seq = level.seq => arrived.size = level.size
  BY <1>5 DEF Sound
<1> QED BY <1>6 DEF BookFollows, arrived

\* For any sizes and any number of messages, drops and reconnects: once what is on
\* its way has arrived, a book without a gap that has the exchange's number is the
\* exchange's book (wsBookTracker.ts, apply).
THEOREM FeedFollows == FeedSpec => []BookFollows
<1>1. FeedSpec => []FeedInv
  BY FeedStarts, FeedStepKeepsInv, PTL DEF FeedSpec
<1> QED BY <1>1, InvFollows, PTL

(***************************************************************************)
(* The recorder of several tickers.                                        *)
(***************************************************************************)

TickerFiles == Watchlist \X Days

Scans == [running : BOOLEAN, today : Days, tokens : Int]

RecorderTypeOK ==
  /\ scan \in Scans
  /\ queueing \in [Watchlist -> Int] /\ fetching \in [Watchlist -> Int]
  /\ handle \in [Watchlist -> [date : Days, fd : Descriptors]]
  /\ fds \in [Descriptors -> TickerFiles \cup {NoFile, Socket}]
  /\ captured \subseteq Written

\* Every recorder has its own file of its own day open.
Opened(table) == \A t \in Watchlist : table[handle[t].fd] = <<t, handle[t].date>>

RecorderInv ==
  /\ RecorderTypeOK
  /\ scan.running /\ ~openFailed => Opened(fds)
  /\ LinesInOwnFiles

\* A file of a ticker is neither free nor a connection.
LEMMA TickersApart ==
  ASSUME NEW t \in Watchlist, NEW n \in Days
  PROVE  /\ <<t, n>> \in TickerFiles
         /\ <<t, n>> # NoFile /\ <<t, n>> # Socket
  BY PollAssumption DEF TickerFiles, Watchlist, NoFile, Socket

\* open(2): the lowest free descriptor is a free descriptor.
LEMMA LowestIsFree ==
  ASSUME NEW table, NEW n \in Descriptors, table[n] = NoFile
  PROVE  Lowest(table) \in Descriptors /\ table[Lowest(table)] = NoFile
<1> DEFINE free == {k \in Descriptors : table[k] = NoFile}
<1>1. free \in SUBSET Nat /\ free # {}
  BY PollAssumption DEF Descriptors
<1> HIDE DEF free
<1>2. PICK least \in free : \A k \in free : least <= k
  BY <1>1, LeastOfSet
<1>3. least \in Descriptors /\ table[least] = NoFile
      /\ \A k \in Descriptors : table[k] = NoFile => least <= k
  BY <1>2 DEF free
<1> QED BY <1>3 DEF Lowest

LEMMA RecorderStarts == PollInit => RecorderInv
<1> SUFFICES ASSUME PollInit PROVE RecorderInv
  OBVIOUS
<1>1. 1 \in Days /\ Watchlist \subseteq Descriptors
  BY PollAssumption DEF Days, Watchlist, Descriptors
<1>2. handle = [t \in Watchlist |-> [date |-> 1, fd |-> t]] /\ scan \in Scans /\ captured = {}
  BY <1>1 DEF PollInit, Scans
<1>2a. queueing \in [Watchlist -> Int] /\ fetching \in [Watchlist -> Int]
  BY DEF PollInit
<1>3. \A n \in Descriptors : fds[n] = IF n \in Watchlist THEN <<n, 1>> ELSE NoFile
  BY DEF PollInit
<1>4. fds \in [Descriptors -> TickerFiles \cup {NoFile, Socket}]
  BY <1>1 DEF PollInit, TickerFiles
<1>5. RecorderTypeOK
  BY <1>1, <1>2, <1>2a, <1>4 DEF RecorderTypeOK
<1>6. Opened(fds)
  BY <1>1, <1>2, <1>3 DEF Opened
<1>7. LinesInOwnFiles
  BY <1>2 DEF LinesInOwnFiles
<1> QED BY <1>5, <1>6, <1>7 DEF RecorderInv

\* One poll's line, and the rotation before it.
LEMMA AppendKeepsFiles ==
  ASSUME RecorderInv, NEW t \in Watchlist, Appends(t)
  PROVE  RecorderInv'
<1> DEFINE h == handle[t]
           closed == [fds EXCEPT ![h.fd] = NoFile]
           next == Lowest(closed)
<1>0. RecorderTypeOK /\ h \in [date : Days, fd : Descriptors]
  BY DEF RecorderInv, RecorderTypeOK
<1>1a. PICK today \in {scan.today, scan.today + 1} \cap Days : \E r \in Rotated(t, today) :
        LET line == [ticker |-> t, ts |-> scan.today, file |-> r.fds[r.h.fd]]
        IN  /\ fetching' = [fetching EXCEPT ![t] = @ - 1] /\ queueing' = queueing
            /\ scan' = [scan EXCEPT !.today = today]
            /\ fds' = r.fds
            /\ handle' = Kept(t, r.h)
            /\ captured' = IF r.ok /\ line \in Written THEN captured \cup {line} ELSE captured
            /\ openFailed' = (openFailed \/ (~ r.ok /\ r.h # handle[t]))
  BY DEF Appends
<1>1. PICK r \in Rotated(t, today) :
        LET line == [ticker |-> t, ts |-> scan.today, file |-> r.fds[r.h.fd]]
        IN  /\ fetching' = [fetching EXCEPT ![t] = @ - 1] /\ queueing' = queueing
            /\ scan' = [scan EXCEPT !.today = today]
            /\ fds' = r.fds
            /\ handle' = Kept(t, r.h)
            /\ captured' = IF r.ok /\ line \in Written THEN captured \cup {line} ELSE captured
            /\ openFailed' = (openFailed \/ (~ r.ok /\ r.h # handle[t]))
  BY <1>1a
<1> DEFINE line == [ticker |-> t, ts |-> scan.today, file |-> r.fds[r.h.fd]]
<1>2. closed[h.fd] = NoFile /\ closed \in [Descriptors -> TickerFiles \cup {NoFile, Socket}]
  BY <1>0 DEF RecorderTypeOK
<1>3. next \in Descriptors /\ closed[next] = NoFile
  BY <1>0, <1>2, LowestIsFree
<1>4. \/ h.date = today /\ r = [fds |-> fds, h |-> h, ok |-> TRUE]
      \/ h.date # today /\ ~ Open(h.fd) /\ r = [fds |-> fds, h |-> h, ok |-> FALSE]
      \/ h.date # today /\ r = [fds |-> [closed EXCEPT ![next] = <<t, today>>],
                                h |-> [date |-> today, fd |-> next], ok |-> TRUE]
      \/ h.date # today /\ r = [fds |-> closed, h |-> [h EXCEPT !.date = today], ok |-> FALSE]
  BY <1>1 DEF Rotated
<1> HIDE DEF closed, next
<1>5. /\ r.fds \in [Descriptors -> TickerFiles \cup {NoFile, Socket}]
      /\ r.h \in [date : Days, fd : Descriptors]
  <2>1. [closed EXCEPT ![next] = <<t, today>>] \in [Descriptors -> TickerFiles \cup {NoFile, Socket}]
    BY <1>2, <1>3, TickersApart
  <2>2. [date |-> today, fd |-> next] \in [date : Days, fd : Descriptors]
    BY <1>3
  <2>3. [h EXCEPT !.date = today] \in [date : Days, fd : Descriptors]
    BY <1>0
  <2>4. fds \in [Descriptors -> TickerFiles \cup {NoFile, Socket}]
    BY <1>0 DEF RecorderTypeOK
  <2> HIDE DEF h
  <2> QED BY <1>0, <1>2, <1>4, <2>1, <2>2, <2>3, <2>4
<1>6. RecorderTypeOK'
  <2>1. scan' \in Scans
    BY <1>0, <1>1a, <1>1 DEF RecorderTypeOK, Scans
  <2>1a. queueing' \in [Watchlist -> Int] /\ fetching' \in [Watchlist -> Int]
    BY <1>0, <1>1 DEF RecorderTypeOK
  <2>2. handle' \in [Watchlist -> [date : Days, fd : Descriptors]]
    BY <1>0, <1>1, <1>5 DEF Kept, RecorderTypeOK
  <2>3. captured' \subseteq Written
    BY <1>0, <1>1 DEF RecorderTypeOK
  <2> QED BY <1>1, <1>5, <2>1, <2>1a, <2>2, <2>3 DEF RecorderTypeOK
<1>7. SUFFICES ASSUME scan.running, ~openFailed', scan'.running
               PROVE  Opened(fds)' /\ LinesInOwnFiles'
  <2>1. scan'.running = scan.running
    BY <1>0, <1>1 DEF RecorderTypeOK, Scans
  <2> QED BY <1>6, <2>1 DEF RecorderInv, LinesInOwnFiles
<1>8. ~openFailed /\ Opened(fds) /\ (r.ok \/ r.h = handle[t])
  BY <1>1, <1>7 DEF RecorderInv
<1>9. fds[h.fd] = <<t, h.date>> /\ Open(h.fd)
  BY <1>0, <1>8, TickersApart DEF Opened, Open
<1>10. \/ h.date = today /\ r = [fds |-> fds, h |-> h, ok |-> TRUE]
       \/ r = [fds |-> [closed EXCEPT ![next] = <<t, today>>],
               h |-> [date |-> today, fd |-> next], ok |-> TRUE]
  <2>1. ASSUME h.date # today PROVE [h EXCEPT !.date = today] # h
    BY <1>0, <2>1
  <2> QED BY <1>4, <1>8, <1>9, <2>1
<1>11. r.fds[r.h.fd] = <<t, today>> /\ r.h.date = today
  BY <1>2, <1>3, <1>9, <1>10
<1>12. ASSUME NEW u \in Watchlist, u # t
       PROVE  r.fds[handle[u].fd] = <<u, handle[u].date>>
  <2>1. /\ handle[u].fd \in Descriptors /\ handle[u].date \in Days
        /\ fds[handle[u].fd] = <<u, handle[u].date>>
    BY <1>0, <1>8 DEF RecorderTypeOK, Opened
  <2>2. handle[u].fd # h.fd
    BY <1>9, <1>12, <2>1
  <2>3. closed[handle[u].fd] = <<u, handle[u].date>>
    BY <1>0, <2>1, <2>2 DEF closed, RecorderTypeOK
  <2>4. handle[u].fd # next
    BY <1>3, <2>1, <2>3, TickersApart
  <2> QED BY <1>2, <1>3, <1>10, <2>1, <2>3, <2>4
<1>13. Opened(fds)'
  BY <1>0, <1>1, <1>11, <1>12 DEF Opened, Kept, RecorderTypeOK
<1>14. LinesInOwnFiles'
  <2>1. today \in {scan.today, scan.today + 1}
    BY <1>1a
  <2>2. line.ticker = t /\ line.ts = scan.today /\ line.file = <<t, today>>
    BY <1>11
  <2>3. \A w \in captured : w.file[1] = w.ticker /\ w.file[2] \in {w.ts, w.ts + 1}
    BY <1>7, <1>8 DEF RecorderInv, LinesInOwnFiles
  <2>4. captured' \subseteq captured \cup {line}
    BY <1>1
  <2> HIDE DEF line
  <2> QED BY <2>1, <2>2, <2>3, <2>4 DEF LinesInOwnFiles
<1> QED BY <1>13, <1>14

LEMMA RecorderStepKeepsInv == RecorderInv /\ [PollNext]_recording => RecorderInv'
<1> SUFFICES ASSUME RecorderInv, [PollNext]_recording PROVE RecorderInv'
  OBVIOUS
<1>0. RecorderTypeOK
  BY DEF RecorderInv
\* Steps that leave files and recorders alone
<1>1. ASSUME UNCHANGED files, scan' \in Scans, scan'.running = scan.running,
             queueing' \in [Watchlist -> Int], fetching' \in [Watchlist -> Int]
      PROVE  RecorderInv'
  BY <1>1 DEF files, RecorderInv, RecorderTypeOK, Opened, LinesInOwnFiles
<1>2. ASSUME NEW t \in Watchlist, PollStarts(t) PROVE RecorderInv'
  <2>1. UNCHANGED files /\ scan' \in Scans /\ scan'.running = scan.running
    BY <1>0, <1>2 DEF PollStarts, RecorderTypeOK, Scans
  <2>2. queueing' \in [Watchlist -> Int] /\ fetching' \in [Watchlist -> Int]
    BY <1>0, <1>2 DEF PollStarts, RecorderTypeOK
  <2> QED BY <1>1, <2>1, <2>2
<1>3. ASSUME NEW t \in Watchlist, TokenAcquired(t) PROVE RecorderInv'
  <2>1. UNCHANGED files /\ scan' \in Scans /\ scan'.running = scan.running
    BY <1>0, <1>3 DEF TokenAcquired, RecorderTypeOK, Scans
  <2>2. queueing' \in [Watchlist -> Int] /\ fetching' \in [Watchlist -> Int]
    BY <1>0, <1>3 DEF TokenAcquired, RecorderTypeOK
  <2> QED BY <1>1, <2>1, <2>2
<1>4. ASSUME NEW t \in Watchlist, PollFails(t) PROVE RecorderInv'
  <2>1. UNCHANGED files /\ scan' \in Scans /\ scan'.running = scan.running
    BY <1>0, <1>4 DEF PollFails, RecorderTypeOK, Scans
  <2>2. queueing' \in [Watchlist -> Int] /\ fetching' \in [Watchlist -> Int]
    BY <1>0, <1>4 DEF PollFails, RecorderTypeOK
  <2> QED BY <1>1, <2>1, <2>2
<1>5. CASE Refills
  <2>1. UNCHANGED files /\ scan' \in Scans /\ scan'.running = scan.running
    BY <1>0, <1>5 DEF Refills, RecorderTypeOK, Scans
  <2>2. UNCHANGED <<queueing, fetching>>
    BY <1>5 DEF Refills
  <2> QED BY <1>0, <1>1, <2>1, <2>2 DEF RecorderTypeOK
<1>6. CASE DayEnds
  <2>1. UNCHANGED files /\ scan'.running = scan.running
    BY <1>0, <1>6 DEF DayEnds, RecorderTypeOK, Scans
  <2>2. scan' \in Scans
    BY <1>0, <1>6, PollAssumption DEF DayEnds, Days, RecorderTypeOK, Scans
  <2>3. UNCHANGED <<queueing, fetching>>
    BY <1>6 DEF DayEnds
  <2> QED BY <1>0, <1>1, <2>1, <2>2, <2>3 DEF RecorderTypeOK
<1>7. CASE UNCHANGED recording
  BY <1>0, <1>1, <1>7 DEF recording, files, RecorderTypeOK
\* Steps of the process's descriptors
<1>8. CASE Connects
  <2>1. PICK n \in Descriptors : fds[n] = NoFile
    BY <1>8 DEF Connects, polls
  <2>2. Lowest(fds) \in Descriptors /\ fds[Lowest(fds)] = NoFile
    BY <2>1, LowestIsFree
  <2>3. fds' = [fds EXCEPT ![Lowest(fds)] = Socket] /\ UNCHANGED <<polls, handle, captured, openFailed>>
    BY <1>8 DEF Connects, polls
  <2>4. Opened(fds) => Opened(fds)'
    <3> SUFFICES ASSUME Opened(fds), NEW t \in Watchlist
                 PROVE  fds'[handle[t].fd] = <<t, handle[t].date>>
      BY <2>3 DEF Opened, polls
    <3>1. handle[t].fd \in Descriptors /\ handle[t].date \in Days /\ fds[handle[t].fd] = <<t, handle[t].date>>
      BY <1>0 DEF RecorderTypeOK, Opened
    <3>2. handle[t].fd # Lowest(fds)
      BY <2>2, <3>1, TickersApart
    <3> QED BY <1>0, <2>3, <3>1, <3>2 DEF RecorderTypeOK
  <2>5. RecorderTypeOK'
    BY <1>0, <2>2, <2>3 DEF RecorderTypeOK, polls
  <2> QED BY <2>3, <2>4, <2>5 DEF polls, RecorderInv, LinesInOwnFiles
<1>9. CASE HangsUp
  <2>1. PICK n \in Descriptors : fds[n] = Socket /\ fds' = [fds EXCEPT ![n] = NoFile]
    BY <1>9 DEF HangsUp, polls
  <2>2. UNCHANGED <<polls, handle, captured, openFailed>>
    BY <1>9 DEF HangsUp, polls
  <2>4. Opened(fds) => Opened(fds)'
    <3> SUFFICES ASSUME Opened(fds), NEW t \in Watchlist
                 PROVE  fds'[handle[t].fd] = <<t, handle[t].date>>
      BY <2>2 DEF Opened, polls
    <3>1. handle[t].fd \in Descriptors /\ handle[t].date \in Days /\ fds[handle[t].fd] = <<t, handle[t].date>>
      BY <1>0 DEF RecorderTypeOK, Opened
    <3>2. handle[t].fd # n
      BY <2>1, <3>1, TickersApart
    <3> QED BY <1>0, <2>1, <3>1, <3>2 DEF RecorderTypeOK
  <2>5. RecorderTypeOK'
    BY <1>0, <2>1, <2>2 DEF RecorderTypeOK, polls
  <2> QED BY <2>2, <2>4, <2>5 DEF polls, RecorderInv, LinesInOwnFiles
<1>10. CASE StopAll
  <2>1. scan' = [scan EXCEPT !.running = FALSE] /\ UNCHANGED <<queueing, fetching, handle, captured, openFailed>>
    BY <1>10 DEF StopAll
  <2>2. fds' \in [Descriptors -> TickerFiles \cup {NoFile, Socket}]
    BY <1>0, <1>10 DEF StopAll, RecorderTypeOK
  <2>3. scan' \in Scans /\ ~ scan'.running
    BY <1>0, <2>1 DEF RecorderTypeOK, Scans
  <2> QED BY <1>0, <2>1, <2>2, <2>3 DEF RecorderInv, RecorderTypeOK, LinesInOwnFiles
<1> QED BY <1>2, <1>3, <1>4, <1>5, <1>6, <1>7, <1>8, <1>9, <1>10, AppendKeepsFiles DEF PollNext

\* For any number of tickers, polls and days: until openSync has thrown or the recorder
\* is stopped, a line is in the file of its own ticker and of its own day, however polls,
\* midnights and connections of the client are interleaved (recorder.ts, rotate;
\* multiTickerRecorder.ts, poll).
THEOREM LinesAreInOwnFiles == PollSpec => []LinesInOwnFiles
<1>1. RecorderInv => LinesInOwnFiles
  BY DEF RecorderInv
<1> QED BY <1>1, RecorderStarts, RecorderStepKeepsInv, PTL DEF PollSpec
=============================================================================
