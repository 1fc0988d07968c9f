---------------------------- MODULE KalshiClient ----------------------------
(***************************************************************************)
(* One call of the REST client (kalshiClient.ts, retry.ts) and its         *)
(* retries.  A request may be answered, refused, lost, or carried out      *)
(* without an answer, at once or after the client has gone on.  A POST is  *)
(* looked up by its client order id before it is sent again; DELETE and    *)
(* GET are just sent again.  Waiting times are left out: what matters is   *)
(* that the exchange may move on while the client waits.                   *)
(***************************************************************************)
EXTENDS Integers

CONSTANTS
  MaxAttempts,    \* requests that one call may send
  OrderSize       \* shares of the order

ASSUME ClientAssumption == MaxAttempts \in Nat \ {0} /\ OrderSize \in Nat

VARIABLES
  call,       \* the call under way
  site,       \* the exchange's view of the order
  doubt       \* history: a lookup failed, or a request arrived after its lookup

client == <<call, site, doubt>>

Operations == {"create", "cancel", "read"}

\* How fetchChecked ends, but for "ok".  A body that does not parse counts as
\* a network error.
Failures == {"network", "5xx", "429", "4xx"}

\* Which numbers an answer carries; the parser fills in for the others.
Shapes == SUBSET {"count", "fill", "remaining"}

(***************************************************************************)
(*   at      idle, sending, lookup, waiting, returned or threw             *)
(*   attempt requests sent so far                                          *)
(*   result  filledCount of the answer, and truth what was filled then     *)
(*   full    the answer carried enough to know                             *)
(***************************************************************************)
IdleCall ==
  [op |-> "read", at |-> "idle", attempt |-> 0, result |-> 0, truth |-> 0, full |-> FALSE]

\* copies: orders with the call's client order id; flying: requests under way
\* whose sender does not wait for them any more; dedupes: an id is taken once
NoSite == [copies |-> 0, filled |-> 0, canceled |-> FALSE, flying |-> 0, dedupes |-> FALSE]

ClientInit == call = IdleCall /\ site = NoSite /\ doubt = FALSE

-----------------------------------------------------------------------------
(* Pure parts.                                                             *)

Or0(n) == IF n < 0 THEN 0 ELSE n

\* parseOrderResponse: filledCount from what the answer has
FilledCount(shape, filled) ==
  LET requested == IF "count" \in shape THEN OrderSize ELSE 0
      remaining == OrderSize - filled
  IN IF "fill" \in shape THEN filled
     ELSE IF "remaining" \in shape THEN Or0(requested - remaining)
     ELSE 0

Tells(shape) == "fill" \in shape \/ {"count", "remaining"} \subseteq shape

\* shouldRetry and the catch block of createOrder: 4xx fails at once.
Retryable(failure) == failure # "4xx"

\* The POST may have landed.
NeedsLookup(op, failure) == op = "create" /\ failure \in {"network", "5xx"}

LastAttempt == call.attempt = MaxAttempts

-----------------------------------------------------------------------------
(* The exchange.                                                           *)

Taken == site.dedupes /\ site.copies > 0

\* What a request does when it is carried out
CarriedOut(op) ==
  CASE op = "create" -> IF Taken THEN site ELSE [site EXCEPT !.copies = @ + 1]
    [] op = "cancel" -> [site EXCEPT !.canceled = site.filled < OrderSize]
    [] op = "read" -> site

\* A POST with a known id, or a cancel of an order that is done with
Conflicts(op) ==
  \/ op = "create" /\ Taken
  \/ op = "cancel" /\ (site.canceled \/ site.filled = OrderSize)

Fill ==
  /\ site.copies > 0 /\ ~site.canceled /\ site.filled < OrderSize
  /\ site' = [site EXCEPT !.filled = @ + 1]
  /\ UNCHANGED <<call, doubt>>

\* A request that the client has given up on arrives after all, or never.  If a
\* lookup is still to come that finds no other, nothing is amiss.
ArrivesLate ==
  /\ site.flying > 0
  /\ \/ /\ site' = [CarriedOut(call.op) EXCEPT !.flying = @ - 1]
        /\ doubt' = (doubt \/ call.at # "lookup" \/ site.copies > 0)
     \/ site' = [site EXCEPT !.flying = @ - 1] /\ UNCHANGED doubt
  /\ UNCHANGED call

-----------------------------------------------------------------------------
(* The client.                                                             *)

\* createOrder, or withRetry around a GET or a DELETE of a placed order
CallBegins(op) ==
  /\ call.at = "idle"
  /\ call' = [IdleCall EXCEPT !.op = op, !.at = "sending"]
  /\ \E dedupes \in BOOLEAN :
       site' = [NoSite EXCEPT !.copies = IF op = "create" THEN 0 ELSE 1, !.dedupes = dedupes]
  /\ UNCHANGED doubt

Return(s, shape) ==
  call' = [call EXCEPT !.at = "returned", !.result = FilledCount(shape, s.filled),
                       !.truth = s.filled, !.full = Tells(shape)]

\* 2xx with a body that parses.  An order may fill as it is placed.
Answered(shape) ==
  /\ call.at = "sending" /\ ~Conflicts(call.op)
  /\ \E f \in IF call.op = "create" THEN site.filled .. OrderSize ELSE {site.filled} :
       /\ site' = [CarriedOut(call.op) EXCEPT !.filled = f]
       /\ Return([site EXCEPT !.filled = f], shape)
  /\ UNCHANGED doubt

\* What became of a request that failed: refused it was not carried out, after
\* another error it was, was not, or still may be.
Outcomes(failure) ==
  {site} \cup (IF failure \in {"network", "5xx"}
               THEN {CarriedOut(call.op), [site EXCEPT !.flying = @ + 1]} ELSE {})

\* The request fails: fetchChecked throws.
RequestFails(failure) ==
  /\ call.at = "sending"
  /\ site' \in Outcomes(failure)
  /\ call' = [call EXCEPT !.attempt = @ + 1,
                !.at = IF ~Retryable(failure) THEN "threw"
                       ELSE IF NeedsLookup(call.op, failure) THEN "lookup"
                       ELSE IF call.attempt + 1 = MaxAttempts THEN "threw" ELSE "waiting"]
  /\ UNCHANGED doubt

NextAttempt == IF LastAttempt THEN "threw" ELSE "waiting"

\* Mutant: the answer of the lookup is not used.
Lookup_Ignored(shape) ==
  /\ call.at = "lookup"
  /\ call' = [call EXCEPT !.at = NextAttempt]
  /\ UNCHANGED <<site, doubt>>

\* findOrderByClientOrderId; an order that is there is the answer.
Lookup(shape) ==
  /\ call.at = "lookup"
  /\ IF site.copies > 0 THEN Return(site, shape)
     ELSE call' = [call EXCEPT !.at = NextAttempt]
  /\ UNCHANGED <<site, doubt>>

\* Any failure of the lookup is null, like an order that is not there.
LookupFails ==
  /\ call.at = "lookup"
  /\ call' = [call EXCEPT !.at = NextAttempt]
  /\ doubt' = (doubt \/ site.copies > 0)
  /\ UNCHANGED site

\* computeBackoffMs or Retry-After is over.
WaitOver ==
  /\ call.at = "waiting"
  /\ call' = [call EXCEPT !.at = "sending"]
  /\ UNCHANGED <<site, doubt>>

ClientSteps ==
  \/ \E shape \in Shapes : Answered(shape) \/ Lookup(shape)
  \/ \E failure \in Failures : RequestFails(failure)
  \/ LookupFails
  \/ WaitOver

ClientNext ==
  \/ \E op \in Operations : CallBegins(op)
  \/ ClientSteps
  \/ Fill
  \/ ArrivesLate

ClientSpec == ClientInit /\ [][ClientNext]_client

-----------------------------------------------------------------------------
(* What must hold.                                                         *)

ClientTypeOK ==
  /\ call \in [op : Operations, at : {"idle", "sending", "lookup", "waiting", "returned", "threw"},
               attempt : 0 .. MaxAttempts, result : Nat, truth : Nat, full : BOOLEAN]
  /\ site \in [copies : Nat, filled : 0 .. OrderSize, canceled : BOOLEAN, flying : Nat,
               dedupes : BOOLEAN]
  /\ doubt \in BOOLEAN

\* A call places at most one order, however often it is sent ("check by cloid
\* before retrying", kalshiClient.ts:277), unless a lookup failed or the exchange
\* was late.
OneOrderPerCall == call.op = "create" /\ ~doubt => site.copies <= 1

\* The caller learns what happened: a call that returns was carried out and
\* reports the fill, a createOrder that throws left no order behind, unless a
\* lookup failed or the exchange was late.
OutcomeKnown ==
  /\ call.at = "returned" =>
       /\ call.op = "create" => site.copies >= 1
       /\ call.op = "cancel" => site.canceled
       /\ call.full => call.result = call.truth
  /\ call.at = "threw" /\ call.op = "create" /\ ~doubt => site.copies = 0

\* Both together: what a caller of createOrder relies on.
ClientContract == OneOrderPerCall /\ OutcomeKnown
=============================================================================
