----------------------------- MODULE JobJournal -----------------------------
(***************************************************************************)
(* The journal of one job (journal.ts), by what its readers make of it.    *)
(* Every reader folds over the lines, so the file is represented by the    *)
(* record of the folds, and a line by what it does to them.  An order is   *)
(* known by one id here: its client order id and the exchange's order id   *)
(* name each other.                                                        *)
(***************************************************************************)
EXTENDS Integers, FiniteSets

CONSTANT Ids        \* ids of orders

Journals ==
  [intents    : SUBSET Ids,       \* have an order_intent line
   placed     : SUBSET Ids,       \* have an order_placed line
   reconciled : SUBSET Ids,       \* have an order_reconciled line
   fills      : [Ids -> Nat],     \* last fill of an order in a reconciled line
   filled     : Int,              \* computeFilledTotal: the sum of fills
   finished   : BOOLEAN]          \* the last line is loop_finished

EmptyJournal ==
  [intents |-> {}, placed |-> {}, reconciled |-> {},
   fills |-> [id \in Ids |-> 0], filled |-> 0, finished |-> FALSE]

PendingIntents(j) == j.intents \ j.placed

\* A resume_reconciled line does not take an order off this list.
PendingOrders(j) == j.placed \ j.reconciled

Intent(j, id) == [j EXCEPT !.intents = @ \cup {id}]

Placed(j, id) == [j EXCEPT !.placed = @ \cup {id}]

\* Mutant: the fills of an order add up over its lines.
Fill_Adds(j, id, n) == [j EXCEPT !.fills[id] = @ + n, !.filled = @ + n]

\* The last fill of an order replaces earlier ones.
Fill(j, id, n) == [j EXCEPT !.fills[id] = n, !.filled = @ - j.fills[id] + n]

Reconciled(j, id, n) == [Fill(j, id, n) EXCEPT !.reconciled = @ \cup {id}]

ResumeReconciled(j, id, n) == Fill(j, id, n)

Finished(j) == [j EXCEPT !.finished = TRUE]
=============================================================================
