----------------------------- MODULE MicroHarness -----------------------------
(***************************************************************************)
(* The micro harness (microHarness/, cli.ts): small live trials, one at a  *)
(* time or in a sweep, under a cap for each trial and a cap for the day.   *)
(* What was spent is summed over the journals of all trials; between that  *)
(* and the line that counts the trial, the operator is asked to confirm.   *)
(* The clock is read twice, for the trial (startedAt) and for the sum, and *)
(* the journals are read in between: midnight may pass before, between and *)
(* after these.  What a trial trades is left to the runners.               *)
(***************************************************************************)
EXTENDS Integers

CONSTANTS
  Desks,          \* processes: each runs one trial or one sweep at a time
  Notionals,      \* dollars that a trial may ask for; 0 stands for all that are invalid
  TrialCap,       \* perTrialCapDollars
  DailyCap,       \* dailyAggregateCapDollars
  LastDay,        \* bound: days
  MaxSweep        \* bound: trials of a sweep

ASSUME MicroAssumption ==
  /\ Notionals \subseteq Nat /\ TrialCap \in Nat /\ DailyCap \in Nat
  /\ LastDay \in Nat \ {0} /\ MaxSweep \in Nat

VARIABLES
  desk,       \* [Desks -> the trial or sweep of each]
  day,        \* the UTC day
  spent,      \* [days -> dollars of the micro_trial_started lines of that day]
  raced,      \* [days -> BOOLEAN]: history, a trial was counted that another's sum lacks
  misdated    \* [days -> BOOLEAN]: history, a trial was counted that was let through on
              \* the sum of another day

trialing == <<desk, day, spent, raced, misdated>>

(***************************************************************************)
(*   at      idle, due, started, loaded, gated, executing                  *)
(*   left    trials of the sweep after this one                            *)
(*   day     of startedAt, by which the trial will be counted              *)
(*   seen    what each day had spent when the journals were read           *)
(*   summed  the day that the gate summed                                  *)
(***************************************************************************)
Nothing == [n \in 1 .. LastDay |-> 0]

NoTrial == [at |-> "idle", left |-> 0, notional |-> 0, day |-> 0, seen |-> Nothing, summed |-> 0]

MicroInit ==
  /\ desk = [d \in Desks |-> NoTrial]
  /\ day = 1
  /\ spent = Nothing
  /\ raced = [n \in 1 .. LastDay |-> FALSE]
  /\ misdated = [n \in 1 .. LastDay |-> FALSE]

\* Mutant: the trial itself is left out.
GateTrial_Spent(configured, notional, listed, sum) ==
  /\ configured /\ notional > 0
  /\ notional <= TrialCap
  /\ sum < DailyCap
  /\ listed

\* gateTrial: safety.json has the section, the ticker is on its list.
GateTrial(configured, notional, listed, sum) ==
  /\ configured /\ notional > 0
  /\ notional <= TrialCap
  /\ sum + notional <= DailyCap
  /\ listed

\* cmdMicro: a trial, or a sweep whose trials ask for the same.
MicroBegins(d, left, notional) ==
  /\ desk[d].at = "idle"
  /\ desk' = [desk EXCEPT ![d] = [NoTrial EXCEPT !.at = "due", !.left = left,
                                                 !.notional = notional]]
  /\ UNCHANGED <<day, spent, raced, misdated>>

\* runSweep goes on with the next trial, after a delay.
NextTrial(d) ==
  IF desk[d].left = 0 THEN NoTrial
  ELSE [NoTrial EXCEPT !.at = "due", !.left = desk[d].left - 1, !.notional = desk[d].notional]

\* runTrial takes startedAt.
TrialStarted(d) ==
  /\ desk[d].at = "due"
  /\ desk' = [desk EXCEPT ![d] = [@ EXCEPT !.at = "started", !.day = day]]
  /\ UNCHANGED <<day, spent, raced, misdated>>

\* loadAllJournalEntries
JournalsLoaded(d) ==
  /\ desk[d].at = "started"
  /\ desk' = [desk EXCEPT ![d] = [@ EXCEPT !.at = "loaded", !.seen = spent]]
  /\ UNCHANGED <<day, spent, raced, misdated>>

\* sumDailySpent of what was read and of the day it is now; a rejection ends the sweep.
Gated(d, configured, listed) ==
  /\ desk[d].at = "loaded"
  /\ desk' = [desk EXCEPT ![d] =
                IF GateTrial(configured, @.notional, listed, @.seen[day])
                THEN [@ EXCEPT !.at = "gated", !.summed = day]
                ELSE NoTrial]
  /\ UNCHANGED <<day, spent, raced, misdated>>

\* The operator types the ticker: the line that counts the trial is written.
Confirmed(d) ==
  /\ desk[d].at = "gated"
  /\ desk' = [desk EXCEPT ![d] = [@ EXCEPT !.at = "executing", !.seen = Nothing, !.summed = 0]]
  /\ LET n == desk[d].day
     IN /\ spent' = [spent EXCEPT ![n] = @ + desk[d].notional]
        /\ raced' = [raced EXCEPT ![n] = @ \/ spent[n] # desk[d].seen[n]]
        /\ misdated' = [misdated EXCEPT ![n] = @ \/ n # desk[d].summed]
  /\ UNCHANGED day

\* Anything else, or no terminal: the sweep goes on.
Declined(d) ==
  /\ desk[d].at = "gated"
  /\ desk' = [desk EXCEPT ![d] = NextTrial(d)]
  /\ UNCHANGED <<day, spent, raced, misdated>>

\* The runner returns or throws, as it does at once for a strategy that is not
\* wired; either way the trial has been counted and the sweep goes on.
Executed(d) ==
  /\ desk[d].at = "executing"
  /\ desk' = [desk EXCEPT ![d] = NextTrial(d)]
  /\ UNCHANGED <<day, spent, raced, misdated>>

DeskDies(d) ==
  /\ desk[d].at # "idle"
  /\ desk' = [desk EXCEPT ![d] = NoTrial]
  /\ UNCHANGED <<day, spent, raced, misdated>>

Midnight ==
  /\ day < LastDay
  /\ day' = day + 1
  /\ UNCHANGED <<desk, spent, raced, misdated>>

MicroNext ==
  \/ \E d \in Desks :
       \/ \E left \in 0 .. MaxSweep - 1, notional \in Notionals : MicroBegins(d, left, notional)
       \/ TrialStarted(d) \/ JournalsLoaded(d)
       \/ \E configured, listed \in BOOLEAN : Gated(d, configured, listed)
       \/ Confirmed(d) \/ Declined(d) \/ Executed(d) \/ DeskDies(d)
  \/ Midnight

MicroSpec == MicroInit /\ [][MicroNext]_trialing

-----------------------------------------------------------------------------
(* What must hold.                                                         *)

\* The trials of a day stay within the daily cap, through sweeps, declined and
\* failed trials, deaths and midnights, unless the line of another trial was written
\* after the journals were read, or a midnight between the two readings of the clock
\* let a trial of the day through on the sum of the next.
DailyCapKept == \A n \in DOMAIN spent : ~raced[n] /\ ~misdated[n] => spent[n] <= DailyCap

\* What the gate says of its sum, "the sum of `maxNotionalDollars` from all trials in
\* the current UTC day" (trial.ts:83): a trial by itself keeps its day within the cap.
\* False: a trial that starts before midnight and sums after it is counted on the
\* day before, which it did not sum.
CapThroughMidnight == \A n \in DOMAIN spent : ~raced[n] => spent[n] <= DailyCap
=============================================================================
