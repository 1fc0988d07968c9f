--------------------------------- MODULE Jobs ---------------------------------
(***************************************************************************)
(* The jobs that the processes run.  The HTTP server (server.ts) keeps one *)
(* slot for an exit job, which /start and /resume fill and /stop reaches;  *)
(* everything else runs beside it: the strategies of the server, the jobs  *)
(* of MCP tools and commands.  Every job looks at the guard-rails, or does *)
(* not, when it starts.  What a job does is left to other modules.         *)
(***************************************************************************)
EXTENDS SafetyFile

CONSTANTS
  Runs,         \* [Processes -> the programs that each may run]
  JobIds,       \* jobs at one time
  MaxWaiting    \* bound: requests of one server that wait for their body

VARIABLES
  program,    \* [Processes -> what each runs]
  jobs,       \* [JobIds -> job]
  slot,       \* [Processes -> activeRunner of each that says it runs, or 0]
  waiting,    \* [Processes -> requests whose body is read, after the check of the slot]
  overlap     \* [Processes -> BOOLEAN]: history, two of them waited together

Programs == {"server", "mcp", "cli", "daemon"}

ASSUME JobsAssumption ==
  Runs \in [Processes -> SUBSET Programs] /\ 0 \notin JobIds /\ MaxWaiting \in Nat

serving == <<program, jobs, slot, waiting, overlap>>

\* The runners: the exit runner and the passive runner check the forbidden tickers,
\* the others do not.
Rules == {"exit", "passive", "strategy"}

\* A job that is over, or was refused, leaves its id to another.
NoJob == [by |-> "none", rule |-> "exit", st |-> "none", against |-> FALSE]

JobsInit ==
  /\ SafetyInit
  /\ program = [p \in Processes |-> "none"]
  /\ jobs = [j \in JobIds |-> NoJob]
  /\ slot = [p \in Processes |-> 0]
  /\ waiting = [p \in Processes |-> 0]
  /\ overlap = [p \in Processes |-> FALSE]

\* At work, or only said to be: its first journal lines failed after the status was
\* set, nothing runs and nothing resets it.
Live(j) == jobs[j].st \in {"running", "stopping"}

\* All calls on the files of the guard-rails are synchronous.
Free(p) == program[p] # "none" /\ writer[p].at = "idle"

\* A process is launched; the command that starts the watcher becomes its daemon.
Launches(p, kind) ==
  /\ kind \in Runs[p] /\ program[p] = (IF kind = "daemon" THEN "cli" ELSE "none")
  /\ \A j \in JobIds : jobs[j].by # p
  /\ program' = [program EXCEPT ![p] = kind]
  /\ UNCHANGED <<guarding, jobs, slot, waiting, overlap>>

-----------------------------------------------------------------------------
(* How a job starts.                                                       *)

\* The forbidden tickers are checked first; strategies start anyway.
Admits(rule, t, own) == rule = "strategy" \/ (Readable /\ t \notin Forbidden(own))

\* own: the job's own list; against: it names a ticker that is known forbidden.
Created(p, j, rule, t, st) ==
  /\ jobs[j].st = "none"
  /\ jobs' = [jobs EXCEPT ![j] = [by |-> p, rule |-> rule, st |-> st, against |-> t \in promised]]

-----------------------------------------------------------------------------
(* The server.                                                             *)

\* Mutant: the slot is not looked at.
Asked_Always(p) ==
  /\ Free(p) /\ program[p] = "server" /\ waiting[p] < MaxWaiting
  /\ waiting' = [waiting EXCEPT ![p] = @ + 1]
  /\ overlap' = [overlap EXCEPT ![p] = @ \/ waiting[p] > 0]
  /\ UNCHANGED <<guarding, program, jobs, slot>>

\* POST /start or /resume, up to the await of the body; 409 if a job is running.
Asked(p) ==
  /\ Free(p) /\ program[p] = "server" /\ waiting[p] < MaxWaiting
  /\ slot[p] = 0
  /\ waiting' = [waiting EXCEPT ![p] = @ + 1]
  /\ overlap' = [overlap EXCEPT ![p] = @ \/ waiting[p] > 0]
  /\ UNCHANGED <<guarding, program, jobs, slot>>

\* The body or the configuration is bad: 400 or 500.
Rejected(p) ==
  /\ Free(p) /\ waiting[p] > 0
  /\ waiting' = [waiting EXCEPT ![p] = @ - 1]
  /\ UNCHANGED <<guarding, program, jobs, slot, overlap>>

\* The runner is made and runs up to its first await, which decides whether it is
\* refused; the answer is 202 either way.  (A configuration that forbids its own
\* ticker is rejected before.)
Launched(p, j, t) ==
  /\ Free(p) /\ waiting[p] > 0
  /\ waiting' = [waiting EXCEPT ![p] = @ - 1]
  /\ IF Admits("exit", t, {})
     THEN /\ \E st \in {"running", "stuck"} : Created(p, j, "exit", t, st)
          /\ slot' = [slot EXCEPT ![p] = j]
     ELSE /\ slot' = [slot EXCEPT ![p] = 0]
          /\ UNCHANGED jobs
  /\ UNCHANGED <<guarding, program, overlap>>

\* POST /stop
StopAsked(p) ==
  /\ Free(p) /\ slot[p] # 0 /\ jobs[slot[p]].st = "running"
  /\ jobs' = [jobs EXCEPT ![slot[p]].st = "stopping"]
  /\ UNCHANGED <<guarding, program, slot, waiting, overlap>>

-----------------------------------------------------------------------------
(* Beside the slot.                                                        *)

\* A strategy of any surface, or the exit job of a tool or a command.
Started(p, j, rule, t, own) ==
  /\ Free(p) /\ (rule = "exit" => program[p] # "server")
  /\ Admits(rule, t, own) /\ Created(p, j, rule, t, "running")
  /\ UNCHANGED <<guarding, program, slot, waiting, overlap>>

\* A job comes to its end.
Ends(j) ==
  /\ Live(j)
  /\ jobs' = [jobs EXCEPT ![j] = NoJob]
  /\ slot' = [p \in Processes |-> IF slot[p] = j THEN 0 ELSE slot[p]]
  /\ UNCHANGED <<guarding, program, waiting, overlap>>

\* A process dies with all its jobs, and can be launched again.
Dies(p) ==
  /\ program[p] # "none"
  /\ program' = [program EXCEPT ![p] = "none"]
  /\ jobs' = [j \in JobIds |-> IF jobs[j].by = p THEN NoJob ELSE jobs[j]]
  /\ slot' = [slot EXCEPT ![p] = 0]
  /\ waiting' = [waiting EXCEPT ![p] = 0]
  /\ overlap' = [overlap EXCEPT ![p] = FALSE]
  /\ writer' = [writer EXCEPT ![p] = NotWriting]
  /\ UNCHANGED <<disk, promised, mixed>>

\* What a process does without being asked for anything else
Background(p) == Rejected(p) \/ Dies(p) \/ \E kind \in Programs : Launches(p, kind)

JobsNext ==
  \/ \E p \in Processes :
       \/ program[p] # "none" /\ Guards(p) /\ UNCHANGED serving
       \/ Asked(p) \/ StopAsked(p) \/ Background(p)
       \/ \E j \in JobIds, t \in Tickers :
            \/ Launched(p, j, t)
            \/ \E rule \in Rules, own \in SUBSET Tickers : Started(p, j, rule, t, own)
  \/ \E j \in JobIds : Ends(j)

JobsSpec == JobsInit /\ [][JobsNext]_<<guarding, serving>>

-----------------------------------------------------------------------------
(* What must hold.                                                         *)

JobsTypeOK ==
  /\ SafetyTypeOK
  /\ program \in [Processes -> Programs \cup {"none"}]
  /\ jobs \in [JobIds -> [by : Processes \cup {"none"}, rule : Rules, against : BOOLEAN,
                          st : {"none", "running", "stopping", "stuck"}]]
  /\ slot \in [Processes -> JobIds \cup {0}]
  /\ waiting \in [Processes -> Nat]
  /\ overlap \in [Processes -> BOOLEAN]

\* The exit job at work in a server is the one in its slot, so that /stop and /status
\* reach it, unless two requests to start overlapped between the check of the slot
\* and the end of the body.
SlotTruthful ==
  \A p \in Processes : program[p] = "server" /\ ~overlap[p] =>
    \A j \in JobIds : jobs[j].by = p /\ jobs[j].rule = "exit" /\ Live(j) => slot[p] = j

\* Whichever process forbade a ticker and whatever died since: once the addition was
\* acknowledged, no exit job and no passive run starts on it, in any process, unless
\* two processes were writing the guard-rails at the same time.
ForbiddenRefused ==
  ~mixed => /\ ForbidKept
            /\ \A j \in JobIds : jobs[j].rule # "strategy" => ~jobs[j].against
=============================================================================
