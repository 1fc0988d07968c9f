------------------------------- MODULE Surfaces -------------------------------
(***************************************************************************)
(* The requests of the HTTP server (server.ts), the MCP server (mcp.ts)    *)
(* and the command line (cli.ts) that change the jobs or the guard-rails:  *)
(*   start, stop        the slot of the server                             *)
(*   exit               runs an exit job to its end                        *)
(*   passive, strategy  runs a strategy whose every order goes through the *)
(*                      passive runner, or any other; none asks anybody to *)
(*                      confirm it                                         *)
(*   add, remove, set   changes the guard-rails                            *)
(*   daemon             makes a watcher, and serves nothing else           *)
(* Every other request leaves both alone and is left out: it reads, writes *)
(* files that no job reads, or asks a watcher, a workflow engine or a      *)
(* policy engine, none of which a process that serves requests ever makes. *)
(* So are arguments, their validation and all output.                      *)
(***************************************************************************)
EXTENDS Jobs

ServerSlot == [start |-> "start", resume |-> "start", stop |-> "stop"]

ServerStrategies ==
  [aggressive |-> "strategy", stealth |-> "strategy", limitLadder |-> "strategy",
   stopAndReverse |-> "strategy", roll |-> "strategy", prependThenSweep |-> "strategy",
   twap |-> "passive"]

ServerStrategiesOn ==
  [preResolutionArb |-> "strategy", cashRaise |-> "strategy", iceberg |-> "strategy",
   timeEmergency |-> "strategy", pair |-> "strategy"]

ServerPaired == [basisArb |-> "strategy", marketMake |-> "strategy"]

\* POST /strategies/run, by the name in the body: it knows four.
ServerRun ==
  [aggressive |-> "strategy", pair |-> "strategy", basisArb |-> "strategy",
   marketMake |-> "strategy"]

ServerGuards == [forbid |-> "add", allow |-> "remove"]

-----------------------------------------------------------------------------
McpGuards == [safetySet |-> "set", forbiddenAdd |-> "add", forbiddenRemove |-> "remove"]

McpStrategies ==
  [aggressive |-> "strategy", stealth |-> "strategy", limitLadder |-> "strategy",
   stopAndReverse |-> "strategy", roll |-> "strategy"]

McpStrategiesOn ==
  [prependThenSweep |-> "strategy", twap |-> "passive", preResolutionArb |-> "strategy",
   cashRaise |-> "strategy"]

McpSliced == [iceberg |-> "strategy", timeEmergency |-> "strategy", pair |-> "strategy"]

McpPaired == [basisArb |-> "strategy", marketMake |-> "strategy"]

\* kea_strategy_run, by the name among its arguments
McpRun ==
  [aggressive |-> "strategy", stealth |-> "strategy", pair |-> "strategy",
   preResolutionArb |-> "strategy", limitLadder |-> "strategy"]

McpRunOn ==
  [stopAndReverse |-> "strategy", cashRaise |-> "strategy", roll |-> "strategy",
   iceberg |-> "strategy", basisArb |-> "strategy", prependThenSweep |-> "strategy",
   timeEmergency |-> "strategy", twap |-> "passive", marketMake |-> "strategy"]

McpResume == [resume |-> "exit"]

-----------------------------------------------------------------------------
CliExits == [start |-> "exit", resume |-> "exit"]

CliWatch == [start |-> "daemon"]

CliGuards == [set |-> "set", forbiddenAdd |-> "add", forbiddenRemove |-> "remove"]

CliStrategies ==
  [aggressive |-> "strategy", stealth |-> "strategy", limitLadder |-> "strategy",
   stopAndReverse |-> "strategy", roll |-> "strategy", prependThenSweep |-> "strategy",
   twap |-> "passive"]

CliStrategiesOn ==
  [preResolutionArb |-> "strategy", cashRaise |-> "strategy", iceberg |-> "strategy",
   timeEmergency |-> "strategy", pair |-> "strategy"]

CliPaired == [basisArb |-> "strategy", marketMake |-> "strategy"]

-----------------------------------------------------------------------------
Kinds(table) == {table[op] : op \in DOMAIN table}

OfServer ==
  UNION {Kinds(t) : t \in {ServerSlot, ServerStrategies, ServerStrategiesOn, ServerPaired,
                           ServerRun, ServerGuards}}

OfMcp ==
  UNION {Kinds(t) : t \in {McpGuards, McpStrategies, McpStrategiesOn, McpSliced, McpPaired,
                           McpRun, McpRunOn, McpResume}}

\* main(): the command is looked up by its name.
OfCli ==
  UNION {Kinds(t) : t \in {CliExits, CliWatch, CliGuards, CliStrategies, CliStrategiesOn,
                           CliPaired}}

\* The daemon serves nobody: its watcher fires exit jobs.
Offered ==
  [server |-> OfServer, mcp |-> OfMcp, cli |-> OfCli, daemon |-> {"exit"}, none |-> {}]

-----------------------------------------------------------------------------
(* What a request comes to.                                                *)

Changes ==
  {"start", "stop", "exit", "passive", "strategy", "add", "remove", "set", "daemon"}

JobRuns(p, rule) ==
  \E j \in JobIds, t \in Tickers, own \in SUBSET Tickers :
    (rule # "exit" => own = {}) /\ Started(p, j, rule, t, own)

GuardsChange(p, op) ==
  /\ Free(p) /\ UNCHANGED serving
  /\ IF op = "set" THEN Begins(p, op, {}) ELSE \E t \in Tickers : Begins(p, op, {t})

Serves(p, kind) ==
  CASE kind = "start" -> Asked(p)
    [] kind = "stop" -> StopAsked(p)
    [] kind \in Rules -> JobRuns(p, kind)
    [] kind \in {"add", "remove", "set"} -> GuardsChange(p, kind)
    [] kind = "daemon" -> Launches(p, "daemon")

\* What goes on without a request
GoesOn(p) ==
  \/ Rejected(p) \/ Dies(p)
  \/ \E kind \in Programs \ {"daemon"} : Launches(p, kind)
  \/ \E j \in JobIds, t \in Tickers : Launched(p, j, t)
  \/ (Opens(p) \/ Writes(p) \/ Renames(p) \/ Audits(p) \/ GivesUp(p)) /\ UNCHANGED serving

SurfacesNext ==
  \/ \E p \in Processes : \E kind \in Offered[program[p]] \cap Changes : Serves(p, kind)
  \/ \E p \in Processes : GoesOn(p)
  \/ \E j \in JobIds : Ends(j)
=============================================================================
