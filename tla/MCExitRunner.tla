---------------------------- MODULE MCExitRunner ----------------------------
(* Instances of ExitRunner for model checking. *)
EXTENDS ExitRunner

Job(tif, tail, preflight, cancelOnStale) ==
  [size |-> 3, chunks |-> {2}, sweep |-> 1, maxOrders |-> 3, multiple |-> 15,
   tif |-> tif, tail |-> tail, preflight |-> preflight, cancelOnStale |-> cancelOnStale]

MixedJobs ==
  {Job("ioc", FALSE, FALSE, TRUE), Job("ioc", TRUE, FALSE, TRUE), Job("ioc", FALSE, TRUE, TRUE),
   Job("fok", FALSE, FALSE, TRUE), Job("gtc", TRUE, FALSE, TRUE), Job("gtc", FALSE, FALSE, FALSE)}
PreflightJobs == {Job("ioc", FALSE, TRUE, TRUE)}
TailJobs == {Job("ioc", TRUE, TRUE, TRUE)}
=============================================================================
