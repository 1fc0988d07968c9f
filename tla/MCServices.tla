------------------------------ MODULE MCServices ------------------------------
(***************************************************************************)
(* The services around the runners, one at a time: a call of the REST      *)
(* client, a buy job, the websocket feed, the processes with their jobs    *)
(* and guard-rails, the micro harness, the recorder and its sync.  Init    *)
(* chooses which; the others stay as they began.                           *)
(***************************************************************************)
EXTENDS KalshiClient, BuyRunner, BookFeed, Surfaces, MicroHarness, RecordingSync,
  PollRecorder, TLC

CONSTANTS p1, p2, t1, d1, d2

VARIABLE part    \* the service that runs

MCRuns == (p1 :> {"server"}) @@ (p2 :> {"mcp", "cli", "daemon"})

surfacing == <<guarding, serving>>

vars == <<part, client, buying, feeding, surfacing, trialing, syncing, recording>>

Init ==
  /\ part \in {"client", "buy", "feed", "surfaces", "micro", "sync", "poll"}
  /\ ClientInit /\ BuyInit /\ FeedInit /\ JobsInit /\ MicroInit /\ SyncInit
  /\ PollInit

\* Bound: when two processes have been writing at once nothing more is claimed.
Processing == ~mixed /\ SurfacesNext

\* Bound: nor once the recorder's descriptors may be those of others.
Scanning == scan.running /\ ~openFailed /\ PollNext

Next ==
  /\ UNCHANGED part
  /\ \/ part = "client" /\ ClientNext
        /\ UNCHANGED <<buying, feeding, surfacing, trialing, syncing, recording>>
     \/ part = "buy" /\ BuyNext
        /\ UNCHANGED <<client, feeding, surfacing, trialing, syncing, recording>>
     \/ part = "feed" /\ FeedNext
        /\ UNCHANGED <<client, buying, surfacing, trialing, syncing, recording>>
     \/ part = "surfaces" /\ Processing
        /\ UNCHANGED <<client, buying, feeding, trialing, syncing, recording>>
     \/ part = "micro" /\ MicroNext
        /\ UNCHANGED <<client, buying, feeding, surfacing, syncing, recording>>
     \/ part = "sync" /\ SyncNext
        /\ UNCHANGED <<client, buying, feeding, surfacing, trialing, recording>>
     \/ part = "poll" /\ Scanning
        /\ UNCHANGED <<client, buying, feeding, surfacing, trialing, syncing>>

\* Of the fairness of the parts only the feed's is needed.
Spec == Init /\ [][Next]_vars /\ (part = "feed" => FeedFairness)
=============================================================================
