----------------------------- MODULE PollRecorder -----------------------------
(***************************************************************************)
(* `record start` over REST (backtest/multiTickerRecorder.ts): a timer per *)
(* ticker starts a poll, whether or not the last one is over; a poll waits *)
(* for a token, fetches the book and appends a line to the ticker's file   *)
(* of the UTC day (backtest/recorder.ts).  All of it is one process, so    *)
(* the recorders share its file descriptors: openSync returns the lowest   *)
(* one that is free, and a number kept too long may be another's file.     *)
(*                                                                         *)
(* Books and prices are left out.                                          *)
(***************************************************************************)
EXTENDS Integers

CONSTANTS
  Scanned,       \* how many tickers the ticker file lists
  MaxPolls,      \* bound: polls of a ticker under way
  ScanDays       \* bound: UTC days

ASSUME PollAssumption ==
  Scanned \in Nat \ {0} /\ MaxPolls \in Nat \ {0} /\ ScanDays \in Nat \ {0}

VARIABLES
  scan,       \* the timers, the bucket, and the UTC day
  queueing,   \* [Watchlist -> polls that wait for a token]
  fetching,   \* [Watchlist -> polls that wait for the book]
  handle,     \* [Watchlist -> currentDate and fd of its Recorder]
  fds,        \* [Descriptors -> the file that each refers to]
  captured,   \* the lines in the files
  openFailed  \* history: openSync has thrown

recording == <<scan, queueing, fetching, handle, fds, captured, openFailed>>

Watchlist == 1 .. Scanned
Days == 1 .. ScanDays

\* Bound: one per ticker and two for connections of the client
Descriptors == 1 .. Scanned + 2

\* A file is <<ticker, day>>, in its name.
NoFile == <<0, 0>>
Socket == <<0, 1>>

\* A line: the ticker and the day that it has, and the file it is in
Written == [ticker : Watchlist, ts : Days, file : Watchlist \X Days]

Open(n) == fds[n] # NoFile

Lowest(table) ==
  CHOOSE n \in Descriptors : table[n] = NoFile /\ \A k \in Descriptors : table[k] = NoFile => n <= k

\* createMultiTickerRecorder opens the files one after the other.
PollInit ==
  /\ scan = [running |-> TRUE, today |-> 1, tokens |-> 1]
  /\ queueing = [t \in Watchlist |-> 0] /\ fetching = [t \in Watchlist |-> 0]
  /\ handle = [t \in Watchlist |-> [date |-> 1, fd |-> t]]
  /\ fds = [n \in Descriptors |-> IF n \in Watchlist THEN <<n, 1>> ELSE NoFile]
  /\ captured = {}
  /\ openFailed = FALSE

-----------------------------------------------------------------------------
(* The timers and the bucket.                                              *)

files == <<handle, fds, captured, openFailed>>
polls == <<scan, queueing, fetching>>

\* setInterval, and the first poll of start()
PollStarts(t) ==
  /\ scan.running /\ queueing[t] + fetching[t] < MaxPolls
  /\ queueing' = [queueing EXCEPT ![t] = @ + 1]
  /\ UNCHANGED <<scan, fetching, files>>

\* acquireToken: the polls that wait look again after a while, in no order.
TokenAcquired(t) ==
  /\ queueing[t] > 0 /\ scan.tokens > 0
  /\ queueing' = [queueing EXCEPT ![t] = @ - 1]
  /\ fetching' = [fetching EXCEPT ![t] = @ + 1]
  /\ scan' = [scan EXCEPT !.tokens = @ - 1]
  /\ UNCHANGED files

\* Bound: the bucket holds one token.
Refills ==
  /\ scan.tokens = 0
  /\ scan' = [scan EXCEPT !.tokens = 1]
  /\ UNCHANGED <<queueing, fetching, files>>

\* getOrderbook rejects: the poll notes it as lastError.
PollFails(t) ==
  /\ fetching[t] > 0
  /\ fetching' = [fetching EXCEPT ![t] = @ - 1]
  /\ UNCHANGED <<scan, queueing, files>>

\* The client connects when a poll needs it, and the exchange hangs up at will.
Connects ==
  /\ \E n \in Descriptors : fds[n] = NoFile
  /\ fds' = [fds EXCEPT ![Lowest(fds)] = Socket]
  /\ UNCHANGED <<polls, handle, captured, openFailed>>

HangsUp ==
  /\ \E n \in Descriptors : fds[n] = Socket /\ fds' = [fds EXCEPT ![n] = NoFile]
  /\ UNCHANGED <<polls, handle, captured, openFailed>>

-----------------------------------------------------------------------------
(* appendSnapshot and rotate.                                              *)

\* What rotate() may leave: the descriptors, the recorder's own and whether it returned.
\* closeSync throws on a descriptor that is not open.  currentDate is set before the new
\* file is opened, so that is not tried again when it fails.
Rotated(t, today) ==
  LET h == handle[t]
      closed == [fds EXCEPT ![h.fd] = NoFile]
      next == Lowest(closed)
  IN  CASE h.date = today -> {[fds |-> fds, h |-> h, ok |-> TRUE]}
        [] h.date # today /\ ~ Open(h.fd) -> {[fds |-> fds, h |-> h, ok |-> FALSE]}
        [] OTHER -> {[fds |-> [closed EXCEPT ![next] = <<t, today>>],
                      h |-> [date |-> today, fd |-> next], ok |-> TRUE],
                     [fds |-> closed, h |-> [h EXCEPT !.date = today], ok |-> FALSE]}

\* Mutant: currentDate is a variable of the module, shared by the recorders.
Kept_Shared(t, h) ==
  [u \in Watchlist |-> IF u = t THEN h ELSE [handle[u] EXCEPT !.date = h.date]]

\* currentDate and fd belong to the recorder of the ticker.
Kept(t, h) == [handle EXCEPT ![t] = h]

\* The line is stamped before rotate() looks at the clock again.  What rotate() or
\* writeSync throws is the poll's lastError.
Appends(t) ==
  \E today \in {scan.today, scan.today + 1} \cap Days :
    \E r \in Rotated(t, today) :
      LET line == [ticker |-> t, ts |-> scan.today, file |-> r.fds[r.h.fd]]
      IN  /\ fetching[t] > 0
          /\ fetching' = [fetching EXCEPT ![t] = @ - 1]
          /\ scan' = [scan EXCEPT !.today = today]
          /\ queueing' = queueing
          /\ fds' = r.fds
          /\ handle' = Kept(t, r.h)
          /\ captured' = IF r.ok /\ line \in Written THEN captured \cup {line} ELSE captured
          /\ openFailed' = (openFailed \/ (~ r.ok /\ r.h # handle[t]))

DayEnds ==
  /\ scan.today < ScanDays
  /\ scan' = [scan EXCEPT !.today = @ + 1]
  /\ UNCHANGED <<queueing, fetching, files>>

\* stopAll, on SIGINT or SIGTERM.  Polls under way go on.
StopAll ==
  /\ scan.running
  /\ scan' = [scan EXCEPT !.running = FALSE]
  /\ fds' = [n \in Descriptors |-> IF \E t \in Watchlist : handle[t].fd = n THEN NoFile ELSE fds[n]]
  /\ UNCHANGED <<queueing, fetching, handle, captured, openFailed>>

PollNext ==
  \/ \E t \in Watchlist :
       PollStarts(t) \/ TokenAcquired(t) \/ PollFails(t) \/ Appends(t)
  \/ Refills \/ Connects \/ HangsUp \/ DayEnds \/ StopAll

PollSpec == PollInit /\ [][PollNext]_recording

-----------------------------------------------------------------------------
\* However the polls of the tickers overlap with each other, with midnight and with the
\* connections of the client, a line is in the file of its own ticker and of the day it
\* was stamped or rotated, until openSync fails at a midnight or the recorder is
\* stopped: from then on it writes to, and closes, numbers that may be another's.
LinesInOwnFiles ==
  scan.running /\ ~ openFailed =>
    \A w \in captured : w.file[1] = w.ticker /\ w.file[2] \in {w.ts, w.ts + 1}
=============================================================================
