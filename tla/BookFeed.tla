------------------------------ MODULE BookFeed ------------------------------
(***************************************************************************)
(* The websocket recorder: a connection that the caller reopens            *)
(* (wsRecorder.ts), a socket that delivers messages in order (wsClient.ts) *)
(* and the book that is kept from a snapshot and its deltas                *)
(* (wsBookTracker.ts).  One ticker, and of its book the size of one level. *)
(* Frames, signatures and the pause file are left out.                     *)
(***************************************************************************)
EXTENDS Integers, SequencesExt

CONSTANTS
  MaxLevel,     \* largest size of the level
  MaxSeq,       \* bound: messages that the exchange numbers
  MaxStarts     \* bound: calls of start()

ASSUME FeedAssumption == MaxLevel \in Nat /\ MaxSeq \in Nat /\ MaxStarts \in Nat

VARIABLES
  feed,      \* the recorder
  socket,    \* messages on their way, subscribe commands not yet handled, and
             \* whether one was
  level,     \* the exchange's book: size and number of the last message
  book,      \* the tracker's book
  tape       \* size in the last snapshot written, or -1

feeding == <<feed, socket, level, book, tape>>

(***************************************************************************)
(*   conn      none, connecting, subscribing or up                         *)
(*   timer     a reconnect is due                                          *)
(*   emitting  the interval that writes snapshots is set                   *)
(*   closed    the recorder file is closed                                 *)
(***************************************************************************)
IdleFeed ==
  [conn |-> "none", timer |-> FALSE, emitting |-> FALSE, stopping |-> FALSE, closed |-> FALSE,
   starts |-> 0]

NoBook == [has |-> FALSE, size |-> 0, seq |-> 0, gap |-> FALSE]

FeedInit ==
  /\ feed = IdleFeed
  /\ socket = [msgs |-> <<>>, subs |-> 0, live |-> FALSE]
  /\ level = [size |-> 0, seq |-> 1]
  /\ book = NoBook
  /\ tape = -1

Ack == [type |-> "subscribed"]
Snapshot(size, seq) == [type |-> "snapshot", size |-> size, seq |-> seq]
Delta(change, seq) == [type |-> "delta", change |-> change, seq |-> seq]

-----------------------------------------------------------------------------
(* The tracker.                                                            *)

\* Mutant: only a message out of order is a gap.
AfterDelta_Ordered(b, m) ==
  [b EXCEPT !.size = @ + m.change, !.seq = m.seq, !.gap = @ \/ m.seq <= b.seq]

\* A gap is counted; the delta is applied and its number kept all the same.
AfterDelta(b, m) ==
  [b EXCEPT !.size = @ + m.change, !.seq = m.seq, !.gap = @ \/ m.seq /= b.seq + 1]

\* apply(): a snapshot replaces the book, a delta without one is dropped.
Applied(b, m) ==
  CASE m.type = "snapshot" -> [has |-> TRUE, size |-> m.size, seq |-> m.seq, gap |-> FALSE]
    [] m.type = "delta" /\ b.has -> AfterDelta(b, m)
    [] OTHER -> b

-----------------------------------------------------------------------------
(* The connection.                                                         *)

NoSocket == socket' = [msgs |-> <<>>, subs |-> 0, live |-> FALSE]

Connecting(f) == feed' = [f EXCEPT !.conn = "connecting"]

\* start(), which its callers call once the recorder is idle
Start ==
  /\ feed.conn = "none" /\ ~feed.timer /\ feed.starts < MaxStarts
  /\ Connecting([feed EXCEPT !.stopping = FALSE, !.starts = @ + 1])
  /\ UNCHANGED <<socket, level, book, tape>>

\* The socket is open and subscribe() is sent.
Connected ==
  /\ feed.conn = "connecting"
  /\ feed' = [feed EXCEPT !.conn = "subscribing"]
  /\ socket' = [msgs |-> <<>>, subs |-> 1, live |-> FALSE]
  /\ UNCHANGED <<level, book, tape>>

\* connectAndSubscribe returns FALSE, and nobody looks at it.
ConnectFails ==
  /\ feed.conn = "connecting"
  /\ feed' = [feed EXCEPT !.conn = "none"]
  /\ UNCHANGED <<socket, level, book, tape>>

\* onClose: unless the recorder is being stopped, a timer is set for the next
\* attempt.  The books stay as they are.
Disconnects ==
  /\ feed.conn \in {"subscribing", "up"}
  /\ feed' = IF feed.stopping THEN [feed EXCEPT !.conn = "none"]
             ELSE [feed EXCEPT !.conn = "none", !.emitting = FALSE, !.timer = TRUE]
  /\ NoSocket
  /\ UNCHANGED <<level, book, tape>>

\* The timer does not look whether the recorder was stopped meanwhile.
TimerFires ==
  /\ feed.timer /\ feed.conn = "none"
  /\ Connecting([feed EXCEPT !.timer = FALSE])
  /\ UNCHANGED <<socket, level, book, tape>>

\* stop() or a signal closes the recorder and the socket that is open.
StopFeed ==
  /\ feed.starts > 0 /\ ~feed.stopping
  /\ feed' = [feed EXCEPT !.stopping = TRUE, !.emitting = FALSE, !.closed = TRUE,
                          !.conn = IF @ = "connecting" THEN @ ELSE "none"]
  /\ NoSocket
  /\ UNCHANGED <<level, book, tape>>

\* A message arrives: every one goes to the tracker, the acknowledgment also
\* ends subscribe(), which sets the interval.
Receives ==
  /\ socket.msgs /= <<>>
  /\ book' = Applied(book, Head(socket.msgs))
  /\ socket' = [socket EXCEPT !.msgs = Tail(@)]
  /\ feed' = IF Head(socket.msgs).type = "subscribed" /\ feed.conn = "subscribing"
             THEN [feed EXCEPT !.conn = "up", !.emitting = TRUE] ELSE feed
  /\ UNCHANGED <<level, tape>>

\* Mutant: the book is dropped, and no other is asked for.
Stale_Forgets ==
  /\ feed.conn \in {"subscribing", "up"} /\ book.has /\ ~feed.stopping
  /\ socket.msgs = <<>>
  /\ book' = NoBook
  /\ UNCHANGED <<feed, socket, level, tape>>

\* checkStaleness: no message for a minute, so the book is dropped and the ticker
\* subscribed to again.  A ticker without a book is not looked at.
Stale ==
  /\ feed.conn \in {"subscribing", "up"} /\ book.has /\ ~feed.stopping
  /\ socket.msgs = <<>>
  /\ book' = NoBook
  /\ socket' = [socket EXCEPT !.subs = @ + 1]
  /\ UNCHANGED <<feed, level, tape>>

\* The interval writes the book that there is.
Emit ==
  /\ feed.emitting /\ book.has /\ ~feed.closed
  /\ tape' = book.size
  /\ UNCHANGED <<feed, socket, level, book>>

-----------------------------------------------------------------------------
(* The exchange.                                                           *)

\* It acknowledges a subscription and sends the book.
Subscribes ==
  /\ socket.subs > 0
  /\ socket' = [msgs |-> socket.msgs \o <<Ack, Snapshot(level.size, level.seq)>>,
                subs |-> socket.subs - 1, live |-> TRUE]
  /\ UNCHANGED <<feed, level, book, tape>>

\* The book changes; the message may be dropped before it is sent.
LevelChanges(size) ==
  /\ level.seq < MaxSeq /\ size /= level.size
  /\ level' = [size |-> size, seq |-> level.seq + 1]
  /\ LET m == Delta(size - level.size, level.seq + 1)
     IN socket' \in {socket} \cup
          (IF socket.live THEN {[socket EXCEPT !.msgs = Append(@, m)]} ELSE {})
  /\ UNCHANGED <<feed, book, tape>>

FeedNext ==
  \/ Start \/ Connected \/ ConnectFails \/ Disconnects \/ TimerFires \/ StopFeed
  \/ Receives \/ Stale \/ Emit \/ Subscribes
  \/ \E size \in 0 .. MaxLevel : LevelChanges(size)

\* Messages arrive, the exchange answers, and checkStaleness runs on an interval.
FeedFairness == WF_feeding(Receives) /\ WF_feeding(Subscribes) /\ WF_feeding(Stale)

FeedSpec == FeedInit /\ [][FeedNext]_feeding /\ FeedFairness

-----------------------------------------------------------------------------
(* What must hold.                                                         *)

\* Once what is on its way has arrived, the tracker's book is the exchange's,
\* unless the tracker has seen a gap since the snapshot, a message was dropped last,
\* or the socket is down (then the book is what it was): dropped messages show.
BookFollows ==
  LET arrived == FoldLeft(Applied, book, socket.msgs)
  IN feed.conn = "up" /\ arrived.has /\ ~arrived.gap /\ arrived.seq = level.seq =>
       arrived.size = level.size

\* While the connection stays up a wrong book does not last: when the messages that
\* would show it are dropped and the market is quiet, the ticker is resubscribed to
\* ("Drop local state and re-subscribe", wsRecorder.ts:211).
BookRepaired ==
  <>[](feed.conn = "up" /\ ~feed.stopping) => []<>(book.has /\ book.size = level.size)
=============================================================================
