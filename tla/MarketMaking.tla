---------------------------- MODULE MarketMaking ----------------------------
(***************************************************************************)
(* The market maker (sMarketMake.ts): a bid on "yes" and an ask on "no",   *)
(* one share each, read in turn, replaced when the market moves, and an    *)
(* inventory that is brought back to its target at the cap.  Prices are    *)
(* abstracted: whether a quote is stale is a free choice.                  *)
(***************************************************************************)
EXTENDS Market

CONSTANTS
  Targets,      \* targetInventory
  Caps,         \* maxInventory
  MaxQuotes     \* bound: quotes that are posted

\* The constructor refuses a negative target.
ASSUME MakerAssumption == Targets \subseteq Nat /\ Caps \subseteq Nat /\ MaxQuotes \in Nat

MakerJobs ==
  {[kind |-> "maker", target |-> t, cap |-> c, inventory |-> t, quoted |-> {}, known |-> {},
    posts |-> 0, missed |-> 0, stopped |-> FALSE, status |-> "running"] : t \in Targets, c \in Caps}

MakerInit ==
  /\ MarketInit /\ pc = "book"
  /\ job \in {j \in MakerJobs : j.target < j.cap}

\* quoted: legs with a quote; known: those whose fill has been counted
Signed(l) == IF l = "yes" THEN 1 ELSE -1

\* The inventory that the fills really amount to
TrueInventory == job.target + traded["yes"] - traded["no"]

MakerBook ==
  /\ job.kind = "maker" /\ pc = "book" /\ ~job.stopped
  /\ \/ pc' = "yes" /\ UNCHANGED <<job, live, stray, traded, lost>>
     \/ Finish(job, "empty_book") /\ Cancel(job.quoted)

\* Mutant: a fill is counted again at every look.
Counted_Again(l, j) ==
  IF l \in j.quoted /\ Complete(live[l])
  THEN [j EXCEPT !.known = @ \cup {l}, !.inventory = @ + Signed(l)]
  ELSE j

\* The fill of a quote is counted when it is first seen.
Counted(l, j) ==
  IF l \in j.quoted \ j.known /\ Complete(live[l])
  THEN [j EXCEPT !.known = @ \cup {l}, !.inventory = @ + Signed(l)]
  ELSE j

MakerRead(l, next) ==
  /\ job.kind = "maker" /\ pc = l
  /\ pc' = next /\ job' = Counted(l, job)
  /\ UNCHANGED market

\* An IOC order of at most n shares brings the inventory back.
Flatten(l, n) ==
  \E f \in 0 .. n :
    /\ traded' = [traded EXCEPT ![l] = @ + f]
    /\ job' = [job EXCEPT !.inventory = @ + Signed(l) * f]
    /\ UNCHANGED <<live, stray, lost>>

AtCap(j, sign) == sign * j.inventory >= j.cap

\* Fills of a quote that have not been read (history, when it is given up)
Unread(j, l) == IF l \in j.quoted \ j.known THEN live[l].got ELSE 0

GivenUp(j, l) == [j EXCEPT !.quoted = @ \ {l}, !.known = @ \ {l}, !.missed = @ + Unread(j, l)]

\* The quote of the full side is canceled; the other one stays.
MakerCapped ==
  /\ job.kind = "maker" /\ pc = "cap"
  /\ \/ AtCap(job, 1) /\ Cancel({"yes"} \cap job.quoted)
        /\ pc' = "sell" /\ job' = GivenUp(job, "yes")
     \/ AtCap(job, -1) /\ Cancel({"no"} \cap job.quoted)
        /\ pc' = "buy" /\ job' = GivenUp(job, "no")
     \/ ~AtCap(job, 1) /\ ~AtCap(job, -1) /\ pc' = "quote_yes"
        /\ UNCHANGED <<job, live, stray, traded, lost>>

MakerFlatten ==
  /\ job.kind = "maker"
  /\ \/ pc = "sell" /\ Flatten("no", Monus(job.inventory, job.target))
     \/ pc = "buy" /\ Flatten("yes", Monus(job.target, job.inventory))
  /\ pc' = "book"

\* Where the maker is when it looks at the quote of a leg
Quoting(l) == IF l = "yes" THEN "quote_yes" ELSE "quote_no"

\* A quote at the desired price is kept; a stale one is canceled, what it has
\* filled since it was read is not looked at, and a new one is posted.
MakerQuote(l, next) ==
  /\ job.kind = "maker"
  /\ \/ /\ pc = Quoting(l) /\ l \in job.quoted
        /\ \/ pc' = next /\ UNCHANGED <<job, live, stray, traded, lost>>
           \/ Cancel({l}) /\ pc' = Quoting(l) /\ job' = GivenUp(job, l)
     \/ /\ pc = Quoting(l) /\ l \notin job.quoted
        /\ job.posts < MaxQuotes
        /\ Rest(l, 1) /\ pc' = next
        /\ job' = [job EXCEPT !.quoted = @ \cup {l}, !.posts = @ + 1]

\* Any call that throws ends the run and leaves the quotes that rest.
MakerThrows ==
  /\ job.kind = "maker" /\ pc /= "done"
  /\ Finish(job, "error")
  /\ UNCHANGED market \/ CancelLost \/ \E l \in Legs : pc = Quoting(l) /\ PostLost(l, 1)

\* Mutant: the quotes are left on the book.
MakerStop_Leaves ==
  /\ job.kind = "maker" /\ pc = "book" /\ job.stopped
  /\ Finish(job, "caller_stopped")
  /\ UNCHANGED market

MakerStop ==
  /\ job.kind = "maker" /\ pc = "book" /\ job.stopped
  /\ Finish(job, "caller_stopped")
  /\ Cancel(job.quoted)

MakerNext ==
  \/ MakerBook
  \/ MakerRead("yes", "no") \/ MakerRead("no", "cap")
  \/ MakerCapped \/ MakerFlatten
  \/ MakerQuote("yes", "quote_no") \/ MakerQuote("no", "book")
  \/ MakerStop \/ MakerThrows
  \/ job.kind = "maker" /\ Stop

-----------------------------------------------------------------------------
\* However fills, flattening and replaced quotes interleave, the inventory that
\* the maker keeps account of never leaves its cap on either side, and is off by
\* no more than the fills it has not read: those of quotes it still has, and
\* those of quotes it has given up.
InventoryKept ==
  job.kind = "maker" =>
    LET drift == TrueInventory - job.inventory
        unread == job.missed + Unread(job, "yes") + Unread(job, "no")
    IN /\ -job.cap <= job.inventory /\ job.inventory <= job.cap
       /\ ~lost => -unread <= drift /\ drift <= unread
=============================================================================
