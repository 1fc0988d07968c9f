------------------------------ MODULE SafetyFile ------------------------------
(***************************************************************************)
(* The guard-rails (safety.ts): safety.json, which every process of the    *)
(* system reads and replaces by writing safety.json.tmp and renaming it.   *)
(* All processes use the same name for it, and nothing locks the files.  A *)
(* process can die, or meet a disk error, between any two steps.  Of the   *)
(* file only the forbidden tickers matter here.                            *)
(***************************************************************************)
EXTENDS Integers

CONSTANTS
  Processes,     \* servers, commands and daemons on one KEA_HOME
  Tickers,
  Inodes         \* files; 0 is none

ASSUME InodesAssumption == 0 \notin Inodes

VARIABLES
  disk,          \* what the two names refer to, and what the files contain
  writer,        \* [Processes -> what each is writing]
  promised,      \* history: tickers whose addition was acknowledged
  mixed          \* history: two processes were writing at the same time

guarding == <<disk, writer, promised, mixed>>

Texts == [state : {"empty", "whole", "torn"}, banned : SUBSET Tickers]
Text(state, banned) == [state |-> state, banned |-> banned]

NotWriting == [at |-> "idle", op |-> "set", named |-> {}, wants |-> {}, inode |-> 0]

SafetyInit ==
  /\ disk = [target |-> 0, tmp |-> 0, data |-> [i \in Inodes |-> Text("empty", {})]]
  /\ writer = [p \in Processes |-> NotWriting]
  /\ promised = {} /\ mixed = FALSE

\* readSafetyFile: without the file the defaults, which forbid nothing; a file
\* that does not parse throws.
Current ==
  IF disk.target \in Inodes THEN disk.data[disk.target] ELSE Text("whole", {})

Readable == Current.state = "whole"

-----------------------------------------------------------------------------
(* setSafety, addForbiddenTicker, removeForbiddenTicker.                   *)

\* The list that a writer will write; a patch leaves the list alone.
NewList(op, named) ==
  CASE op = "add" -> Current.banned \cup named
    [] op = "remove" -> Current.banned \ named
    [] OTHER -> Current.banned

\* What the call accepts: a ticker that is not listed yet, or one that is.
Accepts(op, named) ==
  CASE op = "add" -> named \cap Current.banned = {}
    [] op = "remove" -> named \subseteq Current.banned
    [] OTHER -> TRUE

\* A remove is not acknowledged before it can take effect.
Begins(p, op, named) ==
  /\ writer[p].at = "idle" /\ Readable /\ Accepts(op, named)
  /\ writer' = [writer EXCEPT ![p] = [at |-> "begun", op |-> op, named |-> named,
                                      wants |-> NewList(op, named), inode |-> 0]]
  /\ promised' = IF op = "remove" THEN promised \ named ELSE promised
  /\ mixed' = (mixed \/ \E q \in Processes \ {p} : writer[q].at # "idle")
  /\ UNCHANGED disk

Unused(i) == i # disk.target /\ i # disk.tmp /\ \A q \in Processes : writer[q].inode # i

\* Mutant: the file itself is opened and written.
Opens_InPlace(p) ==
  /\ writer[p].at = "begun"
  /\ \E i \in Inodes :
       /\ i = disk.target \/ (disk.target = 0 /\ Unused(i))
       /\ disk' = [disk EXCEPT !.target = i, !.tmp = i, !.data[i] = Text("empty", {})]
       /\ writer' = [writer EXCEPT ![p].at = "opened", ![p].inode = i]
  /\ UNCHANGED <<promised, mixed>>

\* The temporary file is opened: an existing one is truncated.
Opens(p) ==
  /\ writer[p].at = "begun"
  /\ \E i \in Inodes :
       /\ i = disk.tmp \/ (disk.tmp = 0 /\ Unused(i))
       /\ disk' = [disk EXCEPT !.tmp = i, !.data[i] = Text("empty", {})]
       /\ writer' = [writer EXCEPT ![p].at = "opened", ![p].inode = i]
  /\ UNCHANGED <<promised, mixed>>

\* Over the text of another writer, the longer text keeps its end.
Writes(p) ==
  /\ writer[p].at = "opened"
  /\ LET i == writer[p].inode
     IN \E state \in {"whole"} \cup (IF disk.data[i].state = "empty" THEN {} ELSE {"torn"}) :
          disk' = [disk EXCEPT !.data[i] = Text(state, writer[p].wants)]
  /\ writer' = [writer EXCEPT ![p].at = "written"]
  /\ UNCHANGED <<promised, mixed>>

\* The file that is replaced is gone.
Unlinked == [i \in Inodes |-> IF i = disk.target THEN Text("empty", {}) ELSE disk.data[i]]

\* Whatever the temporary name refers to now becomes the file; if another writer
\* has renamed it the call throws.
Renames(p) ==
  /\ writer[p].at = "written"
  /\ IF disk.tmp = 0
     THEN writer' = [writer EXCEPT ![p] = NotWriting] /\ UNCHANGED disk
     ELSE /\ disk' = [target |-> disk.tmp, tmp |-> 0, data |-> Unlinked]
          /\ writer' = [writer EXCEPT ![p].at = "renamed", ![p].inode = 0]
  /\ UNCHANGED <<promised, mixed>>

\* The audit line is written and the call returns.
Audits(p) ==
  /\ writer[p].at = "renamed"
  /\ promised' = IF writer[p].op = "add" THEN promised \cup writer[p].named ELSE promised
  /\ writer' = [writer EXCEPT ![p] = NotWriting]
  /\ UNCHANGED <<disk, mixed>>

\* The process dies, or a disk error ends the call.
GivesUp(p) ==
  /\ writer[p].at # "idle"
  /\ writer' = [writer EXCEPT ![p] = NotWriting]
  /\ UNCHANGED <<disk, promised, mixed>>

\* What a process does with the file
Guards(p) ==
  \/ \E t \in Tickers : Begins(p, "add", {t}) \/ Begins(p, "remove", {t})
  \/ Begins(p, "set", {})
  \/ Opens(p) \/ Writes(p) \/ Renames(p) \/ Audits(p) \/ GivesUp(p)

SafetyNext == \E p \in Processes : Guards(p)

SafetySpec == SafetyInit /\ [][SafetyNext]_guarding

-----------------------------------------------------------------------------
(* Decisions taken from the file.                                          *)

\* mergeIntoExitConfig: the job's own list and the persisted one.
Forbidden(own) == own \cup Current.banned

-----------------------------------------------------------------------------
(* What must hold.                                                         *)

SafetyTypeOK ==
  /\ disk \in [target : Inodes \cup {0}, tmp : Inodes \cup {0}, data : [Inodes -> Texts]]
  /\ writer \in [Processes -> [at : {"idle", "begun", "opened", "written", "renamed"},
                               op : {"set", "add", "remove"}, named : SUBSET Tickers,
                               wants : SUBSET Tickers, inode : Inodes \cup {0}]]
  /\ promised \in SUBSET Tickers
  /\ mixed \in BOOLEAN

\* The file can always be read and lists every ticker whose addition was
\* acknowledged ("atomic tmp+rename pattern", safety.ts:4), whatever dies, unless two
\* processes were writing at the same time.
ForbidKept == ~mixed => Readable /\ promised \subseteq Current.banned
=============================================================================
