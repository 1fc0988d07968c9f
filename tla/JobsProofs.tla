------------------------------ MODULE JobsProofs ------------------------------
(***************************************************************************)
(* Proofs about the guard-rails and the jobs: for any processes, tickers,  *)
(* files and jobs, with processes that die anywhere.  As long as no two    *)
(* processes have been writing at the same time, the file behind           *)
(* safety.json is whole and the one under the temporary name is another.   *)
(***************************************************************************)
EXTENDS Surfaces, TLAPS

(***************************************************************************)
(* The inductive invariant of the guard-rails.                             *)
(***************************************************************************)

\* At most one process writes.
Alone ==
  \A p, q \in Processes : p # q /\ writer[p].at # "idle" => writer[q].at = "idle"

\* What is under way will not lose a promise, and is written beside the file.
Sound(p) ==
  /\ writer[p].at \in {"begun", "opened", "written"} =>
       /\ promised \subseteq writer[p].wants
       /\ writer[p].op = "add" => writer[p].named \subseteq writer[p].wants
  /\ writer[p].at \in {"opened", "written"} =>
       writer[p].inode = disk.tmp /\ disk.tmp \in Inodes
  /\ writer[p].at = "opened" => disk.data[disk.tmp].state = "empty"
  /\ writer[p].at = "written" => disk.data[disk.tmp] = Text("whole", writer[p].wants)
  /\ writer[p].at = "renamed" /\ writer[p].op = "add" =>
       writer[p].named \subseteq Current.banned

Kept == Readable /\ promised \subseteq Current.banned

Apart == disk.tmp # 0 => disk.tmp # disk.target

Quiet == Alone /\ Kept /\ Apart /\ \A p \in Processes : Sound(p)

SafetyInv == SafetyTypeOK /\ (~mixed => Quiet)

-----------------------------------------------------------------------------
(* Types.                                                                  *)

Writers ==
  [at : {"idle", "begun", "opened", "written", "renamed"}, op : {"set", "add", "remove"},
   named : SUBSET Tickers, wants : SUBSET Tickers, inode : Inodes \cup {0}]

Disks == [target : Inodes \cup {0}, tmp : Inodes \cup {0}, data : [Inodes -> Texts]]

\* The type invariant in parts.
LEMMA SafetyTypes ==
  SafetyTypeOK <=> /\ disk \in Disks /\ writer \in [Processes -> Writers]
                   /\ promised \in SUBSET Tickers /\ mixed \in BOOLEAN
BY DEF SafetyTypeOK, Disks, Writers

\* What the file says is a list of tickers.
LEMMA CurrentTyped == ASSUME disk \in Disks PROVE Current.banned \in SUBSET Tickers
BY DEF Current, Disks, Texts, Text

\* The idle writer is a writer.
LEMMA IdleTyped == NotWriting \in Writers
BY DEF NotWriting, Writers

\* Each field of a writer can be changed alone.
LEMMA WriterAt ==
  ASSUME NEW w \in Writers, NEW a \in {"idle", "begun", "opened", "written", "renamed"},
         NEW i \in Inodes \cup {0}
  PROVE  /\ [w EXCEPT !.at = a] \in Writers
         /\ [w EXCEPT !.at = a, !.inode = i] \in Writers
BY DEF Writers

-----------------------------------------------------------------------------
(* Initially.                                                              *)

\* Nothing is written at first, and nothing promised.
LEMMA SafetyInitInv == ASSUME SafetyInit PROVE SafetyInv
<1>1. SafetyTypeOK
  BY IdleTyped, SafetyTypes DEF SafetyInit, Disks, Texts, Text
<1>2. Current = Text("whole", {})
  BY InodesAssumption DEF SafetyInit, Current
<1>3. \A p \in Processes : writer[p].at = "idle"
  BY Zenon DEF SafetyInit, NotWriting
<1>4. Quiet
  BY <1>2, <1>3 DEF SafetyInit, Quiet, Alone, Kept, Apart, Sound, Readable, Text
<1> QED BY <1>1, <1>4 DEF SafetyInv

-----------------------------------------------------------------------------
(* Every step.                                                             *)

\* A call begins.
LEMMA BeginsInv ==
  ASSUME SafetyInv, NEW p \in Processes, NEW op \in {"set", "add", "remove"},
         NEW named \in SUBSET Tickers, Begins(p, op, named)
  PROVE  SafetyInv'
<1> DEFINE w == [at |-> "begun", op |-> op, named |-> named,
                 wants |-> NewList(op, named), inode |-> 0]
<1>1. /\ disk \in Disks /\ writer \in [Processes -> Writers] /\ promised \in SUBSET Tickers
      /\ mixed \in BOOLEAN
  BY SafetyTypes DEF SafetyInv
<1>2. /\ writer[p].at = "idle" /\ Readable /\ disk' = disk
      /\ writer' = [writer EXCEPT ![p] = w]
      /\ promised' = IF op = "remove" THEN promised \ named ELSE promised
      /\ mixed' = (mixed \/ \E q \in Processes \ {p} : writer[q].at # "idle")
  BY DEF Begins
<1>3. NewList(op, named) \in SUBSET Tickers
  BY <1>1, CurrentTyped DEF NewList
<1>4. w \in Writers
  BY <1>3 DEF Writers
<1>5. SafetyTypeOK'
  <2>1. writer' \in [Processes -> Writers]
    BY <1>1, <1>2, <1>4
  <2>2. promised' \in SUBSET Tickers /\ mixed' \in BOOLEAN /\ disk' \in Disks
    BY <1>1, <1>2
  <2> QED BY <2>1, <2>2 DEF SafetyTypeOK, Writers, Disks
<1>6. Current' = Current
  BY <1>2 DEF Current
<1>7. ASSUME ~mixed' PROVE Quiet'
  <2>1. Quiet /\ \A q \in Processes \ {p} : writer[q].at = "idle"
    BY <1>2, <1>7 DEF SafetyInv
  <2>2. \A q \in Processes \ {p} : writer'[q].at = "idle"
    BY <1>1, <1>2, <2>1
  <2>3. writer'[p] = w
    BY <1>1, <1>2
  <2>4. Alone'
    BY <2>2 DEF Alone
  <2>5. promised' \subseteq promised /\ promised' \subseteq w.wants
    BY <1>2, <2>1 DEF Quiet, Kept, NewList
  <2>6. Kept'
    BY <1>2, <1>6, <2>1, <2>5 DEF Quiet, Kept, Readable
  <2>7. Apart'
    BY <1>2, <2>1 DEF Quiet, Apart
  <2>8. Sound(p)'
    <3>1. op = "add" => named \subseteq NewList(op, named)
      BY DEF NewList
    <3> QED BY <2>3, <2>5, <3>1 DEF Sound
  <2>9. \A q \in Processes : Sound(q)'
    BY <2>2, <2>8 DEF Sound
  <2> QED BY <2>4, <2>6, <2>7, <2>9 DEF Quiet
<1> QED BY <1>5, <1>7 DEF SafetyInv

\* The temporary file is not the file that is read.
LEMMA OpensInv ==
  ASSUME SafetyInv, NEW p \in Processes, Opens(p)
  PROVE  SafetyInv'
<1>1. /\ disk \in Disks /\ writer \in [Processes -> Writers] /\ promised \in SUBSET Tickers
      /\ mixed \in BOOLEAN
  BY SafetyTypes DEF SafetyInv
<1>2. PICK i \in Inodes :
        /\ i = disk.tmp \/ (disk.tmp = 0 /\ Unused(i))
        /\ disk' = [disk EXCEPT !.tmp = i, !.data[i] = Text("empty", {})]
        /\ writer' = [writer EXCEPT ![p].at = "opened", ![p].inode = i]
  BY Zenon DEF Opens
<1>3. writer[p].at = "begun" /\ promised' = promised /\ mixed' = mixed
  BY DEF Opens
<1>4. writer'[p] = [writer[p] EXCEPT !.at = "opened", !.inode = i]
  BY <1>1, <1>2
<1>5. \A q \in Processes \ {p} : writer'[q] = writer[q]
  BY <1>1, <1>2
<1>6. /\ disk'.target = disk.target /\ disk'.tmp = i
      /\ disk'.data = [disk.data EXCEPT ![i] = Text("empty", {})]
  BY <1>1, <1>2 DEF Disks
<1>7. SafetyTypeOK'
  <2>1. Text("empty", {}) \in Texts
    BY DEF Text, Texts
  <2>2. disk' \in Disks
    BY <1>1, <1>2, <2>1 DEF Disks
  <2>3. writer' \in [Processes -> Writers]
    BY Zenon, <1>1, <1>2, WriterAt
  <2> QED BY <1>1, <1>3, <2>2, <2>3 DEF SafetyTypeOK, Writers, Disks
<1>8. ASSUME ~mixed' PROVE Quiet'
  <2>1. Quiet
    BY <1>3, <1>8 DEF SafetyInv
  <2>2. i # disk.target
    BY <1>2, <2>1, InodesAssumption DEF Quiet, Apart, Unused
  <2>3. Current' = Current
    BY <1>1, <1>6, <2>2 DEF Current, Disks
  <2>4. \A q \in Processes \ {p} : writer'[q].at = "idle"
    BY <1>3, <1>5, <2>1 DEF Quiet, Alone
  <2>5. Alone'
    BY <2>4 DEF Alone
  <2>6. Kept'
    BY <1>3, <2>1, <2>3 DEF Quiet, Kept, Readable
  <2>7. Apart'
    BY <1>6, <2>2 DEF Apart
  <2>8. Sound(p)'
    <3>1. /\ writer'[p].at = "opened" /\ writer'[p].inode = i
          /\ writer'[p].wants = writer[p].wants /\ writer'[p].op = writer[p].op
          /\ writer'[p].named = writer[p].named
      BY <1>1, <1>4 DEF Writers
    <3>2. disk'.data[i] = Text("empty", {})
      BY <1>1, <1>6 DEF Disks
    <3>3. /\ promised \subseteq writer[p].wants
          /\ writer[p].op = "add" => writer[p].named \subseteq writer[p].wants
      BY <1>3, <2>1 DEF Quiet, Sound
    <3> QED BY <1>3, <1>6, <3>1, <3>2, <3>3 DEF Sound, Text
  <2>9. \A q \in Processes : Sound(q)'
    BY <2>4, <2>8 DEF Sound
  <2> QED BY <2>5, <2>6, <2>7, <2>9 DEF Quiet
<1> QED BY <1>7, <1>8 DEF SafetyInv

\* The temporary file was empty, so it holds the whole list now.
LEMMA WritesInv ==
  ASSUME SafetyInv, NEW p \in Processes, Writes(p)
  PROVE  SafetyInv'
<1> DEFINE i == writer[p].inode
<1>1. /\ disk \in Disks /\ writer \in [Processes -> Writers] /\ promised \in SUBSET Tickers
      /\ mixed \in BOOLEAN
  BY SafetyTypes DEF SafetyInv
<1>2. PICK state \in {"whole"} \cup (IF disk.data[i].state = "empty" THEN {} ELSE {"torn"}) :
        disk' = [disk EXCEPT !.data[i] = Text(state, writer[p].wants)]
  BY DEF Writes
<1>3. /\ writer[p].at = "opened" /\ promised' = promised /\ mixed' = mixed
      /\ writer' = [writer EXCEPT ![p].at = "written"]
  BY DEF Writes
<1>4. writer'[p] = [writer[p] EXCEPT !.at = "written"]
  BY <1>1, <1>3
<1>5. \A q \in Processes \ {p} : writer'[q] = writer[q]
  BY <1>1, <1>3
<1>6. /\ disk'.target = disk.target /\ disk'.tmp = disk.tmp
      /\ disk'.data = [disk.data EXCEPT ![i] = Text(state, writer[p].wants)]
  BY <1>1, <1>2 DEF Disks
<1>7. SafetyTypeOK'
  <2>1. Text(state, writer[p].wants) \in Texts
    BY <1>1, <1>2 DEF Text, Texts, Writers
  <2>2. disk' \in Disks
    BY Zenon, <1>1, <1>2, <2>1 DEF Disks
  <2>3. writer' \in [Processes -> Writers]
    BY Zenon, <1>1, <1>3, WriterAt
  <2> QED BY <1>1, <1>3, <2>2, <2>3 DEF SafetyTypeOK, Writers, Disks
<1>8. ASSUME ~mixed' PROVE Quiet'
  <2>1. Quiet
    BY <1>3, <1>8 DEF SafetyInv
  <2>2. i = disk.tmp /\ disk.tmp \in Inodes /\ disk.data[i].state = "empty"
    BY <1>3, <2>1 DEF Quiet, Sound
  <2>3. i # disk.target
    BY <2>1, <2>2, InodesAssumption DEF Quiet, Apart
  <2>4. Current' = Current
    BY <1>1, <1>6, <2>3 DEF Current, Disks
  <2>5. \A q \in Processes \ {p} : writer'[q].at = "idle"
    BY <1>3, <1>5, <2>1 DEF Quiet, Alone
  <2>6. Alone'
    BY <2>5 DEF Alone
  <2>7. Kept'
    BY <1>3, <2>1, <2>4 DEF Quiet, Kept, Readable
  <2>8. Apart'
    BY <1>6, <2>1 DEF Quiet, Apart
  <2>9. Sound(p)'
    <3>1. /\ writer'[p].at = "written" /\ writer'[p].inode = i
          /\ writer'[p].wants = writer[p].wants /\ writer'[p].op = writer[p].op
          /\ writer'[p].named = writer[p].named
      BY <1>1, <1>4 DEF Writers
    <3>2. state = "whole"
      BY <1>2, <2>2
    <3>3. disk'.data[disk'.tmp] = Text("whole", writer'[p].wants)
      BY <1>1, <1>6, <2>2, <3>1, <3>2 DEF Disks
    <3>4. /\ promised \subseteq writer[p].wants
          /\ writer[p].op = "add" => writer[p].named \subseteq writer[p].wants
      BY <1>3, <2>1 DEF Quiet, Sound
    <3> QED BY <1>3, <1>6, <2>2, <3>1, <3>3, <3>4 DEF Sound
  <2>10. \A q \in Processes : Sound(q)'
    BY <2>5, <2>9 DEF Sound
  <2> QED BY <2>6, <2>7, <2>8, <2>10 DEF Quiet
<1> QED BY <1>7, <1>8 DEF SafetyInv

\* The whole list takes the place of the file.
LEMMA RenamesInv ==
  ASSUME SafetyInv, NEW p \in Processes, Renames(p)
  PROVE  SafetyInv'
<1>1. /\ disk \in Disks /\ writer \in [Processes -> Writers] /\ promised \in SUBSET Tickers
      /\ mixed \in BOOLEAN
  BY SafetyTypes DEF SafetyInv
<1>2. writer[p].at = "written" /\ promised' = promised /\ mixed' = mixed
  BY DEF Renames
<1>3. \/ disk.tmp = 0 /\ writer' = [writer EXCEPT ![p] = NotWriting] /\ disk' = disk
      \/ /\ disk.tmp # 0
         /\ disk' = [target |-> disk.tmp, tmp |-> 0, data |-> Unlinked]
         /\ writer' = [writer EXCEPT ![p].at = "renamed", ![p].inode = 0]
  BY DEF Renames
<1>4. SafetyTypeOK'
  <2>1. Unlinked \in [Inodes -> Texts]
    BY <1>1 DEF Unlinked, Disks, Text, Texts
  <2>2. disk' \in Disks
    BY SMTT(30), <1>1, <1>3, <2>1 DEF Disks
  <2>3. [writer[p] EXCEPT !.at = "renamed", !.inode = 0] \in Writers
    BY Zenon, <1>1, WriterAt
  <2>4. writer' \in [Processes -> Writers]
    BY <1>1, <1>3, <2>3, IdleTyped
  <2> QED BY <1>1, <1>2, <2>2, <2>4 DEF SafetyTypeOK, Writers, Disks
<1>5. ASSUME ~mixed' PROVE Quiet'
  <2>1. Quiet
    BY <1>2, <1>5 DEF SafetyInv
  <2>2. disk.tmp \in Inodes /\ disk.data[disk.tmp] = Text("whole", writer[p].wants)
    BY <1>2, <2>1 DEF Quiet, Sound
  <2>3. /\ disk.tmp # 0 /\ disk.tmp # disk.target
        /\ disk' = [target |-> disk.tmp, tmp |-> 0, data |-> Unlinked]
        /\ writer' = [writer EXCEPT ![p].at = "renamed", ![p].inode = 0]
    BY <1>3, <2>1, <2>2, InodesAssumption DEF Quiet, Apart
  <2>4. Unlinked[disk.tmp] = disk.data[disk.tmp]
    BY <2>2, <2>3 DEF Unlinked
  <2>5. Current' = Text("whole", writer[p].wants)
    <3>1. disk'.target = disk.tmp /\ disk'.data = Unlinked
      BY <2>3
    <3> QED BY <2>2, <2>4, <3>1 DEF Current
  <2>6. writer'[p] = [writer[p] EXCEPT !.at = "renamed", !.inode = 0]
    BY <1>1, <2>3
  <2>7. \A q \in Processes \ {p} : writer'[q].at = "idle"
    BY <1>1, <1>2, <2>1, <2>3 DEF Quiet, Alone
  <2>8. /\ promised \subseteq writer[p].wants
        /\ writer[p].op = "add" => writer[p].named \subseteq writer[p].wants
    BY <1>2, <2>1 DEF Quiet, Sound
  <2>9. Alone'
    BY <2>7 DEF Alone
  <2>10. Kept'
    BY <1>2, <2>5, <2>8 DEF Kept, Readable, Text
  <2>11. Apart'
    BY <2>3 DEF Apart
  <2>12. Sound(p)'
    <3>1. /\ writer'[p].at = "renamed" /\ writer'[p].op = writer[p].op
          /\ writer'[p].named = writer[p].named
      BY <1>1, <2>6 DEF Writers
    <3> QED BY <2>5, <2>8, <3>1 DEF Sound, Text
  <2>13. \A q \in Processes : Sound(q)'
    BY <2>7, <2>12 DEF Sound
  <2> QED BY <2>9, <2>10, <2>11, <2>13 DEF Quiet
<1> QED BY <1>4, <1>5 DEF SafetyInv

\* A writer that stops, done or not, leaves the file as it is.
LEMMA StopsInv ==
  ASSUME SafetyInv, NEW p \in Processes, writer' = [writer EXCEPT ![p] = NotWriting],
         disk' = disk, mixed' = mixed, promised' \in SUBSET Tickers,
         ~mixed => promised' \subseteq Current.banned,
         writer[p].at # "idle" \/ promised' = promised
  PROVE  SafetyInv'
<1>1. /\ disk \in Disks /\ writer \in [Processes -> Writers] /\ mixed \in BOOLEAN
  BY SafetyTypes DEF SafetyInv
<1>2. writer'[p] = NotWriting /\ \A q \in Processes \ {p} : writer'[q] = writer[q]
  BY <1>1
<1>3. SafetyTypeOK'
  <2>1. writer' \in [Processes -> Writers]
    BY <1>1, IdleTyped
  <2> QED BY <1>1, <2>1 DEF SafetyTypeOK, Writers, Disks
<1>4. Current' = Current
  BY DEF Current
<1>5. ASSUME ~mixed', \A q \in Processes \ {p} : writer[q].at # "idle" => promised' = promised
      PROVE Quiet'
  <2>1. Quiet
    BY <1>5 DEF SafetyInv
  <2>2. Alone'
    BY <1>2, <2>1 DEF Quiet, Alone, NotWriting
  <2>3. Kept'
    BY <1>4, <1>5, <2>1 DEF Quiet, Kept, Readable
  <2>4. Apart'
    BY <2>1 DEF Quiet, Apart
  <2>5. Sound(p)'
    BY <1>2 DEF Sound, NotWriting
  <2>6. ASSUME NEW q \in Processes \ {p} PROVE Sound(q)'
    <3>1. CASE writer[q].at = "idle"
      BY <1>2, <3>1 DEF Sound
    <3>2. CASE writer[q].at # "idle"
      BY <1>2, <1>4, <1>5, <2>1, <3>2 DEF Quiet, Sound
    <3> QED BY <3>1, <3>2
  <2> QED BY <2>2, <2>3, <2>4, <2>5, <2>6 DEF Quiet
<1>6. ASSUME ~mixed', writer[p].at # "idle" PROVE Quiet'
  <2>1. \A q \in Processes \ {p} : writer[q].at = "idle"
    BY <1>6 DEF SafetyInv, Quiet, Alone
  <2> QED BY <1>5, <1>6, <2>1
<1>7. ASSUME ~mixed', writer[p].at = "idle", promised' = promised PROVE Quiet'
  BY <1>5, <1>7
<1> QED BY <1>3, <1>6, <1>7 DEF SafetyInv

\* The change is acknowledged: the file has it already.
LEMMA AuditsInv ==
  ASSUME SafetyInv, NEW p \in Processes, Audits(p)
  PROVE  SafetyInv'
<1>1. /\ writer \in [Processes -> Writers] /\ promised \in SUBSET Tickers
  BY SafetyTypes DEF SafetyInv
<1>2. /\ writer[p].at = "renamed" /\ writer' = [writer EXCEPT ![p] = NotWriting]
      /\ promised' = IF writer[p].op = "add" THEN promised \cup writer[p].named ELSE promised
      /\ disk' = disk /\ mixed' = mixed
  BY DEF Audits
<1>3. promised' \in SUBSET Tickers
  BY <1>1, <1>2 DEF Writers
<1>4. ~mixed => promised' \subseteq Current.banned
  BY <1>2 DEF SafetyInv, Quiet, Kept, Sound
<1> QED BY <1>2, <1>3, <1>4, StopsInv

\* Whatever the writer leaves behind is not the file.
LEMMA GivesUpInv ==
  ASSUME SafetyInv, NEW p \in Processes, GivesUp(p)
  PROVE  SafetyInv'
<1>1. promised \in SUBSET Tickers /\ (~mixed => promised \subseteq Current.banned)
  BY DEF SafetyInv, SafetyTypeOK, Quiet, Kept
<1>2. /\ writer[p].at # "idle" /\ writer' = [writer EXCEPT ![p] = NotWriting]
      /\ promised' = promised /\ disk' = disk /\ mixed' = mixed
  BY DEF GivesUp
<1> QED BY <1>1, <1>2, StopsInv

\* Whatever a process does with the guard-rails keeps the invariant.
LEMMA GuardsInv ==
  ASSUME SafetyInv, NEW p \in Processes, Guards(p)
  PROVE  SafetyInv'
<1>1. CASE \E t \in Tickers : Begins(p, "add", {t}) \/ Begins(p, "remove", {t})
  <2>1. PICK t \in Tickers : Begins(p, "add", {t}) \/ Begins(p, "remove", {t})
    BY <1>1
  <2>2. {t} \in SUBSET Tickers
    OBVIOUS
  <2>3. CASE Begins(p, "add", {t})
    BY <2>2, <2>3, BeginsInv
  <2>4. CASE Begins(p, "remove", {t})
    BY <2>2, <2>4, BeginsInv
  <2> QED BY <2>1, <2>3, <2>4
<1>2. CASE Begins(p, "set", {})
  BY <1>2, BeginsInv
<1>3. CASE Opens(p)
  BY <1>3, OpensInv
<1>4. CASE Writes(p)
  BY <1>4, WritesInv
<1>5. CASE Renames(p)
  BY <1>5, RenamesInv
<1>6. CASE Audits(p)
  BY <1>6, AuditsInv
<1>7. CASE GivesUp(p)
  BY <1>7, GivesUpInv
<1> QED BY <1>1, <1>2, <1>3, <1>4, <1>5, <1>6, <1>7 DEF Guards

\* Nothing else matters to the guard-rails.
LEMMA GuardingUnchanged == ASSUME SafetyInv, UNCHANGED guarding PROVE SafetyInv'
<1>1. disk' = disk /\ writer' = writer /\ promised' = promised /\ mixed' = mixed
  BY DEF guarding
<1>2. SafetyTypeOK'
  BY <1>1 DEF SafetyInv, SafetyTypeOK
<1>3. Current' = Current
  BY <1>1 DEF Current
<1>4. ASSUME Quiet PROVE Quiet'
  <2>1. Alone' /\ Kept' /\ Apart'
    BY <1>1, <1>3, <1>4 DEF Quiet, Alone, Kept, Readable, Apart
  <2>2. \A p \in Processes : Sound(p)'
    BY <1>1, <1>3, <1>4 DEF Quiet, Sound
  <2> QED BY <2>1, <2>2 DEF Quiet
<1> QED BY <1>1, <1>2, <1>4 DEF SafetyInv

\* The invariant implies the property.
LEMMA KeptByInv == ASSUME SafetyInv PROVE ForbidKept
BY DEF SafetyInv, Quiet, Kept, ForbidKept

\* Whatever dies between the steps of a change, safety.json stays readable and lists
\* every ticker whose addition was acknowledged, for any number of processes that
\* write one after the other.
THEOREM ForbiddenIsKept == SafetySpec => []ForbidKept
<1>1. SafetyInit => SafetyInv
  BY SafetyInitInv
<1>2. SafetyInv /\ [SafetyNext]_guarding => SafetyInv'
  <2>1. ASSUME SafetyInv, SafetyNext PROVE SafetyInv'
    BY <2>1, GuardsInv DEF SafetyNext
  <2>2. ASSUME SafetyInv, UNCHANGED guarding PROVE SafetyInv'
    BY <2>2, GuardingUnchanged
  <2> QED BY <2>1, <2>2
<1>3. SafetyInv => ForbidKept
  BY KeptByInv
<1> QED BY <1>1, <1>2, <1>3, PTL DEF SafetySpec

(***************************************************************************)
(* The inductive invariant of the jobs.                                    *)
(***************************************************************************)

JobRecords ==
  [by : Processes \cup {"none"}, rule : Rules, against : BOOLEAN,
   st : {"none", "running", "stopping", "stuck"}]

JobTypes ==
  /\ program \in [Processes -> Programs \cup {"none"}]
  /\ jobs \in [JobIds -> JobRecords]
  /\ slot \in [Processes -> JobIds \cup {0}]
  /\ waiting \in [Processes -> Nat]
  /\ overlap \in [Processes -> BOOLEAN]

\* Nothing is under way in a process that does not run.
Asleep(p) == program[p] = "none" => waiting[p] = 0 /\ writer[p].at = "idle"

\* An exit job at work in the process
ExitOf(p, j) == jobs[j].by = p /\ jobs[j].rule = "exit" /\ Live(j)

\* At most one request waits, with an empty slot, and what is at work is in the slot.
SlottedAt(p) ==
  program[p] = "server" /\ ~overlap[p] =>
    /\ waiting[p] <= 1
    /\ waiting[p] # 0 => slot[p] = 0
    /\ \A j \in JobIds : ExitOf(p, j) => slot[p] = j

Refused == ~mixed => \A j \in JobIds : jobs[j].rule # "strategy" => ~jobs[j].against

JobsInv ==
  /\ SafetyInv
  /\ JobTypes
  /\ \A p \in Processes : Asleep(p)
  /\ \A p \in Processes : SlottedAt(p)
  /\ Refused

-----------------------------------------------------------------------------
(* Helpers.                                                                *)

\* A step that leaves a process and its exit jobs alone, or ends some of them.
LEMMA SameSlot ==
  ASSUME NEW q \in Processes, SlottedAt(q), program'[q] = program[q],
         overlap'[q] = overlap[q], waiting'[q] = waiting[q], slot'[q] = slot[q],
         \A j \in JobIds : ExitOf(q, j)' => ExitOf(q, j)
  PROVE  SlottedAt(q)'
BY DEF SlottedAt

\* A process writes for itself only, and what was mixed stays so.
LEMMA GuardsOwn ==
  ASSUME SafetyInv, NEW p \in Processes, Guards(p)
  PROVE  /\ \A q \in Processes \ {p} : writer'[q] = writer[q]
         /\ mixed => mixed'
<1>1. writer \in [Processes -> Writers] /\ mixed \in BOOLEAN
  BY SafetyTypes DEF SafetyInv
<1>2. ASSUME NEW op \in {"set", "add", "remove"}, NEW named, Begins(p, op, named)
      PROVE  (\A q \in Processes \ {p} : writer'[q] = writer[q]) /\ (mixed => mixed')
  BY <1>1, <1>2 DEF Begins
<1>3. ASSUME Opens(p) \/ Writes(p)
      PROVE  (\A q \in Processes \ {p} : writer'[q] = writer[q]) /\ (mixed => mixed')
  BY Zenon, <1>1, <1>3 DEF Opens, Writes
<1>4. ASSUME Renames(p) \/ Audits(p) \/ GivesUp(p)
      PROVE  (\A q \in Processes \ {p} : writer'[q] = writer[q]) /\ (mixed => mixed')
  BY <1>1, <1>4 DEF Renames, Audits, GivesUp
<1> QED BY <1>2, <1>3, <1>4 DEF Guards

\* The place of a job without a job
LEMMA NoJobTyped == NoJob \in JobRecords
BY DEF NoJob, JobRecords, Rules

\* A job that is admitted does not trade a ticker that is known forbidden.
LEMMA AdmittedIsAllowed ==
  ASSUME SafetyInv, ~mixed, NEW rule, rule # "strategy", NEW t, NEW own, Admits(rule, t, own)
  PROVE  t \notin promised
BY DEF SafetyInv, Quiet, Kept, Admits, Forbidden

-----------------------------------------------------------------------------
(* Initially.                                                              *)

\* Nothing runs at first.
LEMMA JobsInitInv == ASSUME JobsInit PROVE JobsInv
<1>1. SafetyInv
  BY SafetyInitInv DEF JobsInit
<1>2. JobTypes
  BY NoJobTyped DEF JobsInit, JobTypes
<1>3. \A p \in Processes : Asleep(p)
  BY DEF JobsInit, SafetyInit, Asleep, NotWriting
<1>4. \A p \in Processes : SlottedAt(p)
  BY DEF JobsInit, SlottedAt
<1>5. Refused
  BY DEF JobsInit, Refused, NoJob
<1> QED BY <1>1, <1>2, <1>3, <1>4, <1>5 DEF JobsInv

-----------------------------------------------------------------------------
(* Every step.                                                             *)

\* A change of the guard-rails leaves the jobs alone.
LEMMA GuardsStep ==
  ASSUME JobsInv, NEW p \in Processes, program[p] # "none", Guards(p), UNCHANGED serving
  PROVE  JobsInv'
<1>1. /\ program' = program /\ jobs' = jobs /\ slot' = slot /\ waiting' = waiting
      /\ overlap' = overlap
  BY DEF serving
<1>2. SafetyInv'
  BY GuardsInv DEF JobsInv
<1>3. (\A q \in Processes \ {p} : writer'[q] = writer[q]) /\ (mixed => mixed')
  BY GuardsOwn DEF JobsInv
<1>4. JobTypes'
  BY <1>1 DEF JobsInv, JobTypes
<1>5. \A q \in Processes : Asleep(q)'
  BY <1>1, <1>3 DEF JobsInv, Asleep
<1>6. \A q \in Processes : SlottedAt(q)'
  BY <1>1 DEF JobsInv, SlottedAt, ExitOf, Live
<1>7. Refused'
  BY <1>1, <1>3 DEF JobsInv, Refused
<1> QED BY <1>2, <1>4, <1>5, <1>6, <1>7 DEF JobsInv

\* A program starts with nothing waiting and no jobs.
LEMMA LaunchesStep ==
  ASSUME JobsInv, NEW p \in Processes, NEW kind \in Programs, Launches(p, kind)
  PROVE  JobsInv'
<1>1. /\ program' = [program EXCEPT ![p] = kind] /\ jobs' = jobs /\ slot' = slot
      /\ waiting' = waiting /\ overlap' = overlap /\ UNCHANGED guarding
      /\ \A j \in JobIds : jobs[j].by # p
      /\ kind # "daemon" => program[p] = "none"
  BY DEF Launches
<1>2. SafetyInv' /\ writer' = writer /\ mixed' = mixed
  BY <1>1, GuardingUnchanged DEF JobsInv, guarding
<1>3. JobTypes'
  BY <1>1 DEF JobsInv, JobTypes
<1>4. program'[p] = kind /\ \A q \in Processes \ {p} : program'[q] = program[q]
  BY <1>1 DEF JobsInv, JobTypes
<1>5. \A q \in Processes : Asleep(q)'
  BY <1>1, <1>2, <1>4 DEF JobsInv, Asleep, Programs
<1>6. ASSUME NEW q \in Processes \ {p} PROVE SlottedAt(q)'
  BY <1>1, <1>4, SameSlot DEF JobsInv, ExitOf, Live
<1>7. SlottedAt(p)'
  <2>1. kind = "server" => waiting[p] = 0
    BY <1>1 DEF JobsInv, Asleep
  <2> QED BY <1>1, <1>4, <2>1 DEF SlottedAt, ExitOf
<1>8. Refused'
  BY <1>1, <1>2 DEF JobsInv, Refused
<1> QED BY <1>2, <1>3, <1>5, <1>6, <1>7, <1>8 DEF JobsInv

\* A request passes the check of the slot.
LEMMA AskedStep ==
  ASSUME JobsInv, NEW p \in Processes, Asked(p)
  PROVE  JobsInv'
<1>1. /\ Free(p) /\ slot[p] = 0
      /\ waiting' = [waiting EXCEPT ![p] = @ + 1]
      /\ overlap' = [overlap EXCEPT ![p] = @ \/ waiting[p] > 0]
      /\ program' = program /\ jobs' = jobs /\ slot' = slot /\ UNCHANGED guarding
  BY DEF Asked
<1>2. SafetyInv' /\ writer' = writer /\ mixed' = mixed
  BY <1>1, GuardingUnchanged DEF JobsInv, guarding
<1>3. waiting \in [Processes -> Nat] /\ overlap \in [Processes -> BOOLEAN]
  BY DEF JobsInv, JobTypes
<1>4. /\ waiting'[p] = waiting[p] + 1 /\ overlap'[p] = (overlap[p] \/ waiting[p] > 0)
      /\ \A q \in Processes \ {p} : waiting'[q] = waiting[q] /\ overlap'[q] = overlap[q]
  BY <1>1, <1>3
<1>5. JobTypes'
  <2>1. overlap' \in [Processes -> BOOLEAN]
    <3>1. (overlap[p] \/ waiting[p] > 0) \in BOOLEAN
      OBVIOUS
    <3> QED BY <1>1, <1>3, <3>1
  <2>2. waiting' \in [Processes -> Nat]
    BY <1>1, <1>3
  <2> QED BY <1>1, <2>1, <2>2 DEF JobsInv, JobTypes
<1>6. \A q \in Processes : Asleep(q)'
  BY <1>1, <1>2, <1>4 DEF JobsInv, Asleep, Free
<1>7. ASSUME NEW q \in Processes \ {p} PROVE SlottedAt(q)'
  BY <1>1, <1>4, SameSlot DEF JobsInv, ExitOf, Live
<1>8. SlottedAt(p)'
  <2>1. SlottedAt(p) /\ waiting[p] \in Nat
    BY <1>3 DEF JobsInv
  <2>2. ~overlap'[p] => ~overlap[p] /\ waiting[p] = 0
    <3>1. ~(waiting[p] > 0) => waiting[p] = 0
      BY <2>1
    <3> QED BY <1>4, <3>1, Zenon
  <2>3. \A j \in JobIds : ExitOf(p, j)' <=> ExitOf(p, j)
    BY <1>1 DEF ExitOf, Live
  <2> QED BY <1>1, <1>4, <2>1, <2>2, <2>3 DEF SlottedAt
<1>9. Refused'
  BY <1>1, <1>2 DEF JobsInv, Refused
<1> QED BY <1>2, <1>5, <1>6, <1>7, <1>8, <1>9 DEF JobsInv

\* A request is rejected for its body.
LEMMA RejectedStep ==
  ASSUME JobsInv, NEW p \in Processes, Rejected(p)
  PROVE  JobsInv'
<1>1. /\ Free(p) /\ waiting[p] > 0 /\ waiting' = [waiting EXCEPT ![p] = @ - 1]
      /\ overlap' = overlap /\ program' = program /\ jobs' = jobs /\ slot' = slot
      /\ UNCHANGED guarding
  BY DEF Rejected
<1>2. SafetyInv' /\ writer' = writer /\ mixed' = mixed
  BY <1>1, GuardingUnchanged DEF JobsInv, guarding
<1>3. waiting \in [Processes -> Nat]
  BY DEF JobsInv, JobTypes
<1>4. /\ waiting'[p] = waiting[p] - 1
      /\ \A q \in Processes \ {p} : waiting'[q] = waiting[q]
  BY <1>1, <1>3
<1>5. JobTypes'
  BY <1>1, <1>3 DEF JobsInv, JobTypes
<1>6. \A q \in Processes : Asleep(q)'
  BY <1>1, <1>2, <1>4 DEF JobsInv, Asleep, Free
<1>7. ASSUME NEW q \in Processes \ {p} PROVE SlottedAt(q)'
  BY <1>1, <1>4, SameSlot DEF JobsInv, ExitOf, Live
<1>8. SlottedAt(p)'
  <2>1. SlottedAt(p) /\ waiting[p] \in Nat
    BY <1>3 DEF JobsInv
  <2>2. \A j \in JobIds : ExitOf(p, j)' <=> ExitOf(p, j)
    BY <1>1 DEF ExitOf, Live
  <2> QED BY <1>1, <1>4, <2>1, <2>2 DEF SlottedAt
<1>9. Refused'
  BY <1>1, <1>2 DEF JobsInv, Refused
<1> QED BY <1>2, <1>5, <1>6, <1>7, <1>8, <1>9 DEF JobsInv

\* A job that is created is the only difference, and was admitted.
LEMMA CreatedStep ==
  ASSUME JobsInv, NEW p \in Processes, NEW j \in JobIds, NEW rule \in Rules, NEW t,
         NEW st \in {"running", "stopping", "stuck"}, Created(p, j, rule, t, st),
         NEW own, Admits(rule, t, own), mixed' = mixed
  PROVE  /\ jobs' \in [JobIds -> JobRecords]
         /\ Refused'
         /\ jobs'[j].by = p /\ jobs'[j].rule = rule
         /\ \A k \in JobIds \ {j} : jobs'[k] = jobs[k]
<1> DEFINE new == [by |-> p, rule |-> rule, st |-> st, against |-> t \in promised]
<1>1. jobs \in [JobIds -> JobRecords] /\ jobs' = [jobs EXCEPT ![j] = new]
  BY DEF Created, JobsInv, JobTypes
<1>2. new \in JobRecords
  BY DEF JobRecords
<1>3. jobs' \in [JobIds -> JobRecords] /\ jobs'[j] = new
  BY <1>1, <1>2
<1>4. \A k \in JobIds \ {j} : jobs'[k] = jobs[k]
  BY <1>1
<1>5. ASSUME ~mixed', rule # "strategy" PROVE ~new.against
  BY <1>5, AdmittedIsAllowed DEF JobsInv
<1>6. Refused'
  BY <1>3, <1>4, <1>5 DEF JobsInv, Refused
<1> QED BY <1>3, <1>4, <1>6

\* The body has been read: the job goes into the slot, or is refused.
LEMMA LaunchedStep ==
  ASSUME JobsInv, NEW p \in Processes, NEW j \in JobIds, NEW t, Launched(p, j, t)
  PROVE  JobsInv'
<1>1. /\ Free(p) /\ waiting[p] > 0 /\ waiting' = [waiting EXCEPT ![p] = @ - 1]
      /\ overlap' = overlap /\ program' = program /\ UNCHANGED guarding
  BY DEF Launched
<1>2. \/ /\ Admits("exit", t, {})
         /\ \E st \in {"running", "stuck"} : Created(p, j, "exit", t, st)
         /\ slot' = [slot EXCEPT ![p] = j]
      \/ slot' = [slot EXCEPT ![p] = 0] /\ jobs' = jobs
  BY DEF Launched
<1>3. SafetyInv' /\ writer' = writer /\ mixed' = mixed
  BY <1>1, GuardingUnchanged DEF JobsInv, guarding
<1>4. waiting \in [Processes -> Nat] /\ slot \in [Processes -> JobIds \cup {0}]
  BY DEF JobsInv, JobTypes
<1>5. /\ waiting'[p] = waiting[p] - 1
      /\ \A q \in Processes \ {p} : waiting'[q] = waiting[q] /\ slot'[q] = slot[q]
  BY <1>1, <1>2, <1>4
<1>6. waiting' \in [Processes -> Nat]
  BY <1>1, <1>4
<1>7. \A q \in Processes : Asleep(q)'
  BY <1>1, <1>3, <1>5 DEF JobsInv, Asleep, Free
<1>8. SlottedAt(p) /\ waiting[p] \in Nat
  BY <1>4 DEF JobsInv
<1>9. \A k \in JobIds : program[p] = "server" /\ ~overlap[p] => ~ExitOf(p, k)
  BY <1>1, <1>8, JobsAssumption DEF SlottedAt
<1>10. CASE slot' = [slot EXCEPT ![p] = 0] /\ jobs' = jobs
  <2>1. JobTypes' /\ slot'[p] = 0
    BY <1>1, <1>4, <1>6, <1>10 DEF JobsInv, JobTypes
  <2>2. \A q \in Processes, k \in JobIds : ExitOf(q, k)' <=> ExitOf(q, k)
    BY <1>10 DEF ExitOf, Live
  <2>3. SlottedAt(p)'
    BY <1>1, <1>5, <1>8, <1>9, <2>1, <2>2 DEF SlottedAt
  <2>4. ASSUME NEW q \in Processes \ {p} PROVE SlottedAt(q)'
    BY <1>1, <1>5, <2>2, SameSlot DEF JobsInv
  <2>5. Refused'
    BY <1>3, <1>10 DEF JobsInv, Refused
  <2> QED BY <1>3, <1>7, <2>1, <2>3, <2>4, <2>5 DEF JobsInv
<1>11. CASE /\ Admits("exit", t, {})
            /\ \E st \in {"running", "stuck"} : Created(p, j, "exit", t, st)
            /\ slot' = [slot EXCEPT ![p] = j]
  <2>1. PICK st \in {"running", "stuck"} : Created(p, j, "exit", t, st)
    BY <1>11
  <2>2. /\ jobs' \in [JobIds -> JobRecords] /\ Refused' /\ jobs'[j].by = p
        /\ \A k \in JobIds \ {j} : jobs'[k] = jobs[k]
    <3>1. "exit" \in Rules /\ st \in {"running", "stopping", "stuck"}
      BY DEF Rules
    <3> QED BY <1>3, <1>11, <2>1, <3>1, CreatedStep
  <2>3. JobTypes' /\ slot'[p] = j
    BY <1>1, <1>4, <1>6, <1>11, <2>2 DEF JobsInv, JobTypes
  <2>4. \A q \in Processes, k \in JobIds \ {j} : ExitOf(q, k)' <=> ExitOf(q, k)
    BY <2>2 DEF ExitOf, Live
  <2>5. SlottedAt(p)'
    <3>1. program'[p] = "server" /\ ~overlap'[p] => waiting'[p] = 0
      BY <1>1, <1>5, <1>8 DEF SlottedAt
    <3>2. ASSUME program'[p] = "server", ~overlap'[p], NEW k \in JobIds, ExitOf(p, k)'
          PROVE  k = j
      BY <1>1, <1>9, <2>4, <3>2
    <3> QED BY <2>3, <3>1, <3>2 DEF SlottedAt
  <2>6. ASSUME NEW q \in Processes \ {p} PROVE SlottedAt(q)'
    <3>1. \A k \in JobIds : ExitOf(q, k)' => ExitOf(q, k)
      BY <2>2, <2>4 DEF ExitOf
    <3> QED BY <1>1, <1>5, <3>1, SameSlot DEF JobsInv
  <2> QED BY <1>3, <1>7, <2>2, <2>3, <2>5, <2>6 DEF JobsInv
<1> QED BY <1>2, <1>10, <1>11

\* /stop reaches the job in the slot.
LEMMA StopAskedStep ==
  ASSUME JobsInv, NEW p \in Processes, StopAsked(p)
  PROVE  JobsInv'
<1> DEFINE j == slot[p]
<1>1. /\ slot[p] # 0 /\ jobs[j].st = "running"
      /\ jobs' = [jobs EXCEPT ![j].st = "stopping"]
      /\ UNCHANGED guarding /\ program' = program /\ slot' = slot /\ waiting' = waiting
      /\ overlap' = overlap
  BY DEF StopAsked
<1>2. SafetyInv' /\ writer' = writer /\ mixed' = mixed
  BY <1>1, GuardingUnchanged DEF JobsInv, guarding
<1>3. jobs \in [JobIds -> JobRecords] /\ j \in JobIds
  BY <1>1 DEF JobsInv, JobTypes
<1>4. /\ jobs'[j] = [jobs[j] EXCEPT !.st = "stopping"]
      /\ \A k \in JobIds \ {j} : jobs'[k] = jobs[k]
  BY <1>1, <1>3
<1>5. /\ jobs'[j].by = jobs[j].by /\ jobs'[j].rule = jobs[j].rule
      /\ jobs'[j].against = jobs[j].against /\ jobs'[j] \in JobRecords
  BY <1>3, <1>4 DEF JobRecords
<1>6. JobTypes'
  <2>1. jobs' \in [JobIds -> JobRecords]
    BY <1>1, <1>3, <1>4, <1>5
  <2> QED BY <1>1, <2>1 DEF JobsInv, JobTypes
<1>7. \A q \in Processes, k \in JobIds : ExitOf(q, k)' => ExitOf(q, k)
  BY <1>1, <1>4, <1>5 DEF ExitOf, Live
<1>8. \A q \in Processes : Asleep(q)'
  BY <1>1, <1>2 DEF JobsInv, Asleep
<1>9. \A q \in Processes : SlottedAt(q)'
  BY <1>1, <1>7, SameSlot DEF JobsInv
<1>10. Refused'
  BY <1>2, <1>4, <1>5 DEF JobsInv, Refused
<1> QED BY <1>2, <1>6, <1>8, <1>9, <1>10 DEF JobsInv

\* A job starts beside the slot.
LEMMA StartedStep ==
  ASSUME JobsInv, NEW p \in Processes, NEW j \in JobIds, NEW rule \in Rules, NEW t, NEW own,
         Started(p, j, rule, t, own)
  PROVE  JobsInv'
<1>1. /\ rule = "exit" => program[p] # "server"
      /\ Admits(rule, t, own) /\ Created(p, j, rule, t, "running")
      /\ UNCHANGED guarding /\ program' = program /\ slot' = slot /\ waiting' = waiting
      /\ overlap' = overlap
  BY DEF Started
<1>2. SafetyInv' /\ writer' = writer /\ mixed' = mixed
  BY <1>1, GuardingUnchanged DEF JobsInv, guarding
<1>3. /\ jobs' \in [JobIds -> JobRecords] /\ Refused'
      /\ jobs'[j].by = p /\ jobs'[j].rule = rule
      /\ \A k \in JobIds \ {j} : jobs'[k] = jobs[k]
  BY <1>1, <1>2, CreatedStep
<1>4. JobTypes'
  BY <1>1, <1>3 DEF JobsInv, JobTypes
<1>5. \A q \in Processes : Asleep(q)'
  BY <1>1, <1>2 DEF JobsInv, Asleep
<1>6. ASSUME NEW q \in Processes PROVE SlottedAt(q)'
  <2>1. CASE program[q] # "server"
    BY <1>1, <2>1 DEF SlottedAt
  <2>2. CASE program[q] = "server"
    <3>1. \A k \in JobIds : ExitOf(q, k)' => ExitOf(q, k)
      BY <1>1, <1>3, <2>2 DEF ExitOf, Live
    <3> QED BY <1>1, <3>1, SameSlot DEF JobsInv
  <2> QED BY <2>1, <2>2
<1> QED BY <1>2, <1>3, <1>4, <1>5, <1>6 DEF JobsInv

\* A job that ends leaves its slot.
LEMMA EndsStep ==
  ASSUME JobsInv, NEW j \in JobIds, Ends(j)
  PROVE  JobsInv'
<1>1. /\ jobs' = [jobs EXCEPT ![j] = NoJob]
      /\ slot' = [p \in Processes |-> IF slot[p] = j THEN 0 ELSE slot[p]]
      /\ UNCHANGED guarding /\ program' = program /\ waiting' = waiting /\ overlap' = overlap
  BY DEF Ends
<1>2. SafetyInv' /\ writer' = writer /\ mixed' = mixed
  BY <1>1, GuardingUnchanged DEF JobsInv, guarding
<1>3. jobs \in [JobIds -> JobRecords] /\ slot \in [Processes -> JobIds \cup {0}]
  BY DEF JobsInv, JobTypes
<1>4. jobs'[j] = NoJob /\ \A k \in JobIds \ {j} : jobs'[k] = jobs[k]
  BY <1>1, <1>3
<1>5. jobs' \in [JobIds -> JobRecords] /\ slot' \in [Processes -> JobIds \cup {0}]
  BY <1>1, <1>3, NoJobTyped
<1>6. JobTypes'
  BY <1>1, <1>5 DEF JobsInv, JobTypes
<1>7. \A q \in Processes : Asleep(q)'
  BY <1>1, <1>2 DEF JobsInv, Asleep
<1>8. ASSUME NEW q \in Processes PROVE SlottedAt(q)'
  <2>1. \A k \in JobIds : ExitOf(q, k)' => k # j /\ ExitOf(q, k)
    BY <1>4 DEF ExitOf, Live, NoJob
  <2>2. slot'[q] = IF slot[q] = j THEN 0 ELSE slot[q]
    BY <1>1
  <2>3. SlottedAt(q)
    BY DEF JobsInv
  <2> QED BY <1>1, <2>1, <2>2, <2>3 DEF SlottedAt
<1>9. Refused'
  BY <1>2, <1>4 DEF JobsInv, Refused, NoJob
<1> QED BY <1>2, <1>6, <1>7, <1>8, <1>9 DEF JobsInv

\* A process that dies takes its jobs and its writing with it.
LEMMA DiesStep ==
  ASSUME JobsInv, NEW p \in Processes, Dies(p)
  PROVE  JobsInv'
<1>1. /\ program' = [program EXCEPT ![p] = "none"]
      /\ jobs' = [j \in JobIds |-> IF jobs[j].by = p THEN NoJob ELSE jobs[j]]
      /\ slot' = [slot EXCEPT ![p] = 0] /\ waiting' = [waiting EXCEPT ![p] = 0]
      /\ overlap' = [overlap EXCEPT ![p] = FALSE]
      /\ writer' = [writer EXCEPT ![p] = NotWriting]
      /\ disk' = disk /\ promised' = promised /\ mixed' = mixed
  BY DEF Dies
<1>2. JobTypes /\ writer \in [Processes -> Writers]
  BY SafetyTypes DEF JobsInv, SafetyInv
<1>3. SafetyInv'
  <2>1. promised \in SUBSET Tickers /\ (~mixed => promised \subseteq Current.banned)
    BY DEF JobsInv, SafetyInv, SafetyTypeOK, Quiet, Kept
  <2> QED BY <1>1, <2>1, StopsInv DEF JobsInv
<1>4. /\ program'[p] = "none" /\ waiting'[p] = 0 /\ writer'[p] = NotWriting
      /\ \A q \in Processes \ {p} :
           /\ program'[q] = program[q] /\ waiting'[q] = waiting[q] /\ slot'[q] = slot[q]
           /\ overlap'[q] = overlap[q] /\ writer'[q] = writer[q]
  BY <1>1, <1>2 DEF JobTypes
<1>5. \A j \in JobIds : jobs'[j] = IF jobs[j].by = p THEN NoJob ELSE jobs[j]
  BY <1>1
<1>6. JobTypes'
  <2>1. jobs' \in [JobIds -> JobRecords]
    BY <1>1, <1>2, NoJobTyped DEF JobTypes
  <2> QED BY <1>1, <1>2, <2>1 DEF JobTypes
<1>7. \A q \in Processes : Asleep(q)'
  BY <1>4 DEF JobsInv, Asleep, NotWriting
<1>8. SlottedAt(p)'
  BY <1>4 DEF SlottedAt
<1>9. ASSUME NEW q \in Processes \ {p} PROVE SlottedAt(q)'
  <2>1. \A k \in JobIds : ExitOf(q, k)' => ExitOf(q, k)
    BY <1>5 DEF ExitOf, Live, NoJob
  <2> QED BY <1>4, <2>1, SameSlot DEF JobsInv
<1>10. Refused'
  BY <1>1, <1>5 DEF JobsInv, Refused, NoJob
<1> QED BY <1>3, <1>6, <1>7, <1>8, <1>9, <1>10 DEF JobsInv

\* Every step of the processes keeps the invariant.
LEMMA JobsStep == ASSUME JobsInv, JobsNext PROVE JobsInv'
<1>1. ASSUME NEW p \in Processes, program[p] # "none" /\ Guards(p) /\ UNCHANGED serving
      PROVE  JobsInv'
  BY <1>1, GuardsStep
<1>2. ASSUME NEW p \in Processes, Asked(p) \/ StopAsked(p) PROVE JobsInv'
  BY <1>2, AskedStep, StopAskedStep
<1>3. ASSUME NEW p \in Processes, Background(p) PROVE JobsInv'
  <2>1. CASE Rejected(p)
    BY <2>1, RejectedStep
  <2>2. CASE Dies(p)
    BY <2>2, DiesStep
  <2>3. CASE \E kind \in Programs : Launches(p, kind)
    BY <2>3, LaunchesStep
  <2> QED BY <1>3, <2>1, <2>2, <2>3 DEF Background
<1>4. ASSUME NEW p \in Processes, NEW j \in JobIds, NEW t \in Tickers, Launched(p, j, t)
      PROVE  JobsInv'
  BY <1>4, LaunchedStep
<1>5. ASSUME NEW p \in Processes, NEW j \in JobIds, NEW t \in Tickers, NEW rule \in Rules,
             NEW own \in SUBSET Tickers, Started(p, j, rule, t, own)
      PROVE  JobsInv'
  BY <1>5, StartedStep
<1>6. ASSUME NEW j \in JobIds, Ends(j) PROVE JobsInv'
  BY <1>6, EndsStep
<1> QED BY <1>1, <1>2, <1>3, <1>4, <1>5, <1>6 DEF JobsNext

\* Steps that change nothing keep it.
LEMMA JobsStutter == ASSUME JobsInv, UNCHANGED <<guarding, serving>> PROVE JobsInv'
<1>1. /\ program' = program /\ jobs' = jobs /\ slot' = slot /\ waiting' = waiting
      /\ overlap' = overlap /\ UNCHANGED guarding
  BY DEF serving
<1>2. SafetyInv' /\ writer' = writer /\ mixed' = mixed
  BY <1>1, GuardingUnchanged DEF JobsInv, guarding
<1>3. JobTypes' /\ Refused'
  BY <1>1, <1>2 DEF JobsInv, JobTypes, Refused
<1>4. \A q \in Processes : Asleep(q)' /\ SlottedAt(q)'
  BY <1>1, <1>2 DEF JobsInv, Asleep, SlottedAt, ExitOf, Live
<1> QED BY <1>2, <1>3, <1>4 DEF JobsInv

-----------------------------------------------------------------------------
(* The theorems.                                                           *)

\* The inductive invariant of the processes: what is under way, what is in the slot
\* and what was admitted.
THEOREM JobsInvariance == JobsSpec => []JobsInv
<1>1. JobsInit => JobsInv
  BY JobsInitInv
<1>2. JobsInv /\ [JobsNext]_<<guarding, serving>> => JobsInv'
  BY JobsStep, JobsStutter
<1> QED BY <1>1, <1>2, PTL DEF JobsSpec

\* Every reachable state is well typed.
THEOREM JobsTypeCorrect == JobsSpec => []JobsTypeOK
<1>1. JobsInv => JobsTypeOK
  BY DEF JobsInv, SafetyInv, JobTypes, JobRecords, JobsTypeOK
<1> QED BY <1>1, JobsInvariance, PTL

\* The exit job at work in a server is the one that /stop and /status reach, unless
\* two requests to start overlapped, whatever else the process runs.
THEOREM SlotIsTruthful == JobsSpec => []SlotTruthful
<1>1. JobsInv => SlotTruthful
  BY DEF JobsInv, SlottedAt, ExitOf, SlotTruthful
<1> QED BY <1>1, JobsInvariance, PTL

\* Once a ticker is forbidden no exit job and no passive run starts on it, in any
\* process, whatever dies.
THEOREM ForbiddenIsRefused == JobsSpec => []ForbiddenRefused
<1>1. JobsInv => ForbiddenRefused
  BY KeptByInv DEF JobsInv, Refused, ForbiddenRefused
<1> QED BY <1>1, JobsInvariance, PTL

\* A busy writer belongs to a program.
LEMMA BusyRuns ==
  ASSUME JobsInv, NEW p \in Processes, Opens(p) \/ Writes(p) \/ Renames(p) \/ Audits(p) \/ GivesUp(p)
  PROVE  program[p] # "none"
BY Zenon DEF JobsInv, Asleep, Opens, Writes, Renames, Audits, GivesUp

\* What a request comes to is a step of the jobs.
LEMMA ServesIsStep ==
  ASSUME NEW p \in Processes, NEW kind \in Changes, Serves(p, kind)
  PROVE  JobsNext
<1>1. CASE kind = "start"
  <2>1. Asked(p)
    BY <1>1 DEF Serves, Rules
  <2> QED BY <2>1 DEF JobsNext
<1>2. CASE kind = "stop"
  <2>1. StopAsked(p)
    BY <1>2 DEF Serves, Rules
  <2> QED BY <2>1 DEF JobsNext
<1>3. CASE kind \in Rules
  <2>1. JobRuns(p, kind)
    BY <1>3 DEF Serves, Rules
  <2>2. PICK j \in JobIds, t \in Tickers, own \in SUBSET Tickers : Started(p, j, kind, t, own)
    BY <2>1 DEF JobRuns
  <2> QED BY <1>3, <2>2 DEF JobsNext
<1>4. CASE kind \in {"add", "remove", "set"}
  <2>1. GuardsChange(p, kind)
    BY <1>4 DEF Serves, Rules
  <2>2. Free(p) /\ UNCHANGED serving
    BY <2>1 DEF GuardsChange
  <2>3. kind = "set" => Begins(p, "set", {})
    BY <2>1 DEF GuardsChange
  <2>4. kind # "set" => \E t \in Tickers : Begins(p, kind, {t})
    BY <2>1 DEF GuardsChange
  <2>5. Guards(p)
    BY <1>4, <2>3, <2>4 DEF Guards
  <2> QED BY <2>2, <2>5 DEF Free, JobsNext
<1>5. CASE kind = "daemon"
  <2>1. Launches(p, "daemon")
    BY <1>5 DEF Serves, Rules
  <2> QED BY <2>1 DEF Programs, Background, JobsNext
<1> QED BY <1>1, <1>2, <1>3, <1>4, <1>5 DEF Changes, Rules

\* So is what goes on without a request.
LEMMA GoesOnIsStep ==
  ASSUME JobsInv, NEW p \in Processes, GoesOn(p)
  PROVE  JobsNext
<1>1. CASE Rejected(p) \/ Dies(p)
  BY <1>1 DEF Background, JobsNext
<1>2. CASE \E kind \in Programs \ {"daemon"} : Launches(p, kind)
  BY <1>2 DEF Background, JobsNext
<1>3. CASE \E j \in JobIds, t \in Tickers : Launched(p, j, t)
  BY <1>3 DEF JobsNext
<1>4. CASE (Opens(p) \/ Writes(p) \/ Renames(p) \/ Audits(p) \/ GivesUp(p)) /\ UNCHANGED serving
  <2>1. Guards(p) /\ program[p] # "none"
    BY <1>4, BusyRuns DEF Guards
  <2> QED BY <1>4, <2>1 DEF JobsNext
<1> QED BY <1>1, <1>2, <1>3, <1>4 DEF GoesOn

\* Whatever the routes, tools and commands are asked, the processes do what the jobs
\* may do, so that the theorems about the jobs hold of the surfaces.
THEOREM SurfacesImplementJobs ==
  JobsInit /\ [][SurfacesNext]_<<guarding, serving>> => JobsSpec
<1>1. JobsInit => JobsInv
  BY JobsInitInv
<1>2. ASSUME JobsInv, SurfacesNext PROVE JobsNext
  <2>1. ASSUME NEW p \in Processes, NEW kind \in Offered[program[p]] \cap Changes, Serves(p, kind)
        PROVE  JobsNext
    BY <2>1, ServesIsStep
  <2>2. ASSUME NEW p \in Processes, GoesOn(p) PROVE JobsNext
    BY <1>2, <2>2, GoesOnIsStep
  <2>3. ASSUME NEW j \in JobIds, Ends(j) PROVE JobsNext
    BY <2>3 DEF JobsNext
  <2> QED BY <1>2, <2>1, <2>2, <2>3 DEF SurfacesNext
<1>3. JobsInv /\ [SurfacesNext]_<<guarding, serving>> => JobsInv'
  BY <1>2, JobsStep, JobsStutter
<1>4. JobsInv /\ [SurfacesNext]_<<guarding, serving>> => [JobsNext]_<<guarding, serving>>
  BY <1>2
<1> QED BY <1>1, <1>3, <1>4, PTL DEF JobsSpec
=============================================================================
