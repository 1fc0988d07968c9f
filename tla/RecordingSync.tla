---------------------------- MODULE RecordingSync ----------------------------
(***************************************************************************)
(* Recordings: a recorder on the Fly machine appends lines to a file per   *)
(* UTC day (backtest/recorder.ts); `record sync-atomic`                    *)
(* (backtest/syncAtomic.ts) lists them, extracts them beside the local     *)
(* directory, verifies them against the list, swaps the directories,       *)
(* merges what only the old one had and may delete old remote files.       *)
(* One sync at a time; one ticker; a file is the number of its lines.      *)
(***************************************************************************)
EXTENDS Integers

CONSTANTS
  LastFile,       \* bound: days that are recorded
  MaxLines        \* bound: lines of a day

ASSUME RecordingAssumption == LastFile \in Nat \ {0} /\ MaxLines \in Nat

VARIABLES
  fly,        \* the machine: UTC day, lines recorded each day, files it still has
  mirror,     \* the local directory
  pull,       \* the sync under way
  attic,      \* [days -> the longest copy in a <dir>.prev-<ts> left behind]
  upset       \* history: a sync stopped inside the swap

syncing == <<fly, mirror, pull, attic, upset>>

Files == 1 .. LastFile

\* A directory: the lines of each file, 0 for none.  A missing directory is empty.
NoFiles == [d \in Files |-> 0]

(***************************************************************************)
(*   at         idle, listed, extracted, verified, aside, swapped, merged  *)
(*   on         the day of the list                                        *)
(*   manifest   the list, with the sizes                                   *)
(*   staging    <dir>.staging-<ts>                                         *)
(*   prior      <dir>.prev-<ts>                                            *)
(*   fresh      the files that walkFiles found in the new directory        *)
(***************************************************************************)
NoPull ==
  [at |-> "idle", on |-> 0, manifest |-> NoFiles, staging |-> NoFiles,
   prior |-> NoFiles, fresh |-> {}]

Present(dir) == {d \in Files : dir[d] > 0}

SyncInit ==
  /\ fly = [today |-> 1, recorded |-> NoFiles, files |-> NoFiles]
  /\ mirror = NoFiles /\ pull = NoPull /\ attic = NoFiles /\ upset = FALSE

-----------------------------------------------------------------------------
\* writeLine: appends to the file of the UTC day, which rotate() opens.
Records ==
  /\ fly.recorded[fly.today] < MaxLines
  /\ fly' = [fly EXCEPT !.recorded[fly.today] = @ + 1, !.files[fly.today] = @ + 1]
  /\ UNCHANGED <<mirror, pull, attic, upset>>

\* Bound: a sync sees at most one midnight.
DayPasses ==
  /\ fly.today < LastFile /\ (pull.at = "idle" \/ pull.on = fly.today)
  /\ fly' = [fly EXCEPT !.today = @ + 1]
  /\ UNCHANGED <<mirror, pull, attic, upset>>

\* find -mtime +1: whole days are counted, so a file is two days old or more.
Aged == {d \in Present(fly.files) : d + 2 <= fly.today}

-----------------------------------------------------------------------------
\* The sync is over, and leaves left of the old directory where it was moved to.
Over(left) ==
  /\ pull' = NoPull
  /\ attic' = [d \in Files |-> IF attic[d] < left[d] THEN left[d] ELSE attic[d]]

\* fetchRemoteManifest: when it fails nothing has been done.
Lists ==
  /\ pull.at = "idle"
  /\ pull' = [NoPull EXCEPT !.at = "listed", !.on = fly.today, !.manifest = fly.files]
  /\ UNCHANGED <<fly, mirror, attic, upset>>

\* streamTarToStaging: the files as they are by now.  The exit code of fly is not
\* that of the remote tar, which may have skipped files.  chooseStagedRoot finds
\* them below the wrapper.
Extracts ==
  /\ pull.at = "listed"
  /\ \E skipped \in SUBSET Present(fly.files) :
       pull' = [pull EXCEPT !.at = "extracted",
                            !.staging = [d \in Files |-> IF d \in skipped THEN 0 ELSE fly.files[d]]]
  /\ UNCHANGED <<fly, mirror, attic, upset>>

\* verifyStagingAgainstManifest: each listed file is there with its size, and
\* no other file is.
Verified(staging, manifest) ==
  /\ \A d \in Present(manifest) : staging[d] = manifest[d]
  /\ Present(staging) = Present(manifest)

\* The staging directory of a failed sync is left for inspection.
Verifies ==
  /\ pull.at = "extracted"
  /\ IF Verified(pull.staging, pull.manifest)
       THEN pull' = [pull EXCEPT !.at = "verified"] /\ UNCHANGED attic
       ELSE Over(NoFiles)
  /\ UNCHANGED <<fly, mirror, upset>>

\* atomicSwap: the local directory is renamed aside ...
MovesAside ==
  /\ pull.at = "verified"
  /\ pull' = [pull EXCEPT !.at = "aside", !.prior = mirror]
  /\ mirror' = NoFiles
  /\ UNCHANGED <<fly, attic, upset>>

\* ... and the staged one takes its place.
Swaps ==
  /\ pull.at = "aside"
  /\ pull' = [pull EXCEPT !.at = "swapped", !.fresh = Present(pull.staging)]
  /\ mirror' = pull.staging
  /\ UNCHANGED <<fly, attic, upset>>

\* Its rename fails: the old one is put back, and if that fails too nothing is said.
SwapFails ==
  /\ pull.at = "aside"
  /\ \/ mirror' = pull.prior /\ Over(NoFiles) /\ UNCHANGED upset
     \/ Over(pull.prior) /\ upset' = TRUE /\ UNCHANGED mirror
  /\ UNCHANGED fly

\* Mutant: what the old directory alone had goes with it.
ToMerge_None == {}

ToMerge == Present(pull.prior) \ pull.fresh

Merges(d) ==
  /\ pull.at = "swapped" /\ d \in ToMerge
  /\ mirror' = [mirror EXCEPT ![d] = pull.prior[d]]
  /\ pull' = [pull EXCEPT !.prior[d] = 0]
  /\ UNCHANGED <<fly, attic, upset>>

\* rmSync of the rest of the old directory.
PriorRemoved ==
  /\ pull.at = "swapped" /\ ToMerge = {}
  /\ pull' = [pull EXCEPT !.at = "merged", !.prior = NoFiles]
  /\ UNCHANGED <<fly, mirror, attic, upset>>

\* deleteRemoteOlderThan, when asked for.  It may fail part way.
Cleans ==
  /\ pull.at = "merged"
  /\ \E gone \in SUBSET Aged : fly' = [fly EXCEPT !.files = [d \in Files |-> IF d \in gone THEN 0 ELSE fly.files[d]]]
  /\ Over(NoFiles)
  /\ UNCHANGED <<mirror, upset>>

\* An error of the tar pipe or of a rename of the merge, or kill -9: the next
\* sync knows nothing of what this one leaves.
SyncDies ==
  /\ pull.at # "idle"
  /\ Over(pull.prior)
  /\ upset' = (upset \/ pull.at \in {"aside", "swapped"})
  /\ UNCHANGED <<fly, mirror>>

SyncNext ==
  \/ Records \/ DayPasses
  \/ Lists \/ Extracts \/ Verifies
  \/ MovesAside \/ Swaps \/ SwapFails
  \/ \E d \in Files : Merges(d)
  \/ PriorRemoved \/ Cleans \/ SyncDies

SyncSpec == SyncInit /\ [][SyncNext]_syncing

-----------------------------------------------------------------------------
\* Wherever a sync is interrupted, and however often, every line that was
\* recorded is still on the machine or in one of the local directories; and
\* unless one stopped inside the swap, between two syncs the local directory
\* itself has whatever the machine no longer has.
RecordingsKept ==
  \A d \in Files : fly.files[d] # fly.recorded[d] =>
    /\ fly.recorded[d] \in {mirror[d], pull.prior[d], attic[d]}
    /\ pull.at = "idle" /\ ~upset => mirror[d] = fly.recorded[d]
=============================================================================
