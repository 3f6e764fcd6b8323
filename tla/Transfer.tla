------------------------------- MODULE Transfer -------------------------------
(***************************************************************************)
(* Export and import of a workspace (internal/transfer/manager.go), which  *)
(* keeps rows in the database, snapshots in the vault and seed files in a  *)
(* directory.  An import merges an archive in one transaction, under the   *)
(* lock that every write takes; the seed directory is exchanged by renames *)
(* before the commit and put back after a failure, when the lock is free   *)
(* again.  Any step may fail and the process may stop between any two.     *)
(*                                                                         *)
(* A row is an id and the hash of the snapshot it is of, a seed file a     *)
(* name and its contents; an empty set of files is a missing directory.    *)
(***************************************************************************)
EXTENDS Integers, FiniteSets

CONSTANTS
  Archives,      \* what may be uploaded: [rows, seeds, snaps]
  Processes,     \* API processes: one transfer at a time in each
  InitialRows,
  InitialSeeds,
  ReleaseSeeds,  \* the seeds that come with the program
  LocalRows,     \* rows the rest of the program may save
  TransferFaults \* bound: failures and crashes

\* Two different things under one name.
Clash(A, B) == \E x \in A, y \in B : x[1] = y[1] /\ x[2] # y[2]

Hashes(rs) == {r[2] : r \in rs}

\* Prepare refuses an archive that lacks the snapshot of a revision.
Complete(a) == Hashes(a.rows) \subseteq a.snaps

AllRows == InitialRows \cup LocalRows \cup UNION {a.rows : a \in Archives}
AllSeeds == InitialSeeds \cup ReleaseSeeds \cup UNION {a.seeds : a \in Archives}
AllSnaps == Hashes(AllRows) \cup UNION {a.snaps : a \in Archives}
Archive == [rows : SUBSET AllRows, seeds : SUBSET AllSeeds, snaps : SUBSET AllSnaps]

ASSUME TransferAssumption == TransferFaults \in Nat /\ Archives \subseteq Archive

VARIABLES
  rows, snaps, seeds,  \* the workspace
  exported,            \* archives this instance made
  phase,               \* where an import stands
  upload,              \* the archive a process imports, {} for none
  stage, aside,        \* the merged seeds and the seeds moved aside, in .transfer-*
  left,                \* seeds in the .transfer-* of crashed imports
  faultsSeen,
  mishaps,             \* history: what the properties do not promise anything after
  promised             \* history: the first seeds and those of applied archives

workspace == <<rows, snaps, seeds>>
transferHistory == <<faultsSeen, mishaps, promised>>
transferVars == <<workspace, exported, phase, upload, stage, aside, left, transferHistory>>

InTx == {"snapshots", "move", "place", "commit"}
Restoring == {"remove", "putback"}

TransferTypeOK ==
  /\ rows \subseteq AllRows /\ seeds \subseteq AllSeeds /\ snaps \subseteq AllSnaps
  /\ exported \subseteq Archive
  /\ phase \in [Processes -> {"idle", "ready"} \cup InTx \cup Restoring]
  /\ upload \in [Processes -> SUBSET Archive]
  /\ stage \in [Processes -> SUBSET AllSeeds] /\ aside \in [Processes -> SUBSET AllSeeds]
  /\ left \subseteq AllSeeds
  /\ faultsSeen \in 0..TransferFaults
  /\ mishaps \subseteq {"crash", "doubt", "restore", "overlap"}
  /\ promised \subseteq AllSeeds

TransferInit ==
  /\ rows = InitialRows /\ snaps = Hashes(InitialRows) /\ seeds = InitialSeeds
  /\ exported = {}
  /\ phase = [i \in Processes |-> "idle"]
  /\ upload = [i \in Processes |-> {}]
  /\ stage = [i \in Processes |-> {}] /\ aside = [i \in Processes |-> {}]
  /\ left = {}
  /\ faultsSeen = 0 /\ mishaps = {} /\ promised = InitialSeeds

\* pg_advisory_xact_lock: nobody else writes to the database.
Unlocked == \A i \in Processes : phase[i] \notin InTx

Advance(i, point) == phase' = [phase EXCEPT ![i] = point]

Fault == faultsSeen < TransferFaults /\ faultsSeen' = faultsSeen + 1

\* The handler returns and deletes its .transfer-*, with whatever is in it.
Return(i) ==
  /\ Advance(i, "idle")
  /\ upload' = [upload EXCEPT ![i] = {}]
  /\ stage' = [stage EXCEPT ![i] = {}] /\ aside' = [aside EXCEPT ![i] = {}]

-----------------------------------------------------------------------------
(* The rest of the program. *)

\* A snapshot is written before the row that is of it.
LocalSave(r) ==
  /\ Unlocked
  /\ rows' = {q \in rows : q[1] # r[1]} \cup {r}
  /\ snaps' = snaps \cup {r[2]}
  /\ UNCHANGED <<seeds, exported, phase, upload, stage, aside, left, transferHistory>>

\* Export reads all in one transaction.  It fails if a snapshot is missing; for a
\* seed directory that is missing it takes the seeds of the release.
Export(i) ==
  /\ phase[i] = "idle" /\ Unlocked
  /\ Hashes(rows) \subseteq snaps
  /\ exported' = {[rows |-> rows, snaps |-> Hashes(rows),
                   seeds |-> IF seeds = {} THEN ReleaseSeeds ELSE seeds]}
  /\ UNCHANGED <<workspace, phase, upload, stage, aside, left, transferHistory>>

-----------------------------------------------------------------------------
(* Import. *)

\* A Prepare that does not look for the snapshots.
PrepareUnchecked(i, a) ==
  /\ phase[i] = "idle"
  /\ upload' = [upload EXCEPT ![i] = {a}]
  /\ Advance(i, "ready")
  /\ UNCHANGED <<workspace, exported, stage, aside, left, transferHistory>>

\* Prepare with the right key; without it the archive is refused.
Prepare(i, a) ==
  /\ phase[i] = "idle"
  /\ Complete(a)
  /\ upload' = [upload EXCEPT ![i] = {a}]
  /\ Advance(i, "ready")
  /\ UNCHANGED <<workspace, exported, stage, aside, left, transferHistory>>

\* The transaction begins.  A job that is queued or running, a row or a seed file
\* that differs refuses the archive, and a preview is rolled back here.
Refuse(i) ==
  /\ phase[i] = "ready" /\ Unlocked
  /\ Return(i)
  /\ UNCHANGED <<workspace, exported, left, transferHistory>>

Merge(i, a) ==
  /\ phase[i] = "ready" /\ Unlocked /\ upload[i] = {a}
  /\ ~Clash(rows, a.rows) /\ ~Clash(seeds, a.seeds)
  /\ stage' = [stage EXCEPT ![i] = IF a.seeds = {} THEN {} ELSE seeds \cup a.seeds]
  /\ Advance(i, "snapshots")
  /\ mishaps' = IF \E j \in Processes : phase[j] \in Restoring
                THEN mishaps \cup {"overlap"} ELSE mishaps
  /\ UNCHANGED <<workspace, exported, upload, aside, left, faultsSeen, promised>>

\* The snapshots that the vault does not have.
WriteSnapshots(i, a) ==
  /\ phase[i] = "snapshots" /\ upload[i] = {a}
  /\ snaps' = snaps \cup a.snaps
  /\ Advance(i, IF a.seeds = {} THEN "commit" ELSE "move")
  /\ UNCHANGED <<rows, seeds, exported, upload, stage, aside, left, transferHistory>>

\* rename(seeds, previous-seeds), if there were any.
MoveSeeds(i) ==
  /\ phase[i] = "move"
  /\ aside' = [aside EXCEPT ![i] = seeds]
  /\ seeds' = {}
  /\ Advance(i, "place")
  /\ UNCHANGED <<rows, snaps, exported, upload, stage, left, transferHistory>>

\* rename(merged-seeds, seeds) fails on a directory that is there again.
PlaceSeeds(i) ==
  /\ phase[i] = "place" /\ seeds = {}
  /\ seeds' = stage[i]
  /\ stage' = [stage EXCEPT ![i] = {}]
  /\ Advance(i, "commit")
  /\ UNCHANGED <<rows, snaps, exported, upload, aside, left, transferHistory>>

\* An error in the transaction before the seeds are exchanged: it is rolled back.
FailEarly(i) ==
  /\ Fault
  /\ phase[i] \in {"snapshots", "move"}
  /\ \E more \in SUBSET UNION {a.snaps : a \in upload[i]} : snaps' = snaps \cup more
  /\ Return(i)
  /\ UNCHANGED <<rows, seeds, exported, left, mishaps, promised>>

\* The second rename fails; the first is undone, unless that fails too.
FailPlace(i) ==
  /\ phase[i] = "place"
  /\ Fault
  /\ \/ seeds = {} /\ seeds' = aside[i] /\ UNCHANGED mishaps
     \/ UNCHANGED seeds /\ mishaps' = mishaps \cup {"restore"}
  /\ Return(i)
  /\ UNCHANGED <<rows, snaps, exported, left, promised>>

\* Some other import has put its seeds back in between.
PlaceRefused(i) ==
  /\ phase[i] = "place" /\ seeds # {}
  /\ Return(i)
  /\ UNCHANGED <<workspace, exported, left, transferHistory>>

Commit(i, a) ==
  /\ phase[i] = "commit" /\ upload[i] = {a}
  /\ rows' = rows \cup a.rows
  /\ promised' = promised \cup a.seeds
  /\ Return(i)
  /\ UNCHANGED <<snaps, seeds, exported, left, faultsSeen, mishaps>>

\* A failed commit that leaves the new seeds where they are.
FailCommitKeeping(i, a) ==
  /\ phase[i] = "commit" /\ upload[i] = {a}
  /\ Fault
  /\ Return(i)
  /\ UNCHANGED <<workspace, exported, left, mishaps, promised>>

\* The commit or the audit before it fails, or its answer is lost although the
\* rows are there.  The lock is free from now on.
FailCommit(i, a) ==
  /\ phase[i] = "commit" /\ upload[i] = {a}
  /\ Fault
  /\ \/ UNCHANGED <<rows, mishaps>>
     \/ rows' = rows \cup a.rows /\ mishaps' = mishaps \cup {"doubt"}
  /\ IF a.seeds = {} THEN Return(i)
     ELSE Advance(i, "remove") /\ UNCHANGED <<upload, stage, aside>>
  /\ UNCHANGED <<snaps, seeds, exported, left, promised>>

\* The deferred restore: RemoveAll(seeds), which may stop halfway ...
RemoveSeeds(i) ==
  /\ phase[i] = "remove"
  /\ \/ seeds' = {} /\ UNCHANGED <<faultsSeen, mishaps>>
     \/ /\ Fault
        /\ seeds' \in SUBSET seeds
        /\ mishaps' = mishaps \cup {"restore"}
  /\ Advance(i, "putback")
  /\ UNCHANGED <<rows, snaps, exported, upload, stage, aside, left, promised>>

\* A restore that forgets to put the seeds back.
ForgetSeeds(i) ==
  /\ phase[i] = "putback"
  /\ Return(i)
  /\ UNCHANGED <<workspace, exported, left, transferHistory>>

\* ... and rename(previous-seeds, seeds), whose error nobody sees.
PutBack(i) ==
  /\ phase[i] = "putback"
  /\ \/ /\ seeds' = IF seeds = {} THEN aside[i] ELSE seeds
        /\ UNCHANGED <<faultsSeen, mishaps>>
     \/ /\ Fault
        /\ mishaps' = mishaps \cup {"restore"}
        /\ UNCHANGED seeds
  /\ Return(i)
  /\ UNCHANGED <<rows, snaps, exported, left, promised>>

\* The process stops and starts again; the database rolls back, or has the commit.
CrashImport(i) ==
  /\ phase[i] # "idle"
  /\ Fault
  /\ rows' \in {rows} \cup {rows \cup a.rows : a \in IF phase[i] = "commit" THEN upload[i] ELSE {}}
  /\ left' = left \cup aside[i]
  /\ mishaps' = mishaps \cup {"crash"}
  /\ Return(i)
  /\ UNCHANGED <<snaps, seeds, exported, promised>>

TransferNext ==
  \/ \E r \in LocalRows : LocalSave(r)
  \/ \E i \in Processes :
       \/ Export(i) \/ Refuse(i) \/ MoveSeeds(i) \/ PlaceSeeds(i)
       \/ FailEarly(i) \/ FailPlace(i) \/ PlaceRefused(i)
       \/ RemoveSeeds(i) \/ PutBack(i) \/ CrashImport(i)
       \/ \E a \in Archives \cup exported :
            \/ Prepare(i, a) \/ Merge(i, a) \/ WriteSnapshots(i, a)
            \/ Commit(i, a) \/ FailCommit(i, a)

TransferSpec == TransferInit /\ [][TransferNext]_transferVars

-----------------------------------------------------------------------------
(* Properties. *)

\* docs/data-transfer.md: a failed import puts the seeds back.  When no import is
\* under way, the seed files are the first ones and those of the archives whose
\* import was reported applied, whatever failed; unless a process stopped, a
\* commit was in doubt, a restore failed, or an import of another process began
\* before the restore of one that failed had ended.
SeedsFollowRows ==
  (\A i \in Processes : phase[i] = "idle") /\ mishaps = {} => seeds = promised

\* The seeds are never lost: at every moment, and after a stop at any moment, each
\* is in the directory or in some .transfer-* beside it, as long as no restore
\* failed or was overtaken by the import of another process.
SeedsKept ==
  mishaps \cap {"restore", "overlap"} = {} =>
    promised \subseteq seeds \cup left \cup UNION {aside[i] : i \in Processes}

\* docs/data-transfer.md: archives that lack a snapshot are refused.  Every
\* revision has its snapshot in the vault, whichever archives were imported, and
\* however an import ended.
RowsHaveSnapshots == Hashes(rows) \subseteq snaps
=============================================================================
