---------------------------- MODULE TransferProofs ----------------------------
(***************************************************************************)
(* Proofs about Transfer for every workspace, every set of archives, every *)
(* number of processes and every number of failures and crashes.           *)
(***************************************************************************)
EXTENDS Transfer, TLAPS

\* An import has one archive, and it is complete; so is what is exported.
UploadsOne == \A i \in Processes : phase[i] # "idle" => \E a \in Archive : upload[i] = {a}
UploadsComplete ==
  /\ \A a \in exported : Complete(a)
  /\ \A i \in Processes : \A a \in upload[i] : Complete(a)

\* The snapshots are in the vault before the rows are.
SnapshotsFirst ==
  \A i \in Processes : phase[i] \in {"move", "place", "commit"} =>
    \A a \in upload[i] : a.snaps \subseteq snaps

Active == InTx \cup Restoring
Away == {"place", "commit"} \cup Restoring

\* H are the seeds of the last import that succeeded, and this is where they are:
\* in the directory, or aside while an import that is under way has moved them.
\* One import at a time is in its transaction or restores; the seeds promised are
\* among H and what crashed imports left, and are H as long as nothing went wrong.
SeedsAt(H) ==
  /\ \A i, j \in Processes : phase[i] \in Active /\ phase[j] \in Active => i = j
  /\ (\A i \in Processes : phase[i] \notin Away) => seeds = H
  /\ \A i \in Processes :
       /\ phase[i] \in {"place", "remove", "putback"} => aside[i] = H
       /\ phase[i] \in {"place", "putback"} => seeds = {}
       /\ \A a \in upload[i] :
            /\ phase[i] \in {"snapshots", "move"} =>
                 stage[i] = IF a.seeds = {} THEN {} ELSE seeds \cup a.seeds
            /\ phase[i] \in {"move", "place"} => a.seeds # {}
            /\ phase[i] = "place" => stage[i] = H \cup a.seeds
            /\ phase[i] = "commit" =>
                 IF a.seeds = {} THEN seeds = H ELSE aside[i] = H /\ seeds = H \cup a.seeds
  /\ promised \subseteq H \cup left
  /\ mishaps = {} => promised = H

Calm == mishaps \cap {"restore", "overlap"} = {}
SeedsHome == Calm => \E H \in SUBSET AllSeeds : SeedsAt(H)

Whole == TransferTypeOK /\ UploadsOne /\ UploadsComplete /\ SnapshotsFirst /\ RowsHaveSnapshots
IInv == Whole /\ SeedsHome

-----------------------------------------------------------------------------
(* Rows and snapshots. *)

LEMMA HashesUnion ==
  /\ \A A, B : Hashes(A \cup B) = Hashes(A) \cup Hashes(B)
  /\ \A A, B : A \subseteq B => Hashes(A) \subseteq Hashes(B)
BY DEF Hashes

\* The handler returns: what is left of the invariant's parts is about the others.
LEMMA Returns ==
  ASSUME Whole, NEW i \in Processes, Return(i), UNCHANGED exported,
         snaps \subseteq snaps'
  PROVE  /\ phase' \in [Processes -> {"idle", "ready"} \cup InTx \cup Restoring]
         /\ upload' \in [Processes -> SUBSET Archive]
         /\ stage' \in [Processes -> SUBSET AllSeeds] /\ aside' \in [Processes -> SUBSET AllSeeds]
         /\ UploadsOne' /\ UploadsComplete' /\ SnapshotsFirst'
<1> USE DEF Return, Advance, Whole, TransferTypeOK
<1>1. /\ phase' \in [Processes -> {"idle", "ready"} \cup InTx \cup Restoring]
      /\ upload' \in [Processes -> SUBSET Archive]
      /\ stage' \in [Processes -> SUBSET AllSeeds] /\ aside' \in [Processes -> SUBSET AllSeeds]
  OBVIOUS
<1>2. UploadsOne' /\ UploadsComplete'
  BY DEF UploadsOne, UploadsComplete
<1>3. SnapshotsFirst'
  BY DEF SnapshotsFirst
<1> QED BY <1>1, <1>2, <1>3

\* An import goes on: its archive stays.
LEMMA Advances ==
  ASSUME Whole, NEW i \in Processes, NEW point \in Active, Advance(i, point),
         UNCHANGED <<upload, exported>>, snaps \subseteq snaps', phase[i] # "idle",
         point \in {"move", "place", "commit"} => \A a \in upload[i] : a.snaps \subseteq snaps'
  PROVE  /\ phase' \in [Processes -> {"idle", "ready"} \cup InTx \cup Restoring]
         /\ UploadsOne' /\ UploadsComplete' /\ SnapshotsFirst'
<1> USE DEF Advance, Whole, TransferTypeOK
<1>1. phase' \in [Processes -> {"idle", "ready"} \cup InTx \cup Restoring]
  BY DEF Active
<1>2. UploadsOne' /\ UploadsComplete'
  BY DEF UploadsOne, UploadsComplete
<1>3. SnapshotsFirst'
  BY DEF SnapshotsFirst
<1> QED BY <1>1, <1>2, <1>3

LEMMA FaultType ==
  ASSUME TransferTypeOK, Fault PROVE faultsSeen' \in 0..TransferFaults
BY TransferAssumption DEF TransferTypeOK, Fault

LEMMA LocalSaveWhole == ASSUME Whole, NEW r \in LocalRows, LocalSave(r) PROVE Whole'
<1> USE DEF Whole, LocalSave, workspace, transferHistory
<1>1. r \in AllRows /\ r[2] \in Hashes(AllRows)
  BY DEF AllRows, Hashes
<1>2. rows' \subseteq AllRows /\ snaps' \subseteq AllSnaps
  BY <1>1 DEF TransferTypeOK, AllSnaps
<1>3. TransferTypeOK'
  BY <1>2 DEF TransferTypeOK
<1>4. UploadsOne' /\ UploadsComplete' /\ SnapshotsFirst'
  BY DEF UploadsOne, UploadsComplete, SnapshotsFirst
<1>5. RowsHaveSnapshots'
  BY DEF RowsHaveSnapshots, Hashes
<1> QED BY <1>3, <1>4, <1>5

LEMMA ExportWhole == ASSUME Whole, NEW i \in Processes, Export(i) PROVE Whole'
<1> USE DEF Whole, Export, workspace, transferHistory
<1> DEFINE a == [rows |-> rows, snaps |-> Hashes(rows),
                 seeds |-> IF seeds = {} THEN ReleaseSeeds ELSE seeds]
<1>1. Hashes(rows) \in SUBSET AllSnaps /\ ReleaseSeeds \in SUBSET AllSeeds
  BY HashesUnion DEF TransferTypeOK, AllSnaps, AllSeeds
<1>2. a \in Archive /\ Complete(a)
  BY <1>1 DEF TransferTypeOK, Archive, Complete
<1>3. exported' = {a}
  OBVIOUS
<1> HIDE DEF a
<1>4. TransferTypeOK'
  BY <1>2, <1>3 DEF TransferTypeOK
<1>5. UploadsOne' /\ UploadsComplete' /\ SnapshotsFirst'
  BY <1>2, <1>3 DEF UploadsOne, UploadsComplete, SnapshotsFirst
<1> QED BY <1>4, <1>5 DEF RowsHaveSnapshots

LEMMA PrepareWhole ==
  ASSUME Whole, NEW i \in Processes, NEW a \in Archives \cup exported, Prepare(i, a)
  PROVE  Whole'
<1> USE DEF Whole, Prepare, Advance, workspace, transferHistory
<1>1. a \in Archive
  BY TransferAssumption DEF TransferTypeOK
<1>2. TransferTypeOK'
  BY <1>1 DEF TransferTypeOK
<1>3. UploadsOne' /\ UploadsComplete' /\ SnapshotsFirst'
  BY <1>1 DEF UploadsOne, UploadsComplete, SnapshotsFirst, TransferTypeOK
<1> QED BY <1>2, <1>3 DEF RowsHaveSnapshots

LEMMA RefuseWhole == ASSUME Whole, NEW i \in Processes, Refuse(i) PROVE Whole'
<1>1. Return(i) /\ UNCHANGED <<workspace, exported, left, transferHistory>>
  BY DEF Refuse
<1> QED BY <1>1, Returns DEF Whole, TransferTypeOK, RowsHaveSnapshots, workspace, transferHistory

LEMMA MergeWhole ==
  ASSUME Whole, NEW i \in Processes, NEW a \in Archives \cup exported, Merge(i, a)
  PROVE  Whole'
<1> USE DEF Whole, workspace, transferHistory
<1>1. a \in Archive /\ a.seeds \in SUBSET AllSeeds
  BY TransferAssumption DEF TransferTypeOK, Archive
<1>2. "snapshots" \in Active /\ phase[i] # "idle" /\ Advance(i, "snapshots")
  BY DEF Active, InTx, Merge
<1>3. stage' \in [Processes -> SUBSET AllSeeds]
  BY <1>1 DEF Merge, TransferTypeOK
<1>4. mishaps' \subseteq {"crash", "doubt", "restore", "overlap"}
  BY DEF Merge, TransferTypeOK
<1> QED BY <1>2, <1>3, <1>4, Advances DEF Merge, TransferTypeOK, RowsHaveSnapshots

LEMMA WriteSnapshotsWhole ==
  ASSUME Whole, NEW i \in Processes, NEW a \in Archives \cup exported, WriteSnapshots(i, a)
  PROVE  Whole'
<1> USE DEF Whole, workspace, transferHistory
<1> DEFINE point == IF a.seeds = {} THEN "commit" ELSE "move"
<1>1. a.snaps \in SUBSET AllSnaps
  BY TransferAssumption DEF TransferTypeOK, Archive
<1>2. point \in Active /\ phase[i] # "idle" /\ Advance(i, point)
  BY DEF Active, InTx, WriteSnapshots
<1> HIDE DEF point
<1>3. \A b \in upload[i] : b.snaps \subseteq snaps'
  BY DEF WriteSnapshots
<1>4. snaps' \subseteq AllSnaps /\ snaps \subseteq snaps' /\ UNCHANGED <<rows, upload, exported>>
  BY <1>1 DEF WriteSnapshots, TransferTypeOK
<1>5. /\ phase' \in [Processes -> {"idle", "ready"} \cup InTx \cup Restoring]
      /\ UploadsOne' /\ UploadsComplete' /\ SnapshotsFirst'
  BY <1>2, <1>3, <1>4, Advances
<1> QED BY <1>4, <1>5 DEF WriteSnapshots, TransferTypeOK, RowsHaveSnapshots

LEMMA MoveSeedsWhole == ASSUME Whole, NEW i \in Processes, MoveSeeds(i) PROVE Whole'
<1> USE DEF Whole, MoveSeeds, workspace, transferHistory
<1>1. "place" \in Active /\ phase[i] # "idle"
  BY DEF Active, InTx
<1>2. aside' \in [Processes -> SUBSET AllSeeds]
  BY DEF TransferTypeOK
<1>3. \A a \in upload[i] : a.snaps \subseteq snaps'
  BY DEF SnapshotsFirst
<1> QED BY <1>1, <1>2, <1>3, Advances DEF TransferTypeOK, RowsHaveSnapshots

LEMMA PlaceSeedsWhole == ASSUME Whole, NEW i \in Processes, PlaceSeeds(i) PROVE Whole'
<1> USE DEF Whole, PlaceSeeds, workspace, transferHistory
<1>1. "commit" \in Active /\ phase[i] # "idle"
  BY DEF Active, InTx
<1>2. stage' \in [Processes -> SUBSET AllSeeds] /\ seeds' \subseteq AllSeeds
  BY DEF TransferTypeOK
<1>3. \A a \in upload[i] : a.snaps \subseteq snaps'
  BY DEF SnapshotsFirst
<1> QED BY <1>1, <1>2, <1>3, Advances DEF TransferTypeOK, RowsHaveSnapshots

LEMMA FailEarlyWhole == ASSUME Whole, NEW i \in Processes, FailEarly(i) PROVE Whole'
<1> USE DEF Whole, FailEarly
<1>1. PICK more \in SUBSET UNION {a.snaps : a \in upload[i]} : snaps' = snaps \cup more
  OBVIOUS
<1>2. more \subseteq AllSnaps
  BY DEF TransferTypeOK, Archive
<1>3. snaps' \subseteq AllSnaps /\ snaps \subseteq snaps'
  BY <1>1, <1>2 DEF TransferTypeOK
<1> QED BY <1>3, FaultType, Returns DEF TransferTypeOK, RowsHaveSnapshots

LEMMA FailPlaceWhole == ASSUME Whole, NEW i \in Processes, FailPlace(i) PROVE Whole'
<1> USE DEF Whole, FailPlace
<1>1. /\ seeds' \subseteq AllSeeds
      /\ mishaps' \subseteq {"crash", "doubt", "restore", "overlap"}
  BY DEF TransferTypeOK
<1> QED BY <1>1, FaultType, Returns DEF TransferTypeOK, RowsHaveSnapshots

LEMMA PlaceRefusedWhole == ASSUME Whole, NEW i \in Processes, PlaceRefused(i) PROVE Whole'
<1>1. Return(i) /\ UNCHANGED <<workspace, exported, left, transferHistory>>
  BY DEF PlaceRefused
<1> QED BY <1>1, Returns DEF Whole, TransferTypeOK, RowsHaveSnapshots, workspace, transferHistory

\* The rows of the archive i imports join the others.
LEMMA JoinsRows ==
  ASSUME Whole, NEW i \in Processes, phase[i] = "commit", NEW a \in upload[i],
         rows' \in {rows, rows \cup a.rows}, snaps' = snaps
  PROVE  rows' \subseteq AllRows /\ RowsHaveSnapshots'
<1>1. a \in Archive /\ a.rows \subseteq AllRows
  BY DEF Whole, TransferTypeOK, Archive
<1>2. Hashes(a.rows) \subseteq snaps
  BY DEF Whole, UploadsComplete, Complete, SnapshotsFirst
<1>3. Hashes(rows) \subseteq snaps
  BY DEF Whole, RowsHaveSnapshots
<1> QED BY <1>1, <1>2, <1>3, HashesUnion DEF Whole, TransferTypeOK, RowsHaveSnapshots

LEMMA CommitWhole ==
  ASSUME Whole, NEW i \in Processes, NEW a \in Archives \cup exported, Commit(i, a)
  PROVE  Whole'
<1>1. rows' \subseteq AllRows /\ RowsHaveSnapshots'
  BY JoinsRows DEF Commit
<1>2. promised' \subseteq AllSeeds
  BY TransferAssumption DEF Whole, Commit, TransferTypeOK, Archive
<1> QED BY <1>1, <1>2, Returns DEF Whole, Commit, TransferTypeOK

LEMMA FailCommitWhole ==
  ASSUME Whole, NEW i \in Processes, NEW a \in Archives \cup exported, FailCommit(i, a)
  PROVE  Whole'
<1>1. rows' \subseteq AllRows /\ RowsHaveSnapshots'
  BY JoinsRows DEF FailCommit
<1>2. mishaps' \subseteq {"crash", "doubt", "restore", "overlap"}
  BY DEF Whole, FailCommit, TransferTypeOK
<1>3. CASE a.seeds = {}
  BY <1>1, <1>2, <1>3, FaultType, Returns DEF Whole, FailCommit, TransferTypeOK
<1>4. CASE a.seeds # {}
  <2>1. "remove" \in Active /\ phase[i] # "idle" /\ Advance(i, "remove")
    BY <1>4 DEF Active, Restoring, FailCommit
  <2> QED BY <1>1, <1>2, <1>4, <2>1, FaultType, Advances DEF Whole, FailCommit, TransferTypeOK
<1> QED BY <1>3, <1>4

LEMMA RemoveSeedsWhole == ASSUME Whole, NEW i \in Processes, RemoveSeeds(i) PROVE Whole'
<1> USE DEF Whole, RemoveSeeds
<1>1. "putback" \in Active /\ phase[i] # "idle"
  BY DEF Active, Restoring
<1>2. /\ seeds' \subseteq AllSeeds /\ faultsSeen' \in 0..TransferFaults
      /\ mishaps' \subseteq {"crash", "doubt", "restore", "overlap"}
  BY FaultType DEF TransferTypeOK
<1> QED BY <1>1, <1>2, Advances DEF TransferTypeOK, RowsHaveSnapshots

LEMMA PutBackWhole == ASSUME Whole, NEW i \in Processes, PutBack(i) PROVE Whole'
<1> USE DEF Whole, PutBack
<1>1. /\ seeds' \subseteq AllSeeds /\ faultsSeen' \in 0..TransferFaults
      /\ mishaps' \subseteq {"crash", "doubt", "restore", "overlap"}
  BY FaultType DEF TransferTypeOK
<1> QED BY <1>1, Returns DEF TransferTypeOK, RowsHaveSnapshots

LEMMA CrashImportWhole == ASSUME Whole, NEW i \in Processes, CrashImport(i) PROVE Whole'
<1> USE DEF CrashImport
<1>1. rows' \subseteq AllRows /\ RowsHaveSnapshots'
  <2>1. CASE rows' = rows
    BY <2>1 DEF Whole, TransferTypeOK, RowsHaveSnapshots
  <2>2. CASE rows' # rows
    <3>1. phase[i] = "commit" /\ \E a \in upload[i] : rows' = rows \cup a.rows
      BY <2>2
    <3> QED BY <3>1, JoinsRows
  <2> QED BY <2>1, <2>2
<1>2. /\ left' \subseteq AllSeeds
      /\ mishaps' \subseteq {"crash", "doubt", "restore", "overlap"}
  BY DEF Whole, TransferTypeOK
<1> QED BY <1>1, <1>2, FaultType, Returns DEF Whole, TransferTypeOK

LEMMA WholeStep == ASSUME Whole, [TransferNext]_transferVars PROVE Whole'
<1>1. CASE UNCHANGED transferVars
  BY <1>1 DEF transferVars, workspace, transferHistory, Whole, TransferTypeOK, UploadsOne,
              UploadsComplete, SnapshotsFirst, RowsHaveSnapshots
<1> QED BY <1>1, LocalSaveWhole, ExportWhole, PrepareWhole, RefuseWhole, MergeWhole,
           WriteSnapshotsWhole, MoveSeedsWhole, PlaceSeedsWhole, FailEarlyWhole, FailPlaceWhole,
           PlaceRefusedWhole, CommitWhole, FailCommitWhole, RemoveSeedsWhole, PutBackWhole,
           CrashImportWhole DEF TransferNext
-----------------------------------------------------------------------------
(* The seeds. *)

\* A step that is not about the seeds of an import: whoever is active stays so, where
\* it is, and its archive is the same.
LEMMA SeedsStay ==
  ASSUME NEW H, SeedsAt(H), UNCHANGED <<seeds, left, promised, mishaps>>,
         \A j \in Processes : phase'[j] \in Active =>
           /\ phase'[j] = phase[j] /\ upload'[j] = upload[j]
           /\ stage'[j] = stage[j] /\ aside'[j] = aside[j],
         \A j \in Processes : phase[j] \in Active => phase'[j] = phase[j]
  PROVE  SeedsAt(H)'
BY DEF SeedsAt, Active, Away, InTx, Restoring

\* The one active import returns and all the seeds are in the directory.
LEMMA SeedsReturn ==
  ASSUME Whole, NEW H, SeedsAt(H), NEW i \in Processes, phase[i] \in Active, Return(i),
         NEW G, seeds' = G, promised' \subseteq G \cup left', mishaps' = {} => promised' = G
  PROVE  SeedsAt(G)'
<1>1. \A j \in Processes : phase'[j] \notin Active
  BY DEF Whole, TransferTypeOK, Return, Advance, SeedsAt, Active, InTx, Restoring
<1> QED BY <1>1 DEF SeedsAt, Active, Away, InTx, Restoring

\* The active import moves on: the others do not matter.
LEMMA OthersRest ==
  ASSUME Whole, NEW H, SeedsAt(H), NEW i \in Processes, phase[i] \in Active, NEW point \in Active,
         Advance(i, point)
  PROVE  phase'[i] = point /\ \A j \in Processes \ {i} : phase'[j] \notin Active /\ j # i
BY DEF Whole, TransferTypeOK, Advance, SeedsAt, Active, InTx, Restoring

LEMMA MergeSeeds ==
  ASSUME Whole, NEW H, SeedsAt(H), NEW i \in Processes, NEW a, Merge(i, a), Calm'
  PROVE  SeedsAt(H)'
<1>1. \A j \in Processes : phase[j] \notin Active
  BY DEF Merge, Unlocked, Calm, Active
<1>2. mishaps' = mishaps
  BY <1>1 DEF Merge, Active
<1>3. phase'[i] = "snapshots" /\ \A j \in Processes \ {i} : phase'[j] \notin Active
  BY <1>1 DEF Merge, Advance, Whole, TransferTypeOK
<1>4. stage'[i] = IF a.seeds = {} THEN {} ELSE seeds \cup a.seeds
  BY DEF Merge, Whole, TransferTypeOK
<1>5. seeds = H
  BY <1>1 DEF SeedsAt, Active, Away, InTx
<1>6. UNCHANGED <<seeds, left, promised, upload>> /\ upload[i] = {a}
  BY DEF Merge, workspace
<1>7. "snapshots" \notin Away \cup {"move"} /\ Away \cup {"snapshots", "move"} = Active
  BY DEF Active, Away, InTx, Restoring
<1>8. \A j, l \in Processes : phase'[j] \in Active /\ phase'[l] \in Active => j = l
  BY <1>3
<1>9. \A j \in Processes : phase'[j] \notin Away \cup {"move"}
  BY <1>3, <1>7
<1>10. \A j \in Processes : phase'[j] \notin {"move", "place", "remove", "putback", "commit"}
  BY <1>9 DEF Away, Restoring
<1>11. \A j \in Processes : phase'[j] = "snapshots" =>
         \A b \in upload'[j] : stage'[j] = IF b.seeds = {} THEN {} ELSE seeds' \cup b.seeds
  BY <1>3, <1>4, <1>6, <1>7
<1>12. /\ (\A j \in Processes : phase'[j] \notin Away) => seeds' = H
       /\ promised' \subseteq H \cup left' /\ (mishaps' = {} => promised' = H)
  BY <1>2, <1>5, <1>6 DEF SeedsAt
<1> QED BY <1>8, <1>10, <1>11, <1>12 DEF SeedsAt

LEMMA WriteSnapshotsSeeds ==
  ASSUME Whole, NEW H, SeedsAt(H), NEW i \in Processes, NEW a, WriteSnapshots(i, a)
  PROVE  SeedsAt(H)'
<1> DEFINE point == IF a.seeds = {} THEN "commit" ELSE "move"
<1>1. phase[i] = "snapshots" /\ phase[i] \in Active /\ point \in Active /\ Advance(i, point)
  BY DEF WriteSnapshots, Active, InTx
<1>2. phase'[i] = point /\ \A j \in Processes \ {i} : phase'[j] \notin Active
  BY <1>1, OthersRest
<1>3. \A j \in Processes : phase[j] \notin Away
  BY <1>1 DEF SeedsAt, Active, Away, InTx, Restoring
<1>4. /\ UNCHANGED <<seeds, left, promised, upload, stage, aside, mishaps>> /\ upload[i] = {a}
      /\ seeds = H
  BY <1>3 DEF WriteSnapshots, transferHistory, SeedsAt
<1> QED BY <1>1, <1>2, <1>4 DEF SeedsAt, Active, Away, InTx, Restoring

LEMMA MoveSeedsSeeds ==
  ASSUME Whole, NEW H, SeedsAt(H), NEW i \in Processes, MoveSeeds(i)
  PROVE  SeedsAt(H)'
<1>1. phase[i] = "move" /\ phase[i] \in Active /\ "place" \in Active /\ Advance(i, "place")
  BY DEF MoveSeeds, Active, InTx
<1>2. phase'[i] = "place" /\ \A j \in Processes \ {i} : phase'[j] \notin Active
  BY <1>1, OthersRest
<1>3. \A j \in Processes : phase[j] \notin Away
  BY <1>1 DEF SeedsAt, Active, Away, InTx, Restoring
<1>4. seeds = H /\ aside'[i] = seeds /\ seeds' = {}
  BY <1>3 DEF MoveSeeds, SeedsAt, Whole, TransferTypeOK
<1>5. UNCHANGED <<left, promised, upload, stage, mishaps>>
  BY DEF MoveSeeds, transferHistory
<1>6. \A a \in upload[i] : a.seeds # {} /\ stage[i] = H \cup a.seeds
  BY <1>1, <1>4 DEF SeedsAt
<1> QED BY <1>2, <1>4, <1>5, <1>6 DEF SeedsAt, Active, Away, InTx, Restoring

LEMMA PlaceSeedsSeeds ==
  ASSUME Whole, NEW H, SeedsAt(H), NEW i \in Processes, PlaceSeeds(i)
  PROVE  SeedsAt(H)'
<1>1. phase[i] = "place" /\ phase[i] \in Active /\ "commit" \in Active /\ Advance(i, "commit")
  BY DEF PlaceSeeds, Active, InTx
<1>2. phase'[i] = "commit" /\ \A j \in Processes \ {i} : phase'[j] \notin Active
  BY <1>1, OthersRest
<1>3. /\ seeds' = stage[i] /\ aside[i] = H
      /\ UNCHANGED <<left, promised, upload, aside, mishaps>>
  BY <1>1 DEF PlaceSeeds, transferHistory, SeedsAt
<1>4. \A a \in upload[i] : a.seeds # {} /\ stage[i] = H \cup a.seeds
  BY <1>1 DEF SeedsAt
<1> QED BY <1>2, <1>3, <1>4 DEF SeedsAt, Active, Away, InTx, Restoring

\* A failure with the seeds in their directory.
LEMMA FailEarlySeeds ==
  ASSUME Whole, NEW H, SeedsAt(H), NEW i \in Processes, FailEarly(i)
  PROVE  SeedsAt(H)'
<1>1. phase[i] \in Active /\ phase[i] \in {"snapshots", "move"}
  BY DEF FailEarly, Active, InTx
<1>2. \A j \in Processes : phase[j] \notin Away
  BY <1>1 DEF SeedsAt, Active, Away, InTx, Restoring
<1>3. seeds' = H /\ UNCHANGED <<left, promised, mishaps>> /\ Return(i)
  BY <1>2 DEF FailEarly, SeedsAt
<1>4. promised' \subseteq H \cup left' /\ (mishaps' = {} => promised' = H)
  BY <1>3 DEF SeedsAt
<1> QED BY <1>1, <1>3, <1>4, SeedsReturn

LEMMA FailPlaceSeeds ==
  ASSUME Whole, NEW H, SeedsAt(H), NEW i \in Processes, FailPlace(i), Calm'
  PROVE  SeedsAt(H)'
<1>1. phase[i] \in Active /\ phase[i] = "place"
  BY DEF FailPlace, Active, InTx
<1>2. seeds' = H /\ UNCHANGED <<left, promised, mishaps>> /\ Return(i)
  BY <1>1 DEF FailPlace, SeedsAt, Calm
<1>3. promised' \subseteq H \cup left' /\ (mishaps' = {} => promised' = H)
  BY <1>2 DEF SeedsAt
<1> QED BY <1>1, <1>2, <1>3, SeedsReturn

\* The commit: the seeds of the archive are promised from now on, and they are there.
LEMMA CommitSeeds ==
  ASSUME Whole, NEW H, SeedsAt(H), NEW i \in Processes, NEW a, Commit(i, a),
         NEW G, seeds = G
  PROVE  SeedsAt(G)'
<1>1. phase[i] \in Active /\ phase[i] = "commit" /\ upload[i] = {a}
  BY DEF Commit, Active, InTx
<1>2. /\ seeds' = G /\ promised' = promised \cup a.seeds /\ UNCHANGED <<left, mishaps>>
      /\ Return(i)
  BY DEF Commit
<1>3. G = H \cup a.seeds
  BY <1>1 DEF SeedsAt
<1>4. promised' \subseteq G \cup left' /\ (mishaps' = {} => promised' = G)
  BY <1>2, <1>3 DEF SeedsAt
<1> QED BY <1>1, <1>2, <1>4, SeedsReturn

LEMMA FailCommitSeeds ==
  ASSUME Whole, NEW H, SeedsAt(H), NEW i \in Processes, NEW a, FailCommit(i, a)
  PROVE  SeedsAt(H)'
<1>1. phase[i] \in Active /\ phase[i] = "commit" /\ upload[i] = {a}
  BY DEF FailCommit, Active, InTx
<1>2. UNCHANGED <<seeds, left, promised>> /\ (mishaps' = {} => mishaps = {})
  BY DEF FailCommit
<1>3. CASE a.seeds = {}
  <2>1. seeds' = H /\ Return(i)
    BY <1>1, <1>2, <1>3 DEF FailCommit, SeedsAt
  <2>2. promised' \subseteq H \cup left' /\ (mishaps' = {} => promised' = H)
    BY <1>2 DEF SeedsAt
  <2> QED BY <1>1, <2>1, <2>2, SeedsReturn
<1>4. CASE a.seeds # {}
  <2>1. "remove" \in Active /\ Advance(i, "remove") /\ UNCHANGED <<upload, stage, aside>>
    BY <1>4 DEF FailCommit, Active, Restoring
  <2>2. phase'[i] = "remove" /\ \A j \in Processes \ {i} : phase'[j] \notin Active
    BY <1>1, <2>1, OthersRest
  <2>3. aside'[i] = H
    BY <1>1, <1>4, <2>1 DEF SeedsAt
  <2> QED BY <1>2, <2>1, <2>2, <2>3 DEF SeedsAt, Active, Away, InTx, Restoring
<1> QED BY <1>3, <1>4

LEMMA RemoveSeedsSeeds ==
  ASSUME Whole, NEW H, SeedsAt(H), NEW i \in Processes, RemoveSeeds(i), Calm'
  PROVE  SeedsAt(H)'
<1>1. phase[i] \in Active /\ phase[i] = "remove" /\ "putback" \in Active /\ Advance(i, "putback")
  BY DEF RemoveSeeds, Active, Restoring
<1>2. phase'[i] = "putback" /\ \A j \in Processes \ {i} : phase'[j] \notin Active
  BY <1>1, OthersRest
<1>3. /\ seeds' = {} /\ UNCHANGED <<left, promised, mishaps, upload, stage, aside>>
      /\ aside[i] = H
  BY <1>1 DEF RemoveSeeds, SeedsAt, Calm
<1> QED BY <1>2, <1>3 DEF SeedsAt, Active, Away, InTx, Restoring

LEMMA PutBackSeeds ==
  ASSUME Whole, NEW H, SeedsAt(H), NEW i \in Processes, PutBack(i), Calm'
  PROVE  SeedsAt(H)'
<1>1. phase[i] \in Active /\ phase[i] = "putback"
  BY DEF PutBack, Active, Restoring
<1>2. seeds' = H /\ UNCHANGED <<left, promised, mishaps>> /\ Return(i)
  BY <1>1 DEF PutBack, SeedsAt, Calm
<1>3. promised' \subseteq H \cup left' /\ (mishaps' = {} => promised' = H)
  BY <1>2 DEF SeedsAt
<1> QED BY <1>1, <1>2, <1>3, SeedsReturn

\* A crash leaves what was aside in the directory of the import.
LEMMA CrashImportSeeds ==
  ASSUME Whole, NEW H, SeedsAt(H), NEW i \in Processes, CrashImport(i), NEW G, seeds = G
  PROVE  SeedsAt(H)' \/ SeedsAt(G)'
<1>1. /\ seeds' = G /\ left' = left \cup aside[i] /\ promised' = promised /\ mishaps' # {}
      /\ Return(i) /\ phase[i] # "idle"
  BY DEF CrashImport
<1>2. CASE phase[i] \in Active
  <2>1. H \subseteq G \cup aside[i]
    <3>1. CASE phase[i] \in {"snapshots", "move"}
      <4>1. \A j \in Processes : phase[j] \notin Away
        BY <3>1 DEF SeedsAt, Active, Away, InTx, Restoring
      <4> QED BY <4>1 DEF SeedsAt
    <3>2. CASE phase[i] = "commit"
      <4>1. PICK a \in Archive : upload[i] = {a}
        BY <1>1 DEF Whole, UploadsOne
      <4> QED BY <3>2, <4>1 DEF SeedsAt
    <3>3. CASE phase[i] \in {"place", "remove", "putback"}
      BY <3>3 DEF SeedsAt
    <3> QED BY <1>2, <3>1, <3>2, <3>3 DEF Active, InTx, Restoring
  <2>2. promised' \subseteq G \cup left' /\ (mishaps' = {} => promised' = G)
    BY <1>1, <2>1 DEF SeedsAt
  <2> QED BY <1>1, <1>2, <2>2, SeedsReturn
<1>3. CASE phase[i] \notin Active
  <2>1. /\ phase'[i] = "idle" /\ \A j \in Processes \ {i} :
             /\ phase'[j] = phase[j] /\ upload'[j] = upload[j] /\ stage'[j] = stage[j]
             /\ aside'[j] = aside[j]
    BY <1>1 DEF Return, Advance, Whole, TransferTypeOK
  <2>2. seeds' = seeds /\ left \subseteq left'
    BY <1>1
  <2>3. SeedsAt(H)'
    BY <1>1, <1>3, <2>1, <2>2 DEF SeedsAt, Active, Away, InTx, Restoring
  <2> QED BY <2>3
<1> QED BY <1>2, <1>3

LEMMA SeedsStep == ASSUME IInv, [TransferNext]_transferVars PROVE SeedsHome'
<1> SUFFICES ASSUME Calm' PROVE (\E H \in SUBSET AllSeeds : SeedsAt(H))'
  BY DEF SeedsHome
<1>1. Calm
  <2>1. mishaps \subseteq mishaps'
    BY DEF TransferNext, transferVars, transferHistory, workspace, LocalSave, Export, Prepare,
           Refuse, Merge, WriteSnapshots, MoveSeeds, PlaceSeeds, FailEarly, FailPlace,
           PlaceRefused, Commit, FailCommit, RemoveSeeds, PutBack, CrashImport
  <2> QED BY <2>1 DEF Calm
<1>2. PICK H \in SUBSET AllSeeds : SeedsAt(H)
  BY <1>1 DEF IInv, SeedsHome
<1>3. PICK G : G = seeds
  OBVIOUS
<1>4. G \in SUBSET AllSeeds /\ Whole
  BY <1>3 DEF IInv, Whole, TransferTypeOK
<1>5. SUFFICES SeedsAt(H)' \/ SeedsAt(G)'
  BY <1>2, <1>4
<1>6. ASSUME NEW r \in LocalRows, LocalSave(r) PROVE SeedsAt(H)'
  BY <1>2, <1>6, SeedsStay DEF LocalSave, transferHistory
<1>7. ASSUME NEW i \in Processes, Export(i) PROVE SeedsAt(H)'
  BY <1>2, <1>7, SeedsStay DEF Export, transferHistory, workspace
<1>8. ASSUME NEW i \in Processes, NEW a, Prepare(i, a) PROVE SeedsAt(H)'
  <2>1. \A j \in Processes :
          IF j = i THEN phase[i] = "idle" /\ phase'[i] = "ready"
                   ELSE phase'[j] = phase[j] /\ upload'[j] = upload[j]
    BY <1>4, <1>8 DEF Prepare, Advance, Whole, TransferTypeOK
  <2>2. "idle" \notin Active /\ "ready" \notin Active
    BY DEF Active, InTx, Restoring
  <2> QED BY <1>2, <1>8, <2>1, <2>2, SeedsStay DEF Prepare, transferHistory, workspace
<1>9. ASSUME NEW i \in Processes, phase[i] = "ready", Return(i),
             UNCHANGED <<workspace, left, transferHistory>>
      PROVE  SeedsAt(H)'
  <2>1. /\ phase'[i] = "idle" /\ \A j \in Processes \ {i} :
             /\ phase'[j] = phase[j] /\ upload'[j] = upload[j] /\ stage'[j] = stage[j]
             /\ aside'[j] = aside[j]
    BY <1>4, <1>9 DEF Return, Advance, Whole, TransferTypeOK
  <2>2. UNCHANGED <<seeds, left, promised, mishaps>> /\ phase[i] \notin Active
        /\ "idle" \notin Active
    BY <1>9 DEF workspace, transferHistory, Active, InTx, Restoring
  <2> QED BY <1>2, <2>1, <2>2, SeedsStay
<1>10. ASSUME NEW i \in Processes, PlaceRefused(i) PROVE FALSE
  BY <1>2, <1>10 DEF PlaceRefused, SeedsAt
<1>11. CASE UNCHANGED transferVars
  BY <1>2, <1>11, SeedsStay DEF transferVars, transferHistory, workspace
<1>12. ASSUME NEW i \in Processes, Refuse(i) PROVE SeedsAt(H)'
  BY <1>9, <1>12 DEF Refuse
<1> QED BY <1>2, <1>3, <1>4, <1>6, <1>7, <1>8, <1>10, <1>11, <1>12, MergeSeeds,
           WriteSnapshotsSeeds, MoveSeedsSeeds, PlaceSeedsSeeds, FailEarlySeeds, FailPlaceSeeds,
           CommitSeeds, FailCommitSeeds, RemoveSeedsSeeds, PutBackSeeds, CrashImportSeeds
       DEF TransferNext

LEMMA TransferBase == ASSUME TransferInit PROVE IInv
<1> USE DEF TransferInit
<1>1. TransferTypeOK
  BY TransferAssumption, HashesUnion DEF TransferTypeOK, AllRows, AllSeeds, AllSnaps
<1>2. UploadsOne /\ UploadsComplete /\ SnapshotsFirst /\ RowsHaveSnapshots
  BY DEF UploadsOne, UploadsComplete, SnapshotsFirst, RowsHaveSnapshots
<1>3. SeedsAt(InitialSeeds)
  BY DEF SeedsAt, Active, Away, InTx, Restoring
<1>4. InitialSeeds \in SUBSET AllSeeds
  BY DEF AllSeeds
<1> QED BY <1>1, <1>2, <1>3, <1>4 DEF IInv, Whole, SeedsHome

LEMMA TransferInvariant == TransferSpec => []IInv
<1>1. IInv /\ [TransferNext]_transferVars => IInv'
  BY WholeStep, SeedsStep DEF IInv
<1> QED BY <1>1, TransferBase, PTL DEF TransferSpec

\* manager.go: the workspace, the archives and the imports keep their types.
THEOREM TransferTypeCorrect == TransferSpec => []TransferTypeOK
BY TransferInvariant, PTL DEF IInv, Whole

\* Prepare and writeSnapshots: no row is ever without its snapshot, whatever was
\* imported and however it failed or crashed.
THEOREM RowsKeepSnapshots == TransferSpec => []RowsHaveSnapshots
BY TransferInvariant, PTL DEF IInv, Whole

\* replaceSeeds: the seeds promised are in the directory, aside or left by a crash.
THEOREM NoSeedIsLost == TransferSpec => []SeedsKept
<1>1. IInv => SeedsKept
  <2> SUFFICES ASSUME IInv, Calm
               PROVE  promised \subseteq seeds \cup left \cup UNION {aside[i] : i \in Processes}
    BY DEF SeedsKept, Calm
  <2>1. PICK H \in SUBSET AllSeeds : SeedsAt(H)
    BY DEF IInv, SeedsHome
  <2>2. CASE \A i \in Processes : phase[i] \notin Away
    BY <2>1, <2>2 DEF SeedsAt
  <2>3. CASE \E i \in Processes : phase[i] \in Away
    <3>1. PICK i \in Processes : phase[i] \in Away
      BY <2>3
    <3>2. CASE phase[i] = "commit"
      <4>1. PICK a \in Archive : upload[i] = {a}
        BY <3>2 DEF IInv, Whole, UploadsOne
      <4>2. H \subseteq seeds
        BY <2>1, <3>2, <4>1 DEF SeedsAt
      <4> QED BY <2>1, <4>2 DEF SeedsAt
    <3>3. CASE phase[i] # "commit"
      <4>1. aside[i] = H
        BY <2>1, <3>1, <3>3 DEF SeedsAt, Away, Restoring
      <4> QED BY <2>1, <4>1 DEF SeedsAt
    <3> QED BY <3>2, <3>3
  <2> QED BY <2>2, <2>3
<1> QED BY <1>1, TransferInvariant, PTL

\* Import: when no import is under way and nothing went wrong, the seed files are
\* those of the imports that were reported applied.
THEOREM SeedsAreThoseOfRows == TransferSpec => []SeedsFollowRows
<1>1. IInv => SeedsFollowRows
  BY DEF IInv, SeedsHome, Calm, SeedsAt, SeedsFollowRows, Away, Restoring
<1> QED BY <1>1, TransferInvariant, PTL
=============================================================================
