--------------------------- MODULE BridgeSyncProofs ---------------------------
(***************************************************************************)
(* Proofs about BridgeSync for every number of plugins, bridges, source    *)
(* sets, manifests and faults that BridgeAssumption admits.                *)
(***************************************************************************)
EXTENDS BridgeSync, TLAPS

\* The types, in the parts that actions disturb together.
FilesType ==
  /\ disk \in [Plugins -> Dirs] /\ hub \in [Plugins -> Dirs]
  /\ published \in [PluginSets -> [Plugins -> Nat]]

ControlType ==
  /\ lock \in {"none", "fresh", "stale"}
  /\ pc \in [Bridges -> Points]
  /\ faults \in 0..MaxFaults
  /\ recovered \in BOOLEAN /\ dropped \subseteq Bridges /\ cut \subseteq Plugins

LocalsType ==
  /\ report \in [Bridges -> [Plugins -> Nat]]
  /\ owned \in [Bridges -> SUBSET Plugins] /\ todo \in [Bridges -> SUBSET Plugins]
  /\ changed \in [Bridges -> BOOLEAN]
  /\ backup \in [Bridges -> Dirs]

MemoryType ==
  /\ etag \in [Bridges -> SUBSET [Plugins -> Nat]]
  /\ pending \in [Bridges -> BOOLEAN]

Types == FilesType /\ ControlType /\ LocalsType /\ MemoryType

\* As long as no lock was recovered: a bridge between the lock and its removal is
\* alone and the lock is there.
LockInv ==
  ~recovered =>
    /\ ExclusiveUntilRecovery
    /\ \A b \in Bridges : pc[b] \in Locked => lock # "none"
    /\ \A b \in Bridges : pc[b] # "relock"

\* A plugin directory that was found to be of b's set, and is not the one being
\* exchanged or removed.
Settled(b, p) ==
  \/ pc[b] \in {"write", "drop"}
  \/ pc[b] \in {"place", "clean"} /\ ~First(b, p)

\* The directory whose files b is removing.
Unlinking(b, p) == pc[b] = "clean" /\ First(b, p)

\* The directories a bridge found its own are its own still, except for the one it
\* has moved aside; the one it is removing may have lost its receipt.
Holds(b) ==
  /\ backup[b] = Absent \/ backup[b].by = SetOf[b]
  /\ \A p \in owned[b] : Settled(b, p) => disk[p].by = SetOf[b]
  /\ \A p \in Plugins : Unlinking(b, p) => disk[p].by = SetOf[b] \/ disk[p] = Remains

OwnedInv == SetsApart => \A b \in Bridges : Holds(b)

\* What is left of a directory has one bridge that is removing it, or none.
RemoverInv ==
  SetsApart =>
    \A b, c \in Bridges : \A p \in Plugins : Unlinking(b, p) /\ Unlinking(c, p) => b = c

IInv == Types /\ LockInv /\ OwnedInv /\ RemoverInv

\* The parts of the type invariant are all of it.
LEMMA TypeParts == Types <=> BridgeTypeOK
  BY DEF Types, FilesType, ControlType, LocalsType, MemoryType, BridgeTypeOK

-----------------------------------------------------------------------------
(* Types. *)

\* What may stand in the plugin root.
LEMMA DirTypes ==
  /\ Absent \in Dirs /\ ByHand \in Dirs /\ Remains \in Dirs
  /\ \A s \in PluginSets, v \in Nat : [by |-> s, version |-> v, whole |-> TRUE] \in Dirs
  /\ \A d \in Dirs : [d EXCEPT !.whole = FALSE] \in Dirs
  /\ NoManifest \in [Plugins -> Nat]
  BY DEF Absent, ByHand, Remains, Dirs, NoManifest

\* The end of a round.
LEMMA EndsType ==
  ASSUME LocalsType, NEW b \in Bridges, Ends(b)
  PROVE  LocalsType'
  BY DirTypes DEF LocalsType, Ends

\* One directory of the root is exchanged.
LEMMA SetType ==
  ASSUME FilesType, NEW p \in Plugins, NEW dir \in Dirs, Set(p, dir), UNCHANGED <<hub, published>>
  PROVE  FilesType'
  BY DEF FilesType, Set

\* A bridge goes on to another point.
LEMMA GoesType ==
  ASSUME ControlType, NEW b \in Bridges, NEW point \in Points, Goes(b, point),
         lock' \in {"none", "fresh", "stale"}, faults' \in 0..MaxFaults,
         recovered' \in BOOLEAN, dropped' \subseteq Bridges, cut' \subseteq Plugins
  PROVE  ControlType'
  BY DEF ControlType, Goes

\* A removal that is cut short is one of a plugin.
LEMMA CutType ==
  ASSUME Types, NEW b \in Bridges, CutShort(b)
  PROVE  cut' \subseteq Plugins /\ cut \subseteq cut'
<1>1. cut \subseteq Plugins /\ todo[b] \subseteq Plugins
  BY DEF Types, ControlType, LocalsType
<1>2. cut' = cut \/ cut' = cut \cup todo[b]
  BY DEF CutShort
<1>3. QED
  BY <1>1, <1>2

\* What a failed install does, whether it had touched a file or not.
Failed(b) ==
  /\ lock' = "none"
  /\ Goes(b, "wait") /\ Ends(b)
  /\ dropped' = dropped \cup {b} \/ dropped' = dropped

LEMMA FailType ==
  ASSUME Types, NEW b \in Bridges, Failed(b),
         faults' \in 0..MaxFaults, recovered' = recovered, cut' \subseteq Plugins,
         UNCHANGED memory
  PROVE  ControlType' /\ LocalsType' /\ MemoryType'
<1>1. LocalsType'
  BY EndsType DEF Types, Failed
<1>2. dropped' \subseteq Bridges
  BY DEF Types, ControlType, Failed
<1>3. ControlType'
  <2>1. "wait" \in Points /\ Goes(b, "wait") /\ lock' = "none"
    BY DEF Points, Failed
  <2>2. QED
    BY <1>2, <2>1, GoesType, Zenon DEF Types, ControlType
<1>4. QED
  BY <1>1, <1>3 DEF Types, MemoryType, memory

-----------------------------------------------------------------------------
(* Types: the polling loop. *)

LEMMA PollType == ASSUME Types, NEW b \in Bridges, Poll(b) PROVE Types'
<1>1. SetOf[b] \in PluginSets
  BY BridgeAssumption
<1>2. {"reload", "lock"} \subseteq Points
  BY DEF Points
<1>3. ControlType'
  BY <1>2 DEF Poll, Goes, Types, ControlType, history
<1>4. QED
  BY <1>1, <1>3 DEF Poll, Types, FilesType, LocalsType, MemoryType, memory

LEMMA ReloadType ==
  ASSUME Types, NEW b \in Bridges, Reload(b) \/ ReloadRefused(b) PROVE Types'
<1>1. "wait" \in Points
  BY DEF Points
<1>2. ControlType'
  BY <1>1 DEF Reload, ReloadRefused, Goes, Types, ControlType, history
<1>3. QED
  BY <1>2 DEF Reload, ReloadRefused, Types, FilesType, LocalsType, MemoryType, memory, runVars

LEMMA CrashType == ASSUME Types, NEW b \in Bridges, Crash(b) PROVE Types'
<1>1. "down" \in Points
  BY DEF Points
<1>2. faults' \in 0..MaxFaults /\ dropped' \subseteq Bridges
  BY BridgeAssumption DEF Crash, Types, ControlType
<1>3. ControlType'
  BY <1>1, <1>2, CutType, GoesType, Zenon DEF Crash, Types, ControlType
<1>4. LocalsType'
  BY EndsType DEF Crash, Types
<1>5. QED
  BY <1>3, <1>4 DEF Crash, Types, FilesType, MemoryType

LEMMA RestartType == ASSUME Types, NEW b \in Bridges, Restart(b) PROVE Types'
<1>1. "wait" \in Points
  BY DEF Points
<1>2. QED
  BY <1>1
  DEF Restart, Goes, Types, ControlType, FilesType, LocalsType, MemoryType, memory, runVars, history

-----------------------------------------------------------------------------
(* Types: an install. *)

LEMMA LockingType ==
  ASSUME Types, NEW b \in Bridges, TakeLock(b) \/ Recover(b) \/ Relock(b) PROVE Types'
<1>1. {"scan", "wait", "recover", "relock"} \subseteq Points
  BY DEF Points, Locked
<1>2. ControlType'
  BY <1>1 DEF TakeLock, Recover, Relock, Goes, Types, ControlType, history
<1>3. LocalsType'
  <2>1. Ends(b) \/ UNCHANGED runVars
    BY DEF TakeLock, Recover, Relock
  <2>2. QED
    BY <2>1, EndsType DEF Types, LocalsType, runVars
<1>4. QED
  BY <1>2, <1>3 DEF TakeLock, Recover, Relock, Types, FilesType, MemoryType, memory

LEMMA ScanType == ASSUME Types, NEW b \in Bridges, Scan(b) PROVE Types'
<1>1. FilesType'
  BY DEF Scan, Types, FilesType
<1>2. CASE \E p \in Wanted(b) \ Mine(b) : disk[p] # Absent
  <2>1. Failed(b)
    BY <1>2 DEF Scan, Fail, Failed
  <2>2. QED
    BY <1>1, <2>1, FailType DEF Scan, Types, ControlType
<1>3. CASE ~ \E p \in Wanted(b) \ Mine(b) : disk[p] # Absent
  <2>1. "write" \in Points
    BY DEF Points, Locked
  <2>2. ControlType'
    BY <1>3, <2>1 DEF Scan, Goes, Types, ControlType
  <2>3. Mine(b) \subseteq Plugins /\ {p \in Wanted(b) : disk[p].version # report[b][p]} \subseteq Plugins
    BY DEF Mine, Wanted
  <2>4. LocalsType'
    BY <1>3, <2>3 DEF Scan, Types, LocalsType
  <2>5. QED
    BY <1>1, <2>2, <2>4 DEF Scan, Types, MemoryType, memory
<1>4. QED
  BY <1>2, <1>3

LEMMA MoveAsideType ==
  ASSUME Types, NEW b \in Bridges, NEW p \in Plugins, MoveAside(b, p) PROVE Types'
<1>1. CASE (p \in owned[b]) = (disk[p] # Absent)
  <2>1. FilesType'
    BY <1>1, DirTypes, SetType DEF MoveAside, Types
  <2>2. "place" \in Points
    BY DEF Points, Locked
  <2>3. ControlType'
    BY <1>1, <2>2 DEF MoveAside, Goes, Types, ControlType
  <2>4. LocalsType'
    BY <1>1 DEF MoveAside, Types, LocalsType, FilesType
  <2>5. QED
    BY <2>1, <2>3, <2>4 DEF MoveAside, Types, MemoryType, memory
<1>2. CASE ~((p \in owned[b]) = (disk[p] # Absent))
  <2>1. Failed(b)
    BY <1>2 DEF MoveAside, Fail, Failed
  <2>2. FilesType'
    BY <1>2 DEF MoveAside, Types, FilesType
  <2>3. QED
    BY <2>1, <2>2, FailType DEF MoveAside, Types, ControlType
<1>3. QED
  BY <1>1, <1>2

\* The directory a manifest asks for is one.
LEMMA WantsType ==
  ASSUME Types, NEW b \in Bridges, NEW p \in Plugins
  PROVE  Wants(b, p) \in Dirs
<1>1. SetOf[b] \in PluginSets /\ report[b][p] \in Nat
  BY BridgeAssumption DEF Types, LocalsType
<1>2. QED
  BY <1>1, DirTypes DEF Wants

LEMMA PlaceType ==
  ASSUME Types, NEW b \in Bridges, NEW p \in Plugins, Place(b, p) PROVE Types'
<1>1. CASE disk[p] = Absent
  <2>1. FilesType'
    BY <1>1, WantsType, SetType DEF Place, Types
  <2>2. "drop" \in Points
    BY DEF Points, Locked
  <2>3. ControlType'
    BY <1>1, <2>2 DEF Place, Goes, Types, ControlType
  <2>4. QED
    BY <1>1, <2>1, <2>3 DEF Place, Types, LocalsType, MemoryType, memory, runVars
<1>2. CASE disk[p] # Absent
  <2>1. Failed(b)
    BY <1>2 DEF Place, Fail, Failed
  <2>2. FilesType'
    BY <1>2 DEF Place, Types, FilesType
  <2>3. QED
    BY <2>1, <2>2, FailType DEF Place, Types, ControlType
<1>3. QED
  BY <1>1, <1>2

LEMMA DropBackupType ==
  ASSUME Types, NEW b \in Bridges, NEW p \in Plugins, DropBackup(b, p) PROVE Types'
<1>1. "write" \in Points
  BY DEF Points, Locked
<1>2. LocalsType'
  BY DirTypes DEF DropBackup, Types, LocalsType
<1>3. QED
  BY <1>1, <1>2
  DEF DropBackup, Goes, Types, FilesType, ControlType, MemoryType, memory, history

LEMMA UnlinkType ==
  ASSUME Types, NEW b \in Bridges, NEW p \in Plugins, Unlink(b, p) PROVE Types'
<1>1. FilesType'
  <2>1. disk[p] \in Dirs
    BY DEF Types, FilesType
  <2>2. PICK left \in {[disk[p] EXCEPT !.whole = FALSE], Remains} : Set(p, left)
    BY DEF Unlink
  <2>3. left \in Dirs
    BY <2>1, <2>2, DirTypes
  <2>4. QED
    BY <2>2, <2>3, SetType DEF Unlink, Types
<1>2. LocalsType'
  BY DEF Unlink, Types, LocalsType
<1>3. "clean" \in Points
  BY DEF Points, Locked
<1>4. ControlType'
  BY <1>3 DEF Unlink, Goes, Types, ControlType, history
<1>5. QED
  BY <1>1, <1>2, <1>4 DEF Unlink, Types, MemoryType, memory

LEMMA CleanType ==
  ASSUME Types, NEW b \in Bridges, NEW p \in Plugins, Clean(b, p) PROVE Types'
<1>1. FilesType'
  BY DirTypes, SetType DEF Clean, Types
<1>2. LocalsType'
  BY DEF Clean, Types, LocalsType
<1>3. "write" \in Points
  BY DEF Points, Locked
<1>4. ControlType'
  BY <1>3 DEF Clean, Goes, Types, ControlType, history
<1>5. QED
  BY <1>1, <1>2, <1>4 DEF Clean, Types, MemoryType, memory

\* Every failing file operation is a failed install that changed at most the
\* plugin at hand.
LEMMA IOErrorFails ==
  ASSUME Types, NEW b \in Bridges, NEW p \in Plugins, IOError(b, p)
  PROVE  /\ pc[b] \in Locked /\ Failed(b)
         /\ \/ UNCHANGED disk
            \/ disk[p] = Absent /\ Set(p, backup[b])
  BY DEF IOError, Fail, Failed, Locked, Removing

LEMMA IOErrorType ==
  ASSUME Types, NEW b \in Bridges, NEW p \in Plugins, IOError(b, p) PROVE Types'
<1>1. faults' \in 0..MaxFaults
  BY BridgeAssumption DEF IOError, Types, ControlType
<1>2. FilesType'
  <2>1. backup[b] \in Dirs
    BY DEF Types, LocalsType
  <2>2. UNCHANGED <<hub, published>>
    BY DEF IOError
  <2>3. QED
    BY <2>1, <2>2, IOErrorFails, DirTypes, SetType DEF Types, FilesType
<1>3. QED
  BY <1>1, <1>2, IOErrorFails, CutType, FailType DEF IOError, Types

LEMMA DoneType == ASSUME Types, NEW b \in Bridges, Done(b) PROVE Types'
<1>1. {"reload", "wait"} \subseteq Points
  BY DEF Points
<1>2. ControlType'
  BY <1>1 DEF Done, Goes, Types, ControlType, history
<1>3. LocalsType'
  BY EndsType DEF Done, Types
<1>4. MemoryType'
  <2>1. report[b] \in [Plugins -> Nat] /\ (pending[b] \/ changed[b]) \in BOOLEAN
    BY DEF Types, LocalsType
  <2>2. QED
    BY <2>1 DEF Done, Types, MemoryType
<1>5. QED
  BY <1>2, <1>3, <1>4 DEF Done, Types, FilesType

\* What goes on around the bridges.
LEMMA AroundType ==
  ASSUME Types, (\E s \in PluginSets : PublishManifest(s)) \/ LockAges
                \/ \E p \in Plugins : MakeByHand(p)
  PROVE  Types'
<1>1. CASE \E s \in PluginSets : PublishManifest(s)
  <2>1. FilesType'
    BY <1>1, BridgeAssumption DEF PublishManifest, Types, FilesType
  <2>2. QED
    BY <1>1, <2>1
    DEF PublishManifest, Types, ControlType, LocalsType, MemoryType, runVars, memory, history
<1>2. CASE LockAges
  BY <1>2
  DEF LockAges, Types, FilesType, ControlType, LocalsType, MemoryType, runVars, memory, history
<1>3. CASE \E p \in Plugins : MakeByHand(p)
  <2>1. FilesType'
    BY <1>3, DirTypes, SetType DEF MakeByHand, Types
  <2>2. QED
    BY <1>3, <2>1
    DEF MakeByHand, Types, ControlType, LocalsType, MemoryType, runVars, memory, history
<1>4. QED
  BY <1>1, <1>2, <1>3

\* A step of bridge b; Next is one of these or a step around the bridges.
Own(b) ==
  \/ BridgeStep(b) \/ Reload(b) \/ ReloadRefused(b) \/ Crash(b)
  \/ \E p \in Plugins : IOError(b, p)

LEMMA OwnType == ASSUME Types, NEW b \in Bridges, Own(b) PROVE Types'
<1>1. CASE InstallStep(b)
  BY <1>1, LockingType, ScanType, MoveAsideType, PlaceType, DropBackupType, UnlinkType, CleanType,
     DoneType
  DEF InstallStep
<1>2. QED
  BY <1>1, PollType, ReloadType, RestartType, CrashType, IOErrorType DEF Own, BridgeStep

LEMMA NextType == ASSUME Types, [BridgeNext]_bridgeVars PROVE Types'
<1>1. CASE UNCHANGED bridgeVars
  BY <1>1
  DEF bridgeVars, runVars, memory, history, Types, FilesType, ControlType, LocalsType, MemoryType
<1>2. QED
  BY <1>1, OwnType, AroundType DEF BridgeNext, Own

-----------------------------------------------------------------------------
(* The lock. *)

\* What a step of bridge b between two points does to the lock.
Passes(b, point) ==
  \/ pc[b] \in Locked /\ point \in Locked /\ lock' = lock
  \/ pc[b] \in Locked /\ point \notin Locked
  \/ point \notin Locked /\ lock' = lock
  \/ point \in Locked /\ lock = "none" /\ lock' # "none"

\* Such a step keeps the lock with its one holder.
LEMMA PassesLock ==
  ASSUME Types, LockInv, NEW b \in Bridges, NEW point,
         Goes(b, point), Passes(b, point), point # "relock", recovered' = recovered
  PROVE  LockInv'
<1>1. \A c \in Bridges : pc'[c] = IF c = b THEN point ELSE pc[c]
  BY DEF Goes, Types, ControlType
<1>2. QED
  BY <1>1 DEF LockInv, ExclusiveUntilRecovery, Passes

LEMMA OwnLock == ASSUME Types, LockInv, NEW b \in Bridges, Own(b) PROVE LockInv'
<1> DEFINE Keeps(point) == Goes(b, point) /\ Passes(b, point) /\ recovered' = recovered
<1>1. CASE Recover(b)
  BY <1>1 DEF Recover, LockInv
<1>2. CASE Relock(b)
  <2>1. pc[b] = "relock" /\ recovered' = recovered
    BY <1>2 DEF Relock, history
  <2>2. QED
    BY <2>1 DEF LockInv
<1>3. CASE Poll(b)
  <2>1. Keeps("reload") \/ Keeps("lock")
    BY <1>3 DEF Poll, Passes, Locked, history
  <2>2. QED
    BY <2>1, PassesLock
<1>4. CASE Reload(b) \/ ReloadRefused(b) \/ Restart(b)
  <2>1. Keeps("wait")
    BY <1>4 DEF Reload, ReloadRefused, Restart, Passes, Locked, history
  <2>2. QED
    BY <2>1, PassesLock
<1>5. CASE Crash(b)
  <2>1. Keeps("down")
    BY <1>5 DEF Crash, Passes, Locked
  <2>2. QED
    BY <2>1, PassesLock
<1>6. CASE TakeLock(b)
  <2>1. Keeps("scan") \/ Keeps("wait") \/ Keeps("recover")
    BY <1>6 DEF TakeLock, Passes, Locked, history
  <2>2. QED
    BY <2>1, PassesLock
<1>7. CASE Scan(b)
  <2>1. Keeps("wait") \/ Keeps("write")
    BY <1>7 DEF Scan, Fail, Passes, Locked
  <2>2. QED
    BY <2>1, PassesLock
<1>8. ASSUME NEW p \in Plugins, MoveAside(b, p) PROVE LockInv'
  <2>1. Keeps("place") \/ Keeps("wait")
    BY <1>8 DEF MoveAside, Fail, Passes, Locked
  <2>2. QED
    BY <2>1, PassesLock
<1>9. ASSUME NEW p \in Plugins, Place(b, p) PROVE LockInv'
  <2>1. Keeps("drop") \/ Keeps("wait")
    BY <1>9 DEF Place, Fail, Passes, Locked
  <2>2. QED
    BY <2>1, PassesLock
<1>10. ASSUME NEW p \in Plugins, DropBackup(b, p) PROVE LockInv'
  <2>1. Keeps("write")
    BY <1>10 DEF DropBackup, Passes, Locked, history
  <2>2. QED
    BY <2>1, PassesLock
<1>11. ASSUME NEW p \in Plugins, Clean(b, p) PROVE LockInv'
  <2>1. Keeps("write")
    BY <1>11 DEF Clean, Removing, Passes, Locked, history
  <2>2. QED
    BY <2>1, PassesLock
<1>12. ASSUME NEW p \in Plugins, Unlink(b, p) PROVE LockInv'
  <2>1. Keeps("clean")
    BY <1>12 DEF Unlink, Removing, Passes, Locked, history
  <2>2. QED
    BY <2>1, PassesLock
<1>13. CASE Done(b)
  <2>1. Keeps("reload") \/ Keeps("wait")
    BY <1>13 DEF Done, Passes, Locked, history
  <2>2. QED
    BY <2>1, PassesLock
<1>14. ASSUME NEW p \in Plugins, IOError(b, p) PROVE LockInv'
  <2>1. Keeps("wait")
    BY <1>14, IOErrorFails DEF Failed, Passes, Locked, IOError
  <2>2. QED
    BY <2>1, PassesLock
<1>15. QED
  BY <1>1, <1>2, <1>3, <1>4, <1>5, <1>6, <1>7, <1>8, <1>9, <1>10, <1>11, <1>12, <1>13, <1>14
  DEF Own, BridgeStep, InstallStep

LEMMA NextLock == ASSUME Types, LockInv, [BridgeNext]_bridgeVars PROVE LockInv'
<1>1. ASSUME NEW s \in PluginSets, PublishManifest(s) PROVE LockInv'
  BY <1>1 DEF PublishManifest, LockInv, ExclusiveUntilRecovery, history
<1>2. CASE LockAges
  BY <1>2 DEF LockAges, LockInv, ExclusiveUntilRecovery, history
<1>3. ASSUME NEW p \in Plugins, MakeByHand(p) PROVE LockInv'
  BY <1>3 DEF MakeByHand, LockInv, ExclusiveUntilRecovery, history
<1>4. CASE UNCHANGED bridgeVars
  BY <1>4 DEF bridgeVars, LockInv, ExclusiveUntilRecovery, history
<1>5. QED
  BY <1>1, <1>2, <1>3, <1>4, OwnLock DEF BridgeNext, Own

-----------------------------------------------------------------------------
(* What a step of one bridge leaves alone. *)

\* The state of a bridge that is not stepping.
Same(c) ==
  /\ pc'[c] = pc[c]
  /\ report'[c] = report[c] /\ owned'[c] = owned[c] /\ todo'[c] = todo[c]
  /\ changed'[c] = changed[c] /\ backup'[c] = backup[c]
  /\ etag'[c] = etag[c] /\ pending'[c] = pending[c]
  /\ (c \in dropped') <=> (c \in dropped)

\* A bridge that goes on or ends a round says nothing of the others.
LEMMA GoesTo ==
  ASSUME Types, NEW b \in Bridges, NEW point, Goes(b, point)
  PROVE  /\ pc'[b] = point
         /\ \A c \in Bridges \ {b} : pc'[c] = pc[c]
  BY DEF Goes, Types, ControlType

LEMMA EndsOnly ==
  ASSUME Types, NEW b \in Bridges, Ends(b)
  PROVE  /\ owned'[b] = {} /\ todo'[b] = {} /\ ~changed'[b] /\ backup'[b] = Absent
         /\ \A c \in Bridges \ {b} :
              /\ report'[c] = report[c] /\ owned'[c] = owned[c] /\ todo'[c] = todo[c]
              /\ changed'[c] = changed[c] /\ backup'[c] = backup[c]
  BY DEF Ends, Types, LocalsType

LEMMA FailsAlone ==
  ASSUME Types, NEW b \in Bridges, Failed(b), UNCHANGED memory, NEW c \in Bridges \ {b}
  PROVE  Same(c)
<1>1. Goes(b, "wait") /\ Ends(b) /\ (c \in dropped' <=> c \in dropped)
  BY DEF Failed
<1>2. QED
  BY <1>1, GoesTo, EndsOnly DEF Same, memory

LEMMA OthersKeep ==
  ASSUME Types, NEW b \in Bridges, Own(b), NEW c \in Bridges \ {b}
  PROVE  Same(c)
<1> USE DEF Same
<1>1. CASE Poll(b) \/ Reload(b) \/ ReloadRefused(b) \/ Restart(b)
  BY <1>1
  DEF Poll, Reload, ReloadRefused, Restart, Goes, runVars, memory, history, Types, ControlType,
      LocalsType, MemoryType
<1>2. CASE Crash(b)
  <2>1. Goes(b, "down") /\ Ends(b) /\ (c \in dropped' <=> c \in dropped)
    BY <1>2 DEF Crash
  <2>2. etag'[c] = etag[c] /\ pending'[c] = pending[c]
    BY <1>2 DEF Crash, Types, MemoryType
  <2>3. QED
    BY <2>1, <2>2, GoesTo, EndsOnly
<1>3. CASE TakeLock(b) \/ Recover(b) \/ Relock(b)
  <2>1. /\ \E point : Goes(b, point)
        /\ Ends(b) \/ UNCHANGED runVars
        /\ UNCHANGED memory /\ dropped' = dropped
    BY <1>3 DEF TakeLock, Recover, Relock, history
  <2>2. QED
    BY <2>1, GoesTo, EndsOnly DEF runVars, memory
<1>4. CASE Scan(b)
  <2>1. CASE Failed(b)
    BY <1>4, <2>1, FailsAlone DEF Scan
  <2>2. CASE ~Failed(b)
    BY <1>4, <2>2
    DEF Scan, Fail, Failed, Goes, memory, Types, ControlType, LocalsType
  <2>3. QED
    BY <2>1, <2>2
<1>5. ASSUME NEW p \in Plugins, MoveAside(b, p) PROVE Same(c)
  <2>1. CASE Failed(b)
    BY <1>5, <2>1, FailsAlone DEF MoveAside
  <2>2. CASE ~Failed(b)
    BY <1>5, <2>2
    DEF MoveAside, Fail, Failed, Goes, memory, Types, ControlType, LocalsType
  <2>3. QED
    BY <2>1, <2>2
<1>6. ASSUME NEW p \in Plugins, Place(b, p) PROVE Same(c)
  <2>1. CASE Failed(b)
    BY <1>6, <2>1, FailsAlone DEF Place
  <2>2. CASE ~Failed(b)
    BY <1>6, <2>2 DEF Place, Fail, Failed, Goes, memory, runVars, Types, ControlType
  <2>3. QED
    BY <2>1, <2>2
<1>7. ASSUME NEW p \in Plugins, DropBackup(b, p) \/ Unlink(b, p) \/ Clean(b, p) PROVE Same(c)
  BY <1>7
  DEF DropBackup, Unlink, Clean, Goes, memory, history, Types, ControlType, LocalsType
<1>8. CASE Done(b)
  <2>1. (\E point : Goes(b, point)) /\ Ends(b) /\ dropped' = dropped
    BY <1>8 DEF Done, history
  <2>2. etag'[c] = etag[c] /\ pending'[c] = pending[c]
    BY <1>8 DEF Done, Types, MemoryType
  <2>3. QED
    BY <2>1, <2>2, GoesTo, EndsOnly
<1>9. ASSUME NEW p \in Plugins, IOError(b, p) PROVE Same(c)
  BY <1>9, IOErrorFails, FailsAlone DEF IOError
<1>10. QED
  BY <1>1, <1>2, <1>3, <1>4, <1>5, <1>6, <1>7, <1>8, <1>9 DEF Own, BridgeStep, InstallStep

-----------------------------------------------------------------------------
(* What a bridge owns. *)

\* The first plugin to be written is one.
LEMMA FirstUnique ==
  ASSUME NEW b \in Bridges, NEW p \in Plugins, NEW q \in Plugins, First(b, p), First(b, q)
  PROVE  p = q
<1>1. p <= q /\ q <= p /\ p \in Nat /\ q \in Nat
  BY BridgeAssumption DEF First
<1>2. QED
  BY <1>1

\* A recovered lock stays recovered.
LEMMA ApartBefore ==
  ASSUME Types, [BridgeNext]_bridgeVars, SetsApart' PROVE SetsApart
<1>1. ASSUME NEW b \in Bridges, Own(b) PROVE recovered' = recovered \/ recovered'
  BY <1>1
  DEF Own, BridgeStep, InstallStep, Poll, Reload, ReloadRefused, Crash, Restart, TakeLock, Recover,
      Relock, Scan, MoveAside, Place, DropBackup, Unlink, Clean, Done, IOError, history
<1>2. recovered' = recovered \/ recovered'
  BY <1>1 DEF BridgeNext, Own, PublishManifest, LockAges, MakeByHand, bridgeVars, history
<1>3. QED
  BY <1>2 DEF SetsApart

\* The plugin at hand is the only one of a removal.
LEMMA Removed ==
  ASSUME IInv, SetsApart, NEW b \in Bridges, NEW p \in Plugins, Removing(b, p)
  PROVE  /\ pc[b] \in {"write", "clean"}
         /\ disk[p].by = SetOf[b] \/ (disk[p] = Remains /\ Unlinking(b, p))
<1>1. CASE pc[b] = "clean" /\ First(b, p)
  BY <1>1 DEF IInv, OwnedInv, Holds, Unlinking
<1>2. CASE pc[b] = "write" /\ p \in owned[b]
  BY <1>2 DEF IInv, OwnedInv, Holds, Settled
<1>3. QED
  BY <1>1, <1>2 DEF Removing

\* The directory that a step of b may change.
LEMMA Changes ==
  ASSUME Types, NEW b \in Bridges, Own(b), NEW p \in Plugins, disk'[p] # disk[p]
  PROVE  \/ MoveAside(b, p) /\ Set(p, Absent) /\ p \in owned[b]
         \/ Place(b, p) /\ disk[p] = Absent /\ Set(p, Wants(b, p))
         \/ Unlink(b, p)
         \/ Clean(b, p) /\ Set(p, Absent)
         \/ IOError(b, p) /\ disk[p] = Absent /\ Set(p, backup[b])
<1>1. \A q \in Plugins : \A dir : Set(q, dir) => q = p
  BY DEF Set, Types, FilesType
<1>2. disk' # disk
  OBVIOUS
<1>3. PICK q \in Plugins : \/ MoveAside(b, q) \/ Place(b, q) \/ Unlink(b, q) \/ Clean(b, q)
                         \/ IOError(b, q)
  BY <1>2
  DEF Own, BridgeStep, InstallStep, Poll, Reload, ReloadRefused, Crash, Restart, TakeLock, Recover,
      Relock, Scan, Done, DropBackup
<1>4. CASE MoveAside(b, q)
  BY <1>1, <1>2, <1>4 DEF MoveAside, Set, Types, FilesType
<1>5. CASE Place(b, q)
  BY <1>1, <1>2, <1>5 DEF Place
<1>6. CASE Clean(b, q)
  BY <1>1, <1>6 DEF Clean
<1>7. CASE IOError(b, q)
  BY <1>1, <1>2, <1>7, IOErrorFails
<1>8. CASE Unlink(b, q)
  BY <1>1, <1>8 DEF Unlink
<1>9. QED
  BY <1>3, <1>4, <1>5, <1>6, <1>7, <1>8

\* What a removal leaves of a directory: its receipt, or none.
LEMMA UnlinkLeaves ==
  ASSUME Types, NEW b \in Bridges, NEW p \in Plugins, Unlink(b, p)
  PROVE  /\ disk'[p] = Remains
            \/ (disk'[p].by = disk[p].by /\ disk'[p].version = disk[p].version)
         /\ \A q \in Plugins : q # p => disk'[q] = disk[q]
<1>1. PICK left \in {[disk[p] EXCEPT !.whole = FALSE], Remains} : Set(p, left)
  BY DEF Unlink
<1>2. disk[p] \in Dirs
  BY DEF Types, FilesType
<1>3. left = Remains \/ (left.by = disk[p].by /\ left.version = disk[p].version)
  BY <1>1, <1>2 DEF Dirs
<1>4. QED
  BY <1>1, <1>3 DEF Set, Types, FilesType

\* It is one of b's set or none at all, before and after.
LEMMA ChangesOwn ==
  ASSUME IInv, SetsApart, NEW b \in Bridges, Own(b), NEW p \in Plugins, disk'[p] # disk[p]
  PROVE  /\ pc[b] \in Locked
         /\ \/ disk[p] = Absent \/ disk[p].by = SetOf[b]
            \/ disk[p] = Remains /\ Unlinking(b, p)
         /\ disk'[p] \in {Absent, Remains} \/ disk'[p].by = SetOf[b]
<1> USE DEF IInv
<1>1. \A dir : Set(p, dir) => disk'[p] = dir
  BY DEF Set, Types, FilesType
<1>2. CASE MoveAside(b, p) /\ Set(p, Absent) /\ p \in owned[b]
  <2>1. disk[p].by = SetOf[b]
    BY <1>2 DEF MoveAside, OwnedInv, Holds, Settled
  <2>2. QED
    BY <1>1, <1>2, <2>1 DEF MoveAside, Locked
<1>3. CASE Place(b, p) /\ disk[p] = Absent /\ Set(p, Wants(b, p))
  BY <1>1, <1>3 DEF Place, Locked, Wants
<1>4. CASE Unlink(b, p)
  <2>1. Removing(b, p)
    BY <1>4 DEF Unlink
  <2>2. disk'[p] = Remains \/ disk'[p].by = disk[p].by
    BY <1>4, UnlinkLeaves
  <2>3. Remains \in {Absent, Remains}
    OBVIOUS
  <2>4. disk[p] = Remains => disk'[p] = Remains
    <3>1. PICK left \in {[disk[p] EXCEPT !.whole = FALSE], Remains} : Set(p, left)
      BY <1>4 DEF Unlink
    <3>2. disk[p] = Remains => left = Remains
      BY <3>1 DEF Remains
    <3>3. QED
      BY <1>1, <3>1, <3>2
  <2>5. QED
    BY <2>1, <2>2, <2>4, Removed DEF Locked
<1>5. CASE Clean(b, p) /\ Set(p, Absent)
  <2>1. Removing(b, p)
    BY <1>5 DEF Clean
  <2>2. QED
    BY <1>1, <1>5, <2>1, Removed DEF Locked
<1>6. CASE IOError(b, p) /\ disk[p] = Absent /\ Set(p, backup[b])
  <2>1. backup[b] = Absent \/ backup[b].by = SetOf[b]
    BY DEF OwnedInv, Holds
  <2>2. QED
    BY <1>1, <1>6, <2>1, IOErrorFails
<1>7. QED
  BY <1>2, <1>3, <1>4, <1>5, <1>6, Changes

\* The directories of other sets stay as they are, and none is made.
LEMMA ForeignKept ==
  ASSUME IInv, SetsApart, NEW b \in Bridges, Own(b), NEW s \in PluginSets, s # SetOf[b],
         NEW p \in Plugins, disk[p].by = s \/ disk'[p].by = s
  PROVE  disk'[p] = disk[p]
<1>1. Absent.by # s /\ Remains.by # s
  BY BridgeAssumption DEF Absent, Remains
<1>2. QED
  BY <1>1, ChangesOwn

\* Two bridges of a set are not at work at a time.
LEMMA SetExcludes ==
  ASSUME IInv, SetsApart, NEW b \in Bridges, NEW c \in Bridges \ {b}, SetOf[b] = SetOf[c],
         pc[c] \in Locked
  PROVE  pc[b] \notin Locked
  BY DEF IInv, SetsApart, LockInv, ExclusiveUntilRecovery

\* What a bridge holds, the steps of another leave to it.
LEMMA OthersOwned ==
  ASSUME IInv, SetsApart, NEW b \in Bridges, Own(b), NEW c \in Bridges \ {b}
  PROVE  Holds(c)'
<1> USE DEF IInv
<1>1. /\ pc'[c] = pc[c] /\ owned'[c] = owned[c] /\ todo'[c] = todo[c] /\ backup'[c] = backup[c]
      /\ owned[c] \subseteq Plugins
  BY OthersKeep DEF Same, Types, LocalsType
<1>2. ASSUME NEW p \in Plugins, disk[p].by = SetOf[c], pc[c] \in Locked
      PROVE  disk'[p].by = SetOf[c]
  <2>1. CASE SetOf[b] = SetOf[c]
    <3>1. pc[b] \notin Locked
      BY <1>2, <2>1, SetExcludes
    <3>2. QED
      BY <1>2, <3>1, ChangesOwn
  <2>2. CASE SetOf[b] # SetOf[c]
    <3>1. SetOf[c] \in PluginSets
      BY BridgeAssumption
    <3>2. QED
      BY <1>2, <2>2, <3>1, ForeignKept
  <2>3. QED
    BY <2>1, <2>2
<1>3. \A p : (Settled(c, p)' <=> Settled(c, p)) /\ (Unlinking(c, p)' <=> Unlinking(c, p))
  BY <1>1 DEF Settled, Unlinking, First
<1>4. \A p \in owned[c] : Settled(c, p) => disk'[p].by = SetOf[c]
  BY <1>1, <1>2 DEF OwnedInv, Holds, Settled, Locked
<1>5. ASSUME NEW p \in Plugins, Unlinking(c, p)
      PROVE  disk'[p].by = SetOf[c] \/ disk'[p] = Remains
  <2>1. disk[p].by = SetOf[c] \/ disk[p] = Remains
    BY <1>5 DEF OwnedInv, Holds
  <2>2. ~Unlinking(b, p)
    BY <1>5 DEF RemoverInv
  <2>3. Remains # Absent
    BY DEF Remains, Absent
  <2>4. Remains.by # SetOf[b]
    BY BridgeAssumption DEF Remains
  <2>5. disk[p] = Remains => disk'[p] = Remains
    BY <2>2, <2>3, <2>4, ChangesOwn
  <2>6. QED
    BY <1>2, <1>5, <2>1, <2>5 DEF Unlinking, Locked
<1>6. backup[c] = Absent \/ backup[c].by = SetOf[c]
  BY DEF OwnedInv, Holds
<1>7. QED
  BY <1>1, <1>3, <1>4, <1>5, <1>6 DEF Holds

\* What b itself holds after a step that ends its round or comes before the scan.
LEMMA IdleOwns ==
  ASSUME IInv, SetsApart, NEW b \in Bridges, NEW point, Goes(b, point),
         point \notin {"write", "drop", "place", "clean"}, Ends(b) \/ backup' = backup
  PROVE  Holds(b)'
<1>1. pc'[b] = point
  BY GoesTo DEF IInv
<1>2. backup'[b] = Absent \/ backup'[b] = backup[b]
  BY EndsOnly DEF IInv
<1>3. QED
  BY <1>1, <1>2 DEF IInv, OwnedInv, Holds, Settled, Unlinking

LEMMA FailedOwns ==
  ASSUME IInv, SetsApart, NEW b \in Bridges, Failed(b)
  PROVE  Holds(b)'
  BY IdleOwns DEF Failed

LEMMA SelfOwned ==
  ASSUME IInv, SetsApart, NEW b \in Bridges, Own(b)
  PROVE  Holds(b)'
<1> USE DEF IInv
<1> DEFINE Owns == Holds(b)'
<1>0. owned[b] \subseteq Plugins /\ (backup[b] = Absent \/ backup[b].by = SetOf[b])
  BY DEF Types, LocalsType, OwnedInv, Holds
<1>1. CASE Poll(b) \/ Reload(b) \/ ReloadRefused(b) \/ Restart(b) \/ Crash(b)
  <2>1. \E point : /\ Goes(b, point) /\ point \notin {"write", "drop", "place", "clean"}
                   /\ Ends(b) \/ backup' = backup
    BY <1>1 DEF Poll, Reload, ReloadRefused, Restart, Crash, runVars
  <2>2. QED
    BY <2>1, IdleOwns
<1>2. CASE TakeLock(b) \/ Recover(b) \/ Relock(b) \/ Done(b)
  <2>1. \E point : /\ Goes(b, point) /\ point \notin {"write", "drop", "place", "clean"}
                   /\ Ends(b) \/ backup' = backup
    BY <1>2 DEF TakeLock, Recover, Relock, Done, runVars
  <2>2. QED
    BY <2>1, IdleOwns
<1>3. CASE Scan(b)
  <2>1. CASE Failed(b)
    BY <2>1, FailedOwns
  <2>2. CASE ~Failed(b)
    <3>1. owned' = [owned EXCEPT ![b] = Mine(b)] /\ UNCHANGED <<disk, backup>> /\ Goes(b, "write")
      BY <1>3, <2>2 DEF Scan, Fail, Failed
    <3>2. owned'[b] = Mine(b) /\ pc'[b] = "write"
      BY <3>1, GoesTo DEF Types, LocalsType
    <3>3. QED
      BY <1>0, <3>1, <3>2 DEF Mine, Holds, Unlinking
  <2>3. QED
    BY <2>1, <2>2
<1>4. ASSUME NEW p \in Plugins, MoveAside(b, p) PROVE Owns
  <2>1. CASE Failed(b)
    BY <2>1, FailedOwns
  <2>2. CASE ~Failed(b)
    <3>1. /\ (p \in owned[b]) = (disk[p] # Absent)
          /\ pc[b] = "write" /\ First(b, p) /\ Goes(b, "place") /\ Set(p, Absent)
          /\ backup' = [backup EXCEPT ![b] = disk[p]] /\ owned' = owned /\ todo' = todo
      BY <1>4, <2>2 DEF MoveAside, Fail, Failed
    <3>2. \A q \in owned[b] : disk[q].by = SetOf[b]
      BY <3>1 DEF OwnedInv, Holds, Settled
    <3>3. backup'[b] = Absent \/ backup'[b].by = SetOf[b]
      BY <3>1, <3>2 DEF Types, LocalsType
    <3>4. First(b, p)' /\ pc'[b] = "place"
      BY <3>1, GoesTo DEF First
    <3>5. \A q \in owned[b] : q # p => disk'[q] = disk[q]
      BY <1>0, <3>1 DEF Set, Types, FilesType
    <3>6. QED
      BY <3>1, <3>2, <3>3, <3>4, <3>5 DEF Holds, Settled, Unlinking
  <2>3. QED
    BY <2>1, <2>2
<1>5. ASSUME NEW p \in Plugins, Place(b, p) PROVE Owns
  <2>1. CASE Failed(b)
    BY <2>1, FailedOwns
  <2>2. CASE ~Failed(b)
    <3>1. /\ pc[b] = "place" /\ First(b, p) /\ Set(p, Wants(b, p)) /\ Goes(b, "drop")
          /\ UNCHANGED <<owned, backup>>
      BY <1>5, <2>2 DEF Place, Fail, Failed, runVars
    <3>2. ASSUME NEW q \in owned[b] PROVE disk'[q].by = SetOf[b]
      <4>1. CASE q = p
        BY <3>1, <4>1 DEF Set, Wants, Types, FilesType
      <4>2. CASE q # p
        <5>1. q \in Plugins /\ ~First(b, q)
          BY <1>0, <3>1, <4>2, FirstUnique
        <5>2. disk[q].by = SetOf[b]
          BY <3>1, <5>1 DEF OwnedInv, Holds, Settled
        <5>3. QED
          BY <3>1, <4>2, <5>1, <5>2 DEF Set, Types, FilesType
      <4>3. QED
        BY <4>1, <4>2
    <3>3. pc'[b] = "drop"
      BY <3>1, GoesTo
    <3>4. QED
      BY <1>0, <3>1, <3>2, <3>3 DEF Holds, Unlinking
  <2>3. QED
    BY <2>1, <2>2
<1>6. ASSUME NEW p \in Plugins, DropBackup(b, p) PROVE Owns
  <2>1. /\ pc[b] = "drop" /\ UNCHANGED <<disk, owned>> /\ Goes(b, "write")
        /\ backup' = [backup EXCEPT ![b] = Absent]
    BY <1>6 DEF DropBackup
  <2>2. backup'[b] = Absent /\ \A q \in owned[b] : disk[q].by = SetOf[b]
    BY <2>1 DEF OwnedInv, Holds, Settled, Types, LocalsType
  <2>3. pc'[b] = "write"
    BY <2>1, GoesTo
  <2>4. QED
    BY <2>1, <2>2, <2>3 DEF Holds, Unlinking
<1>7. ASSUME NEW p \in Plugins, Removing(b, p), NEW q \in owned[b] \ {p}
      PROVE  disk[q].by = SetOf[b]
  <2>1. pc[b] = "write" \/ (pc[b] = "clean" /\ ~First(b, q))
    BY <1>0, <1>7, FirstUnique DEF Removing
  <2>2. QED
    BY <2>1 DEF OwnedInv, Holds, Settled
<1>8. ASSUME NEW p \in Plugins, Unlink(b, p) PROVE Owns
  <2>1. /\ Removing(b, p) /\ Goes(b, "clean") /\ todo' = [todo EXCEPT ![b] = {p}]
        /\ UNCHANGED <<owned, backup>>
    BY <1>8 DEF Unlink
  <2>2. pc'[b] = "clean" /\ \A q \in Plugins : First(b, q)' <=> q = p
    BY <2>1, GoesTo, BridgeAssumption DEF First, Types, LocalsType
  <2>3. \A q \in owned[b] \ {p} : disk'[q].by = SetOf[b]
    BY <1>0, <1>7, <1>8, <2>1, UnlinkLeaves
  <2>4. disk'[p].by = SetOf[b] \/ disk'[p] = Remains
    <3>1. CASE disk'[p] = disk[p]
      BY <2>1, <3>1, Removed
    <3>2. CASE disk'[p] # disk[p]
      <4>1. disk'[p] = Remains \/ disk'[p].by = disk[p].by
        BY <1>8, UnlinkLeaves
      <4>2. disk[p] = Remains => disk'[p] = Remains
        <5>1. PICK left \in {[disk[p] EXCEPT !.whole = FALSE], Remains} : Set(p, left)
          BY <1>8 DEF Unlink
        <5>2. disk[p] = Remains => left = Remains
          BY <5>1 DEF Remains
        <5>3. QED
          BY <5>1, <5>2 DEF Set, Types, FilesType
      <4>3. QED
        BY <2>1, <4>1, <4>2, Removed
    <3>3. QED
      BY <3>1, <3>2
  <2>5. QED
    BY <1>0, <2>1, <2>2, <2>3, <2>4 DEF Holds, Settled, Unlinking
<1>9. ASSUME NEW p \in Plugins, Clean(b, p) PROVE Owns
  <2>1. /\ Removing(b, p) /\ backup' = backup /\ Set(p, Absent) /\ Goes(b, "write")
        /\ owned' = [owned EXCEPT ![b] = @ \ {p}]
    BY <1>9 DEF Clean
  <2>2. owned'[b] = owned[b] \ {p} /\ pc'[b] = "write"
    BY <2>1, GoesTo DEF Types, LocalsType
  <2>3. \A q \in owned'[b] : disk'[q] = disk[q]
    BY <1>0, <2>1, <2>2 DEF Set, Types, FilesType
  <2>4. QED
    BY <1>0, <1>7, <2>1, <2>2, <2>3 DEF Holds, Unlinking
<1>10. ASSUME NEW p \in Plugins, IOError(b, p) PROVE Owns
  BY <1>10, IOErrorFails, FailedOwns
<1>11. QED
  BY <1>1, <1>2, <1>3, <1>4, <1>5, <1>6, <1>8, <1>9, <1>10 DEF Own, BridgeStep, InstallStep

\* What goes on around the bridges leaves them alone, and the directories too but
\* for one made by hand.
LEMMA AroundKeeps ==
  ASSUME Types, (\E s \in PluginSets : PublishManifest(s)) \/ LockAges
                \/ (\E p \in Plugins : MakeByHand(p)) \/ UNCHANGED bridgeVars
  PROVE  /\ UNCHANGED <<pc, runVars, memory, history, hub>>
         /\ \A p \in Plugins : disk'[p] # disk[p] => disk[p] = Absent /\ disk'[p] = ByHand
<1>1. UNCHANGED <<pc, runVars, memory, history, hub>>
  BY DEF PublishManifest, LockAges, MakeByHand, bridgeVars
<1>2. disk' = disk \/ \E p \in Plugins : disk[p] = Absent /\ Set(p, ByHand)
  BY DEF PublishManifest, LockAges, MakeByHand, bridgeVars
<1>3. QED
  BY <1>1, <1>2 DEF Set, Types, FilesType

\* ... so that of every set they are as they were.
LEMMA AroundKeepsSets ==
  ASSUME Types, (\E s \in PluginSets : PublishManifest(s)) \/ LockAges
                \/ (\E p \in Plugins : MakeByHand(p)) \/ UNCHANGED bridgeVars,
         NEW s \in PluginSets, NEW p \in Plugins, disk[p].by = s \/ disk'[p].by = s
  PROVE  disk'[p] = disk[p]
<1>1. Absent.by # s /\ ByHand.by # s
  BY BridgeAssumption DEF Absent, ByHand
<1>2. QED
  BY <1>1, AroundKeeps

LEMMA NextOwned == ASSUME IInv, [BridgeNext]_bridgeVars PROVE OwnedInv'
<1> SUFFICES ASSUME SetsApart', NEW c \in Bridges
             PROVE  Holds(c)'
  BY DEF OwnedInv
<1>1. SetsApart
  BY ApartBefore DEF IInv
<1>2. ASSUME NEW b \in Bridges, Own(b) PROVE Holds(c)'
  BY <1>1, <1>2, OthersOwned, SelfOwned
<1>3. CASE (\E s \in PluginSets : PublishManifest(s)) \/ LockAges
           \/ (\E p \in Plugins : MakeByHand(p)) \/ UNCHANGED bridgeVars
  <2>1. pc' = pc /\ owned' = owned /\ todo' = todo /\ backup' = backup
    BY <1>3, AroundKeeps DEF IInv, runVars
  <2>2. Holds(c) /\ SetOf[c] \in PluginSets /\ owned[c] \subseteq Plugins
    BY <1>1, BridgeAssumption DEF IInv, OwnedInv, Types, LocalsType
  <2>3. \A p \in Plugins : disk[p].by = SetOf[c] => disk'[p].by = SetOf[c]
    BY <1>3, <2>2, AroundKeepsSets DEF IInv
  <2>4. \A p \in Plugins : disk[p] = Remains => disk'[p] = Remains
    <3>1. Remains # Absent
      BY DEF Remains, Absent
    <3>2. QED
      BY <1>3, <3>1, AroundKeeps DEF IInv
  <2>5. \A p : (Settled(c, p)' <=> Settled(c, p)) /\ (Unlinking(c, p)' <=> Unlinking(c, p))
    BY <2>1 DEF Settled, Unlinking, First
  <2>6. QED
    BY <2>1, <2>2, <2>3, <2>4, <2>5 DEF Holds
<1>4. QED
  BY <1>2, <1>3 DEF BridgeNext, Own

\* Only a step of a removal leaves one under way.
LEMMA StartsUnlinking ==
  ASSUME Types, NEW b \in Bridges, Own(b), pc'[b] = "clean"
  PROVE  \E q \in Plugins : Unlink(b, q)
<1>1. \A point : Goes(b, point) => point = "clean"
  BY GoesTo
<1>2. ~Failed(b)
  BY <1>1 DEF Failed
<1>3. CASE Poll(b) \/ Reload(b) \/ ReloadRefused(b) \/ Restart(b) \/ Crash(b)
  BY <1>1, <1>3 DEF Poll, Reload, ReloadRefused, Restart, Crash
<1>4. CASE TakeLock(b) \/ Recover(b) \/ Relock(b) \/ Scan(b) \/ Done(b)
  BY <1>1, <1>4 DEF TakeLock, Recover, Relock, Scan, Fail, Done
<1>5. ASSUME NEW p \in Plugins, MoveAside(b, p) \/ Place(b, p) \/ DropBackup(b, p) \/ Clean(b, p)
      PROVE  FALSE
  BY <1>1, <1>5 DEF MoveAside, Place, Fail, DropBackup, Clean
<1>6. ASSUME NEW p \in Plugins, IOError(b, p) PROVE FALSE
  BY <1>2, <1>6, IOErrorFails
<1>7. QED
  BY <1>3, <1>4, <1>5, <1>6 DEF Own, BridgeStep, InstallStep

\* No other bridge is removing what b is about to.
LEMMA OneRemover ==
  ASSUME IInv, SetsApart, NEW b \in Bridges, NEW c \in Bridges, NEW p \in Plugins,
         Removing(b, p), Unlinking(c, p)
  PROVE  b = c
<1> USE DEF IInv
<1>1. CASE Unlinking(b, p)
  BY <1>1 DEF RemoverInv
<1>2. CASE ~Unlinking(b, p)
  <2>1. disk[p].by = SetOf[b] /\ pc[b] \in Locked
    BY <1>2, Removed DEF Locked
  <2>2. Remains.by # SetOf[b]
    BY BridgeAssumption DEF Remains
  <2>3. SetOf[c] = SetOf[b] /\ pc[c] \in Locked
    BY <2>1, <2>2 DEF OwnedInv, Holds, Unlinking, Locked
  <2>4. QED
    BY <2>1, <2>3, SetExcludes
<1>3. QED
  BY <1>1, <1>2

LEMMA NextRemover == ASSUME IInv, [BridgeNext]_bridgeVars PROVE RemoverInv'
<1> USE DEF IInv
<1>1. SUFFICES ASSUME SetsApart', NEW c \in Bridges, NEW d \in Bridges, NEW p \in Plugins,
                      Unlinking(c, p)', Unlinking(d, p)'
               PROVE  c = d
  BY DEF RemoverInv
<1>2. SetsApart
  BY <1>1, ApartBefore
<1>3. ASSUME NEW b \in Bridges, Own(b) PROVE c = d
  <2>1. \A e \in Bridges \ {b} : Unlinking(e, p)' => Unlinking(e, p)
    BY <1>3, OthersKeep DEF Same, Unlinking, First
  <2>2. Unlinking(b, p)' => Removing(b, p)
    <3>1. SUFFICES ASSUME Unlinking(b, p)' PROVE Removing(b, p)
      OBVIOUS
    <3>2. PICK q \in Plugins : Unlink(b, q)
      BY <1>3, <3>1, StartsUnlinking DEF Unlinking
    <3>3. todo'[b] = {q}
      BY <3>2 DEF Unlink, Types, LocalsType
    <3>4. QED
      BY <3>1, <3>2, <3>3 DEF Unlink, Unlinking, First
  <2>3. \A e \in Bridges \ {b} : ~(Unlinking(e, p)' /\ Unlinking(b, p)')
    BY <1>2, <2>1, <2>2, OneRemover
  <2>4. CASE c = b \/ d = b
    BY <1>1, <2>3, <2>4
  <2>5. CASE c # b /\ d # b
    BY <1>1, <1>2, <2>1, <2>5 DEF RemoverInv
  <2>6. QED
    BY <2>4, <2>5
<1>4. CASE (\E s \in PluginSets : PublishManifest(s)) \/ LockAges
           \/ (\E q \in Plugins : MakeByHand(q)) \/ UNCHANGED bridgeVars
  <2>1. pc' = pc /\ todo' = todo
    BY <1>4, AroundKeeps DEF runVars
  <2>2. QED
    BY <1>1, <1>2, <2>1 DEF RemoverInv, Unlinking, First
<1>5. QED
  BY <1>3, <1>4 DEF BridgeNext, Own

LEMMA InitIInv == BridgeInit => IInv
<1> SUFFICES ASSUME BridgeInit PROVE IInv
  OBVIOUS
<1>1. "wait" \in Points /\ "wait" \notin Locked /\ 0 \in 0..MaxFaults
  BY BridgeAssumption DEF Points, Locked
<1>2. Types
  BY <1>1, DirTypes DEF BridgeInit, Types, FilesType, ControlType, LocalsType, MemoryType
<1>3. LockInv /\ OwnedInv /\ RemoverInv
  BY <1>1
  DEF BridgeInit, LockInv, OwnedInv, RemoverInv, Holds, Unlinking, ExclusiveUntilRecovery
<1>4. QED
  BY <1>2, <1>3 DEF IInv

LEMMA NextIInv == ASSUME IInv, [BridgeNext]_bridgeVars PROVE IInv'
  BY NextType, NextLock, NextOwned, NextRemover DEF IInv

LEMMA Invariance == BridgeSpec => []IInv
<1>1. IInv /\ [BridgeNext]_bridgeVars => IInv'
  BY NextIInv
<1>2. QED
  BY InitIInv, <1>1, PTL DEF BridgeSpec

-----------------------------------------------------------------------------
(* The course of an install. *)

\* The only bridge of its set.
Sole(b) == \A c \in Bridges : SetOf[c] = SetOf[b] => c = b

\* The directories of b's set are those of manifest m, and have all their files, but
\* for those of which a removal was once cut short.
Installed(b, m) ==
  /\ Mine(b) = {p \in Plugins : m[p] # 0}
  /\ \A p \in Mine(b) : disk[p].version = m[p] /\ (p \notin cut => disk[p].whole)

\* An install has a count, a backup and a plan.
Working == {"write", "place", "drop", "clean"}

\* A directory of b's set with the wanted version in its receipt.
AsWanted(b, p) == disk[p].by = SetOf[b] /\ disk[p].version = report[b][p]

\* Every directory of the set is still to be looked at or as it is wanted, and what
\* is wanted is there or still to be written; what is removed is not wanted.
InPlan(b) ==
  /\ todo[b] \subseteq IF pc[b] = "clean" THEN Plugins \ Wanted(b) ELSE Wanted(b)
  /\ \A p \in Plugins :
       disk[p].by = SetOf[b] =>
         \/ p \in owned[b] \/ p \in Wanted(b) \ todo[b]
         \/ pc[b] = "drop" /\ First(b, p)
  /\ \A p \in Wanted(b) :
       p \notin todo[b] \/ (pc[b] = "drop" /\ First(b, p)) => AsWanted(b, p)

PlanInv ==
  SetsApart => \A b \in Bridges : Sole(b) /\ pc[b] \in Working => InPlan(b)

\* A directory has all its files unless it is being removed, or a removal of it was
\* once cut short; so has the one moved aside.
WholeInv ==
  SetsApart =>
    \A b \in Bridges : Sole(b) =>
      \A p \in Plugins \ cut :
        /\ disk[p].by = SetOf[b] => disk[p].whole \/ Unlinking(b, p)
        /\ pc[b] = "place" /\ First(b, p) => backup[b].whole

\* An install counts its changes, and ends with its count.
CountInv == \A b \in Bridges : changed[b] => pc[b] \in Working

\* The install under way has changed a directory of its set.
Touched(b) ==
  \/ changed[b]
  \/ pc[b] \in {"drop", "clean"}
  \/ pc[b] = "place" /\ backup[b] # Absent

\* The directories may not be those of the ETag any more.
Behind(b) == b \in dropped \/ Touched(b)

EtagInv ==
  SetsApart =>
    \A b \in Bridges : Sole(b) /\ ~Behind(b) => \A m \in etag[b] : Installed(b, m)

\* The Hub has loaded what there is of set s.
Loaded(s) == \A p \in Plugins : disk[p].by = s \/ hub[p].by = s => hub[p] = disk[p]

\* ... or a bridge of s knows, or will know at the end of its install, that it has not.
LoadedInv ==
  SetsApart =>
    \A s \in PluginSets :
      Loaded(s) \/ \E b \in Bridges : SetOf[b] = s /\ (pending[b] \/ Behind(b))

Course == PlanInv /\ WholeInv /\ CountInv /\ EtagInv /\ LoadedInv

LEMMA InitCourse == BridgeInit => Course
<1> SUFFICES ASSUME BridgeInit PROVE Course
  OBVIOUS
<1>1. PlanInv /\ WholeInv /\ CountInv /\ EtagInv
  BY DEF BridgeInit, PlanInv, WholeInv, CountInv, EtagInv, Working, Absent
<1>2. \A s \in PluginSets : Loaded(s)
  BY DEF BridgeInit, Loaded
<1>3. QED
  BY <1>1, <1>2 DEF Course, LoadedInv

\* A failed install that touched a directory is recorded.
LEMMA FailureCounts ==
  ASSUME Types, NEW b \in Bridges, NEW touched \in BOOLEAN, Fail(b, touched)
  PROVE  /\ Failed(b)
         /\ changed[b] \/ touched => b \in dropped'
         /\ b \in dropped => b \in dropped'
         /\ ~changed'[b] /\ pc'[b] = "wait"
<1>1. Goes(b, "wait") /\ Ends(b)
  BY DEF Fail
<1>2. QED
  BY <1>1, GoesTo, EndsOnly DEF Fail, Failed

\* A step of b that is not the end of its install, nor the end of the process,
\* leaves the ETag and whether b is behind it; one that changes a directory makes
\* it so.
LEMMA BehindStays ==
  ASSUME IInv, CountInv, NEW b \in Bridges, Own(b), ~Done(b), ~Crash(b)
  PROVE  /\ etag'[b] = etag[b]
         /\ pending[b] => pending'[b] \/ Reload(b)
         /\ Behind(b) => Behind(b)'
         /\ disk' # disk => Behind(b)'
<1> USE DEF IInv
<1> DEFINE Goal == /\ etag'[b] = etag[b]
                   /\ pending[b] => pending'[b] \/ Reload(b)
                   /\ Behind(b) => Behind(b)'
                   /\ disk' # disk => Behind(b)'
<1>1. CASE Poll(b) \/ Reload(b) \/ ReloadRefused(b) \/ Restart(b)
  <2>1. pc[b] \notin Working
    BY <1>1 DEF Poll, Reload, ReloadRefused, Restart, Working
  <2>2. Behind(b) => b \in dropped
    BY <2>1 DEF Behind, Touched, CountInv, Working
  <2>3. UNCHANGED <<disk, etag, dropped>> /\ (pending' = pending \/ Reload(b))
    BY <1>1 DEF Poll, Reload, ReloadRefused, Restart, memory, history
  <2>4. QED
    BY <2>2, <2>3 DEF Behind
<1>2. CASE TakeLock(b) \/ Recover(b) \/ Relock(b)
  <2>1. pc[b] \notin Working
    BY <1>2 DEF TakeLock, Recover, Relock, Working
  <2>2. Behind(b) => b \in dropped
    BY <2>1 DEF Behind, Touched, CountInv, Working
  <2>3. UNCHANGED <<disk, etag, pending, dropped>>
    BY <1>2 DEF TakeLock, Recover, Relock, memory, history
  <2>4. QED
    BY <2>2, <2>3 DEF Behind
<1>3. CASE Scan(b)
  <2>1. UNCHANGED <<disk, etag, pending>> /\ pc[b] = "scan"
    BY <1>3 DEF Scan, memory
  <2>2. Behind(b) => b \in dropped
    BY <2>1 DEF Behind, Touched, CountInv, Working
  <2>3. Fail(b, FALSE) \/ dropped' = dropped
    BY <1>3 DEF Scan
  <2>4. QED
    BY <2>1, <2>2, <2>3, FailureCounts DEF Behind
<1>4. ASSUME NEW p \in Plugins, MoveAside(b, p) PROVE Goal
  <2>1. UNCHANGED <<etag, pending>> /\ pc[b] = "write"
    BY <1>4 DEF MoveAside, memory
  <2>2. CASE Fail(b, FALSE) /\ disk' = disk
    BY <2>1, <2>2, FailureCounts DEF Behind, Touched
  <2>3. CASE ~(Fail(b, FALSE) /\ disk' = disk)
    <3>1. /\ backup' = [backup EXCEPT ![b] = disk[p]] /\ Set(p, Absent) /\ Goes(b, "place")
          /\ UNCHANGED <<changed, dropped>>
      BY <1>4, <2>3 DEF MoveAside
    <3>2. backup'[b] = disk[p] /\ pc'[b] = "place"
      BY <3>1, GoesTo DEF Types, LocalsType
    <3>3. disk' # disk => disk[p] # Absent
      BY <3>1 DEF Set, Types, FilesType
    <3>4. QED
      BY <2>1, <3>1, <3>2, <3>3 DEF Behind, Touched
  <2>4. QED
    BY <2>2, <2>3
<1>5. ASSUME NEW p \in Plugins, Place(b, p) PROVE Goal
  <2>1. UNCHANGED <<etag, pending>> /\ pc[b] = "place"
    BY <1>5 DEF Place, memory
  <2>2. CASE Fail(b, backup[b] # Absent) /\ disk' = disk
    BY <2>1, <2>2, FailureCounts DEF Behind, Touched
  <2>3. CASE ~(Fail(b, backup[b] # Absent) /\ disk' = disk)
    <3>1. Goes(b, "drop")
      BY <1>5, <2>3 DEF Place
    <3>2. QED
      BY <2>1, <3>1, GoesTo DEF Behind, Touched
  <2>4. QED
    BY <2>2, <2>3
<1>6. ASSUME NEW p \in Plugins, DropBackup(b, p) \/ Clean(b, p) PROVE Goal
  <2>1. UNCHANGED <<etag, pending>> /\ changed'[b]
    BY <1>6 DEF DropBackup, Clean, memory, Types, LocalsType
  <2>2. QED
    BY <2>1 DEF Behind, Touched
<1>7. ASSUME NEW p \in Plugins, Unlink(b, p) PROVE Goal
  <2>1. UNCHANGED <<etag, pending>> /\ pc'[b] = "clean"
    BY <1>7, GoesTo DEF Unlink, memory
  <2>2. QED
    BY <2>1 DEF Behind, Touched
<1>8. ASSUME NEW p \in Plugins, IOError(b, p) PROVE Goal
  <2>1. UNCHANGED <<etag, pending>>
    BY <1>8 DEF IOError, memory
  <2>2. CASE /\ pc[b] = "write" /\ Fail(b, FALSE) /\ UNCHANGED disk
    BY <2>1, <2>2, FailureCounts DEF Behind, Touched
  <2>3. CASE /\ pc[b] = "place" /\ Fail(b, backup[b] # Absent)
             /\ (disk[p] = Absent /\ Set(p, backup[b])) \/ UNCHANGED disk
    <3>1. disk' # disk => backup[b] # Absent
      BY <2>3 DEF Set, Types, FilesType
    <3>2. QED
      BY <2>1, <2>3, <3>1, FailureCounts DEF Behind, Touched
  <2>4. CASE Fail(b, TRUE) /\ UNCHANGED disk
    BY <2>1, <2>4, FailureCounts DEF Behind
  <2>5. CASE Removing(b, p) /\ Fail(b, pc[b] = "clean") /\ UNCHANGED disk
    BY <2>1, <2>5, FailureCounts DEF Behind, Touched, Removing
  <2>6. QED
    BY <1>8, <2>2, <2>3, <2>4, <2>5 DEF IOError
<1>9. QED
  BY <1>1, <1>2, <1>3, <1>4, <1>5, <1>6, <1>7, <1>8 DEF Own, BridgeStep, InstallStep

\* What was cut short once is never told to be whole again.
LEMMA CutGrows ==
  ASSUME Types, [BridgeNext]_bridgeVars PROVE cut \subseteq cut'
<1>1. ASSUME NEW b \in Bridges, Own(b) PROVE cut' = cut \/ CutShort(b)
  BY <1>1
  DEF Own, BridgeStep, InstallStep, Poll, Reload, ReloadRefused, Crash, Restart, TakeLock, Recover,
      Relock, Scan, MoveAside, Place, DropBackup, Unlink, Clean, Done, IOError, history
<1>2. cut' = cut \/ \E b \in Bridges : CutShort(b)
  BY <1>1 DEF BridgeNext, Own, PublishManifest, LockAges, MakeByHand, bridgeVars, history
<1>3. QED
  BY <1>2, CutType

\* The directories of b's set are those b knows of, unless b itself steps.
LEMMA MineKept ==
  ASSUME Types, NEW b \in Bridges, cut \subseteq cut',
         \A p \in Plugins : disk[p].by = SetOf[b] \/ disk'[p].by = SetOf[b] => disk'[p] = disk[p]
  PROVE  /\ Mine(b)' = Mine(b)
         /\ \A m : Installed(b, m) => Installed(b, m)'
<1>1. Mine(b)' = Mine(b)
  BY DEF Mine
<1>2. \A p \in Mine(b) : disk'[p] = disk[p]
  BY DEF Mine
<1>3. QED
  BY <1>1, <1>2 DEF Installed

LEMMA DoneInstalls ==
  ASSUME IInv, PlanInv, WholeInv, SetsApart, NEW b \in Bridges, Sole(b), Done(b)
  PROVE  /\ etag'[b] = {report[b]} /\ disk' = disk
         /\ Installed(b, report[b])
<1>1. /\ InPlan(b) /\ pc[b] = "write" /\ todo[b] = {} /\ owned[b] \subseteq Wanted(b)
      /\ etag' = [etag EXCEPT ![b] = {report[b]}] /\ disk' = disk
  BY DEF Done, PlanInv, Working
<1>2. \A p \in Plugins : disk[p].by = SetOf[b] => p \in Wanted(b)
  BY <1>1 DEF InPlan
<1>3. \A p \in Wanted(b) : disk[p].by = SetOf[b] /\ disk[p].version = report[b][p]
  BY <1>1 DEF InPlan, AsWanted
<1>4. Wanted(b) = {p \in Plugins : report[b][p] # 0}
  BY DEF Wanted
<1>5. Mine(b) = Wanted(b)
  <2>1. \A p \in Plugins : p \in Mine(b) <=> disk[p].by = SetOf[b]
    BY DEF Mine
  <2>2. Mine(b) \subseteq Plugins /\ Wanted(b) \subseteq Plugins
    BY <1>4 DEF Mine
  <2>3. \A p \in Plugins : p \in Mine(b) <=> p \in Wanted(b)
    BY <1>2, <1>3, <2>1
  <2>4. QED
    BY <2>2, <2>3
<1>6. \A p \in Mine(b) : p \notin cut => disk[p].whole
  BY <1>1 DEF WholeInv, Unlinking, Mine
<1>7. Installed(b, report[b])
  BY <1>3, <1>4, <1>5, <1>6 DEF Installed
<1>8. QED
  BY <1>1, <1>7 DEF IInv, Types, MemoryType

LEMMA OwnEtag ==
  ASSUME IInv, CountInv, PlanInv, WholeInv, EtagInv, SetsApart, NEW b \in Bridges, Own(b),
         NEW c \in Bridges, Sole(c), ~Behind(c)', NEW m \in etag'[c]
  PROVE  Installed(c, m)'
<1> USE DEF IInv
<1>0. cut \subseteq cut'
  BY CutGrows DEF BridgeNext, Own
<1>1. CASE c # b
  <2>1. Same(c)
    BY <1>1, OthersKeep
  <2>2. ~Behind(c) /\ m \in etag[c]
    BY <2>1 DEF Same, Behind, Touched
  <2>3. SetOf[c] # SetOf[b] /\ SetOf[c] \in PluginSets
    BY <1>1, BridgeAssumption DEF Sole
  <2>4. Installed(c, m)
    BY <2>2 DEF EtagInv
  <2>5. QED
    BY <1>0, <2>3, <2>4, ForeignKept, MineKept
<1>2. CASE c = b /\ Done(b)
  BY <1>0, <1>2, DoneInstalls DEF Installed, Mine
<1>3. CASE c = b /\ Crash(b)
  BY <1>3 DEF Crash, Types, MemoryType
<1>4. CASE c = b /\ ~Done(b) /\ ~Crash(b)
  <2>1. ~Behind(b) /\ m \in etag[b] /\ disk' = disk
    BY <1>4, BehindStays
  <2>2. Installed(b, m)
    BY <1>4, <2>1 DEF EtagInv
  <2>3. QED
    BY <1>0, <1>4, <2>1, <2>2 DEF Installed, Mine
<1>5. QED
  BY <1>1, <1>2, <1>3, <1>4

LEMMA OwnLoaded ==
  ASSUME IInv, CountInv, LoadedInv, SetsApart, NEW b \in Bridges, Own(b), NEW s \in PluginSets
  PROVE  Loaded(s)' \/ \E c \in Bridges : SetOf[c] = s /\ (pending'[c] \/ Behind(c)')
<1> USE DEF IInv
<1>1. CASE Reload(b)
  BY <1>1 DEF Reload, Loaded
<1>2. CASE ~Reload(b)
  <2>1. hub' = hub
    BY <1>2
    DEF Own, BridgeStep, InstallStep, Poll, ReloadRefused, Crash, Restart, TakeLock, Recover,
        Relock, Scan, MoveAside, Place, DropBackup, Unlink, Clean, Done, IOError
  <2>2. ASSUME pending[b] \/ Behind(b) PROVE pending'[b] \/ Behind(b)'
    <3>1. CASE Done(b)
      BY <2>2, <3>1 DEF Done, Behind, Touched, Types, LocalsType, MemoryType, history
    <3>2. CASE Crash(b)
      BY <3>2 DEF Crash, Types, MemoryType
    <3>3. QED
      BY <1>2, <2>2, <3>1, <3>2, BehindStays
  <2>3. ASSUME disk' # disk PROVE Behind(b)'
    BY <2>3, BehindStays DEF Done, Crash
  <2>4. CASE \E c \in Bridges : SetOf[c] = s /\ (pending[c] \/ Behind(c))
    <3>1. PICK c \in Bridges : SetOf[c] = s /\ (pending[c] \/ Behind(c))
      BY <2>4
    <3>2. c # b => pending'[c] \/ Behind(c)'
      BY <3>1, OthersKeep DEF Same, Behind, Touched
    <3>3. QED
      BY <2>2, <3>1, <3>2
  <2>5. CASE Loaded(s)
    <3>1. CASE SetOf[b] = s
      BY <2>1, <2>3, <2>5, <3>1 DEF Loaded
    <3>2. CASE SetOf[b] # s
      <4>1. \A p \in Plugins : disk[p].by = s \/ disk'[p].by = s => disk'[p] = disk[p]
        BY <3>2, ForeignKept
      <4>2. QED
        BY <2>1, <2>5, <4>1 DEF Loaded
    <3>3. QED
      BY <3>1, <3>2
  <2>6. QED
    BY <2>4, <2>5 DEF LoadedInv
<1>3. QED
  BY <1>1, <1>2

LEMMA OwnCount ==
  ASSUME IInv, CountInv, NEW b \in Bridges, Own(b), NEW c \in Bridges, changed'[c]
  PROVE  pc'[c] \in Working
<1> USE DEF IInv
<1>1. CASE c # b
  BY <1>1, OthersKeep DEF Same, CountInv
<1>2. CASE c = b
  <2>1. CASE Ends(b)
    BY <1>2, <2>1, EndsOnly
  <2>2. CASE ~Ends(b)
    <3>1. CASE \E p \in Plugins : DropBackup(b, p) \/ Unlink(b, p) \/ Clean(b, p)
      BY <1>2, <3>1, GoesTo DEF DropBackup, Unlink, Clean, Working
    <3>2. CASE \E p \in Plugins : MoveAside(b, p) \/ Place(b, p)
      BY <1>2, <2>2, <3>2, GoesTo DEF MoveAside, Place, Fail, Working
    <3>3. CASE Scan(b)
      BY <1>2, <2>2, <3>3, GoesTo DEF Scan, Fail, Working
    <3>4. CASE /\ pc[b] \notin Working /\ changed' = changed
      BY <1>2, <3>4 DEF CountInv
    <3>5. QED
      BY <2>2, <3>1, <3>2, <3>3, <3>4
      DEF Own, BridgeStep, InstallStep, Poll, Reload, ReloadRefused, Crash, Restart, TakeLock,
          Recover, Relock, Done, IOError, Fail, Working, runVars
  <2>3. QED
    BY <2>1, <2>2
<1>3. QED
  BY <1>1, <1>2

\* The plan of another bridge.
LEMMA OthersPlan ==
  ASSUME IInv, SetsApart, NEW b \in Bridges, Own(b),
         NEW c \in Bridges \ {b}, Sole(c), InPlan(c)
  PROVE  InPlan(c)'
<1> USE DEF IInv
<1>1. Same(c)
  BY OthersKeep
<1>2. SetOf[c] # SetOf[b] /\ SetOf[c] \in PluginSets
  BY BridgeAssumption DEF Sole
<1>3. \A p \in Plugins : disk[p].by = SetOf[c] \/ disk'[p].by = SetOf[c] => disk'[p] = disk[p]
  BY <1>2, ForeignKept
<1>4. Wanted(c)' = Wanted(c) /\ Wanted(c) \subseteq Plugins
  BY <1>1 DEF Same, Wanted
<1>5. \A p \in Plugins : First(c, p)' <=> First(c, p)
  BY <1>1 DEF Same, First
<1>6. \A p \in Wanted(c) : AsWanted(c, p) => AsWanted(c, p)'
  BY <1>1, <1>3, <1>4 DEF AsWanted, Same
<1>7. QED
  BY <1>1, <1>3, <1>4, <1>5, <1>6 DEF InPlan, Same

LEMMA OwnPlan ==
  ASSUME IInv, PlanInv, SetsApart, NEW b \in Bridges, Own(b), Sole(b),
         pc'[b] \in Working
  PROVE  InPlan(b)'
<1> USE DEF IInv
<1>1. \A point : Goes(b, point) => point \in Working
  BY GoesTo
<1>2. ~Failed(b)
  BY <1>1 DEF Failed, Working
<1>3. owned[b] \subseteq Plugins /\ todo[b] \subseteq Plugins /\ Wanted(b) \subseteq Plugins
  BY DEF Types, LocalsType, Wanted
<1>4. CASE Scan(b)
  <2>1. /\ Goes(b, "write") /\ UNCHANGED <<disk, report>>
        /\ \A p \in Wanted(b) \ Mine(b) : disk[p] = Absent
        /\ owned' = [owned EXCEPT ![b] = Mine(b)]
        /\ todo' = [todo EXCEPT ![b] = {p \in Wanted(b) : disk[p].version # report[b][p]}]
    BY <1>2, <1>4 DEF Scan, Fail, Failed
  <2>2. owned'[b] = Mine(b) /\ todo'[b] = {p \in Wanted(b) : disk[p].version # report[b][p]}
        /\ pc'[b] = "write"
    BY <2>1, GoesTo DEF Types, LocalsType
  <2>3. Wanted(b)' = Wanted(b)
    BY <2>1 DEF Wanted
  <2>4. ASSUME NEW p \in Wanted(b), p \notin todo'[b] PROVE AsWanted(b, p)
    <3>1. disk[p].version = report[b][p] /\ report[b][p] # 0 /\ p \in Plugins
      BY <2>2, <2>4 DEF Wanted
    <3>2. disk[p] # Absent
      BY <3>1 DEF Absent
    <3>3. QED
      BY <2>1, <3>1, <3>2 DEF AsWanted, Mine
  <2>5. \A p : AsWanted(b, p)' <=> AsWanted(b, p)
    BY <2>1 DEF AsWanted
  <2>6. QED
    BY <2>1, <2>2, <2>3, <2>4, <2>5 DEF InPlan, Mine
<1>5. ASSUME NEW p \in Plugins, MoveAside(b, p) PROVE InPlan(b)'
  <2>1. /\ Goes(b, "place") /\ Set(p, Absent) /\ UNCHANGED <<report, owned, todo>>
        /\ pc[b] = "write" /\ First(b, p)
    BY <1>2, <1>5 DEF MoveAside, Fail, Failed
  <2>2. InPlan(b)
    BY <2>1 DEF PlanInv, Working
  <2>3. pc'[b] = "place" /\ p \in todo[b]
    BY <2>1, GoesTo DEF First
  <2>4. \A q \in Plugins : disk'[q] = IF q = p THEN Absent ELSE disk[q]
    BY <2>1 DEF Set, Types, FilesType
  <2>5. Absent.by # SetOf[b]
    BY BridgeAssumption DEF Absent
  <2>6. Wanted(b)' = Wanted(b)
    BY <2>1 DEF Wanted
  <2>7. \A q \in Plugins : q # p => (AsWanted(b, q)' <=> AsWanted(b, q))
    BY <2>1, <2>4 DEF AsWanted
  <2>8. QED
    BY <1>3, <2>1, <2>2, <2>3, <2>4, <2>5, <2>6, <2>7 DEF InPlan
<1>6. ASSUME NEW p \in Plugins, Place(b, p) PROVE InPlan(b)'
  <2>1. /\ Goes(b, "drop") /\ Set(p, Wants(b, p)) /\ UNCHANGED <<report, owned, todo>>
        /\ pc[b] = "place" /\ First(b, p)
    BY <1>2, <1>6 DEF Place, Fail, Failed, runVars
  <2>2. InPlan(b)
    BY <2>1 DEF PlanInv, Working
  <2>3. pc'[b] = "drop" /\ \A q \in Plugins : First(b, q)' <=> q = p
    BY <2>1, GoesTo, FirstUnique DEF First
  <2>4. \A q \in Plugins : disk'[q] = IF q = p THEN Wants(b, p) ELSE disk[q]
    BY <2>1 DEF Set, Types, FilesType
  <2>5. Wanted(b)' = Wanted(b)
    BY <2>1 DEF Wanted
  <2>6. \A q \in Plugins : AsWanted(b, q)' <=> q = p \/ AsWanted(b, q)
    BY <2>1, <2>4 DEF AsWanted, Wants
  <2>7. QED
    BY <1>3, <2>1, <2>2, <2>3, <2>4, <2>5, <2>6 DEF InPlan, Wants
<1>7. ASSUME NEW p \in Plugins, DropBackup(b, p) PROVE InPlan(b)'
  <2>1. /\ Goes(b, "write") /\ todo' = [todo EXCEPT ![b] = @ \ {p}]
        /\ UNCHANGED <<disk, report, owned>> /\ pc[b] = "drop" /\ First(b, p)
    BY <1>7 DEF DropBackup
  <2>2. InPlan(b)
    BY <2>1 DEF PlanInv, Working
  <2>3. pc'[b] = "write" /\ todo'[b] = todo[b] \ {p}
    BY <2>1, GoesTo DEF Types, LocalsType
  <2>4. \A q \in Plugins : First(b, q) => q = p
    BY <2>1, FirstUnique
  <2>5. Wanted(b)' = Wanted(b)
    BY <2>1 DEF Wanted
  <2>6. p \in Wanted(b) /\ AsWanted(b, p)
    BY <2>1, <2>2 DEF InPlan, First
  <2>7. \A q : AsWanted(b, q)' <=> AsWanted(b, q)
    BY <2>1 DEF AsWanted
  <2>8. QED
    BY <1>3, <2>1, <2>2, <2>3, <2>4, <2>5, <2>6, <2>7 DEF InPlan, AsWanted
<1>8. ASSUME NEW p \in Plugins, Removing(b, p)
      PROVE  /\ InPlan(b) /\ p \notin Wanted(b) /\ \A q \in Wanted(b) : AsWanted(b, q)
             /\ disk[p].by = SetOf[b] => p \in owned[b]
  <2>1. InPlan(b)
    BY <1>8 DEF PlanInv, Removing, Working
  <2>2. p \notin Wanted(b)
    BY <1>8, <2>1 DEF Removing, InPlan, First
  <2>3. \A q \in Wanted(b) : q \notin todo[b]
    BY <1>8, <2>1 DEF Removing, InPlan
  <2>4. disk[p].by = SetOf[b] => p \in owned[b]
    BY <1>8, <2>1, <2>2 DEF Removing, InPlan
  <2>5. QED
    BY <2>1, <2>2, <2>3, <2>4 DEF InPlan
<1>9. ASSUME NEW p \in Plugins, Unlink(b, p) PROVE InPlan(b)'
  <2>1. /\ Removing(b, p) /\ Goes(b, "clean") /\ UNCHANGED <<owned, report>>
        /\ todo' = [todo EXCEPT ![b] = {p}]
    BY <1>9 DEF Unlink
  <2>2. pc'[b] = "clean" /\ todo'[b] = {p}
    BY <2>1, GoesTo DEF Types, LocalsType
  <2>3. /\ disk'[p] = Remains \/ disk'[p].by = disk[p].by
        /\ \A q \in Plugins : q # p => disk'[q] = disk[q]
    BY <1>9, UnlinkLeaves
  <2>4. Remains.by # SetOf[b]
    BY BridgeAssumption DEF Remains
  <2>5. Wanted(b)' = Wanted(b)
    BY <2>1 DEF Wanted
  <2>6. \A q \in Plugins : q # p => (AsWanted(b, q)' <=> AsWanted(b, q))
    BY <2>1, <2>3 DEF AsWanted
  <2>7. pc[b] # "drop"
    BY <2>1 DEF Removing
  <2>8. QED
    BY <1>3, <1>8, <2>1, <2>2, <2>3, <2>4, <2>5, <2>6, <2>7 DEF InPlan
<1>10. ASSUME NEW p \in Plugins, Clean(b, p) PROVE InPlan(b)'
  <2>1. /\ Removing(b, p) /\ Goes(b, "write") /\ report' = report /\ Set(p, Absent)
        /\ owned' = [owned EXCEPT ![b] = @ \ {p}] /\ todo' = [todo EXCEPT ![b] = {}]
    BY <1>10 DEF Clean
  <2>2. pc'[b] = "write" /\ owned'[b] = owned[b] \ {p} /\ todo'[b] = {}
    BY <2>1, GoesTo DEF Types, LocalsType
  <2>3. \A q \in Plugins : disk'[q] = IF q = p THEN Absent ELSE disk[q]
    BY <2>1 DEF Set, Types, FilesType
  <2>4. Absent.by # SetOf[b]
    BY BridgeAssumption DEF Absent
  <2>5. Wanted(b)' = Wanted(b)
    BY <2>1 DEF Wanted
  <2>6. \A q \in Plugins : q # p => (AsWanted(b, q)' <=> AsWanted(b, q))
    BY <2>1, <2>3 DEF AsWanted
  <2>7. pc[b] # "drop"
    BY <2>1 DEF Removing
  <2>8. QED
    BY <1>3, <1>8, <2>1, <2>2, <2>3, <2>4, <2>5, <2>6, <2>7 DEF InPlan
<1>11. ASSUME NEW p \in Plugins, IOError(b, p) PROVE InPlan(b)'
  BY <1>2, <1>11, IOErrorFails
<1>12. QED
  <2>1. CASE Poll(b) \/ Reload(b) \/ ReloadRefused(b) \/ Restart(b) \/ Crash(b)
    BY <1>1, <2>1 DEF Poll, Reload, ReloadRefused, Restart, Crash, Working
  <2>2. CASE TakeLock(b) \/ Recover(b) \/ Relock(b) \/ Done(b)
    BY <1>1, <2>2 DEF TakeLock, Recover, Relock, Done, Working
  <2>3. QED
    BY <1>4, <1>5, <1>6, <1>7, <1>9, <1>10, <1>11, <2>1, <2>2
    DEF Own, BridgeStep, InstallStep

\* A directory is moved aside by one step only.
LEMMA StartsPlacing ==
  ASSUME Types, NEW b \in Bridges, Own(b), pc'[b] = "place"
  PROVE  \E q \in Plugins :
           /\ pc[b] = "write" /\ First(b, q) /\ todo' = todo /\ backup'[b] = disk[q]
           /\ disk[q] # Absent => q \in owned[b]
<1>1. \A point : Goes(b, point) => point = "place"
  BY GoesTo
<1>2. ~Failed(b)
  BY <1>1 DEF Failed
<1>3. ~(Poll(b) \/ Reload(b) \/ ReloadRefused(b) \/ Restart(b) \/ Crash(b))
  BY <1>1 DEF Poll, Reload, ReloadRefused, Restart, Crash
<1>4. ~(TakeLock(b) \/ Recover(b) \/ Relock(b) \/ Scan(b) \/ Done(b))
  BY <1>1, <1>2 DEF TakeLock, Recover, Relock, Scan, Fail, Failed, Done
<1>5. ASSUME NEW p \in Plugins, Place(b, p) \/ DropBackup(b, p) \/ Unlink(b, p) \/ Clean(b, p)
      PROVE  FALSE
  BY <1>1, <1>5 DEF Place, Fail, DropBackup, Unlink, Clean
<1>6. ASSUME NEW p \in Plugins, IOError(b, p) PROVE FALSE
  BY <1>2, <1>6, IOErrorFails
<1>7. PICK q \in Plugins : MoveAside(b, q)
  BY <1>3, <1>4, <1>5, <1>6 DEF Own, BridgeStep, InstallStep
<1>8. /\ pc[b] = "write" /\ First(b, q) /\ todo' = todo
      /\ (q \in owned[b]) = (disk[q] # Absent) /\ backup' = [backup EXCEPT ![b] = disk[q]]
  BY <1>2, <1>7 DEF MoveAside, Fail, Failed
<1>9. backup'[b] = disk[q]
  BY <1>8 DEF Types, LocalsType
<1>10. QED
  BY <1>8, <1>9

\* The files of what a sole bridge installed, over its own steps.
LEMMA OwnWhole ==
  ASSUME IInv, WholeInv, SetsApart, NEW b \in Bridges, Own(b), Sole(b), NEW p \in Plugins \ cut'
  PROVE  /\ disk'[p].by = SetOf[b] => disk'[p].whole \/ Unlinking(b, p)'
         /\ pc'[b] = "place" /\ First(b, p)' => backup'[b].whole
<1> USE DEF IInv
<1>0. /\ p \in Plugins \ cut /\ \A dir : Set(p, dir) => disk'[p] = dir
      /\ Absent.whole /\ Absent.by # SetOf[b]
  BY CutGrows, BridgeAssumption DEF BridgeNext, Own, Set, Types, FilesType, Absent
<1>1. /\ disk[p].by = SetOf[b] => disk[p].whole \/ Unlinking(b, p)
      /\ pc[b] = "place" /\ First(b, p) => backup[b].whole
  BY <1>0 DEF WholeInv
<1>2. ASSUME disk'[p].by = SetOf[b], pc'[b] = "clean" PROVE disk'[p].whole \/ Unlinking(b, p)'
  <2>1. PICK q \in Plugins : Unlink(b, q)
    BY <1>2, StartsUnlinking
  <2>2. CASE q = p
    <3>1. todo'[b] = {p}
      BY <2>1, <2>2 DEF Unlink, Types, LocalsType
    <3>2. QED
      BY <1>2, <3>1, BridgeAssumption DEF Unlinking, First
  <2>3. CASE q # p
    <3>1. disk'[p] = disk[p]
      BY <2>1, <2>3, UnlinkLeaves
    <3>2. ~Unlinking(b, p)
      BY <2>1, <2>3, FirstUnique DEF Unlinking, Unlink, Removing
    <3>3. QED
      BY <1>1, <1>2, <3>1, <3>2
  <2>4. QED
    BY <2>2, <2>3
<1>3. ASSUME disk'[p].by = SetOf[b], pc'[b] # "clean", disk'[p] = disk[p] PROVE disk'[p].whole
  <2>1. SUFFICES ASSUME Unlinking(b, p) PROVE FALSE
    BY <1>1, <1>3
  <2>2. pc[b] = "clean" /\ p \in todo[b]
    BY <2>1 DEF Unlinking, First
  <2>3. ~CutShort(b)
    BY <2>2 DEF CutShort
  <2>4. PICK q \in Plugins : Unlink(b, q) \/ Clean(b, q)
    BY <2>2, <2>3
    DEF Own, BridgeStep, InstallStep, Poll, Reload, ReloadRefused, Crash, Restart, TakeLock,
        Recover, Relock, Scan, MoveAside, Place, DropBackup, Done, IOError
  <2>5. CASE Unlink(b, q)
    BY <1>3, <2>5, GoesTo DEF Unlink
  <2>6. CASE Clean(b, q)
    <3>1. q = p
      BY <2>1, <2>2, <2>6, FirstUnique DEF Unlinking, Clean, Removing
    <3>2. QED
      BY <1>0, <1>3, <2>6, <3>1 DEF Clean
  <2>7. QED
    BY <2>4, <2>5, <2>6
<1>4. ASSUME disk'[p].by = SetOf[b], pc'[b] # "clean", disk'[p] # disk[p] PROVE disk'[p].whole
  <2>1. ~Unlink(b, p)
    BY <1>4, GoesTo DEF Unlink
  <2>2. CASE Set(p, Absent)
    BY <1>0, <1>4, <2>2
  <2>3. CASE Set(p, Wants(b, p))
    BY <1>0, <2>3 DEF Wants
  <2>4. CASE IOError(b, p) /\ Set(p, backup[b])
    <3>1. pc[b] = "place" /\ First(b, p)
      BY <1>4, <2>4 DEF IOError
    <3>2. QED
      BY <1>0, <1>1, <2>4, <3>1
  <2>5. QED
    BY <1>4, <2>1, <2>2, <2>3, <2>4, Changes
<1>5. ASSUME pc'[b] = "place", First(b, p)' PROVE backup'[b].whole
  <2>1. PICK q \in Plugins :
          /\ pc[b] = "write" /\ First(b, q) /\ todo' = todo /\ backup'[b] = disk[q]
          /\ disk[q] # Absent => q \in owned[b]
    BY <1>5, StartsPlacing
  <2>2. q = p
    BY <1>5, <2>1, FirstUnique DEF First
  <2>3. disk[p] = Absent \/ disk[p].by = SetOf[b]
    BY <2>1, <2>2 DEF OwnedInv, Holds, Settled
  <2>4. QED
    BY <1>0, <1>1, <2>1, <2>2, <2>3 DEF Unlinking
<1>6. QED
  BY <1>2, <1>3, <1>4, <1>5

\* Every step keeps the course of the installs.
LEMMA NextCourse == ASSUME IInv, Course, [BridgeNext]_bridgeVars PROVE Course'
<1> USE DEF Course
<1>1. (SetsApart' => SetsApart) /\ cut \subseteq cut'
  BY ApartBefore, CutGrows DEF IInv
<1>2. ASSUME NEW b \in Bridges, Own(b) PROVE Course'
  <2>1. CountInv'
    BY <1>2, OwnCount DEF CountInv
  <2>2. PlanInv'
    <3>1. SUFFICES ASSUME SetsApart', NEW c \in Bridges, Sole(c),
                          pc'[c] \in Working
                   PROVE  InPlan(c)'
      BY DEF PlanInv, Sole
    <3>2. CASE c = b
      BY <1>1, <1>2, <3>1, <3>2, OwnPlan
    <3>3. CASE c # b
      <4>1. pc[c] \in Working
        BY <1>2, <3>1, <3>3, OthersKeep DEF Same, IInv
      <4>2. InPlan(c)
        BY <1>1, <3>1, <4>1 DEF PlanInv
      <4>3. QED
        BY <1>1, <1>2, <3>1, <3>3, <4>2, OthersPlan
    <3>4. QED
      BY <3>2, <3>3
  <2>3. EtagInv'
    BY <1>1, <1>2, OwnEtag DEF EtagInv, Sole
  <2>4. LoadedInv'
    BY <1>1, <1>2, OwnLoaded DEF LoadedInv
  <2>5. WholeInv'
    <3>1. SUFFICES ASSUME SetsApart', NEW c \in Bridges, Sole(c), NEW p \in Plugins \ cut'
                   PROVE  /\ disk'[p].by = SetOf[c] => disk'[p].whole \/ Unlinking(c, p)'
                          /\ pc'[c] = "place" /\ First(c, p)' => backup'[c].whole
      BY DEF WholeInv, Sole
    <3>2. CASE c = b
      BY <1>1, <1>2, <3>1, <3>2, OwnWhole
    <3>3. CASE c # b
      <4>1. Same(c)
        BY <1>2, <3>3, OthersKeep DEF IInv
      <4>2. SetOf[c] # SetOf[b] /\ SetOf[c] \in PluginSets
        BY <3>1, <3>3, BridgeAssumption DEF Sole
      <4>3. disk'[p].by = SetOf[c] => disk'[p] = disk[p]
        BY <1>1, <1>2, <3>1, <4>2, ForeignKept
      <4>4. QED
        BY <1>1, <3>1, <4>1, <4>3 DEF WholeInv, Same, Unlinking, First
    <3>4. QED
      BY <3>2, <3>3
  <2>6. QED
    BY <2>1, <2>2, <2>3, <2>4, <2>5
<1>3. CASE (\E s \in PluginSets : PublishManifest(s)) \/ LockAges
           \/ (\E p \in Plugins : MakeByHand(p)) \/ UNCHANGED bridgeVars
  <2>1. UNCHANGED <<pc, report, owned, todo, changed, backup, etag, pending, dropped, hub>>
    BY <1>3, AroundKeeps DEF IInv, runVars, memory, history
  <2>2. \A s \in PluginSets, p \in Plugins : disk[p].by = s \/ disk'[p].by = s => disk'[p] = disk[p]
    BY <1>3, AroundKeepsSets DEF IInv
  <2>3. \A b \in Bridges : SetOf[b] \in PluginSets
    BY BridgeAssumption
  <2>4. CountInv'
    BY <2>1 DEF CountInv
  <2>5. PlanInv'
    <3>1. ASSUME NEW b \in Bridges, InPlan(b) PROVE InPlan(b)'
      <4>1. /\ Wanted(b)' = Wanted(b) /\ Wanted(b) \subseteq Plugins
            /\ \A p : First(b, p)' <=> First(b, p)
        BY <2>1 DEF Wanted, First
      <4>2. \A p \in Wanted(b) : AsWanted(b, p) => AsWanted(b, p)'
        BY <2>1, <2>2, <2>3, <4>1 DEF AsWanted
      <4>3. QED
        BY <2>1, <2>2, <2>3, <3>1, <4>1, <4>2 DEF InPlan
    <3>2. QED
      BY <1>1, <2>1, <3>1 DEF PlanInv, Sole
  <2>6. EtagInv'
    <3>1. \A b \in Bridges : Behind(b)' <=> Behind(b)
      BY <2>1 DEF Behind, Touched
    <3>2. \A b \in Bridges : \A m : Installed(b, m) => Installed(b, m)'
      BY <1>1, <2>2, <2>3, MineKept DEF IInv
    <3>3. QED
      BY <1>1, <2>1, <3>1, <3>2 DEF EtagInv, Sole
  <2>7. LoadedInv'
    <3>1. \A b \in Bridges : Behind(b)' <=> Behind(b)
      BY <2>1 DEF Behind, Touched
    <3>2. \A s \in PluginSets : Loaded(s) => Loaded(s)'
      BY <2>1, <2>2 DEF Loaded
    <3>3. QED
      BY <1>1, <2>1, <3>1, <3>2 DEF LoadedInv
  <2>8. WholeInv'
    <3>1. SUFFICES ASSUME SetsApart', NEW b \in Bridges, Sole(b), NEW p \in Plugins \ cut'
                   PROVE  /\ disk'[p].by = SetOf[b] => disk'[p].whole \/ Unlinking(b, p)'
                          /\ pc'[b] = "place" /\ First(b, p)' => backup'[b].whole
      BY DEF WholeInv, Sole
    <3>2. disk'[p].by = SetOf[b] => disk'[p] = disk[p]
      BY <2>2, <2>3
    <3>3. QED
      BY <1>1, <2>1, <3>1, <3>2 DEF WholeInv, Unlinking, First
  <2>9. QED
    BY <2>4, <2>5, <2>6, <2>7, <2>8
<1>4. QED
  BY <1>2, <1>3 DEF BridgeNext, Own

LEMMA CourseHolds == BridgeSpec => [](IInv /\ Course)
<1>1. BridgeInit => IInv /\ Course
  BY InitIInv, InitCourse
<1>2. IInv /\ Course /\ [BridgeNext]_bridgeVars => (IInv /\ Course)'
  BY NextIInv, NextCourse
<1>3. QED
  BY <1>1, <1>2, PTL DEF BridgeSpec

-----------------------------------------------------------------------------
(* The theorems. *)

\* Every variable keeps its type, whatever fails.
THEOREM BridgeTypeCorrect == BridgeSpec => []BridgeTypeOK
<1>1. IInv => BridgeTypeOK
  BY TypeParts DEF IInv
<1>2. QED
  BY <1>1, Invariance, PTL

\* Without a recovered lock no two bridges install at a time, however many there
\* are, and whatever fails or stops.
THEOREM InstallsExclude == BridgeSpec => []ExclusiveUntilRecovery
<1>1. IInv => ExclusiveUntilRecovery
  BY DEF IInv, LockInv, ExclusiveUntilRecovery
<1>2. QED
  BY <1>1, Invariance, PTL

\* Foreign and manual directories stay as they are, as long as installs that
\* overlap are of different sets.
THEOREM ForeignStaysPut == BridgeSpec => ForeignUntouched
<1>1. IInv /\ [BridgeNext]_bridgeVars =>
        [SetsApart =>
           \A p \in Plugins :
             disk'[p] # disk[p] /\ disk[p] \notin {Absent, Remains} =>
               \E b \in Bridges : pc[b] \in Locked /\ SetOf[b] = disk[p].by]_bridgeVars
  <2>1. SUFFICES ASSUME IInv, [BridgeNext]_bridgeVars, SetsApart,
                        NEW p \in Plugins, disk'[p] # disk[p], disk[p] \notin {Absent, Remains}
                 PROVE  \E b \in Bridges : pc[b] \in Locked /\ SetOf[b] = disk[p].by
    OBVIOUS
  <2>2. CASE \E b \in Bridges : Own(b)
    BY <2>1, <2>2, ChangesOwn
  <2>3. CASE ~ \E b \in Bridges : Own(b)
    BY <2>1, <2>3, AroundKeeps DEF BridgeNext, Own, IInv
  <2>4. QED
    BY <2>2, <2>3
<1>2. QED
  BY <1>1, Invariance, PTL DEF BridgeSpec, ForeignUntouched

\* The ETag a bridge keeps is of what is installed, for any number of bridges,
\* failures, crashes and takeovers of the lock that the property admits.
THEOREM EtagIsInstalled == BridgeSpec => []EtagMeansInstalled
<1>1. IInv /\ Course => EtagMeansInstalled
  <2>1. SUFFICES ASSUME Course, SetsApart, NEW b \in Bridges, pc[b] \in {"wait", "reload"},
                        b \notin dropped, Sole(b), NEW m \in etag[b]
                 PROVE  Installed(b, m)
    BY DEF EtagMeansInstalled, Sole, Installed
  <2>2. ~Behind(b)
    BY <2>1 DEF Course, CountInv, Working, Behind, Touched
  <2>3. QED
    BY <2>1, <2>2 DEF Course, EtagInv
<1>2. QED
  BY <1>1, CourseHolds, PTL

\* What the Hub has not loaded, some bridge of the set still has to.
THEOREM UnloadedIsKnown == BridgeSpec => []UnloadedIsPending
<1>1. IInv /\ Course => UnloadedIsPending
  <2>1. SUFFICES ASSUME Course, SetsApart, NEW s \in PluginSets,
                        \A b \in Bridges : SetOf[b] = s =>
                          pc[b] = "wait" /\ ~pending[b] /\ b \notin dropped
                 PROVE  Loaded(s)
    BY DEF UnloadedIsPending, Loaded
  <2>2. \A b \in Bridges : SetOf[b] = s => ~pending[b] /\ ~Behind(b)
    BY <2>1 DEF Course, CountInv, Working, Behind, Touched
  <2>3. QED
    BY <2>1, <2>2 DEF Course, LoadedInv
<1>2. QED
  BY <1>1, CourseHolds, PTL

\* An install that ends well leaves exactly what its manifest asks for, and keeps the
\* ETag of that manifest, whatever failed, crashed or overlapped with it before.
THEOREM InstallCompletes ==
  BridgeSpec =>
    [][\A b \in Bridges :
         SetsApart /\ Sole(b) /\ Done(b) =>
           /\ etag'[b] = {report[b]} /\ disk' = disk
           /\ Installed(b, report[b])]_bridgeVars
<1>1. IInv /\ Course =>
        [\A b \in Bridges :
           SetsApart /\ Sole(b) /\ Done(b) =>
             /\ etag'[b] = {report[b]} /\ disk' = disk
             /\ Installed(b, report[b])]_bridgeVars
  BY DoneInstalls DEF Course
<1>2. QED
  BY <1>1, CourseHolds, PTL DEF BridgeSpec
=============================================================================
