------------------------------ MODULE BridgeSync ------------------------------
(***************************************************************************)
(* Bridges (cmd/relay-bridge/main.go) that poll the published plugin       *)
(* manifest of a source set, install it beside a Hub                       *)
(* (internal/bookplugin/sync.go) and have the Hub reload.  Several bridges *)
(* may share one plugin root, each for its own set.  An install is a       *)
(* sequence of file operations under a lock directory; any of them may     *)
(* fail, and a bridge may stop between any two.                            *)
(*                                                                         *)
(* A plugin directory is told apart by the set in its ownership receipt,   *)
(* the version of the files that the receipt keeps a hash of, and whether  *)
(* all of those files are there: a removal takes them one by one, and the  *)
(* receipt is one of them.                                                 *)
(***************************************************************************)
EXTENDS Integers, FiniteSets

CONSTANTS
  Plugins,        \* plugin ids, numbers: Install goes through them in order
  Bridges,
  PluginSets,     \* source sets that publish plugins
  SetOf,          \* the set whose manifest a bridge polls
  Manifests,      \* the manifests each set may publish, as [Plugins -> Nat]; 0: not in it
  HandMade,       \* bound: the plugin ids an operator may put a directory at
  MaxFaults       \* bound: failing file operations and crashes

Absent == [by |-> "nobody", version |-> 0, whole |-> TRUE]
ByHand == [by |-> "hand", version |-> 0, whole |-> TRUE]

\* What is left of a directory whose receipt a removal took first.
Remains == [by |-> "remains", version |-> 0, whole |-> FALSE]

ASSUME BridgeAssumption ==
  /\ Plugins \subseteq Nat
  /\ SetOf \in [Bridges -> PluginSets]
  /\ PluginSets \cap {"nobody", "hand", "remains"} = {}
  /\ Manifests \in [PluginSets -> SUBSET [Plugins -> Nat]]
  /\ MaxFaults \in Nat

NoManifest == [p \in Plugins |-> 0]

VARIABLES
  published,  \* the manifest a set publishes now
  disk,       \* the plugin root
  lock,       \* .relay-sync-lock: "none", "fresh", or "stale" after 15 minutes
  hub,        \* the directories the Hub has loaded
  pc,         \* where a bridge stands
  report,     \* the manifest a bridge installs
  owned,      \* plugins with a receipt of its set, as scanned
  todo,       \* plugins still to be written, or the one that is being removed
  changed,    \* Installed > 0 or Removed > 0
  backup,     \* the directory moved aside
  etag,       \* the manifest of the last complete install, {} for none
  pending,    \* reloadPending
  faults,
  recovered,  \* history: a stale lock has been removed
  dropped,    \* history: bridges whose install failed after it changed a file
  cut         \* history: plugins of which a removal ended halfway

runVars == <<report, owned, todo, changed, backup>>
memory == <<etag, pending>>
history == <<recovered, dropped, cut>>
bridgeVars == <<published, disk, lock, hub, pc, runVars, memory, faults, history>>

Dirs == [by : PluginSets \cup {"nobody", "hand", "remains"}, version : Nat, whole : BOOLEAN]
Locked == {"scan", "write", "place", "drop", "clean"}
Points == Locked \cup {"wait", "lock", "recover", "relock", "reload", "down"}

BridgeTypeOK ==
  /\ published \in [PluginSets -> [Plugins -> Nat]]
  /\ disk \in [Plugins -> Dirs] /\ hub \in [Plugins -> Dirs]
  /\ lock \in {"none", "fresh", "stale"}
  /\ pc \in [Bridges -> Points]
  /\ report \in [Bridges -> [Plugins -> Nat]]
  /\ owned \in [Bridges -> SUBSET Plugins] /\ todo \in [Bridges -> SUBSET Plugins]
  /\ changed \in [Bridges -> BOOLEAN] /\ pending \in [Bridges -> BOOLEAN]
  /\ backup \in [Bridges -> Dirs]
  /\ etag \in [Bridges -> SUBSET [Plugins -> Nat]]
  /\ faults \in 0..MaxFaults
  /\ recovered \in BOOLEAN /\ dropped \subseteq Bridges /\ cut \subseteq Plugins

\* A bridge starts without an ETag and with a reload due, for the files a
\* previous process may have left.
BridgeInit ==
  /\ published = [s \in PluginSets |-> NoManifest]
  /\ disk = [p \in Plugins |-> Absent] /\ hub = disk
  /\ lock = "none"
  /\ pc = [b \in Bridges |-> "wait"]
  /\ report = [b \in Bridges |-> NoManifest]
  /\ owned = [b \in Bridges |-> {}] /\ todo = [b \in Bridges |-> {}]
  /\ changed = [b \in Bridges |-> FALSE]
  /\ backup = [b \in Bridges |-> Absent]
  /\ etag = [b \in Bridges |-> {}]
  /\ pending = [b \in Bridges |-> TRUE]
  /\ faults = 0 /\ recovered = FALSE /\ dropped = {} /\ cut = {}

Goes(b, point) == pc' = [pc EXCEPT ![b] = point]
Set(p, dir) == disk' = [disk EXCEPT ![p] = dir]

-----------------------------------------------------------------------------
(* The polling loop. *)

\* A bridge that keeps the ETag of the last answer before it has installed it.
PollKeepsTag(b) ==
  /\ pc[b] = "wait"
  /\ LET m == published[SetOf[b]] IN
       \/ /\ etag[b] = {m} /\ pending[b]
          /\ Goes(b, "reload") /\ UNCHANGED <<report, etag>>
       \/ /\ etag[b] # {m}
          /\ report' = [report EXCEPT ![b] = m]
          /\ etag' = [etag EXCEPT ![b] = {m}]
          /\ Goes(b, "lock")
  /\ UNCHANGED <<published, disk, lock, hub, owned, todo, changed, backup, pending, faults, history>>

\* The subscription answers 304 for the manifest of the ETag, and a due reload
\* is made; otherwise its manifest is installed.  A failed request changes nothing.
Poll(b) ==
  /\ pc[b] = "wait"
  /\ LET m == published[SetOf[b]] IN
       \/ /\ etag[b] = {m} /\ pending[b]
          /\ Goes(b, "reload") /\ UNCHANGED report
       \/ /\ etag[b] # {m}
          /\ report' = [report EXCEPT ![b] = m]
          /\ Goes(b, "lock")
  /\ UNCHANGED <<published, disk, lock, hub, owned, todo, changed, backup, memory, faults, history>>

\* The Hub loads the directories as they are.  Its answer may be lost.
Reload(b) ==
  /\ pc[b] = "reload"
  /\ hub' = disk
  /\ pending' \in {pending, [pending EXCEPT ![b] = FALSE]}
  /\ Goes(b, "wait")
  /\ UNCHANGED <<published, disk, lock, runVars, etag, faults, history>>

ReloadRefused(b) ==
  /\ pc[b] = "reload"
  /\ Goes(b, "wait")
  /\ UNCHANGED <<published, disk, lock, hub, runVars, memory, faults, history>>

\* The locals of a round and of its install end with it.
Ends(b) ==
  /\ report' = [report EXCEPT ![b] = NoManifest]
  /\ owned' = [owned EXCEPT ![b] = {}]
  /\ todo' = [todo EXCEPT ![b] = {}]
  /\ changed' = [changed EXCEPT ![b] = FALSE]
  /\ backup' = [backup EXCEPT ![b] = Absent]

\* A removal that is under way ends here.
CutShort(b) == cut' = IF pc[b] = "clean" THEN cut \cup todo[b] ELSE cut

\* The process is killed, or ends after its only round (--interval 0).  A lock
\* and a directory moved aside are left behind.
Crash(b) ==
  /\ pc[b] # "down"
  /\ faults < MaxFaults
  /\ faults' = faults + 1
  /\ Goes(b, "down") /\ Ends(b)
  /\ etag' = [etag EXCEPT ![b] = {}]
  /\ pending' = [pending EXCEPT ![b] = TRUE]
  /\ dropped' = dropped \ {b}
  /\ CutShort(b)
  /\ UNCHANGED <<published, disk, lock, hub, recovered>>

Restart(b) ==
  /\ pc[b] = "down"
  /\ Goes(b, "wait")
  /\ UNCHANGED <<published, disk, lock, hub, runVars, memory, faults, history>>

-----------------------------------------------------------------------------
(* Install: the lock directory. *)

\* A lock that an existing directory does not refuse (MkdirAll for Mkdir).
TakeLockAnyway(b) ==
  /\ pc[b] = "lock"
  /\ lock' = "fresh" /\ Goes(b, "scan")
  /\ UNCHANGED <<published, disk, hub, runVars, memory, faults, history>>

\* Mkdir of the lock, which Stat may find stale.
TakeLock(b) ==
  /\ pc[b] = "lock"
  /\ \/ lock = "none" /\ lock' = "fresh" /\ Goes(b, "scan") /\ UNCHANGED runVars
     \/ lock = "fresh" /\ Goes(b, "wait") /\ Ends(b) /\ UNCHANGED lock
     \/ lock = "stale" /\ Goes(b, "recover") /\ UNCHANGED <<lock, runVars>>
  /\ UNCHANGED <<published, disk, hub, memory, faults, history>>

\* RemoveAll of the lock found stale, whosoever it is by now.
Recover(b) ==
  /\ pc[b] = "recover"
  /\ lock' = "none"
  /\ recovered' = TRUE
  /\ Goes(b, "relock")
  /\ UNCHANGED <<published, disk, hub, runVars, memory, faults, dropped, cut>>

Relock(b) ==
  /\ pc[b] = "relock"
  /\ IF lock = "none" THEN lock' = "fresh" /\ Goes(b, "scan") /\ UNCHANGED runVars
     ELSE Goes(b, "wait") /\ Ends(b) /\ UNCHANGED lock
  /\ UNCHANGED <<published, disk, hub, memory, faults, history>>

\* Install returns an error: the lock directory is removed, whosoever it is, and
\* the counts are lost with the result.
Fail(b, touched) ==
  /\ lock' = "none"
  /\ Goes(b, "wait") /\ Ends(b)
  /\ dropped' = IF changed[b] \/ touched THEN dropped \cup {b} ELSE dropped

-----------------------------------------------------------------------------
(* Install: the plugin directories. *)

Wanted(b) == {p \in Plugins : report[b][p] # 0}
Wants(b, p) == [by |-> SetOf[b], version |-> report[b][p], whole |-> TRUE]

\* Receipts that are not looked at: every directory at a wanted id is its own.
MineUnchecked(b) ==
  {p \in Plugins : disk[p].by = SetOf[b] \/ (disk[p] # Absent /\ report[b][p] # 0)}

Mine(b) == {p \in Plugins : disk[p].by = SetOf[b]}

\* A wanted directory without a receipt of this set fails the install; one with
\* the wanted hash in its receipt is left alone, whatever files it has.
Scan(b) ==
  /\ pc[b] = "scan"
  /\ IF \E p \in Wanted(b) \ Mine(b) : disk[p] # Absent
     THEN Fail(b, FALSE)
     ELSE /\ owned' = [owned EXCEPT ![b] = Mine(b)]
          /\ todo' = [todo EXCEPT ![b] = {p \in Wanted(b) : disk[p].version # report[b][p]}]
          /\ Goes(b, "write")
          /\ UNCHANGED <<lock, report, changed, backup, dropped>>
  /\ UNCHANGED <<published, disk, hub, memory, faults, recovered, cut>>

\* The plugin at hand: Install sorts the ids.
First(b, p) == p \in todo[b] /\ \A q \in todo[b] : p <= q

\* The new files are staged outside the root; an owned directory is then moved
\* aside, and a path that has appeared since the scan is refused.
MoveAside(b, p) ==
  /\ pc[b] = "write" /\ First(b, p)
  /\ IF (p \in owned[b]) = (disk[p] # Absent)
     THEN /\ backup' = [backup EXCEPT ![b] = disk[p]]
          /\ Set(p, Absent) /\ Goes(b, "place")
          /\ UNCHANGED <<lock, report, owned, todo, changed, dropped>>
     ELSE Fail(b, FALSE) /\ UNCHANGED disk
  /\ UNCHANGED <<published, hub, memory, faults, recovered, cut>>

\* The stage becomes the plugin directory.  The rename fails on a directory
\* that is there by now.
Place(b, p) ==
  /\ pc[b] = "place" /\ First(b, p)
  /\ IF disk[p] = Absent
     THEN Set(p, Wants(b, p)) /\ Goes(b, "drop") /\ UNCHANGED <<lock, runVars, dropped>>
     ELSE Fail(b, backup[b] # Absent) /\ UNCHANGED disk
  /\ UNCHANGED <<published, hub, memory, faults, recovered, cut>>

\* The directory moved aside is deleted, and the plugin counts as installed.
DropBackup(b, p) ==
  /\ pc[b] = "drop" /\ First(b, p)
  /\ backup' = [backup EXCEPT ![b] = Absent]
  /\ todo' = [todo EXCEPT ![b] = @ \ {p}]
  /\ changed' = [changed EXCEPT ![b] = TRUE]
  /\ Goes(b, "write")
  /\ UNCHANGED <<published, disk, lock, hub, report, owned, memory, faults, history>>

\* An owned plugin that is not wanted any more, in any order, and one at a time.
Removing(b, p) ==
  \/ pc[b] = "write" /\ todo[b] = {} /\ p \in owned[b] \ Wanted(b)
  \/ pc[b] = "clean" /\ First(b, p)

\* RemoveAll has taken some of its files, the receipt among them or not.
Unlink(b, p) ==
  /\ Removing(b, p)
  /\ disk[p] # Absent
  /\ \E left \in {[disk[p] EXCEPT !.whole = FALSE], Remains} : Set(p, left)
  /\ todo' = [todo EXCEPT ![b] = {p}]
  /\ Goes(b, "clean")
  /\ UNCHANGED <<published, lock, hub, report, owned, changed, backup, memory, faults, history>>

\* RemoveAll returns, and the plugin counts as removed.
Clean(b, p) ==
  /\ Removing(b, p)
  /\ Set(p, Absent)
  /\ owned' = [owned EXCEPT ![b] = @ \ {p}]
  /\ todo' = [todo EXCEPT ![b] = {}]
  /\ changed' = [changed EXCEPT ![b] = TRUE]
  /\ Goes(b, "write")
  /\ UNCHANGED <<published, lock, hub, report, backup, memory, faults, history>>

\* A file operation fails: staging, moving aside, placing (the old directory is
\* put back unless that fails too), deleting the old one, or removing a plugin,
\* of which some files may be gone by then.
IOError(b, p) ==
  /\ faults < MaxFaults
  /\ faults' = faults + 1
  /\ \/ /\ pc[b] = "write" /\ First(b, p)
        /\ Fail(b, FALSE) /\ UNCHANGED disk
     \/ /\ pc[b] = "place" /\ First(b, p)
        /\ Fail(b, backup[b] # Absent)
        /\ \/ disk[p] = Absent /\ Set(p, backup[b])
           \/ UNCHANGED disk
     \/ /\ pc[b] = "drop" /\ First(b, p) /\ backup[b] # Absent
        /\ Fail(b, TRUE) /\ UNCHANGED disk
     \/ /\ Removing(b, p) /\ disk[p] # Absent
        /\ Fail(b, pc[b] = "clean") /\ UNCHANGED disk
  /\ CutShort(b)
  /\ UNCHANGED <<published, hub, memory, recovered>>

\* A bridge that reloads only for what this install changed.
DoneForgettingPending(b) ==
  /\ pc[b] = "write" /\ todo[b] = {} /\ owned[b] \subseteq Wanted(b)
  /\ lock' = "none"
  /\ etag' = [etag EXCEPT ![b] = {report[b]}]
  /\ pending' = [pending EXCEPT ![b] = changed[b]]
  /\ Goes(b, IF pending'[b] THEN "reload" ELSE "wait") /\ Ends(b)
  /\ UNCHANGED <<published, disk, hub, faults, history>>

\* Install returns; the bridge keeps the ETag and reloads if anything changed.
Done(b) ==
  /\ pc[b] = "write" /\ todo[b] = {} /\ owned[b] \subseteq Wanted(b)
  /\ lock' = "none"
  /\ etag' = [etag EXCEPT ![b] = {report[b]}]
  /\ pending' = [pending EXCEPT ![b] = @ \/ changed[b]]
  /\ Goes(b, IF pending'[b] THEN "reload" ELSE "wait") /\ Ends(b)
  /\ UNCHANGED <<published, disk, hub, faults, history>>

-----------------------------------------------------------------------------
(* Around the bridges. *)

\* A publication, or a rollback to an earlier one, whose ETag is then the same.
PublishManifest(s) ==
  /\ published' \in {[published EXCEPT ![s] = m] : m \in Manifests[s]}
  /\ UNCHANGED <<disk, lock, hub, pc, runVars, memory, faults, history>>

\* Fifteen minutes pass: the lock was left behind, or its holder is suspended.
LockAges ==
  /\ lock = "fresh" /\ lock' = "stale"
  /\ UNCHANGED <<published, disk, hub, pc, runVars, memory, faults, history>>

\* An operator makes a plugin directory by hand.
MakeByHand(p) ==
  /\ p \in HandMade /\ disk[p] = Absent
  /\ Set(p, ByHand)
  /\ UNCHANGED <<published, lock, hub, pc, runVars, memory, faults, history>>

InstallStep(b) ==
  \/ TakeLock(b) \/ Recover(b) \/ Relock(b) \/ Scan(b) \/ Done(b)
  \/ \E p \in Plugins : MoveAside(b, p) \/ Place(b, p) \/ DropBackup(b, p) \/ Unlink(b, p) \/ Clean(b, p)

BridgeStep(b) == Poll(b) \/ InstallStep(b) \/ Restart(b)

BridgeNext ==
  \/ \E b \in Bridges :
       \/ BridgeStep(b) \/ Reload(b) \/ ReloadRefused(b) \/ Crash(b)
       \/ \E p \in Plugins : IOError(b, p)
  \/ \E s \in PluginSets : PublishManifest(s)
  \/ LockAges
  \/ \E p \in Plugins : MakeByHand(p)

BridgeSpec == BridgeInit /\ [][BridgeNext]_bridgeVars

\* A bridge that runs goes on and is restarted when it stopped; the Hub answers
\* some of its reloads; time passes for a lock that stays.
BridgeFairness ==
  /\ WF_bridgeVars(LockAges)
  /\ \A b \in Bridges :
       /\ WF_bridgeVars(BridgeStep(b))
       /\ SF_bridgeVars(Reload(b) /\ ~pending'[b])

BridgeFairSpec == BridgeSpec /\ BridgeFairness

-----------------------------------------------------------------------------
(* Properties. *)

\* sync.go: the lock "fails closed on overlapping syncs", as long as no stale
\* lock was recovered.
ExclusiveUntilRecovery ==
  ~recovered => \A a, b \in Bridges : pc[a] \in Locked /\ pc[b] \in Locked => a = b

\* Installs that may overlap are of different sets: no stale lock was recovered, or
\* no two bridges poll the same set.  An install removes what it scanned as its own
\* without looking at the receipt again, which another of its set may have removed
\* and a third bridge have replaced by then.
SetsApart ==
  ~recovered \/ \A b, c \in Bridges : SetOf[b] = SetOf[c] => b = c

\* sync.go: foreign and manual plugin files are untouched, whatever fails or stops
\* and although a recovered lock lets installs of different sets overlap.  What is
\* left of a directory without its receipt is nobody's.
ForeignUntouched ==
  [][SetsApart =>
       \A p \in Plugins :
         disk'[p] # disk[p] /\ disk[p] \notin {Absent, Remains} =>
           \E b \in Bridges : pc[b] \in Locked /\ SetOf[b] = disk[p].by]_bridgeVars

\* A 304 is asked for only what is installed: while a bridge keeps an ETag, the
\* directories of its set are those of that manifest, unless one of its own
\* installs failed halfway since, and even while it is being stopped, restarted
\* or overlapped by installs of other sets; and each has all its files, unless a
\* removal of it was once cut short with the receipt still there, which a later
\* install takes for the plugin.
EtagMeansInstalled ==
  SetsApart =>
    \A b \in Bridges :
      /\ pc[b] \in {"wait", "reload"} /\ b \notin dropped
      /\ \A c \in Bridges : SetOf[c] = SetOf[b] => c = b
      => \A m \in etag[b] :
           /\ Mine(b) = {p \in Plugins : m[p] # 0}
           /\ \A p \in Mine(b) :
                disk[p].version = m[p] /\ (p \notin cut => disk[p].whole)

\* What is on disk and not loaded will be reloaded: once no bridge of a set has a
\* reload due, is at work or stopped, or failed halfway, the Hub has loaded that
\* set's plugins as they are on disk.
UnloadedIsPending ==
  SetsApart =>
    \A s \in PluginSets :
      (\A b \in Bridges : SetOf[b] = s => pc[b] = "wait" /\ ~pending[b] /\ b \notin dropped) =>
        \A p \in Plugins : disk[p].by = s \/ hub[p].by = s => hub[p] = disk[p]

\* docs/hub-bridge.md: after some directory failed, the next syncs converge: a
\* manifest that stays published is in the end what the Hub has loaded.
NextSyncConverges ==
  \A b \in Bridges, m \in UNION {Manifests[s] : s \in PluginSets} :
    <>[](published[SetOf[b]] = m) =>
      <>[](/\ {p \in Plugins : hub[p].by = SetOf[b]} = {p \in Plugins : m[p] # 0}
           /\ \A p \in Plugins : m[p] # 0 => hub[p].version = m[p] /\ hub[p].whole)
=============================================================================
