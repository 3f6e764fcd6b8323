---------------------------- MODULE SourceLifecycle ----------------------------
(***************************************************************************)
(* The life of one media source (internal/service/service.go, content.go,  *)
(* steward.go): its revisions and the review that makes one of them        *)
(* active, its health, and the background runs and operators that change   *)
(* both at the same time.                                                  *)
(*                                                                         *)
(* An operator's call is one transaction under the store's write lock.  A  *)
(* background run (SyncSource, Probe, StageContent) reads the source,      *)
(* works outside any transaction - fetching, parsing, sampling - and       *)
(* commits only if the source's updatedAt is still the one it read.        *)
(* updatedAt values never repeat (nanosecond clock), so the model keeps,   *)
(* for each run, whether a write has bumped it since the run's read.       *)
(***************************************************************************)
EXTENDS Integers, FiniteSets

CONSTANTS
  Revs,        \* revision ids that may be inserted
  Runs,        \* background runs that may be in flight together
  NoRev,       \* ActiveRevision or StagedRevision is ""
  MaxContent,  \* bound: contents are 1..MaxContent, newest last
  Malformed,   \* contents that adapter.Parse refuses
  MaxFailures, \* bound on consecutive failed checks
  Kinds        \* bound: the kinds of background run that are started

ASSUME SourceAssumption ==
  /\ NoRev \notin Revs
  /\ Revs # {}
  /\ MaxContent \in Nat \ {0}
  /\ Malformed \subseteq 2..MaxContent
  /\ MaxFailures \in Nat
  /\ Kinds \subseteq {"sync", "probe", "content"}

VARIABLES
  exists,     \* the row is in table sources
  remote,     \* the source has a URL; an inline source has content instead
  enabled,
  policy,     \* UpdatePolicy
  health,
  failures,   \* consecutive failed checks
  active,     \* ActiveRevision
  staged,     \* StagedRevision
  tombstone,  \* the row is in table deleted_sources
  revs,       \* table revisions: status and content hash
  upstream,   \* the content the URL serves at present
  importing,  \* the revision Import staged and is about to approve and enable
  runs        \* background runs in flight

row == <<exists, remote, enabled, policy, health, failures, active, staged, tombstone>>
sourceVars == <<row, revs, upstream, importing, runs>>

\* "review" stands for "manual" too: only the scheduler tells them apart.
Policies == {"auto", "review", "pinned"}
Healths == {"unknown", "healthy", "degraded", "failing", "avoid", "quarantined", "disabled"}
RevStatuses == {"none", "staged", "approved", "rejected", "invalid"}
Contents == 1..MaxContent

\* Outcomes of a check: a successful sample is functional or weaker.
Checks == {"functional", "weak", "failed"}

Run == [kind : {"idle", "sync", "probe", "content"},
        fresh : BOOLEAN,               \* updatedAt is still what the run read
        auto : BOOLEAN,                \* it read policy "auto": a sync will sample
        got : {"nothing", "unchanged", "content", "malformed", "failure"},
        content : 0..MaxContent,
        passed : BOOLEAN]              \* its sample succeeded, functionally

Idle == [kind |-> "idle", fresh |-> FALSE, auto |-> FALSE, got |-> "nothing",
         content |-> 0, passed |-> FALSE]

NoRevision == [status |-> "none", content |-> 0]

SourceTypeOK ==
  /\ exists \in BOOLEAN /\ remote \in BOOLEAN /\ enabled \in BOOLEAN
  /\ tombstone \in BOOLEAN
  /\ policy \in Policies
  /\ health \in Healths
  /\ failures \in 0..MaxFailures
  /\ active \in Revs \cup {NoRev}
  /\ staged \in Revs \cup {NoRev}
  /\ importing \in Revs \cup {NoRev}
  /\ revs \in [Revs -> [status : RevStatuses, content : 0..MaxContent]]
  /\ \A q \in Revs : revs[q].status = "none" <=> revs[q].content = 0
  /\ upstream \in Contents
  /\ runs \in [Runs -> Run]

\* Import's first transaction: a disabled source whose first revision waits for
\* review; autoEnableImport holds unless a catalog proposed it or trust is low.
SourceInit ==
  /\ exists = TRUE /\ enabled = FALSE /\ tombstone = FALSE
  /\ remote \in BOOLEAN
  /\ policy \in Policies
  /\ health = "unknown" /\ failures = 0
  /\ active = NoRev
  /\ \E q \in Revs :
       /\ staged = q
       /\ importing \in {q, NoRev}
       /\ revs = [[r \in Revs |-> NoRevision] EXCEPT
                    ![q] = [status |-> "staged", content |-> 1]]
  /\ upstream = 1
  /\ runs = [r \in Runs |-> Idle]

-----------------------------------------------------------------------------
(* What several handlers share. *)

\* updatedAt := now(): no run in flight has read this version of the row.
Outdated == [r \in Runs |-> [runs[r] EXCEPT !.fresh = FALSE]]
Bump == runs' = Outdated
EndBumping(r) == runs' = [Outdated EXCEPT ![r] = Idle]
End(r) == runs' = [runs EXCEPT ![r] = Idle]

Protected(h) == h \in {"quarantined", "disabled"}

\* Health after a configuration or approval change.
Reset(h, to) == IF Protected(h) THEN h ELSE to

SetStatus(q, s) == revs' = [revs EXCEPT ![q].status = s]

NewRevision(q, s, c) ==
  /\ revs[q].status = "none"
  /\ revs' = [revs EXCEPT ![q] = [status |-> s, content |-> c]]

ContentOf(q) == IF q = NoRev THEN 0 ELSE revs[q].content

\* A step of an operator on the row of an existing source.
Operator == exists /\ UNCHANGED <<exists, remote, upstream>>

-----------------------------------------------------------------------------
(* Operators: SourceAction and its neighbours. *)

\* An approve that writes the row it names without having read it.
ApproveUnread(q) ==
  /\ Operator
  /\ revs[q].status # "invalid"
  /\ SetStatus(q, "approved")
  /\ active' = q
  /\ staged' = IF q = staged THEN NoRev ELSE staged
  /\ health' = Reset(health, "degraded")
  /\ Bump
  /\ UNCHANGED <<enabled, policy, failures, tombstone, importing>>

\* approve: the staged revision, or any revision named that is not invalid.
Approve(q) ==
  /\ Operator
  /\ revs[q].status \notin {"none", "invalid"}
  /\ SetStatus(q, "approved")
  /\ active' = q
  /\ staged' = IF q = staged THEN NoRev ELSE staged
  /\ health' = Reset(health, "degraded")
  /\ Bump
  /\ UNCHANGED <<enabled, policy, failures, tombstone, importing>>

\* An approval that leaves the revision it approved waiting for review.
ApproveStillStaged(q) ==
  /\ q = staged
  /\ revs[q].status = "staged"
  /\ SetStatus(q, "approved")
  /\ active' = q
  /\ enabled' = TRUE
  /\ health' = IF health = "quarantined" THEN health ELSE "degraded"
  /\ Bump
  /\ UNCHANGED <<policy, failures, tombstone, staged>>

\* approve-enable: only the revision that is staged now, which goes live.
ApproveAndEnable(q) ==
  /\ q = staged
  /\ revs[q].status = "staged"
  /\ SetStatus(q, "approved")
  /\ active' = q
  /\ staged' = NoRev
  /\ enabled' = TRUE
  /\ health' = IF health = "quarantined" THEN health ELSE "degraded"
  /\ Bump
  /\ UNCHANGED <<policy, failures, tombstone>>

ApproveEnable(q) ==
  /\ Operator
  /\ ApproveAndEnable(q)
  /\ UNCHANGED importing

\* rollback: back to a revision that was approved before, pinned.
Rollback(q) ==
  /\ Operator
  /\ revs[q].status = "approved"
  /\ active' = q
  /\ staged' = IF q = staged THEN NoRev ELSE staged
  /\ policy' = "pinned"
  /\ health' = Reset(health, "degraded")
  /\ Bump
  /\ UNCHANGED <<enabled, failures, tombstone, revs, importing>>

\* A reject that leaves the pointer to the revision it rejected.
RejectKeepsPointer ==
  /\ Operator
  /\ staged # NoRev
  /\ SetStatus(staged, "rejected")
  /\ Bump
  /\ UNCHANGED <<enabled, policy, health, failures, active, staged, tombstone, importing>>

Reject ==
  /\ Operator
  /\ staged # NoRev
  /\ SetStatus(staged, "rejected")
  /\ staged' = NoRev
  /\ Bump
  /\ UNCHANGED <<enabled, policy, health, failures, active, tombstone, importing>>

\* An enable that does not ask for an approved revision.
EnableUnreviewed ==
  /\ Operator
  /\ enabled' = TRUE
  /\ health' = IF health = "disabled" THEN "unknown" ELSE health
  /\ Bump
  /\ UNCHANGED <<policy, failures, active, staged, tombstone, revs, importing>>

Enable ==
  /\ Operator
  /\ active # NoRev
  /\ enabled' = TRUE
  /\ health' = IF health = "disabled" THEN "unknown" ELSE health
  /\ Bump
  /\ UNCHANGED <<policy, failures, active, staged, tombstone, revs, importing>>

Disable ==
  /\ Operator
  /\ enabled' = FALSE
  /\ health' = "disabled"
  /\ Bump
  /\ UNCHANGED <<policy, failures, active, staged, tombstone, revs, importing>>

Quarantine ==
  /\ Operator
  /\ health' = "quarantined"
  /\ Bump
  /\ UNCHANGED <<enabled, policy, failures, active, staged, tombstone, revs, importing>>

Release ==
  /\ Operator
  /\ health = "quarantined"
  /\ health' = "unknown"
  /\ failures' = 0
  /\ Bump
  /\ UNCHANGED <<enabled, policy, active, staged, tombstone, revs, importing>>

\* EditSource with the given update policy; SetHeaders keeps the policy.  Both
\* make what is known about the source's health obsolete.
Configure(p) ==
  /\ Operator
  /\ policy' = p
  /\ health' = Reset(health, "unknown")
  /\ Bump
  /\ UNCHANGED <<enabled, failures, active, staged, tombstone, revs, importing>>

\* SoftDeleteSource: stop serving, keep the row and a tombstone for undo.
SoftDelete ==
  /\ Operator
  /\ enabled' = FALSE
  /\ health' = "disabled"
  /\ tombstone' = TRUE
  /\ Bump
  /\ UNCHANGED <<policy, failures, active, staged, revs, importing>>

\* UndoDeleteSource drops the tombstone; the source stays disabled.
UndoDelete ==
  /\ Operator
  /\ tombstone
  /\ tombstone' = FALSE
  /\ Bump
  /\ UNCHANGED <<enabled, policy, health, failures, active, staged, revs, importing>>

\* DeleteSource: the row and, by cascade, its revisions; the tombstone of an
\* earlier soft delete stays.
Delete ==
  /\ exists
  /\ exists' = FALSE
  /\ revs' = [r \in Revs |-> NoRevision]
  /\ enabled' = FALSE /\ active' = NoRev /\ staged' = NoRev
  /\ Bump
  /\ UNCHANGED <<remote, policy, health, failures, tombstone, upstream, importing>>

\* The second transaction of Import: approve-enable of the revision it staged,
\* which fails if that revision is no longer the staged one, or is lost when
\* the process stops in between.
FinishImport ==
  /\ importing # NoRev
  /\ importing' = NoRev
  /\ \/ exists /\ ApproveAndEnable(importing) /\ UNCHANGED <<exists, remote, upstream>>
     \/ UNCHANGED <<row, revs, upstream, runs>>

-----------------------------------------------------------------------------
(* Background runs. *)

StartRun(r, kind) ==
  /\ exists
  /\ kind \in Kinds
  /\ runs[r].kind = "idle"
  /\ runs' = [runs EXCEPT ![r] =
                [Idle EXCEPT !.kind = kind, !.fresh = TRUE, !.auto = (kind = "sync" /\ policy = "auto")]]
  /\ UNCHANGED <<row, revs, upstream, importing>>

\* SyncSource reads the source.
BeginSync(r) == remote /\ policy # "pinned" /\ StartRun(r, "sync")

\* Probe reads the source and the revision it checks.
BeginProbe(r) == (active # NoRev \/ staged # NoRev) /\ StartRun(r, "probe")

\* StageContent reads the source; its caller brings the content.
BeginContent(r) == ~remote /\ StartRun(r, "content")

\* The URL's content changes.
Publish ==
  /\ remote
  /\ upstream < MaxContent
  /\ upstream' = upstream + 1
  /\ UNCHANGED <<row, revs, importing, runs>>

\* What the work of a run brought; whether it was to sample no longer matters.
Bring(r, what, c, ok) ==
  runs' = [runs EXCEPT ![r] = [@ EXCEPT !.got = what, !.content = c,
                                         !.passed = ok, !.auto = FALSE]]

\* The fetch of a sync returns: an error, 304, or the present content, which is
\* parsed and, under an automatic policy, sampled (book packs never are).
Fetch(r) ==
  /\ runs[r].kind = "sync" /\ runs[r].got = "nothing"
  /\ \/ \E g \in {"failure", "unchanged"} : Bring(r, g, 0, FALSE)
     \/ upstream \in Malformed /\ Bring(r, "malformed", upstream, FALSE)
     \/ /\ upstream \notin Malformed
        /\ \E ok \in {FALSE, runs[r].auto} : Bring(r, "content", upstream, ok)
  /\ UNCHANGED <<row, revs, upstream, importing>>

\* The caller's content of StageContent is parsed; a malformed one is refused.
Compose(r) ==
  /\ runs[r].kind = "content" /\ runs[r].got = "nothing"
  /\ \E c \in Contents \ Malformed :
       Bring(r, "content", c, FALSE)
  /\ UNCHANGED <<row, revs, upstream, importing>>

\* Malformed content is kept as an invalid revision before the failure is
\* recorded; this transaction does not look at updatedAt.
SaveInvalid(r) ==
  /\ runs[r].got = "malformed"
  /\ exists
  /\ \E q \in Revs : NewRevision(q, "invalid", runs[r].content)
  /\ Bring(r, "failure", 0, FALSE)
  /\ UNCHANGED <<row, upstream, importing>>

\* The version check every commit of a run starts with.
NoCheck(r) == exists
Unchanged(r) == exists /\ runs[r].fresh

\* Content that a sync does not stage again: it is active, staged already, or
\* an operator rejected it.
KnownForgetful(c) == c \in {ContentOf(active), ContentOf(staged)}

Known(c) ==
  \/ c \in {ContentOf(active), ContentOf(staged)}
  \/ \E q \in Revs : revs[q].status = "rejected" /\ revs[q].content = c

\* Content may replace the active revision without review.  RequiresReview is
\* the verdict of adapter.Difference between the two.
EarnedBySampleAlone(r, requiresReview) == runs[r].passed

Earned(r, requiresReview) ==
  /\ policy = "auto"
  /\ ~requiresReview
  /\ active # NoRev
  /\ health # "quarantined"
  /\ runs[r].passed

\* SyncSource's last transaction.
SyncCommit(r) ==
  /\ runs[r].kind = "sync" /\ runs[r].got \in {"unchanged", "content"}
  /\ Unchanged(r)
  /\ IF runs[r].got = "unchanged" \/ Known(runs[r].content)
     THEN UNCHANGED <<active, staged, revs>>
     ELSE \E q \in Revs, requiresReview \in BOOLEAN :
            IF Earned(r, requiresReview)
            THEN /\ NewRevision(q, "approved", runs[r].content)
                 /\ active' = q
                 /\ staged' = NoRev
            ELSE /\ NewRevision(q, "staged", runs[r].content)
                 /\ staged' = q
                 /\ UNCHANGED active
  /\ EndBumping(r)
  /\ UNCHANGED <<exists, remote, enabled, policy, health, failures, tombstone,
                 upstream, importing>>

\* StageContent's transaction: content equal to the staged revision's is a
\* no-op, equal to the active revision's is refused.
ContentCommit(r) ==
  /\ runs[r].kind = "content" /\ runs[r].got = "content"
  /\ Unchanged(r)
  /\ runs[r].content \notin {ContentOf(active), ContentOf(staged)}
  /\ \E q \in Revs : NewRevision(q, "staged", runs[r].content) /\ staged' = q
  /\ EndBumping(r)
  /\ UNCHANGED <<exists, remote, enabled, policy, health, failures, active, tombstone,
                 upstream, importing>>

\* Health after a check, from the failures counted so far, this one included.
HealthAfterUnguarded(h, check, n) ==
  CASE check = "functional" -> "healthy"
    [] check = "weak" -> "degraded"
    [] check = "failed" -> IF n >= 3 THEN "avoid" ELSE IF n = 2 THEN "failing" ELSE "degraded"

HealthAfter(h, check, n) ==
  IF Protected(h) THEN h
  ELSE CASE check = "functional" -> "healthy"
         [] check = "weak" -> "degraded"
         [] check = "failed" ->
              IF n >= 3 THEN "avoid" ELSE IF n = 2 THEN "failing" ELSE "degraded"

\* A success that forgets to reset the counter.
FailuresNeverReset(check) == IF check = "failed" THEN failures + 1 ELSE failures

FailuresAfter(check) == IF check = "failed" THEN failures + 1 ELSE 0

\* saveProbe: the result of a probe, or the failure of a sync.
ProbeCommit(r) ==
  /\ Unchanged(r)
  /\ \E check \in Checks :
       /\ \/ runs[r].kind = "probe"
          \/ runs[r].kind = "sync" /\ runs[r].got = "failure" /\ check = "failed"
       /\ check = "failed" => failures < MaxFailures  \* bound
       /\ failures' = FailuresAfter(check)
       /\ health' = HealthAfter(health, check, failures')
  /\ EndBumping(r)
  /\ UNCHANGED <<exists, remote, enabled, policy, active, staged, tombstone, revs,
                 upstream, importing>>

\* A run ends without effect: ErrConflict, a source or revision that is gone, a
\* refused content, a timeout or a lost worker.
Abandon(r) ==
  /\ runs[r].kind # "idle"
  /\ End(r)
  /\ UNCHANGED <<row, revs, upstream, importing>>

-----------------------------------------------------------------------------
OperatorStep ==
  \/ \E q \in Revs : Approve(q) \/ ApproveEnable(q) \/ Rollback(q)
  \/ Reject \/ Enable \/ Disable \/ Quarantine \/ Release
  \/ \E p \in Policies : Configure(p)
  \/ SoftDelete \/ UndoDelete \/ Delete
  \/ FinishImport

RunStep(r) ==
  \/ BeginSync(r) \/ BeginProbe(r) \/ BeginContent(r)
  \/ Fetch(r) \/ Compose(r) \/ SaveInvalid(r)
  \/ SyncCommit(r) \/ ContentCommit(r) \/ ProbeCommit(r)
  \/ Abandon(r)

BackgroundStep == \E r \in Runs : RunStep(r)

SourceNext == OperatorStep \/ BackgroundStep \/ Publish

SourceSpec == SourceInit /\ [][SourceNext]_sourceVars

-----------------------------------------------------------------------------
(* Properties. *)

\* What is served was approved, by an operator or by a sync that earned it.
ActiveIsApproved == active # NoRev => revs[active].status = "approved"

\* What waits for review is one revision that nobody decided on yet, so that an
\* approve without a revision id approves what the operator was shown.
StagedIsUndecided == staged # NoRev => revs[staged].status = "staged"

\* An enabled source has an approved revision to serve and is not marked
\* disabled, whichever of import, review, probe and delete raced to change it.
EnabledIsServable ==
  enabled => active # NoRev /\ health # "disabled"

\* Health and the failure counter agree: three failures in a row, with no
\* success between them, are what it takes to be avoided.
HealthCountsFailures ==
  /\ health = "healthy" => failures = 0
  /\ health = "failing" => failures = 2
  /\ health = "avoid" => failures >= 3

\* A sync never brings back content older than content it brought before,
\* however long its fetch took and whatever committed in the meantime.
NeverOlderContent ==
  [][\A q \in Revs :
       /\ remote /\ revs[q].status = "none"
       /\ revs'[q].status \in {"staged", "approved"}
       => \A p \in Revs : revs[p].status \in {"staged", "approved", "rejected"} =>
            revs[p].content <= revs'[q].content]_sourceVars

\* A sync never stages or approves content an operator rejected.
RejectedStaysOut ==
  [][\A p, q \in Revs :
       /\ remote
       /\ revs[p].status = "rejected" /\ revs[q].status = "none"
       /\ revs'[q].status \in {"staged", "approved"}
       => revs'[q].content # revs[p].content]_sourceVars

\* Without an operator the active revision changes only on an automatic source
\* that has one already and is not quarantined, and then to other content.
AutoApprovalEarned ==
  [][active' # active /\ BackgroundStep =>
       /\ policy = "auto" /\ active # NoRev /\ health # "quarantined"
       /\ revs'[active'].content # revs[active].content]_sourceVars

\* From a rollback on, no sync changes what is served or waits for review, one
\* that fetched newer content before the rollback included.
PinnedStaysPut ==
  [][/\ remote /\ policy = "pinned"
     /\ active' # active \/ staged' # staged
     => ~BackgroundStep]_sourceVars

\* No background run enables or disables a source, or takes it out of quarantine or
\* out of "disabled", one that began before the operator's action included.
BackgroundKeepsProtection ==
  [][enabled' # enabled \/ (Protected(health) /\ health' # health) => ~BackgroundStep]_sourceVars

\* docs/design.md: the third failure in a row quarantines.  saveProbe makes it
\* "avoid", which its comment and docs/client-contract.md call for.
ThirdFailureQuarantines ==
  [][failures' > failures /\ failures' >= 3 => Protected(health')]_sourceVars

\* The contents of the revisions with one of these statuses.
ContentsOf(statuses) == {revs[q].content : q \in {p \in Revs : revs[p].status \in statuses}}

\* The content a pointer refers to: none or one.
Refers(q) == IF q = NoRev THEN {} ELSE {revs[q].content}

Review ==
  INSTANCE SourceReview WITH
    held <- health = "quarantined",
    url <- upstream,
    serves <- Refers(active),
    waits <- Refers(staged),
    filed <- ContentsOf({"staged", "approved", "rejected"}),
    approved <- ContentsOf({"approved"}),
    rejected <- ContentsOf({"rejected"})

\* What the review promises (SourceReview), whatever runs were in flight and
\* whichever revision a decision named: a sync brings content in order and never
\* against a rejection; what is served was approved, by an operator or by a sync
\* of an automatic source; no decision is lost, except to a delete.
ImplementsReview == Review!Spec
=============================================================================
