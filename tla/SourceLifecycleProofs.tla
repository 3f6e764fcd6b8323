------------------------- MODULE SourceLifecycleProofs -------------------------
(***************************************************************************)
(* Proofs about SourceLifecycle for every number of revisions, contents    *)
(* and concurrent runs that SourceAssumption admits.                       *)
(***************************************************************************)
EXTENDS SourceLifecycle, TLAPS

RowType ==
  /\ exists \in BOOLEAN /\ remote \in BOOLEAN /\ enabled \in BOOLEAN
  /\ tombstone \in BOOLEAN
  /\ policy \in Policies
  /\ health \in Healths
  /\ failures \in 0..MaxFailures
  /\ active \in Revs \cup {NoRev}
  /\ staged \in Revs \cup {NoRev}
  /\ importing \in Revs \cup {NoRev}
  /\ upstream \in Contents

RevsType ==
  /\ revs \in [Revs -> [status : RevStatuses, content : 0..MaxContent]]
  /\ \A q \in Revs : revs[q].status = "none" <=> revs[q].content = 0

\* A run that brought content knows it: no revision is made of nothing.
RunsType ==
  /\ runs \in [Runs -> Run]
  /\ \A r \in Runs : runs[r].got \in {"content", "malformed"} => runs[r].content # 0

\* What is active and what is staged refer to rows in those states.
Pointers == ActiveIsApproved /\ StagedIsUndecided

\* The inductive invariant.
IInv ==
  /\ RowType /\ RevsType /\ RunsType
  /\ Pointers
  /\ EnabledIsServable
  /\ HealthCountsFailures

\* The parts of the type invariant, put together.
LEMMA TypeParts == IInv => SourceTypeOK
  BY DEF IInv, RowType, RevsType, RunsType, SourceTypeOK

\* Import leaves everything in order.
LEMMA InitIInv == SourceInit => IInv
<1> SUFFICES ASSUME SourceInit PROVE IInv
  OBVIOUS
<1> USE SourceAssumption DEF SourceInit
<1>1. RowType
  <2>1. 0 \in 0..MaxFailures /\ 1 \in Contents
    BY DEF Contents
  <2>2. "unknown" \in Healths
    BY DEF Healths
  <2>3. importing \in Revs \cup {NoRev} /\ staged \in Revs \cup {NoRev}
    OBVIOUS
  <2>4. QED
    BY <2>1, <2>2, <2>3, Zenon DEF RowType
<1>2. RevsType
  BY DEF RevsType, NoRevision, RevStatuses
<1>3. RunsType
  BY DEF RunsType, Run, Idle
<1>4. Pointers
  BY DEF Pointers, ActiveIsApproved, StagedIsUndecided
<1>5. EnabledIsServable /\ HealthCountsFailures
  BY DEF EnabledIsServable, HealthCountsFailures
<1>6. QED
  BY <1>1, <1>2, <1>3, <1>4, <1>5 DEF IInv

-----------------------------------------------------------------------------
(* The revisions and the runs. *)

\* Deciding on an existing revision changes that revision's status only.
LEMMA Deciding ==
  ASSUME RevsType, NEW q \in Revs, NEW s \in RevStatuses \ {"none"},
         revs[q].status # "none", SetStatus(q, s)
  PROVE  /\ RevsType'
         /\ revs'[q].status = s
         /\ \A p \in Revs : p # q => revs'[p] = revs[p]
<1>1. revs' = [revs EXCEPT ![q] = [revs[q] EXCEPT !.status = s]]
  BY DEF SetStatus
<1>2. \A p \in Revs : revs'[p] = IF p = q THEN [revs[q] EXCEPT !.status = s] ELSE revs[p]
  BY <1>1 DEF RevsType
<1>3. revs[q] \in [status : RevStatuses, content : 0..MaxContent]
  BY DEF RevsType
<1>4. /\ [revs[q] EXCEPT !.status = s] \in [status : RevStatuses, content : 0..MaxContent]
      /\ [revs[q] EXCEPT !.status = s].status = s
      /\ [revs[q] EXCEPT !.status = s].content = revs[q].content
  BY <1>3
<1>5. RevsType'
  BY <1>1, <1>2, <1>4 DEF RevsType
<1>6. QED
  BY <1>2, <1>4, <1>5

\* A new revision changes no other.
LEMMA Inserting ==
  ASSUME RevsType, NEW q \in Revs, NEW s \in RevStatuses \ {"none"},
         NEW c \in 1..MaxContent, NewRevision(q, s, c)
  PROVE  /\ RevsType'
         /\ revs[q].status = "none" /\ revs'[q].status = s
         /\ \A p \in Revs : p # q => revs'[p] = revs[p]
  BY SourceAssumption DEF RevsType, NewRevision

\* Bumping updatedAt, ending a run and starting one keep the runs well formed.
LEMMA Bumping ==
  ASSUME RunsType, runs' = Outdated
  PROVE  RunsType'
<1>1. \A r \in Runs : /\ Outdated[r] \in Run
                      /\ Outdated[r].got = runs[r].got
                      /\ Outdated[r].content = runs[r].content
  BY DEF RunsType, Outdated, Run
<1>2. Outdated \in [Runs -> Run]
  BY <1>1 DEF Outdated
<1>3. QED
  BY <1>1, <1>2 DEF RunsType

\* A run that ends leaves the other runs as they were.
LEMMA Ending ==
  ASSUME RunsType, NEW r \in Runs, End(r) \/ EndBumping(r)
  PROVE  RunsType'
<1>1. Idle \in Run /\ Idle.got = "nothing"
  BY SourceAssumption DEF Idle, Run
<1>2. CASE End(r)
  BY <1>1, <1>2 DEF RunsType, End
<1>3. CASE EndBumping(r)
  <2>1. \A i \in Runs : /\ Outdated[i] \in Run
                        /\ Outdated[i].got = runs[i].got
                        /\ Outdated[i].content = runs[i].content
    BY DEF RunsType, Outdated, Run
  <2>2. Outdated \in [Runs -> Run]
    BY <2>1 DEF Outdated
  <2>3. QED
    BY <1>1, <1>3, <2>1, <2>2 DEF RunsType, EndBumping
<1>4. QED
  BY <1>2, <1>3

\* What a run's work brings is something a revision can be made of.
LEMMA Bringing ==
  ASSUME RunsType, NEW r \in Runs, NEW g \in {"unchanged", "content", "malformed", "failure"},
         NEW c \in 0..MaxContent, NEW ok \in BOOLEAN,
         g \in {"content", "malformed"} => c # 0,
         Bring(r, g, c, ok)
  PROVE  RunsType'
  BY DEF RunsType, Bring, Run

-----------------------------------------------------------------------------
(* Operators. *)

\* An operator's step that leaves the revisions and the pointers alone.
LEMMA RowIInv ==
  ASSUME IInv,
         \/ Enable \/ Disable \/ Quarantine \/ Release \/ SoftDelete \/ UndoDelete
         \/ \E p \in Policies : Configure(p)
  PROVE  IInv'
<1> USE SourceAssumption
       DEF Enable, Disable, Quarantine, Release, SoftDelete, UndoDelete, Configure,
           Operator, Reset, Protected, Bump
<1>1. RowType'
  <2> USE DEF IInv, RowType, Healths, Contents
  <2>1. CASE Enable \/ Disable \/ Quarantine
    BY <2>1
  <2>2. CASE Release
    BY <2>2
  <2>3. CASE SoftDelete \/ UndoDelete
    BY <2>3
  <2>4. CASE \E p \in Policies : Configure(p)
    BY <2>4
  <2>5. QED
    BY <2>1, <2>2, <2>3, <2>4
<1>2. RevsType' /\ Pointers'
  BY DEF IInv, RevsType, Pointers, ActiveIsApproved, StagedIsUndecided
<1>3. RunsType'
  BY Bumping DEF IInv
<1>4. EnabledIsServable'
  BY DEF IInv, EnabledIsServable
<1>5. HealthCountsFailures'
  BY DEF IInv, HealthCountsFailures
<1>6. QED
  BY <1>1, <1>2, <1>3, <1>4, <1>5 DEF IInv

\* approve, with or without a revision id.
LEMMA ApproveIInv ==
  ASSUME IInv, NEW q \in Revs, Approve(q)
  PROVE  IInv'
<1> USE SourceAssumption
<1>1. /\ RevsType' /\ revs'[q].status = "approved"
      /\ \A p \in Revs : p # q => revs'[p] = revs[p]
  BY Deciding DEF IInv, Approve, RevStatuses
<1>2. RowType'
  BY DEF Approve, Operator, Reset, Protected, IInv, RowType, Healths, Contents
<1>3. Pointers'
  BY <1>1 DEF Approve, IInv, RowType, Pointers, ActiveIsApproved, StagedIsUndecided
<1>4. RunsType'
  BY Bumping DEF IInv, Approve, Bump
<1>5. EnabledIsServable' /\ HealthCountsFailures'
  BY DEF Approve, Reset, Protected, IInv, EnabledIsServable, HealthCountsFailures
<1>6. QED
  BY <1>1, <1>2, <1>3, <1>4, <1>5 DEF IInv

\* approve-enable, from an operator or from Import.
LEMMA ApproveAndEnableIInv ==
  ASSUME IInv, NEW q \in Revs, ApproveAndEnable(q),
         UNCHANGED <<exists, remote, upstream>>, importing' \in Revs \cup {NoRev}
  PROVE  IInv'
<1> USE SourceAssumption
<1>1. /\ RevsType' /\ revs'[q].status = "approved"
      /\ \A p \in Revs : p # q => revs'[p] = revs[p]
  BY Deciding DEF IInv, ApproveAndEnable, RevStatuses
<1>2. RowType'
  BY DEF ApproveAndEnable, IInv, RowType, Healths, Contents
<1>3. Pointers'
  BY <1>1 DEF ApproveAndEnable, IInv, RowType, Pointers, ActiveIsApproved, StagedIsUndecided
<1>4. RunsType'
  BY Bumping DEF IInv, ApproveAndEnable, Bump
<1>5. EnabledIsServable' /\ HealthCountsFailures'
  BY DEF ApproveAndEnable, IInv, EnabledIsServable, HealthCountsFailures
<1>6. QED
  BY <1>1, <1>2, <1>3, <1>4, <1>5 DEF IInv

\* rollback.
LEMMA RollbackIInv ==
  ASSUME IInv, NEW q \in Revs, Rollback(q)
  PROVE  IInv'
<1> USE SourceAssumption DEF Rollback
<1>1. RowType'
  BY DEF Operator, Reset, Protected, IInv, RowType, Healths, Contents, Policies
<1>2. RevsType' /\ Pointers'
  BY DEF IInv, RevsType, Pointers, ActiveIsApproved, StagedIsUndecided
<1>3. RunsType'
  BY Bumping DEF IInv, Bump
<1>4. EnabledIsServable' /\ HealthCountsFailures'
  BY DEF Reset, Protected, IInv, EnabledIsServable, HealthCountsFailures
<1>5. QED
  BY <1>1, <1>2, <1>3, <1>4 DEF IInv

\* reject: the active revision is approved, so it is not the one rejected.
LEMMA RejectIInv ==
  ASSUME IInv, Reject
  PROVE  IInv'
<1> USE SourceAssumption
<1>1. staged \in Revs /\ revs[staged].status = "staged"
  BY DEF Reject, IInv, RowType, Pointers, StagedIsUndecided
<1>2. /\ RevsType'
      /\ \A p \in Revs : p # staged => revs'[p] = revs[p]
  BY <1>1, Deciding DEF IInv, Reject, RevStatuses
<1>3. RowType'
  BY DEF Reject, Operator, IInv, RowType
<1>4. Pointers'
  BY <1>1, <1>2 DEF Reject, IInv, RowType, Pointers, ActiveIsApproved, StagedIsUndecided
<1>5. RunsType'
  BY Bumping DEF IInv, Reject, Bump
<1>6. EnabledIsServable' /\ HealthCountsFailures'
  BY DEF Reject, IInv, EnabledIsServable, HealthCountsFailures
<1>7. QED
  BY <1>2, <1>3, <1>4, <1>5, <1>6 DEF IInv

\* A hard delete takes the revisions and the pointers with it.
LEMMA DeleteIInv ==
  ASSUME IInv, Delete
  PROVE  IInv'
<1> USE SourceAssumption DEF Delete
<1>1. RowType'
  BY DEF IInv, RowType
<1>2. RevsType'
  BY DEF RevsType, NoRevision, RevStatuses
<1>3. RunsType'
  BY Bumping DEF IInv, Bump
<1>4. Pointers' /\ EnabledIsServable' /\ HealthCountsFailures'
  BY DEF IInv, Pointers, ActiveIsApproved, StagedIsUndecided, EnabledIsServable,
         HealthCountsFailures
<1>5. QED
  BY <1>1, <1>2, <1>3, <1>4 DEF IInv

\* Every operator's step, and the end of Import.
LEMMA OperatorIInv ==
  ASSUME IInv, OperatorStep
  PROVE  IInv'
<1>1. ASSUME NEW q \in Revs, ApproveEnable(q) PROVE IInv'
  BY <1>1, ApproveAndEnableIInv DEF ApproveEnable, Operator, IInv, RowType
<1>2. CASE FinishImport
  <2>1. CASE /\ exists /\ ApproveAndEnable(importing)
             /\ UNCHANGED <<exists, remote, upstream>>
    <3>1. importing \in Revs /\ importing' = NoRev
      BY <1>2 DEF FinishImport, IInv, RowType
    <3>2. QED
      BY <2>1, <3>1, ApproveAndEnableIInv
  <2>2. CASE UNCHANGED <<row, revs, upstream, runs>>
    BY <1>2, <2>2
    DEF FinishImport, row, IInv, RowType, RevsType, RunsType, Pointers, ActiveIsApproved,
        StagedIsUndecided, EnabledIsServable, HealthCountsFailures
  <2>3. QED
    BY <1>2, <2>1, <2>2 DEF FinishImport
<1>3. QED
  BY <1>1, <1>2, RowIInv, ApproveIInv, RollbackIInv, RejectIInv, DeleteIInv
  DEF OperatorStep

-----------------------------------------------------------------------------
(* Background runs. *)

\* Steps of a run outside any transaction, and the steps that end it unheard.
LEMMA QuietIInv ==
  ASSUME IInv, RunsType', UNCHANGED <<row, revs, importing>>, upstream' \in Contents
  PROVE  IInv'
  BY DEF row, IInv, RowType, RevsType, Pointers, ActiveIsApproved, StagedIsUndecided,
         EnabledIsServable, HealthCountsFailures

\* The start of a run, its work, and a run given up.
LEMMA OutsideIInv ==
  ASSUME IInv, NEW r \in Runs,
         \/ BeginSync(r) \/ BeginProbe(r) \/ BeginContent(r)
         \/ Fetch(r) \/ Compose(r) \/ Abandon(r)
  PROVE  IInv'
<1> USE SourceAssumption
<1>1. UNCHANGED <<row, revs, importing, upstream>> /\ upstream \in Contents
  BY DEF BeginSync, BeginProbe, BeginContent, StartRun, Fetch, Compose, Abandon, IInv, RowType
<1>2. ASSUME NEW kind \in {"sync", "probe", "content"}, StartRun(r, kind)
      PROVE  RunsType'
  <2> DEFINE auto == kind = "sync" /\ policy = "auto"
             new == [Idle EXCEPT !.kind = kind, !.fresh = TRUE, !.auto = auto]
  <2>1. auto \in BOOLEAN
    OBVIOUS
  <2>2. runs' = [runs EXCEPT ![r] = new]
    BY <1>2 DEF StartRun
  <2> HIDE DEF auto
  <2>3. \A x \in Run, b \in BOOLEAN :
          LET y == [x EXCEPT !.kind = kind, !.fresh = TRUE, !.auto = b]
          IN  y \in Run /\ y.got = x.got
    BY DEF Run
  <2>4. Idle \in Run /\ Idle.got = "nothing"
    BY DEF Idle, Run
  <2>5. new \in Run /\ new.got = "nothing"
    BY <2>1, <2>3, <2>4
  <2> HIDE DEF new
  <2>6. QED
    BY <2>2, <2>5 DEF IInv, RunsType
<1>3. ASSUME Fetch(r) PROVE RunsType'
  <2>1. upstream \in 1..MaxContent
    BY DEF IInv, RowType, Contents
  <2>2. runs[r].auto \in BOOLEAN
    BY DEF IInv, RunsType, Run
  <2>3. CASE \E g \in {"failure", "unchanged"} : Bring(r, g, 0, FALSE)
    <3>1. 0 \in 0..MaxContent
      OBVIOUS
    <3>2. QED
      BY <2>3, <3>1, Bringing, Zenon DEF IInv
  <2>4. CASE Bring(r, "malformed", upstream, FALSE)
    <3>1. upstream \in 0..MaxContent /\ upstream # 0
      BY <2>1
    <3>2. QED
      BY <2>4, <3>1, Bringing, Zenon DEF IInv
  <2>5. CASE \E ok \in {FALSE, runs[r].auto} : Bring(r, "content", upstream, ok)
    <3>1. upstream \in 0..MaxContent /\ upstream # 0
      BY <2>1
    <3>2. PICK ok \in BOOLEAN : Bring(r, "content", upstream, ok)
      BY <2>2, <2>5, Zenon
    <3>3. QED
      BY <3>1, <3>2, Bringing, Zenon DEF IInv
  <2>6. QED
    BY <1>3, <2>3, <2>4, <2>5 DEF Fetch
<1>4. ASSUME Compose(r) PROVE RunsType'
  <2>1. PICK c \in 1..MaxContent : Bring(r, "content", c, FALSE)
    BY <1>4, Zenon DEF Compose, Contents
  <2>2. c \in 0..MaxContent /\ c # 0
    OBVIOUS
  <2>3. QED
    BY <2>1, <2>2, Bringing, Zenon DEF IInv
<1>5. ASSUME Abandon(r) PROVE RunsType'
  BY <1>5, Ending DEF Abandon, IInv
<1>6. RunsType'
  BY <1>2, <1>3, <1>4, <1>5 DEF BeginSync, BeginProbe, BeginContent
<1>7. QED
  BY <1>1, <1>6, QuietIInv

\* A new revision is none of those that are active or staged.
LEMMA InsertKeepsPointers ==
  ASSUME IInv, NEW q \in Revs, NEW s \in RevStatuses \ {"none"},
         NEW c \in 1..MaxContent, NewRevision(q, s, c),
         \/ active' = active
         \/ active' = q /\ s = "approved",
         \/ staged' = staged
         \/ staged' = NoRev
         \/ staged' = q /\ s = "staged"
  PROVE  RevsType' /\ Pointers'
<1>1. /\ RevsType'
      /\ revs[q].status = "none" /\ revs'[q].status = s
      /\ \A p \in Revs : p # q => revs'[p] = revs[p]
  BY Inserting DEF IInv
<1>2. QED
  BY <1>1, SourceAssumption
  DEF IInv, RowType, Pointers, ActiveIsApproved, StagedIsUndecided

\* What a run brought has a content number.
LEMMA BroughtContent ==
  ASSUME IInv, NEW r \in Runs, runs[r].got \in {"content", "malformed"}
  PROVE  runs[r].content \in 1..MaxContent
  BY SourceAssumption DEF IInv, RunsType, Run

\* Malformed content is kept as an invalid revision.
LEMMA SaveInvalidIInv ==
  ASSUME IInv, NEW r \in Runs, SaveInvalid(r)
  PROVE  IInv'
<1>1. RevsType' /\ Pointers'
  BY InsertKeepsPointers, BroughtContent DEF SaveInvalid, RevStatuses, row
<1>2. RunsType'
  <2>1. Bring(r, "failure", 0, FALSE)
    BY Zenon DEF SaveInvalid
  <2>2. 0 \in 0..MaxContent
    BY SourceAssumption
  <2>3. QED
    BY <2>1, <2>2, Bringing, Zenon DEF IInv
<1>3. QED
  BY <1>1, <1>2
  DEF SaveInvalid, row, IInv, RowType, EnabledIsServable, HealthCountsFailures

\* A sync commits: nothing new, a revision for review, or one approved at once.
LEMMA SyncCommitIInv ==
  ASSUME IInv, NEW r \in Runs, SyncCommit(r)
  PROVE  IInv'
<1> USE SourceAssumption
<1>1. RunsType'
  BY Ending DEF SyncCommit, IInv
<1>2. CASE UNCHANGED <<active, staged, revs>>
  BY <1>1, <1>2
  DEF SyncCommit, IInv, RowType, RevsType, Pointers, ActiveIsApproved, StagedIsUndecided,
      EnabledIsServable, HealthCountsFailures
<1>3. ASSUME NEW q \in Revs, runs[r].got = "content",
             NEW s \in {"approved", "staged"}, NewRevision(q, s, runs[r].content),
             \/ s = "approved" /\ active' = q /\ staged' = NoRev
             \/ s = "staged" /\ active' = active /\ staged' = q
      PROVE  IInv'
  <2>1. RevsType' /\ Pointers'
    BY <1>3, InsertKeepsPointers, BroughtContent DEF RevStatuses
  <2>2. RowType' /\ EnabledIsServable' /\ HealthCountsFailures'
    BY <1>3 DEF SyncCommit, IInv, RowType, EnabledIsServable, HealthCountsFailures
  <2>3. QED
    BY <1>1, <2>1, <2>2 DEF IInv
<1>4. QED
  BY <1>2, <1>3 DEF SyncCommit

\* Locally managed content waits for review.
LEMMA ContentCommitIInv ==
  ASSUME IInv, NEW r \in Runs, ContentCommit(r)
  PROVE  IInv'
<1>1. RevsType' /\ Pointers'
  BY InsertKeepsPointers, BroughtContent DEF ContentCommit, RevStatuses
<1>2. RunsType'
  BY Ending DEF ContentCommit, IInv
<1>3. RowType' /\ EnabledIsServable' /\ HealthCountsFailures'
  BY DEF ContentCommit, IInv, RowType, EnabledIsServable, HealthCountsFailures
<1>4. QED
  BY <1>1, <1>2, <1>3 DEF IInv

\* The result of a check: the counter and the health that goes with it.
LEMMA ProbeCommitIInv ==
  ASSUME IInv, NEW r \in Runs, ProbeCommit(r)
  PROVE  IInv'
<1> USE SourceAssumption
<1>1. PICK check \in Checks :
        /\ check = "failed" => failures < MaxFailures
        /\ failures' = FailuresAfter(check)
        /\ health' = HealthAfter(health, check, failures')
  BY DEF ProbeCommit
<1>2. failures' \in 0..MaxFailures
  BY <1>1 DEF IInv, RowType, FailuresAfter
<1>3. health' \in Healths /\ (health # "disabled" => health' # "disabled")
  BY <1>1 DEF HealthAfter, Protected, Checks, Healths, IInv, RowType
<1>4. RowType' /\ EnabledIsServable'
  BY <1>2, <1>3 DEF ProbeCommit, IInv, RowType, EnabledIsServable
<1>5. HealthCountsFailures'
  <2>1. CASE check = "failed"
    BY <1>1, <2>1
    DEF FailuresAfter, HealthAfter, Protected, IInv, RowType, HealthCountsFailures
  <2>2. CASE check # "failed"
    BY <1>1, <2>2
    DEF FailuresAfter, HealthAfter, Protected, Checks, IInv, RowType, HealthCountsFailures
  <2>3. QED
    BY <2>1, <2>2
<1>6. RunsType'
  BY Ending DEF ProbeCommit, IInv
<1>7. RevsType' /\ Pointers'
  BY DEF ProbeCommit, IInv, RevsType, Pointers, ActiveIsApproved, StagedIsUndecided
<1>8. QED
  BY <1>4, <1>5, <1>6, <1>7 DEF IInv

-----------------------------------------------------------------------------
(* The invariant and what follows from it. *)

\* Every step keeps the invariant.
LEMMA NextIInv ==
  ASSUME IInv, [SourceNext]_sourceVars
  PROVE  IInv'
<1>1. CASE BackgroundStep
  BY <1>1, OutsideIInv, SaveInvalidIInv, SyncCommitIInv, ContentCommitIInv, ProbeCommitIInv
  DEF BackgroundStep, RunStep
<1>2. CASE Publish
  BY <1>2, SourceAssumption, QuietIInv DEF Publish, IInv, RowType, Contents, RunsType
<1>3. CASE UNCHANGED sourceVars
  BY <1>3, QuietIInv DEF sourceVars, row, IInv, RowType, RunsType
<1>4. QED
  BY <1>1, <1>2, <1>3, OperatorIInv DEF SourceNext

\* The invariant holds in every reachable state.
LEMMA Invariance == SourceSpec => []IInv
  BY InitIInv, NextIInv, PTL DEF SourceSpec

\* Every variable keeps its type.
THEOREM TypeCorrect == SourceSpec => []SourceTypeOK
  BY Invariance, TypeParts, PTL

\* What is served was approved: however many revisions, runs and operators.
THEOREM ServedIsApproved == SourceSpec => []ActiveIsApproved
<1>1. IInv => ActiveIsApproved
  BY DEF IInv, Pointers
<1>2. QED
  BY <1>1, Invariance, PTL

\* What waits for review was not decided on before.
THEOREM ReviewIsOpen == SourceSpec => []StagedIsUndecided
<1>1. IInv => StagedIsUndecided
  BY DEF IInv, Pointers
<1>2. QED
  BY <1>1, Invariance, PTL

\* An enabled source can be served.
THEOREM EnabledServes == SourceSpec => []EnabledIsServable
<1>1. IInv => EnabledIsServable
  BY DEF IInv
<1>2. QED
  BY <1>1, Invariance, PTL

\* Health and the failure counter agree.
THEOREM HealthCounts == SourceSpec => []HealthCountsFailures
<1>1. IInv => HealthCountsFailures
  BY DEF IInv
<1>2. QED
  BY <1>1, Invariance, PTL

-----------------------------------------------------------------------------
(* What runs in flight know, for the action properties. *)

Decided == {"staged", "approved", "rejected"}

\* Content is composed by hand only for a source without a URL and synced only for
\* one with a URL, and a sync whose row is as it read it is of one not pinned.  Of a source with a URL, the
\* URL has nothing older than what was brought from it; and what a run brought is
\* not older than any revision, as long as its row is as it read it.
RunsKnow ==
  /\ \A r \in Runs :
       /\ runs[r].kind = "content" => ~remote
       /\ runs[r].kind = "sync" => remote
       /\ runs[r].kind = "sync" /\ runs[r].fresh => policy # "pinned"
  /\ remote =>
       /\ \A r \in Runs : runs[r].content <= upstream
       /\ \A q \in Revs : revs[q].content <= upstream
       /\ \A r \in Runs : runs[r].fresh /\ runs[r].got = "content" =>
            \A q \in Revs : revs[q].status \in Decided => revs[q].content <= runs[r].content

\* Import starts with what the URL has.
LEMMA InitRunsKnow == SourceInit => RunsKnow
  BY SourceAssumption DEF SourceInit, RunsKnow, Idle, NoRevision

\* Runs that are all outdated know nothing that a step on the row could disturb.
LEMMA OutdatedKnow ==
  ASSUME RunsKnow, UNCHANGED <<remote, upstream>>,
         \A r \in Runs : /\ ~runs'[r].fresh
                         /\ runs'[r].content \in {0, runs[r].content}
                         /\ runs'[r].kind \in {"idle", runs[r].kind},
         remote => \A q \in Revs : revs'[q].content <= upstream,
         upstream \in Nat
  PROVE  RunsKnow'
<1>1. \A r \in Runs : /\ runs'[r].kind = "content" => ~remote'
                      /\ runs'[r].kind = "sync" => remote'
  BY DEF RunsKnow
<1>2. remote' => \A r \in Runs : runs'[r].content <= upstream'
  BY DEF RunsKnow
<1>3. QED
  BY <1>1, <1>2 DEF RunsKnow

\* All runs are outdated by a step that bumps updatedAt.
LEMMA BumpedRuns ==
  ASSUME RunsType, Bump \/ \E s \in Runs : EndBumping(s), NEW r \in Runs
  PROVE  /\ ~runs'[r].fresh
         /\ runs'[r].content \in {0, runs[r].content}
         /\ runs'[r].kind \in {"idle", runs[r].kind}
<1>1. \A i \in Runs : /\ ~Outdated[i].fresh
                      /\ Outdated[i].content = runs[i].content
                      /\ Outdated[i].kind = runs[i].kind
  BY DEF RunsType, Run, Outdated
<1>2. CASE Bump
  BY <1>1, <1>2 DEF Bump
<1>3. CASE \E s \in Runs : EndBumping(s)
  <2>1. PICK s \in Runs : runs' = [Outdated EXCEPT ![s] = Idle]
    BY <1>3 DEF EndBumping
  <2>2. runs'[r] = IF r = s THEN Idle ELSE Outdated[r]
    BY <2>1 DEF Outdated
  <2>3. QED
    BY <1>1, <2>2 DEF Idle
<1>4. QED
  BY <1>2, <1>3

\* A decision changes no content.
LEMMA DecisionKeepsContent ==
  ASSUME RevsType, NEW q \in Revs, NEW s, SetStatus(q, s), NEW p \in Revs
  PROVE  revs'[p].content = revs[p].content
<1>1. revs' = [revs EXCEPT ![q] = [revs[q] EXCEPT !.status = s]]
  BY DEF SetStatus
<1>2. revs'[p] = IF p = q THEN [revs[q] EXCEPT !.status = s] ELSE revs[p]
  BY <1>1 DEF RevsType
<1>3. revs[q] \in [status : RevStatuses, content : 0..MaxContent]
  BY DEF RevsType
<1>4. QED
  BY <1>2, <1>3

\* Operators outdate the runs and bring no content.
LEMMA OperatorKnows ==
  ASSUME IInv, RunsKnow, OperatorStep
  PROVE  RunsKnow'
<1> DEFINE Kept == \A q \in Revs : revs'[q].content \in {0, revs[q].content}
<1>1. upstream \in Nat
  BY SourceAssumption DEF IInv, RowType, Contents
<1>2. ASSUME Bump, UNCHANGED <<remote, upstream>>, Kept
      PROVE  RunsKnow'
  <2>1. remote => \A q \in Revs : revs'[q].content <= upstream
    BY <1>1, <1>2 DEF RunsKnow
  <2>2. RunsType
    BY DEF IInv
  <2>3. QED
    BY <1>1, <1>2, <2>1, <2>2, BumpedRuns, OutdatedKnow
<1>3. ASSUME NEW q \in Revs, Approve(q) \/ ApproveEnable(q) \/ Rollback(q)
      PROVE  RunsKnow'
  <2>1. Bump /\ UNCHANGED <<remote, upstream>>
    BY <1>3 DEF Approve, ApproveEnable, ApproveAndEnable, Rollback, Operator
  <2>2. Kept
    BY <1>3, DecisionKeepsContent DEF Approve, ApproveEnable, ApproveAndEnable, Rollback, IInv
  <2>3. QED
    BY <1>2, <2>1, <2>2
<1>4. CASE Reject
  <2>1. Bump /\ UNCHANGED <<remote, upstream>> /\ staged \in Revs /\ SetStatus(staged, "rejected")
    BY <1>4 DEF Reject, Operator, IInv, RowType
  <2>2. Kept
    BY <2>1, DecisionKeepsContent DEF IInv
  <2>3. QED
    BY <1>2, <2>1, <2>2
<1>5. CASE Enable \/ Disable \/ Quarantine \/ Release \/ SoftDelete \/ UndoDelete
  BY <1>2, <1>5 DEF Enable, Disable, Quarantine, Release, SoftDelete, UndoDelete, Operator
<1>6. CASE \E p \in Policies : Configure(p)
  BY <1>2, <1>6 DEF Configure, Operator
<1>7. CASE Delete
  <2>1. Kept
    BY <1>7 DEF Delete, NoRevision
  <2>2. QED
    BY <1>2, <1>7, <2>1 DEF Delete
<1>8. CASE FinishImport
  <2>1. CASE ApproveAndEnable(importing) /\ UNCHANGED <<exists, remote, upstream>>
    <3>1. importing \in Revs
      BY <1>8 DEF FinishImport, IInv, RowType
    <3>2. Kept
      BY <2>1, <3>1, DecisionKeepsContent DEF ApproveAndEnable, IInv
    <3>3. QED
      BY <1>2, <2>1, <3>2 DEF ApproveAndEnable
  <2>2. CASE UNCHANGED <<row, revs, upstream, runs>>
    BY <2>2 DEF row, RunsKnow
  <2>3. QED
    BY <1>8, <2>1, <2>2 DEF FinishImport
<1>9. QED
  BY <1>3, <1>4, <1>5, <1>6, <1>7, <1>8 DEF OperatorStep

\* A run that begins has read the row as it is, and has brought nothing yet.
LEMMA StartKnows ==
  ASSUME IInv, RunsKnow, NEW r \in Runs, BeginSync(r) \/ BeginProbe(r) \/ BeginContent(r)
  PROVE  RunsKnow'
<1>1. PICK kind \in Kinds : StartRun(r, kind)
  BY DEF BeginSync, BeginProbe, BeginContent, StartRun
<1>2. UNCHANGED <<remote, policy, upstream, revs>>
  BY <1>1 DEF StartRun, row
<1>3. /\ runs'[r].got = "nothing" /\ runs'[r].content = 0
      /\ runs'[r].kind = "content" => ~remote
      /\ runs'[r].kind = "sync" => remote /\ policy # "pinned"
  <2>1. ASSUME NEW k \in Kinds, StartRun(r, k)
        PROVE  runs'[r].got = "nothing" /\ runs'[r].content = 0 /\ runs'[r].kind = k
    BY <2>1 DEF StartRun, Idle, IInv, RunsType, Run
  <2>2. CASE BeginSync(r)
    <3>1. StartRun(r, "sync") /\ remote /\ policy # "pinned" /\ "sync" \in Kinds
      BY <2>2 DEF BeginSync, StartRun
    <3>2. runs'[r].got = "nothing" /\ runs'[r].content = 0 /\ runs'[r].kind = "sync"
      BY <2>1, <3>1
    <3>3. QED
      BY <3>1, <3>2
  <2>3. CASE BeginProbe(r)
    <3>1. StartRun(r, "probe") /\ "probe" \in Kinds
      BY <2>3 DEF BeginProbe, StartRun
    <3>2. runs'[r].got = "nothing" /\ runs'[r].content = 0 /\ runs'[r].kind = "probe"
      BY <2>1, <3>1
    <3>3. QED
      BY <3>2
  <2>4. CASE BeginContent(r)
    <3>1. StartRun(r, "content") /\ ~remote /\ "content" \in Kinds
      BY <2>4 DEF BeginContent, StartRun
    <3>2. runs'[r].got = "nothing" /\ runs'[r].content = 0 /\ runs'[r].kind = "content"
      BY <2>1, <3>1
    <3>3. QED
      BY <3>1, <3>2
  <2>5. QED
    BY <2>2, <2>3, <2>4
<1>4. \A s \in Runs : s # r => runs'[s] = runs[s]
  BY <1>1 DEF StartRun, IInv, RunsType
<1>5. upstream \in Nat
  BY SourceAssumption DEF IInv, RowType, Contents
<1>6. QED
  BY <1>2, <1>3, <1>4, <1>5 DEF RunsKnow

\* What a run brings is the URL's, or composed for a source without one.
LEMMA BringKnows ==
  ASSUME IInv, RunsKnow, NEW r \in Runs, NEW g, NEW c \in Nat, NEW ok, Bring(r, g, c, ok),
         UNCHANGED <<row, revs, upstream>>,
         remote => c <= upstream /\ (g = "content" => c = upstream)
  PROVE  RunsKnow'
<1>1. /\ runs'[r].got = g /\ runs'[r].content = c
      /\ runs'[r].kind = runs[r].kind /\ runs'[r].fresh = runs[r].fresh
  BY DEF Bring, IInv, RunsType, Run
<1>2. \A s \in Runs : s # r => runs'[s] = runs[s]
  BY DEF Bring, IInv, RunsType
<1>3. UNCHANGED <<remote, policy>>
  BY DEF row
<1>4. QED
  BY <1>1, <1>2, <1>3 DEF RunsKnow

LEMMA WorkKnows ==
  ASSUME IInv, RunsKnow, NEW r \in Runs, Fetch(r) \/ Compose(r)
  PROVE  RunsKnow'
<1>1. upstream \in Nat
  BY SourceAssumption DEF IInv, RowType, Contents
<1>2. UNCHANGED <<row, revs, upstream>>
  BY DEF Fetch, Compose
<1>3. CASE Fetch(r)
  <2>1. \/ \E g \in {"failure", "unchanged"} : Bring(r, g, 0, FALSE)
        \/ Bring(r, "malformed", upstream, FALSE)
        \/ \E ok \in {FALSE, runs[r].auto} : Bring(r, "content", upstream, ok)
    BY <1>3 DEF Fetch
  <2>2. CASE \E g \in {"failure", "unchanged"} : Bring(r, g, 0, FALSE)
    <3>1. PICK g \in {"failure", "unchanged"} : Bring(r, g, 0, FALSE)
      BY <2>2
    <3>2. g # "content" /\ 0 <= upstream /\ 0 \in Nat
      BY <1>1
    <3>3. QED
      BY <1>2, <3>1, <3>2, BringKnows
  <2>3. CASE Bring(r, "malformed", upstream, FALSE)
    <3>1. "malformed" # "content" /\ upstream <= upstream
      BY <1>1
    <3>2. QED
      BY <1>1, <1>2, <2>3, <3>1, BringKnows
  <2>4. CASE \E ok \in {FALSE, runs[r].auto} : Bring(r, "content", upstream, ok)
    BY <1>1, <1>2, <2>4, BringKnows
  <2>5. QED
    BY <2>1, <2>2, <2>3, <2>4
<1>4. CASE Compose(r)
  <2>1. PICK c \in Contents : Bring(r, "content", c, FALSE)
    BY <1>4 DEF Compose
  <2>2. ~remote
    BY <1>4 DEF Compose, RunsKnow
  <2>3. c \in Nat
    BY DEF Contents
  <2>4. QED
    BY <1>2, <2>1, <2>2, <2>3, BringKnows
<1>5. QED
  BY <1>3, <1>4

\* A malformed content becomes a revision no decision is about.
LEMMA SaveInvalidKnows ==
  ASSUME IInv, RunsKnow, NEW r \in Runs, SaveInvalid(r)
  PROVE  RunsKnow'
<1>1. PICK q \in Revs : NewRevision(q, "invalid", runs[r].content)
  BY DEF SaveInvalid
<1>2. UNCHANGED <<remote, policy, upstream>> /\ Bring(r, "failure", 0, FALSE)
  BY DEF SaveInvalid, row
<1>3. revs'[q].content = runs[r].content /\ revs'[q].status \notin Decided
  BY <1>1 DEF NewRevision, IInv, RevsType, Decided
<1>4. \A p \in Revs : p # q => revs'[p] = revs[p]
  BY <1>1 DEF NewRevision, IInv, RevsType
<1>5. /\ runs'[r].got = "failure" /\ runs'[r].content = 0
      /\ runs'[r].kind = runs[r].kind /\ runs'[r].fresh = runs[r].fresh
  BY <1>2 DEF Bring, IInv, RunsType, Run
<1>6. \A s \in Runs : s # r => runs'[s] = runs[s]
  BY <1>2 DEF Bring, IInv, RunsType
<1>7. upstream \in Nat
  BY SourceAssumption DEF IInv, RowType, Contents
<1>8. \A s \in Runs : /\ runs'[s].kind = "content" => ~remote
                      /\ runs'[s].kind = "sync" => remote
                      /\ runs'[s].kind = "sync" /\ runs'[s].fresh => policy # "pinned"
  BY <1>5, <1>6 DEF RunsKnow
<1>9. ASSUME remote
      PROVE  /\ \A s \in Runs : runs'[s].content <= upstream
             /\ \A p \in Revs : revs'[p].content <= upstream
             /\ \A s \in Runs : runs'[s].fresh /\ runs'[s].got = "content" =>
                  \A p \in Revs : revs'[p].status \in Decided =>
                    revs'[p].content <= runs'[s].content
  <2>1. \A s \in Runs : runs'[s].content <= upstream
    BY <1>5, <1>6, <1>7, <1>9 DEF RunsKnow
  <2>2. \A p \in Revs : revs'[p].content <= upstream
    BY <1>3, <1>4, <1>9 DEF RunsKnow
  <2>3. ASSUME NEW s \in Runs, runs'[s].fresh /\ runs'[s].got = "content",
               NEW p \in Revs, revs'[p].status \in Decided
        PROVE  revs'[p].content <= runs'[s].content
    <3>1. s # r /\ p # q
      BY <1>3, <1>5, <2>3
    <3>2. runs'[s] = runs[s] /\ revs'[p] = revs[p]
      BY <1>4, <1>6, <3>1
    <3>3. QED
      BY <1>9, <2>3, <3>2 DEF RunsKnow
  <2>4. QED
    BY <2>1, <2>2, <2>3
<1>10. QED
  BY <1>2, <1>8, <1>9 DEF RunsKnow

\* A commit outdates the others, and what it brings is the URL's.
LEMMA CommitKnows ==
  ASSUME IInv, RunsKnow, NEW r \in Runs,
         SyncCommit(r) \/ ContentCommit(r) \/ ProbeCommit(r)
  PROVE  RunsKnow'
<1>1. EndBumping(r) /\ UNCHANGED <<remote, upstream>>
  BY DEF SyncCommit, ContentCommit, ProbeCommit
<1>2. upstream \in Nat
  BY SourceAssumption DEF IInv, RowType, Contents
<1>3. \/ UNCHANGED revs
      \/ \E q \in Revs, s \in {"approved", "staged"} : NewRevision(q, s, runs[r].content)
  BY DEF SyncCommit, ContentCommit, ProbeCommit
<1>4. remote => \A p \in Revs : revs'[p].content <= upstream
  <2>1. CASE UNCHANGED revs
    BY <2>1 DEF RunsKnow
  <2>2. CASE \E q \in Revs, s \in {"approved", "staged"} : NewRevision(q, s, runs[r].content)
    <3>1. PICK q \in Revs, s \in {"approved", "staged"} : NewRevision(q, s, runs[r].content)
      BY <2>2
    <3>2. \A p \in Revs : revs'[p].content = IF p = q THEN runs[r].content ELSE revs[p].content
      BY <3>1 DEF NewRevision, IInv, RevsType
    <3>3. QED
      BY <3>2 DEF RunsKnow
  <2>3. QED
    BY <1>3, <2>1, <2>2
<1>5. RunsType
  BY DEF IInv
<1>6. QED
  BY <1>1, <1>2, <1>4, <1>5, BumpedRuns, OutdatedKnow

LEMMA AbandonKnows ==
  ASSUME IInv, RunsKnow, NEW r \in Runs, Abandon(r)
  PROVE  RunsKnow'
<1>1. UNCHANGED <<remote, policy, upstream, revs>>
  BY DEF Abandon, row
<1>2. \A s \in Runs : runs'[s] = IF s = r THEN Idle ELSE runs[s]
  BY DEF Abandon, End, IInv, RunsType
<1>3. upstream \in Nat
  BY SourceAssumption DEF IInv, RowType, Contents
<1>4. QED
  BY <1>1, <1>2, <1>3 DEF RunsKnow, Idle

\* Every step keeps what the runs know.
LEMMA NextRunsKnow ==
  ASSUME IInv, RunsKnow, [SourceNext]_sourceVars
  PROVE  RunsKnow'
<1>1. CASE BackgroundStep
  BY <1>1, StartKnows, WorkKnows, SaveInvalidKnows, CommitKnows, AbandonKnows
  DEF BackgroundStep, RunStep
<1>2. CASE Publish
  <2>1. upstream \in Nat /\ upstream' = upstream + 1
    BY <1>2, SourceAssumption DEF Publish, IInv, RowType, Contents
  <2>2. UNCHANGED <<remote, policy, revs, runs>>
    BY <1>2 DEF Publish, row
  <2>3. \A r \in Runs : runs[r].content \in Nat
    BY SourceAssumption DEF IInv, RunsType, Run
  <2>4. \A q \in Revs : revs[q].content \in Nat
    BY SourceAssumption DEF IInv, RevsType
  <2>5. QED
    BY <2>1, <2>2, <2>3, <2>4 DEF RunsKnow
<1>3. CASE UNCHANGED sourceVars
  BY <1>3 DEF sourceVars, row, RunsKnow
<1>4. QED
  BY <1>1, <1>2, <1>3, OperatorKnows DEF SourceNext

LEMMA RunsAlwaysKnow == SourceSpec => [](IInv /\ RunsKnow)
<1>1. SourceInit => IInv /\ RunsKnow
  BY InitIInv, InitRunsKnow
<1>2. IInv /\ RunsKnow /\ [SourceNext]_sourceVars => (IInv /\ RunsKnow)'
  BY NextIInv, NextRunsKnow
<1>3. QED
  BY <1>1, <1>2, PTL DEF SourceSpec

-----------------------------------------------------------------------------
(* The action properties. *)

\* No background run enables or disables a source or lifts its protection: what is
\* quarantined or disabled stays so however many probes and syncs began before.
THEOREM ProtectionIsKept == SourceSpec => BackgroundKeepsProtection
<1>1. ASSUME IInv, BackgroundStep, Protected(health)
      PROVE  health' = health
  <2>1. PICK r \in Runs : RunStep(r)
    BY <1>1 DEF BackgroundStep
  <2>2. CASE ProbeCommit(r)
    BY <1>1, <2>2 DEF ProbeCommit, HealthAfter
  <2>3. CASE BeginSync(r) \/ BeginProbe(r) \/ BeginContent(r)
    BY <2>3 DEF BeginSync, BeginProbe, BeginContent, StartRun, row
  <2>4. CASE Fetch(r) \/ Compose(r) \/ SaveInvalid(r) \/ Abandon(r)
    BY <2>4 DEF Fetch, Compose, SaveInvalid, Abandon, row
  <2>5. CASE SyncCommit(r) \/ ContentCommit(r)
    BY <2>5 DEF SyncCommit, ContentCommit
  <2>6. QED
    BY <2>1, <2>2, <2>3, <2>4, <2>5 DEF RunStep
<1>2. ASSUME BackgroundStep
      PROVE  enabled' = enabled
  BY <1>2 DEF BackgroundStep, RunStep, BeginSync, BeginProbe, BeginContent, StartRun, Fetch,
              Compose, SaveInvalid, Abandon, SyncCommit, ContentCommit, ProbeCommit, row
<1>3. IInv /\ [SourceNext]_sourceVars =>
        [enabled' # enabled \/ (Protected(health) /\ health' # health)
         => ~BackgroundStep]_sourceVars
  BY <1>1, <1>2
<1>4. QED
  BY <1>3, Invariance, PTL DEF SourceSpec, BackgroundKeepsProtection

\* What a background step that moves a pointer is.
LEMMA PointersMove ==
  ASSUME BackgroundStep, active' # active \/ staged' # staged
  PROVE  \E r \in Runs : SyncCommit(r) \/ ContentCommit(r)
  BY DEF BackgroundStep, RunStep, BeginSync, BeginProbe, BeginContent, StartRun, Fetch,
         Compose, SaveInvalid, ProbeCommit, Abandon, row

\* From a rollback on, what is served and what waits for review changes by an
\* operator only, whatever syncs were under way.
THEOREM PinnedIsKept == SourceSpec => PinnedStaysPut
<1>1. ASSUME RunsKnow, remote, policy = "pinned", active' # active \/ staged' # staged
      PROVE  ~BackgroundStep
  <2> SUFFICES ASSUME BackgroundStep
               PROVE  FALSE
    OBVIOUS
  <2>1. PICK r \in Runs : SyncCommit(r) \/ ContentCommit(r)
    BY <1>1, PointersMove
  <2>2. runs[r].kind \in {"sync", "content"} /\ runs[r].fresh
    BY <2>1 DEF SyncCommit, ContentCommit, Unchanged
  <2>3. QED
    BY <1>1, <2>2 DEF RunsKnow
<1>2. IInv /\ RunsKnow /\ [SourceNext]_sourceVars =>
        [/\ remote /\ policy = "pinned"
         /\ active' # active \/ staged' # staged
         => ~BackgroundStep]_sourceVars
  BY <1>1
<1>3. QED
  BY <1>2, RunsAlwaysKnow, PTL DEF SourceSpec, PinnedStaysPut

\* Without an operator only content that earned it becomes active, and it is other
\* content than was active.
THEOREM ApprovalIsEarned == SourceSpec => AutoApprovalEarned
<1>1. ASSUME IInv, active' # active, BackgroundStep
      PROVE  /\ policy = "auto" /\ active # NoRev /\ health # "quarantined"
             /\ revs'[active'].content # revs[active].content
  <2>1. PICK r \in Runs : SyncCommit(r) \/ ContentCommit(r)
    BY <1>1, PointersMove
  <2>2. SyncCommit(r)
    BY <1>1, <2>1 DEF ContentCommit
  <2>3. PICK q \in Revs, requiresReview \in BOOLEAN :
          /\ Earned(r, requiresReview)
          /\ NewRevision(q, "approved", runs[r].content)
          /\ active' = q
    BY <1>1, <2>2 DEF SyncCommit
  <2>4. ~Known(runs[r].content)
    BY <1>1, <2>2 DEF SyncCommit
  <2>5. revs'[q].content = runs[r].content
    BY <1>1, <2>3 DEF NewRevision, IInv, RevsType
  <2>6. active # NoRev
    BY <2>3 DEF Earned
  <2>7. QED
    BY <2>3, <2>4, <2>5, <2>6 DEF Earned, Known, ContentOf
<1>2. IInv /\ [SourceNext]_sourceVars =>
        [active' # active /\ BackgroundStep =>
           /\ policy = "auto" /\ active # NoRev /\ health # "quarantined"
           /\ revs'[active'].content # revs[active].content]_sourceVars
  BY <1>1
<1>3. QED
  BY <1>2, Invariance, PTL DEF SourceSpec, AutoApprovalEarned

\* Of a source with a URL, a revision that a step adds for review or approves at
\* once is what a sync brought whose row is as it read it.
LEMMA NewIsBrought ==
  ASSUME IInv, RunsKnow, SourceNext, remote, NEW q \in Revs,
         revs[q].status = "none", revs'[q].status \in {"staged", "approved"}
  PROVE  \E r \in Runs : /\ SyncCommit(r) /\ runs[r].fresh /\ runs[r].got = "content"
                        /\ ~Known(runs[r].content)
                        /\ revs'[q].content = runs[r].content
<1>1. ~OperatorStep
  <2> SUFFICES ASSUME OperatorStep
               PROVE  FALSE
    OBVIOUS
  <2>1. ASSUME NEW p \in Revs, NEW s \in RevStatuses, revs[p].status # "none", SetStatus(p, s)
        PROVE  FALSE
    <3>1. p # q
      BY <2>1
    <3>2. revs'[q] = revs[q]
      BY <2>1, <3>1 DEF SetStatus, IInv, RevsType
    <3>3. QED
      BY <3>2
  <2>2. revs' # revs
    OBVIOUS
  <2>3. CASE \E p \in Revs : Approve(p) \/ ApproveEnable(p)
    BY <2>1, <2>3 DEF Approve, ApproveEnable, ApproveAndEnable, RevStatuses
  <2>4. CASE Reject
    <3>1. staged \in Revs /\ revs[staged].status = "staged" /\ SetStatus(staged, "rejected")
      BY <2>4 DEF Reject, IInv, RowType, Pointers, StagedIsUndecided
    <3>2. QED
      BY <2>1, <3>1 DEF RevStatuses
  <2>5. CASE Delete
    BY <2>5 DEF Delete, NoRevision
  <2>6. CASE FinishImport
    <3>1. importing \in Revs /\ ApproveAndEnable(importing)
      BY <2>2, <2>6 DEF FinishImport, IInv, RowType
    <3>2. QED
      BY <2>1, <3>1 DEF ApproveAndEnable, RevStatuses
  <2>7. QED
    BY <2>2, <2>3, <2>4, <2>5, <2>6
    DEF OperatorStep, Rollback, Enable, Disable, Quarantine, Release, Configure, SoftDelete,
        UndoDelete
<1>2. BackgroundStep
  BY <1>1 DEF SourceNext, Publish
<1>3. PICK r \in Runs : RunStep(r)
  BY <1>2 DEF BackgroundStep
<1>4. ~SaveInvalid(r)
  <2> SUFFICES ASSUME SaveInvalid(r)
               PROVE  FALSE
    OBVIOUS
  <2>1. PICK p \in Revs : NewRevision(p, "invalid", runs[r].content)
    BY DEF SaveInvalid
  <2>2. revs'[q] = IF p = q THEN [status |-> "invalid", content |-> runs[r].content] ELSE revs[q]
    BY <2>1 DEF NewRevision, IInv, RevsType
  <2>3. QED
    BY <2>2
<1>5. ~ContentCommit(r)
  BY DEF ContentCommit, RunsKnow
<1>6. SyncCommit(r)
  BY <1>3, <1>4, <1>5
  DEF RunStep, BeginSync, BeginProbe, BeginContent, StartRun, Fetch, Compose, ProbeCommit, Abandon
<1>7. runs[r].fresh /\ runs[r].got = "content" /\ ~Known(runs[r].content)
  BY <1>6 DEF SyncCommit, Unchanged
<1>8. PICK p \in Revs, s \in {"approved", "staged"} : NewRevision(p, s, runs[r].content)
  BY <1>6, <1>7 DEF SyncCommit
<1>9. revs'[q] = IF p = q THEN [status |-> s, content |-> runs[r].content] ELSE revs[q]
  BY <1>8 DEF NewRevision, IInv, RevsType
<1>10. QED
  BY <1>6, <1>7, <1>9

\* A sync never brings back content older than what was brought before.
THEOREM ContentNeverAges == SourceSpec => NeverOlderContent
<1>1. ASSUME IInv, RunsKnow, SourceNext, NEW q \in Revs,
             remote, revs[q].status = "none", revs'[q].status \in {"staged", "approved"},
             NEW p \in Revs, revs[p].status \in {"staged", "approved", "rejected"}
      PROVE  revs[p].content <= revs'[q].content
  <2>1. PICK r \in Runs : /\ runs[r].fresh /\ runs[r].got = "content"
                         /\ revs'[q].content = runs[r].content
    BY <1>1, NewIsBrought
  <2>2. QED
    BY <1>1, <2>1 DEF RunsKnow, Decided
<1>2. IInv /\ RunsKnow /\ [SourceNext]_sourceVars =>
        [\A q \in Revs :
           /\ remote /\ revs[q].status = "none"
           /\ revs'[q].status \in {"staged", "approved"}
           => \A p \in Revs : revs[p].status \in {"staged", "approved", "rejected"} =>
                revs[p].content <= revs'[q].content]_sourceVars
  BY <1>1
<1>3. QED
  BY <1>2, RunsAlwaysKnow, PTL DEF SourceSpec, NeverOlderContent

\* A sync never brings back content that an operator rejected.
THEOREM RejectedIsKeptOut == SourceSpec => RejectedStaysOut
<1>1. ASSUME IInv, RunsKnow, SourceNext, NEW p \in Revs, NEW q \in Revs,
             remote, revs[p].status = "rejected", revs[q].status = "none",
             revs'[q].status \in {"staged", "approved"}
      PROVE  revs'[q].content # revs[p].content
  <2>1. PICK r \in Runs : ~Known(runs[r].content) /\ revs'[q].content = runs[r].content
    BY <1>1, NewIsBrought
  <2>2. QED
    BY <1>1, <2>1 DEF Known
<1>2. IInv /\ RunsKnow /\ [SourceNext]_sourceVars =>
        [\A p, q \in Revs :
           /\ remote
           /\ revs[p].status = "rejected" /\ revs[q].status = "none"
           /\ revs'[q].status \in {"staged", "approved"}
           => revs'[q].content # revs[p].content]_sourceVars
  BY <1>1
<1>3. QED
  BY <1>2, RunsAlwaysKnow, PTL DEF SourceSpec, RejectedStaysOut

-----------------------------------------------------------------------------
(* SourceLifecycle implements SourceReview. *)

Filed == ContentsOf({"staged", "approved", "rejected"})
Approved == ContentsOf({"approved"})
Rejected == ContentsOf({"rejected"})

\* What it is for a content to have a revision with one of these statuses.
LEMMA HasContent ==
  ASSUME NEW S, NEW c
  PROVE  /\ c \in ContentsOf(S) <=> \E p \in Revs : revs[p].status \in S /\ revs[p].content = c
         /\ c \in ContentsOf(S)' <=> \E p \in Revs : revs'[p].status \in S /\ revs'[p].content = c
  BY DEF ContentsOf

\* An approval approves the content of the revision it names, and takes back the
\* rejection of that revision only.
LEMMA ApproveContents ==
  ASSUME IInv, NEW q \in Revs, SetStatus(q, "approved"), revs[q].status \in Decided
  PROVE  /\ Filed' = Filed
         /\ Approved' = Approved \cup {revs[q].content}
         /\ Rejected' \in {Rejected, Rejected \ {revs[q].content}}
         /\ revs[q].status = "staged" => Rejected' = Rejected
<1>1. /\ \A p \in Revs : p # q => revs'[p] = revs[p]
      /\ revs'[q].status = "approved" /\ revs'[q].content = revs[q].content
  BY Deciding, DecisionKeepsContent DEF IInv, RevStatuses, Decided
<1>2. \A c : c \in Filed' <=> c \in Filed
  BY <1>1, HasContent DEF Filed, Decided
<1>3. \A c : c \in Approved' <=> c \in Approved \/ c = revs[q].content
  BY <1>1, HasContent DEF Approved, Decided
<1>4. \A c : c # revs[q].content => (c \in Rejected' <=> c \in Rejected)
  BY <1>1, HasContent DEF Rejected
<1>5. \A c : c \in Rejected' => c \in Rejected
  BY <1>1, HasContent DEF Rejected
<1>6. ASSUME revs[q].status = "staged", NEW c
      PROVE  c \in Rejected' <=> c \in Rejected
  BY <1>1, <1>6, HasContent DEF Rejected
<1>7. Filed' = Filed
  BY <1>2
<1>8. Approved' = Approved \cup {revs[q].content}
  BY <1>3
<1>9. Rejected' \in {Rejected, Rejected \ {revs[q].content}}
  BY <1>4, <1>5
<1>10. revs[q].status = "staged" => Rejected' = Rejected
  BY <1>6
<1>11. QED
  BY <1>7, <1>8, <1>9, <1>10

\* A rejection adds to the rejected contents and to nothing else.
LEMMA RejectContents ==
  ASSUME IInv, NEW q \in Revs, SetStatus(q, "rejected"), revs[q].status = "staged"
  PROVE  /\ Filed' = Filed /\ Approved' = Approved
         /\ Rejected' = Rejected \cup {revs[q].content}
<1>1. /\ \A p \in Revs : p # q => revs'[p] = revs[p]
      /\ revs'[q].status = "rejected" /\ revs'[q].content = revs[q].content
  BY Deciding, DecisionKeepsContent DEF IInv, RevStatuses
<1>2. \A c : c \in Filed' <=> c \in Filed
  BY <1>1, HasContent DEF Filed
<1>3. \A c : c \in Approved' <=> c \in Approved
  BY <1>1, HasContent DEF Approved
<1>4. \A c : c \in Rejected' <=> c \in Rejected \/ c = revs[q].content
  BY <1>1, HasContent DEF Rejected
<1>5. QED
  BY <1>2, <1>3, <1>4

\* A new revision files its content, and approves it if it is approved at once.
LEMMA InsertContents ==
  ASSUME IInv, NEW q \in Revs, NEW s \in {"staged", "approved", "invalid"},
         NEW c \in 1..MaxContent, NewRevision(q, s, c)
  PROVE  /\ Filed' = IF s = "invalid" THEN Filed ELSE Filed \cup {c}
         /\ Approved' = IF s = "approved" THEN Approved \cup {c} ELSE Approved
         /\ Rejected' = Rejected
<1>1. /\ \A p \in Revs : p # q => revs'[p] = revs[p]
      /\ revs[q].status = "none"
      /\ revs'[q].status = s /\ revs'[q].content = c
  BY Inserting DEF IInv, RevStatuses, NewRevision, RevsType
<1>2. \A d : d \in Filed' <=> d \in Filed \/ (s # "invalid" /\ d = c)
  BY <1>1, HasContent DEF Filed
<1>3. \A d : d \in Approved' <=> d \in Approved \/ (s = "approved" /\ d = c)
  BY <1>1, HasContent DEF Approved
<1>4. \A d : d \in Rejected' <=> d \in Rejected
  BY <1>1, HasContent DEF Rejected
<1>5. Filed' = IF s = "invalid" THEN Filed ELSE Filed \cup {c}
  BY <1>2
<1>6. Approved' = IF s = "approved" THEN Approved \cup {c} ELSE Approved
  BY <1>3
<1>7. QED
  BY <1>4, <1>5, <1>6

\* Where the pointers refer to after a step.
LEMMA Refer ==
  /\ active = NoRev => Refers(active) = {}
  /\ staged = NoRev => Refers(staged) = {}
  /\ active' = NoRev => Refers(active)' = {}
  /\ staged' = NoRev => Refers(staged)' = {}
  /\ active # NoRev => Refers(active) = {revs[active].content}
  /\ staged # NoRev => Refers(staged) = {revs[staged].content}
  /\ active' # NoRev => Refers(active)' = {revs'[active'].content}
  /\ staged' # NoRev => Refers(staged)' = {revs'[staged'].content}
  BY DEF Refers

\* A pointer that stays, to a revision whose content stays, refers to the same.
LEMMA KeepsReference ==
  ASSUME IInv, \A p \in Revs : revs[p].status # "none" => revs'[p].content = revs[p].content
  PROVE  /\ active' = active => Refers(active)' = Refers(active)
         /\ staged' = staged => Refers(staged)' = Refers(staged)
  BY Refer DEF IInv, RowType, Pointers, ActiveIsApproved, StagedIsUndecided

\* A revision someone decides or decided on has a content.
LEMMA DecidedContent ==
  ASSUME IInv, NEW q \in Revs, revs[q].status \in Decided
  PROVE  revs[q].content \in Contents /\ revs[q].content \in Filed
<1>1. revs[q].content \in 0..MaxContent /\ revs[q].content # 0
  BY DEF IInv, RevsType, Decided
<1>2. QED
  BY <1>1, HasContent, SourceAssumption DEF Contents, Filed, Decided

LEMMA ApproveStep ==
  ASSUME IInv, NEW q \in Revs, Approve(q)
  PROVE  Review!Next
<1> DEFINE c == revs[q].content
<1>1. revs[q].status \in Decided /\ SetStatus(q, "approved")
  BY DEF Approve, IInv, RevsType, RevStatuses, Decided
<1>2. c \in Contents /\ c \in Filed
  BY <1>1, DecidedContent
<1>3. /\ Filed' = Filed /\ Approved' = Approved \cup {c}
      /\ Rejected' \in {Rejected, Rejected \ {c}}
  BY <1>1, ApproveContents
<1>4. \A p \in Revs : revs'[p].content = revs[p].content
  BY <1>1, DecisionKeepsContent DEF IInv
<1>5. Refers(active)' = {c}
  BY <1>4, Refer, SourceAssumption DEF Approve
<1>6. Refers(staged)' \in {Refers(staged), Refers(staged) \ {c}}
  <2>1. CASE q = staged
    BY <2>1, Refer, SourceAssumption DEF Approve
  <2>2. CASE q # staged
    BY <1>4, <2>2, KeepsReference DEF Approve
  <2>3. QED
    BY <2>1, <2>2
<1>7. /\ exists /\ UNCHANGED <<exists, remote, enabled, policy, upstream>>
      /\ (health = "quarantined")' = (health = "quarantined")
  BY DEF Approve, Operator, Reset, Protected
<1> HIDE DEF c
<1>8. Review!Approve(c)
  BY <1>2, <1>3, <1>5, <1>6, <1>7
  DEF Review!Approve, Review!Approval, Review!flags, Filed, Approved, Rejected
<1>9. QED
  BY <1>2, <1>7, <1>8 DEF Review!Next

LEMMA ApproveEnableStep ==
  ASSUME IInv, NEW q \in Revs, exists, ApproveAndEnable(q), UNCHANGED <<exists, remote, upstream>>
  PROVE  Review!Next
<1> DEFINE c == revs[q].content
<1>1. revs[q].status = "staged" /\ revs[q].status \in Decided /\ SetStatus(q, "approved")
  BY DEF ApproveAndEnable, Decided
<1>2. c \in Contents /\ c \in Filed
  BY <1>1, DecidedContent
<1>3. Filed' = Filed /\ Approved' = Approved \cup {c} /\ Rejected' = Rejected
  BY <1>1, ApproveContents
<1>4. \A p \in Revs : revs'[p].content = revs[p].content
  BY <1>1, DecisionKeepsContent DEF IInv
<1>5. Refers(active)' = {c} /\ Refers(staged) = {c} /\ Refers(staged)' = {}
  BY <1>4, Refer, SourceAssumption DEF ApproveAndEnable
<1>6. /\ UNCHANGED policy /\ enabled' = TRUE
      /\ (health = "quarantined")' = (health = "quarantined")
  BY DEF ApproveAndEnable
<1> HIDE DEF c
<1>7. Review!ApproveEnable(c)
  BY <1>2, <1>3, <1>5, <1>6
  DEF Review!ApproveEnable, Review!Approval, Filed, Approved, Rejected
<1>8. QED
  BY <1>2, <1>7 DEF Review!Next

LEMMA RollbackStep ==
  ASSUME IInv, NEW q \in Revs, Rollback(q)
  PROVE  Review!Next
<1> DEFINE c == revs[q].content
<1>1. revs[q].status = "approved" /\ UNCHANGED revs /\ active' = q /\ policy' = "pinned"
  BY DEF Rollback
<1>2. c \in Contents /\ c \in Approved
  BY <1>1, DecidedContent, HasContent DEF Decided, Approved
<1>3. Filed' = Filed /\ Approved' = Approved /\ Rejected' = Rejected
  BY <1>1 DEF Filed, Approved, Rejected, ContentsOf
<1>4. Refers(active)' = {c}
  BY <1>1, Refer, SourceAssumption
<1>5. staged' = staged
  BY <1>1, SourceAssumption DEF Rollback, IInv, Pointers, StagedIsUndecided
<1>6. Refers(staged)' = Refers(staged)
  BY <1>1, <1>5 DEF Refers
<1>7. /\ exists /\ UNCHANGED <<exists, remote, enabled, upstream>>
      /\ (health = "quarantined")' = (health = "quarantined")
  BY DEF Rollback, Operator, Reset, Protected
<1> HIDE DEF c
<1>8. Review!Rollback(c)
  BY <1>1, <1>2, <1>3, <1>4, <1>6, <1>7
  DEF Review!Rollback, Review!decisions, Filed, Approved, Rejected
<1>9. QED
  BY <1>2, <1>7, <1>8 DEF Review!Next

LEMMA RejectStep ==
  ASSUME IInv, Reject
  PROVE  Review!Next
<1> DEFINE c == revs[staged].content
<1>1. staged \in Revs /\ revs[staged].status = "staged" /\ SetStatus(staged, "rejected")
  BY DEF Reject, IInv, RowType, Pointers, StagedIsUndecided
<1>2. Filed' = Filed /\ Approved' = Approved /\ Rejected' = Rejected \cup {c}
  BY <1>1, RejectContents
<1>3. Refers(staged) = {c} /\ Refers(staged)' = {}
  BY <1>1, Refer, SourceAssumption DEF Reject
<1>4. Refers(active)' = Refers(active)
  BY <1>1, DecisionKeepsContent, KeepsReference DEF Reject, IInv
<1>5. /\ exists /\ UNCHANGED <<exists, remote, enabled, policy, upstream>>
      /\ (health = "quarantined")' = (health = "quarantined")
  BY DEF Reject, Operator
<1> HIDE DEF c
<1>6. Review!Reject
  BY <1>2, <1>3, <1>4, <1>5 DEF Review!Reject, Review!flags, Filed, Approved, Rejected
<1>7. QED
  BY <1>5, <1>6 DEF Review!Next

\* Nothing that the review is about changes.
LEMMA SameContents ==
  ASSUME UNCHANGED <<active, staged, revs>>
  PROVE  /\ Refers(active)' = Refers(active) /\ Refers(staged)' = Refers(staged)
         /\ Filed' = Filed /\ Approved' = Approved /\ Rejected' = Rejected
  BY DEF Refers, Filed, Approved, Rejected, ContentsOf

\* Enable, disable, quarantine, release and edit change what surrounds the review.
LEMMA RowStep ==
  ASSUME IInv,
         \/ Enable \/ Disable \/ Quarantine \/ Release \/ SoftDelete \/ UndoDelete
         \/ \E p \in Policies : Configure(p)
  PROVE  Review!Next
<1>1. /\ Refers(active)' = Refers(active) /\ Refers(staged)' = Refers(staged)
      /\ Filed' = Filed /\ Approved' = Approved /\ Rejected' = Rejected
  BY SameContents
  DEF Enable, Disable, Quarantine, Release, SoftDelete, UndoDelete, Configure
<1>2. exists /\ UNCHANGED <<exists, remote, upstream>>
  BY DEF Enable, Disable, Quarantine, Release, SoftDelete, UndoDelete, Configure, Operator
<1>3. CASE Enable \/ Disable \/ Quarantine \/ Release \/ SoftDelete \/ UndoDelete
  <2>1. enabled' /\ ~enabled => Refers(active) # {}
    BY <1>3, Refer DEF Enable, Disable, Quarantine, Release, SoftDelete, UndoDelete
  <2>2. UNCHANGED policy
    BY <1>3 DEF Enable, Disable, Quarantine, Release, SoftDelete, UndoDelete
  <2>3. Review!Oversee
    BY <1>1, <1>2, <2>1, <2>2
    DEF Review!Oversee, Review!decisions, Filed, Approved, Rejected
  <2>4. QED
    BY <1>2, <2>3 DEF Review!Next
<1>4. CASE \E p \in Policies : Configure(p)
  <2>1. UNCHANGED enabled /\ (health = "quarantined")' = (health = "quarantined")
    BY <1>4 DEF Configure, Reset, Protected
  <2>2. Review!Configure
    BY <1>1, <1>2, <2>1 DEF Review!Configure, Review!decisions, Filed, Approved, Rejected
  <2>3. QED
    BY <1>2, <2>2 DEF Review!Next
<1>5. QED
  BY <1>3, <1>4

LEMMA DeleteStep ==
  ASSUME IInv, Delete
  PROVE  Review!Next
<1>1. Refers(active)' = {} /\ Refers(staged)' = {}
  BY Refer DEF Delete
<1>2. ASSUME NEW S, "none" \notin S
      PROVE  ContentsOf(S)' = {}
  <2>1. \A p \in Revs : revs'[p].status = "none"
    BY DEF Delete, NoRevision
  <2>2. \A c : c \notin ContentsOf(S)'
    BY <1>2, <2>1, HasContent
  <2>3. QED
    BY <2>2
<1>3. /\ ContentsOf({"staged", "approved", "rejected"})' = {}
      /\ ContentsOf({"approved"})' = {}
      /\ ContentsOf({"rejected"})' = {}
  BY <1>2
<1>4. Review!Delete
  BY <1>1, <1>3 DEF Delete, Review!Delete
<1>5. QED
  BY <1>4 DEF Delete, Review!Next

\* A revision filed and a pointer moved to it, or to nothing.
LEMMA FilesContent ==
  ASSUME IInv, NEW q \in Revs, NEW s \in {"staged", "approved"},
         NEW c \in 1..MaxContent, NewRevision(q, s, c)
  PROVE  /\ active' = q => Refers(active)' = {c}
         /\ staged' = q => Refers(staged)' = {c}
         /\ active' = active => Refers(active)' = Refers(active)
         /\ staged' = staged => Refers(staged)' = Refers(staged)
         /\ Filed' = Filed \cup {c}
         /\ Approved' = IF s = "approved" THEN Approved \cup {c} ELSE Approved
         /\ Rejected' = Rejected
<1>1. /\ \A p \in Revs : p # q => revs'[p] = revs[p]
      /\ revs[q].status = "none" /\ revs'[q].content = c
  BY Inserting DEF IInv, RevStatuses, NewRevision, RevsType
<1>2. \A p \in Revs : revs[p].status # "none" => revs'[p].content = revs[p].content
  BY <1>1
<1>3. q # NoRev
  BY SourceAssumption
<1>4. /\ active' = q => Refers(active)' = {c}
      /\ staged' = q => Refers(staged)' = {c}
  BY <1>1, <1>3, Refer
<1>5. QED
  BY <1>2, <1>4, KeepsReference, InsertContents

\* What a sync brings may arrive: the sync read the row as it is, so nothing was
\* pinned, rejected or filed behind its back.
LEMMA BroughtMayArrive ==
  ASSUME IInv, RunsKnow, NEW r \in Runs, runs[r].kind = "sync", runs[r].got = "content",
         runs[r].fresh, ~Known(runs[r].content)
  PROVE  Review!MayArrive(runs[r].content)
<1> DEFINE c == runs[r].content
<1>1. remote /\ policy # "pinned" /\ c <= upstream
  BY DEF RunsKnow
<1>2. c \notin Refers(active) /\ c \notin Refers(staged)
  BY Refer DEF Known, ContentOf
<1>3. c \notin Rejected
  BY HasContent DEF Known, Rejected
<1>4. \A d \in Filed : d <= c
  BY <1>1, HasContent DEF RunsKnow, Filed, Decided
<1> HIDE DEF c
<1>5. Review!MayArrive(c)
  BY <1>1, <1>2, <1>3, <1>4 DEF Review!MayArrive, Filed, Rejected
<1>6. QED
  BY <1>5 DEF c

\* A sync's commit files what it brought, for review or served at once.
LEMMA SyncStep ==
  ASSUME IInv, RunsKnow, NEW r \in Runs, SyncCommit(r)
  PROVE  Review!Next \/ UNCHANGED Review!review
<1> DEFINE c == runs[r].content
<1>1. /\ exists /\ UNCHANGED <<exists, remote, enabled, policy, upstream>>
      /\ (health = "quarantined")' = (health = "quarantined")
  BY DEF SyncCommit, Unchanged
<1>2. CASE UNCHANGED <<active, staged, revs>>
  <2>1. /\ Refers(active)' = Refers(active) /\ Refers(staged)' = Refers(staged)
        /\ Filed' = Filed /\ Approved' = Approved /\ Rejected' = Rejected
    BY <1>2, SameContents
  <2>2. QED
    BY <1>1, <2>1
    DEF Review!review, Review!flags, Review!decisions, Filed, Approved, Rejected
<1>3. CASE ~UNCHANGED <<active, staged, revs>>
  <2>1. runs[r].got = "content" /\ runs[r].kind = "sync" /\ runs[r].fresh /\ ~Known(c)
    BY <1>3 DEF SyncCommit, Unchanged
  <2>2. c \in 1..MaxContent
    BY <2>1, BroughtContent
  <2>3. Review!MayArrive(c)
    BY <2>1, BroughtMayArrive
  <2>4. PICK q \in Revs, requiresReview \in BOOLEAN :
          IF Earned(r, requiresReview)
          THEN /\ NewRevision(q, "approved", c)
               /\ active' = q
               /\ staged' = NoRev
          ELSE /\ NewRevision(q, "staged", c)
               /\ staged' = q
               /\ UNCHANGED active
    BY <1>3 DEF SyncCommit
  <2> HIDE DEF c
  <2>5. CASE Earned(r, requiresReview)
    <3>1. policy = "auto" /\ health # "quarantined" /\ Refers(active) # {}
      BY <2>5, Refer DEF Earned
    <3>2. /\ Refers(active)' = {c} /\ Refers(staged)' = {}
          /\ Filed' = Filed \cup {c} /\ Approved' = Approved \cup {c}
          /\ Rejected' = Rejected
      BY <2>2, <2>4, <2>5, FilesContent, Refer
    <3>3. Review!TakeOver(c)
      BY <1>1, <2>3, <3>1, <3>2 DEF Review!TakeOver, Review!flags, Filed, Approved, Rejected
    <3>4. QED
      BY <1>1, <2>2, <3>3 DEF Review!Next, Contents
  <2>6. CASE ~Earned(r, requiresReview)
    <3>1. /\ Refers(active)' = Refers(active) /\ Refers(staged)' = {c}
          /\ Filed' = Filed \cup {c} /\ Approved' = Approved /\ Rejected' = Rejected
      BY <2>2, <2>4, <2>6, FilesContent
    <3>2. c \notin Refers(active) \cup Refers(staged)
      BY <2>3 DEF Review!MayArrive
    <3>3. Review!Arrive(c)
      BY <1>1, <2>3, <3>1, <3>2
      DEF Review!Arrive, Review!Submit, Review!flags, Filed, Approved, Rejected
    <3>4. QED
      BY <1>1, <2>2, <3>3 DEF Review!Next, Contents
  <2>7. QED
    BY <2>5, <2>6
<1>4. QED
  BY <1>2, <1>3

\* Composed content waits for review.
LEMMA ContentStep ==
  ASSUME IInv, RunsKnow, NEW r \in Runs, ContentCommit(r)
  PROVE  Review!Next
<1> DEFINE c == runs[r].content
<1>1. /\ exists /\ ~remote /\ UNCHANGED <<exists, remote, enabled, policy, upstream>>
      /\ (health = "quarantined")' = (health = "quarantined")
  BY DEF ContentCommit, Unchanged, RunsKnow
<1>2. c \in 1..MaxContent
  BY BroughtContent DEF ContentCommit
<1>3. c \notin Refers(active) \cup Refers(staged)
  BY Refer DEF ContentCommit, ContentOf
<1>4. PICK q \in Revs : NewRevision(q, "staged", c) /\ staged' = q /\ active' = active
  BY DEF ContentCommit
<1> HIDE DEF c
<1>5. /\ Refers(active)' = Refers(active) /\ Refers(staged)' = {c}
      /\ Filed' = Filed \cup {c} /\ Approved' = Approved /\ Rejected' = Rejected
  BY <1>2, <1>4, FilesContent
<1>6. Review!Compose(c)
  BY <1>1, <1>3, <1>5
  DEF Review!Compose, Review!Submit, Review!flags, Filed, Approved, Rejected
<1>7. QED
  BY <1>1, <1>2, <1>6 DEF Review!Next, Contents

\* The rest of what runs do is outside the review: their start, their work, the
\* health they record and the malformed content they keep.
LEMMA QuietStep ==
  ASSUME IInv, NEW r \in Runs,
         \/ BeginSync(r) \/ BeginProbe(r) \/ BeginContent(r) \/ Fetch(r) \/ Compose(r)
         \/ SaveInvalid(r) \/ ProbeCommit(r) \/ Abandon(r)
  PROVE  UNCHANGED Review!review
<1>1. UNCHANGED <<exists, remote, enabled, policy, upstream, active, staged>>
  BY DEF BeginSync, BeginProbe, BeginContent, StartRun, Fetch, Compose, SaveInvalid,
         ProbeCommit, Abandon, row
<1>2. (health = "quarantined")' = (health = "quarantined")
  <2>1. CASE ProbeCommit(r)
    BY <2>1 DEF ProbeCommit, HealthAfter, Protected, Checks
  <2>2. CASE ~ProbeCommit(r)
    BY <2>2
    DEF BeginSync, BeginProbe, BeginContent, StartRun, Fetch, Compose, SaveInvalid, Abandon, row
  <2>3. QED
    BY <2>1, <2>2
<1>3. /\ Refers(active)' = Refers(active) /\ Refers(staged)' = Refers(staged)
      /\ Filed' = Filed /\ Approved' = Approved /\ Rejected' = Rejected
  <2>1. CASE SaveInvalid(r)
    <3>1. runs[r].content \in 1..MaxContent
      BY <2>1, BroughtContent DEF SaveInvalid
    <3>2. PICK q \in Revs : NewRevision(q, "invalid", runs[r].content)
      BY <2>1 DEF SaveInvalid
    <3>3. Filed' = Filed /\ Approved' = Approved /\ Rejected' = Rejected
      BY <3>1, <3>2, InsertContents
    <3>4. \A p \in Revs : p # q => revs'[p] = revs[p]
      BY <3>1, <3>2, Inserting DEF IInv, RevStatuses
    <3>5. revs[q].status = "none"
      BY <3>2 DEF NewRevision
    <3>6. QED
      BY <1>1, <3>3, <3>4, <3>5, KeepsReference
  <2>2. CASE ~SaveInvalid(r)
    <3>1. UNCHANGED revs
      BY <2>2
      DEF BeginSync, BeginProbe, BeginContent, StartRun, Fetch, Compose, ProbeCommit, Abandon
    <3>2. QED
      BY <1>1, <3>1, SameContents
  <2>3. QED
    BY <2>1, <2>2
<1>4. QED
  BY <1>1, <1>2, <1>3
  DEF Review!review, Review!flags, Review!decisions, Filed, Approved, Rejected

\* Every step of the source is a step of its review or none.
LEMMA ReviewStep ==
  ASSUME IInv, RunsKnow, [SourceNext]_sourceVars
  PROVE  Review!Next \/ UNCHANGED Review!review
<1> USE DEF Review!review, Review!flags, Review!decisions
<1>1. ASSUME UNCHANGED <<row, revs, upstream>>
      PROVE  UNCHANGED Review!review
  BY <1>1, SameContents DEF row, Filed, Approved, Rejected
<1>2. CASE OperatorStep
  <2>1. CASE FinishImport
    <3>1. CASE exists /\ ApproveAndEnable(importing) /\ UNCHANGED <<exists, remote, upstream>>
      <4>1. importing \in Revs
        BY <2>1 DEF FinishImport, IInv, RowType
      <4>2. QED
        BY <3>1, <4>1, ApproveEnableStep
    <3>2. CASE UNCHANGED <<row, revs, upstream, runs>>
      BY <1>1, <3>2
    <3>3. QED
      BY <2>1, <3>1, <3>2 DEF FinishImport
  <2>2. ASSUME NEW q \in Revs, ApproveEnable(q)
        PROVE  Review!Next
    BY <2>2, ApproveEnableStep DEF ApproveEnable, Operator
  <2>3. QED
    BY <1>2, <2>1, <2>2, ApproveStep, RollbackStep, RejectStep, RowStep, DeleteStep
    DEF OperatorStep
<1>3. CASE BackgroundStep
  BY <1>3, SyncStep, ContentStep, QuietStep DEF BackgroundStep, RunStep
<1>4. CASE Publish
  <2>1. /\ Refers(active)' = Refers(active) /\ Refers(staged)' = Refers(staged)
        /\ Filed' = Filed /\ Approved' = Approved /\ Rejected' = Rejected
    BY <1>4, SameContents DEF Publish, row
  <2>2. Review!Publish
    BY <1>4, <2>1 DEF Publish, row, Review!Publish, Filed, Approved, Rejected
  <2>3. QED
    BY <2>2 DEF Review!Next
<1>5. CASE UNCHANGED sourceVars
  BY <1>1, <1>5 DEF sourceVars
<1>6. QED
  BY <1>2, <1>3, <1>4, <1>5 DEF SourceNext

\* Import leaves one content to decide on.
LEMMA InitReview == SourceInit => Review!Init
<1> SUFFICES ASSUME SourceInit PROVE Review!Init
  OBVIOUS
<1>1. IInv
  BY InitIInv
<1>2. staged \in Revs /\ active = NoRev
  BY DEF SourceInit
<1>3. /\ revs[staged].status = "staged" /\ revs[staged].content = 1
      /\ \A p \in Revs : p # staged => revs[p].status = "none"
  BY DEF SourceInit, NoRevision
<1>4. Refers(active) = {} /\ Refers(staged) = {1}
  BY <1>2, <1>3, Refer, SourceAssumption
<1>5. ASSUME NEW c
      PROVE  /\ c \in Filed <=> c = 1
             /\ c \notin Approved /\ c \notin Rejected
  BY <1>2, <1>3, HasContent DEF Filed, Approved, Rejected
<1>6. Filed = {1} /\ Approved = {} /\ Rejected = {}
  BY <1>5
<1>7. QED
  BY <1>4, <1>6 DEF SourceInit, Review!Init, Filed, Approved, Rejected

\* However many runs, revisions and operators: the source keeps what its review
\* promises.
THEOREM SourceImplementsReview == SourceSpec => ImplementsReview
<1>1. IInv /\ RunsKnow /\ [SourceNext]_sourceVars => [Review!Next]_(Review!review)
  BY ReviewStep
<1>2. QED
  BY InitReview, <1>1, RunsAlwaysKnow, PTL DEF SourceSpec, ImplementsReview, Review!Spec
================================================================================
