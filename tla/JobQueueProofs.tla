---------------------------- MODULE JobQueueProofs ----------------------------
(***************************************************************************)
(* Proofs about JobQueue for every number of jobs, targets and workers and *)
(* every lease and timeout that QueueAssumption admits.                    *)
(***************************************************************************)
EXTENDS JobQueue, TLAPS

\* What a row's columns say about each other.
RowShape ==
  \A j \in Jobs :
    /\ status[j] # "none" => target[j] \in Targets
    /\ status[j] = "none" => attempts[j] = 0
    /\ status[j] = "running" <=> token[j] # NoWorker
    /\ status[j] = "running" => attempts[j] > 0

\* What a worker's local variables say, and that a worker whose token the row
\* still carries scanned the row's present attempts.
WorkerShape ==
  \A w \in Workers :
    /\ phase[w] = "claiming" => age[w] <= RunTimeout
    /\ phase[w] \in {"working", "stalled"} =>
         /\ holds[w] \in Jobs
         /\ status[holds[w]] # "none"
         /\ token[holds[w]] = w => tries[w] = attempts[holds[w]]

\* The inductive invariant.
IInv ==
  /\ TypeOK
  /\ RowShape
  /\ WorkerShape
  /\ OneActivePerTarget
  /\ QueuedHasAttemptLeft
  /\ LiveWorkerHoldsLease

-----------------------------------------------------------------------------
(* The initial state. *)

\* Everything holds of the empty queue.
LEMMA InitIInv == Init => IInv
  BY QueueAssumption
  DEF Init, IInv, TypeOK, RowShape, WorkerShape, OneActivePerTarget, Active,
      QueuedHasAttemptLeft, LiveWorkerHoldsLease, LeaseFloor, Phases, Statuses

-----------------------------------------------------------------------------
(* The transactions that fill the queue. *)

\* A row is inserted or left alone.
LEMMA InsertRows ==
  ASSUME NEW D \in SUBSET Targets, Insert(D), NEW j \in Jobs
  PROVE  \/ status'[j] = status[j] /\ target'[j] = target[j]
         \/ status[j] = "none" /\ status'[j] = "queued"
<1> DEFINE fresh == {t \in D : ActiveFor(t) = {}}
<1>1. PICK f \in [fresh -> {i \in Jobs : status[i] = "none"}] :
        /\ status' = [i \in Jobs |->
             IF i \in {f[t] : t \in fresh} THEN "queued" ELSE status[i]]
        /\ target' = [i \in Jobs |->
             IF i \in {f[t] : t \in fresh}
             THEN CHOOSE t \in fresh : f[t] = i ELSE target[i]]
  BY DEF Insert
<1>2. CASE j \in {f[t] : t \in fresh}
  BY <1>1, <1>2
<1>3. CASE j \notin {f[t] : t \in fresh}
  BY <1>1, <1>3
<1>4. QED
  BY <1>2, <1>3

\* Inserting fresh rows, one for each target without an active job.
LEMMA InsertIInv ==
  ASSUME IInv, NEW D \in SUBSET Targets, Insert(D)
  PROVE  IInv'
<1> DEFINE fresh == {t \in D : ActiveFor(t) = {}}
<1>1. PICK f \in [fresh -> {j \in Jobs : status[j] = "none"}] :
        /\ \A s, t \in fresh : f[s] = f[t] => s = t
        /\ status' = [j \in Jobs |->
             IF j \in {f[t] : t \in fresh} THEN "queued" ELSE status[j]]
        /\ target' = [j \in Jobs |->
             IF j \in {f[t] : t \in fresh}
             THEN CHOOSE t \in fresh : f[t] = j ELSE target[j]]
        /\ ready' = [j \in Jobs |->
             IF j \in {f[t] : t \in fresh} THEN TRUE ELSE ready[j]]
  BY DEF Insert
<1> DEFINE new == {f[t] : t \in fresh}
<1>2. UNCHANGED <<present, attempts, token, leaseLeft, phase, holds, tries, age>>
  BY DEF Insert, workerVars
<1>3. \A j \in new : /\ j \in Jobs
                     /\ status[j] = "none"
                     /\ status'[j] = "queued"
                     /\ target'[j] \in fresh
                     /\ f[target'[j]] = j
  <2> SUFFICES ASSUME NEW j \in new
               PROVE  /\ j \in Jobs
                      /\ status[j] = "none"
                      /\ status'[j] = "queued"
                      /\ target'[j] \in fresh
                      /\ f[target'[j]] = j
    OBVIOUS
  <2>1. PICK t \in fresh : f[t] = j
    OBVIOUS
  <2>2. j \in Jobs /\ status[j] = "none"
    BY <2>1
  <2>3. target'[j] = CHOOSE s \in fresh : f[s] = j
    BY <1>1, <2>2
  <2>4. QED
    BY <1>1, <2>1, <2>2, <2>3
<1>4. \A j \in Jobs \ new : status'[j] = status[j] /\ target'[j] = target[j]
  BY <1>1
<1>0. /\ status' = [j \in Jobs |-> IF j \in new THEN "queued" ELSE status[j]]
      /\ ready' = [j \in Jobs |-> IF j \in new THEN TRUE ELSE ready[j]]
      /\ \E g : target' = [j \in Jobs |-> IF j \in new THEN g[j] ELSE target[j]]
  <2>1. target' = [j \in Jobs |->
                    IF j \in new
                    THEN [i \in new |-> CHOOSE t \in fresh : f[t] = i][j]
                    ELSE target[j]]
    BY <1>1
  <2>2. QED
    BY <1>1, <2>1
<1> HIDE DEF new
<1>5. TypeOK'
  <2>1. \A j \in Jobs : status'[j] \in Statuses
    BY <1>3, <1>4 DEF IInv, TypeOK, Statuses
  <2>2. \A j \in Jobs : target'[j] \in Targets \cup {NoTarget}
    BY <1>3, <1>4 DEF IInv, TypeOK
  <2>3. QED
    BY <1>0, <1>2, <2>1, <2>2 DEF IInv, TypeOK
<1>6. RowShape'
  BY <1>2, <1>3, <1>4, QueueAssumption DEF IInv, TypeOK, RowShape
<1>7. WorkerShape'
  BY <1>2, <1>3, <1>4 DEF IInv, WorkerShape
<1>8. OneActivePerTarget'
  <2> SUFFICES ASSUME NEW i \in Jobs, NEW j \in Jobs,
                      Active(i)', Active(j)', target'[i] = target'[j]
               PROVE  i = j
    BY DEF OneActivePerTarget
  <2>1. CASE i \in new /\ j \in new
    BY <2>1, <1>3
  <2>2. CASE i \notin new /\ j \notin new
    BY <2>2, <1>4 DEF IInv, OneActivePerTarget, Active
  <2>3. CASE i \in new /\ j \notin new
    BY <2>3, <1>3, <1>4 DEF Active, ActiveFor
  <2>4. CASE i \notin new /\ j \in new
    BY <2>4, <1>3, <1>4 DEF Active, ActiveFor
  <2>5. QED
    BY <2>1, <2>2, <2>3, <2>4
<1>9. QueuedHasAttemptLeft'
  BY <1>2, <1>3, <1>4, QueueAssumption DEF IInv, RowShape, QueuedHasAttemptLeft
<1>10. LiveWorkerHoldsLease'
  BY <1>2, <1>3, <1>4 DEF IInv, LiveWorkerHoldsLease
<1>11. QED
  BY <1>5, <1>6, <1>7, <1>8, <1>9, <1>10 DEF IInv

\* An operator's retry, which the unique index guards.
LEMMA RetryJobIInv ==
  ASSUME IInv, NEW j \in Jobs, RetryJob(j)
  PROVE  IInv'
<1> USE DEF RetryJob, workerVars
<1>1. TypeOK'
  BY QueueAssumption DEF IInv, TypeOK, Statuses
<1>2. RowShape'
  BY DEF IInv, TypeOK, RowShape
<1>3. WorkerShape'
  <2>1. token[j] = NoWorker
    BY DEF IInv, RowShape
  <2>2. QED
    BY <2>1, QueueAssumption DEF IInv, TypeOK, WorkerShape
<1>4. OneActivePerTarget'
  BY DEF IInv, TypeOK, OneActivePerTarget, Active, ActiveFor
<1>5. QueuedHasAttemptLeft'
  BY QueueAssumption DEF IInv, TypeOK, QueuedHasAttemptLeft
<1>6. LiveWorkerHoldsLease'
  BY DEF IInv, TypeOK, LiveWorkerHoldsLease
<1>7. QED
  BY <1>1, <1>2, <1>3, <1>4, <1>5, <1>6 DEF IInv

-----------------------------------------------------------------------------
(* Claims. *)

\* No claim, however stale its clock, sees the lease of a live worker expired.
LEMMA LiveLeaseNotExpired ==
  ASSUME IInv, NEW v \in Workers, NEW w \in Workers, phase[v] = "working"
  PROVE  holds[v] \notin Expired(w)
<1>1. leaseLeft[holds[v]] >= Lease - age[v] /\ holds[v] \in Jobs
  BY DEF IInv, LiveWorkerHoldsLease
<1>2. /\ age[v] \in 0..(RunTimeout + FinishTimeout)
      /\ age[w] \in 0..(RunTimeout + FinishTimeout)
      /\ leaseLeft[holds[v]] \in Int
  BY <1>1, QueueAssumption DEF IInv, TypeOK, LeaseFloor
<1>3. leaseLeft[holds[v]] + age[w] >= 0
  BY <1>1, <1>2, QueueAssumption
<1>4. QED
  BY <1>2, <1>3 DEF Expired

\* A committed claim takes expired leases back and claims one job.
LEMMA ClaimIInv ==
  ASSUME IInv, NEW w \in Workers, NEW c \in Jobs, Claim(w, c)
  PROVE  IInv'
<1> USE DEF Claim
<1>1. /\ status[c] = "queued" \/ c \in Recovered(w)
      /\ c \in Jobs /\ attempts[c] < MaxAttempts
      /\ status[c] \in {"queued", "running"}
  BY QueueAssumption
  DEF Claimable, Recovered, Expired, ExhaustedAt, IInv, TypeOK, QueuedHasAttemptLeft
<1>2. /\ phase[w] = "claiming" /\ age[w] \in 0..RunTimeout
  BY QueueAssumption DEF IInv, TypeOK, WorkerShape
<1>3. TypeOK'
  BY <1>1, <1>2, QueueAssumption DEF IInv, TypeOK, Statuses, Phases, LeaseFloor
<1>4. RowShape'
  BY <1>1, QueueAssumption DEF IInv, TypeOK, RowShape, Recovered, Expired
<1>5. \A v \in Workers : phase[v] = "working" => holds[v] # c /\ holds[v] \notin Expired(w)
  BY LiveLeaseNotExpired, <1>1
  DEF IInv, LiveWorkerHoldsLease, Claimable, Recovered
<1>6. WorkerShape'
  <2> SUFFICES ASSUME NEW v \in Workers,
                      phase'[v] \in {"working", "stalled"}
               PROVE  /\ holds'[v] \in Jobs
                      /\ status'[holds'[v]] # "none"
                      /\ token'[holds'[v]] = v => tries'[v] = attempts'[holds'[v]]
    BY <1>2 DEF IInv, TypeOK, WorkerShape
  <2>1. CASE v = w
    BY <2>1, <1>1 DEF IInv, TypeOK
  <2>2. CASE v # w
    <3>1. /\ holds'[v] = holds[v] /\ holds[v] \in Jobs /\ tries'[v] = tries[v]
          /\ status[holds[v]] # "none"
          /\ token[holds[v]] = v => tries[v] = attempts[holds[v]]
      BY <2>2 DEF IInv, TypeOK, WorkerShape
    <3>2. status'[holds[v]] # "none"
      BY <3>1
    <3>3. ASSUME token'[holds[v]] = v PROVE tries[v] = attempts'[holds[v]]
      BY <3>1, <3>3, <2>2, <1>1, QueueAssumption DEF IInv, TypeOK
    <3>4. QED
      BY <3>1, <3>2, <3>3
  <2>3. QED
    BY <2>1, <2>2
<1>7. OneActivePerTarget'
  <2>1. \A j \in Jobs : Active(j)' => Active(j)
    BY <1>1 DEF Active, Recovered, Expired
  <2>2. QED
    BY <2>1 DEF IInv, OneActivePerTarget, Active
<1>8. QueuedHasAttemptLeft'
  BY <1>1, QueueAssumption
  DEF IInv, TypeOK, QueuedHasAttemptLeft, Recovered, ExhaustedAt
<1>9. LiveWorkerHoldsLease'
  <2> SUFFICES ASSUME NEW v \in Workers, phase'[v] = "working"
               PROVE  /\ holds'[v] \in Jobs
                      /\ status'[holds'[v]] = "running"
                      /\ token'[holds'[v]] = v
                      /\ leaseLeft'[holds'[v]] >= Lease - age'[v]
    BY DEF LiveWorkerHoldsLease
  <2>1. CASE v = w
    BY <2>1, <1>1, <1>2, QueueAssumption DEF IInv, TypeOK
  <2>2. CASE v # w
    <3>1. /\ phase[v] = "working" /\ holds'[v] = holds[v] /\ age'[v] = age[v]
          /\ holds[v] \in Jobs /\ holds[v] # c /\ holds[v] \notin Expired(w)
      BY <2>2, <1>5 DEF IInv, TypeOK, LiveWorkerHoldsLease
    <3>2. /\ status'[holds[v]] = status[holds[v]]
          /\ token'[holds[v]] = token[holds[v]]
          /\ leaseLeft'[holds[v]] = leaseLeft[holds[v]]
      BY <3>1 DEF Recovered
    <3>3. QED
      BY <3>1, <3>2 DEF IInv, LiveWorkerHoldsLease
  <2>3. QED
    BY <2>1, <2>2
<1>10. QED
  BY <1>3, <1>4, <1>6, <1>7, <1>8, <1>9 DEF IInv

-----------------------------------------------------------------------------
(* Running and finishing. *)

\* A heartbeat only lengthens the lease of the worker's own row.
LEMMA HeartbeatIInv ==
  ASSUME IInv, NEW w \in Workers, Heartbeat(w)
  PROVE  IInv'
<1> USE DEF Heartbeat, workerVars
<1>1. TypeOK'
  <2>1. Lease \in LeaseFloor..Lease
    BY QueueAssumption DEF LeaseFloor
  <2>2. leaseLeft' \in [Jobs -> LeaseFloor..Lease]
    BY <2>1 DEF IInv, TypeOK
  <2>3. QED
    BY <2>2 DEF IInv, TypeOK
<1>2. RowShape' /\ WorkerShape' /\ OneActivePerTarget' /\ QueuedHasAttemptLeft'
  BY DEF IInv, RowShape, WorkerShape, OneActivePerTarget, Active, QueuedHasAttemptLeft
<1>3. LiveWorkerHoldsLease'
  BY QueueAssumption DEF IInv, TypeOK, LeaseFloor, LiveWorkerHoldsLease
<1>4. QED
  BY <1>1, <1>2, <1>3 DEF IInv

\* A finish settles the worker's own row, or none.
LEMMA FinishIInv ==
  ASSUME IInv, NEW w \in Workers, NEW o \in Outcomes, Finish(w, o)
  PROVE  IInv'
<1> DEFINE j == holds[w]
<1>1. /\ j \in Jobs /\ status[j] # "none" /\ phase[w] \in {"working", "stalled"}
      /\ token[j] = w => tries[w] = attempts[j] /\ status[j] = "running"
  BY QueueAssumption DEF Finish, IInv, WorkerShape, RowShape
<1>2. UNCHANGED <<present, target, attempts>> /\ GoIdle(w)
  BY DEF Finish
<1>3. CASE token[j] # w
  <2>1. UNCHANGED <<status, ready, token, leaseLeft>>
    BY <1>3 DEF Finish
  <2>2. TypeOK'
    BY <1>2, <2>1, QueueAssumption DEF GoIdle, IInv, TypeOK, Phases
  <2>3. RowShape' /\ OneActivePerTarget' /\ QueuedHasAttemptLeft'
    BY <1>2, <2>1 DEF IInv, RowShape, OneActivePerTarget, Active, QueuedHasAttemptLeft
  <2>4. WorkerShape' /\ LiveWorkerHoldsLease'
    BY <1>2, <2>1 DEF GoIdle, IInv, TypeOK, WorkerShape, LiveWorkerHoldsLease
  <2>5. QED
    BY <2>2, <2>3, <2>4 DEF IInv
<1>4. CASE token[j] = w
  <2> DEFINE s == FinalStatus(w, o)
  <2>1. Settle(j, s)
    BY <1>4 DEF Finish
  <2>2. /\ s \in {"succeeded", "failed", "queued"}
        /\ s = "queued" => attempts[j] < MaxAttempts
    BY <1>1, <1>4, QueueAssumption DEF FinalStatus, ExhaustedAt, IInv, TypeOK
  <2> HIDE DEF s
  <2>3. TypeOK'
    BY <1>1, <1>2, <2>1, <2>2, QueueAssumption
    DEF Settle, GoIdle, IInv, TypeOK, Phases, Statuses, LeaseFloor
  <2>4. RowShape' /\ QueuedHasAttemptLeft'
    BY <1>1, <1>2, <2>1, <2>2
    DEF Settle, IInv, TypeOK, RowShape, QueuedHasAttemptLeft
  <2>5. OneActivePerTarget'
    BY <1>1, <1>2, <1>4, <2>1, <2>2
    DEF Settle, IInv, TypeOK, OneActivePerTarget, Active
  <2>6. WorkerShape' /\ LiveWorkerHoldsLease'
    BY <1>1, <1>2, <1>4, <2>1, <2>2, QueueAssumption
    DEF Settle, GoIdle, IInv, TypeOK, WorkerShape, LiveWorkerHoldsLease
  <2>7. QED
    BY <2>3, <2>4, <2>5, <2>6 DEF IInv
<1>5. QED
  BY <1>3, <1>4

\* Steps that touch no row but time's: losing or suspending a worker, beginning
\* a claim, a claim that finds nothing.
LEMMA WorkerOnlyIInv ==
  ASSUME IInv, NEW w \in Workers,
         LoseWorker(w) \/ Stall(w) \/ BeginClaim(w) \/ ClaimNothing(w)
  PROVE  IInv'
<1> USE DEF LoseWorker, Stall, BeginClaim, ClaimNothing, GoIdle, jobVars
<1>1. TypeOK'
  BY QueueAssumption DEF IInv, TypeOK, Phases
<1>2. RowShape' /\ OneActivePerTarget' /\ QueuedHasAttemptLeft'
  BY DEF IInv, RowShape, OneActivePerTarget, Active, QueuedHasAttemptLeft
<1>3. WorkerShape' /\ LiveWorkerHoldsLease'
  BY QueueAssumption DEF IInv, TypeOK, WorkerShape, LiveWorkerHoldsLease
<1>4. QED
  BY <1>1, <1>2, <1>3 DEF IInv

\* A worker's lease and its deadline age together.
LEMMA TickIInv ==
  ASSUME IInv, Tick
  PROVE  IInv'
<1> USE DEF Tick, Deadline
<1>1. TypeOK'
  BY QueueAssumption DEF IInv, TypeOK, LeaseFloor
<1>2. RowShape' /\ OneActivePerTarget' /\ QueuedHasAttemptLeft'
  BY DEF IInv, RowShape, OneActivePerTarget, Active, QueuedHasAttemptLeft
<1>3. WorkerShape'
  BY QueueAssumption DEF IInv, TypeOK, WorkerShape
<1>4. LiveWorkerHoldsLease'
  BY QueueAssumption DEF IInv, TypeOK, LeaseFloor, LiveWorkerHoldsLease
<1>5. QED
  BY <1>1, <1>2, <1>3, <1>4 DEF IInv

\* Deleting a target's own row, and the end of a backoff.
LEMMA QuietIInv ==
  ASSUME IInv,
         (\E t \in Targets : DeleteTarget(t)) \/ (\E j \in Jobs : BackoffEnds(j))
  PROVE  IInv'
<1> USE DEF DeleteTarget, BackoffEnds, jobVars, workerVars
<1>1. TypeOK'
  BY DEF IInv, TypeOK
<1>2. RowShape' /\ WorkerShape' /\ OneActivePerTarget' /\ QueuedHasAttemptLeft'
  BY DEF IInv, RowShape, WorkerShape, OneActivePerTarget, Active, QueuedHasAttemptLeft
<1>3. LiveWorkerHoldsLease'
  BY DEF IInv, LiveWorkerHoldsLease
<1>4. QED
  BY <1>1, <1>2, <1>3 DEF IInv

-----------------------------------------------------------------------------
(* The theorems. *)

\* Every step keeps the invariant.
LEMMA NextIInv == IInv /\ [Next]_vars => IInv'
<1> SUFFICES ASSUME IInv, [Next]_vars PROVE IInv'
  OBVIOUS
<1>1. ASSUME NEW t \in Targets, Enqueue(t) PROVE IInv'
  BY <1>1, InsertIInv DEF Enqueue
<1>2. CASE Schedule
  BY <1>2, InsertIInv DEF Schedule
<1>3. ASSUME NEW j \in Jobs, RetryJob(j) PROVE IInv'
  BY <1>3, RetryJobIInv
<1>4. ASSUME NEW w \in Workers, WorkerStep(w) PROVE IInv'
  BY <1>4, ClaimIInv, HeartbeatIInv, FinishIInv, WorkerOnlyIInv DEF WorkerStep
<1>5. CASE UNCHANGED vars
  BY <1>5
  DEF vars, jobVars, workerVars, IInv, TypeOK, RowShape, WorkerShape,
      OneActivePerTarget, Active, QueuedHasAttemptLeft, LiveWorkerHoldsLease
<1>6. QED
  BY <1>1, <1>2, <1>3, <1>4, <1>5, QuietIInv, TickIInv DEF Next, QueueStep

\* The invariant holds in every reachable state.
LEMMA Invariance == Spec => []IInv
  BY InitIInv, NextIInv, PTL DEF Spec

\* Type correctness of the queue.
THEOREM TypeCorrect == Spec => []TypeOK
<1>1. IInv => TypeOK
  BY DEF IInv
<1>2. QED
  BY Invariance, <1>1, PTL

\* Coalescing: a target never has two jobs that are queued or running, whatever
\* retries, expired leases and late finishes interleave.
THEOREM Coalescing == Spec => []OneActivePerTarget
<1>1. IInv => OneActivePerTarget
  BY DEF IInv
<1>2. QED
  BY Invariance, <1>1, PTL

\* No claim starts a job more often than MaxAttempts per operator retry.
THEOREM AttemptsBounded == Spec => []QueuedHasAttemptLeft
<1>1. IInv => QueuedHasAttemptLeft
  BY DEF IInv
<1>2. QED
  BY Invariance, <1>1, PTL

\* The lease outlives the work() call it covers, for every lease of at least
\* RunTimeout + FinishTimeout, although both clocks start at different times.
THEOREM LeaseOutlivesWork == Spec => []LiveWorkerHoldsLease
<1>1. IInv => LiveWorkerHoldsLease
  BY DEF IInv
<1>2. QED
  BY Invariance, <1>1, PTL

\* Handlers of one target never overlap, unless one's process was suspended.
THEOREM HandlersExclusive == Spec => []NoConcurrentHandlers
<1>1. IInv => NoConcurrentHandlers
  <2> SUFFICES ASSUME IInv, NEW v \in Workers, NEW w \in Workers,
                      phase[v] = "working", phase[w] = "working",
                      target[holds[v]] = target[holds[w]]
               PROVE  v = w
    BY DEF NoConcurrentHandlers
  <2>1. /\ holds[v] \in Jobs /\ Active(holds[v]) /\ token[holds[v]] = v
        /\ holds[w] \in Jobs /\ Active(holds[w]) /\ token[holds[w]] = w
    BY DEF IInv, LiveWorkerHoldsLease, Active
  <2>2. holds[v] = holds[w]
    BY <2>1 DEF IInv, OneActivePerTarget
  <2>3. QED
    BY <2>1, <2>2
<1>2. QED
  BY Invariance, <1>1, PTL

\* A running job under an unexpired lease stops running only by its holder's
\* finish.
THEOREM HolderSettles == Spec => OnlyHolderSettles
<1> DEFINE Kept(j) ==
      status[j] = "running" /\ status'[j] # "running" /\ leaseLeft[j] >= 0 =>
        holds[token[j]] = j /\ phase'[token[j]] = "idle"
<1>1. ASSUME IInv, [Next]_vars, NEW j \in Jobs PROVE Kept(j)
  <2> SUFFICES ASSUME status[j] = "running", status'[j] # "running", leaseLeft[j] >= 0
               PROVE  holds[token[j]] = j /\ phase'[token[j]] = "idle"
    OBVIOUS
  <2>1. ASSUME NEW D \in SUBSET Targets, Insert(D) PROVE FALSE
    BY <2>1, InsertRows
  <2>2. ASSUME NEW i \in Jobs, RetryJob(i) PROVE FALSE
    BY <1>1, <2>2 DEF RetryJob, IInv, TypeOK
  <2>3. ASSUME NEW w \in Workers, NEW c \in Jobs, Claim(w, c) PROVE FALSE
    <3>1. j \in Expired(w) /\ leaseLeft[j] \in Int /\ age[w] \in Nat
      BY <1>1, <2>3, QueueAssumption DEF Claim, Recovered, IInv, TypeOK, LeaseFloor
    <3>2. QED
      BY <1>1, <3>1 DEF Expired
  <2>4. ASSUME NEW w \in Workers, NEW o \in Outcomes, Finish(w, o)
        PROVE  holds[token[j]] = j /\ phase'[token[j]] = "idle"
    <3>1. holds[w] \in Jobs
      BY <1>1, <2>4 DEF Finish, IInv, WorkerShape
    <3>2. token[holds[w]] = w /\ j = holds[w]
      BY <1>1, <2>4, <3>1 DEF Finish, Settle, IInv, TypeOK
    <3>3. QED
      BY <1>1, <2>4, <3>2 DEF Finish, GoIdle, IInv, TypeOK
  <2>5. QED
    BY <1>1, <2>1, <2>2, <2>3, <2>4
    DEF Next, QueueStep, WorkerStep, Enqueue, Schedule, DeleteTarget, BackoffEnds,
        Tick, BeginClaim, ClaimNothing, Heartbeat, LoseWorker, Stall, vars, jobVars
<1>2. IInv /\ [Next]_vars =>
        [\A j \in Jobs :
           status[j] = "running" /\ status'[j] # "running" /\ leaseLeft[j] >= 0 =>
             /\ holds[token[j]] = j
             /\ phase'[token[j]] = "idle"]_vars
  BY <1>1
<1>3. QED
  BY Invariance, <1>2, PTL DEF OnlyHolderSettles, Spec

-----------------------------------------------------------------------------
(* JobQueue implements JobBoard. *)

\* Every step of the queue is a step of the board, row by row.
LEMMA BoardStep ==
  ASSUME IInv, IInv', [Next]_vars
  PROVE  [Board!Next]_(Board!board)
<1> DEFINE Step(j) ==
      Board!Post(j) \/ Board!Start(j) \/ Board!SettleAs(j) \/ Board!Reopen(j) \/ Board!Rest(j)
<1> USE DEF BoardState, Board!Post, Board!Start, Board!SettleAs, Board!Reopen, Board!Rest, Board!Becomes
<1>1. ASSUME NEW D \in SUBSET Targets, Insert(D), NEW j \in Jobs
      PROVE  Step(j) /\ (status[j] # "none" => target'[j] = target[j])
  <2>1. attempts' = attempts
    BY <1>1 DEF Insert
  <2>2. \/ status'[j] = status[j] /\ target'[j] = target[j]
        \/ status[j] = "none" /\ status'[j] = "queued"
    BY <1>1, InsertRows
  <2>3. QED
    BY <2>1, <2>2 DEF IInv, RowShape
<1>2. ASSUME NEW i \in Jobs, RetryJob(i), NEW j \in Jobs
      PROVE  Step(j) /\ target'[j] = target[j]
  BY <1>2 DEF RetryJob, IInv, TypeOK
<1>3. ASSUME NEW w \in Workers, NEW c \in Jobs, Claim(w, c), NEW j \in Jobs
      PROVE  Step(j) /\ target'[j] = target[j]
  <2>1. target' = target
    BY <1>3 DEF Claim
  <2>2. CASE j = c
    <3>1. /\ status[c] \in {"queued", "running"} /\ attempts[c] < MaxAttempts
          /\ status'[c] = "running" /\ attempts'[c] = attempts[c] + 1
      BY <1>3, QueueAssumption
      DEF Claim, Claimable, Recovered, Expired, ExhaustedAt, IInv, TypeOK,
          QueuedHasAttemptLeft
    <3>2. QED
      BY <2>1, <2>2, <3>1
  <2>3. CASE j # c
    <3>1. attempts'[j] = attempts[j]
      BY <1>3, <2>3 DEF Claim, IInv, TypeOK
    <3>2. \/ status'[j] = status[j]
          \/ status[j] = "running" /\ status'[j] = "queued"
          \/ status[j] = "running" /\ status'[j] = "failed" /\ attempts[j] > 0
      BY <1>3, <2>3, QueueAssumption
      DEF Claim, Recovered, Expired, ExhaustedAt, IInv, TypeOK
    <3>3. QED
      BY <2>1, <3>1, <3>2
  <2>4. QED
    BY <2>2, <2>3
<1>4. ASSUME NEW w \in Workers, NEW o \in Outcomes, Finish(w, o), NEW j \in Jobs
      PROVE  Step(j) /\ target'[j] = target[j]
  <2>1. target' = target /\ attempts' = attempts
    BY <1>4 DEF Finish
  <2>2. \/ status'[j] = status[j]
        \/ /\ status[j] = "running" /\ attempts[j] > 0
           /\ status'[j] \in {"succeeded", "failed", "queued"}
    <3>1. CASE token[holds[w]] # w \/ j # holds[w]
      BY <1>4, <3>1 DEF Finish, Settle, IInv, TypeOK
    <3>2. CASE token[holds[w]] = w /\ j = holds[w]
      <4>1. status[j] = "running" /\ attempts[j] > 0
        BY <3>2, QueueAssumption DEF IInv, RowShape
      <4>2. status'[j] = FinalStatus(w, o)
        BY <1>4, <3>2 DEF Finish, Settle, IInv, TypeOK
      <4>3. QED
        BY <4>1, <4>2 DEF FinalStatus
    <3>3. QED
      BY <3>1, <3>2
  <2>3. QED
    BY <2>1, <2>2
<1>5. ASSUME UNCHANGED <<status, target, attempts>>, NEW j \in Jobs
      PROVE  Step(j) /\ target'[j] = target[j]
  BY <1>5
<1>6. Board!OneOpen'
  BY DEF Board!OneOpen, IInv, OneActivePerTarget, Active, TypeOK, Statuses
<1>7. ASSUME NEW j \in Jobs
      PROVE  Step(j) /\ (status[j] # "none" => target'[j] = target[j])
  <2>1. CASE \E D \in SUBSET Targets : Insert(D)
    BY <1>1, <2>1
  <2>2. CASE \E i \in Jobs : RetryJob(i)
    BY <1>2, <2>2
  <2>3. CASE \E w \in Workers, c \in Jobs : Claim(w, c)
    BY <1>3, <2>3
  <2>4. CASE \E w \in Workers, o \in Outcomes : Finish(w, o)
    BY <1>4, <2>4
  <2>5. CASE UNCHANGED <<status, target, attempts>>
    BY <1>5, <2>5
  <2>6. QED
    BY <2>1, <2>2, <2>3, <2>4, <2>5
    DEF Next, QueueStep, WorkerStep, Enqueue, Schedule, DeleteTarget, BackoffEnds,
        Tick, BeginClaim, ClaimNothing, Heartbeat, LoseWorker, Stall, vars, jobVars
<1>8. ASSUME NEW j \in Jobs
      PROVE  BoardState(status[j]) # "none" => target'[j] = target[j]
  BY <1>7
<1>9. QED
  BY <1>6, <1>7, <1>8 DEF Board!Next

\* Whatever the workers do, clients see the job board.
THEOREM QueueImplementsBoard == Spec => ImplementsBoard
<1>1. Init => Board!Init
  BY DEF Init, Board!Init, BoardState
<1>2. IInv /\ IInv' /\ [Next]_vars => [Board!Next]_(Board!board)
  BY BoardStep
<1>3. QED
  BY Invariance, <1>1, <1>2, PTL DEF Spec, ImplementsBoard, Board!Spec

=============================================================================
