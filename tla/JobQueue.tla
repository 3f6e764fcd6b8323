------------------------------- MODULE JobQueue -------------------------------
(***************************************************************************)
(* The durable job queue of Shadow Relay (internal/service/jobs.go): the   *)
(* jobs table, the scheduler and API that fill it, and the worker loops    *)
(* that claim a job under a lease, run its handler and write its outcome.  *)
(*                                                                         *)
(* Every control-plane write transaction holds one advisory lock           *)
(* (store.DB.Write), so Enqueue, RetryJob, schedule and the claim          *)
(* transaction are single steps.  Heartbeat and finish are single UPDATE   *)
(* statements outside that lock: single steps too, but they interleave     *)
(* with everything.                                                        *)
(*                                                                         *)
(* Time is relative.  leaseLeft[j] is lease_until minus the database's     *)
(* present; age[w] is the time since worker w created the context of its   *)
(* current work() call.  PostgreSQL's now() is the START of a transaction, *)
(* which for a claim that waited for the advisory lock lies age[w] in the  *)
(* past: both the expiry test and the new lease are computed from it.      *)
(***************************************************************************)
EXTENDS Integers, FiniteSets

CONSTANTS
  Jobs,           \* job ids that may be inserted (model.ID is always fresh)
  Targets,        \* (kind, target_id) pairs: what the unique index coalesces
  Workers,        \* worker goroutines of all processes
  Deletable,      \* bound: the targets that may be hard-deleted in this instance
  NoTarget,       \* the target of a row that does not exist
  NoJob,          \* what an idle worker holds
  NoWorker,       \* lease_token IS NULL
  MaxAttempts,    \* 3
  Lease,          \* 2 minutes
  RunTimeout,     \* 95 seconds: the context of one work() call
  FinishTimeout   \* 5 seconds: the context of the finishing UPDATE

\* A lease outlives the longest work() call: 95 s + 5 s <= 120 s.
ASSUME QueueAssumption ==
  /\ MaxAttempts \in Nat \ {0}
  /\ Lease \in Nat /\ RunTimeout \in Nat /\ FinishTimeout \in Nat
  /\ RunTimeout + FinishTimeout <= Lease
  /\ NoTarget \notin Targets /\ NoJob \notin Jobs /\ NoWorker \notin Workers

VARIABLES
  present,    \* targets whose row exists in its own table
  status,     \* jobs.status, "none" before the row is inserted
  target,     \* jobs.kind and jobs.target_id
  attempts,   \* jobs.attempts
  ready,      \* available_at <= now()
  token,      \* jobs.lease_token: the worker whose claim wrote it
  leaseLeft,  \* jobs.lease_until - now()
  phase,      \* what each worker is doing
  holds,      \* the job id in work()'s local variable
  tries,      \* the attempts value work() scanned when it claimed
  age         \* time since work() created its context

jobVars == <<status, target, attempts, ready, token, leaseLeft>>
workerVars == <<phase, holds, tries, age>>
vars == <<present, jobVars, workerVars>>

Phases == {"idle", "claiming", "working", "stalled"}
Statuses == {"none", "queued", "running", "succeeded", "failed"}

\* What the handler returns: nil, an error, or an error that wraps "not found".
Outcomes == {"ok", "error", "gone"}

\* The oldest lease a claimer, itself at most RunTimeout old, can tell apart.
LeaseFloor == -(RunTimeout + 1)

Active(j) == status[j] \in {"queued", "running"}
ActiveFor(t) == {j \in Jobs : Active(j) /\ target[j] = t}

TypeOK ==
  /\ present \in SUBSET Targets
  /\ status \in [Jobs -> Statuses]
  /\ target \in [Jobs -> Targets \cup {NoTarget}]
  /\ attempts \in [Jobs -> 0..MaxAttempts]
  /\ ready \in [Jobs -> BOOLEAN]
  /\ token \in [Jobs -> Workers \cup {NoWorker}]
  /\ leaseLeft \in [Jobs -> LeaseFloor..Lease]
  /\ phase \in [Workers -> Phases]
  /\ holds \in [Workers -> Jobs \cup {NoJob}]
  /\ tries \in [Workers -> 0..MaxAttempts]
  /\ age \in [Workers -> 0..(RunTimeout + FinishTimeout)]

Init ==
  /\ present = Targets
  /\ status = [j \in Jobs |-> "none"]
  /\ target = [j \in Jobs |-> NoTarget]
  /\ attempts = [j \in Jobs |-> 0]
  /\ ready = [j \in Jobs |-> FALSE]
  /\ token = [j \in Jobs |-> NoWorker]
  /\ leaseLeft = [j \in Jobs |-> LeaseFloor]
  /\ phase = [w \in Workers |-> "idle"]
  /\ holds = [w \in Workers |-> NoJob]
  /\ tries = [w \in Workers |-> 0]
  /\ age = [w \in Workers |-> 0]

-----------------------------------------------------------------------------
(* Filling the queue. *)

\* enqueue() for every target of D in one transaction: the target's row must
\* exist, and ON CONFLICT ... DO NOTHING leaves an active job of that target as
\* it is.  The API enqueues one target, the scheduler every target that is due.
\* f names the fresh row of each target that gets one.
Insert(D) ==
  LET fresh == {t \in D : ActiveFor(t) = {}}
  IN /\ D \subseteq present
     /\ \E f \in [fresh -> {j \in Jobs : status[j] = "none"}] :
          LET new == {f[t] : t \in fresh}
              of(j) == CHOOSE t \in fresh : f[t] = j
          IN /\ \A s, t \in fresh : f[s] = f[t] => s = t
             /\ status' = [j \in Jobs |-> IF j \in new THEN "queued" ELSE status[j]]
             /\ target' = [j \in Jobs |-> IF j \in new THEN of(j) ELSE target[j]]
             /\ ready' = [j \in Jobs |-> IF j \in new THEN TRUE ELSE ready[j]]
     /\ UNCHANGED <<present, attempts, token, leaseLeft, workerVars>>

Enqueue(t) == Insert({t})

Schedule == \E D \in SUBSET Targets : Cardinality(D) > 1 /\ Insert(D)

\* The control plane hard-deletes a target; its jobs have no foreign key to it.
DeleteTarget(t) ==
  /\ t \in present \cap Deletable
  /\ present' = present \ {t}
  /\ UNCHANGED <<jobVars, workerVars>>

\* Without the index: a failed job re-queues whatever else is active.
RetryJobUnchecked(j) ==
  /\ status[j] = "failed"
  /\ status' = [status EXCEPT ![j] = "queued"]
  /\ attempts' = [attempts EXCEPT ![j] = 0]
  /\ ready' = [ready EXCEPT ![j] = TRUE]
  /\ UNCHANGED <<present, target, token, leaseLeft, workerVars>>

\* An operator retries a failed job.  The partial unique index
\* jobs_active_target aborts the update if the target has an active job.
RetryJob(j) ==
  /\ status[j] = "failed"
  /\ ActiveFor(target[j]) = {}
  /\ status' = [status EXCEPT ![j] = "queued"]
  /\ attempts' = [attempts EXCEPT ![j] = 0]
  /\ ready' = [ready EXCEPT ![j] = TRUE]
  /\ UNCHANGED <<present, target, token, leaseLeft, workerVars>>

\* The backoff of a re-queued job runs out: available_at is reached.
BackoffEnds(j) ==
  /\ status[j] = "queued"
  /\ ~ready[j]
  /\ ready' = [ready EXCEPT ![j] = TRUE]
  /\ UNCHANGED <<present, status, target, attempts, token, leaseLeft, workerVars>>

-----------------------------------------------------------------------------
(* Claiming. *)

\* work() creates its 95 s context and begins the claim transaction, which then
\* waits for the advisory lock.
BeginClaim(w) ==
  /\ phase[w] = "idle"
  /\ phase' = [phase EXCEPT ![w] = "claiming"]
  /\ age' = [age EXCEPT ![w] = 0]
  /\ UNCHANGED <<present, jobVars, holds, tries>>

\* Leases measured from the claimer's context instead of from the database.
ExpiredByOwnClock(w) ==
  {j \in Jobs : status[j] = "running" /\ leaseLeft[j] - age[w] < RunTimeout}

\* Rows the first UPDATE of w's claim takes back: lease_until < now().
Expired(w) == {j \in Jobs : status[j] = "running" /\ leaseLeft[j] + age[w] < 0}

\* An off-by-one that leaves one attempt too many.
ExhaustedTooLate(n) == n > MaxAttempts

ExhaustedAt(n) == n >= MaxAttempts

Recovered(w) == {j \in Expired(w) : ~ExhaustedAt(attempts[j])}

\* A claim that does not see what its first UPDATE took back.
ClaimableQueuedOnly(w) == {j \in Jobs : status[j] = "queued" /\ ready[j]}

\* A claim that skips jobs on their last attempt.
ClaimableNotLast(w) ==
  {j \in Jobs : status[j] = "queued" /\ ready[j] /\ attempts[j] + 1 < MaxAttempts}
    \cup Recovered(w)

\* Rows the second UPDATE may then claim.  An expired job keeps the available_at
\* it was claimed with, which has passed.
Claimable(w) == {j \in Jobs : status[j] = "queued" /\ ready[j]} \cup Recovered(w)

\* The claim transaction commits: expired leases are taken back and one ready
\* job is claimed.  ORDER BY available_at is abstracted to a choice, and to
\* strong fairness of each job's claim below.
Claim(w, c) ==
  /\ phase[w] = "claiming"
  /\ c \in Claimable(w)
  /\ status' = [j \in Jobs |->
       IF j = c THEN "running"
       ELSE IF j \in Recovered(w) THEN "queued"
       ELSE IF j \in Expired(w) THEN "failed"
       ELSE status[j]]
  /\ token' = [j \in Jobs |->
       IF j = c THEN w ELSE IF j \in Expired(w) THEN NoWorker ELSE token[j]]
  /\ leaseLeft' = [j \in Jobs |->
       IF j = c THEN Lease - age[w]
       ELSE IF j \in Expired(w) THEN LeaseFloor
       ELSE leaseLeft[j]]
  /\ attempts' = [attempts EXCEPT ![c] = @ + 1]
  /\ phase' = [phase EXCEPT ![w] = "working"]
  /\ holds' = [holds EXCEPT ![w] = c]
  /\ tries' = [tries EXCEPT ![w] = attempts[c] + 1]
  /\ UNCHANGED <<present, target, ready, age>>

\* The second UPDATE returns no row: Scan fails with ErrNoRows, Write rolls the
\* transaction back, and with it the leases the first UPDATE took back.
ClaimNothing(w) ==
  /\ phase[w] = "claiming"
  /\ Claimable(w) = {}
  /\ phase' = [phase EXCEPT ![w] = "idle"]
  /\ age' = [age EXCEPT ![w] = 0]
  /\ UNCHANGED <<present, jobVars, holds, tries>>

-----------------------------------------------------------------------------
(* Running and finishing. *)

GoIdle(w) ==
  /\ phase' = [phase EXCEPT ![w] = "idle"]
  /\ holds' = [holds EXCEPT ![w] = NoJob]
  /\ tries' = [tries EXCEPT ![w] = 0]
  /\ age' = [age EXCEPT ![w] = 0]

\* The 20 s ticker renews the lease of the row that still carries our token.
Heartbeat(w) ==
  /\ phase[w] = "working"
  /\ age[w] <= RunTimeout
  /\ status[holds[w]] = "running"
  /\ token[holds[w]] = w
  /\ leaseLeft' = [leaseLeft EXCEPT ![holds[w]] = Lease]
  /\ UNCHANGED <<present, status, target, attempts, ready, token, workerVars>>

\* The status written for an outcome, from the attempts the worker scanned.
FinalStatus(w, outcome) ==
  IF outcome = "ok" THEN "succeeded"
  ELSE IF outcome = "gone" \/ ExhaustedAt(tries[w]) THEN "failed"
  ELSE "queued"

Settle(j, s) ==
  /\ status' = [status EXCEPT ![j] = s]
  /\ ready' = [ready EXCEPT ![j] = FALSE]
  /\ token' = [token EXCEPT ![j] = NoWorker]
  /\ leaseLeft' = [leaseLeft EXCEPT ![j] = LeaseFloor]

\* The finishing UPDATE matching on the job id alone.
FinishWithoutToken(w, outcome) ==
  /\ phase[w] \in {"working", "stalled"}
  /\ Settle(holds[w], FinalStatus(w, outcome))
  /\ UNCHANGED <<present, target, attempts>>
  /\ GoIdle(w)

\* The handler returns and the finishing UPDATE runs.  It matches the row only
\* if the row still carries this claim's token; a worker whose lease was taken
\* back changes nothing.  An outcome is "gone" if the handler did not find some row,
\* its target's or another that it needs.
Finish(w, outcome) ==
  /\ phase[w] \in {"working", "stalled"}
  /\ IF token[holds[w]] = w
     THEN Settle(holds[w], FinalStatus(w, outcome))
     ELSE UNCHANGED <<status, ready, token, leaseLeft>>
  /\ UNCHANGED <<present, target, attempts>>
  /\ GoIdle(w)

\* The process dies, or the ignored finishing UPDATE fails: the row stays.
LoseWorker(w) ==
  /\ phase[w] # "idle"
  /\ GoIdle(w)
  /\ UNCHANGED <<present, jobVars>>

\* The process is suspended in the middle of a job (a paused machine): no more
\* heartbeats, and its deadlines pass unnoticed until it runs again.
Stall(w) ==
  /\ phase[w] = "working"
  /\ phase' = [phase EXCEPT ![w] = "stalled"]
  /\ age' = [age EXCEPT ![w] = 0]
  /\ UNCHANGED <<present, jobVars, holds, tries>>

\* How long a worker may still be at what it is doing.
Deadline(w) ==
  IF phase[w] = "claiming" THEN RunTimeout ELSE RunTimeout + FinishTimeout

\* Time passes; a worker that is not suspended is done by its deadline.
Tick ==
  /\ \A w \in Workers : phase[w] \in {"claiming", "working"} => age[w] < Deadline(w)
  /\ age' = [w \in Workers |->
       IF phase[w] \in {"claiming", "working"} THEN age[w] + 1 ELSE age[w]]
  /\ leaseLeft' = [j \in Jobs |->
       IF leaseLeft[j] > LeaseFloor THEN leaseLeft[j] - 1 ELSE leaseLeft[j]]
  /\ UNCHANGED <<present, status, target, attempts, ready, token, phase, holds, tries>>

-----------------------------------------------------------------------------
WorkerStep(w) ==
  \/ BeginClaim(w)
  \/ \E c \in Jobs : Claim(w, c)
  \/ ClaimNothing(w)
  \/ Heartbeat(w)
  \/ \E o \in Outcomes : Finish(w, o)
  \/ LoseWorker(w)
  \/ Stall(w)

QueueStep ==
  \/ \E t \in Targets : Enqueue(t) \/ DeleteTarget(t)
  \/ Schedule
  \/ \E j \in Jobs : RetryJob(j) \/ BackoffEnds(j)
  \/ Tick

Next == QueueStep \/ \E w \in Workers : WorkerStep(w)

Spec == Init /\ [][Next]_vars

\* Time passes, worker loops keep polling, and a handler returns in the end (a
\* suspended process resumes or is lost, at any time).  A worker that waits for
\* a claim gets the advisory lock; a job that is claimable again and again is
\* claimed, because claims take the oldest available_at first.
Fairness ==
  /\ WF_vars(Tick)
  /\ \A j \in Jobs : WF_vars(BackoffEnds(j))
  /\ \A w \in Workers :
       /\ WF_vars(BeginClaim(w))
       /\ WF_vars(ClaimNothing(w) \/ \E c \in Jobs : Claim(w, c))
       /\ WF_vars(\E o \in Outcomes : Finish(w, o))
  /\ \A j \in Jobs : SF_vars(\E w \in Workers : Claim(w, j))

FairSpec == Spec /\ Fairness

-----------------------------------------------------------------------------
(* What the queue promises. *)

\* The coalescing promise of the partial unique index: a target never has two
\* jobs that are queued or running.
OneActivePerTarget ==
  \A i, j \in Jobs : Active(i) /\ Active(j) /\ target[i] = target[j] => i = j

\* A queued job has an attempt left, so that no claim, which does not look at
\* attempts, starts a job more often than MaxAttempts per operator retry.
QueuedHasAttemptLeft ==
  \A j \in Jobs : status[j] = "queued" => attempts[j] < MaxAttempts

\* A worker that is not suspended owns the row it works on, under a lease that
\* outlasts its deadline, however long its claim waited for the lock.
LiveWorkerHoldsLease ==
  \A w \in Workers : phase[w] = "working" =>
    /\ holds[w] \in Jobs
    /\ status[holds[w]] = "running"
    /\ token[holds[w]] = w
    /\ leaseLeft[holds[w]] >= Lease - age[w]

\* Two workers that are not suspended never run handlers for the same target.
NoConcurrentHandlers ==
  \A v, w \in Workers :
    phase[v] = "working" /\ phase[w] = "working"
      /\ target[holds[v]] = target[holds[w]] => v = w

\* A running job whose lease has not lapsed stops running only when the worker
\* that carries its token finishes: no other worker's claim or late finish, and
\* no crash, takes it away.
OnlyHolderSettles ==
  [][\A j \in Jobs :
       status[j] = "running" /\ status'[j] # "running" /\ leaseLeft[j] >= 0 =>
         /\ holds[token[j]] = j
         /\ phase'[token[j]] = "idle"]_vars

\* The board's view of a row's status.
BoardState(s) ==
  IF s \in {"queued", "running"} THEN "open" ELSE IF s = "succeeded" THEN "done" ELSE s

Board ==
  INSTANCE JobBoard WITH
    state <- [j \in Jobs |-> BoardState(status[j])],
    about <- target,
    starts <- attempts

\* What the job queue promises its clients (JobBoard), with its rows as the jobs:
\* a late finish, a crash or an expired lease never reopens or re-settles a
\* settled job, and no job is settled unstarted or started too often.
ImplementsBoard == Board!Spec

\* A job that is ready is started, whatever the other workers and crashes do.
ReadyJobStarts ==
  \A j \in Jobs : (status[j] = "queued" /\ ready[j]) ~> status[j] = "running"

\* The row says running and nobody runs it.
Orphaned(j) ==
  status[j] = "running" /\ ~(holds[token[j]] = j /\ phase[token[j]] = "working")

\* A job whose worker was lost before the last attempt is run again or settled.
EarlyLossRecovers ==
  \A j \in Jobs : (Orphaned(j) /\ attempts[j] < MaxAttempts) ~> ~Orphaned(j)

\* docs/design.md: after a worker exits, an expired lease is recoverable.  It is
\* not for a job lost on its last attempt while no other job is claimable:
\* ClaimNothing rolls the recovery back.
EveryLossRecovers == \A j \in Jobs : Orphaned(j) ~> ~Orphaned(j)
=============================================================================
