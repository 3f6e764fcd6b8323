------------------------------- MODULE JobBoard -------------------------------
(***************************************************************************)
(* What the job queue promises whoever enqueues work, with no workers,     *)
(* leases, tokens or time: a job is posted, started a bounded number of    *)
(* times while it is open, and settled once; only an operator reopens a    *)
(* failed job; a target never has two open jobs.  JobQueue implements it.  *)
(***************************************************************************)
EXTENDS Integers

CONSTANTS Jobs, MaxAttempts

VARIABLES
  state,    \* "none", "open", "done" or "failed"
  about,    \* the target a job was posted for
  starts    \* how often the job was started since it was posted or reopened

board == <<state, about, starts>>

Init ==
  /\ state = [j \in Jobs |-> "none"]
  /\ starts = [j \in Jobs |-> 0]

Becomes(j, s, n) == state'[j] = s /\ starts'[j] = n

Post(j) == state[j] = "none" /\ Becomes(j, "open", 0)

Start(j) ==
  /\ state[j] = "open"
  /\ starts[j] < MaxAttempts
  /\ Becomes(j, "open", starts[j] + 1)

\* A job is only settled after it was started.
SettleAs(j) ==
  /\ state[j] = "open"
  /\ starts[j] > 0
  /\ \E s \in {"done", "failed"} : Becomes(j, s, starts[j])

Reopen(j) == state[j] = "failed" /\ Becomes(j, "open", 0)

Rest(j) == Becomes(j, state[j], starts[j])

OneOpen ==
  \A i, j \in Jobs :
    state[i] = "open" /\ state[j] = "open" /\ about[i] = about[j] => i = j

\* One transaction may move several jobs: a claim settles the jobs whose last
\* lease expired and starts another.
Next ==
  /\ \A j \in Jobs :
       /\ Post(j) \/ Start(j) \/ SettleAs(j) \/ Reopen(j) \/ Rest(j)
       /\ state[j] # "none" => about'[j] = about[j]
  /\ OneOpen'

Spec == Init /\ [][Next]_board
=============================================================================
