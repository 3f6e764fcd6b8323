----------------------------- MODULE SourceReview -----------------------------
(***************************************************************************)
(* What the review of a source promises its operator, in terms of contents *)
(* alone: no revision ids, background runs, versions of the row or failed  *)
(* checks.  Each content is filed once it has been brought; one is served, *)
(* one waits for a decision, and those decided on are remembered.          *)
(* SourceLifecycle implements it.                                          *)
(***************************************************************************)
EXTENDS Integers

CONSTANT Contents  \* a set of numbers, newest last

VARIABLES
  exists, remote, enabled, policy,
  held,      \* in quarantine
  url,       \* the content the URL serves; an inline source has none
  serves,    \* the content served when enabled: none or one
  waits,     \* the content that waits for review: none or one
  filed,     \* contents ever brought for review, or taken without one
  approved,  \* contents that were approved
  rejected   \* contents that were rejected, and not approved afterwards

flags == <<exists, remote, enabled, policy, held, url>>
decisions == <<filed, approved, rejected>>
review == <<flags, serves, waits, decisions>>

Init ==
  /\ exists = TRUE /\ enabled = FALSE /\ held = FALSE
  /\ serves = {} /\ approved = {} /\ rejected = {}
  /\ waits = {url} /\ filed = {url}

\* What was filed can be approved, again or after all; a rejection of the same
\* content under another revision may stand.
Approval(c) ==
  /\ c \in filed
  /\ serves' = {c}
  /\ approved' = approved \cup {c}
  /\ rejected' \in {rejected, rejected \ {c}}
  /\ UNCHANGED filed

Approve(c) ==
  /\ Approval(c)
  /\ waits' \in {waits, waits \ {c}}
  /\ UNCHANGED flags

\* Only what waits is approved and enabled at once.
ApproveEnable(c) ==
  /\ waits = {c}
  /\ Approval(c)
  /\ waits' = {}
  /\ enabled' = TRUE
  /\ UNCHANGED <<exists, remote, policy, held, url, rejected>>

\* A rollback takes no decision back and leaves what waits to wait.
Rollback(c) ==
  /\ c \in approved
  /\ serves' = {c}
  /\ policy' = "pinned"
  /\ UNCHANGED <<exists, remote, enabled, held, url, waits, decisions>>

Reject ==
  /\ waits # {}
  /\ waits' = {}
  /\ rejected' = rejected \cup waits
  /\ UNCHANGED <<flags, serves, filed, approved>>

\* Enable, disable, quarantine and release: nothing unapproved is enabled.
Oversee ==
  /\ enabled' /\ ~enabled => serves # {}
  /\ UNCHANGED <<exists, remote, policy, url, serves, waits, decisions>>

Configure == UNCHANGED <<exists, remote, enabled, held, url, serves, waits, decisions>>

Delete ==
  /\ exists' = FALSE /\ enabled' = FALSE
  /\ serves' = {} /\ waits' = {}
  /\ filed' = {} /\ approved' = {} /\ rejected' = {}
  /\ UNCHANGED <<remote, policy, held, url>>

\* Content to decide on; it takes the place of what waited.
Submit(c) ==
  /\ c \notin serves \cup waits
  /\ waits' = {c}
  /\ filed' = filed \cup {c}
  /\ UNCHANGED <<flags, serves, approved, rejected>>

\* An operator's own content for an inline source.
Compose(c) == ~remote /\ Submit(c)

\* A sync may bring what the URL serves or served: nothing to a pinned source,
\* nothing rejected, and nothing older than what was filed before.
MayArrive(c) ==
  /\ remote /\ policy # "pinned"
  /\ c <= url
  /\ c \notin serves \cup waits \cup rejected
  /\ \A d \in filed : d <= c

Arrive(c) == MayArrive(c) /\ Submit(c)

\* The only approval that no operator gives.
TakeOver(c) ==
  /\ MayArrive(c)
  /\ policy = "auto" /\ ~held /\ serves # {}
  /\ serves' = {c} /\ waits' = {}
  /\ filed' = filed \cup {c} /\ approved' = approved \cup {c}
  /\ UNCHANGED <<flags, rejected>>

Publish ==
  /\ remote
  /\ url' = url + 1
  /\ UNCHANGED <<exists, remote, enabled, policy, held, serves, waits, decisions>>

Next ==
  \/ Publish
  \/ /\ exists
     /\ \/ Reject \/ Oversee \/ Configure \/ Delete
        \/ \E c \in Contents :
             \/ Approve(c) \/ ApproveEnable(c) \/ Rollback(c)
             \/ Compose(c) \/ Arrive(c) \/ TakeOver(c)

Spec == Init /\ [][Next]_review
=============================================================================
