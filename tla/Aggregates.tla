------------------------------ MODULE Aggregates ------------------------------
(***************************************************************************)
(* Source sets and what they publish (internal/service/publisher.go), and  *)
(* the system aggregates that every enabled source joins by its kind       *)
(* (internal/service/aggregate.go).                                        *)
(*                                                                         *)
(* An operator's enable, disable, delete or reconcile is one call that     *)
(* runs several write transactions with nothing held in between: first the *)
(* source's row, then the memberships, computed from the row as it was     *)
(* read, then the publication of the aggregate.  Other calls and the       *)
(* worker's automatic publications run between them, and a call whose      *)
(* client disconnects or whose process stops is lost where it stands.      *)
(*                                                                         *)
(* A publication is told apart by the sources it serves, and every source  *)
(* here has an approved revision.                                          *)
(***************************************************************************)
EXTENDS Integers, FiniteSets

CONSTANTS
  Sources,
  Buckets,             \* the aggregates that exist in the code, one per kind
  Manual,              \* source sets that operators compose
  Calls,               \* operator calls that may be in flight together
  None,                \* a pointer to a publication, or a signature, is ""
  MinAvailable,        \* of the manual sets
  MaxExcludedPercent,  \* of the manual sets
  Losable,             \* bound: the calls that may be lost
  RolledBack,          \* bound: the sets that operators may roll back
  Movable              \* bound: the sources whose kind may be edited

Sets == Buckets \cup Manual
Verdicts == {"in", "disabled", "health"}

ASSUME AggregateAssumption ==
  /\ Buckets \cap Manual = {}
  /\ \A M \in SUBSET Sources : M # None
  /\ \A I \in SUBSET (Sources \X Verdicts) : I # None
  /\ IsFiniteSet(Sources)
  /\ MinAvailable \in Nat \ {0}
  /\ MaxExcludedPercent \in 0..100
  /\ Losable \subseteq Calls
  /\ RolledBack \subseteq Sets
  /\ Movable \subseteq Sources

VARIABLES
  alive,      \* sources whose row exists
  enabled,    \* sources that are enabled
  unfit,      \* sources whose health keeps them out of publications
  home,       \* AggregateTypeFor(protocol, mediaTypes) of each source
  created,    \* sets whose row exists
  members,    \* set.Members
  current,    \* what the current publication serves
  previous,   \* what the previous publication served, where a rollback may need it
  signature,  \* set.PublishSignature: the inputs it was computed from
  calls       \* where each call stands

sourceVars == <<alive, enabled, unfit, home>>
pubVars == <<current, previous, signature>>
setVars == <<created, members, pubVars>>
vars == <<sourceVars, setVars, calls>>

\* Why a member is in a publication or not.
Verdict(s) == IF s \notin enabled THEN "disabled" ELSE IF s \in unfit THEN "health" ELSE "in"

\* What the signature of a set is computed from.  That of the empty aggregate,
\* "empty-aggregate", is the empty set.
Inputs(b) == {<<s, Verdict(s)>> : s \in members[b]}

Steps == {"idle", "remove", "clear", "upsert", "check", "withdraw", "compile"}

Call == [step : Steps,
         adds : SUBSET (Sources \X Buckets),  \* sources still to add, with their kind as read
         pubs : SUBSET Buckets,               \* aggregates still to be published
         on : SUBSET Buckets]                 \* the one that is being published

Idle == [step |-> "idle", adds |-> {}, pubs |-> {}, on |-> {}]

TypeOK ==
  /\ alive \subseteq Sources /\ enabled \subseteq alive /\ unfit \subseteq Sources
  /\ home \in [Sources -> Buckets]
  /\ created \subseteq Sets
  /\ members \in [Sets -> SUBSET Sources]
  /\ current \in [Sets -> {None} \cup SUBSET Sources]
  /\ previous \in [Sets -> {None} \cup SUBSET Sources]
  /\ signature \in [Sets -> {None} \cup SUBSET (Sources \X Verdicts)]
  /\ calls \in [Calls -> Call]

Init ==
  /\ alive = Sources /\ enabled = {} /\ unfit = {}
  /\ home \in [Sources -> Buckets]
  /\ created = Manual
  /\ members = [b \in Sets |-> {}]
  /\ current = [b \in Sets |-> None]
  /\ previous = [b \in Sets |-> None]
  /\ signature = [b \in Sets |-> None]
  /\ calls = [c \in Calls |-> Idle]

-----------------------------------------------------------------------------
(* Publishing a set: one transaction. *)

\* The eligible members of a set.
Items(b) == (members[b] \cap enabled) \ unfit

\* A new publication becomes current.
Move(b, content, sig) ==
  /\ current' = [current EXCEPT ![b] = content]
  /\ previous' = [previous EXCEPT ![b] = IF b \in RolledBack THEN current[b] ELSE None]
  /\ signature' = [signature EXCEPT ![b] = sig]

\* The availability policy holds an automatic publication back; an aggregate
\* has MinAvailable 1 and MaxExcludedPercent 100, which never do.
Held(b) ==
  /\ b \in Manual
  /\ \/ Cardinality(Items(b)) < MinAvailable
     \/ Cardinality(members[b] \ Items(b)) * 100 > MaxExcludedPercent * Cardinality(members[b])

\* A compile that takes any set without eligible members for an empty one.
CompileEmptied(b, automatic) ==
  IF ~(members[b] \subseteq alive) THEN UNCHANGED pubVars
  ELSE IF Items(b) = {} THEN Move(b, {}, {})
  ELSE IF automatic /\ (Held(b) \/ signature[b] = Inputs(b)) THEN UNCHANGED pubVars
  ELSE Move(b, Items(b), Inputs(b))

\* A compile that publishes no empty bundle for an aggregate.
CompileNeverEmpties(b, automatic) ==
  IF ~(members[b] \subseteq alive) \/ Items(b) = {} THEN UNCHANGED pubVars
  ELSE IF automatic /\ (Held(b) \/ (signature[b] = Inputs(b) /\ current[b] # None))
    THEN UNCHANGED pubVars
  ELSE Move(b, Items(b), Inputs(b))

\* preparePublication: nothing changes if a member's row is gone, if no member
\* is eligible (except that an aggregate without members publishes an empty
\* bundle), or if an automatic publication is held or has nothing new.
Compile(b, automatic) ==
  IF ~(members[b] \subseteq alive) THEN UNCHANGED pubVars
  ELSE IF Items(b) = {} THEN
    IF b \in Buckets /\ members[b] = {} THEN Move(b, {}, {}) ELSE UNCHANGED pubVars
  ELSE IF automatic /\ (Held(b) \/ (signature[b] = Inputs(b) /\ current[b] # None))
    THEN UNCHANGED pubVars
  ELSE Move(b, Items(b), Inputs(b))

\* withdrawAggregatePublication: an empty bundle, unless it is current already.
Withdraw(b) ==
  IF members[b] # {} \/ (signature[b] = {} /\ current[b] # None)
  THEN UNCHANGED pubVars
  ELSE Move(b, {}, {})

\* An operator publishes a set, or a worker runs a set.publish job.
Publish(b, automatic) ==
  /\ b \in created
  /\ Compile(b, automatic)
  /\ UNCHANGED <<sourceVars, created, members, calls>>

\* RollbackPublication, of the publication before the current one.
Rollback(b) ==
  /\ b \in RolledBack
  /\ previous[b] # None /\ previous[b] # current[b]
  /\ current' = [current EXCEPT ![b] = previous[b]]
  /\ previous' = [previous EXCEPT ![b] = current[b]]
  /\ UNCHANGED <<sourceVars, created, members, signature, calls>>

-----------------------------------------------------------------------------
(* The first transaction of a call, on the source's row. *)

Start(c, step, adds, pubs) ==
  /\ calls[c] = Idle
  /\ calls' = [calls EXCEPT ![c] =
       [step |-> step, adds |-> adds, pubs |-> pubs, on |-> {}]]

\* The memberships in aggregates, without source s.  A set that lost a member
\* forgets its signature.
Stripped(s) == [b \in Sets |-> IF b \in Buckets THEN members[b] \ {s} ELSE members[b]]
Forget(changed) == signature' = [b \in Sets |-> IF b \in changed THEN None ELSE signature[b]]
Joined(s) == {b \in Buckets : s \in members[b]}

\* An enable that saves the source it had read, though its row is gone.
EnableBlind(c, s) ==
  /\ enabled' = enabled \cup {s}
  /\ Start(c, "upsert", {<<s, home[s]>>}, {home[s]})
  /\ UNCHANGED <<alive, unfit, home, setVars>>

\* enable and approve-enable; a health of "disabled" becomes "unknown".
Enable(c, s) ==
  /\ s \in alive
  /\ enabled' = enabled \cup {s}
  /\ Start(c, "upsert", {<<s, home[s]>>}, {home[s]})
  /\ UNCHANGED <<alive, unfit, home, setVars>>

Disable(c, s) ==
  /\ s \in alive
  /\ enabled' = enabled \ {s}
  /\ unfit' = unfit \ {s}
  /\ Start(c, "remove", {<<s, home[s]>>}, {home[s]})
  /\ UNCHANGED <<alive, home, setVars>>

\* A delete that does not look at the manual sets.
DeleteUnchecked(c, s, hard) ==
  /\ s \in alive
  /\ alive' = IF hard THEN alive \ {s} ELSE alive
  /\ enabled' = enabled \ {s}
  /\ unfit' = unfit \ {s}
  /\ members' = Stripped(s)
  /\ Forget(Joined(s))
  /\ Start(c, "check", {}, {home[s]})
  /\ UNCHANGED <<home, created, current, previous>>

\* SoftDeleteSource and DeleteSource, which leave the aggregates in the same
\* transaction and are refused while a manual set has the source.
Delete(c, s, hard) ==
  /\ s \in alive
  /\ \A m \in Manual : s \notin members[m]
  /\ alive' = IF hard THEN alive \ {s} ELSE alive
  /\ enabled' = enabled \ {s}
  /\ unfit' = unfit \ {s}
  /\ members' = Stripped(s)
  /\ Forget(Joined(s))
  /\ Start(c, "check", {}, {home[s]})
  /\ UNCHANGED <<home, created, current, previous>>

\* ReconcileAggregates reads the enabled sources outside any transaction.
Reconcile(c) ==
  /\ Start(c, "clear", {<<s, home[s]>> : s \in enabled}, Buckets)
  /\ UNCHANGED <<sourceVars, setVars>>

-----------------------------------------------------------------------------
(* The transactions that follow. *)

Goto(c, step, adds, pubs, on) ==
  calls' = [calls EXCEPT ![c] =
    IF step \in {"check", "idle"} /\ pubs = {} THEN Idle
    ELSE [step |-> step, adds |-> adds, pubs |-> pubs, on |-> on]]

\* Reconcile empties the aggregates.
Clear(c) ==
  /\ calls[c].step = "clear"
  /\ members' = [b \in Sets |-> IF b \in Buckets THEN {} ELSE members[b]]
  /\ Forget({b \in Buckets : members[b] # {}})
  /\ Goto(c, IF calls[c].adds = {} THEN "check" ELSE "upsert", calls[c].adds, Buckets, {})
  /\ UNCHANGED <<sourceVars, created, current, previous>>

\* An upsert that does not take the source out of the other aggregates.
UpsertOnly(c, s, b) ==
  /\ calls[c].step = "upsert" /\ <<s, b>> \in calls[c].adds
  /\ LET rest == calls[c].adds \ {<<s, b>>}
     IN  Goto(c, IF rest = {} THEN "check" ELSE "upsert", rest, calls[c].pubs, {})
  /\ members' = [members EXCEPT ![b] = @ \cup {s}]
  /\ created' = created \cup {b}
  /\ Forget({b})
  /\ UNCHANGED <<sourceVars, current, previous>>

\* upsertAggregateMember, with the kind the call read: the source's present row
\* is not looked at.
Upsert(c, s, b) ==
  /\ calls[c].step = "upsert" /\ <<s, b>> \in calls[c].adds
  /\ LET rest == calls[c].adds \ {<<s, b>>}
     IN  Goto(c, IF rest = {} THEN "check" ELSE "upsert", rest, calls[c].pubs, {})
  /\ members' = [Stripped(s) EXCEPT ![b] = @ \cup {s}]
  /\ created' = created \cup {b}
  /\ Forget(Joined(s) \cup {b})
  /\ UNCHANGED <<sourceVars, current, previous>>

\* A removal that looks for the source in the aggregate of its present kind only.
RemoveFromHome(c, s) ==
  /\ calls[c].step = "remove" /\ s \in {a[1] : a \in calls[c].adds}
  /\ members' = [members EXCEPT ![home[s]] = @ \ {s}]
  /\ Forget({home[s]})
  /\ Goto(c, IF s \in members[home[s]] THEN "check" ELSE "idle", {},
          IF s \in members[home[s]] THEN calls[c].pubs ELSE {}, {})
  /\ UNCHANGED <<sourceVars, created, current, previous>>

\* removeFromAggregates; the call goes on to publish only if it found any.
Remove(c, s) ==
  /\ calls[c].step = "remove" /\ s \in {a[1] : a \in calls[c].adds}
  /\ members' = Stripped(s)
  /\ Forget(Joined(s))
  /\ Goto(c, "check", {}, IF Joined(s) = {} THEN {} ELSE calls[c].pubs, {})
  /\ UNCHANGED <<sourceVars, created, current, previous>>

\* ensureAggregatePublished reads the set and decides what to do about it.
Check(c, b) ==
  /\ calls[c].step = "check" /\ b \in calls[c].pubs
  /\ LET rest == calls[c].pubs \ {b}
     IN  IF b \notin created THEN Goto(c, "check", {}, rest, {})
         ELSE Goto(c, IF members[b] = {} THEN "withdraw" ELSE "compile",
                   {}, calls[c].pubs, {b})
  /\ UNCHANGED <<sourceVars, setVars>>

\* It withdraws or publishes; a member without a row is an error that ends the
\* call and leaves a set.publish job, a set without eligible members is not.
Finish(c, b) ==
  /\ b \in calls[c].on
  /\ \/ calls[c].step = "withdraw" /\ Withdraw(b)
        /\ Goto(c, "check", {}, calls[c].pubs \ {b}, {})
     \/ calls[c].step = "compile" /\ Compile(b, FALSE)
        /\ Goto(c, "check", {}, IF members[b] \subseteq alive THEN calls[c].pubs \ {b} ELSE {}, {})
  /\ UNCHANGED <<sourceVars, created, members>>

\* The client disconnects, or the process stops, between two transactions.
Lose(c) ==
  /\ c \in Losable /\ calls[c] # Idle
  /\ calls' = [calls EXCEPT ![c] = Idle]
  /\ UNCHANGED <<sourceVars, setVars>>

-----------------------------------------------------------------------------
(* Single transactions. *)

\* Probes, syncs and reviews change a source's health.
Assess(s) ==
  /\ s \in alive
  /\ unfit' \in {unfit \cup {s}, unfit \ {s}}
  /\ UNCHANGED <<alive, enabled, home, setVars, calls>>

\* EditSource may change the media types, and with them the kind; it does not
\* touch the aggregates.
Edit(s, b) ==
  /\ s \in alive \cap Movable
  /\ home' = [home EXCEPT ![s] = b]
  /\ UNCHANGED <<alive, enabled, unfit, setVars, calls>>

\* SaveSet of a manual set: every member's row must exist.  The code would save
\* an aggregate too, whose description tells operators not to.
SaveSet(m, M) ==
  /\ M \subseteq alive
  /\ members' = [members EXCEPT ![m] = M]
  /\ UNCHANGED <<sourceVars, created, pubVars, calls>>

\* EnsurePersonalCredential creates the aggregates that are missing.
EnsureSet(b) ==
  /\ created' = created \cup {b}
  /\ UNCHANGED <<sourceVars, members, pubVars, calls>>

-----------------------------------------------------------------------------
CallStep(c) ==
  \/ \E s \in Sources :
       \/ Enable(c, s) \/ Disable(c, s)
       \/ \E hard \in BOOLEAN : Delete(c, s, hard)
       \/ Remove(c, s)
       \/ \E b \in Buckets : Upsert(c, s, b)
  \/ Reconcile(c)
  \/ Clear(c)
  \/ \E b \in Buckets : Check(c, b) \/ Finish(c, b)
  \/ Lose(c)

SingleStep ==
  \/ \E b \in Sets : Publish(b, TRUE) \/ Publish(b, FALSE) \/ Rollback(b)
  \/ \E s \in Sources : Assess(s) \/ \E b \in Buckets : Edit(s, b)
  \/ \E m \in Manual, M \in SUBSET Sources : SaveSet(m, M)
  \/ \E b \in Buckets : EnsureSet(b)

Next == SingleStep \/ \E c \in Calls : CallStep(c)

Spec == Init /\ [][Next]_vars

\* A call that is under way goes on, and each set is published again and again:
\* schedule() enqueues set.publish every 15 minutes and a ready job is run.
Fairness ==
  /\ \A c \in Calls :
       WF_vars(\/ Clear(c)
               \/ \E s \in Sources : Remove(c, s) \/ \E b \in Buckets : Upsert(c, s, b)
               \/ \E b \in Buckets : Check(c, b) \/ Finish(c, b))
  /\ \A b \in Sets : WF_vars(Publish(b, TRUE))

FairSpec == Spec /\ Fairness

-----------------------------------------------------------------------------
(* Properties. *)

AtRest == \A c \in Calls : calls[c] = Idle

\* A source is in one aggregate at most, however its kind changes and whatever
\* reconcile, enable and disable do meanwhile.
OneAggregateEach ==
  \A b1, b2 \in Buckets : members[b1] \cap members[b2] # {} => b1 = b2

\* A manual set never refers to a source whose row is gone, so that its
\* publication cannot fail on it.
ManualMembersExist ==
  \A m \in Manual : members[m] \subseteq alive

\* Between calls that ran one after the other to their end, the aggregates'
\* members are the enabled sources.
MembersAreEnabled ==
  AtRest => UNION {members[b] : b \in Buckets} = enabled

\* docs/client-contract.md: disabling or deleting a source takes it out of its
\* aggregate.
DisabledLeaves ==
  AtRest => \A b \in Buckets : members[b] \subseteq enabled

\* What is served is replaced by an empty bundle only when an aggregate has no
\* members left: a bad day of every member keeps the last good publication.
LastGoodKept ==
  [][\A b \in Sets :
       current'[b] = {} /\ current[b] \notin {{}, None} =>
         \/ b \in Buckets /\ members[b] = {}
         \/ previous[b] = {}]_vars

\* A disabled source is not served for ever by a set that has an eligible
\* member, or by an aggregate that has no member.
DisabledIsWithdrawn ==
  \A s \in Sources, b \in Buckets :
    <>[](s \notin enabled /\ (members[b] = {} \/ Items(b) # {})) =>
      []<>(current[b] = None \/ s \notin current[b])
=============================================================================
