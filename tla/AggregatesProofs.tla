--------------------------- MODULE AggregatesProofs ---------------------------
(***************************************************************************)
(* Theorems about Aggregates, for any sources, kinds, manual sets and      *)
(* calls in flight.                                                        *)
(***************************************************************************)
EXTENDS Aggregates, TLAPS

\* Memberships are inductive with the types alone: no action trusts what a call
\* remembers, except for the kind that a source is added under.
IInv == TypeOK /\ OneAggregateEach /\ ManualMembersExist

\* The types of what a publication changes.
PubType ==
  /\ current \in [Sets -> {None} \cup SUBSET Sources]
  /\ previous \in [Sets -> {None} \cup SUBSET Sources]
  /\ signature \in [Sets -> {None} \cup SUBSET (Sources \X Verdicts)]

\* The types of the row of each source.
RowType ==
  /\ alive \subseteq Sources /\ enabled \subseteq alive /\ unfit \subseteq Sources
  /\ home \in [Sources -> Buckets]

\* The parts of the type invariant, apart and together.
LEMMA TypeParts ==
  TypeOK <=> /\ RowType /\ PubType
             /\ created \subseteq Sets
             /\ members \in [Sets -> SUBSET Sources]
             /\ calls \in [Calls -> Call]
  BY DEF TypeOK, RowType, PubType

\* Everything holds before the first call.
LEMMA InitIInv == Init => IInv
<1> SUFFICES ASSUME Init PROVE IInv
  OBVIOUS
<1>1. Idle \in Call
  BY DEF Idle, Call, Steps
<1>2. TypeOK
  BY <1>1 DEF Init, TypeOK, Sets
<1>3. OneAggregateEach /\ ManualMembersExist
  BY DEF Init, OneAggregateEach, ManualMembersExist, Sets
<1>4. QED
  BY <1>2, <1>3 DEF IInv

-----------------------------------------------------------------------------
(* The helpers. *)

\* A call that starts is well formed.
LEMMA Starting ==
  ASSUME calls \in [Calls -> Call], NEW c \in Calls, NEW step \in Steps,
         NEW adds \in SUBSET (Sources \X Buckets), NEW pubs \in SUBSET Buckets,
         Start(c, step, adds, pubs)
  PROVE  calls' \in [Calls -> Call]
<1>1. [step |-> step, adds |-> adds, pubs |-> pubs, on |-> {}] \in Call
  BY DEF Call
<1>2. QED
  BY <1>1 DEF Start

\* A call that goes on is well formed.
LEMMA Going ==
  ASSUME calls \in [Calls -> Call], NEW c \in Calls, NEW step \in Steps,
         NEW adds \in SUBSET (Sources \X Buckets), NEW pubs \in SUBSET Buckets,
         NEW on \in SUBSET Buckets, Goto(c, step, adds, pubs, on)
  PROVE  calls' \in [Calls -> Call]
<1>1. [step |-> step, adds |-> adds, pubs |-> pubs, on |-> on] \in Call
  BY DEF Call
<1>2. Idle \in Call
  BY DEF Idle, Call, Steps
<1>3. QED
  BY <1>1, <1>2 DEF Goto

\* Stripping takes s out of every aggregate, and nothing else out of anything.
LEMMA Stripping ==
  ASSUME members \in [Sets -> SUBSET Sources], NEW s \in Sources
  PROVE  /\ Stripped(s) \in [Sets -> SUBSET Sources]
         /\ \A b \in Sets : Stripped(s)[b] \subseteq members[b]
         /\ \A b \in Buckets : s \notin Stripped(s)[b]
  BY DEF Stripped, Sets

\* Forgetting signatures keeps their type.
LEMMA Forgetting ==
  ASSUME PubType, NEW changed \in SUBSET Buckets, Forget(changed),
         UNCHANGED <<current, previous>>
  PROVE  PubType'
  BY DEF PubType, Forget

\* What a set serves and what it was computed from have their types.
LEMMA Selecting ==
  ASSUME TypeOK, NEW b \in Sets
  PROVE  /\ Items(b) \in SUBSET Sources
         /\ Inputs(b) \in SUBSET (Sources \X Verdicts)
  BY DEF TypeOK, Items, Inputs, Verdict, Verdicts

\* A new publication is well formed.
LEMMA Moving ==
  ASSUME PubType, NEW b \in Sets, NEW content \in SUBSET Sources,
         NEW sig \in SUBSET (Sources \X Verdicts), Move(b, content, sig)
  PROVE  PubType'
  BY DEF PubType, Move

\* Compiling or withdrawing a set keeps the types.
LEMMA Publishing ==
  ASSUME TypeOK, NEW b \in Sets,
         Withdraw(b) \/ \E automatic \in BOOLEAN : Compile(b, automatic)
  PROVE  PubType'
<1>1. PubType
  BY TypeParts
<1>2. CASE UNCHANGED pubVars
  BY <1>1, <1>2 DEF PubType, pubVars
<1>3. CASE Move(b, {}, {})
  BY <1>1, <1>3, Moving
<1>4. CASE Move(b, Items(b), Inputs(b))
  BY <1>1, <1>4, Moving, Selecting
<1>5. QED
  BY <1>2, <1>3, <1>4 DEF Withdraw, Compile

-----------------------------------------------------------------------------
(* Steps that leave the memberships alone. *)

\* Memberships, and the rows that they refer to, are as before.
LEMMA SameMembers ==
  ASSUME OneAggregateEach, ManualMembersExist, UNCHANGED <<members, alive>>
  PROVE  OneAggregateEach' /\ ManualMembersExist'
  BY DEF OneAggregateEach, ManualMembersExist

\* The first transactions of enable, disable and reconcile.
LEMMA FirstIInv ==
  ASSUME IInv, NEW c \in Calls,
         Reconcile(c) \/ \E s \in Sources : Enable(c, s) \/ Disable(c, s)
  PROVE  IInv'
<1> USE DEF IInv
<1>1. CASE Reconcile(c)
  <2>1. {<<s, home[s]>> : s \in enabled} \in SUBSET (Sources \X Buckets)
    BY DEF TypeOK
  <2>2. calls' \in [Calls -> Call]
    BY <1>1, <2>1, Starting DEF Reconcile, Steps, TypeOK
  <2>3. TypeOK'
    BY <1>1, <2>2 DEF Reconcile, TypeOK, sourceVars, setVars, pubVars
  <2>4. QED
    BY <1>1, <2>3, SameMembers DEF Reconcile, sourceVars, setVars
<1>2. ASSUME NEW s \in Sources, Enable(c, s)
      PROVE  IInv'
  <2>1. /\ {<<s, home[s]>>} \in SUBSET (Sources \X Buckets)
        /\ {home[s]} \in SUBSET Buckets
    BY DEF TypeOK
  <2>2. calls' \in [Calls -> Call]
    BY <1>2, <2>1, Starting DEF Enable, Steps, TypeOK
  <2>3. TypeOK'
    BY <1>2, <2>2 DEF Enable, TypeOK, setVars, pubVars
  <2>4. QED
    BY <1>2, <2>3, SameMembers DEF Enable, setVars
<1>3. ASSUME NEW s \in Sources, Disable(c, s)
      PROVE  IInv'
  <2>1. /\ {<<s, home[s]>>} \in SUBSET (Sources \X Buckets)
        /\ {home[s]} \in SUBSET Buckets
    BY DEF TypeOK
  <2>2. calls' \in [Calls -> Call]
    BY <1>3, <2>1, Starting DEF Disable, Steps, TypeOK
  <2>3. TypeOK'
    BY <1>3, <2>2 DEF Disable, TypeOK, setVars, pubVars
  <2>4. QED
    BY <1>3, <2>3, SameMembers DEF Disable, setVars
<1>4. QED
  BY <1>1, <1>2, <1>3

\* Publications, wherever they come from.
LEMMA PublishIInv ==
  ASSUME IInv,
         \/ \E b \in Sets : Publish(b, TRUE) \/ Publish(b, FALSE) \/ Rollback(b)
         \/ \E c \in Calls, b \in Buckets : Check(c, b) \/ Finish(c, b)
         \/ \E c \in Calls : Lose(c)
  PROVE  IInv'
<1> USE DEF IInv
<1>1. ASSUME NEW b \in Sets, Publish(b, TRUE) \/ Publish(b, FALSE)
      PROVE  IInv'
  <2>1. PubType'
    BY <1>1, Publishing DEF Publish
  <2>2. TypeOK'
    BY <1>1, <2>1, TypeParts DEF Publish, TypeOK, PubType, sourceVars
  <2>3. QED
    BY <1>1, <2>2, SameMembers DEF Publish, sourceVars
<1>2. ASSUME NEW b \in Sets, Rollback(b)
      PROVE  IInv'
  <2>1. TypeOK'
    BY <1>2 DEF Rollback, TypeOK, sourceVars
  <2>2. QED
    BY <1>2, <2>1, SameMembers DEF Rollback, sourceVars
<1>3. ASSUME NEW c \in Calls, NEW b \in Buckets, Check(c, b)
      PROVE  IInv'
  <2>1. /\ calls[c].pubs \in SUBSET Buckets /\ calls[c].pubs \ {b} \in SUBSET Buckets
        /\ {b} \in SUBSET Buckets /\ {} \in SUBSET Buckets
        /\ {} \in SUBSET (Sources \X Buckets)
        /\ {"check", "withdraw", "compile"} \subseteq Steps
    BY DEF TypeOK, Call, Steps
  <2>2. \/ Goto(c, "check", {}, calls[c].pubs \ {b}, {})
        \/ Goto(c, "withdraw", {}, calls[c].pubs, {b})
        \/ Goto(c, "compile", {}, calls[c].pubs, {b})
    BY <1>3 DEF Check
  <2>3. calls' \in [Calls -> Call]
    BY <2>1, <2>2, Going DEF TypeOK
  <2>4. TypeOK'
    BY <1>3, <2>3 DEF Check, TypeOK, sourceVars, setVars, pubVars
  <2>5. QED
    BY <1>3, <2>4, SameMembers DEF Check, sourceVars, setVars
<1>4. ASSUME NEW c \in Calls, NEW b \in Buckets, Finish(c, b)
      PROVE  IInv'
  <2>1. /\ calls[c].pubs \ {b} \in SUBSET Buckets /\ {} \in SUBSET Buckets
        /\ {} \in SUBSET (Sources \X Buckets) /\ "check" \in Steps
    BY DEF TypeOK, Call, Steps
  <2>2. \/ Goto(c, "check", {}, calls[c].pubs \ {b}, {})
        \/ Goto(c, "check", {}, {}, {})
    BY <1>4 DEF Finish
  <2>3. calls' \in [Calls -> Call]
    BY <2>1, <2>2, Going DEF TypeOK
  <2>4. PubType'
    <3>1. b \in Sets
      BY DEF Sets
    <3>2. Withdraw(b) \/ Compile(b, FALSE)
      BY <1>4 DEF Finish
    <3>3. QED
      BY <3>1, <3>2, Publishing
  <2>5. TypeOK'
    BY <1>4, <2>3, <2>4 DEF Finish, TypeOK, PubType, sourceVars
  <2>6. QED
    BY <1>4, <2>5, SameMembers DEF Finish, sourceVars
<1>5. ASSUME NEW c \in Calls, Lose(c)
      PROVE  IInv'
  <2>1. Idle \in Call
    BY DEF Idle, Call, Steps
  <2>2. TypeOK'
    BY <1>5, <2>1 DEF Lose, TypeOK, sourceVars, setVars, pubVars
  <2>3. QED
    BY <1>5, <2>2, SameMembers DEF Lose, sourceVars, setVars
<1>6. QED
  BY <1>1, <1>2, <1>3, <1>4, <1>5

\* Health, edits and the creation of aggregates.
LEMMA RowIInv ==
  ASSUME IInv,
         \/ \E s \in Sources : Assess(s) \/ \E b \in Buckets : Edit(s, b)
         \/ \E b \in Buckets : EnsureSet(b)
  PROVE  IInv'
<1> USE DEF IInv
<1>1. UNCHANGED <<members, alive>>
  BY DEF Assess, Edit, EnsureSet, setVars, sourceVars
<1>2. TypeOK'
  <2>1. ASSUME NEW s \in Sources, Assess(s)
        PROVE  TypeOK'
    BY <2>1 DEF Assess, TypeOK, setVars, pubVars
  <2>2. ASSUME NEW s \in Sources, NEW b \in Buckets, Edit(s, b)
        PROVE  TypeOK'
    BY <2>2 DEF Edit, TypeOK, setVars, pubVars
  <2>3. ASSUME NEW b \in Buckets, EnsureSet(b)
        PROVE  TypeOK'
    BY <2>3 DEF EnsureSet, TypeOK, sourceVars, pubVars, Sets
  <2>4. QED
    BY <2>1, <2>2, <2>3
<1>3. QED
  BY <1>1, <1>2, SameMembers

-----------------------------------------------------------------------------
(* Steps that change the memberships. *)

\* The source leaves every aggregate: nothing is shared that was not, and the
\* manual sets are as they were.
LEMMA Leaving ==
  ASSUME IInv, NEW s \in Sources, members' = Stripped(s), alive' = alive
  PROVE  OneAggregateEach' /\ ManualMembersExist'
<1> USE DEF IInv
<1>1. \A b \in Sets : members'[b] \subseteq members[b]
  BY Stripping DEF TypeOK
<1>2. \A b \in Buckets : b \in Sets
  BY DEF Sets
<1>3. OneAggregateEach'
  BY <1>1, <1>2 DEF OneAggregateEach
<1>4. ManualMembersExist'
  BY <1>1 DEF ManualMembersExist, Sets
<1>5. QED
  BY <1>3, <1>4

\* The second transaction of disable.
LEMMA RemoveIInv ==
  ASSUME IInv, NEW c \in Calls, NEW s \in Sources, Remove(c, s)
  PROVE  IInv'
<1> USE DEF IInv
<1>1. /\ calls[c].pubs \in SUBSET Buckets /\ {} \in SUBSET Buckets
      /\ {} \in SUBSET (Sources \X Buckets) /\ "check" \in Steps
      /\ Joined(s) \in SUBSET Buckets
  BY DEF TypeOK, Call, Steps, Joined
<1>2. \/ Goto(c, "check", {}, calls[c].pubs, {})
      \/ Goto(c, "check", {}, {}, {})
  BY DEF Remove
<1>3. calls' \in [Calls -> Call]
  BY <1>1, <1>2, Going DEF TypeOK
<1>4. PubType'
  BY <1>1, TypeParts, Forgetting DEF Remove
<1>5. TypeOK'
  BY <1>3, <1>4, Stripping DEF Remove, TypeOK, PubType, sourceVars
<1>6. QED
  BY <1>5, Leaving DEF Remove, sourceVars

\* Reconcile empties the aggregates.
LEMMA ClearIInv ==
  ASSUME IInv, NEW c \in Calls, Clear(c)
  PROVE  IInv'
<1> USE DEF IInv
<1>1. /\ Buckets \in SUBSET Buckets /\ {} \in SUBSET Buckets
      /\ calls[c].adds \in SUBSET (Sources \X Buckets)
      /\ {"check", "upsert"} \subseteq Steps
      /\ {b \in Buckets : members[b] # {}} \in SUBSET Buckets
  BY DEF TypeOK, Call, Steps
<1>2. \/ Goto(c, "check", calls[c].adds, Buckets, {})
      \/ Goto(c, "upsert", calls[c].adds, Buckets, {})
  BY DEF Clear
<1>3. calls' \in [Calls -> Call]
  BY <1>1, <1>2, Going DEF TypeOK
<1>4. PubType'
  BY <1>1, TypeParts, Forgetting DEF Clear
<1>5. members' \in [Sets -> SUBSET Sources] /\ \A b \in Sets : members'[b] \subseteq members[b]
  BY DEF Clear, TypeOK
<1>6. TypeOK'
  BY <1>3, <1>4, <1>5 DEF Clear, TypeOK, PubType, sourceVars
<1>7. OneAggregateEach' /\ ManualMembersExist'
  <2>1. \A b \in Buckets : members'[b] = {}
    BY DEF Clear, Sets
  <2>2. ManualMembersExist'
    BY <1>5 DEF Clear, ManualMembersExist, sourceVars, Sets
  <2>3. QED
    BY <2>1, <2>2 DEF OneAggregateEach
<1>8. QED
  BY <1>6, <1>7

\* A source joins the aggregate of the kind that the call read, having left
\* every other, so that it is in no two of them whatever its kind is by now.
LEMMA UpsertIInv ==
  ASSUME IInv, NEW c \in Calls, NEW s \in Sources, NEW b \in Buckets, Upsert(c, s, b)
  PROVE  IInv'
<1> USE DEF IInv
<1>1. /\ calls[c].pubs \in SUBSET Buckets /\ {} \in SUBSET Buckets
      /\ calls[c].adds \ {<<s, b>>} \in SUBSET (Sources \X Buckets)
      /\ {"check", "upsert"} \subseteq Steps
      /\ Joined(s) \cup {b} \in SUBSET Buckets
  BY DEF TypeOK, Call, Steps, Joined
<1>2. \/ Goto(c, "check", calls[c].adds \ {<<s, b>>}, calls[c].pubs, {})
      \/ Goto(c, "upsert", calls[c].adds \ {<<s, b>>}, calls[c].pubs, {})
  BY DEF Upsert
<1>3. calls' \in [Calls -> Call]
  BY <1>1, <1>2, Going DEF TypeOK
<1>4. PubType'
  BY <1>1, TypeParts, Forgetting DEF Upsert
<1>5. /\ members' \in [Sets -> SUBSET Sources]
      /\ \A m \in Sets : m # b => members'[m] = Stripped(s)[m]
      /\ members'[b] = Stripped(s)[b] \cup {s}
  <2>1. Stripped(s) \in [Sets -> SUBSET Sources] /\ b \in Sets
    BY Stripping DEF TypeOK, Sets
  <2>2. members' = [Stripped(s) EXCEPT ![b] = @ \cup {s}]
    BY DEF Upsert
  <2>3. QED
    BY <2>1, <2>2
<1>6. TypeOK'
  BY <1>3, <1>4, <1>5 DEF Upsert, TypeOK, PubType, sourceVars, Sets
<1>7. OneAggregateEach'
  <2>1. \A m \in Buckets : Stripped(s)[m] \subseteq members[m] /\ s \notin Stripped(s)[m]
    BY Stripping DEF TypeOK, Sets
  <2>2. \A m \in Buckets : m # b => members'[m] = Stripped(s)[m]
    BY <1>5 DEF Sets
  <2>3. ASSUME NEW m \in Buckets, NEW n \in Buckets, NEW x, x \in members'[m], x \in members'[n]
        PROVE  m = n
    <3>1. CASE x = s
      BY <3>1, <2>1, <2>2, <2>3
    <3>2. CASE x # s
      <4>1. x \in members[m] /\ x \in members[n]
        BY <3>2, <1>5, <2>1, <2>2, <2>3
      <4>2. QED
        BY <4>1 DEF OneAggregateEach
    <3>3. QED
      BY <3>1, <3>2
  <2>4. QED
    BY <2>3 DEF OneAggregateEach
<1>8. ManualMembersExist'
  <2>1. \A m \in Manual : m \in Sets /\ m # b
    BY AggregateAssumption DEF Sets
  <2>2. \A m \in Manual : members'[m] \subseteq members[m]
    BY <1>5, <2>1, Stripping DEF TypeOK
  <2>3. QED
    BY <2>2 DEF ManualMembersExist, Upsert, sourceVars
<1>9. QED
  BY <1>6, <1>7, <1>8

\* A row goes only while no manual set has it.
LEMMA DeleteIInv ==
  ASSUME IInv, NEW c \in Calls, NEW s \in Sources, NEW hard \in BOOLEAN, Delete(c, s, hard)
  PROVE  IInv'
<1> USE DEF IInv
<1>1. /\ {home[s]} \in SUBSET Buckets /\ {} \in SUBSET (Sources \X Buckets)
      /\ "check" \in Steps /\ Joined(s) \in SUBSET Buckets
  BY DEF TypeOK, Steps, Joined
<1>2. calls' \in [Calls -> Call]
  <2>1. Start(c, "check", {}, {home[s]})
    BY DEF Delete
  <2>2. QED
    BY <1>1, <2>1, Starting DEF TypeOK
<1>3. PubType'
  BY <1>1, TypeParts, Forgetting DEF Delete
<1>4. alive' = alive \/ alive' = alive \ {s}
  BY Zenon DEF Delete
<1>5. members' = Stripped(s) /\ enabled' = enabled \ {s} /\ unfit' = unfit \ {s}
      /\ UNCHANGED <<home, created>>
  BY DEF Delete
<1>6. TypeOK'
  BY <1>2, <1>3, <1>4, <1>5, Stripping DEF TypeOK, PubType
<1>7. \A b \in Sets : members'[b] \subseteq members[b]
  BY <1>5, Stripping DEF TypeOK
<1>8. OneAggregateEach'
  BY <1>7 DEF OneAggregateEach, Sets
<1>9. ManualMembersExist'
  <2>1. \A m \in Manual : members'[m] \subseteq members[m] /\ s \notin members[m]
    BY <1>7 DEF Delete, Sets
  <2>2. QED
    BY <1>4, <2>1 DEF ManualMembersExist
<1>10. QED
  BY <1>6, <1>8, <1>9

\* A manual set is saved with members whose rows exist.
LEMMA SaveIInv ==
  ASSUME IInv, NEW m \in Manual, NEW M \in SUBSET Sources, SaveSet(m, M)
  PROVE  IInv'
<1> USE DEF IInv
<1>1. m \in Sets /\ \A b \in Buckets : b \in Sets /\ b # m
  BY AggregateAssumption DEF Sets
<1>2. TypeOK'
  BY <1>1 DEF SaveSet, TypeOK, sourceVars, pubVars
<1>3. OneAggregateEach'
  BY <1>1 DEF SaveSet, OneAggregateEach, TypeOK
<1>4. ManualMembersExist'
  BY <1>1 DEF SaveSet, ManualMembersExist, TypeOK, sourceVars, Sets
<1>5. QED
  BY <1>2, <1>3, <1>4

-----------------------------------------------------------------------------
(* Theorems. *)

\* Every step keeps the invariant, and a step that changes nothing does.
LEMMA NextIInv == IInv /\ [Next]_vars => IInv'
<1> SUFFICES ASSUME IInv, [Next]_vars PROVE IInv'
  OBVIOUS
<1>1. CASE UNCHANGED vars
  <2>1. TypeOK'
    BY <1>1 DEF IInv, TypeOK, vars, sourceVars, setVars, pubVars
  <2>2. QED
    BY <1>1, <2>1, SameMembers DEF IInv, vars, sourceVars, setVars
<1>2. CASE SingleStep
  BY <1>2, PublishIInv, RowIInv, SaveIInv DEF SingleStep
<1>3. ASSUME NEW c \in Calls, CallStep(c)
      PROVE  IInv'
  BY <1>3, FirstIInv, DeleteIInv, RemoveIInv, UpsertIInv, ClearIInv, PublishIInv DEF CallStep
<1>4. QED
  BY <1>1, <1>2, <1>3 DEF Next

\* The invariant always holds.
LEMMA Invariance == Spec => []IInv
  BY InitIInv, NextIInv, PTL DEF Spec

\* The types are kept.
THEOREM TypeCorrect == Spec => []TypeOK
<1>1. IInv => TypeOK
  BY DEF IInv
<1>2. QED
  BY <1>1, Invariance, PTL

\* No source is ever in two aggregates: not while its kind is edited, nor while
\* any number of enables, disables and reconciles overlap or stop half-way.
THEOREM MembershipIsUnique == Spec => []OneAggregateEach
<1>1. IInv => OneAggregateEach
  BY DEF IInv
<1>2. QED
  BY <1>1, Invariance, PTL

\* A manual set never refers to a source whose row is gone.
THEOREM ManualMembersPresent == Spec => []ManualMembersExist
<1>1. IInv => ManualMembersExist
  BY DEF IInv
<1>2. QED
  BY <1>1, Invariance, PTL

\* Compiling or withdrawing a set, and nothing else, empties what it serves,
\* and only if it is an aggregate without members.
LEMMA CompileKeepsLastGood ==
  ASSUME TypeOK, NEW b \in Sets, NEW x \in Sets,
         (b \in Buckets /\ Withdraw(b)) \/ \E automatic \in BOOLEAN : Compile(b, automatic),
         current'[x] = {}, current[x] \notin {{}, None}
  PROVE  x \in Buckets /\ members[x] = {}
<1>1. current' # current
  OBVIOUS
<1>2. CASE Move(b, {}, {}) /\ b \in Buckets /\ members[b] = {}
  BY <1>2 DEF Move, TypeOK
<1>3. CASE Move(b, Items(b), Inputs(b)) /\ Items(b) # {}
  BY <1>3 DEF Move, TypeOK
<1>4. CASE UNCHANGED pubVars
  BY <1>1, <1>4 DEF pubVars
<1>5. QED
  BY <1>2, <1>3, <1>4 DEF Withdraw, Compile

\* A good publication is replaced by an empty one only when an aggregate has no
\* member left, or when operators roll back to one that was empty.
THEOREM LastGoodIsKept == Spec => LastGoodKept
<1> DEFINE Kept ==
      \A b \in Sets :
        current'[b] = {} /\ current[b] \notin {{}, None} =>
          \/ b \in Buckets /\ members[b] = {}
          \/ previous[b] = {}
<1>1. IInv /\ [Next]_vars => [Kept]_vars
  <2> SUFFICES ASSUME IInv, [Next]_vars,
                      NEW b \in Sets, current'[b] = {}, current[b] \notin {{}, None}
               PROVE  (b \in Buckets /\ members[b] = {}) \/ previous[b] = {}
    OBVIOUS
  <2> USE DEF IInv
  <2>1. CASE UNCHANGED current
    BY <2>1
  <2>2. ASSUME NEW x \in Sets, Publish(x, TRUE) \/ Publish(x, FALSE)
        PROVE  b \in Buckets /\ members[b] = {}
    <3>1. \E automatic \in BOOLEAN : Compile(x, automatic)
      BY <2>2 DEF Publish
    <3>2. QED
      BY <3>1, CompileKeepsLastGood
  <2>3. ASSUME NEW x \in Sets, Rollback(x)
        PROVE  previous[b] = {}
    BY <2>3 DEF Rollback, TypeOK
  <2>4. ASSUME NEW c \in Calls, NEW x \in Buckets, Finish(c, x)
        PROVE  b \in Buckets /\ members[b] = {}
    <3>1. Withdraw(x) \/ Compile(x, FALSE)
      BY <2>4 DEF Finish
    <3>2. QED
      BY <3>1, CompileKeepsLastGood DEF Sets
  <2>5. CASE SingleStep
    <3>1. CASE \E x \in Sets : Publish(x, TRUE) \/ Publish(x, FALSE) \/ Rollback(x)
      BY <3>1, <2>2, <2>3
    <3>2. CASE \E s \in Sources : Assess(s) \/ \E x \in Buckets : Edit(s, x)
      BY <3>2, <2>1 DEF Assess, Edit, setVars, pubVars
    <3>3. CASE \E m \in Manual, M \in SUBSET Sources : SaveSet(m, M)
      BY <3>3, <2>1 DEF SaveSet, pubVars
    <3>4. CASE \E x \in Buckets : EnsureSet(x)
      BY <3>4, <2>1 DEF EnsureSet, pubVars
    <3>5. QED
      BY <2>5, <3>1, <3>2, <3>3, <3>4 DEF SingleStep
  <2>6. ASSUME NEW c \in Calls, CallStep(c)
        PROVE  (b \in Buckets /\ members[b] = {}) \/ previous[b] = {}
    <3>1. CASE \E x \in Buckets : Finish(c, x)
      BY <3>1, <2>4
    <3>2. CASE UNCHANGED current
      BY <3>2, <2>1
    <3>3. QED
      BY <2>6, <3>1, <3>2
      DEF CallStep, Enable, Disable, Delete, Remove, Upsert, Reconcile, Clear, Check, Lose,
          setVars, pubVars
  <2>7. QED
    BY <2>1, <2>5, <2>6 DEF Next, vars, setVars, pubVars
<1>2. QED
  BY <1>1, Invariance, PTL DEF Spec, LastGoodKept

-----------------------------------------------------------------------------
(* Calls that run one after the other, to their end. *)

\* The sources in some aggregate.
Aggregated == UNION {members[b] : b \in Buckets}

\* The sources a call still has to add, or to remove.
Named(c) == {a[1] : a \in calls[c].adds}

\* What a call has left to do is what tells the aggregates from the enabled sources.
Agrees(c) ==
  /\ calls[c].step = "remove" =>
       (\E s \in Sources : Named(c) = {s}) /\ Aggregated \ Named(c) = enabled
  /\ calls[c].step = "upsert" => Aggregated \cup Named(c) = enabled
  /\ calls[c].step = "clear" => Named(c) = enabled
  /\ calls[c].step \notin {"remove", "upsert", "clear"} => Aggregated = enabled

\* A call at its end.
LEMMA Resting ==
  ASSUME TypeOK, NEW c \in Calls
  PROVE  calls[c] = Idle => calls[c].step = "idle"
  BY DEF Idle

\* What a call holds once it has started, and once it has gone on.
LEMMA StartsAs ==
  ASSUME TypeOK, NEW c \in Calls, NEW step, NEW adds, NEW pubs, Start(c, step, adds, pubs)
  PROVE  /\ calls[c].step = "idle"
         /\ calls'[c].step = step /\ calls'[c].adds = adds
  BY DEF Start, TypeOK, Idle

LEMMA GoesAs ==
  ASSUME TypeOK, NEW c \in Calls, NEW step, NEW adds, NEW pubs, NEW on,
         Goto(c, step, adds, pubs, on)
  PROVE  /\ step \in {"check", "withdraw", "compile", "idle"} =>
              calls'[c].step \in {"check", "withdraw", "compile", "idle"}
         /\ step \notin {"check", "idle"} => calls'[c].step = step /\ calls'[c].adds = adds
<1>1. calls'[c] = IF step \in {"check", "idle"} /\ pubs = {} THEN Idle
                  ELSE [step |-> step, adds |-> adds, pubs |-> pubs, on |-> on]
  BY DEF Goto, TypeOK
<1>2. QED
  BY <1>1 DEF Idle

\* What the steps that change memberships make of the aggregated sources.
LEMMA AggregatedWithout ==
  ASSUME NEW s \in Sources, members' = Stripped(s)
  PROVE  Aggregated' = Aggregated \ {s}
<1>1. \A b \in Buckets : members'[b] = members[b] \ {s}
  BY DEF Stripped, Sets
<1>2. \A x : x \in Aggregated' <=> \E b \in Buckets : x \in members'[b]
  BY DEF Aggregated
<1>3. \A x : x \in Aggregated <=> \E b \in Buckets : x \in members[b]
  BY DEF Aggregated
<1>4. QED
  BY <1>1, <1>2, <1>3

LEMMA AggregatedWith ==
  ASSUME NEW s \in Sources, NEW b \in Buckets,
         members' = [Stripped(s) EXCEPT ![b] = @ \cup {s}]
  PROVE  Aggregated' = Aggregated \cup {s}
<1>1. members'[b] = (members[b] \ {s}) \cup {s}
  BY DEF Stripped, Sets
<1>2. \A m \in Buckets : m # b => members'[m] = members[m] \ {s}
  BY DEF Stripped, Sets
<1>3. s \in members'[b] /\ \A x : x # s => (x \in members'[b] <=> x \in members[b])
  BY <1>1, Zenon
<1>4. \A m \in Buckets : \A x : x # s => (x \in members'[m] <=> x \in members[m])
  BY <1>2, <1>3
<1>5. s \in Aggregated'
  BY <1>3 DEF Aggregated
<1>6. \A x : x # s => (x \in Aggregated' <=> x \in Aggregated)
  BY <1>4 DEF Aggregated
<1>7. QED
  BY <1>5, <1>6

\* Every step of the only call keeps what it has left to do.
LEMMA CallAgrees ==
  ASSUME IInv, NEW c \in Calls, Agrees(c), CallStep(c), Losable = {}
  PROVE  Agrees(c)'
<1> USE DEF IInv
<1>1. ASSUME NEW s \in Sources, Enable(c, s) PROVE Agrees(c)'
  <2>1. /\ calls[c].step = "idle"
        /\ calls'[c].step = "upsert" /\ calls'[c].adds = {<<s, home[s]>>}
    BY <1>1, StartsAs DEF Enable
  <2>2. Named(c)' = {s}
    BY <2>1 DEF Named
  <2>3. Aggregated' = Aggregated
    BY <1>1 DEF Enable, Aggregated, setVars
  <2>4. QED
    BY <1>1, <2>1, <2>2, <2>3 DEF Agrees, Enable
<1>2. ASSUME NEW s \in Sources, Disable(c, s) PROVE Agrees(c)'
  <2>1. /\ calls[c].step = "idle"
        /\ calls'[c].step = "remove" /\ calls'[c].adds = {<<s, home[s]>>}
    BY <1>2, StartsAs DEF Disable
  <2>2. Named(c)' = {s}
    BY <2>1 DEF Named
  <2>3. Aggregated' = Aggregated
    BY <1>2 DEF Disable, Aggregated, setVars
  <2>4. QED
    BY <1>2, <2>1, <2>2, <2>3 DEF Agrees, Disable
<1>3. ASSUME NEW s \in Sources, NEW hard \in BOOLEAN, Delete(c, s, hard) PROVE Agrees(c)'
  <2>1. Start(c, "check", {}, {home[s]}) /\ members' = Stripped(s) /\ enabled' = enabled \ {s}
    BY <1>3 DEF Delete
  <2>2. calls[c].step = "idle" /\ calls'[c].step = "check"
    BY <2>1, StartsAs
  <2>3. QED
    BY <2>1, <2>2, AggregatedWithout DEF Agrees
<1>4. CASE Reconcile(c)
  <2>1. /\ calls[c].step = "idle"
        /\ calls'[c].step = "clear" /\ calls'[c].adds = {<<s, home[s]>> : s \in enabled}
    BY <1>4, StartsAs DEF Reconcile
  <2>2. Named(c)' = enabled
    <3>1. \A a \in calls'[c].adds : a[1] \in enabled
      BY <2>1
    <3>2. ASSUME NEW s \in enabled PROVE \E a \in calls'[c].adds : a[1] = s
      <4>1. <<s, home[s]>> \in calls'[c].adds
        BY <2>1
      <4>2. QED
        BY <4>1
    <3>3. QED
      BY <3>1, <3>2 DEF Named
  <2>3. QED
    BY <1>4, <2>1, <2>2 DEF Agrees, Reconcile, sourceVars
<1>5. ASSUME NEW s \in Sources, Remove(c, s) PROVE Agrees(c)'
  <2>1. /\ calls[c].step = "remove" /\ s \in Named(c)
        /\ members' = Stripped(s) /\ enabled' = enabled
        /\ \E pubs : Goto(c, "check", {}, pubs, {})
    BY <1>5 DEF Remove, Named, sourceVars
  <2>2. Named(c) = {s} /\ Aggregated \ {s} = enabled
    BY <2>1 DEF Agrees
  <2>3. calls'[c].step \in {"check", "withdraw", "compile", "idle"}
    BY <2>1, GoesAs
  <2>4. QED
    BY <2>1, <2>2, <2>3, AggregatedWithout DEF Agrees
<1>6. ASSUME NEW s \in Sources, NEW b \in Buckets, Upsert(c, s, b) PROVE Agrees(c)'
  <2> DEFINE rest == calls[c].adds \ {<<s, b>>}
  <2>1. /\ calls[c].step = "upsert" /\ <<s, b>> \in calls[c].adds
        /\ Goto(c, IF rest = {} THEN "check" ELSE "upsert", rest, calls[c].pubs, {})
        /\ members' = [Stripped(s) EXCEPT ![b] = @ \cup {s}] /\ enabled' = enabled
    BY <1>6 DEF Upsert, sourceVars
  <2>2. Named(c) = {a[1] : a \in rest} \cup {s}
    BY <2>1 DEF Named
  <2>3. Aggregated' \cup {a[1] : a \in rest} = enabled'
    BY <2>1, <2>2, AggregatedWith DEF Agrees
  <2>4. CASE rest = {}
    <3>1. calls'[c].step \in {"check", "withdraw", "compile", "idle"}
      BY <2>1, <2>4, GoesAs
    <3>2. QED
      BY <2>3, <2>4, <3>1 DEF Agrees
  <2>5. CASE rest # {}
    <3>1. calls'[c].step = "upsert" /\ calls'[c].adds = rest
      BY <2>1, <2>5, GoesAs
    <3>2. Named(c)' = {a[1] : a \in rest}
      BY <3>1 DEF Named
    <3>3. QED
      BY <2>3, <3>1, <3>2 DEF Agrees
  <2>6. QED
    BY <2>4, <2>5
<1>7. CASE Clear(c)
  <2>1. /\ calls[c].step = "clear" /\ enabled' = enabled
        /\ Goto(c, IF calls[c].adds = {} THEN "check" ELSE "upsert", calls[c].adds, Buckets, {})
        /\ \A b \in Buckets : members'[b] = {}
    BY <1>7 DEF Clear, sourceVars, Sets
  <2>2. Named(c) = enabled /\ Aggregated' = {}
    BY <2>1 DEF Agrees, Aggregated
  <2>3. CASE calls[c].adds = {}
    <3>1. calls'[c].step \in {"check", "withdraw", "compile", "idle"}
      BY <2>1, <2>3, GoesAs
    <3>2. enabled = {}
      BY <2>2, <2>3 DEF Named
    <3>3. QED
      BY <2>1, <2>2, <3>1, <3>2 DEF Agrees
  <2>4. CASE calls[c].adds # {}
    <3>1. calls'[c].step = "upsert" /\ calls'[c].adds = calls[c].adds
      BY <2>1, <2>4, GoesAs
    <3>2. QED
      BY <2>1, <2>2, <3>1 DEF Agrees, Named
  <2>5. QED
    BY <2>3, <2>4
<1>8. ASSUME NEW b \in Buckets, Check(c, b) \/ Finish(c, b) PROVE Agrees(c)'
  <2>1. /\ calls[c].step \in {"check", "withdraw", "compile"}
        /\ UNCHANGED <<members, enabled>>
    BY <1>8 DEF Check, Finish, sourceVars, setVars
  <2>2. \E step \in {"check", "withdraw", "compile"} : \E pubs, on : Goto(c, step, {}, pubs, on)
    BY <1>8 DEF Check, Finish
  <2>3. calls'[c].step \in {"check", "withdraw", "compile", "idle"}
    BY <2>2, GoesAs
  <2>4. QED
    BY <2>1, <2>3 DEF Agrees, Aggregated
<1>9. QED
  BY <1>1, <1>2, <1>3, <1>4, <1>5, <1>6, <1>7, <1>8 DEF CallStep, Lose

\* With a single call in flight that is not lost, what is left to do is known at any
\* time, whatever is published, rolled back, edited, probed and saved meanwhile.
LEMMA SerialAgrees ==
  ASSUME NEW c, Calls = {c}, Losable = {}
  PROVE  Spec => [](IInv /\ Agrees(c))
<1>1. Init => Agrees(c)
  <2>1. SUFFICES ASSUME Init PROVE Agrees(c)
    OBVIOUS
  <2>2. calls[c].step = "idle" /\ enabled = {} /\ \A b \in Buckets : members[b] = {}
    BY <2>1 DEF Init, Idle, Sets
  <2>3. QED
    BY <2>2 DEF Agrees, Aggregated
<1>2. IInv /\ Agrees(c) /\ [Next]_vars => Agrees(c)'
  <2>1. SUFFICES ASSUME IInv, Agrees(c), [Next]_vars PROVE Agrees(c)'
    OBVIOUS
  <2>2. CASE CallStep(c)
    BY <2>1, <2>2, CallAgrees
  <2>3. CASE SingleStep \/ UNCHANGED vars
    <3>1. UNCHANGED <<calls, enabled>>
      BY <2>3
      DEF SingleStep, Publish, Rollback, Assess, Edit, SaveSet, EnsureSet, vars, sourceVars
    <3>2. members' = members \/ \E m \in Manual, M \in SUBSET Sources : SaveSet(m, M)
      BY <2>3 DEF SingleStep, Publish, Rollback, Assess, Edit, EnsureSet, vars, setVars
    <3>3. \A b \in Buckets : members'[b] = members[b]
      BY <2>1, <3>2, AggregateAssumption DEF SaveSet, IInv, TypeOK, Sets
    <3>4. Aggregated' = Aggregated
      BY <3>3 DEF Aggregated
    <3>5. QED
      BY <2>1, <3>1, <3>4 DEF Agrees, Named
  <2>4. QED
    BY <2>1, <2>2, <2>3 DEF Next
<1>3. QED
  BY <1>1, <1>2, InitIInv, NextIInv, PTL DEF Spec

\* Between enables, disables, deletes and reconciles that run one after the other to
\* their end, the aggregates hold the enabled sources and no others, although each
\* call is several transactions and kinds are edited between any two of them.
THEOREM SerialMembersAreEnabled ==
  ASSUME NEW c, Calls = {c}, Losable = {}
  PROVE  Spec => []MembersAreEnabled
<1>1. IInv /\ Agrees(c) => MembersAreEnabled
  BY Resting DEF IInv, Agrees, MembersAreEnabled, AtRest, Aggregated
<1>2. QED
  BY <1>1, SerialAgrees, PTL
=============================================================================
