------------------------------- MODULE Bindings -------------------------------
(***************************************************************************)
(* Bindings (internal/service/publisher.go): the tokens under which        *)
(* devices read what a source set publishes, and the personal credential   *)
(* (internal/service/steward.go), which lists one token of each aggregate  *)
(* from the vault.  An operator may bind a device to an aggregate too.     *)
(*                                                                         *)
(* A request resolves its token in two reads outside any transaction: the  *)
(* binding's id by the token's hash, then the binding.  The format, the    *)
(* set and the publication it reads next can only refuse it.               *)
(***************************************************************************)
EXTENDS Integers, FiniteSets

CONSTANTS
  Tokens,       \* what security.Token may return; bound: how many are issued
  NoToken,
  BoundSets,    \* the source sets that are bound
  SystemSets,   \* those of them that are aggregates
  BindingIds,
  BoundTo,      \* the set of each binding
  SystemOf,     \* binding_<aggregate>, the binding the code makes itself
  Resets,       \* personal resets under way
  Requests      \* client requests under way

ASSUME BindingAssumption ==
  /\ NoToken \notin Tokens
  /\ SystemSets \subseteq BoundSets
  /\ BoundTo \in [BindingIds -> BoundSets]
  /\ SystemOf \in [SystemSets -> BindingIds]
  /\ \A s \in SystemSets : BoundTo[SystemOf[s]] = s

VARIABLES
  tokenOf,   \* the token of whose hash the row is; NoToken: there is no row
  revoked,
  expired,   \* ExpiresAt has passed
  secret,    \* the token kept in the vault for an aggregate
  issued,
  resets,    \* the aggregates whose binding a reset has found unrevoked
  requests   \* [step, token, binding, dead, rotated]

bindingVars == <<tokenOf, revoked, expired, secret, issued, resets, requests>>
rowVars == <<tokenOf, revoked, expired, secret, issued>>

Rows == {b \in BindingIds : tokenOf[b] # NoToken}
Works(b) == ~revoked[b] /\ ~expired[b]
System == {SystemOf[s] : s \in SystemSets}

\* Tokens that open a subscription now.
Live == {tokenOf[b] : b \in {c \in Rows : Works(c)}}

\* A request that has found the binding of its token; dead: the token was not
\* live then; rotated: the binding was given another one since.
Request == [step : {"idle", "found"}, token : Tokens \cup {NoToken},
            binding : SUBSET BindingIds, dead : BOOLEAN, rotated : BOOLEAN]
NoRequest == [step |-> "idle", token |-> NoToken, binding |-> {}, dead |-> FALSE, rotated |-> FALSE]

BindingTypeOK ==
  /\ tokenOf \in [BindingIds -> Tokens \cup {NoToken}]
  /\ revoked \in [BindingIds -> BOOLEAN] /\ expired \in [BindingIds -> BOOLEAN]
  /\ secret \in [SystemSets -> Tokens \cup {NoToken}]
  /\ issued \subseteq Tokens
  /\ resets \in [Resets -> SUBSET SystemSets]
  /\ requests \in [Requests -> Request]

BindingInit ==
  /\ tokenOf = [b \in BindingIds |-> NoToken]
  /\ revoked = [b \in BindingIds |-> FALSE] /\ expired = [b \in BindingIds |-> FALSE]
  /\ secret = [s \in SystemSets |-> NoToken]
  /\ issued = {}
  /\ resets = [x \in Resets |-> {}]
  /\ requests = [r \in Requests |-> NoRequest]

\* A token nobody has seen yet.
Fresh(t) == t \in Tokens \ issued /\ issued' = issued \cup {t}

-----------------------------------------------------------------------------
CreateBinding(b, t) ==
  /\ b \notin Rows \cup System
  /\ Fresh(t)
  /\ tokenOf' = [tokenOf EXCEPT ![b] = t]
  /\ UNCHANGED <<revoked, expired, secret, resets, requests>>

\* ensureAggregateBindingTx, for the aggregate of an enabled source and for the
\* personal credential: once.
EnsureBinding(s, t) ==
  /\ SystemOf[s] \notin Rows
  /\ Fresh(t)
  /\ tokenOf' = [tokenOf EXCEPT ![SystemOf[s]] = t]
  /\ secret' = [secret EXCEPT ![s] = t]
  /\ UNCHANGED <<revoked, expired, resets, requests>>

\* BindingAction "revoke".  The vault's token goes, whichever binding of the
\* aggregate it was of.
Revoke(b) ==
  /\ b \in Rows
  /\ revoked' = [revoked EXCEPT ![b] = TRUE]
  /\ secret' = [s \in SystemSets |-> IF s = BoundTo[b] THEN NoToken ELSE secret[s]]
  /\ UNCHANGED <<tokenOf, expired, issued, resets, requests>>

\* Requests under way that have found b.
Rotated(b) ==
  requests' = [r \in Requests |->
    IF b \in requests[r].binding THEN [requests[r] EXCEPT !.rotated = TRUE] ELSE requests[r]]

\* A rotate that keeps the token of a binding it brings back.
RotateInPlace(b, t) ==
  /\ b \in Rows /\ ~expired[b]
  /\ Fresh(t)
  /\ tokenOf' = [tokenOf EXCEPT ![b] = IF revoked[b] THEN @ ELSE t]
  /\ revoked' = [revoked EXCEPT ![b] = FALSE]
  /\ secret' = [s \in SystemSets |-> IF s = BoundTo[b] THEN tokenOf'[b] ELSE secret[s]]
  /\ Rotated(b)
  /\ UNCHANGED <<expired, resets>>

\* BindingAction "rotate", which also ends a revocation.  The vault keeps the
\* token, whichever binding of the aggregate it is of.
Rotate(b, t) ==
  /\ b \in Rows /\ ~expired[b]
  /\ Fresh(t)
  /\ tokenOf' = [tokenOf EXCEPT ![b] = t]
  /\ revoked' = [revoked EXCEPT ![b] = FALSE]
  /\ secret' = [s \in SystemSets |-> IF s = BoundTo[b] THEN t ELSE secret[s]]
  /\ Rotated(b)
  /\ UNCHANGED <<expired, resets>>

\* Time passes; the 100 years of an aggregate's own binding do not.
Expire(b) ==
  /\ b \in Rows \ System
  /\ expired' = [expired EXCEPT ![b] = TRUE]
  /\ UNCHANGED <<tokenOf, revoked, secret, issued, resets, requests>>

\* ResetPersonalCredential takes the aggregates one by one: it reads the binding,
\* passes over one that is revoked, and has the others rotated.
ResetReads(x, s) ==
  /\ resets[x] = {}
  /\ SystemOf[s] \in Rows /\ ~revoked[SystemOf[s]]
  /\ resets' = [resets EXCEPT ![x] = {s}]
  /\ UNCHANGED <<rowVars, requests>>

ResetRotates(x, s, t) ==
  /\ resets[x] = {s}
  /\ resets' = [resets EXCEPT ![x] = {}]
  /\ Fresh(t)
  /\ tokenOf' = [tokenOf EXCEPT ![SystemOf[s]] = t]
  /\ revoked' = [revoked EXCEPT ![SystemOf[s]] = FALSE]
  /\ secret' = [secret EXCEPT ![s] = t]
  /\ Rotated(SystemOf[s])
  /\ UNCHANGED expired

-----------------------------------------------------------------------------
(* Resolve. *)

\* The id is looked up by the hash, of a revoked or expired binding too.
Lookup(r, t) ==
  /\ requests[r] = NoRequest
  /\ \E b \in Rows :
       /\ tokenOf[b] = t
       /\ requests' = [requests EXCEPT ![r] =
            [step |-> "found", token |-> t, binding |-> {b}, dead |-> ~Works(b), rotated |-> FALSE]]
  /\ UNCHANGED <<rowVars, resets>>

\* A read of the binding that forgets the revocation.
AdmitsRevoked(b) == ~expired[b]

\* The binding as read the second time decides; its hash is not compared again.
Admits(b) == ~revoked[b] /\ ~expired[b]

Answered(r) == \E b \in requests[r].binding : Admits(b)

\* The request is answered or refused, by what it reads now.
Resolve(r) ==
  /\ requests[r].step = "found"
  /\ requests' = [requests EXCEPT ![r] = NoRequest]
  /\ UNCHANGED <<rowVars, resets>>

BindingNext ==
  \/ \E t \in Tokens :
       \/ \E b \in BindingIds : CreateBinding(b, t) \/ Rotate(b, t)
       \/ \E s \in SystemSets : EnsureBinding(s, t)
       \/ \E s \in SystemSets, x \in Resets : ResetRotates(x, s, t)
       \/ \E r \in Requests : Lookup(r, t)
  \/ \E b \in BindingIds : Revoke(b) \/ Expire(b)
  \/ \E s \in SystemSets, x \in Resets : ResetReads(x, s)
  \/ \E r \in Requests : Resolve(r)

BindingSpec == BindingInit /\ [][BindingNext]_bindingVars

-----------------------------------------------------------------------------
(* Properties. *)

C == INSTANCE Credentials WITH live <- Live, ended <- issued \ Live

\* docs/book-publishing.md: after a revoke or a rotate the old token is of no use
\* any more; no rotate, reset or ensure, in any order, brings a token back.
CredentialsEnd == C!Spec

\* publisher.go, revoke: the settings cannot display a revoked credential.
VaultIsUnrevoked ==
  \A s \in SystemSets : secret[s] # NoToken =>
    \E b \in Rows : BoundTo[b] = s /\ tokenOf[b] = secret[s] /\ ~revoked[b]

\* A request whose token had ended when it was looked up is refused, unless its
\* binding was rotated between the two reads.
EndedIsRefused ==
  \A r \in Requests : requests[r].dead /\ ~requests[r].rotated => ~Answered(r)

\* docs/client-contract.md: the list of aggregates shows the token of the system
\* binding, the current one after a rotation.
ListedIsSystemToken ==
  \A s \in SystemSets :
    SystemOf[s] \in Rows /\ ~revoked[SystemOf[s]] => secret[s] = tokenOf[SystemOf[s]]
=============================================================================
