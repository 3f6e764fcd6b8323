---------------------------- MODULE BindingsProofs ----------------------------
(***************************************************************************)
(* Proofs about Bindings for every number of tokens, sets, bindings,       *)
(* resets and requests that BindingAssumption admits; and the proof that   *)
(* it implements Credentials.                                              *)
(***************************************************************************)
EXTENDS Bindings, TLAPS

RowsType ==
  /\ tokenOf \in [BindingIds -> Tokens \cup {NoToken}]
  /\ revoked \in [BindingIds -> BOOLEAN] /\ expired \in [BindingIds -> BOOLEAN]
  /\ secret \in [SystemSets -> Tokens \cup {NoToken}]
  /\ issued \subseteq Tokens

CallsType ==
  /\ resets \in [Resets -> SUBSET SystemSets]
  /\ requests \in [Requests -> Request]

\* A token is issued before it is a row's, and one row's only.
TokensApart ==
  /\ \A b \in Rows : tokenOf[b] \in issued
  /\ \A b, c \in Rows : tokenOf[b] = tokenOf[c] => b = c

\* A row that is not there yet was neither revoked nor did it expire; the one the
\* code makes for an aggregate never expires.
RowsBegin ==
  /\ \A b \in BindingIds \ Rows : ~revoked[b] /\ ~expired[b]
  /\ \A b \in System : ~expired[b]

\* A reset holds a row that is there.
ResetsHold == \A x \in Resets : \A s \in resets[x] : SystemOf[s] \in Rows

\* A request whose token was not live when it was looked up has a binding that is
\* not, unless that was rotated since.
DeadStaysDead ==
  \A r \in Requests : \A b \in requests[r].binding :
    /\ b \in Rows
    /\ requests[r].dead /\ ~requests[r].rotated => ~Works(b)

IInv ==
  /\ RowsType /\ CallsType
  /\ TokensApart /\ RowsBegin /\ ResetsHold /\ DeadStaysDead
  /\ VaultIsUnrevoked

-----------------------------------------------------------------------------
(* Types. *)

\* What a rotation makes of the requests.
LEMMA RotatedType ==
  ASSUME CallsType, NEW b \in BindingIds, Rotated(b)
  PROVE  /\ requests' \in [Requests -> Request]
         /\ \A r \in Requests :
              /\ requests'[r].binding = requests[r].binding
              /\ requests'[r].dead = requests[r].dead
              /\ b \in requests[r].binding => requests'[r].rotated
              /\ b \notin requests[r].binding => requests'[r].rotated = requests[r].rotated
  BY DEF CallsType, Request, Rotated

\* The bindings of the aggregates.
LEMMA SystemBindings ==
  /\ System \subseteq BindingIds
  /\ \A s \in SystemSets : /\ s \in BoundSets /\ SystemOf[s] \in System
                           /\ BoundTo[SystemOf[s]] = s
  BY BindingAssumption DEF System

LEMMA NextType == ASSUME IInv, [BindingNext]_bindingVars PROVE RowsType' /\ CallsType'
<1> USE DEF IInv, RowsType, Fresh
<1>1. ASSUME NEW t \in Tokens, NEW b \in BindingIds, CreateBinding(b, t)
      PROVE  RowsType' /\ CallsType'
  BY <1>1 DEF CreateBinding, CallsType
<1>2. ASSUME NEW t \in Tokens, NEW b \in BindingIds, Rotate(b, t)
      PROVE  RowsType' /\ CallsType'
  BY <1>2, RotatedType DEF Rotate, CallsType
<1>3. ASSUME NEW t \in Tokens, NEW s \in SystemSets, EnsureBinding(s, t)
      PROVE  RowsType' /\ CallsType'
  BY <1>3 DEF EnsureBinding, CallsType
<1>4. ASSUME NEW t \in Tokens, NEW s \in SystemSets, NEW x \in Resets, ResetRotates(x, s, t)
      PROVE  RowsType' /\ CallsType'
  <2>1. SystemOf[s] \in BindingIds
    BY SystemBindings
  <2>2. RowsType'
    BY <1>4 DEF ResetRotates
  <2>3. CallsType'
    BY <1>4, <2>1, RotatedType DEF ResetRotates, CallsType
  <2>4. QED
    BY <2>2, <2>3
<1>5. ASSUME NEW t \in Tokens, NEW r \in Requests, Lookup(r, t)
      PROVE  RowsType' /\ CallsType'
  <2>1. PICK b \in Rows :
          requests' = [requests EXCEPT ![r] =
            [step |-> "found", token |-> t, binding |-> {b}, dead |-> ~Works(b), rotated |-> FALSE]]
    BY <1>5 DEF Lookup
  <2>2. [step |-> "found", token |-> t, binding |-> {b}, dead |-> ~Works(b), rotated |-> FALSE]
          \in Request
    BY DEF Request, Works, Rows
  <2>3. QED
    BY <1>5, <2>1, <2>2 DEF Lookup, rowVars, CallsType
<1>6. ASSUME NEW b \in BindingIds, Revoke(b) \/ Expire(b) PROVE RowsType' /\ CallsType'
  <2>1. CallsType'
    BY <1>6 DEF Revoke, Expire, CallsType
  <2>2. CASE Revoke(b)
    <3>1. secret' \in [SystemSets -> Tokens \cup {NoToken}]
      BY <2>2 DEF Revoke
    <3>2. RowsType'
      BY <2>2, <3>1 DEF Revoke
    <3>3. QED
      BY <2>1, <3>2
  <2>3. CASE Expire(b)
    <3>1. RowsType'
      BY <2>3 DEF Expire
    <3>2. QED
      BY <2>1, <3>1
  <2>4. QED
    BY <1>6, <2>2, <2>3
<1>7. ASSUME NEW s \in SystemSets, NEW x \in Resets, ResetReads(x, s)
      PROVE  RowsType' /\ CallsType'
  BY <1>7 DEF ResetReads, rowVars, CallsType
<1>8. ASSUME NEW r \in Requests, Resolve(r) PROVE RowsType' /\ CallsType'
  <2>1. NoRequest \in Request
    BY DEF NoRequest, Request
  <2>2. QED
    BY <1>8, <2>1 DEF Resolve, rowVars, CallsType
<1>9. CASE UNCHANGED bindingVars
  BY <1>9 DEF bindingVars, CallsType
<1>10. QED
  BY <1>1, <1>2, <1>3, <1>4, <1>5, <1>6, <1>7, <1>8, <1>9 DEF BindingNext

-----------------------------------------------------------------------------
(* The rows. *)

\* A row is given a token nobody has seen, and is unrevoked afterwards: what
\* creating, ensuring, rotating and resetting have in common.
Gives(b, t) ==
  /\ t \in Tokens /\ Fresh(t)
  /\ tokenOf' = [tokenOf EXCEPT ![b] = t]
  /\ \/ ~revoked[b] /\ revoked' = revoked
     \/ revoked' = [revoked EXCEPT ![b] = FALSE]
  /\ ~expired[b] /\ expired' = expired

LEMMA GivesRows ==
  ASSUME IInv, NEW b \in BindingIds, NEW t, Gives(b, t)
  PROVE  /\ Rows' = Rows \cup {b}
         /\ tokenOf'[b] = t /\ ~revoked'[b] /\ ~expired'[b]
         /\ \A c \in BindingIds \ {b} :
              tokenOf'[c] = tokenOf[c] /\ revoked'[c] = revoked[c] /\ expired'[c] = expired[c]
         /\ TokensApart'
<1>1. /\ tokenOf'[b] = t /\ t # NoToken /\ t \notin issued /\ issued' = issued \cup {t}
      /\ ~revoked'[b] /\ ~expired'[b]
      /\ \A c \in BindingIds \ {b} :
           tokenOf'[c] = tokenOf[c] /\ revoked'[c] = revoked[c] /\ expired'[c] = expired[c]
  BY BindingAssumption DEF Gives, Fresh, IInv, RowsType
<1>2. Rows' = Rows \cup {b}
  BY <1>1 DEF Rows
<1>3. \A c \in Rows' \ {b} : c \in Rows /\ tokenOf'[c] = tokenOf[c] /\ tokenOf'[c] \in issued
  BY <1>1, <1>2 DEF IInv, TokensApart, Rows
<1>4. TokensApart'
  BY <1>1, <1>2, <1>3 DEF IInv, TokensApart
<1>5. QED
  BY <1>1, <1>2, <1>4

\* The actions that give a row a token.
LEMMA GivingActions ==
  ASSUME IInv, NEW t \in Tokens
  PROVE  /\ \A b \in BindingIds : CreateBinding(b, t) \/ Rotate(b, t) => Gives(b, t)
         /\ \A s \in SystemSets : EnsureBinding(s, t) => Gives(SystemOf[s], t)
         /\ \A s \in SystemSets, x \in Resets : ResetRotates(x, s, t) => Gives(SystemOf[s], t)
<1>1. \A b \in BindingIds \ Rows : ~revoked[b] /\ ~expired[b]
  BY DEF IInv, RowsBegin
<1>2. \A s \in SystemSets : SystemOf[s] \in BindingIds /\ ~expired[SystemOf[s]]
  BY SystemBindings DEF IInv, RowsBegin
<1>3. QED
  BY <1>1, <1>2 DEF CreateBinding, Rotate, EnsureBinding, ResetRotates, Gives, Fresh

LEMMA GivesBegin ==
  ASSUME IInv, NEW b \in BindingIds, NEW t, Gives(b, t),
         \A x \in Resets : resets'[x] \subseteq resets[x]
  PROVE  TokensApart' /\ RowsBegin' /\ ResetsHold'
<1>1. RowsBegin'
  BY GivesRows, SystemBindings DEF IInv, RowsBegin, System
<1>2. ResetsHold'
  BY GivesRows DEF IInv, ResetsHold
<1>3. QED
  BY <1>1, <1>2, GivesRows

\* What the vault has of the aggregate of b, and of any other one.
LEMMA GivesVault ==
  ASSUME IInv, NEW b \in BindingIds, NEW t, Gives(b, t),
         \A s \in SystemSets :
           IF s = BoundTo[b] THEN secret'[s] = t \/ (b \notin Rows /\ secret'[s] = secret[s])
           ELSE secret'[s] = secret[s]
  PROVE  VaultIsUnrevoked'
<1>1. SUFFICES ASSUME NEW s \in SystemSets, secret'[s] # NoToken
               PROVE  \E c \in Rows' : BoundTo[c] = s /\ tokenOf'[c] = secret'[s] /\ ~revoked'[c]
  BY DEF VaultIsUnrevoked
<1>2. CASE s = BoundTo[b] /\ secret'[s] = t
  BY <1>2, GivesRows
<1>3. CASE secret'[s] = secret[s] /\ (s # BoundTo[b] \/ b \notin Rows)
  <2>1. PICK c \in Rows : BoundTo[c] = s /\ tokenOf[c] = secret[s] /\ ~revoked[c]
    BY <1>1, <1>3 DEF IInv, VaultIsUnrevoked
  <2>2. c # b /\ c \in BindingIds
    BY <1>3, <2>1 DEF Rows
  <2>3. QED
    BY <1>3, <2>1, <2>2, GivesRows
<1>4. QED
  BY <1>2, <1>3

\* Steps that change no row and forget at most resets.
LEMMA RowsStay ==
  ASSUME IInv, UNCHANGED rowVars,
         \A x \in Resets : \A s \in resets'[x] : s \in resets[x] \/ SystemOf[s] \in Rows
  PROVE  TokensApart' /\ RowsBegin' /\ ResetsHold' /\ VaultIsUnrevoked'
<1>1. Rows' = Rows
  BY DEF Rows, rowVars
<1>2. QED
  BY <1>1 DEF rowVars, IInv, TokensApart, RowsBegin, ResetsHold, VaultIsUnrevoked

LEMMA NextRows ==
  ASSUME IInv, [BindingNext]_bindingVars
  PROVE  TokensApart' /\ RowsBegin' /\ ResetsHold' /\ VaultIsUnrevoked'
<1>1. ASSUME NEW t \in Tokens, NEW b \in BindingIds, CreateBinding(b, t)
      PROVE  TokensApart' /\ RowsBegin' /\ ResetsHold' /\ VaultIsUnrevoked'
  <2>1. Gives(b, t) /\ b \notin Rows /\ secret' = secret /\ resets' = resets
    BY <1>1, GivingActions DEF CreateBinding
  <2>2. QED
    BY <2>1, GivesBegin, GivesVault
<1>2. ASSUME NEW t \in Tokens, NEW b \in BindingIds, Rotate(b, t)
      PROVE  TokensApart' /\ RowsBegin' /\ ResetsHold' /\ VaultIsUnrevoked'
  <2>1. /\ Gives(b, t) /\ resets' = resets
        /\ \A s \in SystemSets : secret'[s] = IF s = BoundTo[b] THEN t ELSE secret[s]
    BY <1>2, GivingActions DEF Rotate
  <2>2. QED
    BY <2>1, GivesBegin, GivesVault
<1>3. ASSUME NEW t \in Tokens, NEW s \in SystemSets, EnsureBinding(s, t)
      PROVE  TokensApart' /\ RowsBegin' /\ ResetsHold' /\ VaultIsUnrevoked'
  <2>1. /\ Gives(SystemOf[s], t) /\ resets' = resets
        /\ \A q \in SystemSets : secret'[q] = IF q = s THEN t ELSE secret[q]
    BY <1>3, GivingActions DEF EnsureBinding, IInv, RowsType
  <2>2. SystemOf[s] \in BindingIds /\ BoundTo[SystemOf[s]] = s
    BY SystemBindings
  <2>3. QED
    BY <2>1, <2>2, GivesBegin, GivesVault
<1>4. ASSUME NEW t \in Tokens, NEW s \in SystemSets, NEW x \in Resets, ResetRotates(x, s, t)
      PROVE  TokensApart' /\ RowsBegin' /\ ResetsHold' /\ VaultIsUnrevoked'
  <2>1. /\ Gives(SystemOf[s], t) /\ \A y \in Resets : resets'[y] \subseteq resets[y]
        /\ \A q \in SystemSets : secret'[q] = IF q = s THEN t ELSE secret[q]
    BY <1>4, GivingActions DEF ResetRotates, IInv, RowsType, CallsType
  <2>2. SystemOf[s] \in BindingIds /\ BoundTo[SystemOf[s]] = s
    BY SystemBindings
  <2>3. QED
    BY <2>1, <2>2, GivesBegin, GivesVault
<1>5. ASSUME NEW b \in BindingIds, Revoke(b)
      PROVE  TokensApart' /\ RowsBegin' /\ ResetsHold' /\ VaultIsUnrevoked'
  <2>1. /\ b \in Rows /\ Rows' = Rows
        /\ UNCHANGED <<tokenOf, expired, issued, resets>>
        /\ \A c \in BindingIds \ {b} : revoked'[c] = revoked[c]
        /\ \A s \in SystemSets : secret'[s] = IF s = BoundTo[b] THEN NoToken ELSE secret[s]
    BY <1>5 DEF Revoke, Rows, IInv, RowsType
  <2>2. TokensApart' /\ RowsBegin' /\ ResetsHold'
    BY <2>1 DEF IInv, TokensApart, RowsBegin, ResetsHold
  <2>3. ASSUME NEW s \in SystemSets, secret'[s] # NoToken
        PROVE  \E c \in Rows' : BoundTo[c] = s /\ tokenOf'[c] = secret'[s] /\ ~revoked'[c]
    <3>1. s # BoundTo[b] /\ secret'[s] = secret[s]
      BY <2>1, <2>3
    <3>2. PICK c \in Rows : BoundTo[c] = s /\ tokenOf[c] = secret[s] /\ ~revoked[c]
      BY <2>3, <3>1 DEF IInv, VaultIsUnrevoked
    <3>3. QED
      BY <2>1, <3>1, <3>2 DEF Rows
  <2>4. QED
    BY <2>2, <2>3 DEF VaultIsUnrevoked
<1>6. ASSUME NEW b \in BindingIds, Expire(b)
      PROVE  TokensApart' /\ RowsBegin' /\ ResetsHold' /\ VaultIsUnrevoked'
  <2>1. /\ b \in Rows \ System /\ Rows' = Rows
        /\ UNCHANGED <<tokenOf, revoked, secret, issued, resets>>
        /\ \A c \in BindingIds \ {b} : expired'[c] = expired[c]
    BY <1>6 DEF Expire, Rows, IInv, RowsType
  <2>2. QED
    BY <2>1, SystemBindings DEF IInv, TokensApart, RowsBegin, ResetsHold, VaultIsUnrevoked, System
<1>7. ASSUME NEW s \in SystemSets, NEW x \in Resets, ResetReads(x, s)
      PROVE  TokensApart' /\ RowsBegin' /\ ResetsHold' /\ VaultIsUnrevoked'
  BY <1>7, RowsStay DEF ResetReads, IInv, CallsType
<1>8. CASE \/ \E r \in Requests : Resolve(r)
           \/ \E t \in Tokens, r \in Requests : Lookup(r, t)
           \/ UNCHANGED bindingVars
  <2>1. UNCHANGED rowVars /\ resets' = resets
    BY <1>8 DEF Resolve, Lookup, bindingVars, rowVars
  <2>2. QED
    BY <2>1, RowsStay
<1>9. QED
  BY <1>1, <1>2, <1>3, <1>4, <1>5, <1>6, <1>7, <1>8 DEF BindingNext

-----------------------------------------------------------------------------
(* The requests. *)

\* Requests that are as before, and rows that come to life only new: so dead ones
\* stay dead.
LEMMA SameRequestsDead ==
  ASSUME IInv, requests' = requests, Rows \subseteq Rows',
         \A b \in Rows : Works(b)' => Works(b)
  PROVE  DeadStaysDead'
  BY DEF IInv, DeadStaysDead

LEMMA RotatedDead ==
  ASSUME IInv, NEW b \in BindingIds, NEW t, Gives(b, t), Rotated(b)
  PROVE  DeadStaysDead'
<1>1. \A c \in BindingIds \ {b} : Works(c)' = Works(c)
  BY GivesRows DEF Works
<1>2. Rows \subseteq Rows' /\ Rows \subseteq BindingIds
  BY GivesRows DEF Rows
<1>3. SUFFICES ASSUME NEW r \in Requests, NEW c \in requests'[r].binding
               PROVE  /\ c \in Rows'
                      /\ requests'[r].dead /\ ~requests'[r].rotated => ~Works(c)'
  BY DEF DeadStaysDead
<1>4. /\ c \in requests[r].binding /\ requests'[r].dead = requests[r].dead
      /\ c # b => requests'[r].rotated \/ requests'[r].rotated = requests[r].rotated
      /\ c = b => requests'[r].rotated
  BY <1>3, RotatedType DEF IInv
<1>5. c \in Rows /\ (requests[r].dead /\ ~requests[r].rotated => ~Works(c))
  BY <1>4 DEF IInv, DeadStaysDead
<1>6. QED
  BY <1>1, <1>2, <1>4, <1>5

LEMMA NextDead == ASSUME IInv, [BindingNext]_bindingVars PROVE DeadStaysDead'
<1>1. ASSUME NEW t \in Tokens, NEW b \in BindingIds, CreateBinding(b, t) PROVE DeadStaysDead'
  <2>1. Gives(b, t) /\ b \notin Rows /\ requests' = requests
    BY <1>1, GivingActions DEF CreateBinding
  <2>2. Rows \subseteq Rows' /\ \A c \in Rows : Works(c)' => Works(c)
    BY <2>1, GivesRows DEF Works, Rows
  <2>3. QED
    BY <2>1, <2>2, SameRequestsDead
<1>2. ASSUME NEW t \in Tokens, NEW s \in SystemSets, EnsureBinding(s, t) PROVE DeadStaysDead'
  <2>1. /\ Gives(SystemOf[s], t) /\ SystemOf[s] \notin Rows /\ requests' = requests
        /\ SystemOf[s] \in BindingIds
    BY <1>2, GivingActions, SystemBindings DEF EnsureBinding
  <2>2. Rows \subseteq Rows' /\ \A c \in Rows : Works(c)' => Works(c)
    BY <2>1, GivesRows DEF Works, Rows
  <2>3. QED
    BY <2>1, <2>2, SameRequestsDead
<1>3. ASSUME NEW t \in Tokens, NEW b \in BindingIds, Rotate(b, t) PROVE DeadStaysDead'
  BY <1>3, GivingActions, RotatedDead DEF Rotate
<1>4. ASSUME NEW t \in Tokens, NEW s \in SystemSets, NEW x \in Resets, ResetRotates(x, s, t)
      PROVE  DeadStaysDead'
  BY <1>4, GivingActions, SystemBindings, RotatedDead DEF ResetRotates
<1>5. ASSUME NEW b \in BindingIds, Revoke(b) \/ Expire(b) PROVE DeadStaysDead'
  <2>1. requests' = requests /\ Rows' = Rows
    BY <1>5 DEF Revoke, Expire, Rows
  <2>2. \A c \in Rows : Works(c)' => Works(c)
    BY <1>5 DEF Revoke, Expire, Works, Rows, IInv, RowsType
  <2>3. QED
    BY <2>1, <2>2, SameRequestsDead
<1>6. ASSUME NEW t \in Tokens, NEW r \in Requests, Lookup(r, t) PROVE DeadStaysDead'
  <2>1. PICK b \in Rows :
          requests' = [requests EXCEPT ![r] =
            [step |-> "found", token |-> t, binding |-> {b}, dead |-> ~Works(b), rotated |-> FALSE]]
    BY <1>6 DEF Lookup
  <2>2. Rows' = Rows /\ \A c \in Rows : Works(c)' = Works(c)
    BY <1>6 DEF Lookup, rowVars, Rows, Works
  <2>3. \A q \in Requests : \A c \in requests'[q].binding :
          \/ c = b /\ requests'[q].dead = ~Works(b)
          \/ /\ c \in requests[q].binding /\ requests'[q].dead = requests[q].dead
             /\ requests'[q].rotated = requests[q].rotated
    BY <2>1 DEF IInv, CallsType
  <2>4. QED
    BY <2>1, <2>2, <2>3 DEF IInv, DeadStaysDead
<1>7. ASSUME NEW r \in Requests, Resolve(r) PROVE DeadStaysDead'
  <2>1. Rows' = Rows /\ \A c \in Rows : Works(c)' = Works(c)
    BY <1>7 DEF Resolve, rowVars, Rows, Works
  <2>2. \A q \in Requests : requests'[q].binding = {} \/ requests'[q] = requests[q]
    BY <1>7 DEF Resolve, NoRequest, IInv, CallsType
  <2>3. QED
    BY <2>1, <2>2 DEF IInv, DeadStaysDead
<1>8. CASE UNCHANGED bindingVars \/ \E s \in SystemSets, x \in Resets : ResetReads(x, s)
  <2>1. UNCHANGED rowVars /\ requests' = requests
    BY <1>8 DEF bindingVars, rowVars, ResetReads
  <2>2. Rows' = Rows /\ \A c \in Rows : Works(c)' = Works(c)
    BY <2>1 DEF rowVars, Rows, Works
  <2>3. QED
    BY <2>1, <2>2, SameRequestsDead
<1>9. QED
  BY <1>1, <1>2, <1>3, <1>4, <1>5, <1>6, <1>7, <1>8 DEF BindingNext

-----------------------------------------------------------------------------
(* The invariant and what follows from it. *)

LEMMA InitIInv == BindingInit => IInv
<1> SUFFICES ASSUME BindingInit PROVE IInv
  OBVIOUS
<1>1. Rows = {} /\ \A r \in Requests : requests[r].binding = {}
  BY DEF BindingInit, Rows, NoRequest
<1>2. NoRequest \in Request
  BY DEF NoRequest, Request
<1>3. RowsType /\ CallsType
  BY <1>2 DEF BindingInit, RowsType, CallsType
<1>4. RowsBegin
  BY SystemBindings DEF BindingInit, RowsBegin
<1>5. TokensApart /\ ResetsHold /\ DeadStaysDead /\ VaultIsUnrevoked
  BY <1>1 DEF BindingInit, TokensApart, ResetsHold, DeadStaysDead, VaultIsUnrevoked
<1>6. QED
  BY <1>3, <1>4, <1>5 DEF IInv

LEMMA Invariance == BindingSpec => []IInv
<1>1. IInv /\ [BindingNext]_bindingVars => IInv'
  BY NextType, NextRows, NextDead DEF IInv
<1>2. QED
  BY InitIInv, <1>1, PTL DEF BindingSpec

\* Every variable keeps its type.
THEOREM BindingTypeCorrect == BindingSpec => []BindingTypeOK
<1>1. IInv => BindingTypeOK
  BY DEF IInv, RowsType, CallsType, BindingTypeOK
<1>2. QED
  BY <1>1, Invariance, PTL

\* What the settings display is the token of an unrevoked binding of that aggregate.
THEOREM VaultShowsUnrevoked == BindingSpec => []VaultIsUnrevoked
<1>1. IInv => VaultIsUnrevoked
  BY DEF IInv
<1>2. QED
  BY <1>1, Invariance, PTL

\* A request that came with an ended token is refused, whatever was done to its
\* binding between its two reads, short of a rotation.
THEOREM EndedRefused == BindingSpec => []EndedIsRefused
<1>1. IInv => EndedIsRefused
  BY DEF IInv, DeadStaysDead, EndedIsRefused, Answered, Admits, Works
<1>2. QED
  BY <1>1, Invariance, PTL

-----------------------------------------------------------------------------
(* The refinement. *)

\* A step after which the tokens that work are some of those before and one of
\* those just issued is a step of Credentials.
LEMMA AbstractStep ==
  ASSUME IInv, NEW new \in SUBSET (Tokens \ issued), new = {} \/ \E t : new = {t},
         issued' = issued \cup new, new \subseteq Live', Live' \subseteq Live \cup new
  PROVE  C!Next
<1>1. Live \subseteq issued
  BY DEF Live, IInv, TokensApart, Rows
<1>2. new \in SUBSET (Tokens \ (Live \cup (issued \ Live)))
  BY <1>1
<1>3. Live' = (Live \ (Live \ Live')) \cup new
  OBVIOUS
<1>4. issued' \ Live' = (issued \ Live) \cup (Live \ Live')
  BY <1>1
<1>5. CASE new = {}
  BY <1>3, <1>4, <1>5, Live \ Live' \in SUBSET Live DEF C!Next
<1>6. CASE \E t : new = {t}
  <2>1. PICK t \in Tokens \ (Live \cup (issued \ Live)) : new = {t}
    BY <1>2, <1>6
  <2>2. QED
    BY <1>3, <1>4, <2>1, Live \ Live' \in SUBSET Live DEF C!Next
<1>7. QED
  BY <1>5, <1>6

LEMMA GivesAbstract ==
  ASSUME IInv, NEW b \in BindingIds, NEW t, Gives(b, t) PROVE C!Next
<1>1. t \in Tokens \ issued /\ issued' = issued \cup {t}
  BY DEF Gives, Fresh
<1>2. t \in Live'
  BY GivesRows DEF Live, Works
<1>3. Live' \subseteq Live \cup {t}
  <2>1. SUFFICES ASSUME NEW c \in Rows', Works(c)' PROVE tokenOf'[c] \in Live \cup {t}
    BY DEF Live
  <2>2. CASE c = b
    BY <2>2, GivesRows
  <2>3. CASE c # b
    <3>1. c \in Rows /\ c \in BindingIds /\ tokenOf'[c] = tokenOf[c] /\ Works(c)
      BY <2>1, <2>3, GivesRows DEF Works, Rows
    <3>2. QED
      BY <3>1 DEF Live
  <2>4. QED
    BY <2>2, <2>3
<1>4. {t} \in SUBSET (Tokens \ issued)
  BY <1>1
<1>5. QED
  BY <1>1, <1>2, <1>3, <1>4, AbstractStep

LEMMA EndingAbstract ==
  ASSUME IInv, NEW b \in BindingIds, Revoke(b) \/ Expire(b) PROVE C!Next
<1>1. Rows' = Rows /\ tokenOf' = tokenOf /\ issued' = issued
  BY DEF Revoke, Expire, Rows
<1>2. \A c \in Rows : Works(c)' => Works(c)
  BY DEF Revoke, Expire, Works, Rows, IInv, RowsType
<1>3. Live' \subseteq Live
  BY <1>1, <1>2 DEF Live
<1>4. QED
  BY <1>1, <1>3, AbstractStep, {} \in SUBSET (Tokens \ issued)

\* A token is issued once, works for a while and never again, whatever is created,
\* ensured, rotated, reset, revoked and expires in any order.
THEOREM TokensAreCredentials == BindingSpec => CredentialsEnd
<1>1. BindingInit => C!Init
  BY DEF BindingInit, C!Init, Live, Rows
<1>2. ASSUME IInv, [BindingNext]_bindingVars PROVE [C!Next]_C!credentials
  <2>1. CASE \E t \in Tokens, b \in BindingIds : CreateBinding(b, t) \/ Rotate(b, t)
    BY <1>2, <2>1, GivingActions, GivesAbstract
  <2>2. CASE \E t \in Tokens, s \in SystemSets :
               EnsureBinding(s, t) \/ \E x \in Resets : ResetRotates(x, s, t)
    BY <1>2, <2>2, GivingActions, GivesAbstract, SystemBindings
  <2>3. CASE \E b \in BindingIds : Revoke(b) \/ Expire(b)
    BY <1>2, <2>3, EndingAbstract
  <2>4. CASE \/ \E s \in SystemSets, x \in Resets : ResetReads(x, s)
             \/ \E t \in Tokens, r \in Requests : Lookup(r, t)
             \/ \E r \in Requests : Resolve(r)
             \/ UNCHANGED bindingVars
    <3>1. UNCHANGED rowVars
      BY <2>4 DEF ResetReads, Lookup, Resolve, bindingVars, rowVars
    <3>2. Live' = Live /\ issued' = issued
      BY <3>1 DEF Live, Rows, Works, rowVars
    <3>3. QED
      BY <3>2 DEF C!credentials
  <2>5. QED
    BY <1>2, <2>1, <2>2, <2>3, <2>4 DEF BindingNext
<1>3. QED
  BY <1>1, <1>2, Invariance, PTL DEF BindingSpec, CredentialsEnd, C!Spec
=============================================================================
