----------------------------- MODULE Credentials -----------------------------
(***************************************************************************)
(* What a subscription token is to its holder: it is issued once, it opens *)
(* the subscription for a while, and once it has ended it stays so.        *)
(* Bindings implements it, with rows, generations, revocation and expiry.  *)
(***************************************************************************)
CONSTANT Tokens

VARIABLES
  live,    \* tokens that open a subscription
  ended    \* tokens that did

credentials == <<live, ended>>

Init == live = {} /\ ended = {}

\* Any number of tokens may end in a step and one may be issued.
Next ==
  \E gone \in SUBSET live :
    /\ ended' = ended \cup gone
    /\ \/ live' = live \ gone
       \/ \E t \in Tokens \ (live \cup ended) : live' = (live \ gone) \cup {t}

Spec == Init /\ [][Next]_credentials
=============================================================================
