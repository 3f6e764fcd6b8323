------------------------------- MODULE FetchGate -------------------------------
(***************************************************************************)
(* The gate every outbound request of a process goes through               *)
(* (internal/fetch/fetch.go): a circuit and two slots for each route and   *)
(* host.  A slot is held until the body of the answer is closed; each      *)
(* redirect passes the gate of the host it leads to.  Go's client closes   *)
(* the body of a redirect before it follows it.                            *)
(***************************************************************************)
EXTENDS Integers, FiniteSets

CONSTANTS
  Gates,    \* routes and hosts
  Fetches,  \* requests under way
  Hops      \* redirects followed, 4 in the code, which refuses the fifth

ASSUME GateAssumption == Hops \in Nat /\ IsFiniteSet(Fetches)

Slots == 2
Threshold == 3   \* strikes are not counted further: nothing tells them apart

VARIABLES
  taken,     \* the tokens in a host's channel
  strikes,
  open,      \* until lies ahead
  fetches    \* [step, gate, hops]

gateVars == <<taken, strikes, open, fetches>>

\* The steps at which a request's answer is awaited, or is there with a body that
\* has not been closed.
InFlight == {"sent", "redirect", "body"}
FetchState == [step : InFlight \cup {"idle", "wait"}, gate : SUBSET Gates, hops : 0..Hops]
NoFetch == [step |-> "idle", gate |-> {}, hops |-> 0]

GateTypeOK ==
  /\ taken \in [Gates -> Nat]
  /\ strikes \in [Gates -> 0..Threshold] /\ open \in [Gates -> BOOLEAN]
  /\ fetches \in [Fetches -> FetchState]

GateInit ==
  /\ taken = [g \in Gates |-> 0]
  /\ strikes = [g \in Gates |-> 0] /\ open = [g \in Gates |-> FALSE]
  /\ fetches = [r \in Fetches |-> NoFetch]

Becomes(r, f) == fetches' = [fetches EXCEPT ![r] = f]

\* A request passes the circuit of g and queues, or is refused and ends.
Enter(r, f, g) ==
  IF open[g] THEN Becomes(r, NoFetch)
  ELSE Becomes(r, [f EXCEPT !.step = "wait", !.gate = {g}])

Arrive(r, g) ==
  /\ fetches[r] = NoFetch
  /\ Enter(r, NoFetch, g)
  /\ UNCHANGED <<taken, strikes, open>>

\* A slot is free; the circuit is not looked at again.
TakeSlot(r, g) ==
  /\ fetches[r].step = "wait" /\ fetches[r].gate = {g}
  /\ taken[g] < Slots
  /\ taken' = [taken EXCEPT ![g] = @ + 1]
  /\ Becomes(r, [fetches[r] EXCEPT !.step = "sent"])
  /\ UNCHANGED <<strikes, open>>

\* The context ends before a slot is free.
GiveUp(r) ==
  /\ fetches[r].step = "wait"
  /\ Becomes(r, NoFetch)
  /\ UNCHANGED <<taken, strikes, open>>

\* The answer of g is a failure or not.
Counts(g, fails) ==
  /\ strikes' = [strikes EXCEPT ![g] =
       IF ~fails THEN 0 ELSE IF @ < Threshold THEN @ + 1 ELSE @]
  /\ open' = [open EXCEPT ![g] = IF fails THEN @ \/ strikes'[g] = Threshold ELSE FALSE]

\* The headers of an answer: a redirect, another answer below 500, or a 5xx.
Answer(r, g, fails) ==
  /\ fetches[r].step = "sent" /\ fetches[r].gate = {g}
  /\ Counts(g, fails)
  /\ \E step \in {"body", "redirect"} :
       /\ step = "redirect" => ~fails
       /\ Becomes(r, [fetches[r] EXCEPT !.step = step])
  /\ UNCHANGED taken

\* A request without an answer that keeps its slot.
BreakLeaking(r, g) ==
  /\ fetches[r].step = "sent" /\ fetches[r].gate = {g}
  /\ Counts(g, TRUE)
  /\ Becomes(r, NoFetch)
  /\ UNCHANGED taken

\* No answer: the connection fails, or the time is up.
Break(r, g) ==
  /\ fetches[r].step = "sent" /\ fetches[r].gate = {g}
  /\ Counts(g, TRUE)
  /\ taken' = [taken EXCEPT ![g] = @ - 1]
  /\ Becomes(r, NoFetch)

\* The body is read, or not, and closed; a redirect too many or to an unsafe
\* address ends like this too.
Close(r, g) ==
  /\ fetches[r].step \in {"body", "redirect"} /\ fetches[r].gate = {g}
  /\ taken' = [taken EXCEPT ![g] = @ - 1]
  /\ Becomes(r, NoFetch)
  /\ UNCHANGED <<strikes, open>>

\* The redirect's body is closed, and the request passes the gate it leads to.
Follow(r, g, to) ==
  /\ fetches[r].step = "redirect" /\ fetches[r].gate = {g} /\ fetches[r].hops < Hops
  /\ taken' = [taken EXCEPT ![g] = @ - 1]
  /\ Enter(r, [fetches[r] EXCEPT !.hops = @ + 1], to)
  /\ UNCHANGED <<strikes, open>>

\* The minute passes; the strikes stay counted.
Passes(g) ==
  /\ open[g]
  /\ open' = [open EXCEPT ![g] = FALSE]
  /\ UNCHANGED <<taken, strikes, fetches>>

GateNext ==
  \/ \E r \in Fetches, g \in Gates :
       \/ Arrive(r, g) \/ TakeSlot(r, g) \/ Break(r, g) \/ Close(r, g)
       \/ \E fails \in BOOLEAN : Answer(r, g, fails)
       \/ \E to \in Gates : Follow(r, g, to)
  \/ \E r \in Fetches : GiveUp(r)
  \/ \E g \in Gates : Passes(g)

GateSpec == GateInit /\ [][GateNext]_gateVars

-----------------------------------------------------------------------------
(* Properties. *)

Holders(g) == {r \in Fetches : fetches[r].step \in InFlight /\ fetches[r].gate = {g}}

\* docs/design.md: at most two requests of a host; and fetch.go: "every redirect
\* acquires the destination host's budget".  The slots taken of a host are those of
\* its requests in flight, however requests end, redirect and give up: none is
\* lost, and one that queues has given back the slot of the host that sent it
\* there, or requests that redirect to one another's hosts would wait for ever.
SlotsAreHeld ==
  \A g \in Gates : taken[g] = Cardinality(Holders(g)) /\ taken[g] <= Slots
=============================================================================
