----------------------------- MODULE MCBindings -----------------------------
(* An aggregate with the binding the program makes and one an operator adds. *)
EXTENDS Bindings, TLC

CONSTANTS t1, t2, t3, agg, device, system, reset, request

TheBoundTo == system :> agg @@ device :> agg
TheSystemOf == agg :> system
=============================================================================
