------------------------------- MODULE Services -------------------------------
(***************************************************************************)
(* The components around the sources, each on its own: the bridges, the    *)
(* bindings, the catalogs, the runtimes, the fetch gate, the transfers and *)
(* the compilation of publications.  They share no state here, so that no  *)
(* interleaving of two of them shows anything the steps of one do not: a   *)
(* behaviour is one of one of the components, chosen at the start.         *)
(***************************************************************************)
EXTENDS BridgeSync, Bindings, Catalogs, Runtimes, FetchGate, Transfer, Compilation

VARIABLE component   \* the one that moves

Init ==
  /\ component \in {"bridges", "bindings", "catalogs", "runtimes", "gate", "transfer", "compilation"}
  /\ BridgeInit /\ BindingInit /\ CatalogInit /\ RuntimeInit /\ GateInit
  /\ TransferInit /\ CompilationInit

Next ==
  /\ UNCHANGED component
  /\ \/ /\ component = "bridges" /\ BridgeNext
        /\ UNCHANGED <<bindingVars, catalogVars, runtimeVars, gateVars, transferVars, publication>>
     \/ /\ component = "bindings" /\ BindingNext
        /\ UNCHANGED <<bridgeVars, catalogVars, runtimeVars, gateVars, transferVars, publication>>
     \/ /\ component = "catalogs" /\ CatalogNext
        /\ UNCHANGED <<bridgeVars, bindingVars, runtimeVars, gateVars, transferVars, publication>>
     \/ /\ component = "runtimes" /\ RuntimeNext
        /\ UNCHANGED <<bridgeVars, bindingVars, catalogVars, gateVars, transferVars, publication>>
     \/ /\ component = "gate" /\ GateNext
        /\ UNCHANGED <<bridgeVars, bindingVars, catalogVars, runtimeVars, transferVars, publication>>
     \/ /\ component = "transfer" /\ TransferNext
        /\ UNCHANGED <<bridgeVars, bindingVars, catalogVars, runtimeVars, gateVars, publication>>
     \/ /\ component = "compilation" /\ CompilationNext
        /\ UNCHANGED <<bridgeVars, bindingVars, catalogVars, runtimeVars, gateVars, transferVars>>

Spec ==
  Init /\ [][Next]_<<component, bridgeVars, bindingVars, catalogVars, runtimeVars, gateVars,
                     transferVars, publication>>
=============================================================================
