-------------------------- MODULE PipelineRefinement --------------------------
(***************************************************************************)
(* One worker at a time keeps the contract of the proxy: a registration    *)
(* takes effect in the map at AddService, a removal at RemoveService, a    *)
(* load at Launch; everything between is a stutter.                        *)
(***************************************************************************)
EXTENDS ConfigPipeline

Registered == {services[s] : s \in Service} \ {None}

Promise == INSTANCE ProxyContract WITH registered <- Registered, routed <- running

\* Handled one after the other, requests of services that resolve or not,
\* updates, removals and recreates only ever make HAProxy load exactly the
\* services of the map: the detailed pipeline implements the contract.
KeepsContract == Promise!Contract

\* And what was registered or removed is loaded in the end, or undone.
LoadsChanges == Promise!ChangesLoaded

================================================================================
