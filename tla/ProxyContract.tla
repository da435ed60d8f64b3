----------------------------- MODULE ProxyContract -----------------------------
(***************************************************************************)
(* What the proxy promises to those who register services with it, without *)
(* files, mutexes and reloads: there is a set of registered services and   *)
(* the configuration HAProxy runs, and a load makes the second say what    *)
(* the first says, all of it at once.                                      *)
(***************************************************************************)
CONSTANTS Request

VARIABLES registered,  \* the registrations in force, at most one per service
          routed       \* the configuration HAProxy runs

contractVars == <<registered, routed>>

\* A configuration that says what the set regs says: every front has its backend.
Says(regs) == [fronts |-> regs, backs |-> regs]

Others(s) == {r \in registered : r.svc # s}

ContractInit == registered = {} /\ routed = Says({})

\* A registration replaces the one the service had.
Register(r) == registered' = Others(r.svc) \cup {r} /\ UNCHANGED routed

Unregister(s) == registered' = Others(s) /\ UNCHANGED routed

Load == routed' = Says(registered) /\ UNCHANGED registered

ContractNext ==
    \/ \E r \in Request : Register(r) \/ Unregister(r.svc)
    \/ Load

Contract == ContractInit /\ [][ContractNext]_contractVars

\* A change is loaded, unless another change undoes it first.
ChangesLoaded == WF_contractVars(Load)

================================================================================
