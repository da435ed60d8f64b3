---------------------------- MODULE MCListenerFetch ----------------------------
(* Instances of ListenerFetch: one listener, with and without repetition, and *)
(* two of them; HAProxy with and without DO_NOT_RESOLVE_ADDR.                 *)
EXTENDS ListenerFetch

CONSTANTS L1, L2

Req(svc, home, labels, valid) == [svc |-> svc, home |-> home, labels |-> labels, valid |-> valid]

a1 == Req("a", L1, 1, TRUE)
a2 == Req("a", L1, 2, TRUE)
b1 == Req("b", L1, 1, TRUE)
bad == Req("b", L1, 2, FALSE)
c1 == Req("b", L2, 1, TRUE)
env == Req("e", None, 1, TRUE)

Requests  == {a1, a2, b1, bad, c1, env}
Listeners == {L1, L2}

Base == [listeners |-> {L1}, attempts |-> 2, repeat |-> FALSE, lenient |-> TRUE,
         validates |-> FALSE, environment |-> <<>>, lossy |-> FALSE, world |-> {a1, a2}]

OneShot   == [Base EXCEPT !.environment = <<env>>, !.world = {a1, a2}]
Batches   == [Base EXCEPT !.world = {a1, b1, bad}]
Repeating == [Base EXCEPT !.repeat = TRUE, !.lossy = TRUE]
Strict    == [Base EXCEPT !.repeat = TRUE, !.lenient = FALSE, !.world = {a1, b1}]
Validated == [Strict EXCEPT !.validates = TRUE]
Several   == [Base EXCEPT !.listeners = {L1, L2}, !.world = {a1, c1}]

Everything == {OneShot, Batches, Repeating, Strict, Validated, Several}
Plain      == {Base}

================================================================================
