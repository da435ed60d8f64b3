--------------------------- MODULE MCConfigPipeline ---------------------------
(***************************************************************************)
(* Small instances of ConfigPipeline: two services, two ports, and the     *)
(* requests each run is about.                                             *)
(***************************************************************************)
EXTENDS ConfigPipeline, TLC

CONSTANTS a, b, p, q   \* two services, two ports

MCServices == {a, b}
MCAcls     == {1, 2}
MCPorts    == {p, q}

\* a sorts before b.
Plain(s, n) == [svc |-> s, acl |-> IF s = a THEN 1 ELSE 2, port |-> n,
                feTmpl |-> FALSE, beTmpl |-> FALSE, active |-> TRUE, foreign |-> FALSE]

Templated(s, n) == [Plain(s, n) EXCEPT !.feTmpl = TRUE, !.beTmpl = TRUE]
FrontOnly(s, n) == [Plain(s, n) EXCEPT !.feTmpl = TRUE]
BackOnly(s, n)  == [Plain(s, n) EXCEPT !.beTmpl = TRUE]
Stopped(s, n)   == [Plain(s, n) EXCEPT !.active = FALSE]
Foreign(s, n)   == [Plain(s, n) EXCEPT !.foreign = TRUE]

TwoServices  == {Plain(a, p), Plain(b, p)}
WithUpdate   == TwoServices \cup {Plain(a, q)}
EveryPlain   == WithUpdate \cup {Stopped(b, p), Foreign(a, p)}
WithTemplate == {Plain(a, p), Templated(b, p)}
OneTemplate  == {Plain(a, p), Stopped(a, p), FrontOnly(b, p), BackOnly(b, q)}

\* One thing goes wrong: a name that DNS takes or loses, a fault, a snippet that is
\* lost, or a restart.
OneTrouble == budget.flips + budget.faults + budget.lost + budget.crashes <= 1

\* Workers differ by their names only: for the runs of invariants.
AnyWorker == Permutations(Worker)

================================================================================
