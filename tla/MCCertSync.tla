------------------------------ MODULE MCCertSync ------------------------------
(* Instances of CertSync: three replicas that restart one at a time, and two  *)
(* where everything overlaps, with certificates, with updates of a service,   *)
(* or with certificates that cannot be written.                               *)
EXTENDS CertSync, TLC

CONSTANTS R1, R2, R3, X, Y, Old, New, S, O1, O2

Put(c, f)        == [cert |-> c, content |-> f, svc |-> None, version |-> None]
Reconfigure(s, v) == [cert |-> None, content |-> None, svc |-> s, version |-> v]
WithCert(s, c, f) == [cert |-> c, content |-> f, svc |-> s, version |-> 1]
Remove(s)         == Reconfigure(s, None)

Replicas == {R1, R2, R3}
Certs    == {X, Y}
Contents == {Old, New}
Ops      == {O1, O2}
Services == {S}
Offers   == {Put(X, Old), Put(Y, Old), WithCert(S, X, New), WithCert(S, X, Bad), Put(X, Bad), Reconfigure(S, 1),
             Reconfigure(S, 2), Remove(S)}

Rolling  == [replicas |-> Replicas, calm |-> TRUE, faulty |-> FALSE,
             offers |-> {Put(X, Old), WithCert(S, X, New), Put(Y, Old)}]
Clashing == [replicas |-> {R1, R2}, calm |-> FALSE, faulty |-> FALSE,
             offers |-> {Put(X, Old), WithCert(S, X, Bad)}]
Updating == [replicas |-> {R1, R2}, calm |-> FALSE, faulty |-> FALSE,
             offers |-> {Reconfigure(S, 1), Reconfigure(S, 2), Remove(S)}]

Failing  == [replicas |-> {R1}, calm |-> FALSE, faulty |-> TRUE,
             offers |-> {Put(X, Old), WithCert(S, X, New)}]
Copying  == [replicas |-> {R1, R2}, calm |-> FALSE, faulty |-> TRUE,
             offers |-> {Put(X, Old)}]

Worlds   == {Rolling, Clashing, Updating, Failing, Copying}

\* One replica and one client: a certificate that HAProxy refuses and a service that
\* is removed, or a certificate that cannot be written; and, with two clients, two
\* certificates at a time.
OneOp    == {O1}
Refusing  == {[replicas |-> {R1}, calm |-> FALSE, faulty |-> FALSE,
               offers |-> {Put(X, Bad), Reconfigure(S, 1), Remove(S)}]}
Unwritten == {[replicas |-> {R1}, calm |-> FALSE, faulty |-> TRUE, offers |-> {WithCert(S, X, New)}]}
Overlapping == {[replicas |-> {R1}, calm |-> FALSE, faulty |-> FALSE,
                 offers |-> {Put(X, Old), Put(Y, Old)}]}

\* Clients are alike, and so are the replicas that are in every deployment.
Alike == Permutations(Ops) \cup Permutations({R1, R2})

================================================================================
