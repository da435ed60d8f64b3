------------------------------- MODULE CertSync -------------------------------
(***************************************************************************)
(* The replicas of the proxy: a request is sent to every replica the DNS   *)
(* knows, each writes the certificate, registers or removes the service,   *)
(* writes the list of certificates and reloads, and a replica that starts  *)
(* copies the certificates of another one.                                 *)
(*                                                                         *)
(* On one replica, registrations and reloads are those of ProxyContract.   *)
(* HAProxy refuses a list with a file that is no certificate, and writing   *)
(* a certificate may fail.  That HAProxy may refuse a configuration for     *)
(* other reasons, and that its own files may not be written, is the subject *)
(* of ConfigPipeline, as is the mutual exclusion of its reloads.  The       *)
(* services a replica that starts fetches are the subject of ListenerFetch. *)
(***************************************************************************)
EXTENDS Naturals, FiniteSets

CONSTANTS
    Replica,
    Cert,      \* names of certificates
    Service,   \* names of services
    Content,   \* what a file can hold that HAProxy accepts
    Bad,       \* what it can hold that HAProxy refuses
    Empty,     \* a file that was created and not yet written
    Offer,     \* the requests there are: put, reconfigure, remove
    World,     \* the deployments there are
    Op,        \* clients
    None

\* A deployment has some replicas, some requests, and, if it is calm, never two
\* things at a time.  If it is faulty, /certs may be full, read-only or gone.
WorldRecord == [replicas: SUBSET Replica, offers: SUBSET Offer, calm: BOOLEAN, faulty: BOOLEAN]

\* What a request says of a certificate, and of a service: the version to route,
\* None to remove it.
OfferRecord == [cert: Cert \cup {None}, content: Content \cup {Bad, None},
                svc: Service \cup {None}, version: Nat \cup {None}]

ASSUME CertAssumption ==
    /\ Offer \subseteq OfferRecord /\ None \notin Offer /\ World \subseteq WorldRecord
    /\ \A f \in Offer : /\ f.cert = None <=> f.content = None
                        /\ f.cert # None \/ f.svc # None
                        /\ f.version # None => f.svc # None
                        /\ f.cert # None /\ f.svc # None => f.version # None
    /\ IsFiniteSet(Replica) /\ IsFiniteSet(Cert)
    /\ Bad \notin Content /\ Empty \notin Content /\ None \notin Content
    /\ None \notin {Bad, Empty} /\ None \notin Replica \cup Op \cup Cert \cup Service \cup Nat

VARIABLES
    world,    \* the deployment; it does not change
    phase,    \* of the process on each replica: down, starting, serving
    disk,     \* /certs
    crtList,  \* /cfg/crt-list.txt
    loaded,   \* the certificates HAProxy serves
    registered, \* the version of each service
    routed,   \* the version of each service HAProxy routes
    mu,       \* the holder of the mutex of cert.go
    joiner,   \* Init of a replica that starts: whom to ask, the best answer so far
    client,   \* the request each client waits for, the replicas it is sent to
    handler,  \* what each replica does for each client
    promise,  \* ghost: the latest request of each client that was answered OK, and
              \* the replicas where nothing has undone it
    unfinished, \* ghost: the replicas that answered, or will answer, the latest request
              \* of each client although they have not written the certificate, or
              \* have not loaded HAProxy without the service
    latest    \* ghost: the certificates that were put, None once things overlapped

serviceVars == <<registered, routed>>
replicaVars == <<phase, disk, crtList, loaded, mu, joiner, serviceVars>>
ghostVars   == <<promise, unfinished, latest>>
vars == <<world, replicaVars, client, handler, ghostVars>>

NoFiles    == [c \in Cert |-> None]
NoServices == [s \in Service |-> None]
Off      == [pc |-> "off", offer |-> None, listing |-> {}, undo |-> FALSE]
NoJoin   == [left |-> {}, best |-> NoFiles]
NoClient == [offer |-> None, via |-> None, to |-> {}, left |-> {}, at |-> None, failed |-> FALSE]

Files(d) == {c \in Cert : d[c] # None}
Serving  == {r \in Replica : phase[r] = "serving"}
Busy(o)  == client[o].offer # None \/ \E r \in Replica : handler[o][r] # Off

\* haproxy -c: every file on the list is a certificate.
Valid(d, list) == \A c \in list : d[c] \in Content

\* One thing at a time: no two requests, no request while a replica is away, and
\* no two replicas away.
Calm ==
    /\ Serving # {} /\ Cardinality(world.replicas \ Serving) <= 1
    /\ \A o, p \in Op : Busy(o) /\ Busy(p) => o = p
    /\ (\E o \in Op : Busy(o)) => Serving = world.replicas

Init ==
    /\ world \in World
    /\ phase = [r \in Replica |-> IF r \in world.replicas THEN "serving" ELSE "down"]
    /\ disk = [r \in Replica |-> NoFiles]
    /\ crtList = [r \in Replica |-> {}]
    /\ loaded = [r \in Replica |-> NoFiles]
    /\ mu = [r \in Replica |-> None]
    /\ registered = [r \in Replica |-> NoServices]
    /\ routed = [r \in Replica |-> NoServices]
    /\ joiner = [r \in Replica |-> NoJoin]
    /\ client = [o \in Op |-> NoClient]
    /\ handler = [o \in Op |-> [r \in Replica |-> Off]]
    /\ promise = [o \in Op |-> None]
    /\ unfinished = [o \in Op |-> {}]
    /\ latest = NoFiles

--------------------------------------------------------------------------------
(* sendDistributeRequests *)

\* A client asks the replica via, which looks up the replicas to.  The DNS may
\* not know a new one yet and still know an old one; without distribute, the
\* request is for via itself.
Request(o, offer, via, to) ==
    /\ ~Busy(o) /\ via \in Serving /\ to # {}
    /\ client' = [client EXCEPT ![o] = [NoClient EXCEPT !.offer = offer, !.via = via,
                                                        !.to = to, !.left = to]]
    /\ promise' = [promise EXCEPT ![o] = None]
    /\ unfinished' = [unfinished EXCEPT ![o] = {}]
    /\ UNCHANGED <<replicaVars, handler>>
    /\ latest' = IF Calm' /\ to = world.replicas /\ offer.content # Bad THEN latest ELSE None

\* One replica after the other; one that does not listen has failed.
Send(o, r) ==
    /\ client[o].at = None /\ r \in client[o].left
    /\ IF phase[r] = "serving"
       THEN /\ client' = [client EXCEPT ![o] = [client[o] EXCEPT !.at = r]]
            /\ handler' = [handler EXCEPT ![o][r] =
                   [Off EXCEPT !.pc = IF client[o].offer.cert # None THEN "open" ELSE "configure",
                               !.offer = client[o].offer]]
       ELSE /\ client' = [client EXCEPT ![o] =
                   [client[o] EXCEPT !.left = client[o].left \ {r}, !.failed = TRUE]]
            /\ UNCHANGED handler
    /\ UNCHANGED <<replicaVars, ghostVars>>

\* A promise about no replica is none.
Kept(p) == IF p = None THEN None ELSE IF p.to = {} THEN None ELSE p

\* OK if no replica has failed.  What was put on the others stays there.
Reply(o) ==
    LET offer == client[o].offer
    IN  /\ offer # None /\ client[o].left = {}
        /\ promise' = [promise EXCEPT ![o] = IF client[o].failed THEN None
                                             ELSE Kept([offer |-> offer, to |-> client[o].to])]
        /\ client' = [client EXCEPT ![o] = NoClient]
        /\ latest' = IF latest = None \/ offer.cert = None THEN latest
                     ELSE [latest EXCEPT ![offer.cert] = offer.content]
        /\ UNCHANGED <<replicaVars, handler, unfinished>>

--------------------------------------------------------------------------------
(* The handler of one replica: Put, or ReconfigureHandler with serviceCert *)

\* The handler of o on r changes what others ask for too: neither what they were
\* promised nor what they wait for holds there.
Overwrite(o, r) ==
    LET own     == handler[o][r].offer
        Same(f) == f # None /\ \/ f.cert = own.cert /\ own.cert # None
                               \/ f.svc = own.svc /\ own.svc # None
    IN  /\ client' = [p \in Op |-> IF p # o /\ Same(client[p].offer)
                                   THEN [client[p] EXCEPT !.to = @ \ {r}] ELSE client[p]]
        /\ promise' = [p \in Op |-> IF p # o /\ promise[p] # None /\ Same(promise[p].offer)
                                    THEN Kept([promise[p] EXCEPT !.to = @ \ {r}]) ELSE promise[p]]

Goto(o, r, l) == handler' = [handler EXCEPT ![o][r] = [handler[o][r] EXCEPT !.pc = l]]

\* The sender, unless it is gone, is told whether the replica took the request.
Return(o, r, ok) ==
    /\ handler' = [handler EXCEPT ![o][r] = Off]
    /\ client' = [client EXCEPT ![o] =
                    IF client[o].at # r THEN client[o]
                    ELSE [client[o] EXCEPT !.at = None, !.left = client[o].left \ {r},
                                           !.failed = client[o].failed \/ ~ok]]

Unfinished(o, r) == unfinished' = [unfinished EXCEPT ![o] = @ \cup {r}]

\* Mutant: the file is created without the mutex.
OpenUnlocked(o, r) ==
    /\ handler[o][r].pc = "open"
    /\ disk' = [disk EXCEPT ![r][handler[o][r].offer.cert] = Empty]
    /\ Goto(o, r, "fill")
    /\ Overwrite(o, r)
    /\ UNCHANGED <<phase, crtList, loaded, mu, joiner, serviceVars, unfinished, latest>>

\* writeFile: os.Create, with the mutex.
Open(o, r) ==
    /\ handler[o][r].pc = "open" /\ mu[r] = None
    /\ mu' = [mu EXCEPT ![r] = o]
    /\ disk' = [disk EXCEPT ![r][handler[o][r].offer.cert] = Empty]
    /\ Goto(o, r, "fill")
    /\ Overwrite(o, r)
    /\ UNCHANGED <<phase, crtList, loaded, joiner, serviceVars, unfinished, latest>>

\* os.Create fails.  Put says so; ReconfigureHandler drops the error and goes on.
OpenFails(o, r) ==
    /\ world.faulty /\ handler[o][r].pc = "open" /\ mu[r] = None
    /\ IF handler[o][r].offer.svc = None
       THEN Return(o, r, FALSE) /\ UNCHANGED unfinished
       ELSE Goto(o, r, "configure") /\ Unfinished(o, r) /\ UNCHANGED client
    /\ latest' = None
    /\ UNCHANGED <<replicaVars, promise>>

\* writeFile: f.Write, and the end of the mutex.
Fill(o, r) ==
    /\ handler[o][r].pc = "fill"
    /\ disk' = [disk EXCEPT ![r][handler[o][r].offer.cert] = handler[o][r].offer.content]
    /\ mu' = [mu EXCEPT ![r] = None]
    /\ Goto(o, r, IF handler[o][r].offer.svc # None THEN "configure" ELSE "list")
    /\ UNCHANGED <<phase, crtList, loaded, joiner, serviceVars, client, ghostVars>>

\* f.Write fails, which nobody looks at: the file stays without its content.
FillFails(o, r) ==
    /\ world.faulty /\ handler[o][r].pc = "fill"
    /\ mu' = [mu EXCEPT ![r] = None]
    /\ Goto(o, r, IF handler[o][r].offer.svc # None THEN "configure" ELSE "list")
    /\ Unfinished(o, r)
    /\ latest' = None
    /\ UNCHANGED <<phase, disk, crtList, loaded, joiner, serviceVars, client, promise>>

\* Reconfigure.Execute up to the reload.
Register(o, r) ==
    LET offer == handler[o][r].offer
    IN  /\ handler[o][r].pc = "configure" /\ ~handler[o][r].undo /\ offer.version # None
        /\ registered' = [registered EXCEPT ![r][offer.svc] = offer.version]
        /\ Goto(o, r, "list")
        /\ Overwrite(o, r)
        /\ UNCHANGED <<phase, disk, crtList, loaded, mu, joiner, routed, unfinished, latest>>

\* Remove.Execute up to the reload, which a service that is not there does not
\* need; also the removal after a failed reload.
Unregister(o, r) ==
    LET svc == handler[o][r].offer.svc
    IN  /\ handler[o][r].pc = "configure"
        /\ handler[o][r].undo \/ handler[o][r].offer.version = None
        /\ IF registered[r][svc] = None
           THEN /\ Return(o, r, ~handler[o][r].undo)
                /\ Unfinished(o, r)
                /\ UNCHANGED <<registered, promise>>
           ELSE /\ registered' = [registered EXCEPT ![r][svc] = None]
                /\ Goto(o, r, "list")
                /\ Overwrite(o, r)
                /\ UNCHANGED unfinished
        /\ UNCHANGED <<phase, disk, crtList, loaded, mu, joiner, routed, latest>>

\* Mutant: the certificate that was just written is not listed.
ListWithoutOwn(o, r) ==
    /\ handler[o][r].pc = "list"
    /\ handler' = [handler EXCEPT ![o][r] =
          [handler[o][r] EXCEPT !.pc = "write",
                                !.listing = Files(disk[r]) \ {handler[o][r].offer.cert}]]
    /\ UNCHANGED <<replicaVars, client, ghostVars>>

\* GetCertPaths, before certMu is taken.
List(o, r) ==
    /\ handler[o][r].pc = "list"
    /\ handler' = [handler EXCEPT ![o][r] =
          [handler[o][r] EXCEPT !.pc = "write", !.listing = Files(disk[r])]]
    /\ UNCHANGED <<replicaVars, client, ghostVars>>

\* getCertsConfigSnippet writes the list, with certMu.
WriteList(o, r) ==
    /\ handler[o][r].pc = "write"
    /\ crtList' = [crtList EXCEPT ![r] = handler[o][r].listing]
    /\ handler' = [handler EXCEPT ![o][r] = [handler[o][r] EXCEPT !.pc = "load", !.listing = {}]]
    /\ UNCHANGED <<phase, disk, loaded, mu, joiner, serviceVars, client, ghostVars>>

\* HaProxy.Reload.
Load(o, r) ==
    /\ handler[o][r].pc = "load" /\ Valid(disk[r], crtList[r])
    /\ loaded' = [loaded EXCEPT ![r] = [c \in Cert |->
                                          IF c \in crtList[r] THEN disk[r][c] ELSE None]]
    /\ routed' = [routed EXCEPT ![r] = registered[r]]
    /\ Return(o, r, ~handler[o][r].undo)
    /\ UNCHANGED <<phase, disk, crtList, mu, joiner, registered, ghostVars>>

\* Its attempts are used up.  Put and RemoveHandler ignore it; a service that was
\* to be configured is removed, but its certificate is not.
GiveUp(o, r) ==
    /\ handler[o][r].pc = "load" /\ ~Valid(disk[r], crtList[r])
    /\ IF handler[o][r].offer.version # None /\ ~handler[o][r].undo
       THEN /\ handler' = [handler EXCEPT ![o][r] =
                   [handler[o][r] EXCEPT !.pc = "configure", !.undo = TRUE]]
            /\ UNCHANGED <<client, unfinished>>
       ELSE /\ Return(o, r, ~handler[o][r].undo)
            /\ IF handler[o][r].offer.svc = None THEN UNCHANGED unfinished ELSE Unfinished(o, r)
    /\ UNCHANGED <<replicaVars, promise, latest>>

--------------------------------------------------------------------------------
(* Replicas come and go *)

\* Mutant: the sender waits for the answer of a replica that is gone.
CrashUnnoticed(r) ==
    /\ phase[r] # "down"
    /\ phase' = [phase EXCEPT ![r] = "down"]
    /\ disk' = [disk EXCEPT ![r] = NoFiles] /\ crtList' = [crtList EXCEPT ![r] = {}]
    /\ loaded' = [loaded EXCEPT ![r] = NoFiles]
    /\ registered' = [registered EXCEPT ![r] = NoServices]
    /\ routed' = [routed EXCEPT ![r] = NoServices]
    /\ mu' = [mu EXCEPT ![r] = None] /\ joiner' = [joiner EXCEPT ![r] = NoJoin]
    /\ handler' = [o \in Op |-> [handler[o] EXCEPT ![r] = Off]]
    /\ client' = [o \in Op |-> IF client[o].via = r THEN NoClient
                                   ELSE [client[o] EXCEPT !.to = @ \ {r}]]
    /\ promise' = [o \in Op |-> IF promise[o] = None THEN None
                                ELSE Kept([promise[o] EXCEPT !.to = @ \ {r}])]
    /\ latest' = IF Calm' /\ \A o \in Op : ~Busy(o) THEN latest ELSE None
    /\ UNCHANGED unfinished

\* The container ends, with its files, its handlers and the requests it
\* forwards; whoever waits for it gets an error.
Crash(r) ==
    /\ phase[r] # "down"
    /\ phase' = [phase EXCEPT ![r] = "down"]
    /\ disk' = [disk EXCEPT ![r] = NoFiles] /\ crtList' = [crtList EXCEPT ![r] = {}]
    /\ loaded' = [loaded EXCEPT ![r] = NoFiles]
    /\ registered' = [registered EXCEPT ![r] = NoServices]
    /\ routed' = [routed EXCEPT ![r] = NoServices]
    /\ mu' = [mu EXCEPT ![r] = None] /\ joiner' = [joiner EXCEPT ![r] = NoJoin]
    /\ handler' = [o \in Op |-> [handler[o] EXCEPT ![r] = Off]]
    /\ client' = [o \in Op |->
                    IF client[o].via = r THEN NoClient
                    ELSE IF client[o].at = r
                    THEN [client[o] EXCEPT !.at = None, !.left = @ \ {r}, !.to = @ \ {r},
                                           !.failed = TRUE]
                    ELSE [client[o] EXCEPT !.to = @ \ {r}]]
    /\ promise' = [o \in Op |-> IF promise[o] = None THEN None
                                ELSE Kept([promise[o] EXCEPT !.to = @ \ {r}])]
    /\ latest' = IF Calm' /\ \A o \in Op : ~Busy(o) THEN latest ELSE None
    /\ UNCHANGED unfinished

\* serve.Execute up to the lookup in Init, which may miss replicas.  Nobody
\* listens on the replica itself yet.
Start(r, to) ==
    /\ phase[r] = "down"
    /\ phase' = [phase EXCEPT ![r] = "starting"]
    /\ joiner' = [joiner EXCEPT ![r] = [NoJoin EXCEPT !.left = to]]
    /\ UNCHANGED <<disk, crtList, loaded, mu, serviceVars, client, handler, promise, unfinished>>
    /\ latest' = IF Serving \subseteq to THEN latest ELSE None

\* What a replica answers: its files, one that is being written as it is.
GetAll(q) == IF phase[q] = "serving" THEN disk[q] ELSE NoFiles

\* An answer is kept if it has more certificates than any before.
Ask(r, q) ==
    /\ phase[r] = "starting" /\ q \in joiner[r].left
    /\ joiner' = [joiner EXCEPT ![r] =
          [left |-> @.left \ {q},
           best |-> IF Cardinality(Files(GetAll(q))) > Cardinality(Files(@.best))
                    THEN GetAll(q) ELSE @.best]]
    /\ UNCHANGED <<phase, disk, crtList, loaded, mu, serviceVars, client, handler, ghostVars>>

\* The rest of Init, with the files d: the configuration is generated and loaded,
\* all before the replica listens.
Listen(r, d) ==
    /\ phase[r] = "starting" /\ joiner[r].left = {}
    /\ phase' = [phase EXCEPT ![r] = "serving"]
    /\ joiner' = [joiner EXCEPT ![r] = NoJoin]
    /\ disk' = [disk EXCEPT ![r] = d]
    /\ crtList' = [crtList EXCEPT ![r] = Files(d)]
    /\ loaded' = [loaded EXCEPT ![r] = IF Valid(d, Files(d)) THEN d ELSE @]
    /\ UNCHANGED <<mu, serviceVars, client, handler, promise, unfinished>>

Join(r) == Listen(r, joiner[r].best) /\ UNCHANGED latest

\* Init drops the errors of writeFile: some files are missing, some are torn.
JoinPartly(r) ==
    /\ world.faulty
    /\ \E missing, torn \in SUBSET Files(joiner[r].best) :
          /\ missing \cup torn # {}
          /\ Listen(r, [c \in Cert |-> IF c \in missing THEN None ELSE IF c \in torn THEN Empty
                                       ELSE joiner[r].best[c]])
    /\ latest' = None

--------------------------------------------------------------------------------
Handler(o, r) ==
    \/ Open(o, r) \/ OpenFails(o, r) \/ Fill(o, r) \/ FillFails(o, r)
    \/ Register(o, r) \/ Unregister(o, r)
    \/ List(o, r) \/ WriteList(o, r) \/ Load(o, r) \/ GiveUp(o, r)

Step ==
    \/ \E o \in Op, f \in world.offers, r \in world.replicas, to \in SUBSET world.replicas :
          Request(o, f, r, to)
    \/ \E o \in Op, r \in world.replicas : Send(o, r) \/ Handler(o, r)
    \/ \E o \in Op : Reply(o)
    \/ \E r \in world.replicas : Crash(r) \/ Join(r) \/ JoinPartly(r)
    \/ \E r \in world.replicas : \E to \in SUBSET (world.replicas \ {r}) : Start(r, to)
    \/ \E r, q \in world.replicas : Ask(r, q)

Next == UNCHANGED world /\ Step /\ (world.calm => latest' # None)

Spec == Init /\ [][Next]_vars

--------------------------------------------------------------------------------
(* Properties *)

File == Content \cup {Bad, Empty, None}

HandlerState == [pc: {"off", "open", "fill", "configure", "list", "write", "load"},
                 offer: Offer \cup {None}, listing: SUBSET Cert, undo: BOOLEAN]

ClientState == [offer: Offer \cup {None}, via: Replica \cup {None}, to: SUBSET Replica,
                left: SUBSET Replica, at: Replica \cup {None}, failed: BOOLEAN]

\* The variables hold what the code can hold; in particular a sender waits only
\* for a replica that works for it.
TypeOK ==
    /\ world \in World
    /\ phase \in [Replica -> {"down", "starting", "serving"}]
    /\ disk \in [Replica -> [Cert -> File]] /\ loaded \in [Replica -> [Cert -> File]]
    /\ crtList \in [Replica -> SUBSET Cert]
    /\ mu \in [Replica -> Op \cup {None}]
    /\ registered \in [Replica -> [Service -> Nat \cup {None}]]
    /\ routed \in [Replica -> [Service -> Nat \cup {None}]]
    /\ joiner \in [Replica -> [left: SUBSET Replica, best: [Cert -> File]]]
    /\ handler \in [Op -> [Replica -> HandlerState]]
    /\ client \in [Op -> ClientState]
    /\ \A o \in Op : client[o].at # None => handler[o][client[o].at].pc # "off"
    /\ promise \in [Op -> [offer: Offer, to: SUBSET Replica] \cup {None}]
    /\ unfinished \in [Op -> SUBSET Replica]
    /\ latest \in [Cert -> File] \cup {None}

\* A client that was told OK finds on every replica that was addressed what it
\* asked for, the certificate written and the service registered and routed, or
\* neither, unless that replica has restarted, or has since handled another request
\* for the same certificate or service.  Two things an OK does not say: the handlers
\* drop the error of writing a certificate, and that of the reload after a removal
\* (one of a service that is not there reloads nothing).  What holds without these
\* exceptions is that a service is registered as asked, and a version routed.
OkMeansEverywhere ==
    \A o \in Op : promise[o] # None =>
        LET offer == promise[o].offer
        IN  \A r \in promise[o].to :
               /\ offer.svc # None => registered[r][offer.svc] = offer.version
               /\ offer.version # None => routed[r][offer.svc] = offer.version
               /\ r \notin unfinished[o] =>
                     /\ offer.cert # None => disk[r][offer.cert] = offer.content
                     /\ offer.svc # None => routed[r][offer.svc] = offer.version

\* docs/usage.md, "Removes a service from the proxy", and of serviceCert "to be used by
\* the proxy when serving traffic"; docs/certs.md, "they will all be added to the
\* proxy": once no request is under way, HAProxy serves what each OK was about, but
\* for a file that is no certificate, and does not route what was removed.
ServedWhenOk ==
    (\A o \in Op : ~Busy(o)) =>
        \A o \in Op : promise[o] # None =>
            LET offer == promise[o].offer
            IN  \A r \in promise[o].to :
                   /\ offer.content \in Content => loaded[r][offer.cert] = offer.content
                   /\ offer.svc # None => routed[r][offer.svc] = offer.version

\* "When a new replica is deployed, it will synchronize with other replicas and
\* recuperate their certificates": as long as one thing happens at a time, every
\* replica that is up serves exactly the certificates that were put, the latest
\* of each name, however often each of them restarts.  What latest stands for
\* is the condition: each request is sent to all replicas, each replica that
\* starts finds all that serve, what is put is a certificate, and every file is
\* written.
CertsSurvive ==
    latest # None /\ (\A o \in Op : ~Busy(o)) =>
        \A r \in Serving : disk[r] = latest /\ loaded[r] = latest

================================================================================
