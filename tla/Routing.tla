-------------------------------- MODULE Routing --------------------------------
(***************************************************************************)
(* From the parameters of a service to the routes of haproxy.cfg: how the  *)
(* parameters of a request, or of the environment, become a list of        *)
(* destinations, which requests are refused, which backend sections are    *)
(* written to the -be.cfg file of a service, and which rules the frontends *)
(* are given when the configuration is generated from all registered       *)
(* services.                                                               *)
(*                                                                         *)
(* Requests are handled one after the other here; what happens when they   *)
(* overlap is the subject of ConfigPipeline.                               *)
(***************************************************************************)
EXTENDS Naturals, FiniteSets, Users

CONSTANTS
    Deployment,  \* the deployments there are, by name: what each sends and is started with
    MaxIndex,    \* destinations are numbered 1..MaxIndex (10 in the code)
    DefaultAlgo  \* SERVICE_DOMAIN_ALGO

PathKind   == {"root", "wellKnown", "other"}        \* "/", "/.well-known...", the rest
DomainKind == {"exact", "wild", "tail"}             \* acme.com, *.acme.com, .acme.com
ModeText   == {"http", "HTTP", "tcp", "TCP", "sni", "SNI"}

\* strings.EqualFold
Fold(m) == CASE m \in {"http", "HTTP"} -> "http"
             [] m \in {"tcp", "TCP"}   -> "tcp"
             [] m \in {"sni", "SNI"}   -> "sni"

\* The parameters of one destination; Nothing has none of them.
DestParams == [path: SUBSET PathKind, domain: Seq(DomainKind), port: Nat, https: Nat,
               src: Nat, mode: ModeText \cup {None}, group: Nat \cup {None}]
Nothing == [path |-> {}, domain |-> <<>>, port |-> 0, https |-> 0,
            src |-> 0, mode |-> None, group |-> None]

UserName    == [word: STRING, upper: BOOLEAN]
Credentials == Seq([name: UserName, pass: STRING \cup {None, Blank}])
Asked       == [users: {None} \cup Credentials, secret: {None, Unreadable} \cup Credentials,
                encrypted: BOOLEAN]
NoCreds     == [users |-> None, secret |-> None, encrypted |-> FALSE]

\* Names are numbers, so that < is their order; params[0] are the parameters
\* without an index, creds what is said about users.
RequestRecord == [svc: Nat, acl: Nat \cup {None}, algo: STRING \cup {None}, creds: Asked,
                  params: [0..MaxIndex -> DestParams]]

\* What a deployment sends (requests), has in its variables DFP_SERVICE and
\* DFP_SERVICE_1 up to the first gap (environment), in USERS, and in
\* DEFAULT_PROTOCOL ("http" when it is not set).
SiteRecord == [requests: SUBSET RequestRecord,
               environment: Seq({q \in RequestRecord : q.creds = NoCreds}),
               users: Credentials, encrypted: BOOLEAN, protocol: ModeText]

Site    == DOMAIN Deployment
Request == UNION {Deployment[x].requests \cup
                  {Deployment[x].environment[i] : i \in DOMAIN Deployment[x].environment} :
                     x \in Site}

Service == {q.svc : q \in Request}
Acl     == Service \cup ({q.acl : q \in Request} \ {None})

\* A destination, a backend section, a user and a service as the code keeps them.
DestRecord == [index: 0..MaxIndex, path: SUBSET PathKind, domain: Seq(DomainKind), port: Nat,
               https: Nat, src: Nat, mode: ModeText, group: Nat \cup {None}]
SectionRecord == [owner: Acl, port: Nat, index: 0..MaxIndex, https: BOOLEAN]
UserRecord == [name: UserName \cup {dummyUser.name}, pass: STRING \cup {Dummy}, encrypted: BOOLEAN]
ServiceRecord == [svc: Service, acl: Acl, algo: STRING \cup {None}, creds: Asked,
                  users: SUBSET UserRecord, dests: Seq(DestRecord)]

ASSUME RoutingAssumption ==
    /\ MaxIndex \in Nat \ {0}
    /\ \A x \in Site : Deployment[x] \in SiteRecord
    /\ IsFiniteSet(Service)
    /\ None \notin {DefaultAlgo, Unreadable, Blank} \cup Nat \cup STRING
    /\ None \notin SectionRecord /\ None \notin ServiceRecord

--------------------------------------------------------------------------------
(* From parameters to destinations *)

Given(params, i) == \/ params[i].path # {}  \/ params[i].domain # <<>>
                    \/ params[i].port # 0   \/ params[i].https # 0

\* A parameter without an index stands in for a missing one with the index.
Stated(params, i, f) == IF params[i][f] = Nothing[f] THEN params[0][f] ELSE params[i][f]

\* Mutant: destinations are numbered from one.
DestCountedFromOne(params, i) ==
    LET Of(f) == Stated(params, i, f)
    IN  [index |-> i + 1, path |-> Of("path"), domain |-> Of("domain"), port |-> Of("port"),
         https |-> Of("https"), src |-> Of("src"), group |-> Of("group"),
         mode |-> IF Of("mode") = None THEN "http" ELSE Of("mode")]

\* getServiceDest
Dest(params, i) ==
    LET Of(f) == Stated(params, i, f)
    IN  [index |-> i, path |-> Of("path"), domain |-> Of("domain"), port |-> Of("port"),
         https |-> Of("https"), src |-> Of("src"), group |-> Of("group"),
         mode |-> IF Of("mode") = None THEN "http" ELSE Of("mode")]

\* Mutant: a domain without a path is left as it is.
PathNotAdded(d) == d

\* A domain without a path means all of the domain.
WithPath(d) == IF d.domain # <<>> /\ d.path = {} THEN [d EXCEPT !.path = {"root"}] ELSE d

\* The loops over the indexes end at the first one that is not given.
BeforeGap(given) == CHOOSE n \in 0..MaxIndex : 1..n \subseteq given /\ n + 1 \notin given

\* The last index before the first gap; 0 when the parameters have no index.
LastIndex(params) == BeforeGap({i \in 1..MaxIndex : Given(params, i)})

\* The indexes from 1 up to the first gap, or else the parameters without index
\* (a destination that Verdict refuses when nothing of it is given).
DestList(params) ==
    LET last == LastIndex(params)
    IN  IF last > 0 THEN [i \in 1..last |-> WithPath(Dest(params, i))]
                    ELSE <<WithPath(Dest(params, 0))>>

\* Of the environment nothing is inherited, and with an index neither https nor
\* DEFAULT_PROTOCOL is looked at.
EnvDest(params, i, protocol) ==
    [index |-> 0, path |-> params[i].path, domain |-> params[i].domain,
     port |-> params[i].port, https |-> IF i = 0 THEN params[i].https ELSE 0,
     src |-> params[i].src, group |-> None,
     mode |-> CASE params[i].mode # None           -> params[i].mode
                [] params[i].mode = None /\ i = 0 -> protocol
                [] OTHER                           -> "http"]

\* The destinations of a service of the environment: all of them keep index 0, and
\* no path is added to a domain.
EnvDestList(params, protocol) ==
    LET Both(i) == params[i].path # {} /\ params[i].port # 0
        last == BeforeGap({i \in 1..MaxIndex : Both(i)})
        first == IF params[0].path # {} \/ params[0].port # 0 THEN <<EnvDest(params, 0, protocol)>>
                                                              ELSE <<>>
    IN  first \o [i \in 1..last |-> EnvDest(params, i, protocol)]

Sourced(d) == IF d.https > 0 /\ d.src = 0 THEN [d EXCEPT !.src = 80] ELSE d

AclName(q) == IF q.acl = None THEN q.svc ELSE q.acl

\* The service of a request with the destinations list and the users list, as
\* FormatServiceForTemplates leaves it.
Formatted(q, list, users) ==
    [svc |-> q.svc, acl |-> AclName(q), algo |-> q.algo,
     creds |-> q.creds, users |-> users,
     dests |-> [i \in DOMAIN list |-> Sourced(list[i])]]

\* GetServiceFromProvider and GetServicesFromEnvVars, which has no users.
FromQuery(q, global, encrypted) ==
    Formatted(q, DestList(q.params),
              mergeUsers(q.creds.users, q.creds.secret, q.creds.encrypted, global, encrypted))
FromEnvironment(q, protocol) == Formatted(q, EnvDestList(q.params, protocol), {})

\* The checks of the request look at the first destination only.
Verdict(q) ==
    LET d == Head(DestList(q.params))
    IN  CASE Fold(d.mode) = "http" /\ d.path = {} -> "conflict"
          [] Fold(d.mode) # "http" /\ (d.src = 0 \/ d.port = 0) -> "badRequest"
          [] Fold(d.mode) = "http" /\ d.path # {} /\ d.port = 0 /\ d.https = 0 -> "badRequest"
          [] OTHER -> "ok"

\* The parameters the documentation calls mandatory, for a destination of a request
\* and for one of the environment alike: a port, the source port for tcp and sni,
\* and a path or a domain for what is matched by one.  Groups are for tcp only.
CompleteDest(params, i) ==
    LET Of(f)   == Stated(params, i, f)
        matched == Of("path") # {} \/ Of("domain") # <<>>
        mode    == IF Of("mode") = None THEN "http" ELSE Fold(Of("mode"))
    IN  CASE mode = "http" -> matched /\ (Of("port") # 0 \/ Of("https") # 0)
          [] mode = "tcp"  -> Of("src") # 0 /\ Of("port") # 0
          [] mode = "sni"  -> Of("src") # 0 /\ Of("port") # 0 /\ matched /\ Of("group") = None
Complete(q) ==
    LET last == LastIndex(q.params)
    IN  \A i \in (IF last > 0 THEN 1..last ELSE {0}) : CompleteDest(q.params, i)

--------------------------------------------------------------------------------
(* Backend sections *)

Dests(s) == {s.dests[i] : i \in DOMAIN s.dests}

Section(owner, port, index, https) ==
    [owner |-> owner, port |-> port, index |-> index, https |-> https]

PlainSection(s, d) == Section(s.acl, d.port, d.index, FALSE)
HttpsSection(s, d) == Section(s.acl, d.https, d.index, TRUE)

\* A section and the destination it is written for.
Written(i, section) == [at |-> i, section |-> section]

\* Mutant: the sections of sni destinations are left out.
BackendsNoSni(s) ==
    LET Plain(d) == d.port # 0 /\ (d.mode = "http" \/ (d.mode = "tcp" /\ d.group = None))
    IN  {Written(i, PlainSection(s, s.dests[i])) : i \in {j \in DOMAIN s.dests : Plain(s.dests[j])}}
          \cup {Written(i, HttpsSection(s, s.dests[i])) :
                   i \in {j \in DOMAIN s.dests : s.dests[j].https > 0}}

\* What GetBackTemplate defines.  The mode is compared as it was typed, after sni
\* has been replaced by tcp.
Backends(s) ==
    LET ReqModeFormatted(d) == IF Fold(d.mode) = "sni" THEN "tcp" ELSE d.mode
        Plain(d) == /\ d.port # 0
                    /\ \/ ReqModeFormatted(d) = "http"
                       \/ ReqModeFormatted(d) = "tcp" /\ d.group = None
    IN  {Written(i, PlainSection(s, s.dests[i])) : i \in {j \in DOMAIN s.dests : Plain(s.dests[j])}}
          \cup {Written(i, HttpsSection(s, s.dests[i])) :
                   i \in {j \in DOMAIN s.dests : s.dests[j].https > 0}}

--------------------------------------------------------------------------------
(* Frontend rules *)

\* Pairs of positions, in the order of two nested loops.
Before(x, y) == x[1] < y[1] \/ (x[1] = y[1] /\ x[2] < y[2])

\* The position of the first domain with an asterisk, in the first destination
\* that has one.
FirstWild(s) ==
    LET wild == {x \in UNION {{i} \X DOMAIN s.dests[i].domain : i \in DOMAIN s.dests} :
                    s.dests[x[1]].domain[x[2]] = "wild"}
    IN  {x \in wild : \A y \in wild : ~Before(y, x)}

\* putDomainAlgo, on a copy of the service whose domains are not a copy: the
\* asterisk is gone for good, the algorithm is forgotten.
Trimmed(s) ==
    LET Domain(i) == [k \in DOMAIN s.dests[i].domain |->
                         IF <<i, k>> \in FirstWild(s) THEN "tail" ELSE s.dests[i].domain[k]]
    IN  [s EXCEPT !.dests = [i \in DOMAIN s.dests |-> [s.dests[i] EXCEPT !.domain = Domain(i)]]]

AlgoOf(s) == CASE FirstWild(s) # {}             -> "hdr_end(host)"
               [] FirstWild(s) = {} /\ s.algo # None -> s.algo
               [] OTHER                         -> DefaultAlgo

\* A rule of the http frontend or of the one bound to a source port.
Rule(s, d, front, bind, to, algo) ==
    [svc |-> s.svc, dest |-> d, front |-> front, bind |-> bind, to |-> to, algo |-> algo]

\* Mutant: the https rule is nested in the condition on the port.
HttpRulesNested(s, algo) ==
    LET ported == {d \in Dests(s) : d.mode = "http" /\ d.port # 0}
    IN  {Rule(s, d, "http", None, PlainSection(s, d), algo) : d \in ported}
          \cup {Rule(s, d, "http", None, HttpsSection(s, d), algo) :
                   d \in {x \in ported : x.https # 0}}

\* getFrontTemplate.  The mode is compared as it was typed.
HttpRules(s, algo) ==
    LET http == {d \in Dests(s) : d.mode = "http"}
    IN  {Rule(s, d, "http", None, PlainSection(s, d), algo) : d \in {x \in http : x.port # 0}}
          \cup {Rule(s, d, "http", None, HttpsSection(s, d), algo) :
                   d \in {x \in http : x.https # 0}}

HasPath(s, kind) == \E i \in DOMAIN s.dests : kind \in s.dests[i].path

\* Mutant: the root path does not count.
LessByWellKnown(s, t) ==
    IF HasPath(s, "wellKnown") # HasPath(t, "wellKnown") THEN HasPath(s, "wellKnown")
    ELSE s.acl < t.acl

\* Mutant: the root path is looked at first.
LessByRoot(s, t) ==
    IF HasPath(s, "root") # HasPath(t, "root") THEN HasPath(t, "root")
    ELSE s.acl < t.acl

\* Services.Less
Less(s, t) ==
    IF HasPath(s, "wellKnown") # HasPath(t, "wellKnown") THEN HasPath(s, "wellKnown")
    ELSE IF HasPath(s, "root") # HasPath(t, "root") THEN HasPath(t, "root")
    ELSE s.acl < t.acl

Registered(registry) == {registry[s] : s \in DOMAIN registry} \ {None}

\* sort.Sort of what the map iteration collected, in any order among equals.
Orders(set) ==
    {o \in [1..Cardinality(set) -> set] :
        \A i, j \in DOMAIN o : i < j => o[i] # o[j] /\ ~Less(o[j], o[i])}

\* The places of getSni's two loops, a service and a destination, by mode.
At(o, x) == o[x[1]].dests[x[2]]
Places(o, mode) ==
    {x \in UNION {{i} \X DOMAIN o[i].dests : i \in DOMAIN o} : Fold(At(o, x).mode) = mode}
Grouped(o) == {x \in Places(o, "tcp") : At(o, x).group # None}
Open(o)    == {x \in Places(o, "tcp") : At(o, x).group = None /\ At(o, x).domain = <<>>}

\* Of each group, the place that is met first: its source port is the one bound.
Openers(o) ==
    {x \in Grouped(o) : \A y \in Grouped(o) : At(o, y).group = At(o, x).group => ~Before(y, x)}

\* The service of a place with no other destination.
Alone(o, x) == [o[x[1]] EXCEPT !.dests = <<At(o, x)>>]

\* Of the destinations without a domain on one source port the default_backend that
\* is written last stands, and the services of a port are sorted once more.
Defaults(o) ==
    LET Port(x) == {y \in Open(o) : At(o, y).src = At(o, x).src}
    IN  {set \in SUBSET Open(o) :
            /\ \A x \in Open(o) : \E y \in set : Port(x) \cap set = {y}
            /\ \A x \in set : \A y \in Port(x) : ~Less(Alone(o, x), Alone(o, y))}

\* What getFrontTemplateSNI, getListenTCPGroup and getFrontTemplateTcp write, but for
\* the defaults that do not stand.  A listen section lists the servers of its
\* group, which have no backend section.
StreamRules(o, defaults) ==
    LET S(x) == Trimmed(o[x[1]])
        D(x) == S(x).dests[x[2]]
        R(x, front, bind, to) == Rule(S(x), D(x), front, bind, to, AlgoOf(o[x[1]]))
        Members(y) == {x \in Grouped(o) : At(o, x).group = At(o, y).group}
    IN  {R(x, "sni", D(x).src, Section(S(x).svc, D(x).port, D(x).index, FALSE)) :
             x \in Places(o, "sni")}
          \cup (UNION {{R(x, "listen", D(y).src, None) : x \in Members(y)} : y \in Openers(o)})
          \cup {R(x, "tcp", D(x).src, PlainSection(S(x), D(x))) :
                   x \in (Places(o, "tcp") \ (Grouped(o) \cup Open(o))) \cup defaults}

\* Everything getConfigs may produce from the map and the -be.cfg files.  The rules
\* of the http frontend come service by service.
Renders(registry, files) ==
    UNION {{[http    |-> [i \in DOMAIN o |-> HttpRules(Trimmed(o[i]), AlgoOf(o[i]))],
             streams |-> StreamRules(o, defaults),
             backs   |-> UNION {{b.section : b \in files[a]} : a \in Acl},
             clash   |-> \E a \in Acl : \E b, c \in files[a] : b # c /\ b.section = c.section] :
               defaults \in Defaults(o)} : o \in Orders(Registered(registry))}

\* What is left of the map afterwards.
AfterRender(registry) ==
    [s \in DOMAIN registry |-> IF registry[s] = None THEN None ELSE Trimmed(registry[s])]

Rules(c) == (UNION {c.http[i] : i \in DOMAIN c.http}) \cup c.streams

\* HAProxy refuses a section defined twice, a use_backend or default_backend without
\* its section, an acl that names no criterion because there is no path to match,
\* and a bind to port 0.
Accepts(c) ==
    /\ ~c.clash
    /\ \A r \in Rules(c) : /\ r.to # None => r.to \in c.backs
                           /\ r.front \in {"http", "sni"} => r.dest.path # {}
                           /\ r.bind # 0

--------------------------------------------------------------------------------
VARIABLES
    site,      \* the name of the deployment; it does not change
    pending,   \* the services of the environment still to be registered at startup
    registry,  \* dataInstance.Services
    files,     \* the sections of each -be.cfg file
    running,   \* the configuration HAProxy runs
    last       \* the answer to the latest request; ghosts: was the request complete,
               \* and were all its destinations made out

\* After what is no request for a service.
Unasked == [answer |-> None, complete |-> FALSE, kept |-> TRUE]

vars == <<site, pending, registry, files, running, last>>

Init ==
    /\ site \in Site
    /\ pending = Deployment[site].environment
    /\ registry = [s \in Service |-> None]
    /\ files = [a \in Acl |-> {}]
    /\ running = [http |-> <<>>, streams |-> {}, backs |-> {}, clash |-> FALSE]
    /\ last = Unasked

\* Takes the service and its file away and generates the configuration again.
Withdraw(s, reg, fl) ==
    LET reg2 == [reg EXCEPT ![s.svc] = None]
        fl2  == [fl EXCEPT ![s.acl] = {}]
    IN  /\ registry' = AfterRender(reg2)
        /\ files' = fl2
        /\ \E c \in Renders(reg2, fl2) : running' = IF Accepts(c) THEN c ELSE running

\* Reconfigure.Execute with a reload, for the service s made out of q: what HAProxy
\* refuses is withdrawn.
Execute(s, q) ==
    LET reg1 == [registry EXCEPT ![s.svc] = s]
        fl1  == [files EXCEPT ![s.acl] = Backends(s)]
        Answered(answer) == [answer |-> answer, complete |-> Complete(q),
                             kept |-> Len(s.dests) >= Len(DestList(q.params))]
    IN  \E c \in Renders(reg1, fl1) :
            IF Accepts(c)
            THEN /\ registry' = AfterRender(reg1) /\ files' = fl1 /\ running' = c
                 /\ last' = Answered("ok")
            ELSE /\ Withdraw(s, AfterRender(reg1), fl1)
                 /\ last' = Answered("refused")

\* serve.reconfigure registers the services of the environment one after the
\* other; requests are taken when it is done.
Startup ==
    /\ pending # <<>>
    /\ Execute(FromEnvironment(Head(pending), Deployment[site].protocol), Head(pending))
    /\ pending' = Tail(pending)
    /\ UNCHANGED site

Started == pending = <<>>

\* ReconfigureHandler
Reconfigure(q) ==
    /\ Started
    /\ \/ /\ Verdict(q) # "ok"
          /\ last' = [answer |-> Verdict(q), complete |-> Complete(q), kept |-> TRUE]
          /\ UNCHANGED <<registry, files, running>>
       \/ /\ Verdict(q) = "ok"
          /\ Execute(FromQuery(q, Deployment[site].users, Deployment[site].encrypted), q)
    /\ UNCHANGED <<site, pending>>

\* RemoveHandler, with the aclName the service was registered with.
Remove(s) ==
    /\ Started /\ registry[s] # None
    /\ Withdraw(registry[s], registry, files)
    /\ last' = Unasked
    /\ UNCHANGED <<site, pending>>

\* ReloadHandler with recreate
Recreate ==
    /\ Started
    /\ registry' = AfterRender(registry)
    /\ \E c \in Renders(registry, files) : running' = IF Accepts(c) THEN c ELSE running
    /\ last' = Unasked
    /\ UNCHANGED <<site, pending, files>>

Next ==
    \/ Startup
    \/ \E q \in Deployment[site].requests : Reconfigure(q)
    \/ \E s \in Service : Remove(s)
    \/ Recreate

Spec == Init /\ [][Next]_vars

--------------------------------------------------------------------------------
(* Properties *)

\* The variables hold what the code can hold; in particular the numbers of the
\* destinations and of their backend sections stay within 0..MaxIndex.
TypeOK ==
    /\ site \in Site
    /\ pending \in Seq(Request)
    /\ registry \in [Service -> ServiceRecord \cup {None}]
    /\ files \in [Acl -> SUBSET [at: Nat, section: SectionRecord]]
    /\ last \in [answer: {"ok", "conflict", "badRequest", "refused", None}, complete: BOOLEAN,
                kept: BOOLEAN]

\* The documentation of the parameters, which "apply to environment variables as
\* well": a service with all the parameters its modes ask for, be it of a request
\* or of the environment, is never turned into a configuration that HAProxy
\* refuses, whatever was registered before, and none of its destinations is
\* dropped.  The checks of the request itself come before that.
CompleteIsServed == last.complete => last.answer # "refused" /\ last.kept

\* Every port of an accepted destination is bound and leads to it: a rule of the
\* http frontend, or of one bound to its source port, has its backend section for
\* a target, or lists it in the group's section.
EveryPortRouted ==
    \A s \in Service : registry[s] # None =>
        \A i \in DOMAIN registry[s].dests :
            LET d == registry[s].dests[i]
                mode == Fold(d.mode)
                Routed(section) ==
                    \E r \in Rules(running) :
                        /\ r.svc = s /\ r.dest = d /\ r.to = section
                        /\ r.bind = IF mode = "http" THEN None ELSE d.src
            IN  /\ d.port # 0 =>
                      Routed(IF mode = "tcp" /\ d.group # None THEN None
                                                            ELSE PlainSection(registry[s], d))
                /\ d.https # 0 /\ mode = "http" => Routed(HttpsSection(registry[s], d))

\* The test of the order says "PutsServicesWithRootPathToTheEnd": a rule that
\* takes every request comes after the rules of all services without such a
\* path, or they would never be reached.
CatchAllLast ==
    \A i, j \in DOMAIN running.http : i < j =>
        \A r \in running.http[i], t \in running.http[j] :
            "root" \in r.dest.path /\ r.dest.domain = <<>> => HasPath(registry[t.svc], "root")

\* The test of the order says "PutsServicesWellKnownPathToTheBeginning": the
\* rules of a service that answers certificate challenges precede the others.
WellKnownFirst ==
    \A i, j \in DOMAIN running.http : i < j =>
        \A r \in running.http[i], t \in running.http[j] :
            HasPath(registry[t.svc], "wellKnown") => HasPath(registry[r.svc], "wellKnown")

\* What a service asked for and the users it got: somebody has to log in if it
\* asked for users, every user is vouched for by the one source that applies,
\* and no complete pair of its own is missing.
AsAsked(asked, got, global, globalEncrypted) ==
    LET Entries(list) == {list[i] : i \in DOMAIN list}
        own    == IF asked.users = None THEN {} ELSE Entries(asked.users)
        secret == IF asked.secret \in {None, Unreadable} THEN {} ELSE Entries(asked.secret)
        other  == IF asked.secret = None THEN Entries(global) ELSE secret
        trust  == IF asked.secret = None THEN globalEncrypted ELSE asked.encrypted
        Pair(u) == [name |-> u.name, pass |-> u.pass]
        Paired(set) == {e \in set : ~Nameless(e.name) /\ e.pass \notin {None, Blank}}
        Void(e) == e.pass = Blank \/ Nameless(e.name)
    IN  /\ asked.users # None \/ asked.secret # None <=> got # {}
        /\ \A u \in got \ {dummyUser} :
              \/ Pair(u) \in Paired(own) /\ u.encrypted = asked.encrypted
              \/ /\ [name |-> u.name, pass |-> None] \in own
                 /\ \E v \in Paired(other) : EqualFold(u.name, v.name) /\ v.pass = u.pass
                 /\ u.encrypted = trust
              \/ /\ \A e \in own : Void(e)
                 /\ Pair(u) \in Paired(secret) /\ u.encrypted = asked.encrypted
        /\ Paired(own) \subseteq {Pair(u) : u \in got}

\* The documentation of users: a password that is omitted is taken "from
\* usersSecret file or the global configuration if usersSecret is not present".
\* As long as a service is registered, its users are those it asked for, from
\* the source that applies.
CredentialsAsAsked ==
    \A s \in Service : registry[s] # None =>
        AsAsked(registry[s].creds, registry[s].users,
                Deployment[site].users, Deployment[site].encrypted)

\* The documentation of serviceDomain says that with an asterisk
\* "serviceDomainAlgo parameter will be replaced to hdr_end(host)": as long as
\* the service is registered, its domain is matched by that algorithm.
WildcardMatched ==
    \A r \in Rules(running) :
        \A k \in DOMAIN r.dest.domain :
            r.dest.domain[k] \in {"wild", "tail"} =>
                r.algo = "hdr_end(host)" /\ r.dest.domain[k] = "tail"

================================================================================
