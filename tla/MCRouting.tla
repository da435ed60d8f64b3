------------------------------- MODULE MCRouting -------------------------------
(***************************************************************************)
(* Small instances of Routing: the requests of each run.                   *)
(***************************************************************************)
EXTENDS Routing, TLC

One(name, value) == [Nothing EXCEPT ![name] = value]
Http(path)       == [Nothing EXCEPT !.path = path, !.port = 80]

\* What the parameters without an index say, and those of an index.
Common == {Nothing, One("mode", "tcp"), One("mode", "sni"), One("port", 80), One("src", 90),
           [Http({"other"}) EXCEPT !.src = 90],
           [Nothing EXCEPT !.domain = <<"exact">>, !.https = 443]}
Indexed == {Nothing, One("path", {"other"}), One("port", 81),
            [Nothing EXCEPT !.mode = "tcp", !.port = 82, !.src = 92],
            [Nothing EXCEPT !.mode = "tcp", !.port = 83, !.src = 93, !.group = 1],
            [Nothing EXCEPT !.mode = "SNI", !.port = 84, !.src = 94, !.path = {"other"}],
            [Nothing EXCEPT !.domain = <<"exact">>, !.https = 443],
            [Http({"root", "other"}) EXCEPT !.https = 444]}

\* The same for the second index, but that an entry port of tcp is another one.
Second == {IF d.mode = "tcp" /\ d.group = None THEN [d EXCEPT !.src = 95] ELSE d : d \in Indexed}

Ask(s, a, params) == [svc |-> s, acl |-> a, algo |-> None, creds |-> NoCreds,
                      params |-> params]
Only(d)           == [i \in 0..2 |-> IF i = 0 THEN d ELSE Nothing]

\* All combinations of parameters for a service that does not name its ACL,
\* and a few with an aclName, none of them for an sni destination.
OwnNameForSni ==
    {Ask(7, None, (0 :> c) @@ (1 :> d) @@ (2 :> e)) : c \in Common, d \in Indexed, e \in Second}
    \cup {Ask(7, 5, Only(d)) : d \in {Http({"other"}), [One("port", 83) EXCEPT !.mode = "tcp",
                                                                              !.src = 93]}}

\* Three services whose tcp and sni destinations share source ports: a group of two,
\* one default of a port that others share by domain.
Stream(mode, port, src) == [Nothing EXCEPT !.mode = mode, !.port = port, !.src = src]
StreamRequests ==
    {Ask(s, None, Only([Stream("tcp", 80 + s, 93) EXCEPT !.group = 1])) : s \in 1..2}
    \cup {Ask(s, None, Only([Stream("tcp", 80 + s, 92) EXCEPT !.domain = <<"exact">>])) : s \in 1..3}
    \cup {Ask(3, None, Only([Stream("tcp", 83, 92) EXCEPT !.path = path])) : path \in {{}, {"root"}}}
    \cup {Ask(s, None, Only([Stream("sni", 84, 94) EXCEPT !.path = {"other"}])) : s \in {1, 3}}

\* The two services of a group ask for an entry port each.
GroupRequests ==
    {Ask(s, None, Only([Stream("tcp", 80 + s, 90 + s) EXCEPT !.group = 1])) : s \in 1..2}

\* Three services, each with one kind of path or several.
PathRequests == {Ask(s, None, Only(Http(path))) :
                    s \in 1..3, path \in (SUBSET PathKind) \ {{}}}
\* No service has both the root path and a well-known one.
OrderedRequests == {q \in PathRequests : ~({"root", "wellKnown"} \subseteq q.params[0].path)}

\* Services of the environment: without index, where only what is incomplete leaves
\* the mode to another DEFAULT_PROTOCOL than http; or with indexes and nothing else.
EnvService(s, c, d, e) == Ask(s, None, (0 :> c) @@ (1 :> d) @@ (2 :> e))
EnvBare   == <<Nothing, Http({"other"}), [Http({"root"}) EXCEPT !.https = 443],
               [Http({"other"}) EXCEPT !.domain = <<"exact">>]>>
EnvModed  == <<One("port", 80), [Http({"other"}) EXCEPT !.mode = "http"],
               Stream("tcp", 80, 90), Stream("tcp", 80, 0),
               [Stream("sni", 80, 90) EXCEPT !.path = {"other"}]>>
EnvFirst  == <<One("port", 85), [Http({"root", "other"}) EXCEPT !.port = 81],
               [Stream("tcp", 82, 92) EXCEPT !.path = {"other"}]>>
EnvSecond == <<Nothing, One("port", 85), [Http({"other"}) EXCEPT !.port = 86]>>
EnvOther  == EnvService(9, [Http({"other"}) EXCEPT !.mode = "http"], Nothing, Nothing)
Protocols == {"http", "tcp", "SNI"}
Sends(requests) == [requests |-> requests, environment |-> <<>>, users |-> <<>>,
                    encrypted |-> FALSE, protocol |-> "http"]
Starts(c, d, e, protocol) == [Sends({}) EXCEPT !.environment = <<EnvService(8, c, d, e), EnvOther>>,
                                               !.protocol = protocol]

\* Users: up to two entries of the request, a secret, and the global users; U is u in
\* capitals.
Entry(n, p) == [name |-> n, pass |-> p]
u == Named("u", FALSE)
U == Named("u", TRUE)
v == Named("v", FALSE)
NoName == Named("", FALSE)
OwnUsers == {None, <<>>} \cup [1..2 -> {Entry(u, None), Entry(U, None), Entry(u, "own"),
                                       Entry(v, None), Entry(v, Blank), Entry(NoName, "own")}]
Secrets  == {None, Unreadable, <<Entry(NoName, "secret"), Entry(U, "secret")>>,
             <<Entry(v, "secret"), Entry(u, None)>>}
Globals  == <<<<>>, <<Entry(u, "global"), Entry(v, "global")>>>>
UserRequests == {[Ask(6, None, Only(Http({"other"}))) EXCEPT
                     !.creds = [users |-> o, secret |-> x, encrypted |-> e]] :
                    o \in OwnUsers, x \in Secrets, e \in BOOLEAN}

WildRequests == {Ask(1, None, Only([Http({"other"}) EXCEPT !.domain = <<"wild">>])),
                 Ask(2, None, Only(Http({"other"})))}

\* One deployment for each group of requests, each USERS and each environment.
Everything ==
    [x \in {<<"params">>, <<"order">>, <<"stream">>}
             \cup {<<"users", g, e>> : g \in DOMAIN Globals, e \in BOOLEAN}
             \cup {<<"bare", i>> : i \in DOMAIN EnvBare}
             \cup {<<"moded", i, p>> : i \in DOMAIN EnvModed, p \in Protocols}
             \cup {<<"indexed", i, j>> : i \in DOMAIN EnvFirst, j \in DOMAIN EnvSecond} |->
        CASE x[1] = "params" -> Sends(OwnNameForSni)
          [] x[1] = "order"  -> Sends(OrderedRequests)
          [] x[1] = "stream" -> Sends(StreamRequests)
          [] x[1] = "users"  -> [Sends(UserRequests) EXCEPT !.users = Globals[x[2]],
                                                            !.encrypted = x[3]]
          [] x[1] = "bare"   -> Starts(EnvBare[x[2]], Nothing, Nothing, "http")
          [] x[1] = "moded"  -> Starts(EnvModed[x[2]], Nothing, Nothing, x[3])
          [] x[1] = "indexed" -> Starts(Nothing, EnvFirst[x[2]], EnvSecond[x[3]], "http")]
WildOnly  == <<Sends(WildRequests)>>
GroupOnly == <<Sends(GroupRequests)>>

\* A domain without a path, once for the whole service and once with an index.
DomainOnly == <<[Sends({}) EXCEPT !.environment =
                    <<EnvService(8, [Nothing EXCEPT !.domain = <<"exact">>, !.port = 80],
                                 Nothing, Nothing)>>],
                [Sends({}) EXCEPT !.environment =
                    <<EnvService(8, Nothing, Http({"other"}),
                                 [Nothing EXCEPT !.domain = <<"exact">>, !.port = 81])>>]>>

================================================================================
