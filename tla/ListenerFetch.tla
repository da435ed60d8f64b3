----------------------------- MODULE ListenerFetch -----------------------------
(***************************************************************************)
(* How a proxy instance comes to know the services of the swarm: it starts *)
(* with nothing, asks each Swarm Listener for all services in a goroutine  *)
(* of its own, registers the services of its environment, and from then on *)
(* is told of changes by the listeners.  The services themselves, their    *)
(* listeners and the container runtime are the environment.                *)
(*                                                                         *)
(* Registrations and reloads are those of ProxyContract; what happens when *)
(* two of them overlap is the subject of ConfigPipeline.                   *)
(***************************************************************************)
EXTENDS Integers, Sequences, FiniteSets, ProxyContract

CONSTANTS
    Listener,   \* all Swarm Listeners there are
    Conf,       \* the deployments there are
    Removal,    \* the notification that a service is gone
    None

\* A request: the service, its listener (None: the environment of the proxy),
\* what its labels say, and whether IsValidReconf accepts that.
RequestRecord == [svc: STRING, home: Listener \cup {None}, labels: Nat, valid: BOOLEAN]

\* LISTENER_ADDRESS, RELOAD_ATTEMPTS, REPEAT_RELOAD, CHECK_RESOLVERS or
\* DO_NOT_RESOLVE_ADDR, the opposite of SKIP_ADDRESS_VALIDATION, DFP_SERVICE*;
\* whether notifications can get lost, and which services may be deployed.
ConfRecord == [listeners: SUBSET Listener, attempts: Nat, repeat: BOOLEAN, lenient: BOOLEAN,
               validates: BOOLEAN, environment: Seq(Request), lossy: BOOLEAN,
               world: SUBSET Request]

ASSUME FetchAssumption ==
    /\ Request \subseteq RequestRecord
    /\ None \notin Request /\ Removal \notin Request /\ None # Removal
    /\ \A c \in Conf : /\ c \in ConfRecord /\ IsFiniteSet(c.listeners)
                       /\ \A i \in DOMAIN c.environment : c.environment[i].home = None
                       /\ \A r \in c.world : r.home \in Listener

Service == {r.svc : r \in Request}

VARIABLES
    conf,      \* the deployment; it does not change
    deployed,  \* the services that run, at most one version of each
    up,        \* the listeners that answer
    note,      \* the notification a listener still has to deliver, for each service
    phase,     \* of the process: down, starting, serving
    envLeft,   \* the services of the environment still to be registered
    loop,      \* the goroutine of each listener
    worker,    \* the registration or removal under way, for each service
    ready      \* SuccessfulInitReload

processVars == <<phase, envLeft, loop, worker, ready>>
swarmVars   == <<deployed, up, note>>
vars == <<conf, swarmVars, processVars, contractVars>>

Idle    == [doing |-> "nothing", req |-> None]

\* A goroutine that fetches, waits to, or does so no more; one that has an answer.
Between(pc, left) == [pc |-> pc, left |-> left, batch |-> {}, needsReload |-> FALSE]
Applying(left, batch, due) ==
    [pc |-> "applying", left |-> left, batch |-> batch, needsReload |-> due]

Off     == Between("off", 0)
Single  == Cardinality(conf.listeners) = 1
Version(s) == {r \in deployed : r.svc = s}
Known(l)   == {r \in deployed : r.home = l}

\* A name resolves as long as a version of the service runs.
Resolves(r) == r.home = None \/ Version(r.svc) # {}

\* HAProxy insists on resolving every server, unless init-addr says otherwise.
Accepted(regs) == conf.lenient \/ \A r \in regs : Resolves(r)

\* A reload: what HAProxy refuses changes nothing.
TryLoad == IF Accepted(registered) THEN Load ELSE UNCHANGED contractVars

Init ==
    /\ conf \in Conf
    /\ deployed = {} /\ up = Listener /\ note = [s \in Service |-> None]
    /\ phase = "down" /\ envLeft = <<>> /\ ready = FALSE
    /\ loop = [l \in Listener |-> Off]
    /\ worker = [s \in Service |-> Idle]
    /\ ContractInit

--------------------------------------------------------------------------------
(* Startup *)

\* serve.Execute, up to the goroutines of serve.reconfigure.
Start ==
    /\ phase = "down"
    /\ phase' = "starting"
    /\ envLeft' = conf.environment
    /\ loop' = [l \in Listener |->
                   IF l \in conf.listeners THEN Between("waiting", conf.attempts) ELSE Off]
    /\ UNCHANGED <<conf, swarmVars, worker, ready, contractVars>>

AllIdle == \A s \in Service : worker[s] = Idle

\* The main goroutine registers the services of the environment one by one.
RegisterEnv ==
    /\ phase = "starting" /\ envLeft # <<>> /\ AllIdle
    /\ Register(Head(envLeft))
    /\ worker' = [worker EXCEPT ![Head(envLeft).svc] = [doing |-> "load", req |-> Head(envLeft)]]
    /\ envLeft' = Tail(envLeft)
    /\ UNCHANGED <<conf, swarmVars, phase, loop, ready>>

\* httpListenAndServe
Serve ==
    /\ phase = "starting" /\ envLeft = <<>> /\ AllIdle
    /\ phase' = "serving"
    /\ UNCHANGED <<conf, swarmVars, envLeft, loop, worker, ready, contractVars>>

\* The process ends, and its container with it.
Crash ==
    /\ phase # "down"
    /\ phase' = "down" /\ envLeft' = <<>> /\ ready' = FALSE
    /\ loop' = [l \in Listener |-> Off]
    /\ worker' = [s \in Service |-> Idle]
    /\ registered' = {} /\ routed' = Says({})
    /\ UNCHANGED <<conf, swarmVars>>

--------------------------------------------------------------------------------
(* The goroutine of a listener: a fetch every RELOAD_INTERVAL, until one     *)
(* succeeds, or the attempts are used up where there are several listeners.  *)

\* Mutant: the loop ends with the first success, whatever REPEAT_RELOAD says.
SucceedOnce(l) ==
    /\ ready' = TRUE
    /\ loop' = [loop EXCEPT ![l] = Between("ended", 0)]

Succeed(l) ==
    /\ ready' = TRUE
    /\ loop' = [loop EXCEPT ![l] =
                   Between(IF Single /\ conf.repeat THEN "waiting" ELSE "ended", 0)]

\* Mutant: the loop does not end when no attempt is left.
FailCountsOn(l) ==
    loop' = [loop EXCEPT ![l] = IF Single THEN @ ELSE Between("waiting", @.left - 1)]

Fail(l) ==
    loop' = [loop EXCEPT ![l] =
                IF Single THEN loop[l]
                ELSE IF loop[l].left > 1 THEN Between("waiting", loop[l].left - 1)
                                         ELSE Between("gaveUp", 0)]

\* ReloadConfig up to the decoded answer.  An empty answer is a success.
Tick(l) ==
    /\ loop[l].pc = "waiting"
    /\ \/ /\ l \notin up
          /\ Fail(l)
          /\ UNCHANGED ready
       \/ /\ l \in up /\ Known(l) = {}
          /\ Succeed(l)
       \/ /\ l \in up /\ Known(l) # {}
          /\ loop' = [loop EXCEPT ![l] = Applying(loop[l].left, Known(l), FALSE)]
          /\ UNCHANGED ready
    /\ UNCHANGED <<conf, swarmVars, phase, envLeft, worker, contractVars>>

\* Mutant: the last service of the answer decides whether to reload.
ApplyLastDecides(l, r) ==
    /\ loop[l].pc = "applying" /\ r \in loop[l].batch
    /\ loop' = [loop EXCEPT ![l] = Applying(@.left, @.batch \ {r}, r.valid)]
    /\ IF r.valid /\ (conf.validates => Resolves(r)) THEN Register(r) ELSE UNCHANGED contractVars
    /\ UNCHANGED <<conf, swarmVars, phase, envLeft, worker, ready>>

\* One service of the answer, without a reload; an error is forgotten.  The services
\* of this module are of this proxy, run, and have no templates.  The other ways through
\* Execute, a service of another proxy, one without replicas, whose removal reloads on
\* its own, and one with templates, are Begin of ConfigPipeline, which takes batches too.
Apply(l, r) ==
    /\ loop[l].pc = "applying" /\ r \in loop[l].batch
    /\ loop' = [loop EXCEPT ![l] = Applying(loop[l].left, loop[l].batch \ {r},
                                            loop[l].needsReload \/ r.valid)]
    /\ IF r.valid /\ (conf.validates => Resolves(r)) THEN Register(r) ELSE UNCHANGED contractVars
    /\ UNCHANGED <<conf, swarmVars, phase, envLeft, worker, ready>>

\* The one reload of the answer, whose error is forgotten too.
Reload(l) ==
    /\ loop[l].pc = "applying" /\ loop[l].batch = {}
    /\ IF loop[l].needsReload THEN TryLoad ELSE UNCHANGED contractVars
    /\ Succeed(l)
    /\ UNCHANGED <<conf, swarmVars, phase, envLeft, worker>>

--------------------------------------------------------------------------------
(* Requests, and the reloads of those and of the environment *)

\* ReconfigureHandler of a notified service, up to the reload.
Notified(s) ==
    LET r == note[s]
    IN  /\ phase = "serving" /\ worker[s] = Idle
        /\ r \in Version(s) /\ r.home \in up
        /\ IF r.valid
           THEN /\ Register(r)
                /\ worker' = [worker EXCEPT ![s] = [doing |-> "load", req |-> r]]
                /\ UNCHANGED note
           ELSE /\ note' = [note EXCEPT ![s] = None]
                /\ UNCHANGED <<worker, contractVars>>
        /\ UNCHANGED <<conf, deployed, up, phase, envLeft, loop, ready>>

\* RemoveHandler, up to the reload.
RemovalNotified(s) ==
    /\ phase = "serving" /\ worker[s] = Idle /\ note[s] = Removal
    /\ \E l \in up : \E r \in conf.world : r.svc = s /\ r.home = l
    /\ note' = [note EXCEPT ![s] = None]
    /\ IF \E r \in registered : r.svc = s
       THEN /\ Unregister(s)
            /\ worker' = [worker EXCEPT ![s] = [doing |-> "unload", req |-> None]]
       ELSE UNCHANGED <<worker, contractVars>>
    /\ UNCHANGED <<conf, deployed, up, phase, envLeft, loop, ready>>

\* The reload of Reconfigure.Execute: an answer of 200, or the registration is
\* taken back and the listener tries again.
WorkerLoads(s) ==
    /\ worker[s].doing = "load"
    /\ IF Accepted(registered)
       THEN /\ Load
            /\ worker' = [worker EXCEPT ![s] = Idle]
            /\ note' = [note EXCEPT ![s] = IF note[s] = worker[s].req THEN None ELSE note[s]]
       ELSE /\ Unregister(s)
            /\ worker' = [worker EXCEPT ![s] =
                    IF \E r \in registered : r.svc = s
                    THEN [doing |-> "unload", req |-> None] ELSE Idle]
            /\ UNCHANGED note
    /\ UNCHANGED <<conf, deployed, up, phase, envLeft, loop, ready>>

\* The reload of Remove.Execute.
WorkerUnloads(s) ==
    /\ worker[s].doing = "unload"
    /\ TryLoad
    /\ worker' = [worker EXCEPT ![s] = Idle]
    /\ UNCHANGED <<conf, swarmVars, phase, envLeft, loop, ready>>

\* ReloadHandler with fromListener: the listeners that answer notify again.
ReloadClusterConfig ==
    /\ phase = "serving"
    /\ note' = [s \in Service |->
                  IF \E l \in conf.listeners \cap up : \E r \in Known(l) : r.svc = s
                  THEN CHOOSE r \in Version(s) : TRUE ELSE note[s]]
    /\ UNCHANGED <<conf, deployed, up, processVars, contractVars>>

--------------------------------------------------------------------------------
(* The swarm *)

Deploy(r) ==
    /\ r \notin deployed
    /\ deployed' = (deployed \ Version(r.svc)) \cup {r}
    /\ note' = [note EXCEPT ![r.svc] = r]
    /\ UNCHANGED <<conf, up, processVars, contractVars>>

Undeploy(s) ==
    /\ Version(s) # {}
    /\ deployed' = deployed \ Version(s)
    /\ note' = [note EXCEPT ![s] = Removal]
    /\ UNCHANGED <<conf, up, processVars, contractVars>>

\* The listener gives up a notification.
Lose(s) ==
    /\ conf.lossy /\ note[s] # None /\ worker[s] = Idle
    /\ note' = [note EXCEPT ![s] = None]
    /\ UNCHANGED <<conf, deployed, up, processVars, contractVars>>

ListenerFails(l) ==
    /\ l \in up
    /\ up' = up \ {l}
    /\ UNCHANGED <<conf, deployed, note, processVars, contractVars>>

ListenerReturns(l) ==
    /\ l \notin up
    /\ up' = up \cup {l}
    /\ UNCHANGED <<conf, deployed, note, processVars, contractVars>>

--------------------------------------------------------------------------------
Goroutine(l) == Tick(l) \/ Reload(l) \/ \E r \in loop[l].batch : Apply(l, r)
Handler(s)   == WorkerLoads(s) \/ WorkerUnloads(s)
Delivery(s)  == Notified(s) \/ RemovalNotified(s)
Main         == Start \/ RegisterEnv \/ Serve

Next ==
    \/ Main \/ Crash \/ ReloadClusterConfig
    \/ \E l \in conf.listeners : Goroutine(l) \/ ListenerFails(l) \/ ListenerReturns(l)
    \/ \E s \in Service : Handler(s) \/ Delivery(s) \/ Undeploy(s) \/ Lose(s)
    \/ \E r \in conf.world : Deploy(r)

\* Goroutines run, the ticker ticks, containers are restarted, and listeners
\* repeat a notification until it is answered with 200.
Fairness ==
    /\ WF_vars(Main)
    /\ \A l \in Listener : WF_vars(Goroutine(l))
    /\ \A s \in Service : WF_vars(Handler(s)) /\ WF_vars(Delivery(s))

Spec == Init /\ [][Next]_vars /\ Fairness

--------------------------------------------------------------------------------
(* Properties *)

\* The variables hold what the code can hold; in particular a goroutine never
\* counts its attempts below one.
TypeOK ==
    /\ conf \in Conf /\ deployed \subseteq Request /\ up \subseteq Listener
    /\ note \in [Service -> Request \cup {None, Removal}]
    /\ phase \in {"down", "starting", "serving"}
    /\ envLeft \in Seq(Request)
    /\ loop \in [Listener -> [pc: {"off", "waiting", "applying", "ended", "gaveUp"},
                              left: 0..conf.attempts, batch: SUBSET Request,
                              needsReload: BOOLEAN]]
    /\ worker \in [Service -> [doing: {"nothing", "load", "unload"}, req: Request \cup {None}]]
    /\ ready \in BOOLEAN
    /\ registered \subseteq Request
    /\ routed \in [fronts: SUBSET Request, backs: SUBSET Request]

\* Nothing is under way or pending.
Quiet ==
    /\ phase = "serving"
    /\ \A s \in Service : note[s] = None /\ worker[s] = Idle
    /\ \A l \in Listener : loop[l].pc # "applying"

Answered(l) == IF Single THEN ready ELSE loop[l].pc = "ended"

\* "As a result, each proxy instance will soon have the same state as the
\* other": between the snapshot and the notifications no service falls through.
\* Whenever nothing is pending, each service of a listener that has answered is
\* routed, although perhaps with labels it no longer has.  It takes listeners
\* that repeat their notifications and a HAProxy that refuses nothing.
NothingMissed ==
    Quiet /\ conf.lenient /\ ~conf.lossy =>
        \A l \in conf.listeners : Answered(l) =>
            \A r \in Known(l) : r.valid => \E q \in routed.fronts : q.svc = r.svc

\* "If set to true, the proxy will periodically reload the config": with a
\* listener, and a HAProxy, that stay available, a service that stays as it is
\* is routed with its labels, whatever is lost; without the repetition, unless
\* notifications are lost or the attempts used up, it is at least routed.
Arrives ==
    \A r \in Request :
        /\ r.valid /\ r.home \in conf.listeners
        /\ <>[](r \in deployed /\ r.home \in up /\ phase # "down" /\ Accepted(registered)
                /\ loop[r.home].pc # "gaveUp")
        /\ conf.lossy => Single /\ conf.repeat
        => <>[](IF Single /\ conf.repeat THEN r \in routed.fronts
                                         ELSE \E q \in routed.fronts : q.svc = r.svc)

\* The same sentence of the documentation, for removals: a service that is gone
\* for good, of listeners that lose no notification, is routed no more.
RemovalArrives ==
    \A s \in Service :
        <>[](Version(s) = {} /\ up = Listener /\ phase = "serving") /\ ~conf.lossy
            => <>[](\A q \in routed.fronts : q.svc = s => q.home = None)

================================================================================
