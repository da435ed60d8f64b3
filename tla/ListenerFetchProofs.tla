-------------------------- MODULE ListenerFetchProofs --------------------------
(***************************************************************************)
(* No service falls between the answer of a listener and its               *)
(* notifications, for every number of listeners, services and attempts:    *)
(* theorem NothingIsMissed.                                                *)
(***************************************************************************)
EXTENDS ListenerFetch, FiniteSetTheorems, TLAPS

--------------------------------------------------------------------------------
(* The inductive invariant *)

\* The swarm runs one version of a service, and the notification that is
\* pending is about that version, or about its absence.
OneVersion  == \A q, r \in deployed : q.svc = r.svc => q = r
NoteCurrent ==
    \A s \in Service : /\ note[s] \in Request => note[s] \in Version(s)
                       /\ note[s] = Removal => Version(s) = {}

\* A worker registers a request for its own service.
WorkersNamed ==
    \A s \in Service : worker[s].doing = "load" => worker[s].req \in Request
                                                   /\ worker[s].req.svc = s

\* A process that is down has no goroutines.
NoneDown == phase = "down" => \A l \in Listener : loop[l].pc = "off"

TypeInv == TypeOK /\ OneVersion /\ NoteCurrent /\ WorkersNamed /\ NoneDown

\* What HAProxy runs is what is registered, or somebody is about to reload.
LoadDue ==
    \/ routed = Says(registered)
    \/ \E s \in Service : worker[s].doing \in {"load", "unload"}
    \/ \E l \in Listener : loop[l].pc = "applying" /\ loop[l].needsReload

HasService(s) == \E q \in registered : q.svc = s

\* Either the service is registered, or its listener has something to say of it.
Covered(s) == note[s] # None \/ HasService(s)

\* A registration that is about to be loaded is not taken away.
KeptInv == \A s \in Service : worker[s].doing = "load" => HasService(s)

\* Once a listener has answered, its services are covered; while the answer is
\* applied, those that are not are still in it.
CoverInv ==
    \A l \in conf.listeners : \A r \in Known(l) : r.valid =>
        /\ Answered(l) => Covered(r.svc)
        /\ loop[l].pc = "applying" => r \in loop[l].batch \/ Covered(r.svc)

FetchInv ==
    /\ TypeInv
    /\ conf.lenient => LoadDue /\ KeptInv
    /\ conf.lenient /\ ~conf.lossy => CoverInv

--------------------------------------------------------------------------------
(* Type correctness *)

LEMMA RequestFields ==
  ASSUME NEW r \in Request
  PROVE  /\ r.svc \in Service /\ r.valid \in BOOLEAN /\ r.home \in Listener \cup {None}
         /\ r # None /\ r # Removal
  BY FetchAssumption DEF RequestRecord, Service

LEMMA ConfFields ==
  ASSUME NEW c \in Conf
  PROVE  /\ c.listeners \subseteq Listener /\ c.attempts \in Nat /\ c.repeat \in BOOLEAN
         /\ c.lenient \in BOOLEAN /\ c.validates \in BOOLEAN /\ c.lossy \in BOOLEAN
         /\ c.environment \in Seq(Request) /\ c.world \subseteq Request
         /\ IsFiniteSet(c.listeners)
  BY FetchAssumption DEF ConfRecord

LEMMA SaysTyped ==
  ASSUME NEW regs \in SUBSET Request
  PROVE  Says(regs) \in [fronts: SUBSET Request, backs: SUBSET Request]
  BY DEF Says

LEMMA EmptyTyped == <<>> \in Seq(Request) /\ Says({}) \in [fronts: SUBSET Request, backs: SUBSET Request]
<1>1. <<>> \in Seq(Request)
  OBVIOUS
<1>2. QED
  BY <1>1, SaysTyped

LEMMA OffTyped ==
  ASSUME NEW c \in Conf
  PROVE  Off \in [pc: {"off", "waiting", "applying", "ended", "gaveUp"}, left: 0..c.attempts,
                  batch: SUBSET Request, needsReload: BOOLEAN]
<1>1. 0 \in 0..c.attempts
  BY ConfFields
<1>2. QED
  BY <1>1 DEF Off, Between

LEMMA IdleTyped == Idle \in [doing: {"nothing", "load", "unload"}, req: Request \cup {None}]
  BY DEF Idle

LEMMA InitInv == Init => FetchInv
<1> SUFFICES ASSUME Init PROVE FetchInv
  OBVIOUS
<1> USE DEF Init, ContractInit
<1>1. TypeOK
  BY EmptyTyped, OffTyped, IdleTyped DEF TypeOK
<1>2. OneVersion /\ NoteCurrent /\ WorkersNamed /\ NoneDown
  BY FetchAssumption DEF OneVersion, NoteCurrent, WorkersNamed, NoneDown, Idle, Off, Between
<1>3. LoadDue /\ KeptInv /\ CoverInv
  BY DEF LoadDue, KeptInv, CoverInv, Known, Idle
<1>4. QED
  BY <1>1, <1>2, <1>3 DEF FetchInv, TypeInv

\* What Register, Unregister and Load do to the types.
LEMMA ContractTyped ==
  ASSUME registered \subseteq Request, routed \in [fronts: SUBSET Request, backs: SUBSET Request],
         \/ \E r \in Request : Register(r)
         \/ \E s : Unregister(s)
         \/ Load \/ TryLoad \/ UNCHANGED contractVars
  PROVE  registered' \subseteq Request /\ routed' \in [fronts: SUBSET Request, backs: SUBSET Request]
<1>1. \A s : Others(s) \subseteq Request
  BY DEF Others
<1>2. QED
  BY <1>1, SaysTyped DEF Register, Unregister, Load, TryLoad, contractVars

\* The steps of a goroutine.
LEMMA GoroutineTyped ==
  ASSUME TypeInv, NEW l \in conf.listeners, Goroutine(l)
  PROVE  TypeInv'
<1> USE DEF TypeInv, processVars, swarmVars
<1>1. l \in Listener /\ conf.attempts \in Nat /\ conf.repeat \in BOOLEAN
  BY ConfFields DEF TypeOK
<1>2. Known(l) \subseteq Request
  BY DEF Known, TypeOK
<1>3. UNCHANGED <<conf, deployed, up, note, phase, envLeft, worker>>
  BY DEF Goroutine, Tick, Reload, Apply
<1>4. loop[l].pc # "off" /\ phase # "down"
  BY <1>1 DEF Goroutine, Tick, Reload, Apply, NoneDown
<1>5. /\ loop' \in [Listener -> [pc: {"off", "waiting", "applying", "ended", "gaveUp"},
                                 left: 0..conf.attempts, batch: SUBSET Request,
                                 needsReload: BOOLEAN]]
      /\ ready' \in BOOLEAN
  <2> USE DEF TypeOK
  <2>1. ASSUME Succeed(l)
        PROVE  <1>5
    BY <2>1, <1>1 DEF Succeed, Between
  <2>2. CASE Tick(l)
    <3>1. CASE Fail(l) /\ UNCHANGED ready
      <4>1. loop[l].left > 1 => loop[l].left - 1 \in 0..conf.attempts
        BY <1>1
      <4>2. QED
        BY <3>1, <4>1, <1>1 DEF Fail, Between
    <3>2. CASE Known(l) # {} /\ UNCHANGED ready
               /\ loop' = [loop EXCEPT ![l] = Applying(loop[l].left, Known(l), FALSE)]
      BY <3>2, <1>1, <1>2 DEF Applying
    <3>3. QED
      BY <2>1, <2>2, <3>1, <3>2 DEF Tick
  <2>3. CASE Reload(l)
    BY <2>1, <2>3 DEF Reload
  <2>4. ASSUME NEW r \in loop[l].batch, Apply(l, r)
        PROVE  <1>5
    <3>1. r \in Request /\ r.valid \in BOOLEAN
      BY <1>1, RequestFields
    <3>2. QED
      BY <2>4, <3>1, <1>1 DEF Apply, Applying
  <2>5. QED
    BY <2>2, <2>3, <2>4 DEF Goroutine
<1>6. registered' \subseteq Request /\ routed' \in [fronts: SUBSET Request, backs: SUBSET Request]
  <2>1. \A r \in loop[l].batch : r \in Request
    BY <1>1 DEF TypeOK
  <2>2. \/ \E r \in Request : Register(r)
        \/ TryLoad \/ UNCHANGED contractVars
    BY <2>1 DEF Goroutine, Tick, Reload, Apply
  <2>3. QED
    BY <2>2, ContractTyped DEF TypeOK
<1>7. TypeOK'
  BY <1>3, <1>5, <1>6 DEF TypeOK
<1>8. OneVersion' /\ NoteCurrent' /\ WorkersNamed' /\ NoneDown'
  BY <1>3, <1>4 DEF OneVersion, NoteCurrent, WorkersNamed, NoneDown, Version
<1>9. QED
  BY <1>7, <1>8

\* The steps of the main goroutine, and its end.
LEMMA ProcessTyped ==
  ASSUME TypeInv, Main \/ Crash
  PROVE  TypeInv'
<1> USE DEF TypeInv, processVars, swarmVars
<1>1. CASE Start
  <2>1. conf.attempts \in Nat /\ conf.environment \in Seq(Request)
    BY ConfFields DEF TypeOK
  <2>2. Between("waiting", conf.attempts)
           \in [pc: {"off", "waiting", "applying", "ended", "gaveUp"}, left: 0..conf.attempts,
                batch: SUBSET Request, needsReload: BOOLEAN]
    BY <2>1 DEF Between
  <2>3. TypeOK'
    BY <1>1, <2>1, <2>2, OffTyped DEF Start, TypeOK, contractVars
  <2>4. QED
    BY <1>1, <2>3 DEF Start, OneVersion, NoteCurrent, WorkersNamed, NoneDown, Version
<1>2. CASE RegisterEnv
  <2>1. PICK r \in Request : r = Head(envLeft)
    BY <1>2 DEF RegisterEnv, TypeOK
  <2>2. r.svc \in Service /\ Tail(envLeft) \in Seq(Request)
    BY <1>2, <2>1, RequestFields DEF RegisterEnv, TypeOK
  <2>3. registered' \subseteq Request /\ routed' \in [fronts: SUBSET Request, backs: SUBSET Request]
    BY <1>2, <2>1, ContractTyped DEF RegisterEnv, TypeOK
  <2>4. worker' = [worker EXCEPT ![r.svc] = [doing |-> "load", req |-> r]]
    BY <1>2, <2>1 DEF RegisterEnv
  <2>5. TypeOK'
    <3>1. [doing |-> "load", req |-> r]
             \in [doing: {"nothing", "load", "unload"}, req: Request \cup {None}]
      OBVIOUS
    <3>2. worker' \in [Service -> [doing: {"nothing", "load", "unload"}, req: Request \cup {None}]]
      BY <2>4, <3>1 DEF TypeOK
    <3>3. QED
      BY <1>2, <2>2, <2>3, <3>2 DEF RegisterEnv, TypeOK
  <2>6. WorkersNamed'
    BY <2>2, <2>4 DEF WorkersNamed, TypeOK
  <2>7. QED
    BY <1>2, <2>5, <2>6 DEF RegisterEnv, OneVersion, NoteCurrent, NoneDown, Version
<1>3. CASE Serve
  BY <1>3 DEF Serve, TypeOK, OneVersion, NoteCurrent, WorkersNamed, NoneDown, Version, contractVars
<1>4. CASE Crash
  <2>1. TypeOK'
    BY <1>4, EmptyTyped, OffTyped, IdleTyped DEF Crash, TypeOK
  <2>2. OneVersion' /\ NoteCurrent'
    BY <1>4 DEF Crash, OneVersion, NoteCurrent, Version
  <2>3. WorkersNamed' /\ NoneDown'
    BY <1>4 DEF Crash, WorkersNamed, NoneDown, Idle, Off, Between
  <2>4. QED
    BY <2>1, <2>2, <2>3
<1>5. QED
  BY <1>1, <1>2, <1>3, <1>4 DEF Main

\* The requests of the listeners.
LEMMA RequestTyped ==
  ASSUME TypeInv,
         ReloadClusterConfig \/ \E s \in Service : Delivery(s) \/ Handler(s)
  PROVE  TypeInv'
<1> USE DEF TypeInv, processVars, swarmVars
<1>1. \A s : Version(s) \subseteq Request
  BY DEF Version, TypeOK
<1>2. CASE ReloadClusterConfig
  <2>1. \A s \in Service : note'[s] = note[s] \/ note'[s] \in Version(s)
    <3> SUFFICES ASSUME NEW s \in Service
                 PROVE  note'[s] = note[s] \/ note'[s] \in Version(s)
      OBVIOUS
    <3>1. (\E l \in conf.listeners \cap up : \E r \in Known(l) : r.svc = s) => Version(s) # {}
      BY DEF Known, Version
    <3>2. QED
      BY <1>2, <3>1 DEF ReloadClusterConfig
  <2>2. note' \in [Service -> Request \cup {None, Removal}]
    <3>1. note' = [s \in Service |-> note'[s]]
      BY <1>2 DEF ReloadClusterConfig
    <3>2. \A s \in Service : note'[s] \in Request \cup {None, Removal}
      BY <1>1, <2>1 DEF TypeOK
    <3>3. QED
      BY <3>1, <3>2
  <2>3. NoteCurrent'
    <3> SUFFICES ASSUME NEW s \in Service
                 PROVE  /\ note'[s] \in Request => note'[s] \in Version(s)'
                        /\ note'[s] = Removal => Version(s)' = {}
      BY DEF NoteCurrent
    <3>1. Version(s)' = Version(s)
      BY <1>2 DEF ReloadClusterConfig, Version
    <3>2. note'[s] \in Version(s) => note'[s] # Removal
      BY <1>1, FetchAssumption
    <3>3. QED
      BY <2>1, <3>1, <3>2 DEF NoteCurrent
  <2>4. QED
    BY <1>2, <2>2, <2>3 DEF ReloadClusterConfig, TypeOK, OneVersion, WorkersNamed, NoneDown, contractVars
<1>3. ASSUME NEW s \in Service, Notified(s)
      PROVE  TypeInv'
  <2>1. note[s] \in Request /\ note[s].svc = s
    BY <1>1, <1>3 DEF Notified, Version
  <2>2. /\ registered' \subseteq Request
        /\ routed' \in [fronts: SUBSET Request, backs: SUBSET Request]
    <3>1. Register(note[s]) \/ UNCHANGED contractVars
      BY <1>3 DEF Notified
    <3>2. QED
      BY <2>1, <3>1, ContractTyped DEF TypeOK
  <2>3. \/ UNCHANGED worker
        \/ worker' = [worker EXCEPT ![s] = [doing |-> "load", req |-> note[s]]]
    BY <1>3 DEF Notified
  <2>4. UNCHANGED note \/ note' = [note EXCEPT ![s] = None]
    BY <1>3 DEF Notified
  <2>5. worker' \in [Service -> [doing: {"nothing", "load", "unload"}, req: Request \cup {None}]]
    <3>1. [doing |-> "load", req |-> note[s]]
             \in [doing: {"nothing", "load", "unload"}, req: Request \cup {None}]
      BY <2>1
    <3>2. QED
      BY <2>3, <3>1 DEF TypeOK
  <2>6. WorkersNamed'
    <3>1. CASE UNCHANGED worker
      BY <3>1 DEF WorkersNamed
    <3>2. CASE worker' = [worker EXCEPT ![s] = [doing |-> "load", req |-> note[s]]]
      BY <2>1, <3>2 DEF WorkersNamed, TypeOK
    <3>3. QED
      BY <2>3, <3>1, <3>2
  <2>7. note' \in [Service -> Request \cup {None, Removal}]
    BY <2>4 DEF TypeOK
  <2>8. NoteCurrent'
    <3>1. \A t \in Service : note'[t] = note[t] \/ note'[t] = None
      BY <2>4 DEF TypeOK
    <3>2. \A t : Version(t)' = Version(t)
      BY <1>3 DEF Notified, Version
    <3>3. QED
      BY <3>1, <3>2, FetchAssumption DEF NoteCurrent
  <2>9. QED
    BY <1>3, <2>2, <2>5, <2>6, <2>7, <2>8 DEF Notified, TypeOK, OneVersion, NoneDown
<1>4. ASSUME NEW s \in Service, RemovalNotified(s)
      PROVE  TypeInv'
  <2>1. /\ registered' \subseteq Request
        /\ routed' \in [fronts: SUBSET Request, backs: SUBSET Request]
    <3>1. (\E t : Unregister(t)) \/ UNCHANGED contractVars
      BY <1>4 DEF RemovalNotified
    <3>2. QED
      BY <3>1, ContractTyped DEF TypeOK
  <2>2. /\ worker' \in [Service -> [doing: {"nothing", "load", "unload"}, req: Request \cup {None}]]
        /\ note' \in [Service -> Request \cup {None, Removal}]
    BY <1>4 DEF RemovalNotified, TypeOK
  <2>3. WorkersNamed' /\ NoteCurrent'
    BY <1>4, FetchAssumption DEF RemovalNotified, WorkersNamed, NoteCurrent, Version, TypeOK
  <2>4. QED
    BY <1>4, <2>1, <2>2, <2>3 DEF RemovalNotified, TypeOK, OneVersion, NoneDown
<1>5. ASSUME NEW s \in Service, WorkerLoads(s)
      PROVE  TypeInv'
  <2>1. /\ registered' \subseteq Request
        /\ routed' \in [fronts: SUBSET Request, backs: SUBSET Request]
    <3>1. Load \/ \E t : Unregister(t)
      BY <1>5 DEF WorkerLoads
    <3>2. QED
      BY <3>1, ContractTyped DEF TypeOK
  <2>2. PICK w \in {Idle, [doing |-> "unload", req |-> None]} :
           worker' = [worker EXCEPT ![s] = w]
    BY <1>5 DEF WorkerLoads
  <2>3. worker' \in [Service -> [doing: {"nothing", "load", "unload"}, req: Request \cup {None}]]
    BY <2>2, IdleTyped DEF TypeOK
  <2>4. /\ note' \in [Service -> Request \cup {None, Removal}]
        /\ \A t \in Service : note'[t] = note[t] \/ note'[t] = None
    BY <1>5 DEF WorkerLoads, TypeOK
  <2>5. WorkersNamed'
    BY <2>2 DEF WorkersNamed, TypeOK, Idle
  <2>6. NoteCurrent'
    BY <1>5, <2>4, FetchAssumption DEF WorkerLoads, NoteCurrent, Version
  <2>7. QED
    BY <1>5, <2>1, <2>3, <2>4, <2>5, <2>6 DEF WorkerLoads, TypeOK, OneVersion, NoneDown
<1>6. ASSUME NEW s \in Service, WorkerUnloads(s)
      PROVE  TypeInv'
  <2>1. /\ registered' \subseteq Request
        /\ routed' \in [fronts: SUBSET Request, backs: SUBSET Request]
    BY <1>6, ContractTyped DEF WorkerUnloads, TypeOK
  <2>2. worker' = [worker EXCEPT ![s] = Idle]
    BY <1>6 DEF WorkerUnloads
  <2>3. worker' \in [Service -> [doing: {"nothing", "load", "unload"}, req: Request \cup {None}]]
    BY <2>2, IdleTyped DEF TypeOK
  <2>4. WorkersNamed'
    BY <2>2 DEF WorkersNamed, TypeOK, Idle
  <2>5. QED
    BY <1>6, <2>1, <2>3, <2>4 DEF WorkerUnloads, TypeOK, OneVersion, NoteCurrent, NoneDown, Version
<1>7. QED
  BY <1>2, <1>3, <1>4, <1>5, <1>6 DEF Delivery, Handler

\* The steps of the swarm.
LEMMA SwarmTyped ==
  ASSUME TypeInv,
         \/ \E r \in conf.world : Deploy(r)
         \/ \E s \in Service : Undeploy(s) \/ Lose(s)
         \/ \E l \in conf.listeners : ListenerFails(l) \/ ListenerReturns(l)
  PROVE  TypeInv'
<1> USE DEF TypeInv, processVars, swarmVars
<1>1. ASSUME NEW r \in conf.world, Deploy(r)
      PROVE  TypeInv'
  <2>1. r \in Request /\ r.svc \in Service /\ r # None /\ r # Removal
    BY ConfFields, RequestFields DEF TypeOK
  <2>2. TypeOK'
    BY <1>1, <2>1 DEF Deploy, TypeOK, contractVars
  <2>3. OneVersion'
    BY <1>1 DEF Deploy, OneVersion, Version
  <2>4. NoteCurrent'
    BY <1>1, <2>1 DEF Deploy, NoteCurrent, Version, TypeOK
  <2>5. QED
    BY <1>1, <2>2, <2>3, <2>4 DEF Deploy, WorkersNamed, NoneDown
<1>2. ASSUME NEW s \in Service, Undeploy(s)
      PROVE  TypeInv'
  <2>1. TypeOK'
    BY <1>2 DEF Undeploy, TypeOK, contractVars
  <2>2. OneVersion'
    BY <1>2 DEF Undeploy, OneVersion
  <2>3. NoteCurrent'
    BY <1>2, FetchAssumption DEF Undeploy, NoteCurrent, Version, TypeOK
  <2>4. QED
    BY <1>2, <2>1, <2>2, <2>3 DEF Undeploy, WorkersNamed, NoneDown
<1>3. ASSUME NEW s \in Service, Lose(s)
      PROVE  TypeInv'
  <2>1. TypeOK'
    BY <1>3 DEF Lose, TypeOK, contractVars
  <2>2. NoteCurrent'
    BY <1>3, FetchAssumption DEF Lose, NoteCurrent, Version, TypeOK
  <2>3. QED
    BY <1>3, <2>1, <2>2 DEF Lose, OneVersion, WorkersNamed, NoneDown
<1>4. ASSUME NEW l \in conf.listeners, ListenerFails(l) \/ ListenerReturns(l)
      PROVE  TypeInv'
  <2>1. l \in Listener
    BY ConfFields DEF TypeOK
  <2>2. TypeOK'
    BY <1>4, <2>1 DEF ListenerFails, ListenerReturns, TypeOK, contractVars
  <2>3. QED
    BY <1>4, <2>2 DEF ListenerFails, ListenerReturns, OneVersion, NoteCurrent, WorkersNamed,
                      NoneDown, Version
<1>5. QED
  BY <1>1, <1>2, <1>3, <1>4

LEMMA TypeStep == TypeInv /\ [Next]_vars => TypeInv'
<1> SUFFICES ASSUME TypeInv, [Next]_vars PROVE TypeInv'
  OBVIOUS
<1>1. CASE UNCHANGED vars
  BY <1>1 DEF vars, processVars, swarmVars, contractVars, TypeInv, TypeOK, OneVersion,
              NoteCurrent, WorkersNamed, NoneDown, Version
<1>2. CASE Next
  BY <1>2, ProcessTyped, RequestTyped, SwarmTyped, GoroutineTyped DEF Next
<1>3. QED
  BY <1>1, <1>2

\* The variables hold what the code can hold, whatever the number of services,
\* listeners and attempts (server.go:90-140, actions/fetch.go:34-65).
THEOREM FetchTypeCorrect == Spec => []TypeOK
<1>1. Init => TypeInv
  BY InitInv DEF FetchInv
<1>2. TypeInv => TypeOK
  BY DEF TypeInv
<1>3. QED
  BY <1>1, <1>2, TypeStep, PTL DEF Spec

--------------------------------------------------------------------------------
(* What is registered is loaded, or about to be *)

LEMMA RegisterKeeps ==
  ASSUME NEW r, Register(r)
  PROVE  /\ \A s : HasService(s) => HasService(s)'
         /\ HasService(r.svc)'
  BY DEF Register, Others, HasService

LEMMA UnregisterKeeps ==
  ASSUME NEW s, Unregister(s), NEW t, t # s, HasService(t)
  PROVE  HasService(t)'
  BY DEF Unregister, Others, HasService

LEMMA LenientLoads ==
  ASSUME conf.lenient, TryLoad
  PROVE  routed' = Says(registered') /\ UNCHANGED registered
  BY DEF TryLoad, Accepted, Load

LEMMA GoroutineLoads ==
  ASSUME TypeInv, conf.lenient, LoadDue, KeptInv, NEW l \in conf.listeners, Goroutine(l)
  PROVE  LoadDue' /\ KeptInv'
<1> USE DEF TypeInv
<1>1. l \in Listener
  BY ConfFields DEF TypeOK
<1>2. UNCHANGED worker /\ DOMAIN loop = Listener
  BY DEF Goroutine, Tick, Reload, Apply, TypeOK
<1>3. CASE Tick(l)
  <2>1. UNCHANGED contractVars /\ loop[l].pc = "waiting"
    BY <1>3 DEF Tick
  <2>2. \A m \in Listener : m # l => loop'[m] = loop[m]
    BY <1>1, <1>2, <1>3 DEF Tick, Fail, Succeed
  <2>3. QED
    BY <1>2, <2>1, <2>2 DEF LoadDue, KeptInv, HasService, contractVars
<1>4. CASE Reload(l)
  <2>1. \A m \in Listener : m # l => loop'[m] = loop[m]
    BY <1>1, <1>2, <1>4 DEF Reload, Succeed
  <2>2. CASE loop[l].needsReload
    <3>1. TryLoad
      BY <1>4, <2>2 DEF Reload
    <3>2. QED
      BY <1>2, <3>1, LenientLoads DEF LoadDue, KeptInv, HasService
  <2>3. CASE ~loop[l].needsReload
    BY <1>2, <1>4, <2>1, <2>3 DEF Reload, LoadDue, KeptInv, HasService, contractVars
  <2>4. QED
    BY <2>2, <2>3
<1>5. ASSUME NEW r \in loop[l].batch, Apply(l, r)
      PROVE  LoadDue' /\ KeptInv'
  <2>1. loop' = [loop EXCEPT ![l] = Applying(loop[l].left, loop[l].batch \ {r},
                                            loop[l].needsReload \/ r.valid)]
    BY <1>5 DEF Apply
  <2>2. /\ loop'[l].pc = "applying" /\ loop'[l].needsReload = (loop[l].needsReload \/ r.valid)
        /\ \A m \in Listener : m # l => loop'[m] = loop[m]
    BY <1>1, <1>2, <2>1 DEF Applying
  <2>3. CASE UNCHANGED contractVars
    BY <1>2, <2>2, <2>3 DEF LoadDue, KeptInv, HasService, contractVars
  <2>4. CASE r.valid /\ Register(r)
    <3>1. LoadDue'
      BY <1>1, <2>2, <2>4 DEF LoadDue
    <3>2. KeptInv'
      BY <1>2, <2>4, RegisterKeeps DEF KeptInv
    <3>3. QED
      BY <3>1, <3>2
  <2>5. QED
    BY <1>5, <2>3, <2>4 DEF Apply
<1>6. QED
  BY <1>3, <1>4, <1>5 DEF Goroutine

LEMMA ProcessLoads ==
  ASSUME TypeInv, conf.lenient, LoadDue, KeptInv, Main \/ Crash
  PROVE  LoadDue' /\ KeptInv'
<1> USE DEF TypeInv, processVars, swarmVars
<1>1. CASE Start
  BY <1>1 DEF Start, NoneDown, LoadDue, KeptInv, HasService, contractVars
<1>2. CASE RegisterEnv
  <2>1. PICK r \in Request : r = Head(envLeft)
    BY <1>2 DEF RegisterEnv, TypeOK
  <2>2. /\ r.svc \in Service /\ Register(r) /\ DOMAIN worker = Service
        /\ worker' = [worker EXCEPT ![r.svc] = [doing |-> "load", req |-> r]]
    BY <1>2, <2>1, RequestFields DEF RegisterEnv, TypeOK
  <2>3. LoadDue'
    BY <2>2 DEF LoadDue
  <2>4. KeptInv'
    BY <2>2, RegisterKeeps DEF KeptInv
  <2>5. QED
    BY <2>3, <2>4
<1>3. CASE Serve
  BY <1>3 DEF Serve, LoadDue, KeptInv, HasService, contractVars
<1>4. CASE Crash
  BY <1>4 DEF Crash, LoadDue, KeptInv, Idle
<1>5. QED
  BY <1>1, <1>2, <1>3, <1>4 DEF Main

LEMMA RequestLoads ==
  ASSUME TypeInv, conf.lenient, LoadDue, KeptInv,
         NEW s \in Service, Delivery(s) \/ Handler(s)
  PROVE  LoadDue' /\ KeptInv'
<1> USE DEF TypeInv, processVars, swarmVars
<1>1. DOMAIN worker = Service
  BY DEF TypeOK
<1>2. CASE Notified(s)
  <2>1. CASE note[s].valid
    <3>1. Register(note[s]) /\ worker' = [worker EXCEPT ![s] = [doing |-> "load", req |-> note[s]]]
      BY <1>2, <2>1 DEF Notified
    <3>2. note[s].svc = s
      BY <1>2 DEF Notified, Version
    <3>3. LoadDue'
      BY <1>1, <3>1 DEF LoadDue
    <3>4. KeptInv'
      BY <1>1, <3>1, <3>2, RegisterKeeps DEF KeptInv
    <3>5. QED
      BY <3>3, <3>4
  <2>2. CASE ~note[s].valid
    BY <1>2, <2>2 DEF Notified, LoadDue, KeptInv, HasService, contractVars
  <2>3. QED
    BY <2>1, <2>2
<1>3. CASE RemovalNotified(s)
  <2>1. CASE HasService(s)
    <3>1. Unregister(s) /\ worker' = [worker EXCEPT ![s] = [doing |-> "unload", req |-> None]]
      BY <1>3, <2>1 DEF RemovalNotified, HasService
    <3>2. LoadDue'
      BY <1>1, <3>1 DEF LoadDue
    <3>3. KeptInv'
      BY <1>1, <3>1, UnregisterKeeps DEF KeptInv
    <3>4. QED
      BY <3>2, <3>3
  <2>2. CASE ~HasService(s)
    BY <1>3, <2>2 DEF RemovalNotified, LoadDue, KeptInv, HasService, contractVars
  <2>3. QED
    BY <2>1, <2>2
<1>4. CASE WorkerLoads(s)
  <2>1. Load /\ worker' = [worker EXCEPT ![s] = Idle]
    BY <1>4 DEF WorkerLoads, Accepted
  <2>2. QED
    BY <1>1, <2>1 DEF Load, LoadDue, KeptInv, HasService, Idle
<1>5. CASE WorkerUnloads(s)
  <2>1. TryLoad /\ worker' = [worker EXCEPT ![s] = Idle]
    BY <1>5 DEF WorkerUnloads
  <2>2. QED
    BY <1>1, <2>1, LenientLoads DEF LoadDue, KeptInv, HasService, Idle
<1>6. QED
  BY <1>2, <1>3, <1>4, <1>5 DEF Delivery, Handler

LEMMA LoadStep ==
  ASSUME TypeInv, conf.lenient, LoadDue, KeptInv, [Next]_vars
  PROVE  LoadDue' /\ KeptInv'
<1>1. CASE UNCHANGED <<processVars, contractVars>>
  BY <1>1 DEF LoadDue, KeptInv, HasService, processVars, contractVars
<1>2. CASE \E l \in conf.listeners : Goroutine(l)
  BY <1>2, GoroutineLoads
<1>3. CASE Main \/ Crash
  BY <1>3, ProcessLoads
<1>4. CASE \E s \in Service : Delivery(s) \/ Handler(s)
  BY <1>4, RequestLoads
<1>5. QED
  BY <1>1, <1>2, <1>3, <1>4
  DEF Next, vars, ReloadClusterConfig, ListenerFails, ListenerReturns, Undeploy, Lose, Deploy

--------------------------------------------------------------------------------
(* A service of a listener that has answered is registered, or announced *)

LEMMA OneListener ==
  ASSUME conf \in Conf, Single, NEW l \in conf.listeners, NEW m \in conf.listeners
  PROVE  l = m
<1>1. IsFiniteSet(conf.listeners)
  BY ConfFields
<1>2. PICK x : conf.listeners = {x}
  BY <1>1, FS_Singleton DEF Single
<1>3. QED
  BY <1>2

\* Steps that change no goroutine.
LEMMA CoverKept ==
  ASSUME CoverInv, UNCHANGED <<conf, loop, ready>>,
         \A s : Covered(s) /\ (\E r \in deployed' : r.svc = s /\ r.valid) => Covered(s)',
         \A r \in deployed' : r \in deployed \/ Covered(r.svc)'
  PROVE  CoverInv'
<1> SUFFICES ASSUME NEW l \in conf'.listeners, NEW r \in Known(l)', r.valid
             PROVE  /\ Answered(l)' => Covered(r.svc)'
                    /\ loop'[l].pc = "applying" => r \in loop'[l].batch \/ Covered(r.svc)'
  BY DEF CoverInv
<1>1. CASE Covered(r.svc)'
  BY <1>1
<1>2. CASE r \in deployed
  <2>1. r \in Known(l) /\ r \in deployed'
    BY <1>2 DEF Known
  <2>2. Answered(l)' = Answered(l)
    BY DEF Answered, Single
  <2>3. QED
    BY <2>1, <2>2 DEF CoverInv
<1>3. QED
  BY <1>1, <1>2 DEF Known

LEMMA GoroutineCovers ==
  ASSUME TypeInv, CoverInv, NEW l \in conf.listeners, Goroutine(l)
  PROVE  CoverInv'
<1> USE DEF TypeInv
<1>1. l \in Listener /\ conf \in Conf /\ conf.listeners \subseteq Listener
  BY ConfFields DEF TypeOK
<1>2. UNCHANGED <<conf, deployed, note>> /\ DOMAIN loop = Listener
  BY DEF Goroutine, Tick, Reload, Apply, TypeOK, swarmVars
<1>3. \A m : Known(m)' = Known(m)
  BY <1>2 DEF Known
<1>4. \A s : Covered(s) => Covered(s)'
  <2>1. UNCHANGED registered \/ \E r : Register(r)
    BY DEF Goroutine, Tick, Reload, Apply, TryLoad, Load, contractVars
  <2>2. QED
    BY <1>2, <2>1, RegisterKeeps DEF Covered, HasService
<1>5. \A m \in Listener : m # l => loop'[m] = loop[m]
  BY <1>1, <1>2 DEF Goroutine, Tick, Fail, Succeed, Reload, Apply
<1>6. ASSUME NEW m \in conf.listeners, m # l, NEW r \in Known(m), r.valid
      PROVE  /\ Answered(m)' => Covered(r.svc)'
             /\ loop'[m].pc = "applying" => r \in loop'[m].batch \/ Covered(r.svc)'
  <2>1. ~Single
    BY <1>1, <1>6, OneListener
  <2>2. Answered(m)' = Answered(m) /\ loop'[m] = loop[m]
    BY <1>1, <1>2, <1>5, <1>6, <2>1 DEF Answered, Single
  <2>3. QED
    BY <1>4, <1>6, <2>2 DEF CoverInv
<1>7. ASSUME NEW r \in Known(l), r.valid
      PROVE  /\ Answered(l)' => Covered(r.svc)'
             /\ loop'[l].pc = "applying" => r \in loop'[l].batch \/ Covered(r.svc)'
  <2>1. /\ Answered(l) => Covered(r.svc)'
        /\ loop[l].pc = "applying" => r \in loop[l].batch \/ Covered(r.svc)'
    BY <1>4, <1>7 DEF CoverInv
  <2>2. Single' = Single
    BY <1>2 DEF Single
  <2>3. CASE Tick(l)
    <3>1. UNCHANGED ready /\ loop[l].pc = "waiting"
      BY <1>7, <2>3 DEF Tick
    <3>2. CASE Fail(l)
      <4>1. loop'[l].pc \in {"waiting", "gaveUp"}
        BY <1>1, <1>2, <3>1, <3>2 DEF Fail, Between
      <4>2. QED
        BY <2>1, <2>2, <3>1, <4>1 DEF Answered
    <3>3. CASE loop' = [loop EXCEPT ![l] = Applying(loop[l].left, Known(l), FALSE)]
      <4>1. loop'[l].pc = "applying" /\ loop'[l].batch = Known(l)
        BY <1>1, <1>2, <3>3 DEF Applying
      <4>2. QED
        BY <1>7, <2>1, <2>2, <3>1, <4>1 DEF Answered
    <3>4. QED
      BY <1>7, <2>3, <3>2, <3>3 DEF Tick
  <2>4. CASE Reload(l)
    <3>1. Covered(r.svc)'
      BY <2>1, <2>4 DEF Reload
    <3>2. QED
      BY <3>1
  <2>5. ASSUME NEW q \in loop[l].batch, Apply(l, q)
        PROVE  /\ Answered(l)' => Covered(r.svc)'
               /\ loop'[l].pc = "applying" => r \in loop'[l].batch \/ Covered(r.svc)'
    <3>1. loop' = [loop EXCEPT ![l] = Applying(loop[l].left, loop[l].batch \ {q},
                                              loop[l].needsReload \/ q.valid)]
      BY <2>5 DEF Apply
    <3>2. /\ loop[l].pc = "applying" /\ UNCHANGED ready
          /\ loop'[l].pc = "applying" /\ loop'[l].batch = loop[l].batch \ {q}
      BY <1>1, <1>2, <2>5, <3>1 DEF Apply, Applying
    <3>3. ASSUME r = q
          PROVE  Covered(r.svc)'
      <4>1. Resolves(r)
        BY <1>7 DEF Known, Resolves, Version
      <4>2. Register(r)
        BY <1>7, <2>5, <3>3, <4>1 DEF Apply
      <4>3. QED
        BY <4>2, RegisterKeeps DEF Covered
    <3>4. QED
      BY <2>1, <2>2, <3>2, <3>3 DEF Answered
  <2>6. QED
    BY <2>3, <2>4, <2>5 DEF Goroutine
<1>8. QED
  BY <1>2, <1>3, <1>6, <1>7 DEF CoverInv

LEMMA ProcessCovers ==
  ASSUME TypeInv, CoverInv, Main \/ Crash
  PROVE  CoverInv'
<1> USE DEF TypeInv, processVars, swarmVars
<1>1. UNCHANGED <<conf, deployed, note>> /\ \A m : Known(m)' = Known(m)
  BY DEF Main, Start, RegisterEnv, Serve, Crash, Known
<1>2. CASE Start
  <2>1. \A l \in Listener : loop'[l].pc \in {"waiting", "off"}
    BY <1>2 DEF Start, Off, Between
  <2>2. \A s : Covered(s)' = Covered(s)
    BY <1>2 DEF Start, Covered, HasService, contractVars
  <2>3. conf.listeners \subseteq Listener
    BY ConfFields DEF TypeOK
  <2>4. \A l \in conf.listeners : Answered(l)' => Answered(l)
    BY <1>1, <1>2, <2>1, <2>3 DEF Start, Answered, Single
  <2>5. QED
    BY <1>1, <2>1, <2>2, <2>3, <2>4 DEF CoverInv
<1>3. CASE RegisterEnv
  <2>1. PICK r : Register(r)
    BY <1>3 DEF RegisterEnv
  <2>2. \A s : Covered(s) => Covered(s)'
    BY <1>1, <2>1, RegisterKeeps DEF Covered
  <2>3. QED
    BY <1>1, <1>3, <2>2, CoverKept DEF RegisterEnv
<1>4. CASE Serve
  <2>1. \A s : Covered(s) => Covered(s)'
    BY <1>4 DEF Serve, Covered, HasService, contractVars
  <2>2. QED
    BY <1>1, <1>4, <2>1, CoverKept DEF Serve
<1>5. CASE Crash
  <2>1. conf.listeners \subseteq Listener
    BY ConfFields DEF TypeOK
  <2>2. \A l \in conf.listeners : ~Answered(l)' /\ loop'[l].pc = "off"
    BY <1>5, <2>1 DEF Crash, Answered, Off, Between
  <2>3. QED
    BY <1>1, <2>2 DEF CoverInv
<1>6. QED
  BY <1>2, <1>3, <1>4, <1>5 DEF Main

LEMMA RequestCovers ==
  ASSUME TypeInv, conf.lenient, KeptInv, CoverInv,
         ReloadClusterConfig \/ \E s \in Service : Delivery(s) \/ Handler(s)
  PROVE  CoverInv'
<1> USE DEF TypeInv, processVars, swarmVars
<1>1. \A r \in deployed : r \in Request /\ r.svc \in Service /\ r # None
  BY RequestFields DEF TypeOK
<1>2. DOMAIN note = Service
  BY DEF TypeOK
<1>3. CASE ReloadClusterConfig
  <2>1. \A s \in Service : note[s] # None => note'[s] # None
    <3> SUFFICES ASSUME NEW s \in Service, note[s] # None PROVE note'[s] # None
      OBVIOUS
    <3>1. CASE \E l \in conf.listeners \cap up : \E r \in Known(l) : r.svc = s
      <4>1. Version(s) # {}
        BY <3>1 DEF Known, Version
      <4>2. note'[s] \in Version(s)
        BY <1>3, <3>1, <4>1 DEF ReloadClusterConfig
      <4>3. QED
        BY <1>1, <4>2 DEF Version
    <3>2. CASE ~\E l \in conf.listeners \cap up : \E r \in Known(l) : r.svc = s
      BY <1>3, <3>2 DEF ReloadClusterConfig
    <3>3. QED
      BY <3>1, <3>2
  <2>2. \A s \in Service : Covered(s) => Covered(s)'
    BY <1>3, <2>1 DEF ReloadClusterConfig, Covered, HasService, contractVars
  <2>3. QED
    BY <1>1, <1>3, <2>2, CoverKept DEF ReloadClusterConfig
<1>4. ASSUME NEW s \in Service, Notified(s)
      PROVE  CoverInv'
  <2>1. note[s] \in deployed /\ note[s].svc = s
    BY <1>4 DEF Notified, Version
  <2>2. CASE note[s].valid
    <3>1. \A t : Covered(t) => Covered(t)'
      BY <1>4, <2>2, RegisterKeeps DEF Notified, Covered
    <3>2. QED
      BY <1>4, <3>1, CoverKept DEF Notified
  <2>3. CASE ~note[s].valid
    <3>1. \A t \in Service : t # s /\ Covered(t) => Covered(t)'
      BY <1>2, <1>4, <2>3 DEF Notified, Covered, HasService, contractVars
    <3>2. \A r \in deployed : r.valid => r.svc # s
      BY <2>1, <2>3 DEF OneVersion
    <3>3. QED
      BY <1>1, <1>4, <3>1, <3>2, CoverKept DEF Notified
  <2>4. QED
    BY <2>2, <2>3
<1>5. ASSUME NEW s \in Service, RemovalNotified(s)
      PROVE  CoverInv'
  <2>1. \A r \in deployed : r.svc # s
    BY <1>5 DEF RemovalNotified, NoteCurrent, Version
  <2>2. \A t \in Service : t # s /\ Covered(t) => Covered(t)'
    <3>1. UNCHANGED registered \/ Unregister(s)
      BY <1>5 DEF RemovalNotified, contractVars
    <3>2. \A t \in Service : t # s => note'[t] = note[t]
      BY <1>2, <1>5 DEF RemovalNotified
    <3>3. QED
      BY <3>1, <3>2, UnregisterKeeps DEF Covered, HasService
  <2>3. QED
    BY <1>1, <1>5, <2>1, <2>2, CoverKept DEF RemovalNotified
<1>6. ASSUME NEW s \in Service, WorkerLoads(s)
      PROVE  CoverInv'
  <2>1. /\ Load /\ worker[s].doing = "load"
        /\ note' = [note EXCEPT ![s] = IF note[s] = worker[s].req THEN None ELSE note[s]]
    BY <1>6 DEF WorkerLoads, Accepted
  <2>2. HasService(s)
    BY <2>1 DEF KeptInv
  <2>3. \A t \in Service : Covered(t) => Covered(t)'
    BY <1>2, <2>1, <2>2 DEF Load, Covered, HasService
  <2>4. QED
    BY <1>1, <1>6, <2>3, CoverKept DEF WorkerLoads
<1>7. ASSUME NEW s \in Service, WorkerUnloads(s)
      PROVE  CoverInv'
  <2>1. \A t : Covered(t) => Covered(t)'
    BY <1>7 DEF WorkerUnloads, TryLoad, Load, Covered, HasService, contractVars
  <2>2. QED
    BY <1>7, <2>1, CoverKept DEF WorkerUnloads
<1>8. QED
  BY <1>3, <1>4, <1>5, <1>6, <1>7 DEF Delivery, Handler

LEMMA SwarmCovers ==
  ASSUME TypeInv, CoverInv,
         \/ \E r \in conf.world : Deploy(r)
         \/ \E s \in Service : Undeploy(s)
         \/ \E l \in conf.listeners : ListenerFails(l) \/ ListenerReturns(l)
  PROVE  CoverInv'
<1> USE DEF TypeInv, processVars, swarmVars
<1>1. DOMAIN note = Service /\ \A r \in deployed : r.svc \in Service
  BY RequestFields DEF TypeOK
<1>2. ASSUME NEW r \in conf.world, Deploy(r)
      PROVE  CoverInv'
  <2>1. r \in Request /\ r.svc \in Service /\ r # None
    BY ConfFields, RequestFields DEF TypeOK
  <2>2. Covered(r.svc)'
    BY <1>1, <1>2, <2>1 DEF Deploy, Covered
  <2>3. \A s : s # r.svc /\ s \in Service /\ Covered(s) => Covered(s)'
    BY <1>1, <1>2 DEF Deploy, Covered, HasService, contractVars
  <2>4. \A q \in deployed' : q \in deployed \/ q = r
    BY <1>2 DEF Deploy
  <2>5. QED
    BY <1>1, <1>2, <2>1, <2>2, <2>3, <2>4, CoverKept DEF Deploy
<1>3. ASSUME NEW s \in Service, Undeploy(s)
      PROVE  CoverInv'
  <2>1. \A t \in Service : Covered(t) => Covered(t)'
    BY <1>1, <1>3, FetchAssumption DEF Undeploy, Covered, HasService, contractVars
  <2>2. deployed' \subseteq deployed
    BY <1>3 DEF Undeploy
  <2>3. QED
    BY <1>1, <1>3, <2>1, <2>2, CoverKept DEF Undeploy
<1>4. ASSUME NEW l \in conf.listeners, ListenerFails(l) \/ ListenerReturns(l)
      PROVE  CoverInv'
  <2>1. \A s : Covered(s) => Covered(s)'
    BY <1>4 DEF ListenerFails, ListenerReturns, Covered, HasService, contractVars
  <2>2. QED
    BY <1>4, <2>1, CoverKept DEF ListenerFails, ListenerReturns
<1>5. QED
  BY <1>2, <1>3, <1>4

--------------------------------------------------------------------------------
(* The theorem *)

LEMMA FetchStep == FetchInv /\ [Next]_vars => FetchInv'
<1> SUFFICES ASSUME FetchInv, [Next]_vars PROVE FetchInv'
  OBVIOUS
<1> USE DEF FetchInv
<1>1. TypeInv'
  BY TypeStep
<1>2. UNCHANGED conf
  BY DEF Next, vars, Main, Start, RegisterEnv, Serve, Crash, ReloadClusterConfig, Goroutine,
         Tick, Reload, Apply, ListenerFails, ListenerReturns, Handler, WorkerLoads,
         WorkerUnloads, Delivery, Notified, RemovalNotified, Undeploy, Lose, Deploy
<1>3. conf.lenient => LoadDue' /\ KeptInv'
  BY LoadStep
<1>4. ASSUME conf.lenient, ~conf.lossy
      PROVE  CoverInv'
  <2>1. CASE UNCHANGED vars
    BY <1>4, <2>1 DEF vars, processVars, swarmVars, contractVars, CoverInv, Known, Answered,
                      Single, Covered, HasService
  <2>2. CASE Next
    <3>1. ~\E s \in Service : Lose(s)
      BY <1>4 DEF Lose
    <3>2. QED
      BY <1>4, <2>2, <3>1, GoroutineCovers, ProcessCovers, RequestCovers, SwarmCovers DEF Next
  <2>3. QED
    BY <2>1, <2>2
<1>5. QED
  BY <1>1, <1>2, <1>3, <1>4

LEMMA InvGivesNothingMissed == FetchInv => NothingMissed
<1> SUFFICES ASSUME FetchInv, Quiet, conf.lenient, ~conf.lossy,
                    NEW l \in conf.listeners, Answered(l), NEW r \in Known(l), r.valid
             PROVE  \E q \in routed.fronts : q.svc = r.svc
  BY DEF NothingMissed
<1>1. r.svc \in Service
  BY RequestFields DEF FetchInv, TypeInv, TypeOK, Known
<1>2. Covered(r.svc)
  BY DEF FetchInv, CoverInv
<1>3. HasService(r.svc)
  BY <1>1, <1>2 DEF Quiet, Covered
<1>4. routed = Says(registered)
  BY DEF FetchInv, LoadDue, Quiet, Idle
<1>5. QED
  BY <1>3, <1>4 DEF HasService, Says

\* Between the answer of a listener (actions/fetch.go:34-65) and the
\* notifications the proxy hears once it serves (server.go:60-79), no service
\* falls through, for any number of listeners, services, attempts and restarts.
THEOREM NothingIsMissed == Spec => []NothingMissed
<1>1. Init => FetchInv
  BY InitInv
<1>2. QED
  BY <1>1, FetchStep, InvGivesNothingMissed, PTL DEF Spec

================================================================================
