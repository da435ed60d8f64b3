---------------------------- MODULE ContractProofs ----------------------------
(***************************************************************************)
(* Requests handled one after the other keep the contract of the proxy     *)
(* (theorem OneByOneKeepsContract), leave HAProxy with what is registered  *)
(* (OneByOneStaysInSync) and give up only on what cannot be configured     *)
(* (OneByOneSparesValid).                                                  *)
(***************************************************************************)
EXTENDS SoloProofs, PipelineRefinement

OneByOne == \E w \in Worker : Worker = {w}

NoFailures == MaxFaults = 0 /\ MaxLost = 0 /\ MaxCrashes = 0

\* Names stay as they are in DNS, and services come one request at a time.
SteadyNames == MaxFlips = 0
NoBatches   == "fetch" \notin Kinds

--------------------------------------------------------------------------------
(* The inductive invariant of the contract *)

\* Who is at work, is alone.
WorksAlone == \A w \in Worker : ~At(w, "idle") => alone[w]

\* Without templates of their own, services say nothing in the -fe.cfg files.
BareFronts == \A f \in DirFile : f[1] = "fe" => dir[f] \notin Request

\* Where haproxy.cfg is not behind the map and the files.  A batch of fetched
\* services changes several of them before the configuration is written.
Settled(w) ==
    \/ pc[w] \in {"idle", "rlLock", "validate", "launch", "waitPid", "done"}
    \/ pc[w] \in {"begin", "addLock", "rmLock", "rmService"} /\ kind[w] # "fetch"

SettledInv == (\A w \in Worker : Settled(w)) => cfg = Rendered(services, dir)

ContractInv == WorksAlone /\ BareFronts /\ running # None /\ SettledInv

CoreInv == ControlInv /\ RegistryInv /\ OrphanInv /\ AloneInv /\ FlowInv /\ SyncInv /\ ContractInv

--------------------------------------------------------------------------------
(* The inductive invariant of synchrony *)

\* Whether the service of the request resolves is found out by validating.
Suspect(w) ==
    \/ mode[w] = "apply" /\ pc[w] \in ReloadSection \ {"waitPid"}
    \/ mode[w] = "rollback" /\ pc[w] \in {"rmLock", "rmService"}

\* Every registered service resolves, but for the one at hand.
ResolvedInv ==
    \A s \in Service : services[s] # None =>
        s \in resolvable \/ \E w \in Worker : Suspect(w) /\ req[w].svc = s

\* An attempt fails because of the service at hand only, which is in the map.
AttemptInv ==
    \A w \in Worker :
        /\ ~At(w, "idle") => kind[w] \in Kinds
        /\ Suspect(w) => services[req[w].svc] # None
        /\ mode[w] = "rollback" /\ pc[w] \in {"rmLock", "rmService"}
              => req[w].svc \notin resolvable
        /\ pc[w] \in {"validate", "launch"} /\ attempt[w] > 0
              => mode[w] = "apply" /\ req[w].svc \notin resolvable

\* Where HAProxy runs what the map and the files say.
Calm(w) ==
    \/ pc[w] \in {"idle", "begin", "addLock", "waitPid", "done"}
    \/ pc[w] \in {"rmLock", "rmService"} /\ mode[w] # "rollback"

CalmInv == (\A w \in Worker : Calm(w)) => running = Rendered(services, dir)

StaysInv == ResolvedInv /\ AttemptInv /\ CalmInv

--------------------------------------------------------------------------------
(* What map and files say when nobody is changing them *)

LEMMA AgreedRendering ==
  ASSUME ControlInv, RegistryInv, OrphanInv, BareFronts, configMu = None
  PROVE  Rendered(services, dir) = [fronts |-> Registered, backs |-> Registered]
<1> DEFINE InDir(type) == {dir[<<type, a>>] : a \in Acl} \cap Request
<1>1. {services[s] : s \in Service} \cap Request = Registered
  BY MapEntries, MarkersAssumption DEF ControlInv, Registered
<1>2. InDir("fe") = {}
  BY DEF BareFronts, DirFile
<1>3. InDir("be") = Registered
  <2>1. ASSUME NEW s \in Service, services[s] # None
        PROVE  services[s] \in InDir("be")
    <3>1. services[s] \in Request /\ dir[Be(services[s])] = services[s]
      BY <2>1, MapEntries, PipelineAssumption
      DEF ControlInv, RegistryInv, RegistryBacked, ChangingService
    <3>2. QED  BY <3>1, RequestFields DEF Be
  <2>2. ASSUME NEW a \in Acl, dir[<<"be", a>>] \in Request
        PROVE  dir[<<"be", a>>] \in Registered
    <3>1. <<"be", a>> \in DirFile /\ dir[<<"be", a>>] # None
      BY <2>2, MarkersAssumption DEF DirFile
    <3>2. PICK s \in Service : services[s] # None /\ services[s].acl = a
      BY <3>1, PipelineAssumption DEF OrphanInv, NoOrphanFiles, ChangingAcl
    <3>3. dir[Be(services[s])] = services[s]
      BY <3>2, PipelineAssumption DEF RegistryInv, RegistryBacked, ChangingService
    <3>4. QED  BY <3>2, <3>3 DEF Be, Registered
  <2>3. QED  BY <2>1, <2>2 DEF Registered
<1>4. QED  BY <1>1, <1>2, <1>3 DEF Rendered

\* Nobody holds the mutex while the only worker is elsewhere.
LEMMA NobodyInside ==
  ASSUME ControlInv, NEW w \in Worker, Worker = {w}, pc[w] \notin ConfigSection
  PROVE  configMu = None
  BY DEF ControlInv, TypeInv, TypeOK, LockInv

--------------------------------------------------------------------------------
(* The contract *)

\* What can happen when nothing fails: HAProxy, the network, or the one worker.
LEMMA FlawlessNext ==
  ASSUME NoFailures, running # None, ControlInv, Next
  PROVE  \/ WritePid \/ \E s \in Service : Flip(s)
         \/ \E w \in Worker : \/ Arrive(w)
                              \/ (Lock(w) \/ Proceed(w)) /\ ~SocketPanic(w) /\ ~FetchPanic(w)
  BY DEF Next, Fault, TemplateUnreadable, WriteLost, RemoveLost, CreateFails, PidUnreadable, HaproxyDies, Crash, Spend, NoFailures,
         SocketPanic, FetchPanic, ControlInv, TypeInv, TypeOK, Bounds

LEMMA WorkBare ==
  ASSUME PlainRequests, ControlInv, BareFronts, NEW w \in Worker, Lock(w) \/ Proceed(w), ~FetchPanic(w)
  PROVE  BareFronts'
<1> USE DEF BareFronts
<1>1. ASSUME NEW l, NEW f \in DirFile, NEW content, NEW next, SetFile(w, l, f, content, next),
             f[1] = "fe" => content \notin Request
      PROVE  BareFronts'
  BY <1>1 DEF SetFile, ControlInv, TypeInv, TypeOK
<1>2. ASSUME pc[w] \in ConfigSection
      PROVE  /\ Fe(req[w]) \in DirFile /\ Be(req[w]) \in DirFile /\ Be(req[w])[1] = "be"
             /\ FeText(req[w]) = Blank
  BY <1>2, InsideAlone, RequestFields DEF Be, FeText, HasTemplate, PlainRequests
<1>3. CASE OpenFe(w) \/ FillFe(w) \/ OpenBe(w) \/ FillBe(w) \/ RemoveFe(w)
  <2>1. pc[w] \in ConfigSection
    BY <1>3 DEF OpenFe, FillFe, OpenBe, FillBe, RemoveFe, SetFile, At, ConfigSection
  <2>2. CASE OpenFe(w)
    BY <1>1, <1>2, <2>1, <2>2, MarkersAssumption DEF OpenFe
  <2>3. CASE FillFe(w)
    BY <1>1, <1>2, <2>1, <2>3, MarkersAssumption DEF FillFe
  <2>4. CASE OpenBe(w)
    BY <1>1, <1>2, <2>1, <2>4 DEF OpenBe
  <2>5. CASE FillBe(w)
    BY <1>1, <1>2, <2>1, <2>5 DEF FillBe
  <2>6. CASE RemoveFe(w)
    BY <1>1, <1>2, <2>1, <2>6, MarkersAssumption DEF RemoveFe
  <2>7. QED  BY <1>3, <2>2, <2>3, <2>4, <2>5, <2>6
<1>4. CASE RemoveBe(w)
  BY <1>4, MarkersAssumption DEF RemoveBe, ControlInv, TypeInv, TypeOK
<1>5. CASE ~(OpenFe(w) \/ FillFe(w) \/ OpenBe(w) \/ FillBe(w) \/ RemoveFe(w) \/ RemoveBe(w))
  <2>1. UNCHANGED dir
    BY <1>5 DEF Lock, Proceed, AddLock, RmLock, RlLock, Pick, Begin, AddService, NothingToRemove,
       RemoveService, List, Read, ReadFails, Iterate, OpenCfg, WriteCfg, Validate, GiveUp, Launch,
       SocketPanic, WaitPid, Answer, shared
  <2>2. QED  BY <2>1
<1>6. QED  BY <1>3, <1>4, <1>5

LEMMA WorkSettles ==
  ASSUME ControlInv, NEW w \in Worker, Worker = {w}, Flows(w), Synced(w), SettledInv,
         Lock(w) \/ Proceed(w), ~SocketPanic(w), ~FetchPanic(w)
  PROVE  SettledInv'
<1> USE DEF ControlInv, TypeInv, TypeOK, At, Goto, shared, task, scan, Settled
<1>1. CASE \/ AddLock(w) \/ Pick(w) \/ OpenFe(w) \/ FillFe(w) \/ OpenBe(w) \/ FillBe(w)
           \/ AddService(w) \/ RemoveService(w) \/ RemoveFe(w) \/ RemoveBe(w)
           \/ List(w) \/ Read(w) \/ Iterate(w) \/ OpenCfg(w)
  <2>1. pc[w] = "pick" => kind[w] = "fetch"
    BY DEF Flows
  <2>2. ~Settled(w)'
    <3>1. CASE AddLock(w) \/ Pick(w) \/ OpenFe(w) \/ FillFe(w) \/ OpenBe(w) \/ FillBe(w)
      BY <2>1, <3>1 DEF AddLock, Pick, OpenFe, FillFe, OpenBe, FillBe, SetFile
    <3>2. CASE AddService(w) \/ RemoveService(w) \/ RemoveFe(w) \/ RemoveBe(w)
      BY <3>2 DEF AddService, RemoveService, RemoveFe, RemoveBe, SetFile
    <3>3. CASE List(w) \/ Read(w) \/ Iterate(w) \/ OpenCfg(w)
      BY <3>3 DEF List, Read, Iterate, OpenCfg
    <3>4. QED  BY <1>1, <3>1, <3>2, <3>3
  <2>3. QED  BY <2>2 DEF SettledInv
<1>2. CASE WriteCfg(w)
  BY <1>2 DEF WriteCfg, Synced, SettledInv
<1>3. CASE ReadFails(w)
  BY <1>3 DEF ReadFails, Synced
<1>4. CASE \/ RmLock(w) \/ Begin(w) \/ NothingToRemove(w) \/ RlLock(w) \/ Validate(w) \/ GiveUp(w)
           \/ Launch(w) \/ WaitPid(w) \/ Answer(w)
  <2>1. UNCHANGED <<services, dir, cfg>>
    BY <1>4 DEF RmLock, Begin, NothingToRemove, RlLock, Validate, GiveUp, Launch, WaitPid, Answer
  <2>2. Settled(w)' => Settled(w)
    <3>1. CASE pc[w] \in {"validate", "launch", "waitPid", "done", "rlLock"}
      BY <3>1
    <3>2. CASE pc[w] \notin {"validate", "launch", "waitPid", "done", "rlLock"}
      <4>1. pc[w] \in {"rmLock", "begin", "rmService"} /\ UNCHANGED kind
        BY <1>4, <3>2 DEF RmLock, Begin, NothingToRemove, RlLock, Validate, GiveUp, Launch,
           WaitPid, Answer
      <4>2. mode[w] # "refresh"
        BY <4>1 DEF Flows
      <4>3. kind[w] = "fetch" => pc'[w] \in {"pick", "addLock", "rmLock", "rmService"}
        <5>1. CASE RmLock(w)
          BY <5>1 DEF RmLock
        <5>2. CASE Begin(w)
          BY <4>2, <5>2 DEF Begin, ExecuteReturns
        <5>3. CASE NothingToRemove(w)
          BY <4>2, <5>3 DEF NothingToRemove, ExecuteReturns
        <5>4. QED
          BY <1>4, <4>1, <5>1, <5>2, <5>3 DEF RlLock, Validate, GiveUp, Launch, WaitPid, Answer
      <4>4. QED  BY <4>1, <4>3
    <3>3. QED  BY <3>1, <3>2
  <2>3. QED  BY <2>1, <2>2 DEF SettledInv
<1>5. QED  BY <1>1, <1>2, <1>3, <1>4 DEF Lock, Proceed

LEMMA CoreInit == Init => CoreInv
<1>1. Init => ContractInv
  <2>1. ASSUME Init
        PROVE  /\ services = [s \in Service |-> None] /\ dir = [f \in DirFile |-> None]
               /\ cfg = EmptyConfig /\ running = EmptyConfig /\ pc = [w \in Worker |-> "idle"]
    BY <2>1 DEF Init, NoServices, NoFiles, Every
  <2>2. Init => cfg = Rendered(services, dir)
    BY <2>1, MarkersAssumption DEF Rendered, EmptyConfig, DirFile
  <2>3. Init => WorksAlone /\ BareFronts
    BY <2>1, MarkersAssumption DEF WorksAlone, BareFronts, At
  <2>4. Init => running # None
    BY <2>1, EmptyConfigTyped, NothingAssumption
  <2>5. QED  BY <2>2, <2>3, <2>4 DEF ContractInv, SettledInv
<1>2. QED  BY <1>1, ControlInit, RegistryInit, SoloInit DEF CoreInv

LEMMA CoreStep ==
  ASSUME PlainRequests, NoFailures, OneByOne, CoreInv, [Next]_vars
  PROVE  CoreInv'
<1> USE DEF CoreInv, ContractInv
<1>1. ControlInv' /\ RegistryInv' /\ AloneInv' /\ FlowInv' /\ SyncInv'
  BY ControlStep, RegistryStep, AloneStep, FlowStep, SyncStep
  DEF ControlInv, NoFailures, WritesSucceed
<1>2. CASE UNCHANGED vars \/ WritePid \/ \E s \in Service : Flip(s)
  <2>1. OrphanInv'
    BY <1>2, EnvironmentSteps, OutsideKeeps
  <2>2. UNCHANGED <<services, dir, cfg, running, pc, kind, alone>>
    BY <1>2 DEF vars, shared, task, ghosts, WritePid, Flip
  <2>3. ContractInv'
    BY <2>2 DEF WorksAlone, BareFronts, SettledInv, Settled, At
  <2>4. QED  BY <1>1, <2>1, <2>3
<1>3. ASSUME NEW w \in Worker, Arrive(w)
      PROVE  CoreInv'
  <2>1. OrphanInv'
    BY <1>3, OutsideSteps, OutsideKeeps
  <2>2. /\ Worker = {w} /\ pc[w] = "idle" /\ UNCHANGED shared
        /\ alone' = [v \in Worker |-> v = w /\ \A u \in Worker \ {w} : At(u, "idle")]
    BY <1>3 DEF OneByOne, At, Arrive, ReconfigureRequest, RemoveRequest, ReloadRequest,
                FetchAnswer, Start
  <2>3. WorksAlone'
    BY <2>2 DEF WorksAlone
  <2>4. SettledInv'
    BY <2>2 DEF SettledInv, Settled, shared
  <2>5. QED  BY <1>1, <2>1, <2>2, <2>3, <2>4 DEF BareFronts, shared
<1>4. ASSUME NEW w \in Worker, Lock(w) \/ Proceed(w), ~SocketPanic(w), ~FetchPanic(w)
      PROVE  CoreInv'
  <2>1. OrphanInv'
    BY <1>4, OutsideSteps, OutsideKeeps, OrphanSteps DEF Lock, Proceed
  <2>2. Worker = {w} /\ OwnStep(w) /\ Flows(w) /\ alone[w] /\ Synced(w)
    BY <1>4, OwnSteps DEF OneByOne, ControlInv, FlowInv, WorksAlone, SyncInv, OwnStep
  <2>3. WorksAlone'
    BY <2>2 DEF WorksAlone, OwnStep
  <2>4. BareFronts' /\ SettledInv'
    BY <1>4, <2>2, WorkBare, WorkSettles
  <2>5. running' # None
    <3>1. CASE Launch(w)
      BY <3>1, AcceptedIsConfig, NothingAssumption DEF Launch
    <3>2. CASE ~Launch(w)
      <4>1. UNCHANGED running
        BY <1>4, <3>2 DEF Lock, Proceed, AddLock, RmLock, RlLock, Pick, Begin, OpenFe, FillFe, OpenBe,
           FillBe, SetFile, AddService, NothingToRemove, RemoveService, RemoveFe, RemoveBe, List,
           Read, ReadFails, Iterate, OpenCfg, WriteCfg, Validate, GiveUp, WaitPid, Answer, shared
      <4>2. QED  BY <4>1
    <3>3. QED  BY <3>1, <3>2
  <2>6. QED  BY <1>1, <2>1, <2>3, <2>4, <2>5
<1>5. QED  BY <1>2, <1>3, <1>4, FlawlessNext

\* A registration and a removal change the set of registrations as promised.
LEMMA RegisterStep ==
  ASSUME TypeInv, KeyInv, NEW r \in Request,
         services' = [services EXCEPT ![r.svc] = r]
  PROVE  Registered' = Promise!Others(r.svc) \cup {r}
<1>1. \A s \in Service : services[s] # None => services[s].svc = s
  BY DEF KeyInv
<1>2. QED
  BY <1>1, RequestFields DEF TypeInv, TypeOK, Registered, Promise!Others

LEMMA UnregisterStep ==
  ASSUME TypeInv, KeyInv, NEW s \in Service, services' = [services EXCEPT ![s] = None]
  PROVE  Registered' = Promise!Others(s)
  BY DEF KeyInv, TypeInv, TypeOK, Registered, Promise!Others

LEMMA PromiseInit == Init => Promise!ContractInit
  BY DEF Init, NoServices, EmptyConfig, Registered, Promise!ContractInit, Promise!Says

\* Every step is a registration, a removal, a load or nothing to the outside.
LEMMA PromiseStep ==
  ASSUME PlainRequests, NoFailures, OneByOne, CoreInv, [Next]_vars
  PROVE  [Promise!ContractNext]_(Promise!contractVars)
<1> USE DEF CoreInv
<1>1. ASSUME UNCHANGED <<services, running>>
      PROVE  UNCHANGED Promise!contractVars
  BY <1>1 DEF Registered, Promise!contractVars
<1>2. CASE UNCHANGED vars \/ WritePid \/ \E s \in Service : Flip(s)
  BY <1>1, <1>2 DEF vars, shared, WritePid, Flip
<1>3. ASSUME NEW w \in Worker, Arrive(w)
      PROVE  UNCHANGED Promise!contractVars
  BY <1>1, <1>3 DEF Arrive, ReconfigureRequest, RemoveRequest, ReloadRequest, FetchAnswer, Start,
     shared
<1>4. ASSUME NEW w \in Worker, Lock(w) \/ Proceed(w), ~SocketPanic(w), ~FetchPanic(w)
      PROVE  [Promise!ContractNext]_(Promise!contractVars)
  <2>1. CASE AddService(w)
    <3>1. req[w] \in Request /\ ~HasTemplate(req[w])
      BY <2>1, InsideAlone DEF AddService, At, ConfigSection, PlainRequests
    <3>2. services' = [services EXCEPT ![req[w].svc] = req[w]] /\ UNCHANGED running
      BY <2>1, <3>1 DEF AddService
    <3>3. Registered' = Promise!Others(req[w].svc) \cup {req[w]}
      BY <3>1, <3>2, RegisterStep DEF ControlInv, RegistryInv
    <3>4. QED  BY <3>1, <3>2, <3>3 DEF Promise!ContractNext, Promise!Register
  <2>2. CASE RemoveService(w)
    <3>1. req[w] \in Request
      BY <2>2, InsideAlone DEF RemoveService, At, ConfigSection
    <3>2. services' = [services EXCEPT ![req[w].svc] = None] /\ UNCHANGED running
      BY <2>2 DEF RemoveService
    <3>3. Registered' = Promise!Others(req[w].svc)
      BY <3>1, <3>2, RequestFields, UnregisterStep DEF ControlInv, RegistryInv
    <3>4. QED  BY <3>1, <3>2, <3>3 DEF Promise!ContractNext, Promise!Unregister
  <2>3. CASE Launch(w)
    <3>1. Worker = {w} /\ pc[w] = "launch" /\ UNCHANGED services
      BY <2>3 DEF OneByOne, Launch, At
    <3>2. configMu = None
      BY <3>1, NobodyInside DEF ConfigSection
    <3>3. cfg = Rendered(services, dir)
      BY <3>1 DEF ContractInv, SettledInv, Settled
    <3>4. cfg = Promise!Says(Registered)
      BY <3>2, <3>3, AgreedRendering DEF ContractInv, Promise!Says
    <3>5. running' = running \/ running' = cfg
      BY <2>3 DEF Launch
    <3>6. UNCHANGED Registered
      BY <3>1 DEF Registered
    <3>7. QED
      BY <3>4, <3>5, <3>6 DEF Promise!ContractNext, Promise!Load, Promise!contractVars
  <2>4. CASE ~AddService(w) /\ ~RemoveService(w) /\ ~Launch(w)
    <3>1. UNCHANGED <<services, running>>
      BY <1>4, <2>4 DEF Lock, Proceed, AddLock, RmLock, RlLock, Pick, Begin, OpenFe, FillFe, OpenBe,
         FillBe, SetFile, NothingToRemove, RemoveFe, RemoveBe, List, Read, ReadFails, Iterate,
         OpenCfg, WriteCfg, Validate, GiveUp, WaitPid, Answer, shared
    <3>2. QED  BY <1>1, <3>1
  <2>5. QED  BY <2>1, <2>2, <2>3, <2>4
<1>5. QED  BY <1>2, <1>3, <1>4, FlawlessNext DEF ContractInv

\* Handled one after the other and with nothing failing, requests keep the
\* contract of the proxy, for every set of services and requests, every number
\* of attempts, batches fetched from the listener and names that come and go in
\* DNS: what HAProxy loads is always exactly what is registered at that moment,
\* never a configuration that is half applied, stale or left over from a
\* service that was removed or given up.
THEOREM OneByOneKeepsContract ==
  ASSUME PlainRequests, NoFailures, OneByOne
  PROVE  Spec => KeepsContract
<1>1. CoreInv /\ [Next]_vars => CoreInv'
  BY CoreStep
<1>2. CoreInv /\ [Next]_vars => [Promise!ContractNext]_(Promise!contractVars)
  BY PromiseStep
<1>3. QED
  BY <1>1, <1>2, CoreInit, PromiseInit, PTL DEF Spec, KeepsContract, Promise!Contract

--------------------------------------------------------------------------------
(* Synchrony *)

LEMMA AcceptedWhenResolved ==
  ASSUME CoreInv, configMu = None
  PROVE  Accepts(Rendered(services, dir), resolvable)
            <=> \A s \in Service : services[s] # None => s \in resolvable
<1> DEFINE c == [fronts |-> Registered, backs |-> Registered]
<1>1. Rendered(services, dir) = c
  BY AgreedRendering DEF CoreInv, ContractInv
<1>2. \A s \in Service : services[s] # None => services[s] \in Request /\ services[s].svc = s
  BY MapEntries DEF CoreInv, ControlInv, RegistryInv, KeyInv
<1>3. Registered \subseteq Request
  BY <1>2 DEF Registered
<1>4. c \in Config
  BY <1>3 DEF Config
<1>5. Accepts(c, resolvable) <=> \A r \in Registered : r.svc \in resolvable
  BY <1>4 DEF Accepts
<1>6. QED  BY <1>1, <1>2, <1>5 DEF Registered

\* In Reload, what the worker finds decides about the service at hand.
LEMMA ReloadDecides ==
  ASSUME CoreInv, ResolvedInv, NEW w \in Worker, Worker = {w}, pc[w] \in {"validate", "launch"}
  PROVE  /\ cfg = Rendered(services, dir)
         /\ Accepts(cfg, resolvable) => \A s \in Service : services[s] # None => s \in resolvable
         /\ ~Accepts(cfg, resolvable) => mode[w] = "apply" /\ req[w].svc \notin resolvable
<1>1. configMu = None
  BY NobodyInside DEF CoreInv, ConfigSection
<1>2. cfg = Rendered(services, dir)
  BY DEF CoreInv, ContractInv, SettledInv, Settled
<1>3. ASSUME ~Accepts(cfg, resolvable)
      PROVE  mode[w] = "apply" /\ req[w].svc \notin resolvable
  <2>1. PICK s \in Service : services[s] # None /\ s \notin resolvable
    BY <1>1, <1>2, <1>3, AcceptedWhenResolved
  <2>2. Suspect(w) /\ req[w].svc = s
    BY <2>1 DEF ResolvedInv
  <2>3. QED  BY <2>1, <2>2 DEF Suspect
<1>4. QED  BY <1>1, <1>2, <1>3, AcceptedWhenResolved

LEMMA WorkStays ==
  ASSUME PlainRequests, CoreInv, StaysInv, NoBatches, Attempts > 0, NEW w \in Worker, Worker = {w},
         Lock(w) \/ Proceed(w), ~SocketPanic(w), ~FetchPanic(w)
  PROVE  StaysInv'
<1> DEFINE W == ResolvedInv' /\ AttemptInv' /\ CalmInv'
<1> SUFFICES W
  BY DEF StaysInv
<1> USE DEF StaysInv, AttemptInv, Suspect, Calm, ReloadSection, At, Goto, task, shared, scan
<1>1. /\ TypeInv /\ Flows(w) /\ Synced(w) /\ pc[w] # "idle" /\ kind[w] # "fetch"
      /\ ResolvedInv /\ AttemptInv /\ CalmInv
  BY OwnSteps DEF CoreInv, ControlInv, FlowInv, SyncInv, ContractInv, WorksAlone, OwnStep, NoBatches
<1>2. ASSUME UNCHANGED <<services, dir, running, resolvable, kind, req>>, pc'[w] # "idle",
             Suspect(w)' <=> Suspect(w), Calm(w)' => Calm(w), mode'[w] = mode[w],
             pc'[w] \notin {"validate", "launch"}
      PROVE  W
  BY <1>1, <1>2 DEF ResolvedInv, CalmInv
<1>3. CASE AddLock(w) \/ RmLock(w) \/ RlLock(w)
  BY <1>1, <1>3 DEF AddLock, RmLock, RlLock, TypeInv, TypeOK, ResolvedInv, CalmInv
<1>4. CASE Pick(w)
  BY <1>1, <1>4 DEF Pick, Flows
<1>5. CASE Begin(w)
  <2>1. /\ UNCHANGED <<services, dir, running, resolvable, kind, req, attempt>>
        /\ pc[w] = "begin" /\ mode[w] = "apply"
    BY <1>1, <1>5 DEF Begin, Flows
  <2>2. \/ pc'[w] \in {"done", "addLock"} /\ mode'[w] = mode[w]
        \/ pc'[w] = "rmLock" /\ mode'[w] = "remove"
    BY <1>1, <1>5 DEF Begin, ExecuteReturns, TypeInv, TypeOK
  <2>3. QED  BY <1>1, <2>1, <2>2 DEF ResolvedInv, CalmInv
<1>6. CASE OpenFe(w) \/ FillFe(w) \/ OpenBe(w) \/ FillBe(w) \/ RemoveFe(w)
  BY <1>1, <1>6 DEF OpenFe, FillFe, OpenBe, FillBe, RemoveFe, SetFile, TypeInv, TypeOK, ResolvedInv,
     CalmInv
<1>7. CASE AddService(w)
  <2>1. req[w] \in Request /\ ~HasTemplate(req[w]) /\ ~Suspect(w) /\ mode[w] = "apply"
    BY <1>1, <1>7, InsideAlone DEF AddService, Flows, CoreInv, ConfigSection, PlainRequests
  <2>2. /\ services' = [services EXCEPT ![req[w].svc] = req[w]]
        /\ UNCHANGED <<resolvable, kind, req, mode>>
        /\ pc'[w] = "list"
    BY <1>1, <2>1, <1>7 DEF AddService, TypeInv, TypeOK
  <2>3. services'[req[w].svc] # None
    BY <1>1, <2>1, <2>2, RequestFields DEF TypeInv, TypeOK
  <2>4. ResolvedInv'
    BY <1>1, <2>1, <2>2 DEF ResolvedInv, TypeInv, TypeOK
  <2>5. QED  BY <1>1, <2>1, <2>2, <2>3, <2>4 DEF CalmInv
<1>8. CASE RemoveService(w)
  BY <1>1, <1>8 DEF RemoveService, TypeInv, TypeOK, ResolvedInv, CalmInv
<1>9. CASE RemoveBe(w)
  BY <1>1, <1>9 DEF RemoveBe, Flows, TypeInv, TypeOK, ResolvedInv, CalmInv
<1>10. CASE NothingToRemove(w)
  <2>1. mode[w] = "remove" /\ pc[w] = "rmService"
    BY <1>1, <1>10 DEF NothingToRemove, Flows
  <2>2. QED
    BY <1>1, <1>2, <1>10, <2>1 DEF NothingToRemove, ExecuteReturns, TypeInv, TypeOK
<1>11. CASE List(w) \/ Read(w) \/ Iterate(w) \/ OpenCfg(w) \/ WriteCfg(w)
  BY <1>1, <1>11 DEF List, Read, Iterate, OpenCfg, WriteCfg, TypeInv, TypeOK, ResolvedInv, CalmInv
<1>12. CASE ReadFails(w)
  BY <1>1, <1>12 DEF ReadFails, Synced
<1>13. CASE Validate(w)
  BY <1>1, <1>13, ReloadDecides DEF Validate, TypeInv, TypeOK, ResolvedInv, CalmInv
<1>14. CASE Launch(w)
  BY <1>1, <1>14, ReloadDecides DEF Launch, TypeInv, TypeOK, ResolvedInv, CalmInv
<1>15. CASE GiveUp(w)
  <2>1. mode[w] = "apply" /\ pc[w] = "validate" /\ req[w].svc \notin resolvable
    BY <1>1, <1>15 DEF GiveUp
  <2>2. /\ UNCHANGED <<services, dir, running, resolvable, kind, req>>
        /\ pc'[w] = "rmLock" /\ mode'[w] = "rollback"
    BY <1>1, <1>15, <2>1 DEF GiveUp, ReloadReturns, TypeInv, TypeOK
  <2>3. QED  BY <1>1, <2>1, <2>2 DEF ResolvedInv, CalmInv
<1>16. CASE WaitPid(w)
  <2>1. pc[w] = "waitPid" /\ pc'[w] = "done" /\ mode' = mode
    BY <1>1, <1>16 DEF WaitPid, ReloadReturns, ExecuteReturns, TypeInv, TypeOK
  <2>2. QED  BY <1>1, <1>2, <1>16, <2>1 DEF WaitPid
<1>17. CASE Answer(w)
  BY <1>1, <1>17 DEF Answer, TypeInv, TypeOK, ResolvedInv, CalmInv
<1>18. QED
  BY <1>3, <1>4, <1>5, <1>6, <1>7, <1>8, <1>9, <1>10, <1>11, <1>12, <1>13, <1>14, <1>15, <1>16,
     <1>17 DEF Lock, Proceed

LEMMA StaysInit == Init => StaysInv
<1>1. Init => running = cfg
  BY DEF Init
<1>2. Init => cfg = Rendered(services, dir)
  <2>1. ASSUME Init
        PROVE  services = [s \in Service |-> None] /\ dir = [f \in DirFile |-> None] /\ cfg = EmptyConfig
    BY <2>1 DEF Init, NoServices, NoFiles
  <2>2. QED  BY <2>1, MarkersAssumption DEF Rendered, EmptyConfig, DirFile
<1>3. QED
  BY <1>1, <1>2 DEF Init, StaysInv, ResolvedInv, AttemptInv, CalmInv, NoServices, Every, At,
     Suspect, ReloadSection

LEMMA StaysStep ==
  ASSUME PlainRequests, NoFailures, OneByOne, SteadyNames, NoBatches, Attempts > 0,
         CoreInv, StaysInv, [Next]_vars
  PROVE  StaysInv'
<1>1. CASE UNCHANGED vars \/ WritePid
  BY <1>1 DEF vars, shared, task, scan, WritePid, StaysInv, ResolvedInv, AttemptInv, CalmInv,
     Suspect, Calm, At
<1>2. ASSUME NEW s \in Service, Flip(s)
      PROVE  FALSE
  BY <1>2 DEF Flip, Spend, SteadyNames, CoreInv, ControlInv, TypeInv, TypeOK, Bounds
<1>3. ASSUME NEW w \in Worker, Arrive(w)
      PROVE  StaysInv'
  <2>1. /\ Worker = {w} /\ pc[w] = "idle" /\ UNCHANGED shared /\ kind'[w] \in Kinds
        /\ \/ pc'[w] \in {"begin", "pick"}
           \/ pc'[w] = "rmLock" /\ mode'[w] = "remove"
           \/ pc'[w] \in {"list", "rlLock"} /\ mode'[w] = "refresh"
    BY <1>3 DEF OneByOne, At, Goto, Arrive, ReconfigureRequest, RemoveRequest, ReloadRequest,
                FetchAnswer, Start, CoreInv, ControlInv, TypeInv, TypeOK
  <2>2. QED
    BY <2>1 DEF shared, StaysInv, ResolvedInv, AttemptInv, CalmInv, Suspect, Calm, ReloadSection
<1>4. ASSUME NEW w \in Worker, Lock(w) \/ Proceed(w), ~SocketPanic(w), ~FetchPanic(w)
      PROVE  StaysInv'
  BY <1>4, WorkStays DEF OneByOne
<1>5. QED
  BY <1>1, <1>2, <1>3, <1>4, FlawlessNext DEF CoreInv, ContractInv

\* A worker gives up on a service in the loop of Reload, and nowhere else.
LEMMA SparesStep ==
  ASSUME NoFailures, OneByOne, NoBatches, Attempts > 0, CoreInv, StaysInv, [Next]_vars,
         NEW w \in Worker, mode[w] = "apply", mode'[w] = "rollback"
  PROVE  req[w].svc \notin resolvable
<1> USE DEF CoreInv, ControlInv, TypeInv, TypeOK, At, Goto
<1>1. ~(UNCHANGED vars \/ WritePid \/ \E s \in Service : Flip(s))
  BY DEF vars, WritePid, Flip
<1>2. ~\E v \in Worker : Arrive(v)
  BY DEF Arrive, ReconfigureRequest, RemoveRequest, ReloadRequest, FetchAnswer, Start, OneByOne
<1>3. /\ Lock(w) \/ Proceed(w)
      /\ ~SocketPanic(w) /\ ~FetchPanic(w)
  BY <1>1, <1>2, FlawlessNext DEF ContractInv, OneByOne
<1>4. Synced(w)
  BY <1>3, OwnSteps DEF SyncInv, ContractInv, WorksAlone, OwnStep
<1>5. GiveUp(w)
  <2>1. ~ReadFails(w)
    BY <1>4 DEF ReadFails, Synced
  <2>2. ~WaitPid(w)
    BY DEF WaitPid, ReloadReturns, ExecuteReturns
  <2>3. ~Begin(w) /\ ~NothingToRemove(w)
    BY DEF Begin, NothingToRemove, ExecuteReturns
  <2>4. QED
    BY <1>3, <2>1, <2>2, <2>3 DEF Lock, Proceed, AddLock, RmLock, RlLock, Pick, OpenFe, FillFe,
       OpenBe, FillBe, SetFile, AddService, RemoveService, RemoveFe, RemoveBe, List, Read, Iterate,
       OpenCfg, WriteCfg, Validate, Launch, Answer
<1>6. pc[w] = "validate" /\ attempt[w] > 0
  BY <1>5 DEF GiveUp
<1>7. QED  BY <1>6 DEF StaysInv, AttemptInv

\* Handled one after the other, with names that stay and nothing failing,
\* requests leave HAProxy with exactly what the map and the files say whenever
\* no request is at work: also after a reload that was refused, because the
\* rollback takes out what was refused and the reload that follows is accepted.
THEOREM OneByOneStaysInSync ==
  ASSUME PlainRequests, NoFailures, OneByOne, SteadyNames, NoBatches, Attempts > 0
  PROVE  Spec => []IdleSync
<1>1. StaysInv => IdleSync
  BY DEF StaysInv, CalmInv, Calm, IdleSync, At
<1>2. CoreInv /\ [Next]_vars => CoreInv'
  BY CoreStep
<1>3. CoreInv /\ StaysInv /\ [Next]_vars => StaysInv'
  BY StaysStep
<1>4. QED  BY <1>1, <1>2, <1>3, CoreInit, StaysInit, PTL DEF Spec

\* Under the same conditions the service that a failed reload removes again is
\* one that does not resolve: no valid service pays for another.
THEOREM OneByOneSparesValid ==
  ASSUME PlainRequests, NoFailures, OneByOne, SteadyNames, NoBatches, Attempts > 0
  PROVE  Spec => RollbackSparesValid
<1>1. CoreInv /\ [Next]_vars => CoreInv'
  BY CoreStep
<1>2. CoreInv /\ StaysInv /\ [Next]_vars => StaysInv'
  BY StaysStep
<1>3. CoreInv /\ StaysInv /\ [Next]_vars
        => [\A w \in Worker :
               mode[w] = "apply" /\ mode'[w] = "rollback"
                  => \/ req[w].svc \notin resolvable
                     \/ \E v \in Worker \ {w} : req[v] # None /\ req[v].svc = req[w].svc]_vars
  BY SparesStep
<1>4. QED  BY <1>1, <1>2, <1>3, CoreInit, StaysInit, PTL DEF Spec, RollbackSparesValid

================================================================================
