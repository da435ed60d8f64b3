---------------------------- MODULE RegistryProofs ----------------------------
(***************************************************************************)
(* The map of services and the directory of snippets stay in step, for     *)
(* every number of workers: theorems RegistryAlwaysBacked and              *)
(* NoFileIsOrphaned.                                                       *)
(***************************************************************************)
EXTENDS ConfigPipelineProofs

--------------------------------------------------------------------------------
(* The inductive invariant *)

\* The map files a service under its own name.
KeyInv == \A s \in Service : services[s] # None => services[s].svc = s

\* When the map is about to be written, the backend file is complete.
ReadyInv == \A w \in Worker : At(w, "addService") => dir[Be(req[w])] = req[w]

\* While the files are being removed, the service is out of the map.
GoneInv == \A w \in Worker : pc[w] \in {"rmFe", "rmBe"} => services[req[w].svc] = None

RegistryInv == KeyInv /\ ReadyInv /\ GoneInv /\ RegistryBacked

\* The frontend file goes first, and a service the map does not hold has no
\* files when its removal is given up.
LeftInv ==
    \A w \in Worker :
        /\ At(w, "rmBe") => dir[Fe(req[w])] = None
        /\ At(w, "rmService") =>
              \A f \in DirFile : f[2] = req[w].acl /\ dir[f] # None
                                    => services[req[w].svc] # None

OrphanInv == NoOrphanFiles /\ LeftInv

--------------------------------------------------------------------------------
(* Facts about plain requests and a disk that works *)

\* Snippets are written and removed as asked.
WritesSucceed == MaxLost = 0

LEMMA NothingLost ==
  ASSUME WritesSucceed, TypeInv, NEW w \in Worker
  PROVE  ~WriteLost(w) /\ ~RemoveLost(w)
  BY DEF WritesSucceed, TypeInv, TypeOK, WriteLost, RemoveLost, Spend, Bounds

LEMMA RequestFields ==
  ASSUME NEW r \in Request
  PROVE  /\ r.svc \in Service /\ r.acl \in Acl
         /\ Fe(r) \in DirFile /\ Be(r) \in DirFile /\ Fe(r) # Be(r)
         /\ Fe(r)[2] = r.acl /\ Be(r)[2] = r.acl
         /\ \A f \in DirFile : f[2] = r.acl => f = Fe(r) \/ f = Be(r)
         /\ r # None /\ r # Blank
  BY NamesAssumption, MarkersAssumption DEF ServiceRecord, Fe, Be, DirFile

LEMMA FilesDiffer ==
  ASSUME PlainRequests, NEW r1 \in Request, NEW r2 \in Request, r1.svc # r2.svc
  PROVE  Be(r1) # Be(r2) /\ Be(r1) # Fe(r2)
  BY DEF PlainRequests, Fe, Be

LEMMA MapEntries ==
  ASSUME TypeInv, NEW s \in Service, services[s] # None
  PROVE  services[s] \in Request
  BY DEF TypeInv, TypeOK, Entry

--------------------------------------------------------------------------------
(* Steps outside the critical section of configMu *)

\* The variables the invariants are about, and the workers inside the section.
Outside ==
    /\ UNCHANGED <<services, dir, configMu>>
    /\ \A v \in Worker : \/ pc'[v] = pc[v] /\ req'[v] = req[v]
                         \/ pc[v] \notin ConfigSection /\ pc'[v] \notin ConfigSection

LEMMA OutsideKeeps ==
  ASSUME ControlInv, Outside
  PROVE  (RegistryInv => RegistryInv') /\ (OrphanInv => OrphanInv')
<1> USE DEF Outside, ConfigSection, At
<1>1. \A v \in Worker : configMu = v => req'[v] = req[v]
  BY DEF ControlInv, LockInv
<1>2. RegistryInv => RegistryInv'
  BY <1>1 DEF RegistryInv, KeyInv, ReadyInv, GoneInv, RegistryBacked, ChangingService
<1>3. OrphanInv => OrphanInv'
  BY <1>1 DEF OrphanInv, NoOrphanFiles, LeftInv, ChangingAcl
<1>4. QED  BY <1>2, <1>3

\* Everything but the work under configMu and the restart is such a step.
LEMMA OutsideSteps ==
  ASSUME ControlInv, NEW w \in Worker,
         \/ Arrive(w) \/ RlLock(w) \/ Pick(w) \/ Begin(w)
         \/ List(w) \/ Read(w) \/ ReadFails(w) \/ Iterate(w) \/ OpenCfg(w) \/ WriteCfg(w)
         \/ CreateFails(w) \/ Validate(w) \/ GiveUp(w) \/ Launch(w) \/ PidUnreadable(w) \/ SocketPanic(w)
         \/ WaitPid(w) \/ Answer(w)
  PROVE  Outside
<1> USE DEF Outside, ControlInv, TypeInv, TypeOK, ConfigSection, At, Goto, shared, mutexes, task
<1>1. CASE Arrive(w)
  BY <1>1 DEF Arrive, ReconfigureRequest, RemoveRequest, ReloadRequest, FetchAnswer, Start
<1>2. CASE RlLock(w) \/ Pick(w)
  BY <1>2 DEF RlLock, Pick
<1>3. CASE Begin(w)
  <2>1. CASE \E e \in {"ok", "error"} : ExecuteReturns(w, e)
    BY <1>3, <2>1, ReturnsShape DEF Begin
  <2>2. CASE ~\E e \in {"ok", "error"} : ExecuteReturns(w, e)
    BY <1>3, <2>2 DEF Begin
  <2>3. QED  BY <2>1, <2>2
<1>4. CASE List(w) \/ Read(w) \/ Iterate(w) \/ OpenCfg(w) \/ WriteCfg(w)
  BY <1>4 DEF List, Read, Iterate, OpenCfg, WriteCfg
<1>5. CASE ReadFails(w) \/ CreateFails(w)
  BY <1>5, CreateReturnsShape DEF ReadFails, CreateFails
<1>6. CASE Validate(w) \/ Launch(w) \/ SocketPanic(w) \/ Answer(w)
  BY <1>6 DEF Validate, Launch, SocketPanic, Answer
<1>7. CASE GiveUp(w) \/ PidUnreadable(w) \/ WaitPid(w)
  BY <1>7, ReturnsShape DEF GiveUp, PidUnreadable, WaitPid
<1>8. QED  BY <1>1, <1>2, <1>3, <1>4, <1>5, <1>6, <1>7

\* The worker in the section has a request, and is the only one there.
LEMMA InsideAlone ==
  ASSUME ControlInv, NEW w \in Worker, pc[w] \in ConfigSection
  PROVE  /\ configMu = w /\ req[w] \in Request
         /\ \A v \in Worker : v # w => pc[v] \notin ConfigSection
         /\ \A s : ChangingService(s) <=> req[w].svc = s
         /\ \A a : ChangingAcl(a) <=> req[w].acl = a
  BY DEF ControlInv, LockInv, ReqNamed, ChangingService, ChangingAcl

--------------------------------------------------------------------------------
(* RegistryInv *)

LEMMA RegistrySteps ==
  ASSUME ControlInv, RegistryInv, PlainRequests, NEW w \in Worker,
         \/ AddLock(w) \/ RmLock(w) \/ TemplateUnreadable(w)
         \/ OpenFe(w) \/ FillFe(w) \/ OpenBe(w) \/ FillBe(w) \/ AddService(w)
         \/ NothingToRemove(w) \/ RemoveService(w) \/ RemoveFe(w) \/ RemoveBe(w)
  PROVE  RegistryInv'
<1> USE DEF RegistryInv, KeyInv, ReadyInv, GoneInv, At, Goto, TypeOK
<1> DEFINE r == req[w]
<1>1. CASE AddLock(w) \/ RmLock(w)
  <2>1. configMu = None /\ UNCHANGED <<services, dir, req>>
    BY <1>1 DEF AddLock, RmLock, shared, task
  <2>2. RegistryBacked'
    BY <2>1, PipelineAssumption DEF RegistryBacked, ChangingService
  <2>3. \A v \in Worker : pc'[v] = pc[v] \/ pc'[v] \in {"openFe", "rmService"}
    BY <1>1 DEF AddLock, RmLock, ControlInv, TypeInv
  <2>4. QED  BY <2>1, <2>2, <2>3
<1>2. CASE TemplateUnreadable(w)
  BY <1>2, InsideAlone DEF TemplateUnreadable, PlainRequests, ConfigSection
<1>3. ASSUME NEW f \in {Fe(r), Be(r)}, NEW content, NEW next \in ConfigSection,
             pc[w] \in ConfigSection, pc' = [pc EXCEPT ![w] = next],
             dir' = [dir EXCEPT ![f] = content], UNCHANGED <<services, req, configMu>>,
             next = "addService" => f = Be(r) /\ content = r,
             next \in {"rmFe", "rmBe"} => services[r.svc] = None
      PROVE  RegistryInv'
  <2>1. /\ r \in Request /\ configMu = w /\ f \in DirFile
        /\ \A v \in Worker : v # w => pc'[v] \notin ConfigSection
    BY <1>3, InsideAlone, RequestFields DEF ControlInv, TypeInv
  <2>2. RegistryBacked'
    <3>1. ASSUME NEW s \in Service, services[s] # None, ~ChangingService(s)
          PROVE  dir'[Be(services[s])] = services[s]
      <4>1. services[s] \in Request /\ services[s].svc = s /\ r.svc # s
        BY <3>1, <1>3, <2>1, MapEntries, InsideAlone DEF ControlInv
      <4>2. Be(services[s]) # f
        BY <4>1, <2>1, FilesDiffer
      <4>3. QED
        BY <1>3, <3>1, <4>1, <4>2, RequestFields DEF RegistryBacked, ControlInv, TypeInv
    <3>2. \A s \in Service : ChangingService(s)' <=> ChangingService(s)
      BY <1>3 DEF ChangingService
    <3>3. QED  BY <1>3, <3>1, <3>2 DEF RegistryBacked
  <2>3. ReadyInv'
    BY <1>3, <2>1 DEF ControlInv, TypeInv, ConfigSection
  <2>4. GoneInv'
    BY <1>3, <2>1 DEF ControlInv, TypeInv, ConfigSection
  <2>5. QED  BY <1>3, <2>2, <2>3, <2>4
<1>4. CASE OpenFe(w)
  BY <1>3, <1>4 DEF OpenFe, SetFile, ConfigSection, task, mutexes
<1>5. CASE FillFe(w)
  BY <1>3, <1>5 DEF FillFe, SetFile, ConfigSection, task, mutexes
<1>6. CASE OpenBe(w)
  BY <1>3, <1>6 DEF OpenBe, SetFile, ConfigSection, task, mutexes
<1>7. CASE FillBe(w)
  BY <1>3, <1>7 DEF FillBe, SetFile, ConfigSection, task, mutexes
<1>8. CASE RemoveFe(w)
  BY <1>3, <1>8 DEF RemoveFe, SetFile, ConfigSection, task, mutexes
<1>9. CASE AddService(w)
  <2>1. /\ r \in Request /\ configMu = w /\ dir[Be(r)] = r /\ ~HasTemplate(r)
        /\ \A v \in Worker : pc'[v] \notin ConfigSection
    BY <1>9, InsideAlone DEF AddService, ConfigSection, PlainRequests, ControlInv, TypeInv
  <2>2. services' = [services EXCEPT ![r.svc] = r] /\ UNCHANGED <<dir, req>> /\ r.svc \in Service
    BY <1>9, <2>1, RequestFields DEF AddService, task
  <2>3. RegistryBacked'
    <3>1. ASSUME NEW s \in Service, s # r.svc, services[s] # None
          PROVE  dir[Be(services[s])] = services[s]
      BY <3>1, <1>9, InsideAlone DEF RegistryBacked, AddService, ConfigSection
    <3>2. QED  BY <2>1, <2>2, <3>1 DEF RegistryBacked, ControlInv, TypeInv
  <2>4. KeyInv' /\ ReadyInv' /\ GoneInv'
    BY <2>1, <2>2 DEF ConfigSection, ControlInv, TypeInv
  <2>5. QED  BY <2>3, <2>4
<1>10. CASE RemoveService(w)
  <2>1. /\ r \in Request /\ configMu = w /\ configMu' = w
        /\ \A v \in Worker : v # w => pc'[v] \notin ConfigSection
        /\ services' = [services EXCEPT ![r.svc] = None] /\ UNCHANGED <<dir, req>>
        /\ pc'[w] = "rmFe" /\ r.svc \in Service
    BY <1>10, InsideAlone, RequestFields
    DEF RemoveService, ConfigSection, ControlInv, TypeInv, task, mutexes
  <2>2. RegistryBacked'
    BY <2>1 DEF RegistryBacked, ChangingService, ControlInv, TypeInv
  <2>3. QED  BY <2>1, <2>2 DEF ConfigSection, ControlInv, TypeInv
<1>11. ASSUME NothingToRemove(w) \/ RemoveBe(w)
       PROVE  RegistryInv'
  <2>1. /\ r \in Request /\ configMu = w /\ services[r.svc] = None
        /\ \A v \in Worker : pc'[v] \notin ConfigSection
        /\ UNCHANGED <<services, req>>
    <3>1. CASE NothingToRemove(w)
      BY <3>1, InsideAlone, ReturnsShape
      DEF NothingToRemove, ConfigSection, ControlInv, TypeInv, shared, task
    <3>2. CASE RemoveBe(w)
      BY <3>2, InsideAlone DEF RemoveBe, ConfigSection, ControlInv, TypeInv, task
    <3>3. QED  BY <1>11, <3>1, <3>2
  <2>2. RegistryBacked'
    <3>1. ASSUME NEW s \in Service, services[s] # None
          PROVE  dir'[Be(services[s])] = services[s]
      <4>1. services[s] \in Request /\ services[s].svc = s /\ r.svc # s
        BY <3>1, <2>1, MapEntries DEF ControlInv
      <4>2. dir[Be(services[s])] = services[s]
        BY <3>1, <4>1, <1>11, InsideAlone
        DEF RegistryBacked, ConfigSection, NothingToRemove, RemoveBe
      <4>3. dir' = dir \/ dir' = [dir EXCEPT ![Be(r)] = None]
        BY <1>11 DEF NothingToRemove, RemoveBe, shared
      <4>4. Be(services[s]) # Be(r)
        BY <2>1, <4>1, FilesDiffer
      <4>5. QED  BY <4>1, <4>2, <4>3, <4>4, RequestFields DEF ControlInv, TypeInv
    <3>2. QED  BY <2>1, <3>1 DEF RegistryBacked
  <2>3. QED  BY <2>1, <2>2 DEF ConfigSection
<1>12. QED
  BY <1>1, <1>2, <1>4, <1>5, <1>6, <1>7, <1>8, <1>9, <1>10, <1>11

--------------------------------------------------------------------------------
(* OrphanInv *)

\* Two plain requests with one aclName are of one service, so the map has only
\* one place for a file's owner.
LEMMA OwnerPlace ==
  ASSUME ControlInv, KeyInv, PlainRequests, NEW s \in Service, services[s] # None,
         NEW r \in Request
  PROVE  services[s].acl = r.acl <=> s = r.svc
<1>1. services[s] \in Request /\ services[s].svc = s
  BY MapEntries DEF ControlInv, KeyInv
<1>2. QED  BY <1>1 DEF PlainRequests

LEMMA OrphanSteps ==
  ASSUME ControlInv, RegistryInv, OrphanInv, PlainRequests, NEW w \in Worker,
         \/ AddLock(w) \/ RmLock(w) \/ TemplateUnreadable(w)
         \/ OpenFe(w) \/ FillFe(w) \/ OpenBe(w) \/ FillBe(w) \/ AddService(w)
         \/ NothingToRemove(w) \/ RemoveService(w) \/ RemoveFe(w) \/ RemoveBe(w)
  PROVE  OrphanInv'
<1> USE DEF OrphanInv, At, Goto
<1> DEFINE r == req[w]
           Owned(f) == \E s \in Service : services[s] # None /\ services[s].acl = f[2]
<1>1. CASE AddLock(w) \/ RmLock(w)
  <2>1. /\ configMu = None /\ UNCHANGED <<services, dir, req>> /\ r \in Request
        /\ \A v \in Worker : pc'[v] = pc[v] \/ pc'[v] = "openFe" \/ (v = w /\ pc'[v] = "rmService")
    BY <1>1 DEF AddLock, RmLock, ControlInv, ReqNamed, TypeInv, TypeOK, shared, task
  <2>2. \A f \in DirFile : dir[f] # None => Owned(f)
    BY <2>1, PipelineAssumption DEF NoOrphanFiles, ChangingAcl
  <2>3. \A f \in DirFile : f[2] = r.acl /\ dir[f] # None => services[r.svc] # None
    BY <2>1, <2>2, OwnerPlace DEF RegistryInv
  <2>4. QED  BY <2>1, <2>2, <2>3 DEF NoOrphanFiles, LeftInv
<1>2. CASE TemplateUnreadable(w)
  BY <1>2, InsideAlone DEF TemplateUnreadable, PlainRequests, ConfigSection
<1>3. ASSUME NEW f \in {Fe(r), Be(r)}, NEW content, NEW next \in ConfigSection,
             pc[w] \in ConfigSection, pc' = [pc EXCEPT ![w] = next],
             dir' = [dir EXCEPT ![f] = content], UNCHANGED <<services, req, configMu>>,
             next # "rmService", next = "rmBe" => f = Fe(r) /\ content = None
      PROVE  OrphanInv'
  <2>1. /\ r \in Request /\ f \in DirFile /\ f[2] = r.acl /\ Fe(r) \in DirFile
        /\ \A v \in Worker : v # w => pc'[v] \notin ConfigSection
        /\ pc'[w] = next
    BY <1>3, InsideAlone, RequestFields DEF ControlInv, TypeInv, TypeOK
  <2>2. \A g \in DirFile : g[2] # r.acl => dir'[g] = dir[g]
    BY <1>3, <2>1 DEF ControlInv, TypeInv, TypeOK
  <2>3. \A a : ChangingAcl(a)' <=> req[w].acl = a
    BY <1>3, InsideAlone DEF ChangingAcl
  <2>4. NoOrphanFiles'
    BY <1>3, <2>2, <2>3, InsideAlone DEF NoOrphanFiles
  <2>5. LeftInv'
    BY <1>3, <2>1 DEF LeftInv, ConfigSection, ControlInv, TypeInv, TypeOK
  <2>6. QED  BY <2>4, <2>5
<1>4. CASE OpenFe(w)
  BY <1>3, <1>4 DEF OpenFe, SetFile, ConfigSection, task, mutexes
<1>5. CASE FillFe(w)
  BY <1>3, <1>5 DEF FillFe, SetFile, ConfigSection, task, mutexes
<1>6. CASE OpenBe(w)
  BY <1>3, <1>6 DEF OpenBe, SetFile, ConfigSection, task, mutexes
<1>7. CASE FillBe(w)
  BY <1>3, <1>7 DEF FillBe, SetFile, ConfigSection, task, mutexes
<1>8. CASE RemoveFe(w)
  BY <1>3, <1>8 DEF RemoveFe, SetFile, ConfigSection, task, mutexes
<1>9. CASE AddService(w)
  <2>1. /\ r \in Request /\ r.svc \in Service /\ ~HasTemplate(r) /\ UNCHANGED dir
        /\ services' = [services EXCEPT ![r.svc] = r]
        /\ \A v \in Worker : pc'[v] \notin ConfigSection
    BY <1>9, InsideAlone, RequestFields
    DEF AddService, ConfigSection, PlainRequests, ControlInv, TypeInv, TypeOK
  <2>2. services'[r.svc] = r /\ r # None
    BY <2>1, RequestFields DEF ControlInv, TypeInv, TypeOK
  <2>3. ASSUME NEW f \in DirFile, f[2] # r.acl, dir[f] # None
        PROVE  Owned(f)'
    <3>1. PICK s \in Service : services[s] # None /\ services[s].acl = f[2]
      BY <2>3, <1>9, InsideAlone DEF NoOrphanFiles, AddService, ConfigSection
    <3>2. s # r.svc
      BY <2>1, <2>3, <3>1, OwnerPlace DEF RegistryInv
    <3>3. QED  BY <2>1, <3>1, <3>2 DEF ControlInv, TypeInv, TypeOK
  <2>4. NoOrphanFiles'
    BY <2>1, <2>2, <2>3 DEF NoOrphanFiles
  <2>5. QED  BY <2>1, <2>4 DEF LeftInv, ConfigSection
<1>10. CASE RemoveService(w)
  <2>1. /\ r \in Request /\ r.svc \in Service /\ configMu = w /\ UNCHANGED <<dir, req, configMu>>
        /\ services' = [services EXCEPT ![r.svc] = None]
        /\ pc'[w] = "rmFe" /\ \A v \in Worker : v # w => pc'[v] \notin ConfigSection
    BY <1>10, InsideAlone, RequestFields
    DEF RemoveService, ConfigSection, ControlInv, TypeInv, TypeOK, task, mutexes
  <2>2. ASSUME NEW f \in DirFile, f[2] # r.acl, dir[f] # None
        PROVE  Owned(f)'
    <3>1. PICK s \in Service : services[s] # None /\ services[s].acl = f[2]
      BY <2>2, <1>10, InsideAlone DEF NoOrphanFiles, RemoveService, ConfigSection
    <3>2. s # r.svc
      BY <2>1, <2>2, <3>1, OwnerPlace DEF RegistryInv
    <3>3. QED  BY <2>1, <3>1, <3>2 DEF ControlInv, TypeInv, TypeOK
  <2>3. NoOrphanFiles'
    BY <2>1, <2>2 DEF NoOrphanFiles, ChangingAcl
  <2>4. QED  BY <2>1, <2>3 DEF LeftInv, ConfigSection
<1>11. ASSUME NothingToRemove(w) \/ RemoveBe(w)
       PROVE  OrphanInv'
  <2>1. /\ r \in Request /\ UNCHANGED services
        /\ \A v \in Worker : pc'[v] \notin ConfigSection
    <3>1. CASE NothingToRemove(w)
      BY <3>1, InsideAlone, ReturnsShape
      DEF NothingToRemove, ConfigSection, ControlInv, TypeInv, TypeOK, shared
    <3>2. CASE RemoveBe(w)
      BY <3>2, InsideAlone DEF RemoveBe, ConfigSection, ControlInv, TypeInv, TypeOK
    <3>3. QED  BY <1>11, <3>1, <3>2
  <2>2. \A f \in DirFile : /\ f[2] = r.acl => dir'[f] = None
                           /\ f[2] # r.acl => dir'[f] = dir[f]
    <3>1. CASE NothingToRemove(w)
      BY <3>1 DEF NothingToRemove, LeftInv, shared
    <3>2. CASE RemoveBe(w)
      <4>1. dir' = [dir EXCEPT ![Be(r)] = None] /\ dir[Fe(r)] = None
        BY <3>2 DEF RemoveBe, LeftInv
      <4>2. QED  BY <4>1, <2>1, RequestFields DEF ControlInv, TypeInv, TypeOK
    <3>3. QED  BY <1>11, <3>1, <3>2
  <2>3. NoOrphanFiles'
    <3>1. ASSUME NEW f \in DirFile, f[2] # r.acl, dir[f] # None
          PROVE  Owned(f)
      BY <3>1, <1>11, InsideAlone DEF NoOrphanFiles, NothingToRemove, RemoveBe, ConfigSection
    <3>2. QED  BY <2>1, <2>2, <3>1 DEF NoOrphanFiles
  <2>4. QED  BY <2>1, <2>3 DEF LeftInv, ConfigSection
<1>12. QED
  BY <1>1, <1>2, <1>4, <1>5, <1>6, <1>7, <1>8, <1>9, <1>10, <1>11

--------------------------------------------------------------------------------
(* The theorems *)

\* What the proxy does between requests, and a restart that starts from an
\* empty directory or forgets the map.
LEMMA EnvironmentSteps ==
  ASSUME ControlInv
  PROVE  /\ UNCHANGED vars \/ WritePid \/ HaproxyDies \/ (\E s \in Service : Flip(s)) => Outside
         /\ Restart => RegistryInv'
         /\ Restart /\ ~KeepFiles => OrphanInv'
<1>1. UNCHANGED vars \/ WritePid \/ HaproxyDies \/ (\E s \in Service : Flip(s)) => Outside
  BY DEF vars, shared, mutexes, task, WritePid, HaproxyDies, Flip, Outside
<1>2. Restart => RegistryInv'
  BY DEF Restart, RegistryInv, KeyInv, ReadyInv, GoneInv, RegistryBacked, At, Every, NoServices
<1>3. Restart /\ ~KeepFiles => OrphanInv'
  BY DEF Restart, OrphanInv, NoOrphanFiles, LeftInv, At, Every, NoFiles
<1>4. QED  BY <1>1, <1>2, <1>3

LEMMA RegistryInit == Init => RegistryInv /\ OrphanInv
  BY DEF Init, RegistryInv, KeyInv, ReadyInv, GoneInv, RegistryBacked, OrphanInv, NoOrphanFiles,
         LeftInv, At, Every, NoServices, NoFiles

LEMMA RegistryStep ==
  PlainRequests /\ WritesSucceed /\ ControlInv /\ RegistryInv /\ [Next]_vars => RegistryInv'
<1> SUFFICES ASSUME PlainRequests, WritesSucceed, ControlInv, RegistryInv, [Next]_vars
             PROVE  RegistryInv'
  OBVIOUS
<1>1. CASE UNCHANGED vars \/ WritePid \/ HaproxyDies \/ Crash \/ \E s \in Service : Flip(s)
  BY <1>1, EnvironmentSteps, OutsideKeeps DEF Crash
<1>2. ASSUME NEW w \in Worker, Arrive(w) \/ Lock(w) \/ Proceed(w) \/ Fault(w)
      PROVE  RegistryInv'
  BY <1>2, OutsideSteps, OutsideKeeps, RegistrySteps, EnvironmentSteps, NothingLost
  DEF ControlInv, Lock, Proceed, Fault, FetchPanic
<1>3. QED  BY <1>1, <1>2 DEF Next

LEMMA OrphanStep ==
  PlainRequests /\ WritesSucceed /\ ~KeepFiles /\ ControlInv /\ RegistryInv /\ OrphanInv
  /\ [Next]_vars => OrphanInv'
<1> SUFFICES ASSUME PlainRequests, WritesSucceed, ~KeepFiles, ControlInv, RegistryInv, OrphanInv,
                    [Next]_vars
             PROVE  OrphanInv'
  OBVIOUS
<1>1. CASE UNCHANGED vars \/ WritePid \/ HaproxyDies \/ Crash \/ \E s \in Service : Flip(s)
  BY <1>1, EnvironmentSteps, OutsideKeeps DEF Crash
<1>2. ASSUME NEW w \in Worker, Arrive(w) \/ Lock(w) \/ Proceed(w) \/ Fault(w)
      PROVE  OrphanInv'
  BY <1>2, OutsideSteps, OutsideKeeps, OrphanSteps, EnvironmentSteps, NothingLost
  DEF ControlInv, Lock, Proceed, Fault, FetchPanic
<1>3. QED  BY <1>1, <1>2 DEF Next

\* When no two services share an aclName, none brings a template and the disk
\* takes what is written, every service in the map has the backend file of its
\* latest registration, except while its own reconfigure or remove is between
\* the lock and the unlock of configProxyMu: with any number of workers,
\* other failures, rollbacks and restarts.
THEOREM RegistryAlwaysBacked ==
  ASSUME PlainRequests, WritesSucceed
  PROVE  Spec => []RegistryBacked
<1>1. ControlInv /\ RegistryInv => RegistryBacked
  BY DEF RegistryInv
<1>2. QED
  BY <1>1, PlainRequests, WritesSucceed, ControlInit, ControlStep, RegistryInit, RegistryStep, PTL
  DEF Spec

\* Under the same conditions, and if a restart begins with an empty templates
\* directory, every file there belongs to a registered service or to the
\* request in the critical section: removals and rollbacks leave nothing.
THEOREM NoFileIsOrphaned ==
  ASSUME PlainRequests, WritesSucceed, ~KeepFiles
  PROVE  Spec => []NoOrphanFiles
<1>1. ControlInv /\ RegistryInv /\ OrphanInv => NoOrphanFiles
  BY DEF OrphanInv
<1>2. QED
  BY <1>1, PlainRequests, WritesSucceed, ~KeepFiles, ControlInit, ControlStep, RegistryInit,
     RegistryStep, OrphanStep, PTL DEF Spec

================================================================================
