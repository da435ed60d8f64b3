------------------------------ MODULE SoloProofs ------------------------------
(***************************************************************************)
(* A request that has the proxy for itself: theorems UndisturbedOkSyncs    *)
(* and UndisturbedRemovalIsComplete, for every number of workers,          *)
(* services, requests and attempts, and whatever happened before.          *)
(***************************************************************************)
EXTENDS RegistryProofs

--------------------------------------------------------------------------------
(* The inductive invariant *)

\* While a worker has the proxy for itself, the others are idle.
AloneInv == \A w \in Worker : alone[w] => \A v \in Worker \ {w} : At(v, "idle")

\* Which Execute a worker is in, where it is, and what it was asked for.
Flows(w) ==
    /\ kind[w] = "recreate" => mode[w] = "refresh"
    /\ kind[w] = "remove" /\ ~At(w, "idle") => mode[w] = "remove"
    /\ pc[w] \in {"begin", "addLock", "openFe", "fillFe", "openBe", "fillBe", "addService"}
          => mode[w] = "apply"
    /\ pc[w] \in {"rmLock", "rmService", "rmFe", "rmBe"} => mode[w] \in {"remove", "rollback"}
    /\ At(w, "pick") => kind[w] = "fetch"

FlowInv == \A w \in Worker : Flows(w)

\* What the files F of a directory, and the services S of a map, say.
Texts(files, type, F) == {files[f] : f \in {g \in F : g[1] = type}} \cap Request
Entries(registry, S)  == {registry[s] : s \in S} \cap Request

\* A configuration that is being generated: the files F and the services S are read.
Drafted(registry, files, F, S) ==
    [fronts |-> Texts(files, "fe", F) \cup Entries(registry, S),
     backs  |-> Texts(files, "be", F)]

\* What a worker has of the configuration that says what map and files say: a
\* draft, then the file, then HAProxy itself.
Synced(w) ==
    /\ At(w, "read") =>
          /\ unread[w] \subseteq {f \in DirFile : dir[f] # None}
          /\ unvisited[w] = Service
          /\ draft[w] = Drafted(services, dir, DirFile \ unread[w], {})
    /\ At(w, "iterate") =>
          draft[w] = Drafted(services, dir, DirFile, Service \ unvisited[w])
    /\ pc[w] \in {"openCfg", "writeCfg"} => draft[w] = Rendered(services, dir)
    /\ At(w, "writeCfg") => cfg = Truncated
    /\ pc[w] \in {"rlLock", "validate", "launch"} /\ kind[w] \notin {"reload", "cert"}
          => cfg = Rendered(services, dir)
    /\ At(w, "waitPid") /\ kind[w] \notin {"reload", "cert"}
          => running \in {None, Rendered(services, dir)}
    /\ Attempts > 0 /\ At(w, "done") /\ Loads(w) /\ result[w] = "ok"
          => running \in {None, Rendered(services, dir)}

SyncInv == \A w \in Worker : alone[w] => Synced(w)

\* Once a removal that has the proxy for itself is past its critical section,
\* nothing of the service is left.
Removed(w) ==
    kind[w] = "remove" /\ pc[w] \in ReloadSection \cup {"done"}
        => /\ services[req[w].svc] = None
           /\ dir[Fe(req[w])] = None /\ dir[Be(req[w])] = None

RemovedInv == \A w \in Worker : alone[w] => Removed(w)

--------------------------------------------------------------------------------
(* Reading files and map *)

LEMMA RenderedIsAllRead ==
  ASSUME NEW registry, NEW files
  PROVE  Drafted(registry, files, DirFile, Service) = Rendered(registry, files)
<1>1. ASSUME NEW type \in {"fe", "be"}
      PROVE  Texts(files, type, DirFile) = {files[<<type, a>>] : a \in Acl} \cap Request
  <2>1. {g \in DirFile : g[1] = type} = {<<type, a>> : a \in Acl}
    BY DEF DirFile
  <2>2. {files[f] : f \in {<<type, a>> : a \in Acl}} = {files[<<type, a>>] : a \in Acl}
    OBVIOUS
  <2>3. QED  BY <2>1, <2>2 DEF Texts
<1>2. QED  BY <1>1 DEF Rendered, Drafted, Entries

\* The files that are not there say nothing.
LEMMA ListedSuffice ==
  ASSUME NEW registry, NEW files
  PROVE  Drafted(registry, files, {f \in DirFile : files[f] = None}, {}) = EmptyConfig
  BY MarkersAssumption DEF Drafted, Texts, Entries, EmptyConfig

LEMMA FileRead ==
  ASSUME NEW registry, NEW files, NEW F \in SUBSET DirFile, NEW f \in DirFile \ F
  PROVE  AddSnippet(Drafted(registry, files, F, {}), f, files[f])
            = Drafted(registry, files, F \cup {f}, {})
<1>1. ASSUME NEW type
      PROVE  Texts(files, type, F \cup {f}) =
                IF f[1] = type /\ files[f] \in Request THEN Texts(files, type, F) \cup {files[f]}
                                                       ELSE Texts(files, type, F)
  BY DEF Texts
<1>2. f[1] = "fe" \/ f[1] = "be"
  BY DEF DirFile
<1>3. QED  BY <1>1, <1>2 DEF AddSnippet, Drafted, Entries

LEMMA ServiceRead ==
  ASSUME NEW registry \in [Service -> Entry], NEW files,
         NEW S \in SUBSET Service, NEW s \in Service \ S
  PROVE  Drafted(registry, files, DirFile, S \cup {s}) =
            IF registry[s] = None THEN Drafted(registry, files, DirFile, S)
            ELSE AddFront(Drafted(registry, files, DirFile, S), registry[s])
<1>1. registry[s] = None \/ registry[s] \in Request
  BY DEF Entry
<1>2. Entries(registry, S \cup {s}) =
         IF registry[s] = None THEN Entries(registry, S) ELSE Entries(registry, S) \cup {registry[s]}
  BY <1>1, MarkersAssumption DEF Entries
<1>3. QED  BY <1>2 DEF AddFront, Drafted

--------------------------------------------------------------------------------
(* Steps of a worker concern that worker alone *)

OwnStep(w) ==
    /\ ~At(w, "idle") /\ UNCHANGED alone
    /\ \A v \in Worker \ {w} :
          /\ pc'[v] = pc[v] /\ kind'[v] = kind[v] /\ mode'[v] = mode[v] /\ req'[v] = req[v]
          /\ result'[v] = result[v]

LEMMA OwnSteps ==
  ASSUME TypeInv, NEW w \in Worker, Lock(w) \/ Proceed(w) \/ Fault(w), ~FetchPanic(w)
  PROVE  OwnStep(w)
<1> USE DEF OwnStep, TypeInv, TypeOK, At, Goto, task, ghosts
<1>1. ASSUME NEW e, ExecuteReturns(w, e) \/ ReloadReturns(w, e)
      PROVE  \A v \in Worker \ {w} : pc'[v] = pc[v] /\ mode'[v] = mode[v] /\ result'[v] = result[v]
  BY <1>1 DEF ExecuteReturns, ReloadReturns
<1>2. CASE AddLock(w) \/ RmLock(w) \/ RlLock(w) \/ Pick(w)
  BY <1>2 DEF AddLock, RmLock, RlLock, Pick
<1>3. CASE Begin(w)
  <2>1. CASE \E e \in {"ok", "error"} : ExecuteReturns(w, e)
    BY <1>1, <1>3, <2>1 DEF Begin
  <2>2. CASE ~\E e \in {"ok", "error"} : ExecuteReturns(w, e)
    BY <1>3, <2>2 DEF Begin
  <2>3. QED  BY <2>1, <2>2
<1>4. CASE OpenFe(w) \/ FillFe(w) \/ OpenBe(w) \/ FillBe(w) \/ RemoveFe(w) \/ WriteLost(w)
  BY <1>4 DEF WriteLost, OpenFe, FillFe, OpenBe, FillBe, RemoveFe, SetFile
<1>5. CASE AddService(w) \/ RemoveService(w) \/ RemoveBe(w) \/ RemoveLost(w)
  BY <1>5 DEF RemoveLost, AddService, RemoveService, RemoveBe
<1>6. CASE NothingToRemove(w) \/ TemplateUnreadable(w)
  BY <1>1, <1>6 DEF NothingToRemove, TemplateUnreadable
<1>7. CASE List(w) \/ Read(w) \/ Iterate(w) \/ OpenCfg(w) \/ WriteCfg(w)
  BY <1>7 DEF List, Read, Iterate, OpenCfg, WriteCfg
<1>8. CASE ReadFails(w) \/ CreateFails(w)
  <2>1. CASE kind[w] = "cert"
    BY <1>8, <2>1 DEF ReadFails, CreateFails, CreateReturnsError
  <2>2. CASE kind[w] # "cert"
    BY <1>1, <1>8, <2>2 DEF ReadFails, CreateFails, CreateReturnsError
  <2>3. QED  BY <2>1, <2>2
<1>9. CASE Validate(w) \/ Launch(w) \/ SocketPanic(w) \/ Answer(w)
  BY <1>9 DEF Validate, Launch, SocketPanic, Answer
<1>10. CASE GiveUp(w) \/ PidUnreadable(w) \/ WaitPid(w)
  BY <1>1, <1>10 DEF GiveUp, PidUnreadable, WaitPid
<1>11. QED
  BY <1>2, <1>3, <1>4, <1>5, <1>6, <1>7, <1>8, <1>9, <1>10 DEF Lock, Proceed, Fault

\* A worker that works while another one is alone is that one.
LEMMA OnlyOneWorks ==
  ASSUME AloneInv, NEW w \in Worker, OwnStep(w), NEW v \in Worker, alone[v]
  PROVE  v = w
  BY DEF AloneInv, OwnStep

LEMMA AloneStep == TypeInv /\ AloneInv /\ [Next]_vars => AloneInv'
<1> SUFFICES ASSUME TypeInv, AloneInv, [Next]_vars PROVE AloneInv'
  OBVIOUS
<1>1. CASE UNCHANGED vars \/ WritePid \/ HaproxyDies \/ \E s \in Service : Flip(s)
  BY <1>1 DEF vars, ghosts, WritePid, HaproxyDies, Flip, AloneInv, At
<1>2. CASE Restart
  BY <1>2 DEF Restart, AloneInv, At, Every
<1>3. ASSUME NEW w \in Worker, Arrive(w)
      PROVE  AloneInv'
  <2>1. PICK l : /\ pc' = [pc EXCEPT ![w] = l]
                 /\ alone' = [v \in Worker |-> v = w /\ \A u \in Worker \ {w} : At(u, "idle")]
    BY <1>3 DEF Arrive, ReconfigureRequest, RemoveRequest, ReloadRequest, FetchAnswer, Start, Goto
  <2>2. QED  BY <2>1 DEF AloneInv, At, TypeInv, TypeOK
<1>4. ASSUME NEW w \in Worker, OwnStep(w)
      PROVE  AloneInv'
  BY <1>4, OnlyOneWorks DEF AloneInv, OwnStep, At
<1>5. QED
  BY <1>1, <1>2, <1>3, <1>4, OwnSteps DEF Next, Crash, FetchPanic, Proceed

--------------------------------------------------------------------------------
(* FlowInv *)

LEMMA FlowStep == TypeInv /\ FlowInv /\ [Next]_vars => FlowInv'
<1> SUFFICES ASSUME TypeInv, FlowInv, [Next]_vars PROVE FlowInv'
  OBVIOUS
<1> USE DEF Flows, TypeInv, TypeOK, At, Goto, task
<1>1. CASE UNCHANGED vars \/ WritePid \/ HaproxyDies \/ \E s \in Service : Flip(s)
  BY <1>1 DEF vars, WritePid, HaproxyDies, Flip, FlowInv
<1>2. CASE Restart
  BY <1>2 DEF Restart, FlowInv, Every
<1>3. ASSUME NEW w \in Worker, Arrive(w)
      PROVE  FlowInv'
  BY <1>3 DEF Arrive, ReconfigureRequest, RemoveRequest, ReloadRequest, FetchAnswer, Start,
              FlowInv
<1>4. ASSUME NEW w \in Worker, Lock(w) \/ Proceed(w) \/ Fault(w), ~FetchPanic(w)
      PROVE  FlowInv'
  <2>1. OwnStep(w)
    BY <1>4, OwnSteps
  <2>2. Flows(w)
    BY DEF FlowInv
  <2>3. ASSUME NEW e, ExecuteReturns(w, e) \/ ReloadReturns(w, e), kind' = kind,
               pc[w] # "idle",
               kind[w] = "recreate" => pc[w] \notin {"rmLock", "rmService", "rmFe", "rmBe"}
        PROVE  Flows(w)'
    BY <2>2, <2>3 DEF ExecuteReturns, ReloadReturns
  <2>4. Flows(w)'
    <3>1. CASE AddLock(w) \/ RmLock(w) \/ RlLock(w) \/ Pick(w)
      BY <2>2, <3>1 DEF AddLock, RmLock, RlLock, Pick
    <3>2. CASE Begin(w)
      <4>1. CASE \E e \in {"ok", "error"} : ExecuteReturns(w, e)
        BY <2>2, <2>3, <3>2, <4>1 DEF Begin
      <4>2. CASE ~\E e \in {"ok", "error"} : ExecuteReturns(w, e)
        BY <2>2, <3>2, <4>2 DEF Begin
      <4>3. QED  BY <4>1, <4>2
    <3>3. CASE OpenFe(w) \/ FillFe(w) \/ OpenBe(w) \/ FillBe(w) \/ RemoveFe(w) \/ WriteLost(w)
      BY <2>2, <3>3 DEF WriteLost, OpenFe, FillFe, OpenBe, FillBe, RemoveFe, SetFile
    <3>4. CASE AddService(w) \/ RemoveService(w) \/ RemoveBe(w) \/ RemoveLost(w)
      BY <2>2, <3>4 DEF RemoveLost, AddService, RemoveService, RemoveBe
    <3>5. CASE NothingToRemove(w) \/ TemplateUnreadable(w)
      BY <2>2, <2>3, <3>5 DEF NothingToRemove, TemplateUnreadable
    <3>6. CASE List(w) \/ Read(w) \/ Iterate(w) \/ OpenCfg(w) \/ WriteCfg(w)
      BY <2>2, <3>6 DEF List, Read, Iterate, OpenCfg, WriteCfg
    <3>7. CASE ReadFails(w) \/ CreateFails(w)
      <4>1. CASE kind[w] = "cert"
        BY <2>2, <3>7, <4>1 DEF ReadFails, CreateFails, CreateReturnsError
      <4>2. CASE kind[w] # "cert"
        BY <2>2, <2>3, <3>7, <4>2 DEF ReadFails, CreateFails, CreateReturnsError
      <4>3. QED  BY <4>1, <4>2
    <3>8. CASE Validate(w) \/ Launch(w) \/ SocketPanic(w) \/ Answer(w)
      BY <2>2, <3>8 DEF Validate, Launch, SocketPanic, Answer
    <3>9. CASE GiveUp(w) \/ PidUnreadable(w) \/ WaitPid(w)
      BY <2>2, <2>3, <3>9 DEF GiveUp, PidUnreadable, WaitPid
    <3>10. QED
      BY <1>4, <3>1, <3>2, <3>3, <3>4, <3>5, <3>6, <3>7, <3>8, <3>9 DEF Lock, Proceed, Fault
  <2>5. QED  BY <2>1, <2>4 DEF FlowInv, OwnStep
<1>5. QED
  BY <1>1, <1>2, <1>3, <1>4 DEF Next, Crash, FetchPanic

--------------------------------------------------------------------------------
(* SyncInv *)

LEMMA ScanSyncs ==
  ASSUME TypeInv, NEW w \in Worker, Synced(w),
         List(w) \/ Read(w) \/ Iterate(w) \/ OpenCfg(w) \/ WriteCfg(w)
  PROVE  Synced(w)'
<1> USE DEF TypeInv, TypeOK, At, Goto, Synced, shared, task
<1>1. CASE List(w)
  <2>1. /\ unread'[w] = {f \in DirFile : dir[f] # None} /\ unvisited'[w] = Service
        /\ draft'[w] = EmptyConfig /\ UNCHANGED <<services, dir>>
        /\ pc'[w] = IF unread'[w] = {} THEN "iterate" ELSE "read"
    BY <1>1 DEF List
  <2>2. Drafted(services, dir, DirFile \ unread'[w], {}) = EmptyConfig
    <3>1. DirFile \ unread'[w] = {f \in DirFile : dir[f] = None}
      BY <2>1
    <3>2. QED  BY <3>1, ListedSuffice
  <2>3. QED  BY <2>1, <2>2
<1>2. CASE Read(w)
  <2>1. PICK f \in unread[w] :
           /\ unread'[w] = unread[w] \ {f}
           /\ draft'[w] = AddSnippet(draft[w], f, dir[f])
           /\ pc'[w] = IF unread[w] = {f} THEN "iterate" ELSE "read"
    BY <1>2 DEF Read
  <2>2. UNCHANGED <<services, dir, unvisited>> /\ At(w, "read")
    BY <1>2 DEF Read
  <2>3. draft'[w] = Drafted(services, dir, DirFile \ unread'[w], {})
    <3>1. PICK F \in SUBSET DirFile : F = DirFile \ unread[w]
      OBVIOUS
    <3>2. f \in DirFile \ F /\ F \cup {f} = DirFile \ unread'[w]
      BY <2>1, <3>1
    <3>3. draft[w] = Drafted(services, dir, F, {})
      BY <2>2, <3>1
    <3>4. AddSnippet(Drafted(services, dir, F, {}), f, dir[f])
             = Drafted(services, dir, F \cup {f}, {})
      BY <3>2, FileRead
    <3>5. QED  BY <2>1, <3>2, <3>3, <3>4
  <2>4. QED  BY <2>1, <2>2, <2>3
<1>3. CASE Iterate(w)
  <2>1. PICK s \in unvisited[w] :
           /\ unvisited'[w] = unvisited[w] \ {s}
           /\ draft'[w] = IF services[s] = None THEN draft[w] ELSE AddFront(draft[w], services[s])
           /\ pc'[w] = IF unvisited[w] = {s} THEN "openCfg" ELSE "iterate"
    BY <1>3 DEF Iterate
  <2>2. UNCHANGED <<services, dir>> /\ At(w, "iterate")
    BY <1>3 DEF Iterate
  <2>3. draft'[w] = Drafted(services, dir, DirFile, Service \ unvisited'[w])
    <3>1. PICK S \in SUBSET Service : S = Service \ unvisited[w]
      OBVIOUS
    <3>2. s \in Service \ S
      BY <2>1, <3>1
    <3>3. draft[w] = Drafted(services, dir, DirFile, S) /\ S \cup {s} = Service \ unvisited'[w]
      BY <2>1, <2>2, <3>1
    <3>4. Drafted(services, dir, DirFile, S \cup {s}) =
             IF services[s] = None THEN Drafted(services, dir, DirFile, S)
             ELSE AddFront(Drafted(services, dir, DirFile, S), services[s])
      BY <3>2, ServiceRead
    <3>5. QED  BY <2>1, <3>3, <3>4
  <2>4. unvisited[w] = {s} => draft'[w] = Rendered(services, dir)
    <3>1. unvisited[w] = {s} => Service \ unvisited'[w] = Service
      BY <2>1
    <3>2. QED  BY <2>3, <3>1, RenderedIsAllRead
  <2>5. QED  BY <2>1, <2>2, <2>3, <2>4
<1>4. CASE OpenCfg(w)
  BY <1>4 DEF OpenCfg, scan
<1>5. CASE WriteCfg(w)
  BY <1>5 DEF WriteCfg
<1>6. QED  BY <1>1, <1>2, <1>3, <1>4, <1>5

\* A call that returns OK from a reload has to have started HAProxy.
LEMMA ReturnSyncs ==
  ASSUME TypeInv, NEW w \in Worker, NEW e \in {"ok", "error"},
         ExecuteReturns(w, e) \/ ReloadReturns(w, e),
         UNCHANGED <<services, dir, running, kind, req>>,
         Attempts > 0 /\ Loads(w) /\ e = "ok" => running \in {None, Rendered(services, dir)}
  PROVE  Synced(w)'
<1> USE DEF Synced, At
<1>1. CASE pc'[w] \notin {"pick", "rmLock"}
  <2>1. PICK d \in {"ok", "error"} : ExecuteReturns(w, d) /\ (d = "ok" => e = "ok")
    BY <1>1 DEF ReloadReturns, TypeInv, TypeOK, Goto
  <2>2. pc'[w] = "done" /\ mode' = mode /\ result'[w] = Reply(w, d)
    BY <1>1, <2>1 DEF ExecuteReturns, TypeInv, TypeOK, Goto
  <2>3. Loads(w)' <=> Loads(w)
    BY <2>2 DEF Loads
  <2>4. Loads(w) => Reply(w, d) = d
    BY DEF Loads, Reply
  <2>5. QED  BY <2>1, <2>2, <2>3, <2>4
<1>2. CASE pc'[w] \in {"pick", "rmLock"}
  BY <1>2
<1>3. QED  BY <1>1, <1>2

LEMMA WorkSyncs ==
  ASSUME TypeInv, NEW w \in Worker, Flows(w), Synced(w),
         Lock(w) \/ Proceed(w) \/ Fault(w), ~FetchPanic(w)
  PROVE  Synced(w)'
<1> USE DEF TypeInv, TypeOK, At, Goto, shared, task, scan
<1>1. CASE \/ AddLock(w) \/ RmLock(w) \/ Pick(w) \/ Answer(w)
           \/ OpenFe(w) \/ FillFe(w) \/ OpenBe(w) \/ FillBe(w) \/ RemoveFe(w)
           \/ AddService(w) \/ RemoveService(w) \/ RemoveBe(w) \/ WriteLost(w) \/ RemoveLost(w)
  <2>1. pc'[w] \notin {"read", "iterate", "openCfg", "writeCfg", "rlLock", "validate", "launch",
                       "waitPid", "done"}
    BY <1>1 DEF AddLock, RmLock, Pick, Answer, OpenFe, FillFe, OpenBe, FillBe, RemoveFe, SetFile,
                AddService, RemoveService, RemoveBe, WriteLost, RemoveLost
  <2>2. QED  BY <2>1 DEF Synced
<1>2. CASE Begin(w)
  <2>1. CASE \E e \in {"ok", "error"} : ExecuteReturns(w, e) /\ (e = "ok" => req[w].foreign)
    BY <1>2, <2>1, ReturnSyncs DEF Begin, Loads, Flows
  <2>2. CASE ~\E e \in {"ok", "error"} : ExecuteReturns(w, e) /\ (e = "ok" => req[w].foreign)
    BY <1>2, <2>2 DEF Begin, Synced
  <2>3. QED  BY <2>1, <2>2
<1>3. CASE TemplateUnreadable(w)
  BY <1>3, ReturnSyncs DEF TemplateUnreadable
<1>4. CASE NothingToRemove(w)
  BY <1>4, ReturnSyncs DEF NothingToRemove, Loads, Flows
<1>5. CASE List(w) \/ Read(w) \/ Iterate(w) \/ OpenCfg(w) \/ WriteCfg(w)
  BY <1>5, ScanSyncs
<1>6. CASE ReadFails(w) \/ CreateFails(w)
  <2>1. CASE kind[w] = "cert"
    BY <1>6, <2>1 DEF ReadFails, CreateFails, CreateReturnsError, Synced
  <2>2. CASE kind[w] # "cert"
    BY <1>6, <2>2, ReturnSyncs DEF ReadFails, CreateFails, CreateReturnsError
  <2>3. QED  BY <2>1, <2>2
<1>7. CASE RlLock(w) \/ Validate(w)
  BY <1>7 DEF RlLock, Validate, Synced
<1>8. CASE Launch(w)
  BY <1>8 DEF Launch, Synced
<1>9. CASE GiveUp(w)
  BY <1>9, ReturnSyncs DEF GiveUp
<1>10. CASE PidUnreadable(w)
  BY <1>10, ReturnSyncs DEF PidUnreadable
<1>11. CASE SocketPanic(w)
  BY <1>11 DEF SocketPanic, Synced
<1>12. CASE WaitPid(w)
  BY <1>12, ReturnSyncs DEF WaitPid, Synced, Loads
<1>13. QED
  BY <1>1, <1>2, <1>3, <1>4, <1>5, <1>6, <1>7, <1>8, <1>9, <1>10, <1>11, <1>12
  DEF Lock, Proceed, Fault

LEMMA SyncStep == TypeInv /\ AloneInv /\ FlowInv /\ SyncInv /\ [Next]_vars => SyncInv'
<1> SUFFICES ASSUME TypeInv, AloneInv, FlowInv, SyncInv, [Next]_vars PROVE SyncInv'
  OBVIOUS
<1>1. CASE UNCHANGED vars \/ WritePid \/ HaproxyDies \/ \E s \in Service : Flip(s)
  BY <1>1 DEF vars, shared, task, scan, ghosts, WritePid, HaproxyDies, Flip, SyncInv, Synced, At,
              Loads
<1>2. CASE Restart
  BY <1>2 DEF Restart, SyncInv, Every
<1>3. ASSUME NEW w \in Worker, Arrive(w)
      PROVE  SyncInv'
  <2>1. /\ \A v \in Worker : alone'[v] => v = w
        /\ \/ pc'[w] \in {"pick", "begin", "rmLock", "list"}
           \/ pc'[w] = "rlLock" /\ kind'[w] = "reload"
    BY <1>3 DEF Arrive, ReconfigureRequest, RemoveRequest, ReloadRequest, FetchAnswer, Start,
                Goto, TypeInv, TypeOK
  <2>2. QED  BY <2>1 DEF SyncInv, Synced, At
<1>4. ASSUME NEW w \in Worker, Lock(w) \/ Proceed(w) \/ Fault(w), ~FetchPanic(w)
      PROVE  SyncInv'
  <2>1. OwnStep(w)
    BY <1>4, OwnSteps DEF TypeInv
  <2>2. \A v \in Worker : alone'[v] => alone[v] /\ v = w
    BY <2>1, OnlyOneWorks DEF OwnStep
  <2>3. alone[w] => Synced(w)'
    BY <1>4, WorkSyncs DEF SyncInv, FlowInv
  <2>4. QED  BY <2>2, <2>3 DEF SyncInv
<1>5. QED
  BY <1>1, <1>2, <1>3, <1>4 DEF Next, Crash, FetchPanic

LEMMA SoloInit == Init => AloneInv /\ FlowInv /\ SyncInv
  BY DEF Init, AloneInv, FlowInv, Flows, SyncInv, At, Every

\* A reconfigure or a recreate that had the proxy for itself and was answered
\* OK leaves HAProxy with exactly the configuration of the map and the files,
\* whatever happened before it arrived: crashes, half-written files, races of
\* other requests, a registry that no longer matches the directory.  The loop
\* of Reload has to run at least once: RECONFIGURE_ATTEMPTS of zero answers OK
\* without having started anything.
THEOREM UndisturbedOkSyncs ==
  ASSUME Attempts > 0
  PROVE  Spec => []SoloReloadSyncs
<1>1. TypeInv /\ SyncInv => SoloReloadSyncs
  BY DEF SyncInv, Synced, SoloReloadSyncs
<1>2. QED
  BY <1>1, TypeInit, TypeStep, SoloInit, AloneStep, FlowStep, SyncStep, PTL
  DEF Spec

--------------------------------------------------------------------------------
(* RemovedInv *)

LEMMA WorkRemoves ==
  ASSUME WritesSucceed, ControlInv, RegistryInv, OrphanInv, NEW w \in Worker, Flows(w), Removed(w),
         Lock(w) \/ Proceed(w) \/ Fault(w), ~FetchPanic(w)
  PROVE  Removed(w)'
<1> USE DEF ControlInv, TypeInv, TypeOK, At, Goto, shared, task, Removed, ReloadSection
<1> SUFFICES ASSUME kind'[w] = "remove", pc'[w] \in ReloadSection \cup {"done"}
             PROVE  Removed(w)'
  OBVIOUS
<1> ~WriteLost(w) /\ ~RemoveLost(w)
  BY NothingLost
<1>1. CASE pc[w] \in ReloadSection
  <2>1. UNCHANGED <<services, dir, kind, req>>
    <3>1. CASE \/ RlLock(w) \/ List(w) \/ Read(w) \/ ReadFails(w) \/ Iterate(w)
               \/ OpenCfg(w) \/ WriteCfg(w) \/ CreateFails(w)
      BY <3>1 DEF RlLock, List, Read, ReadFails, Iterate, OpenCfg, WriteCfg, CreateFails
    <3>2. CASE Validate(w) \/ GiveUp(w) \/ Launch(w) \/ PidUnreadable(w) \/ SocketPanic(w) \/ WaitPid(w)
      BY <3>2 DEF Validate, GiveUp, Launch, PidUnreadable, SocketPanic, WaitPid
    <3>3. QED
      BY <1>1, <3>1, <3>2 DEF Lock, Proceed, Fault, AddLock, RmLock, Pick, Begin, OpenFe, FillFe,
         OpenBe, FillBe, AddService, TemplateUnreadable, NothingToRemove, RemoveService, RemoveFe,
         RemoveBe, SetFile, Answer
  <2>2. QED  BY <1>1, <2>1
<1>2. CASE pc[w] \notin ReloadSection
  <2>1. CASE NothingToRemove(w)
    <3>1. req[w] \in Request
      BY <2>1 DEF NothingToRemove, ReqNamed, ConfigSection
    <3>2. UNCHANGED <<services, dir, req>> /\ services[req[w].svc] = None
      BY <2>1 DEF NothingToRemove
    <3>3. dir[Fe(req[w])] = None /\ dir[Be(req[w])] = None
      BY <2>1, <3>1, <3>2, RequestFields DEF NothingToRemove, OrphanInv, LeftInv
    <3>4. QED  BY <3>2, <3>3
  <2>2. CASE RemoveBe(w)
    <3>1. req[w] \in Request
      BY <2>2 DEF RemoveBe, ReqNamed, ConfigSection
    <3>2. /\ UNCHANGED <<services, req>> /\ dir' = [dir EXCEPT ![Be(req[w])] = None]
          /\ services[req[w].svc] = None /\ dir[Fe(req[w])] = None
      BY <2>2 DEF RemoveBe, OrphanInv, LeftInv, RegistryInv, GoneInv
    <3>3. QED  BY <3>1, <3>2, RequestFields
  <2>3. CASE ~NothingToRemove(w) /\ ~RemoveBe(w)
    <3>1. kind[w] = "remove" /\ pc[w] \in {"pick", "begin", "openFe", "addService"}
      BY <1>2, <2>3 DEF Lock, Proceed, Fault, AddLock, RmLock, Pick, Begin, OpenFe, FillFe,
         OpenBe, FillBe, AddService, TemplateUnreadable, RemoveService, RemoveFe, SetFile, Answer,
         RlLock, List, Read, ReadFails, Iterate, OpenCfg, WriteCfg, CreateFails, Validate, GiveUp,
         Launch, PidUnreadable, SocketPanic, WaitPid
    <3>2. QED  BY <3>1 DEF Flows
  <2>4. QED  BY <2>1, <2>2, <2>3
<1>3. QED  BY <1>1, <1>2

LEMMA RemovedStep ==
  PlainRequests /\ WritesSucceed /\ ~KeepFiles /\ ControlInv /\ RegistryInv /\ OrphanInv
  /\ AloneInv /\ FlowInv /\ RemovedInv /\ [Next]_vars => RemovedInv'
<1> SUFFICES ASSUME PlainRequests, WritesSucceed, ~KeepFiles, ControlInv, RegistryInv, OrphanInv,
                    AloneInv, FlowInv, RemovedInv, [Next]_vars
             PROVE  RemovedInv'
  OBVIOUS
<1>1. CASE UNCHANGED vars \/ WritePid \/ HaproxyDies \/ \E s \in Service : Flip(s)
  BY <1>1 DEF vars, shared, task, ghosts, WritePid, HaproxyDies, Flip, RemovedInv, Removed
<1>2. CASE Restart
  BY <1>2 DEF Restart, RemovedInv, Every
<1>3. ASSUME NEW w \in Worker, Arrive(w)
      PROVE  RemovedInv'
  <2>1. /\ \A v \in Worker : alone'[v] => v = w
        /\ kind'[w] = "remove" => pc'[w] \in {"pick", "begin", "rmLock"}
    BY <1>3 DEF Arrive, ReconfigureRequest, RemoveRequest, ReloadRequest, FetchAnswer, Start,
                Goto, ControlInv, TypeInv, TypeOK
  <2>2. QED  BY <2>1 DEF RemovedInv, Removed, ReloadSection
<1>4. ASSUME NEW w \in Worker, Lock(w) \/ Proceed(w) \/ Fault(w), ~FetchPanic(w)
      PROVE  RemovedInv'
  <2>1. OwnStep(w)
    BY <1>4, OwnSteps DEF ControlInv
  <2>2. \A v \in Worker : alone'[v] => alone[v] /\ v = w
    BY <2>1, OnlyOneWorks DEF OwnStep
  <2>3. alone[w] => Removed(w)'
    BY <1>4, WorkRemoves DEF RemovedInv, FlowInv
  <2>4. QED  BY <2>2, <2>3 DEF RemovedInv
<1>5. QED
  BY <1>1, <1>2, <1>3, <1>4 DEF Next, Crash, FetchPanic

\* A removal that had the proxy for itself, answered OK or dropped by a panic
\* on the way, leaves neither the service in the map nor its files in the
\* directory: when no two services share an aclName, none brings a template, the
\* disk does what is asked and a restart begins with an empty templates
\* directory, and whatever other requests left behind before it arrived.
THEOREM UndisturbedRemovalIsComplete ==
  ASSUME PlainRequests, WritesSucceed, ~KeepFiles
  PROVE  Spec => []RemovalLeavesNothing
<1>1. RemovedInv => RemovalLeavesNothing
  BY DEF RemovedInv, Removed, RemovalLeavesNothing, At
<1>2. Init => RemovedInv
  BY DEF Init, RemovedInv, Every
<1>3. QED
  BY <1>1, <1>2, PlainRequests, WritesSucceed, ~KeepFiles, TypeInit, TypeStep, SoloInit, AloneStep,
     FlowStep, ControlInit, ControlStep, RegistryInit, RegistryStep, OrphanStep, RemovedStep, PTL DEF Spec

================================================================================
