------------------------- MODULE ConfigPipelineProofs -------------------------
(***************************************************************************)
(* Theorems about ConfigPipeline for every number of workers, services,    *)
(* requests and attempts, and every bound of the budget.                   *)
(***************************************************************************)
EXTENDS ConfigPipeline, TLAPS

--------------------------------------------------------------------------------
(* Facts about configurations *)

LEMMA EmptyConfigTyped == EmptyConfig \in Config
  BY DEF EmptyConfig, Config

LEMMA AddSnippetTyped ==
  ASSUME NEW c \in Config, NEW f, NEW content
  PROVE  AddSnippet(c, f, content) \in Config
  BY DEF AddSnippet, Config

LEMMA AddFrontTyped ==
  ASSUME NEW c \in Config, NEW r \in Request
  PROVE  AddFront(c, r) \in Config
  BY DEF AddFront, Config

LEMMA AcceptedIsConfig ==
  ASSUME NEW c, NEW up, Accepts(c, up)
  PROVE  c \in Config
  BY DEF Accepts

--------------------------------------------------------------------------------
(* Type correctness *)

\* HAProxy is only started while attempts are left, so that the failure of the
\* start cannot count past Attempts: TypeOK is not inductive without it.
LaunchInBound == \A w \in Worker : At(w, "launch") => attempt[w] < Attempts

TypeInv == TypeOK /\ LaunchInBound

\* The two ways a call returns touch the program counter, the mode and the
\* answer of the worker, and never lead to a start of HAProxy.
LEMMA ExecuteReturnsTyped ==
  ASSUME TypeInv, NEW w \in Worker, NEW e \in {"ok", "error"}, ExecuteReturns(w, e)
  PROVE  /\ pc' \in [Worker -> Labels] /\ mode' \in [Worker -> Modes]
         /\ result' \in [Worker -> Results]
         /\ \A v \in Worker : pc'[v] = "launch" => pc[v] = "launch"
  BY DEF TypeInv, TypeOK, ExecuteReturns, Reply, Goto, Labels, Results

LEMMA ReloadReturnsTyped ==
  ASSUME TypeInv, NEW w \in Worker, NEW e \in {"ok", "error"}, ReloadReturns(w, e)
  PROVE  /\ pc' \in [Worker -> Labels] /\ mode' \in [Worker -> Modes]
         /\ result' \in [Worker -> Results]
         /\ \A v \in Worker : pc'[v] = "launch" => pc[v] = "launch"
<1>1. CASE mode[w] = "apply" /\ e = "error"
  BY <1>1 DEF ReloadReturns, TypeInv, TypeOK, Goto, Labels, Modes
<1>2. CASE ~(mode[w] = "apply" /\ e = "error")
  <2>1. ExecuteReturns(w, IF mode[w] = "rollback" THEN "error" ELSE e)
    BY <1>2 DEF ReloadReturns
  <2>2. QED  BY <2>1, ExecuteReturnsTyped
<1>3. QED  BY <1>1, <1>2

LEMMA TypeInit == Init => TypeInv
  BY EmptyConfigTyped, PipelineAssumption
  DEF Init, TypeInv, TypeOK, LaunchInBound, At, NoServices, NoFiles, Every, Entry, Content,
      CfgFile, Labels, AllKinds, Modes, Results, Bounds

LEMMA SpendTyped ==
  ASSUME TypeInv, NEW b \in Bounds, NEW max, Spend(b, max)
  PROVE  budget' \in [Bounds -> Nat]
  BY DEF TypeInv, TypeOK, Spend

LEMMA TypeArrive ==
  ASSUME TypeInv, NEW w \in Worker, Arrive(w)
  PROVE  TypeInv'
<1>1. ASSUME NEW k, NEW m \in Modes, NEW r \in Entry, NEW b \in SUBSET Request,
             NEW l \in Labels \ {"launch"}, Start(w, k, m, r, b, l)
      PROVE  TypeInv'
  <2>1. k \in AllKinds
    BY <1>1, PipelineAssumption DEF Start
  <2>2. budget' \in [Bounds -> Nat]
    BY <1>1, SpendTyped DEF Start, Bounds
  <2>3. TypeOK'
    BY <1>1, <2>1, <2>2
    DEF Start, TypeInv, TypeOK, Goto, shared, mutexes, scan
  <2>4. LaunchInBound'
    BY <1>1 DEF Start, TypeInv, TypeOK, LaunchInBound, At, Goto
  <2>5. QED  BY <2>3, <2>4 DEF TypeInv
<1>2. CASE \E r \in Request : ReconfigureRequest(w, r) \/ RemoveRequest(w, r)
  BY <1>1, <1>2 DEF ReconfigureRequest, RemoveRequest, Modes, Labels, Entry
<1>3. CASE \E k \in Kinds : ReloadRequest(w, k)
  BY <1>1, <1>3 DEF ReloadRequest, Modes, Labels, Entry
<1>4. CASE \E b \in SUBSET Request : FetchAnswer(w, b)
  BY <1>1, <1>4 DEF FetchAnswer, Modes, Labels, Entry
<1>5. QED  BY <1>2, <1>3, <1>4 DEF Arrive

LEMMA TypeReconfigure ==
  ASSUME TypeInv, NEW w \in Worker,
         \/ Pick(w) \/ Begin(w) \/ AddLock(w) \/ TemplateUnreadable(w) \/ WriteLost(w)
         \/ OpenFe(w) \/ FillFe(w) \/ OpenBe(w) \/ FillBe(w) \/ AddService(w)
  PROVE  TypeInv'
<1> USE DEF TypeInv
<1>1. ASSUME NEW l, NEW f, NEW content \in Content, NEW next \in Labels \ {"launch"},
             SetFile(w, l, f, content, next)
      PROVE  TypeInv'
  <2>1. TypeOK'
    BY <1>1 DEF SetFile, TypeOK, Goto, mutexes, task, scan, ghosts
  <2>2. LaunchInBound'
    BY <1>1 DEF SetFile, TypeOK, LaunchInBound, At, Goto
  <2>3. QED  BY <2>1, <2>2
<1>2. CASE Pick(w)
  BY <1>2 DEF Pick, TypeOK, LaunchInBound, At, Goto, shared, mutexes, scan, ghosts,
              Labels, Modes, Entry
<1>3. CASE Begin(w)
  <2>1. CASE \E e \in {"ok", "error"} : ExecuteReturns(w, e)
    BY <1>3, <2>1, ExecuteReturnsTyped
    DEF Begin, TypeOK, LaunchInBound, At, shared, mutexes, task, scan, ghosts
  <2>2. CASE ~\E e \in {"ok", "error"} : ExecuteReturns(w, e)
    BY <1>3, <2>2
    DEF Begin, TypeOK, LaunchInBound, At, Goto, shared, mutexes, task, scan, ghosts,
        Labels, Modes
  <2>3. QED  BY <2>1, <2>2
<1>4. CASE AddLock(w)
  BY <1>4 DEF AddLock, TypeOK, LaunchInBound, At, Goto, shared, task, scan, ghosts, Labels
<1>5. CASE TemplateUnreadable(w)
  <2>1. budget' \in [Bounds -> Nat]
    BY <1>5, SpendTyped DEF TemplateUnreadable, Bounds
  <2>2. QED
    BY <1>5, <2>1, ExecuteReturnsTyped
    DEF TemplateUnreadable, TypeOK, LaunchInBound, At, shared, task, scan
<1>6. CASE OpenFe(w)
  BY <1>1, <1>6 DEF OpenFe, Content, Labels
<1>7. CASE FillFe(w)
  BY <1>1, <1>7 DEF FillFe, FeText, TypeOK, Entry, Content, Labels
<1>8. CASE OpenBe(w)
  BY <1>1, <1>8 DEF OpenBe, Content, Labels
<1>9. CASE FillBe(w)
  BY <1>1, <1>9 DEF FillBe, TypeOK, Entry, Content, Labels
<1>10. CASE AddService(w)
  BY <1>10 DEF AddService, TypeOK, LaunchInBound, At, Goto, task, scan, ghosts, Labels
<1>11. CASE WriteLost(w)
  <2>1. budget' \in [Bounds -> Nat]
    BY <1>11, SpendTyped DEF WriteLost, Bounds
  <2>2. QED
    BY <1>11, <2>1 DEF WriteLost, TypeOK, LaunchInBound, At, Goto, shared, mutexes, task, scan, Labels
<1>12. QED  BY <1>2, <1>3, <1>4, <1>5, <1>6, <1>7, <1>8, <1>9, <1>10, <1>11

LEMMA TypeRemove ==
  ASSUME TypeInv, NEW w \in Worker,
         \/ RmLock(w) \/ NothingToRemove(w) \/ RemoveService(w) \/ RemoveFe(w) \/ RemoveBe(w)
         \/ RemoveLost(w)
  PROVE  TypeInv'
<1> USE DEF TypeInv
<1>1. CASE RmLock(w)
  BY <1>1 DEF RmLock, TypeOK, LaunchInBound, At, Goto, shared, task, scan, ghosts, Labels
<1>2. CASE NothingToRemove(w)
  BY <1>2, ExecuteReturnsTyped
  DEF NothingToRemove, TypeOK, LaunchInBound, At, shared, task, scan, ghosts
<1>3. CASE RemoveService(w)
  BY <1>3 DEF RemoveService, TypeOK, LaunchInBound, At, Goto, mutexes, task, scan, ghosts,
              Labels, Entry
<1>4. CASE RemoveFe(w)
  BY <1>4 DEF RemoveFe, SetFile, TypeOK, LaunchInBound, At, Goto, mutexes, task, scan, ghosts,
              Labels, Content
<1>5. CASE RemoveBe(w)
  BY <1>5 DEF RemoveBe, TypeOK, LaunchInBound, At, Goto, task, scan, ghosts, Labels, Content
<1>6. CASE RemoveLost(w)
  <2>1. budget' \in [Bounds -> Nat]
    BY <1>6, SpendTyped DEF RemoveLost, Bounds
  <2>2. QED
    BY <1>6, <2>1 DEF RemoveLost, TypeOK, LaunchInBound, At, Goto, shared, task, scan, Labels
<1>7. QED  BY <1>1, <1>2, <1>3, <1>4, <1>5, <1>6

LEMMA CreateReturnsErrorTyped ==
  ASSUME TypeInv, NEW w \in Worker, CreateReturnsError(w)
  PROVE  /\ pc' \in [Worker -> Labels] /\ mode' \in [Worker -> Modes]
         /\ result' \in [Worker -> Results]
         /\ unread' \in [Worker -> SUBSET DirFile] /\ unvisited' \in [Worker -> SUBSET Service]
         /\ draft' \in [Worker -> Config]
         /\ \A v \in Worker : pc'[v] = "launch" => pc[v] = "launch"
<1> USE DEF TypeInv, TypeOK
<1>1. /\ unread' \in [Worker -> SUBSET DirFile] /\ unvisited' \in [Worker -> SUBSET Service]
      /\ draft' \in [Worker -> Config]
  BY EmptyConfigTyped DEF CreateReturnsError
<1>2. CASE kind[w] = "cert"
  BY <1>1, <1>2 DEF CreateReturnsError, Goto, Labels
<1>3. CASE kind[w] # "cert"
  <2>1. ReloadReturns(w, "error")
    BY <1>3 DEF CreateReturnsError
  <2>2. QED  BY <1>1, <2>1, ReloadReturnsTyped
<1>4. QED  BY <1>2, <1>3

LEMMA TypeCreate ==
  ASSUME TypeInv, NEW w \in Worker,
         \/ List(w) \/ Read(w) \/ ReadFails(w) \/ Iterate(w) \/ OpenCfg(w) \/ WriteCfg(w)
         \/ CreateFails(w)
  PROVE  TypeInv'
<1> USE DEF TypeInv
<1>1. CASE List(w)
  BY <1>1, EmptyConfigTyped
  DEF List, TypeOK, LaunchInBound, At, Goto, shared, mutexes, task, ghosts, Labels
<1>2. CASE Read(w)
  <2>1. PICK f \in unread[w] :
           /\ unread' = [unread EXCEPT ![w] = @ \ {f}]
           /\ draft' = [draft EXCEPT ![w] = AddSnippet(@, f, dir[f])]
           /\ Goto(w, IF unread[w] = {f} THEN "iterate" ELSE "read")
    BY <1>2 DEF Read
  <2>2. draft' \in [Worker -> Config]
    <3>1. AddSnippet(draft[w], f, dir[f]) \in Config
      BY AddSnippetTyped DEF TypeOK
    <3>2. QED  BY <2>1, <3>1 DEF TypeOK
  <2>3. QED
    BY <1>2, <2>1, <2>2
    DEF Read, TypeOK, LaunchInBound, At, Goto, shared, mutexes, task, ghosts, Labels
<1>3. CASE ReadFails(w)
  BY <1>3, CreateReturnsErrorTyped
  DEF ReadFails, TypeOK, LaunchInBound, At, shared, mutexes, task, ghosts
<1>4. CASE Iterate(w)
  <2>1. PICK s \in unvisited[w] :
           /\ unvisited' = [unvisited EXCEPT ![w] = @ \ {s}]
           /\ draft' = IF services[s] = None THEN draft
                       ELSE [draft EXCEPT ![w] = AddFront(@, services[s])]
           /\ Goto(w, IF unvisited[w] = {s} THEN "openCfg" ELSE "iterate")
    BY <1>4 DEF Iterate
  <2>2. draft' \in [Worker -> Config]
    <3>1. services[s] # None => AddFront(draft[w], services[s]) \in Config
      BY AddFrontTyped DEF TypeOK, Entry
    <3>2. QED  BY <2>1, <3>1 DEF TypeOK
  <2>3. QED
    BY <1>4, <2>1, <2>2
    DEF Iterate, TypeOK, LaunchInBound, At, Goto, shared, mutexes, task, ghosts, Labels
<1>5. CASE OpenCfg(w)
  BY <1>5 DEF OpenCfg, TypeOK, LaunchInBound, At, Goto, mutexes, task, scan, ghosts,
              Labels, CfgFile
<1>6. CASE WriteCfg(w)
  BY <1>6, EmptyConfigTyped
  DEF WriteCfg, TypeOK, LaunchInBound, At, Goto, mutexes, task, ghosts, Labels, CfgFile
<1>7. CASE CreateFails(w)
  <2>1. budget' \in [Bounds -> Nat]
    BY <1>7, SpendTyped DEF CreateFails, Bounds
  <2>2. cfg' \in CfgFile
    BY <1>7 DEF CreateFails, TypeOK, CfgFile
  <2>3. QED
    BY <1>7, <2>1, <2>2, CreateReturnsErrorTyped
    DEF CreateFails, TypeOK, LaunchInBound, At, mutexes, task
<1>8. QED  BY <1>1, <1>2, <1>3, <1>4, <1>5, <1>6, <1>7

LEMMA TypeReload ==
  ASSUME TypeInv, NEW w \in Worker,
         \/ RlLock(w) \/ Validate(w) \/ GiveUp(w) \/ Launch(w) \/ PidUnreadable(w)
         \/ SocketPanic(w) \/ WaitPid(w) \/ Answer(w)
  PROVE  TypeInv'
<1> USE PipelineAssumption DEF TypeInv
<1>1. CASE RlLock(w)
  BY <1>1 DEF RlLock, TypeOK, LaunchInBound, At, Goto, shared, task, scan, ghosts, Labels
<1>2. CASE Validate(w)
  BY <1>2 DEF Validate, TypeOK, LaunchInBound, At, Goto, shared, mutexes, task, scan, ghosts,
              Labels
<1>3. CASE GiveUp(w)
  BY <1>3, ReloadReturnsTyped
  DEF GiveUp, TypeOK, LaunchInBound, At, shared, task, scan, ghosts
<1>4. CASE Launch(w)
  <2>1. running' \in Config \cup {None}
    BY <1>4, AcceptedIsConfig DEF Launch, TypeOK
  <2>2. attempt' \in [Worker -> 0..Attempts]
    <3>1. attempt[w] + 1 \in 0..Attempts
      BY <1>4 DEF Launch, TypeOK, LaunchInBound, At
    <3>2. attempt' = attempt \/ attempt' = [attempt EXCEPT ![w] = attempt[w] + 1]
      BY <1>4 DEF Launch
    <3>3. QED  BY <3>1, <3>2 DEF TypeOK
  <2>3. LaunchInBound'
    BY <1>4 DEF Launch, TypeOK, LaunchInBound, At, Goto
  <2>4. TypeOK'
    BY <1>4, <2>1, <2>2
    DEF Launch, TypeOK, Goto, mutexes, task, scan, ghosts, Labels
  <2>5. QED  BY <2>3, <2>4
<1>5. CASE PidUnreadable(w)
  <2>1. budget' \in [Bounds -> Nat]
    BY <1>5, SpendTyped DEF PidUnreadable, Bounds
  <2>2. QED
    BY <1>5, <2>1, ReloadReturnsTyped
    DEF PidUnreadable, TypeOK, LaunchInBound, At, shared, task, scan
<1>6. CASE SocketPanic(w)
  BY <1>6 DEF SocketPanic, TypeOK, LaunchInBound, At, Goto, shared, task, scan, ghosts,
              Labels, Results
<1>7. CASE WaitPid(w)
  BY <1>7, ReloadReturnsTyped
  DEF WaitPid, TypeOK, LaunchInBound, At, shared, task, scan, ghosts
<1>8. CASE Answer(w)
  BY <1>8 DEF Answer, TypeOK, LaunchInBound, At, Goto, shared, mutexes, scan, ghosts,
              Labels, Modes, Results, Entry
<1>9. QED  BY <1>1, <1>2, <1>3, <1>4, <1>5, <1>6, <1>7, <1>8

LEMMA TypeRestart ==
  ASSUME TypeInv, Restart, budget' \in [Bounds -> Nat]
  PROVE  TypeInv'
<1>1. running' \in Config \cup {None}
  BY AcceptedIsConfig DEF Restart
<1>2. QED
  BY <1>1, EmptyConfigTyped, PipelineAssumption
  DEF Restart, TypeInv, TypeOK, LaunchInBound, At, NoServices, NoFiles, Every, Entry, Content,
      CfgFile, Labels, AllKinds, Modes, Results

LEMMA TypeEnvironment ==
  ASSUME TypeInv,
         WritePid \/ HaproxyDies \/ Crash \/ (\E s \in Service : Flip(s))
         \/ (\E w \in Worker : FetchPanic(w))
  PROVE  TypeInv'
<1> USE DEF TypeInv
<1>1. CASE WritePid
  BY <1>1 DEF WritePid, TypeOK, LaunchInBound, At, mutexes, task, scan, ghosts
<1>2. CASE HaproxyDies
  <2>1. budget' \in [Bounds -> Nat]
    BY <1>2, SpendTyped DEF HaproxyDies, Bounds
  <2>2. QED  BY <1>2, <2>1 DEF HaproxyDies, TypeOK, LaunchInBound, At, mutexes, task, scan
<1>3. CASE Crash
  BY <1>3, SpendTyped, TypeRestart DEF Crash, Bounds
<1>4. CASE \E s \in Service : Flip(s)
  <2>1. PICK s \in Service : Flip(s)
    BY <1>4
  <2>2. budget' \in [Bounds -> Nat]
    BY <2>1, SpendTyped DEF Flip, Bounds
  <2>3. QED  BY <2>1, <2>2 DEF Flip, TypeOK, LaunchInBound, At, mutexes, task, scan
<1>5. CASE \E w \in Worker : FetchPanic(w)
  BY <1>5, TypeRestart DEF FetchPanic, TypeOK
<1>6. QED  BY <1>1, <1>2, <1>3, <1>4, <1>5

LEMMA TypeStep == TypeInv /\ [Next]_vars => TypeInv'
<1> SUFFICES ASSUME TypeInv, [Next]_vars PROVE TypeInv'
  OBVIOUS
<1>1. CASE UNCHANGED vars
  BY <1>1 DEF vars, shared, mutexes, task, scan, ghosts, TypeInv, TypeOK, LaunchInBound, At
<1>2. CASE \E w \in Worker : Arrive(w)
  BY <1>2, TypeArrive
<1>3. CASE \E w \in Worker : Lock(w) \/ Proceed(w) \/ Fault(w)
  BY <1>3, TypeReconfigure, TypeRemove, TypeCreate, TypeReload, TypeEnvironment
  DEF Lock, Proceed, Fault
<1>4. CASE WritePid \/ HaproxyDies \/ Crash \/ \E s \in Service : Flip(s)
  BY <1>4, TypeEnvironment
<1>5. QED  BY <1>1, <1>2, <1>3, <1>4 DEF Next

\* Every variable keeps its type in every behaviour; in particular the loop of
\* Reload never counts beyond RECONFIGURE_ATTEMPTS, whatever its value.
THEOREM TypeCorrect == Spec => []TypeOK
<1>1. TypeInv => TypeOK
  BY DEF TypeInv
<1>2. QED  BY <1>1, TypeInit, TypeStep, PTL DEF Spec

--------------------------------------------------------------------------------
(* The mutex and the request at hand *)

\* The stretch of code under configProxyMu.
ConfigSection == {"openFe", "fillFe", "openBe", "fillBe", "addService",
                  "rmService", "rmFe", "rmBe"}

\* The stretch of code in reload.Execute.
ReloadSection == {"list", "read", "iterate", "openCfg", "writeCfg", "rlLock",
                  "validate", "launch", "waitPid"}

\* configMu is held by the worker that is between its lock and its unlock, and
\* by nobody else.
LockInv == \A w \in Worker : configMu = w <=> pc[w] \in ConfigSection

\* A worker that is about to use its request, or may roll it back, has one.
ReqNamed ==
    \A w \in Worker :
        \/ pc[w] \in ConfigSection \cup {"begin", "addLock", "rmLock"}
        \/ mode[w] = "apply" /\ pc[w] \in ReloadSection
        => req[w] \in Request

ControlInv == TypeInv /\ LockInv /\ ReqNamed

\* Where a call may return to.
LEMMA ReturnsShape ==
  ASSUME TypeInv, NEW w \in Worker, NEW e,
         ExecuteReturns(w, e) \/ ReloadReturns(w, e)
  PROVE  \/ /\ mode' = mode
            /\ pc' = [pc EXCEPT ![w] = "pick"] \/ pc' = [pc EXCEPT ![w] = "done"]
         \/ /\ mode[w] = "apply"
            /\ mode' = [mode EXCEPT ![w] = "rollback"]
            /\ pc' = [pc EXCEPT ![w] = "rmLock"]
  BY DEF ExecuteReturns, ReloadReturns, Goto

LEMMA CreateReturnsShape ==
  ASSUME TypeInv, NEW w \in Worker, CreateReturnsError(w)
  PROVE  \/ /\ mode' = mode
            /\ \E l \in {"pick", "done", "rlLock"} : pc' = [pc EXCEPT ![w] = l]
         \/ /\ mode[w] = "apply"
            /\ mode' = [mode EXCEPT ![w] = "rollback"]
            /\ pc' = [pc EXCEPT ![w] = "rmLock"]
<1>1. CASE kind[w] = "cert"
  BY <1>1 DEF CreateReturnsError, Goto
<1>2. CASE kind[w] # "cert"
  <2>1. ReloadReturns(w, "error")
    BY <1>2 DEF CreateReturnsError
  <2>2. QED  BY <2>1, ReturnsShape
<1>3. QED  BY <1>1, <1>2

LEMMA ControlInit == Init => ControlInv
  BY TypeInit, PipelineAssumption
  DEF Init, ControlInv, LockInv, ReqNamed, Every, ConfigSection, ReloadSection

LEMMA ControlStep == ControlInv /\ [Next]_vars => ControlInv'
<1> SUFFICES ASSUME ControlInv, [Next]_vars PROVE LockInv' /\ ReqNamed'
  BY TypeStep DEF ControlInv
<1> USE PipelineAssumption DEF ControlInv, TypeInv, TypeOK, LockInv, ReqNamed,
                               ConfigSection, ReloadSection, At, Goto
<1>1. CASE UNCHANGED vars
  BY <1>1 DEF vars, shared, mutexes, task, scan, ghosts
<1>2. ASSUME NEW w \in Worker, Arrive(w)
      PROVE  LockInv' /\ ReqNamed'
  BY <1>2 DEF Arrive, ReconfigureRequest, RemoveRequest, ReloadRequest, FetchAnswer, Start,
              mutexes
<1>3. ASSUME NEW w \in Worker, AddLock(w) \/ RmLock(w) \/ RlLock(w)
      PROVE  LockInv' /\ ReqNamed'
  BY <1>3 DEF AddLock, RmLock, RlLock, task
<1>4. ASSUME NEW w \in Worker,
             \/ OpenFe(w) \/ FillFe(w) \/ OpenBe(w) \/ FillBe(w) \/ RemoveFe(w)
             \/ RemoveService(w) \/ WriteLost(w)
      PROVE  LockInv' /\ ReqNamed'
  BY <1>4 DEF WriteLost, OpenFe, FillFe, OpenBe, FillBe, RemoveFe, SetFile, RemoveService, mutexes, task
<1>5. ASSUME NEW w \in Worker, AddService(w) \/ RemoveBe(w) \/ RemoveLost(w)
      PROVE  LockInv' /\ ReqNamed'
  BY <1>5 DEF AddService, RemoveBe, RemoveLost, task
<1>6. ASSUME NEW w \in Worker, NothingToRemove(w) \/ TemplateUnreadable(w)
      PROVE  LockInv' /\ ReqNamed'
  BY <1>6, ReturnsShape DEF NothingToRemove, TemplateUnreadable, task
<1>7. ASSUME NEW w \in Worker, Pick(w)
      PROVE  LockInv' /\ ReqNamed'
  BY <1>7 DEF Pick, mutexes
<1>8. ASSUME NEW w \in Worker, Begin(w)
      PROVE  LockInv' /\ ReqNamed'
  <2>1. CASE \E e \in {"ok", "error"} : ExecuteReturns(w, e)
    BY <1>8, <2>1, ReturnsShape DEF Begin, mutexes, task
  <2>2. CASE ~\E e \in {"ok", "error"} : ExecuteReturns(w, e)
    BY <1>8, <2>2 DEF Begin, mutexes, task
  <2>3. QED  BY <2>1, <2>2
<1>9. ASSUME NEW w \in Worker,
             List(w) \/ Read(w) \/ Iterate(w) \/ OpenCfg(w) \/ WriteCfg(w)
      PROVE  LockInv' /\ ReqNamed'
  BY <1>9 DEF List, Read, Iterate, OpenCfg, WriteCfg, mutexes, task
<1>10. ASSUME NEW w \in Worker, ReadFails(w) \/ CreateFails(w)
       PROVE  LockInv' /\ ReqNamed'
  BY <1>10, CreateReturnsShape DEF ReadFails, CreateFails, mutexes, task
<1>11. ASSUME NEW w \in Worker, Validate(w) \/ Launch(w) \/ SocketPanic(w) \/ Answer(w)
       PROVE  LockInv' /\ ReqNamed'
  BY <1>11 DEF Validate, Launch, SocketPanic, Answer, mutexes, task
<1>12. ASSUME NEW w \in Worker, GiveUp(w) \/ PidUnreadable(w) \/ WaitPid(w)
       PROVE  LockInv' /\ ReqNamed'
  BY <1>12, ReturnsShape DEF GiveUp, PidUnreadable, WaitPid, task
<1>13. ASSUME Restart
       PROVE  LockInv' /\ ReqNamed'
  BY <1>13 DEF Restart, Every
<1>14. ASSUME WritePid \/ HaproxyDies \/ \E s \in Service : Flip(s)
       PROVE  LockInv' /\ ReqNamed'
  BY <1>14 DEF WritePid, HaproxyDies, Flip, mutexes, task
<1>15. QED
  BY <1>1, <1>2, <1>3, <1>4, <1>5, <1>6, <1>7, <1>8, <1>9, <1>10, <1>11, <1>12, <1>13, <1>14
  DEF Next, Lock, Proceed, Fault, Crash, FetchPanic

================================================================================
