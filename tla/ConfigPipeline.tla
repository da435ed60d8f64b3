---------------------------- MODULE ConfigPipeline ----------------------------
(***************************************************************************)
(* The path every change of the proxy takes: a request changes the map of  *)
(* services and the snippet files, haproxy.cfg is generated from both, and *)
(* HAProxy is made to load it.                                             *)
(*                                                                         *)
(* A worker is a goroutine: one HTTP request, or one pass of the loop that *)
(* fetches the services from Swarm Listener.  Each worker executes the     *)
(* code one shared access at a time; workers interleave freely except      *)
(* where the code takes a mutex.                                           *)
(*                                                                         *)
(*   configMu (actions.configProxyMu)  the files of a service + the map    *)
(*   reloadMu (proxy.reloadMu)         validate, start, wait for the pid   *)
(*                                                                         *)
(* Nothing protects what lies between: reading the directory, the files    *)
(* and the map, and writing haproxy.cfg.                                   *)
(***************************************************************************)
EXTENDS HaproxyConfig

CONSTANTS
    Worker,           \* goroutines
    Kinds,            \* the kinds of work that arrive, a subset of AllKinds
    Attempts,         \* RECONFIGURE_ATTEMPTS
    ValidateAddress,  \* SKIP_ADDRESS_VALIDATION is "false"
    KeepFiles,        \* a restart finds the files of the previous life
    MaxOps, MaxFlips, MaxFaults, MaxLost, MaxCrashes   \* bounds of the budget below

AllKinds == {"reconfigure", "remove", "recreate", "reload", "cert", "fetch"}

ASSUME PipelineAssumption ==
    /\ Kinds \subseteq AllKinds
    /\ None \notin Worker
    /\ Attempts \in Nat
    /\ ValidateAddress \in BOOLEAN /\ KeepFiles \in BOOLEAN
    /\ {MaxOps, MaxFlips, MaxFaults, MaxLost, MaxCrashes} \subseteq Nat

VARIABLES
    services,    \* dataInstance.Services: the map from serviceName to Service
    dir,         \* the snippet files in the templates directory
    cfg,         \* haproxy.cfg
    running,     \* what the HAProxy process loaded, None when it is not running
    pidFresh,    \* the pid file holds the pid of the latest HAProxy process
    resolvable,  \* the services the DNS of the network knows
    configMu, reloadMu,   \* the worker that holds the mutex, or None
    pc,          \* where the worker is
    kind,        \* what it was asked for
    mode,        \* which Execute it is in: see the modes below
    req,         \* the request at hand
    batch,       \* fetch: the requests of the listener's answer still to apply
    unread,      \* getConfigs: the listed files not read yet
    unvisited,   \* getConfigData: the services the map iteration has yet to visit
    draft,       \* the content of haproxy.cfg read so far
    attempt,     \* the loop counter of Reload
    result,      \* the answer
    alone,       \* ghost: nobody else was at work since this worker started
    budget       \* ghost: how much of each bound is used up

shared  == <<services, dir, cfg, running, pidFresh, resolvable>>
mutexes == <<configMu, reloadMu>>
task    == <<kind, req, batch>>
scan    == <<unread, unvisited, draft>>
ghosts  == <<alone, budget>>
vars    == <<shared, mutexes, pc, task, mode, scan, attempt, result, ghosts>>

\* apply: Reconfigure.Execute; remove: Remove.Execute on request;
\* rollback: the Remove.Execute of a failed reconfigure; refresh: a bare reload.
Modes == {"apply", "remove", "rollback", "refresh"}

Labels == {"idle", "pick", "begin", "addLock", "openFe", "fillFe", "openBe", "fillBe",
           "addService", "rmLock", "rmService", "rmFe", "rmBe", "list", "read", "iterate",
           "openCfg", "writeCfg", "rlLock", "validate", "launch", "waitPid", "done"}

Results == {"ok", "error", "aborted", None}

Bounds == {"ops", "flips", "faults", "lost", "crashes"}

TypeOK ==
    /\ services \in [Service -> Entry]
    /\ dir \in [DirFile -> Content]
    /\ cfg \in CfgFile
    /\ running \in Config \cup {None}
    /\ pidFresh \in BOOLEAN
    /\ resolvable \subseteq Service
    /\ configMu \in Worker \cup {None}
    /\ reloadMu \in Worker \cup {None}
    /\ pc \in [Worker -> Labels]
    /\ kind \in [Worker -> AllKinds \cup {None}]
    /\ mode \in [Worker -> Modes]
    /\ req \in [Worker -> Entry]
    /\ batch \in [Worker -> SUBSET Request]
    /\ unread \in [Worker -> SUBSET DirFile]
    /\ unvisited \in [Worker -> SUBSET Service]
    /\ draft \in [Worker -> Config]
    /\ attempt \in [Worker -> 0..Attempts]
    /\ result \in [Worker -> Results]
    /\ alone \in [Worker -> BOOLEAN]
    /\ budget \in [Bounds -> Nat]

NoServices == [s \in Service |-> None]
NoFiles    == [f \in DirFile |-> None]
Every(x)   == [w \in Worker |-> x]

\* The container comes from the image: HAProxy runs the dummy configuration.
Init ==
    /\ resolvable \in SUBSET Service
    /\ services = NoServices /\ dir = NoFiles
    /\ cfg = EmptyConfig /\ running = EmptyConfig /\ pidFresh = TRUE
    /\ configMu = None /\ reloadMu = None
    /\ pc = Every("idle") /\ kind = Every(None) /\ mode = Every("refresh")
    /\ req = Every(None) /\ batch = Every({})
    /\ unread = Every({}) /\ unvisited = Every({}) /\ draft = Every(EmptyConfig)
    /\ attempt = Every(0) /\ result = Every(None) /\ alone = Every(FALSE)
    /\ budget = [b \in Bounds |-> 0]

At(w, l)   == pc[w] = l
Goto(w, l) == pc' = [pc EXCEPT ![w] = l]

Spend(b, max) == budget[b] < max /\ budget' = [budget EXCEPT ![b] = @ + 1]

--------------------------------------------------------------------------------
(* Work arrives. *)

Start(w, k, m, r, b, l) ==
    /\ At(w, "idle")
    /\ k \in Kinds
    /\ Spend("ops", MaxOps)
    /\ Goto(w, l)
    /\ kind' = [kind EXCEPT ![w] = k]
    /\ mode' = [mode EXCEPT ![w] = m]
    /\ req' = [req EXCEPT ![w] = r]
    /\ batch' = [batch EXCEPT ![w] = b]
    /\ alone' = [v \in Worker |-> v = w /\ \A u \in Worker \ {w} : At(u, "idle")]
    /\ UNCHANGED <<shared, mutexes, scan, attempt, result>>

\* ReconfigureHandler, past IsValidReconf.
ReconfigureRequest(w, r) == Start(w, "reconfigure", "apply", r, {}, "begin")

\* RemoveHandler: serviceName and aclName of r.
RemoveRequest(w, r) == Start(w, "remove", "remove", r, {}, "rmLock")

\* ReloadHandler with and without recreate; Put of a certificate.
ReloadRequest(w, k) ==
    /\ k \in {"recreate", "reload", "cert"}
    /\ Start(w, k, "refresh", None, {}, IF k = "reload" THEN "rlLock" ELSE "list")

\* ReloadConfig, with the listener's answer: at most one request per service.
FetchAnswer(w, b) ==
    /\ b # {}
    /\ \A r1, r2 \in b : r1.svc = r2.svc => r1 = r2
    /\ Start(w, "fetch", "apply", None, b, "pick")

\* ReloadConfig's loop: the next service, or the one reload at the end.
Pick(w) ==
    /\ At(w, "pick")
    /\ \/ \E r \in batch[w] :
             /\ batch' = [batch EXCEPT ![w] = @ \ {r}]
             /\ req' = [req EXCEPT ![w] = r]
             /\ mode' = [mode EXCEPT ![w] = "apply"]
             /\ Goto(w, "begin")
       \/ /\ batch[w] = {}
          /\ mode' = [mode EXCEPT ![w] = "refresh"]
          /\ Goto(w, "list")
          /\ UNCHANGED <<req, batch>>
    /\ UNCHANGED <<shared, mutexes, kind, scan, attempt, result, ghosts>>

\* What the caller of Execute makes of its error: RemoveHandler, Put and
\* ReloadConfig drop it, the other handlers report it.
Reply(w, e) == IF kind[w] \in {"remove", "cert", "fetch"} THEN "ok" ELSE e

ExecuteReturns(w, e) ==
    IF kind[w] = "fetch" /\ mode[w] # "refresh"
    THEN Goto(w, "pick") /\ UNCHANGED <<mode, result>>
    ELSE /\ Goto(w, "done")
         /\ result' = [result EXCEPT ![w] = Reply(w, e)]
         /\ UNCHANGED mode

\* Mutant: a failed reload is reported and nothing is rolled back.
ReloadReturnsNoRollback(w, e) == ExecuteReturns(w, IF mode[w] = "rollback" THEN "error" ELSE e)

\* reload.Execute is back: a reconfigure that failed removes its own service,
\* and reports the first error whatever the removal does.
ReloadReturns(w, e) ==
    IF mode[w] = "apply" /\ e = "error"
    THEN /\ Goto(w, "rmLock")
         /\ mode' = [mode EXCEPT ![w] = "rollback"]
         /\ UNCHANGED result
    ELSE ExecuteReturns(w, IF mode[w] = "rollback" THEN "error" ELSE e)

Answer(w) ==
    /\ At(w, "done")
    /\ Goto(w, "idle")
    /\ kind' = [kind EXCEPT ![w] = None]
    /\ mode' = [mode EXCEPT ![w] = "refresh"]
    /\ req' = [req EXCEPT ![w] = None]
    /\ attempt' = [attempt EXCEPT ![w] = 0]
    /\ result' = [result EXCEPT ![w] = None]
    /\ UNCHANGED <<shared, mutexes, batch, scan, ghosts>>

--------------------------------------------------------------------------------
(* Reconfigure.Execute *)

\* The three ways out before anything is written: another proxy's service, an
\* address that does not resolve, a service without replicas.
Begin(w) ==
    /\ At(w, "begin")
    /\ LET r == req[w] IN
       \/ r.foreign /\ ExecuteReturns(w, "ok")
       \/ ~r.foreign /\ ValidateAddress /\ r.svc \notin resolvable /\ ExecuteReturns(w, "error")
       \/ /\ ~r.foreign /\ (ValidateAddress => r.svc \in resolvable)
          /\ IF r.active
             THEN Goto(w, "addLock") /\ UNCHANGED mode
             ELSE Goto(w, "rmLock") /\ mode' = [mode EXCEPT ![w] = "remove"]
          /\ UNCHANGED result
    /\ UNCHANGED <<shared, mutexes, task, scan, attempt, ghosts>>

\* Mutant: the mutex is not waited for.
AddLockBarging(w) ==
    /\ At(w, "addLock")
    /\ configMu' = w
    /\ Goto(w, "openFe")
    /\ UNCHANGED <<shared, reloadMu, task, mode, scan, attempt, result, ghosts>>

AddLock(w) ==
    /\ At(w, "addLock") /\ configMu = None
    /\ configMu' = w
    /\ Goto(w, "openFe")
    /\ UNCHANGED <<shared, reloadMu, task, mode, scan, attempt, result, ghosts>>

\* GetTemplates: a template file of the service cannot be read.
TemplateUnreadable(w) ==
    /\ At(w, "openFe") /\ HasTemplate(req[w])
    /\ Spend("faults", MaxFaults)
    /\ configMu' = None
    /\ ExecuteReturns(w, "error")
    /\ UNCHANGED <<shared, reloadMu, task, scan, attempt, alone>>

\* createConfigs: each file is truncated, then written.
SetFile(w, l, f, content, next) ==
    /\ At(w, l)
    /\ dir' = [dir EXCEPT ![f] = content]
    /\ Goto(w, next)
    /\ UNCHANGED <<services, cfg, running, pidFresh, resolvable,
                   mutexes, task, mode, scan, attempt, result, ghosts>>

\* Mutant: the backend is written to the path of the frontend file.
FillBeWrongPath(w) == SetFile(w, "fillBe", Fe(req[w]), req[w], "addService")

OpenFe(w) == SetFile(w, "openFe", Fe(req[w]), Blank, "fillFe")
FillFe(w) == SetFile(w, "fillFe", Fe(req[w]), FeText(req[w]), "openBe")
OpenBe(w) == SetFile(w, "openBe", Be(req[w]), Blank, "fillBe")
FillBe(w) == SetFile(w, "fillBe", Be(req[w]), req[w], "addService")

\* A snippet cannot be opened or written: createConfigs drops the error of
\* WriteFile and goes on.  A part of a text counts as none of it.
WriteLost(w) ==
    /\ Spend("lost", MaxLost)
    /\ \/ pc[w] \in {"openFe", "fillFe"} /\ Goto(w, "openBe")
       \/ pc[w] \in {"openBe", "fillBe"} /\ Goto(w, "addService")
    /\ UNCHANGED <<shared, mutexes, task, mode, scan, attempt, result, alone>>

\* Mutant: HAProxy is reloaded without recreating its configuration.
AddServiceNoRecreate(w) ==
    /\ At(w, "addService")
    /\ services' = IF HasTemplate(req[w]) THEN services
                   ELSE [services EXCEPT ![req[w].svc] = req[w]]
    /\ configMu' = None
    /\ Goto(w, IF kind[w] = "fetch" THEN "pick" ELSE "rlLock")
    /\ UNCHANGED <<dir, cfg, running, pidFresh, resolvable, reloadMu,
                   task, mode, scan, attempt, result, ghosts>>

\* The map is written last, and not at all for a service with a template.
\* A batch does not reload service by service.
AddService(w) ==
    /\ At(w, "addService")
    /\ services' = IF HasTemplate(req[w]) THEN services
                   ELSE [services EXCEPT ![req[w].svc] = req[w]]
    /\ configMu' = None
    /\ Goto(w, IF kind[w] = "fetch" THEN "pick" ELSE "list")
    /\ UNCHANGED <<dir, cfg, running, pidFresh, resolvable, reloadMu,
                   task, mode, scan, attempt, result, ghosts>>

--------------------------------------------------------------------------------
(* Remove.Execute *)

\* Mutant: the mutex is not waited for.
RmLockBarging(w) ==
    /\ At(w, "rmLock")
    /\ configMu' = w
    /\ Goto(w, "rmService")
    /\ UNCHANGED <<shared, reloadMu, task, mode, scan, attempt, result, ghosts>>

RmLock(w) ==
    /\ At(w, "rmLock") /\ configMu = None
    /\ configMu' = w
    /\ Goto(w, "rmService")
    /\ UNCHANGED <<shared, reloadMu, task, mode, scan, attempt, result, ghosts>>

\* A service the map does not hold: nothing is removed, nothing is reloaded.
NothingToRemove(w) ==
    /\ At(w, "rmService") /\ services[req[w].svc] = None
    /\ configMu' = None
    /\ ExecuteReturns(w, IF mode[w] = "rollback" THEN "error" ELSE "ok")
    /\ UNCHANGED <<shared, reloadMu, task, scan, attempt, ghosts>>

RemoveService(w) ==
    /\ At(w, "rmService") /\ services[req[w].svc] # None
    /\ services' = [services EXCEPT ![req[w].svc] = None]
    /\ Goto(w, "rmFe")
    /\ UNCHANGED <<dir, cfg, running, pidFresh, resolvable, mutexes,
                   task, mode, scan, attempt, result, ghosts>>

RemoveFe(w) == SetFile(w, "rmFe", Fe(req[w]), None, "rmBe")

\* Mutant: the frontend file is removed twice.
RemoveBeWrongPath(w) ==
    /\ At(w, "rmBe")
    /\ dir' = [dir EXCEPT ![Fe(req[w])] = None]
    /\ configMu' = None
    /\ Goto(w, "list")
    /\ UNCHANGED <<services, cfg, running, pidFresh, resolvable, reloadMu,
                   task, mode, scan, attempt, result, ghosts>>

\* Mutant: HAProxy is reloaded without recreating its configuration.
RemoveBeNoRecreate(w) ==
    /\ At(w, "rmBe")
    /\ dir' = [dir EXCEPT ![Be(req[w])] = None]
    /\ configMu' = None
    /\ Goto(w, "rlLock")
    /\ UNCHANGED <<services, cfg, running, pidFresh, resolvable, reloadMu,
                   task, mode, scan, attempt, result, ghosts>>

\* The last file, and the mutex is released.
RemoveBe(w) ==
    /\ At(w, "rmBe")
    /\ dir' = [dir EXCEPT ![Be(req[w])] = None]
    /\ configMu' = None
    /\ Goto(w, "list")
    /\ UNCHANGED <<services, cfg, running, pidFresh, resolvable, reloadMu,
                   task, mode, scan, attempt, result, ghosts>>

\* os.Remove fails on a file that is there: removeFiles drops the error.
RemoveLost(w) ==
    /\ Spend("lost", MaxLost)
    /\ \/ At(w, "rmFe") /\ Goto(w, "rmBe") /\ UNCHANGED configMu
       \/ At(w, "rmBe") /\ Goto(w, "list") /\ configMu' = None
    /\ UNCHANGED <<shared, reloadMu, task, mode, scan, attempt, result, alone>>

--------------------------------------------------------------------------------
(* CreateConfigFromTemplates, which takes no mutex *)

List(w) ==
    /\ At(w, "list")
    /\ LET listed == {f \in DirFile : dir[f] # None} IN
       /\ unread' = [unread EXCEPT ![w] = listed]
       /\ Goto(w, IF listed = {} THEN "iterate" ELSE "read")
    /\ unvisited' = [unvisited EXCEPT ![w] = Service]
    /\ draft' = [draft EXCEPT ![w] = EmptyConfig]
    /\ UNCHANGED <<shared, mutexes, task, mode, attempt, result, ghosts>>

NextFile(w, f) == f \in unread[w] /\ \A g \in unread[w] \ {f} : Precedes(f, g)

Read(w) ==
    /\ At(w, "read")
    /\ \E f \in unread[w] :
          /\ NextFile(w, f)
          /\ dir[f] # None
          /\ unread' = [unread EXCEPT ![w] = @ \ {f}]
          /\ draft' = [draft EXCEPT ![w] = AddSnippet(@, f, dir[f])]
          /\ Goto(w, IF unread[w] = {f} THEN "iterate" ELSE "read")
    /\ UNCHANGED <<shared, mutexes, task, mode, unvisited, attempt, result, ghosts>>

\* No configuration is written.  Put ignores that and reloads what there is.
CreateReturnsError(w) ==
    /\ IF kind[w] = "cert"
       THEN Goto(w, "rlLock") /\ UNCHANGED <<mode, result>>
       ELSE ReloadReturns(w, "error")
    /\ unread' = [unread EXCEPT ![w] = {}]
    /\ unvisited' = [unvisited EXCEPT ![w] = {}]
    /\ draft' = [draft EXCEPT ![w] = EmptyConfig]

\* A listed file is gone when its turn comes.
ReadFails(w) ==
    /\ At(w, "read")
    /\ \E f \in unread[w] : NextFile(w, f) /\ dir[f] = None
    /\ CreateReturnsError(w)
    /\ UNCHANGED <<shared, mutexes, task, attempt, ghosts>>

\* getConfigData ranges over the live map: any order, and an entry that comes
\* or goes while the loop runs is seen or missed.
Iterate(w) ==
    /\ At(w, "iterate")
    /\ \E s \in unvisited[w] :
          /\ unvisited' = [unvisited EXCEPT ![w] = @ \ {s}]
          /\ draft' = IF services[s] = None THEN draft
                      ELSE [draft EXCEPT ![w] = AddFront(@, services[s])]
          /\ Goto(w, IF unvisited[w] = {s} THEN "openCfg" ELSE "iterate")
    /\ UNCHANGED <<shared, mutexes, task, mode, unread, attempt, result, ghosts>>

OpenCfg(w) ==
    /\ At(w, "openCfg")
    /\ cfg' = Truncated
    /\ Goto(w, "writeCfg")
    /\ UNCHANGED <<services, dir, running, pidFresh, resolvable,
                   mutexes, task, mode, scan, attempt, result, ghosts>>

\* A second writer that truncated before the first one wrote overwrites the
\* beginning of the file; a longer first content leaves its tail behind.
WriteCfg(w) ==
    /\ At(w, "writeCfg")
    /\ cfg' \in {draft[w]} \cup (IF cfg \in {Truncated, draft[w]} THEN {} ELSE {Garbled})
    /\ draft' = [draft EXCEPT ![w] = EmptyConfig]
    /\ Goto(w, "rlLock")
    /\ UNCHANGED <<services, dir, running, pidFresh, resolvable,
                   mutexes, task, mode, unread, unvisited, attempt, result, ghosts>>

\* The directory cannot be listed, a file in it cannot be read, haproxy.cfg
\* cannot be opened, or not be written to its end.
CreateFails(w) ==
    /\ pc[w] \in {"list", "read", "openCfg", "writeCfg"}
    /\ Spend("faults", MaxFaults)
    /\ cfg' \in {cfg} \cup (IF At(w, "writeCfg") THEN {Garbled} ELSE {})
    /\ CreateReturnsError(w)
    /\ UNCHANGED <<services, dir, running, pidFresh, resolvable, mutexes, task, attempt, alone>>

--------------------------------------------------------------------------------
(* HaProxy.Reload *)

RlLock(w) ==
    /\ At(w, "rlLock") /\ reloadMu = None
    /\ reloadMu' = w
    /\ attempt' = [attempt EXCEPT ![w] = 0]
    /\ Goto(w, "validate")
    /\ UNCHANGED <<shared, configMu, task, mode, scan, result, ghosts>>

\* Mutant: one attempt too many.
ValidateOffByOne(w) ==
    /\ At(w, "validate") /\ attempt[w] <= Attempts
    /\ IF Accepts(cfg, resolvable)
       THEN Goto(w, "launch") /\ UNCHANGED attempt
       ELSE attempt' = [attempt EXCEPT ![w] = @ + 1] /\ UNCHANGED pc
    /\ UNCHANGED <<shared, mutexes, task, mode, scan, result, ghosts>>

\* haproxy -c on the file as it is now.
Validate(w) ==
    /\ At(w, "validate") /\ attempt[w] < Attempts
    /\ IF Accepts(cfg, resolvable)
       THEN Goto(w, "launch") /\ UNCHANGED attempt
       ELSE attempt' = [attempt EXCEPT ![w] = @ + 1] /\ UNCHANGED pc
    /\ UNCHANGED <<shared, mutexes, task, mode, scan, result, ghosts>>

\* Mutant: the error of the loop is shadowed, nil is returned.
GiveUpSilently(w) ==
    /\ At(w, "validate") /\ attempt[w] = Attempts
    /\ reloadMu' = None
    /\ ReloadReturns(w, "ok")
    /\ UNCHANGED <<shared, configMu, task, scan, attempt, ghosts>>

\* The loop is over: the last error is returned, nil when it never ran.
GiveUp(w) ==
    /\ At(w, "validate") /\ attempt[w] = Attempts
    /\ reloadMu' = None
    /\ ReloadReturns(w, IF attempt[w] > 0 THEN "error" ELSE "ok")
    /\ UNCHANGED <<shared, configMu, task, scan, attempt, ghosts>>

\* haproxy -sf: the file is read again, and may have changed since.
Launch(w) ==
    /\ At(w, "launch") /\ running # None
    /\ IF Accepts(cfg, resolvable)
       THEN /\ running' = cfg /\ pidFresh' = FALSE
            /\ Goto(w, "waitPid")
            /\ UNCHANGED attempt
       ELSE /\ attempt' = [attempt EXCEPT ![w] = @ + 1]
            /\ Goto(w, "validate")
            /\ UNCHANGED <<running, pidFresh>>
    /\ UNCHANGED <<services, dir, cfg, resolvable, mutexes, task, mode, scan, result, ghosts>>

PidUnreadable(w) ==
    /\ At(w, "launch")
    /\ Spend("faults", MaxFaults)
    /\ reloadMu' = None
    /\ ReloadReturns(w, "error")
    /\ UNCHANGED <<shared, configMu, task, scan, attempt, alone>>

\* Mutant: the mutex is not released by a deferred call.
SocketPanicLocked(w) ==
    /\ At(w, "launch") /\ running = None /\ kind[w] # "fetch"
    /\ Goto(w, "done")
    /\ result' = [result EXCEPT ![w] = "aborted"]
    /\ UNCHANGED <<shared, mutexes, task, mode, scan, attempt, ghosts>>

\* haSocketOn closes a nil connection when nobody listens on the stats socket:
\* the deferred unlock runs, net/http drops the request without an answer.
SocketPanic(w) ==
    /\ At(w, "launch") /\ running = None /\ kind[w] # "fetch"
    /\ reloadMu' = None
    /\ Goto(w, "done")
    /\ result' = [result EXCEPT ![w] = "aborted"]
    /\ UNCHANGED <<shared, configMu, task, mode, scan, attempt, ghosts>>

WaitPid(w) ==
    /\ At(w, "waitPid") /\ pidFresh
    /\ reloadMu' = None
    /\ ReloadReturns(w, "ok")
    /\ UNCHANGED <<shared, configMu, task, scan, attempt, ghosts>>

--------------------------------------------------------------------------------
(* HAProxy, the network and the process *)

\* The new HAProxy process writes its pid.
WritePid ==
    /\ ~pidFresh
    /\ pidFresh' = TRUE
    /\ UNCHANGED <<services, dir, cfg, running, resolvable, mutexes,
                   pc, task, mode, scan, attempt, result, ghosts>>

\* A service appears in the DNS of the network, or disappears from it.
Flip(s) ==
    /\ Spend("flips", MaxFlips)
    /\ resolvable' = IF s \in resolvable THEN resolvable \ {s} ELSE resolvable \cup {s}
    /\ UNCHANGED <<services, dir, cfg, running, pidFresh, mutexes,
                   pc, task, mode, scan, attempt, result, alone>>

HaproxyDies ==
    /\ running # None
    /\ Spend("faults", MaxFaults)
    /\ running' = None
    /\ UNCHANGED <<services, dir, cfg, pidFresh, resolvable, mutexes,
                   pc, task, mode, scan, attempt, result, alone>>

\* The process is gone and starts again: what was in memory is lost, HAProxy
\* is started with the haproxy.cfg there is, and if that fails, it is not running.
Restart ==
    LET file == IF KeepFiles THEN cfg ELSE EmptyConfig IN
    /\ dir' = IF KeepFiles THEN dir ELSE NoFiles
    /\ cfg' = file
    /\ running' = IF Accepts(file, resolvable) THEN file ELSE None
    /\ services' = NoServices /\ pidFresh' = TRUE
    /\ configMu' = None /\ reloadMu' = None
    /\ pc' = Every("idle") /\ kind' = Every(None) /\ mode' = Every("refresh")
    /\ req' = Every(None) /\ batch' = Every({})
    /\ unread' = Every({}) /\ unvisited' = Every({}) /\ draft' = Every(EmptyConfig)
    /\ attempt' = Every(0) /\ result' = Every(None) /\ alone' = Every(FALSE)
    /\ UNCHANGED resolvable

\* The container is killed, or the Go runtime stops the process because a map
\* was written while another goroutine ranged over it.
Crash == Spend("crashes", MaxCrashes) /\ Restart

\* The panic of SocketPanic in the fetching goroutine, where nobody recovers it.
FetchPanic(w) ==
    /\ At(w, "launch") /\ running = None /\ kind[w] = "fetch"
    /\ Restart
    /\ UNCHANGED budget

--------------------------------------------------------------------------------
Lock(w) == AddLock(w) \/ RmLock(w) \/ RlLock(w)

\* What a worker does by itself once it has started.
Proceed(w) ==
    \/ Pick(w) \/ Begin(w)
    \/ OpenFe(w) \/ FillFe(w) \/ OpenBe(w) \/ FillBe(w) \/ AddService(w)
    \/ NothingToRemove(w) \/ RemoveService(w) \/ RemoveFe(w) \/ RemoveBe(w)
    \/ List(w) \/ Read(w) \/ ReadFails(w) \/ Iterate(w) \/ OpenCfg(w) \/ WriteCfg(w)
    \/ Validate(w) \/ GiveUp(w) \/ Launch(w) \/ SocketPanic(w) \/ FetchPanic(w) \/ WaitPid(w)
    \/ Answer(w)

Arrive(w) ==
    \/ \E r \in Request : ReconfigureRequest(w, r) \/ RemoveRequest(w, r)
    \/ \E k \in Kinds : ReloadRequest(w, k)
    \/ \E b \in SUBSET Request : FetchAnswer(w, b)

Fault(w) ==
    \/ TemplateUnreadable(w) \/ WriteLost(w) \/ RemoveLost(w)
    \/ CreateFails(w) \/ PidUnreadable(w)

Next ==
    \/ \E w \in Worker : Arrive(w) \/ Lock(w) \/ Proceed(w) \/ Fault(w)
    \/ WritePid \/ HaproxyDies \/ Crash
    \/ \E s \in Service : Flip(s)

\* The Go scheduler runs every goroutine that can run, and sync.Mutex hands
\* itself to a goroutine that has waited long enough: strong fairness for the
\* locks.  HAProxy writes its pid file in the end.
Fairness ==
    /\ \A w \in Worker : WF_vars(Proceed(w)) /\ SF_vars(Lock(w))
    /\ WF_vars(WritePid)

Spec == Init /\ [][Next]_vars /\ Fairness

--------------------------------------------------------------------------------
(* Properties *)

\* No two services share an aclName and no service brings a template: the
\* usual deployment, and the one where the map and the files can agree.
PlainRequests ==
    \A r1, r2 \in Request : ~HasTemplate(r1) /\ (r1.svc = r2.svc <=> r1.acl = r2.acl)

\* Some worker holds configMu for service s, or for the files of a.
ChangingService(s) == \E w \in Worker : configMu = w /\ req[w].svc = s
ChangingAcl(a)     == \E w \in Worker : configMu = w /\ req[w].acl = a

\* A registered service has the backend file of its latest registration, so
\* that the frontend rendered from the map finds its backend; only the worker
\* that holds configMu for the service may see it otherwise.
RegistryBacked ==
    \A s \in Service :
        services[s] # None /\ ~ChangingService(s) => dir[Be(services[s])] = services[s]

\* A file belongs to a registered service: what a removal or a rollback leaves
\* behind would be served, and looked up in DNS, forever.
NoOrphanFiles ==
    \A f \in DirFile :
        dir[f] # None => \/ ChangingAcl(f[2])
                         \/ \E s \in Service : services[s] # None /\ services[s].acl = f[2]

\* The requests whose answer "ok" claims a generated and loaded configuration.
Loads(w) == \/ kind[w] = "recreate"
            \/ kind[w] = "reconfigure" /\ mode[w] = "apply" /\ ~req[w].foreign

\* A reconfigure or a recreate that had the proxy for itself and was answered
\* OK leaves HAProxy with exactly the map and the files, whatever races,
\* failed reloads or crashes came before it.
SoloReloadSyncs ==
    \A w \in Worker :
        At(w, "done") /\ alone[w] /\ Loads(w) /\ result[w] = "ok" /\ running # None
            => running = Rendered(services, dir)

\* Reconfigure.Execute "creates a new configuration and reloads the proxy": a
\* service that was answered OK is in the configuration HAProxy runs, with its
\* backend and, unless its only template is one for the backend, its frontend.
ServedWhenOk ==
    \A w \in Worker :
        At(w, "done") /\ Loads(w) /\ kind[w] = "reconfigure" /\ result[w] = "ok"
            => /\ running # None /\ req[w] \in running.backs
               /\ (req[w].beTmpl /\ ~req[w].feTmpl) \/ req[w] \in running.fronts

\* A remove that nobody interferes with and is answered OK leaves neither the
\* service in the map nor its files in the directory.
RemovalLeavesNothing ==
    \A w \in Worker :
        At(w, "done") /\ alone[w] /\ kind[w] = "remove" /\ result[w] = "ok"
            => /\ services[req[w].svc] = None
               /\ dir[Fe(req[w])] = None /\ dir[Be(req[w])] = None

\* Between requests HAProxy runs the map and the files, also after a reload
\* that failed and was rolled back.
IdleSync ==
    (\A w \in Worker : At(w, "idle")) /\ running # None
        => running = Rendered(services, dir)

\* A failed reconfigure gives up on the service that cannot be configured: it
\* does not remove one that resolves because of what is wrong with another, or
\* is being done to another.  Two requests for the same service, truncating
\* each other's files, are left out.
RollbackSparesValid ==
    [][\A w \in Worker :
          mode[w] = "apply" /\ mode'[w] = "rollback"
             => \/ req[w].svc \notin resolvable
                \/ \E v \in Worker \ {w} : req[v] # None /\ req[v].svc = req[w].svc]_vars

\* Every request is answered: no worker waits forever for a mutex, for the
\* pid file or in the loops of Reload and ReloadConfig.
Answered == \A w \in Worker : ~At(w, "idle") ~> At(w, "idle")

================================================================================
