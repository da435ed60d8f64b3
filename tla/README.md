# Docker Flow Proxy in TLA+

Docker Flow Proxy keeps an HAProxy process configured with the services of a
Docker Swarm cluster. Services are announced by HTTP requests (by Docker Flow
Swarm Listener, or by hand), turned into snippet files and an entry of a map in
memory, assembled into `haproxy.cfg`, and loaded by restarting HAProxy with
`-sf`. This directory models that path and the decisions taken on it, checks
the models with TLC and proves the central facts with TLAPS.

Paths are relative to the repository (`src/`). `PROJECT.json` maps every
definition to the lines it stands for.

## 1. The system

| Component | State | Operations | What makes it correct |
|---|---|---|---|
| Configuration pipeline (`actions/reconfigure.go`, `remove.go`, `reload.go`, `proxy/ha_proxy.go`, `proxy/util.go`) | the map `dataInstance.Services`, the directory of `<aclName>-fe.cfg` / `-be.cfg` files, `haproxy.cfg`, the HAProxy process and its pid file, two mutexes | `Reconfigure.Execute`, `Remove.Execute`, `reload.Execute`, `CreateConfigFromTemplates`, `Reload` | map and files agree; an OK means the service is routed; a failure harms only the service that failed; every request is answered |
| Fetching from Swarm Listener (`actions/fetch.go`, `server.go`) | `SuccessfulInitReload`, the attempts left of each loop | `ReloadConfig`, `ReloadClusterConfig`, a ticker loop per listener | what the listener knows is eventually configured |
| Routing (`proxy/types.go`, `proxy/template.go`, `proxy/util.go`, `ha_proxy.go` `getSni`) | the domains of a registered service, which rendering rewrites | parameters to destinations, validation, backend sections, frontend rules, the order of services | the names used by frontends are defined by backends; every accepted port is reachable; order does not shadow services; rendering twice gives the same |
| Startup (`server.go`, `main.go`, `run.go`) | how far it is | HAProxy, certificates, listener loops, services from the environment, HTTP server | services and certificates arrive whatever starts first |
| Services from environment variables (`server/server.go`) | those still to be registered | `GetServicesFromEnvVars` | a complete service is accepted and routed |
| Distribution (`server/util.go`) | the replicas still to be asked | `SendDistributeRequests` | all replicas get the change, or the sender knows |
| Certificates (`server/cert.go`) | the files in `/certs`, the crt-list | `Put`, `GetAll`, `Init` | a certificate that was accepted is in use, also on a new replica |
| Users and secrets (`proxy/types.go`, `User.go`) | the users of a registered service | `mergeUsers` | nobody logs in with credentials from the wrong source |
| HTTP server, config and metrics endpoints, logging | none | routing of requests, read-only reports | - |

The components meet in few places. HTTP handlers, the listener loops and
startup are goroutines that call the same `Execute` methods. They share the map,
the directory, `haproxy.cfg` and HAProxy. `configProxyMu` (package `actions`)
covers the files of one service together with its map entry, and nothing else;
`reloadMu` (package `proxy`) covers validation, start and the wait for the new
pid. Between the two, listing the directory, reading the files, ranging over
the map and writing `haproxy.cfg` are protected by nothing.

What is hard about it: two goroutines interleave anywhere in that unprotected
stretch; `haproxy.cfg` is validated, then read again by the process that is
started; a reload that fails triggers a removal, which is another complete run
of the pipeline; a restart forgets the map and may keep the files; a panic
unwinds through a deferred unlock in one kind of goroutine and ends the process
in another; DNS decides whether HAProxy accepts a file. Around it, the answer of
a listener is a snapshot that is applied while notifications arrive; a request
is repeated on every replica without any order between replicas; a replica that
starts copies the certificates of one that may be about to change. The list, line by line,
is under `hazards` in `PROJECT.json`.

## 2. Modules

| Module | Models |
|---|---|
| `HaproxyConfig` | what a configuration says (frontends, backends), which ones HAProxy accepts, the directory of snippets |
| `ConfigPipeline` | the pipeline: workers, mutexes, files, map, HAProxy, faults, restarts |
| `ProxyContract` | the abstract promise: registrations, and a load that makes HAProxy say what they say (`Contract`); every change is loaded in the end (`ChangesLoaded`) |
| `PipelineRefinement` | extends `ConfigPipeline` with the refinement mapping to `ProxyContract` |
| `ListenerFetch` | startup, the loops that fetch from Swarm Listener, notifications, the swarm; extends `ProxyContract` |
| `CertSync` | the replicas: distribution of requests, certificates, replicas that come and go |
| `Routing` | parameters, destinations, validation, backend sections, frontend rules, order, wildcard domains, services of the environment |
| `Users` | the credentials of a service, merged from three sources; used by `Routing` |
| `MCConfigPipeline`, `MCPipelineRefinement`, `MCListenerFetch`, `MCCertSync`, `MCRouting` | small instances |
| `ConfigPipelineProofs` | type correctness of the pipeline; the lock invariant |
| `RegistryProofs` | map and directory stay in step |
| `SoloProofs` | a request that has the proxy for itself does what its answer says |
| `ContractProofs` | one worker implements `ProxyContract`, stays in sync and spares valid services |
| `ListenerFetchProofs` | type correctness of the fetch; no service is missed |
| `CertSyncProofs` | type correctness of the replicas; an OK holds on all of them |
| `SurvivalProofs` | the certificates survive the restarts of the replicas |
| `RoutingProofs` | types and users of services; what HAProxy accepts, where ports lead, the order of rules |

The modules divide the system by grain. `ConfigPipeline` looks at every shared
access of one instance and is shown to implement `ProxyContract` when requests
do not overlap. `ListenerFetch` builds on that contract: there a registration
and a load are one step each, and what it adds is who registers what when.
`CertSync` treats each replica the same way and adds files, and the network
between replicas. `Routing` and `Users` say what a registration contains.

### 2.1 ConfigPipeline and the code

A *worker* is a goroutine; `pc` names the next shared access, so that one
access of the code is one action. Where the code holds a mutex, only accesses
another goroutine can observe are separate steps.

| Code | Actions |
|---|---|
| `ReconfigureHandler`, `RemoveHandler`, `ReloadHandler`, `Put` | `ReconfigureRequest`, `RemoveRequest`, `ReloadRequest`, `Answer` |
| `fetch.ReloadConfig` | `FetchAnswer`, `Pick` |
| `Reconfigure.Execute` | `Begin` (instance name, DNS check, replicas), `AddLock`, `OpenFe`, `FillFe`, `OpenBe`, `FillBe`, `WriteLost`, `AddService`, `TemplateUnreadable`; `ReloadReturns` is its reaction to the error of the reload |
| `Remove.Execute` | `RmLock`, `NothingToRemove`, `RemoveService`, `RemoveFe`, `RemoveBe`, `RemoveLost` |
| `CreateConfigFromTemplates` | `List`, `Read`, `ReadFails`, `Iterate`, `OpenCfg`, `WriteCfg`, `CreateFails` |
| `HaProxy.Reload` | `RlLock`, `Validate`, `Launch`, `GiveUp`, `PidUnreadable`, `WaitPid`, `SocketPanic`, `FetchPanic` |
| HAProxy, DNS, the container | `WritePid`, `HaproxyDies`, `Flip`, `Crash` |

`mode` says which `Execute` a worker is in: a registration (`apply`), a removal
that was asked for (`remove`), the removal that follows a failed registration
(`rollback`), or a plain reload (`refresh`). `Reply` says which callers drop the
error of `Execute`: `RemoveHandler`, `Put` and `ReloadConfig` do.

Abstractions. A service is its name, aclName, one port and four flags: whether it
belongs to another proxy, is stopped, has a template for its frontend, for its backend.
The text of a snippet is the request it was made from. A frontend names its backend by
aclName and port, which is what can disagree between map and files. A write of a file is
two steps, truncation and content, because readers see the difference. When two workers
have `haproxy.cfg` open, the result is the content of either or `Garbled`; so it is when
a write of it fails half way. The errors of writing and removing a snippet are dropped
by the code (`WriteLost`, `RemoveLost`: the step goes on, the file is as it was, empty,
or gone); a snippet of which only a part was written counts as none. Those of
`CreateConfigFromTemplates` are returned (`CreateFails`: the directory cannot be listed,
a snippet not read, `haproxy.cfg` not written). HAProxy accepts a file that is a
configuration, defines every backend it uses and names only servers DNS knows. A map
that is ranged over while it changes is visited in any order and shows or hides the
change; that the Go runtime may stop the process at that point instead is `Crash`.
Waiting loops and log output are not modelled.

`alone` and `budget` are ghosts. The first records that a worker found everyone
else idle and that nobody started since; properties use it to speak of an
undisturbed request. The second bounds work, DNS
changes, faults, lost snippets and restarts.

### 2.2 Routing and the code

`DestList` is `getServiceDestList` (indexes 1 to the first gap, which is
`BeforeGap`, parameters without index as defaults), `Verdict` is `IsValidReconf`
and the checks of `ReconfigureHandler`, which see the first destination only.
`Backends` is what `GetBackTemplate` defines, `HttpRules` and `StreamRules` what
the frontend templates use, both with the comparisons of `reqMode` the code
makes (folded in one place, as typed in another). Of the `tcp` destinations
with one `serviceGroup`, `getSni` keeps the first it meets (`Openers`) and the
`listen` section binds the source port of that one only; a destination without
domain is the `default_backend` of its source port, where the last one written
stands (`Defaults`); a backend file is a set of
sections, each with the destination it is `Written` for, so that one section
written twice is a clash. `Less` is `Services.Less`; `Orders` are the outcomes
of the unstable sort. `Trimmed` and `AlgoOf` are `putDomainAlgo`: the service is
a copy, its slice of domains is not, so the asterisk disappears from the
registered service and the algorithm does not stay. Requests are handled one at
a time, with the rollback of a refused one.

`FromEnvironment` is `getServiceFromEnvVars` and its caller: destinations are
built one by one, all with index 0, and are dropped or kept by other conditions
than those of a request: with an index a destination needs a path and a port, or
it and all after it are dropped; no path is added to a domain; `https`, and the
mode of `DEFAULT_PROTOCOL`, are read only without an index. What is *complete* is
judged by the documented parameters (`CompleteDest`), not by the outcome of
either parser, with the same rule for requests and the environment. `Startup`
registers these services before any request is taken.

`Users` is `mergeUsers` with `ExtractUsersFromString` and `getUsersFromFile`: a list of
credentials is a sequence of entries with a password, an empty one (`Blank`) or none. A
name is a word and whether it is typed in capitals: passwords are looked up by
`EqualFold`, a name is kept as it was typed, and an entry without a name is skipped.
What `extractUsersFromString` skips leaves a gap in the list, and the users of a service
are a set: their order in a userlist is of no effect. A secret that is named and cannot
be read yields no users and still keeps the users of the proxy out; if nobody is left,
the dummy user is.

### 2.3 ListenerFetch and the code

| Code | Actions |
|---|---|
| `serve.Execute`, `serve.reconfigure` | `Start`, `RegisterEnv`, `Serve` |
| the loops of `serve.reconfigure`, `ReloadConfig` | `Tick` (request and answer), `Apply` (one service of the answer), `Reload`; `Succeed` and `Fail` are the end of a round for one listener and for several |
| `ReconfigureHandler`, `RemoveHandler` for a notification | `Notified`, `RemovalNotified` up to the reload, `WorkerLoads`, `WorkerUnloads` |
| `ReloadHandler` with `fromListener`, `ReloadClusterConfig` | `ReloadClusterConfig` |
| the container, the listeners, the swarm | `Crash`, `ListenerFails`, `ListenerReturns`, `Deploy`, `Undeploy`, `Lose` |

The listener is external: it answers with the services it knows, and repeats a
notification until it is answered with 200 or (`lossy`) gives up. Only the
latest notification of a service is kept. `conf` holds the settings that matter:
`LISTENER_ADDRESS`, `RELOAD_ATTEMPTS`, `REPEAT_RELOAD`, `SKIP_ADDRESS_VALIDATION`,
and `lenient`, that HAProxy starts with names it cannot resolve. A service has at
most one registration or removal under way at a time, because its listener
waits for the answer before it notifies again. A restart
is a new container, with an empty directory. `RELOAD_INTERVAL` is one that
parses. A reload is one step; overlapping reloads are in `ConfigPipeline`, and so
are the other ways a service of an answer can take through `Execute`: one of
another proxy, one without replicas, whose removal reloads on its own, one with
templates (`Begin`; the last two in the batches of `pipeline_faults`).
Services here are of this proxy, run, and have no templates.

### 2.4 CertSync and the code

| Code | Actions |
|---|---|
| `isDistributeRequest`, `sendDistributeRequests` | `Request` (the lookup), `Send` (one replica), `Reply` |
| `Put`, `PutCert`, `writeFile` | `Open`, `Fill`, with `mu`; `OpenFails`, `FillFails`: `os.Create` or `f.Write` fails |
| `ReconfigureHandler`, `RemoveHandler`, up to the reload | `Register`, `Unregister`; `undo` marks the removal that follows a failed reload |
| `GetCertPaths`, `getCertsConfigSnippet` | `List`, `WriteList` |
| `HaProxy.Reload` | `Load`, `GiveUp` |
| `serve.Execute` with `Init` and `GetAll` of the other replicas | `Start`, `Ask`, `Join`; `JoinPartly`: some files could not be written |
| the container | `Crash` |

A request puts a certificate, registers or removes a service, or registers a service
that brings its certificate (`serviceCert`); `offer` says which. A file that is being
written is `Empty`; one that is no certificate is `Bad` and makes HAProxy refuse the
list. Where `world` is `faulty`, a certificate may not be written: `Put` reports a file
it cannot create, `ReconfigureHandler` drops the error of `PutCert`, and nobody looks at
that of `f.Write`. Which replicas a lookup finds is arbitrary, between the stale and the
complete; a distributed request asks them one at a time, as the loop does, and a request
without `distribute` is one whose lookup finds the replica itself. `crtList` is a set
written in one step: that it can be read half-written is the same hazard as for
`haproxy.cfg`, which `ConfigPipeline` models. A new replica starts without services; it
fetches them, which is `ListenerFetch`.

`promise` is a ghost: what a client was told OK, and the replicas where nothing
has undone it since. A replica leaves the set when it restarts or when the
handler of *another* request touches the same certificate or service there, so
that the property is about the handling of one request and not about the order
of several. `unfinished` is a ghost: the replicas that count as done for a request
although they did not write its certificate, or did not load HAProxy without the
service it removes; these are the two things an OK does not say. `latest` is a
ghost too: the certificates that were put, as long as one thing happened at a
time (`Calm`), each request was sent to all replicas, each replica that started
found all that serve, and every file was written; otherwise it is `None`.

## 3. Runs

| Run | Question | Instance |
|---|---|---|
| `pipeline_solo` | One request at a time: does HAProxy run exactly what is registered between requests (`IdleSync`), does a removal leave nothing (`RemovalLeavesNothing`), does a rollback hit only services that cannot be configured (`RollbackSparesValid`), does the pipeline implement the contract (`KeepsContract`), is every change loaded in the end (`LoadsChanges`), are all variables well typed (`TypeOK`)? | 1 worker, 2 services, an update, a stopped and a foreign service, 2 attempts, 6 requests of five kinds |
| `pipeline_pair` | Two goroutines at once: map and files in step (`RegistryBacked`, `NoOrphanFiles`), and an undisturbed OK means what it says, whatever raced before (`SoloReloadSyncs`) | 2 workers, 2 services and an update, 3 requests |
| `pipeline_faults` | An undisturbed OK again, after listener batches, a service that is stopped, templates for one of the two files, and one thing that goes wrong: DNS, a fault, a snippet not written or not removed, or a restart that keeps the files (`SoloReloadSyncs`) | 2 workers, 2 requests of four kinds, validation of addresses, one event |
| `pipeline_live` | Is every request answered (`Answered`)? | 2 workers, 2 requests, 1 fault |
| `routing_requests` | Is every request that is complete by the documentation accepted by HAProxy (`CompleteIsServed`), every accepted port the target of a rule (`EveryPortRouted`)? Do rules for `/` come last (`CatchAllLast`) and well-known paths first (`WellKnownFirst`)? Does nobody log in with credentials from the wrong source (`CredentialsAsAsked`)? | 35 deployments: one service with every combination of 7, 8 and 8 parameters of index 0, 1, 2; 3 services with all sets of path kinds without `/` and well-known together; `tcp` and `sni` services that share source ports, a group, a default; every source of users, encrypted or not, with names in capitals and none; environments without an index, with each `DEFAULT_PROTOCOL`, and with indexes |
| `listener_fetch` | Does no service fall between the snapshot and the notifications (`NothingMissed`)? Is what stays eventually routed (`Arrives`)? | 6 deployments: one listener with and without repetition, lost notifications, a HAProxy that resolves names, validation of addresses, an environment, an invalid service; two listeners with 2 attempts. Nothing else is bounded: deployments, failures and crashes go on for ever |
| `cert_sync` | Does an OK mean that every addressed replica has the certificate and has registered and routes the service, or neither, but for what the handlers ignore (`OkMeansEverywhere`)? Does every replica serve the certificates that were put (`CertsSurvive`)? | `Rolling`: 3 replicas, one thing at a time; `Clashing`: 2 replicas, 2 clients, a bad certificate; `Updating`: 2 replicas, 2 clients, two versions and the removal of a service; `Failing` and `Copying`: 1 or 2 replicas, 2 clients, writes that fail |
| `lost_update`, `innocent_race`, `wildcard`, `stale_snapshot`, `refused_removal` | see Findings | the smallest instance that shows each |

Bounds. Two workers are enough for a race over one shared object, and each
hazard listed involves two; three requests let the third find the result of the
race of the first two, which is what `SoloReloadSyncs` asks. Two services are
one that is disturbed and one that disturbs; the update gives a service two
versions with different backends. Two attempts in `pipeline_solo` let the loop
go round; one is enough where its count does not matter. `MaxFaults`,
`MaxFlips`, `MaxLost` and `MaxCrashes` are 1 in `pipeline_faults`, and
`OneTrouble` lets one of them happen in a behaviour: it can hit any of the steps
of two workers. There the workers are interchangeable, and `AnyWorker` is the
symmetry. `MaxIndex` is 2 (10 in the code): index 1, its successor, and the gap
between 0 and 2. In `listener_fetch`, two versions of a service show an outdated
answer, two services of one listener an answer that is half applied, two
listeners the loops that count. In `cert_sync`, three replicas are one that
leaves, one that starts and one that knows; two are enough for two requests that
reach replicas in different orders. Clients, and the two replicas that are in
every deployment, are interchangeable, and `Alike` is the symmetry. The runs
with symmetry check no liveness, for which it would not be sound.
`routing_requests`, `listener_fetch`, `pipeline_pair` and `pipeline_live` take
about a minute each, `cert_sync` (3.9 million states) and `pipeline_faults` (4.8
million) somewhat more than two.

`CHECK_DEADLOCK FALSE` is set for the pipeline: when the budget is used up and
all workers are idle nothing is left to do. That nothing else stops the system
is the property `Answered`.

Fairness. `WF(Proceed(w))`: the Go scheduler runs every goroutine that can run.
`SF(Lock(w))`: `sync.Mutex` passes itself to a waiter that has waited for a
millisecond, so that a waiter is not overtaken forever. `WF(WritePid)`: HAProxy
writes its pid file; the code has no timeout for it (`proxy/util.go:63`), so a
process that never does blocks all later reloads, and without this assumption
`Answered` is false. Requests, faults, DNS changes and restarts have no
fairness. Under it the pipeline loads every change (`LoadsChanges`), which is weak
fairness of `Load` in `ProxyContract`.

In `ListenerFetch`: `WF(Main)`, `WF(Goroutine(l))` and `WF(Handler(s))`, because
the Go scheduler runs them, the ticker ticks and a container that ended is
started again by the swarm; `WF(Delivery(s))`, because a listener repeats a
notification until it is answered. The last is weak on purpose: a listener that
keeps failing owes nothing. Deployments, failures, crashes and losses have no
fairness. `Arrives` asks that what it depends on holds from some moment on: the
service and its listener stay, the process does not crash for ever, HAProxy
accepts what is registered, the attempts were not used up, and notifications are
lost only where the fetch is repeated.

`CertSync` has no fairness and no liveness property: a request ends when every
replica has answered or crashed, which is `Answered` of the pipeline for each.

What the passing runs show. The pipeline repairs itself: whatever interleaving produced
a wrong `haproxy.cfg`, the next undisturbed registration or recreate that is answered OK
leaves HAProxy with the map and the files. The mutexes do what they are for: no
interleaving leaves a registered service without its backend file or a file without its
service, unless templates are used or a file cannot be written or removed. No
combination of failures keeps a mutex locked. Snapshot and notifications together leave
no gap, in any order, while the proxy starts and restarts. A distributed request that is
answered OK was handled by every replica it was addressed to, and one that could not be
delivered somewhere says so; that the handlers themselves ignore a certificate that was
not written and a reload that failed after a removal is the limit of that (section 4).
Certificates outlive all replicas as long as one is left and changes do not overlap with
restarts. That the pipeline repairs itself is all these runs say of the races and
failures they contain: the damage until then is in the findings.

## 4. Findings

Runs that TLC ends with a counterexample; the quotes are in `PROJECT.json`:

- `lost_update` - two registrations at once. The older generation of
  `haproxy.cfg` is written over the newer one before the latter is loaded; both
  requests are answered OK, one service is not routed until the next reload.
- `innocent_race` - two services that both resolve, one request each. The
  directory is listed before the map is read; the registration of the other
  service, completed in between, gives a `use_backend` without its backend. The
  request that finds HAProxy refusing this is rolled back, although the
  documentation says that the offending service is removed.
- `wildcard` - `putDomainAlgo` is not idempotent: from the second rendering on
  the domain has lost its asterisk and the rule its `hdr_end`.
- `stale_snapshot` - a service is removed between the answer of the listener
  and its registration. The removal finds nothing and is answered OK, the
  registration follows, and the service stays: a later fetch only adds.
- `refused_removal` - `RemoveHandler` drops the error of `Execute`: a removal
  whose reload HAProxy refuses, here for a bad certificate put before, is answered
  OK and the service still routed.

Properties of the runs that fail for other values of their constants:

- The error of `PutCert` is dropped by `ReconfigureHandler` (`server/server.go:114`),
  and that of `f.Write` by `writeFile` (`server/cert.go:187`): OK without the
  certificate the request brought. `World <- Unwritten` violates `ServedWhenOk` of
  `CertSync`.
- Two certificates put at the same time: the directory is listed before `certMu`
  is taken, an older list is the last one written, and one certificate that was
  answered OK is not served. `World <- Overlapping`, with `Op <- Ops`, violates
  `ServedWhenOk`.
- The error of writing a snippet is dropped (`actions/reconfigure.go:150`, `:152`): the
  reload succeeds without it, and the request is answered OK for a service with no
  rule. `Request <- WithTemplate`, `MaxLost = 1` violates `ServedWhenOk` of
  `ConfigPipeline`, with one worker.
- A service with its own templates is not in the map, so `RemoveService` finds
  nothing (`actions/remove.go:57`) and the files stay in every later configuration:
  `Request <- WithTemplate` violates `RemovalLeavesNothing`.
- A service of the environment with a domain and no path, which the documentation
  allows (`docs/usage.md:69`, `:123`). No path is added as it is for a request
  (`server/server.go:344`): the acl is empty and HAProxy refuses the configuration; with an
  index the destination is dropped without a word. `Deployment <- DomainOnly`
  violates `CompleteIsServed`.
- Two services of one `serviceGroup` with a source port each. The `listen`
  section binds the first only (`proxy/ha_proxy.go:556`); the other is answered OK
  and bound by nothing, although `docs/config.md:14` says that a `srcPort` needs no
  entry in `BIND_PORTS`. `Deployment <- GroupOnly` violates `EveryPortRouted`.
- The SNI frontend names a backend after `serviceName`, the backend file after
  `aclName`: a deployment with an `sni` service that has an `aclName` violates
  `CompleteIsServed`.
- A service with both `/` and a well-known path is placed first, with its rule
  for `/`: a deployment with all of `PathRequests` violates `CatchAllLast`.
- Destinations of a service from the environment all have index 0: two with
  the same port define one backend twice and HAProxy refuses them, which violates
  `CompleteIsServed`.
- Two `tcp` services without a domain on one source port: each becomes the
  `default_backend` of the frontend and the last one stands
  (`proxy/template.go:124-125`), which violates `EveryPortRouted`. Whether two
  frontends bind the same port is not looked at.
- `Attempts = 0` violates `ServedWhenOk` in one request: `RECONFIGURE_ATTEMPTS`
  of 0, or one that `Atoi` refuses, makes the loop of `Reload` run zero times.

Seen while reading:

- The mode of a service of the environment that does not state one is
  `DEFAULT_PROTOCOL` (`server/server.go:265`), a variable the documentation calls
  `DEFAULT_REQ_MODE`; with `tcp` there, a service that is complete as `http` lacks
  a source port. With an index it is `http` whatever is set, and `https` is
  ignored; `serviceGroup` is ignored in either case.
- `ReloadConfig` returns nil although services or the reload failed
  (`actions/fetch.go:54`, `:60`); a service that does not resolve, once in the
  map by way of a batch, makes every later registration fail and be removed.
  `Kinds = {"reconfigure", "fetch"}` with one worker violates
  `RollbackSparesValid`.
- `reqMode` defaults to `http`, not to `DEFAULT_REQ_MODE` (`docs/usage.md:31`);
  `HTTP` and `TCP` in upper case pass validation and are not recognised by the
  templates. The instances of `routing_requests` keep to lower case and `SNI`.
- ACL names are aclName followed by the port without a separator, so different
  services can share one.
- `ReloadConfig` is commented "any other problem error is returned"
  (`actions/fetch.go:18`); the errors above are not. After a stale
  registration (`stale_snapshot`) a HAProxy that resolves names refuses every
  later configuration; this is why `Arrives` supposes `Accepted(registered)`.
- A `RELOAD_INTERVAL` that does not parse is an interval of 0, for which
  `time.Tick` returns nil: nothing is ever fetched.
- Two clients that distribute requests for one service at the same time can
  leave the replicas with different versions, both answered OK: nothing orders
  the two.
- A new replica takes all certificates of the replica that has most; replicas
  that differ stay different. One that starts while a certificate is distributed
  can miss it. Both are outside `Calm`.
- A failed reconfigure takes the service back, not the certificate it brought;
  if HAProxy refuses that file, every later reload fails. Services that come from
  a listener's answer or the environment never have their `serviceCert` written.
- `docs/swarm-mode-auto.md:545` says that the users of a service "overwrite" the
  global ones; with both, the backend template asks for credentials from both
  lists (`proxy/template.go:288-297`), so that only a user known to both, with
  one password, gets in.

## 5. Proofs

Proved by TLAPS for all values of the constants that satisfy the `ASSUME`s of the
modules: kinds of work are known ones, bounds are natural numbers, requests are
records of the right type, the markers `None` and `Blank` differ from requests
and from contents. The sets of workers, services and requests may be infinite, as
may the number of steps; replicas and certificates are finitely many. Every
inductive invariant was checked by TLC on the instance of its run first.

The pipeline, in any interleaving:

1. `TypeCorrect == Spec => []TypeOK`. `TypeOK` is not inductive: the counter
   of the reload loop is increased by `Launch`, which does not look at it.
   `TypeInv` adds `LaunchInBound`, that a worker about to launch has an attempt
   left.
2. `RegistryAlwaysBacked`: if no two services share an aclName, none has
   templates (`PlainRequests`), and no snippet fails to be written or removed
   (`WritesSucceed`), then `Spec => []RegistryBacked`. The inductive
   invariant is `ControlInv` (types; `LockInv`, that the holder of `configMu` is
   exactly the worker in the critical section; `ReqNamed`, that a worker in
   `Reconfigure` or `Remove` has a request) with `RegistryInv`: the map files a
   service under its name, the backend file is complete when the map is about to
   be written (`ReadyInv`), and the service is out of the map while its files
   are removed (`GoneInv`). The steps are divided in those of a worker in the
   critical section, one by one, and the others (`Outside`), which change
   neither map nor files unless the process restarts.
3. `NoFileIsOrphaned`: if in addition a restart begins with an empty directory
   (`~KeepFiles`), `Spec => []NoOrphanFiles`. The invariant adds `LeftInv`: the
   frontend file is gone when the backend file is about to go, and a service
   that is not in the map when its removal starts has no files.
4. `UndisturbedOkSyncs`: if `Attempts > 0`, then `Spec => []SoloReloadSyncs`, with
   templates, shared aclNames, lost snippets, faults and restarts. What such an OK says is that
   HAProxy runs the map and the files as they are: a snippet that was not written
   is not in them (section 4). `SyncInv` says what an
   undisturbed worker (`alone`) has at each step of `CreateConfigFromTemplates`: a
   draft of the files and map entries read so far (`Drafted`), then
   `haproxy.cfg`, then HAProxy. `AloneInv`, that everybody else is idle, makes it
   inductive; `FlowInv` relates the step to the `Execute` the worker is in. A
   worker that joins ends `alone` and with it every claim about what it disturbed.
5. `UndisturbedRemovalIsComplete`: under the hypotheses of 3,
   `Spec => []RemovalLeavesNothing`, from `NoFileIsOrphaned`'s invariant and
   `RemovedInv`: past its critical section an undisturbed removal finds no entry
   and no file of the service.

The pipeline, one worker at a time without faults, lost snippets or restarts
(`OneByOne`, `NoFailures`) and under `PlainRequests`:

6. `OneByOneKeepsContract == Spec => KeepsContract`, the safety of the refinement.
   `AddService` maps to `Register`, `RemoveService` to `Unregister`, `Launch` to
   `Load` (`PromiseStep`), everything else to a stutter. The invariant `CoreInv`
   joins 2, 3 and 4 with `SettledInv`: while the configuration is being
   validated, `haproxy.cfg` is what map and files say. With `RegistryBacked` and
   `NoOrphanFiles` that is every registered service with its backend and nothing
   else (`AgreedRendering`), which is what `Load` promises.
7. `OneByOneStaysInSync == Spec => []IdleSync` and
8. `OneByOneSparesValid == Spec => RollbackSparesValid`, if in addition DNS does
   not change (`SteadyNames`), services come one by one (`NoBatches`) and
   `Attempts > 0`. `StaysInv` adds that every registered service resolves but
   perhaps the one at hand (`ResolvedInv`), that an attempt fails because of that
   one only (`AttemptInv`), and that HAProxy runs what is registered except
   between a change of the map and the launch (`CalmInv`): the rollback of a
   service that does not resolve leaves a map whose configuration is accepted.

The fetch:

9. `FetchTypeCorrect == Spec => []TypeOK` for `ListenerFetch`, for all
   constants that satisfy `FetchAssumption` (the sets of listeners of a deployment
   are finite, services of the environment have no listener and others have one).
   `TypeInv` adds that the swarm runs one version of a service, that a pending
   notification is about that version, that a worker registers its own service,
   and that a process that is down has no goroutine.
10. `NothingIsMissed == Spec => []NothingMissed`. The inductive invariant
    `FetchInv` says in addition, where HAProxy refuses nothing, that somebody is
    about to reload whenever HAProxy does not run what is registered (`LoadDue`)
    and that what is about to be loaded is registered (`KeptInv`); and, where no
    notification is lost, that each valid service of a listener that has answered
    is registered or about to be announced, and, while the answer is applied,
    perhaps still in it (`CoverInv`). `LoadDue` and `CoverInv` give the property
    when nothing is pending. `CoverKept` is the lemma most actions use: an action
    that leaves the loops alone preserves `CoverInv` if a service stays covered as
    long as it is deployed, and a service that is deployed is covered at once.

The replicas, for all constants that satisfy `CertAssumption` and with no other
hypothesis:

11. `CertTypeCorrect == Spec => []TypeOK` for `CertSync`. `TypeInv` adds the shape
    of handlers and clients: a handler has what it is about to use, runs on a
    replica that serves and holds `mu` while it writes the file; a client waits
    for one replica at a time, which works on the client's request.
12. `OkHoldsEverywhere == Spec => []OkMeansEverywhere`. The inductive invariant
    `OkInv` has three parts for every client and request: what was promised
    holds where the promise counts (`PromiseKept`); each replica that has answered
    without a failure has what was asked (`AnswerHolds`); a handler that is past a
    step of its request finds it done (`WorkHolds`). Each part excepts what is
    in `unfinished`: the certificate whose write failed, HAProxy's routes when the
    reload after a removal failed; that a service is registered as asked, and that a
    version asked for is routed, hold without exception. A step is divided in what it
    does for its own client (`OkMoves`, `OkReturns`) and for the others
    (`OkOthers`), whose requests it spares or from whose ghost `to` it takes the
    replica (`OverwriteClears` and its like).
13. `CertificatesSurvive == Spec => []CertsSurvive`. While one thing happens at a time
    (`latest # None`), `SurviveInv` says that when nobody works every serving replica
    has `latest` in its directory and in HAProxy; that of the one request under
    way each replica has all, nothing, or, where it is handled, what the handler's
    step says (`Progress`, `Underway`); and that a replica that starts has the certificates
    already or has not yet asked anybody who serves (`Joins`).

Routing, for every set of deployments: any number of destinations of a service,
paths, ports, domains, credentials and requests, in any order; the services are
finitely many:

14. `RoutingTypeCorrect == Spec => []TypeOK` and
15. `CredentialsAreAsAsked == Spec => []CredentialsAsAsked`, with no hypotheses. A user
    gets a password under a name that differs in capitals at most, as the code has it,
    and a nameless entry gives nobody access. The inductive invariant `BaseInv` says that
    every registered service is one the deployment may ask for (`Asks`) but for its domains (`Alike`), which rendering
    rewrites. `MergedAsAsked` is the lemma about `mergeUsers`, `FirstGap` the one about
    the loops over the indexes.
16. `CompleteIsAlwaysServed`: `Spec => []CompleteIsServed`, if services of different
    names share neither name nor aclName (`OwnNames`), a `tcp` destination has a source
    port and, outside a group, a port (`WholeStreams`), `http` and `tcp` are typed in
    lower case (`PlainModes`), sni is not combined with an aclName (`SniByName`), and
    what is complete in the environment is said in parameters that its parser takes as
    those of a request are taken (`PlainEnvironment`): a domain comes with a path, no
    port comes twice, with an index nothing relies on the parameters without, and
    without one the mode is stated or `DEFAULT_PROTOCOL` is `http`. This is a
    condition on the parameters and not on what becomes of them; section 4 says what
    happens without it.
17. `EveryPortIsRouted`: `Spec => []EveryPortRouted`, under the first four of these and
    `OwnSrcPorts`: no two `tcp` destinations without a domain share a source port,
    and the members of a group share theirs.
18. `WellKnownComesFirst`: `Spec => []WellKnownFirst`, under `OwnNames` and
    `WholeStreams`.
19. `CatchAllComesLast`: `Spec => []CatchAllLast`, if in addition no service has both
    the root path and a well-known one (`RootApart`).

The last four share `LayoutInv`: a backend file defines sections of its owner, none
twice (`Tidy`); whatever the rules of a registered service name is in the files
(`AllSupported`); and HAProxy runs a rendering of the registry as it is now (`Current`).
It is inductive because HAProxy never refuses a configuration from which a service was
taken: `AcceptedWhen` says what HAProxy accepts in terms of services and files,
`OthersSupported` that the file of one service matters to no other. Hence the rollback of
a refused service, a removal and a recreate always take effect, and what HAProxy runs
never lags behind the registry. `OrderIsComplete` says that the sort, which is free in what
it does with equals, loses no service.

The hypotheses are needed. With a shared aclName one service overwrites the files of
another; a templated service is never in the map (section 4); a file that is not written
or removed is missing or left (section 4); with kept files the directory survives a
restart that loses the map; zero attempts answer OK without loading anything; two
workers, a name that disappears from DNS or a batch with a service that does not resolve
make a valid service fail (`innocent_race`, section 4). Without `PlainModes`,
`SniByName`, `RootApart`, `OwnSrcPorts` or `PlainEnvironment` the properties of routing
fail as section 4 says. `WholeStreams` is what the induction needs: a destination
without it does no harm while another one hides it, and would when that one is removed.
The runs `pipeline_solo`, `pipeline_pair` and `cert_sync` are instances that satisfy the
hypotheses of the theorems about their properties. So are, in `routing_requests`, the
deployments with several services, with users, and with an environment that is bare or
indexed; the one with all combinations of parameters and those with other
`DEFAULT_PROTOCOL`s go beyond `WholeStreams` and `OwnSrcPorts`, where only TLC says that
the properties hold.

Only model-checked: liveness (`Answered`, `Arrives`, `LoadsChanges`), which the
prover's backends do not reach. Every safety property of a passing run is the
subject of a theorem, which also says where it needs hypotheses.

## 6. Not modelled

Headers, redirects, user agents, source port conditions and other options of a
service that add lines to a template without changing which names exist; text of
templates, responses and logs; decoding of requests; the config endpoint and the
metrics, which change nothing; logging; how HAProxy ends its old processes (`-sf`
or `-st`). Certificates: secrets under `/run/secrets`, which do not change while
a container runs, `PREFERRED_CERTIFICATE`, which orders the list,
`CRT_LIST_PATH` and `CA_FILE`, which replace it. Helm charts, scripts, the Docker
image. Two accesses are merged where nothing else the properties tell apart can
fall between them: the check of the stats socket and the start of the new
HAProxy.

## 7. Plan

Modelled and checked: all components of section 1 that change state. Proved: the
theorems of section 5. What is left, in order:

1. Proofs with weaker hypotheses, where a theorem asks for more than its property
   needs: an aclName that two services use, but never at the same time
   (`RegistryAlwaysBacked`, `CompleteIsAlwaysServed`); SNI services with an aclName
   in a deployment whose other services are served. No module uses a RECURSIVE
   operator.
2. Liveness of `CertSync` on a smaller instance: a request is answered if its
   sender does not crash, with strong fairness for `mu`.
3. Two instances of `ConfigPipeline` side by side in place of the contracts of
   `CertSync`, as far as the states allow.
