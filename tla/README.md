# jettison-controller: TLA+ models, checks and proofs

This directory is a verification project for jettison-controller, a Kubernetes
operator (one Go process) that turns `Flow` resources into Argo objects and
serves their state to browsers over websockets. It holds TLA+ modules translated
from the Go sources, the TLC configurations that check them on small instances,
and theorems that TLAPS proves for every instance.

Run a check with `tlc -config FWUpdates.cfg MCFlowWatcher` (`FR*.cfg` go with
`MCFlowReconcile`, `Components.cfg` with `MCComponents`, `LSLines.cfg` with
`LogStream`), a proof with `tlapm` on a module named `*_proofs.tla`.

## 1. The system

```
                 Kubernetes API  (Flow, Sensor, Application, EventSource, ...)
                  |  watch / list            ^ get, create, update, delete
                  v                          |
      controller-runtime cache ---> FlowReconciler.Reconcile ---> GitHub API
        |           |                 one worker, one queue         (ghsettings)
        | informers | List
        v           v
   FlowWatcher.run (the hub) <--- register / unregister / subscribe --- websockets
        |  writeChan                                                      ^
        +---------> writeConn (one per connection) ----------------------+
   jobs per connection: log stream, pod lookup, Argo CD sync, rollout retry
```

| part | state it keeps | operations | what makes it correct |
| --- | --- | --- | --- |
| **hub** `internal/webserver/flow_watcher.go` | `conns`, `connSubscriptions`; per connection a ctx, a `writeChan`, a reader, a writer | register, unregister, subscribe, broadcast an informer event to all or to the subscribers of an application | no client misses the latest state; channels are closed once and never sent to afterwards; the hub never blocks for ever; goroutines end with their connection |
| **message handlers** `*_message_handler.go`, `weberror.go` | a goroutine per request, the log stream's buffer and timer | stream a container's log, look a pod up, sync an application, retry a rollout | every fatal error closes the connection; a stream ends with its connection |
| **reconciler** `internal/controller/flow_controller.go`, `flow_conditions.go` | the caches `SyncedNamespaces`, `SyncedProjects`, `SyncedRepos`; everything else is in the cluster | one staged pass per Flow; every API call may fail and requeue the Flow | what a cache says is synced has been applied; shared objects (EventSource) lose no repository; the pass converges; the Ready condition tells the truth |
| **builders** `appbuilder`, `sensorbuilder`, `eventbusbuilder`, `eventsourcebuilder`, `pvcbuilder`, `rbacbuilder` | none: pure functions of a Flow | build the desired objects; the sensor builder derives a workflow DAG from the steps | tasks depend on each other as `dependsOn` says; applications are deduplicated |
| **flow parsing** `api/v1alpha1` | none | parse, default and validate triggers and steps | an invalid Flow is rejected before anything is applied |
| **GitHub settings** `ghsettings.go` | the repository's settings and rulesets, at GitHub | read each setting and update it if it drifted | idempotent; a failed pass can be repeated |
| **Argo CD client** `argosync.go` | a cached token and its expiry, under a mutex | sync an application, renewing the token | an expired token is never used |
| **workflow templates** `workflowtemplates.go` | ClusterWorkflowTemplates | apply all of them at start, retrying until it succeeds | all are applied eventually |
| **HTTP API** `flow_webserver.go`, `workflow_mysql.go` | workflows read from MySQL once at start | stateless reads | |

How the parts interact: the reconciler and the hub share only the cache; the hub's
goroutines talk over unbuffered channels, so that every send is a rendezvous and a
send to someone who never receives again blocks for ever; jobs reach the hub only
through `unregister` and a client only through its `writeChan`.

The hard behaviours are the rendezvous between the hub, the writers, the initial
senders and the jobs; the gap between a list and the events after it; the order in
which a ctx is cancelled, a map entry removed and a channel closed; the steps of a
reconciliation that fail half way; reads from a stale cache; and what a cache in
memory says after a restart or an external change. `PROJECT.json` lists each one at
its line under `hazards`.

| module | models | status |
| --- | --- | --- |
| `FlowWatcher`, `ConnLifecycle` | the hub and every goroutine of a connection; what it promises to a client | checked, proved |
| `FlowReconcile` | the reconciler against a cluster | checked, proved |
| `FlowBuild`, `FlowWorkflow` | parsing, builders and templates as operators; the workflow they make | checked, proved |
| `GhSettings` | the GitHub settings of one repository | checked, proved |
| `LogStream` | the lines of one container log | checked, proved |
| `ArgoSync` | the Argo CD token | checked, proved |
| `MC*` | instances | |
| `FlowWatcher_proofs`, `FlowLifecycle_proofs`, `FlowReconcile_proofs`, `FlowWorkflow_proofs`, `GhSettings_proofs`, `LogStream_proofs`, `ArgoSync_proofs` | the theorems | |

*Proved* means: every invariant and every action property that a passing run checks is
a theorem of the module's specification, for all values of its constants. The liveness
properties are checked only (section 6).


## 2. The websocket hub: `FlowWatcher`

One action per step of a goroutine between two blocking points. The state of each
goroutine is a program counter:

| variable | code |
| --- | --- |
| `handler[c]` | `handleWebsocket`, blocked on `s.register` |
| `hub` | `run`: at its select, or inside `registerConn` ("initial"), `notifyAll`/`notifyResourceSubscriptions` ("notify", "sendUpdate"), `registerResourceSubscription` ("sendPods", "sendError", "selfUnregister"), `unregisterConn` ("unregister") |
| `conns`, `subs` | `s.conns`, `s.connSubscriptions` |
| `cancelled`, `closed` | the ctx of a connection is done, its `writeChan` is closed |
| `sender[k]`, `snapshot[k]` | the goroutines `sendInitial*` of the connection being registered, and what they listed |
| `writer[c]`, `writing[c]` | `writeConn` and the message it is encoding |
| `reader[c]`, `request[c]` | `readConn` and the subscription it is handing over |
| `job[c][j]`, `after[c][j]` | the goroutines of requests, and where they go after a send |
| `cache[f]`, `events[f]` | the informer's cache and the events its handler has still to deliver |
| `view[c][f]` | what has been written to the client |
| `crash` | the panic that ended the process |

`sendConn` is two steps, as in the code: the check of `conn.ctx.Err()`
(`CtxDone` in the step before) and the select (`Select`), in which a closed channel
and a done ctx are both ready and Go may choose either. Objects are version numbers:
each feed (an object of a broadcast kind, or the pods of an application) goes through
the versions 1 .. `MaxVersion`. A deletion is one more version; under the fault
"relist" its event may be wrapped (`DeletedFinalStateUnknown`), as client-go does when
it learns of it from a relist. Such an event waits in the informer's queue like any other, with
its version, until the delete handler drops it (`DropTombstone`). `Faults` says what the environment may do; a
property that needs a fault excluded is checked without it, and that is said here.

Not represented: the lines of a log (module `LogStream`), the token of a sync (module
`ArgoSync`), the contents of objects and errors, the type metadata that is
backfilled, slow clients as such (a write takes one step, any time), the aliasing of
shared objects, several connections being accepted by one handler.

### Properties and runs

| run | instance | checks |
| --- | --- | --- |
| `FWUpdates` | 2 connections, 1 kind, 1 application, 2 versions; clients leave, writes and lists fail | `TypeOK`, `NoDoubleClose`, `HubSendsToOpenChannel`, `NoLostUpdate`, `StaleSubscriptionsPruned`, `ImplementsLifecycle` |
| `FWJobs` | 1 auxiliary connection, 1 kind; log stream, pod lookup and sync; clients leave or vanish, API requests and deletions go wrong | `NoDoubleClose`, `NoGoroutineLeak`, `ErrorCloses` |
| `FWLive` | 1 connection, 2 kinds, 1 application, a log stream; no faults | `HubReturns`, `RegisterCompletes`, `Converges` |
| `FWWriteFailure` | 1 connection that leaves | `FailedWriteCloses` is violated |
| `FWSendOnClosed` | 1 auxiliary connection with a sync that fails | `NoSendOnClosed` is violated |
| `FWTombstone` | 1 connection, deletions found by a relist | `NoLostUpdate` is violated |

`NoLostUpdate` is the central one: for every registered connection and every object
it receives, the newest version on its way (the informer's queue, the hub's hands, the
writer) or already written is the one in the cache. It holds across the gap between
`sendInitial*` and `s.conns[conn] = true` only because an informer's event waits at
`notifyAll` until the hub is back at its select.

### What the hub promises: `ConnLifecycle`

The abstract specification knows no goroutines, channels or queues: a connection is
absent, connecting, open, closing and closed, in this order and once, and shows states
that the objects have been in from the first of these stages to the last and at no
other time. `FlowWatcher!Lifecycle` maps to it: `shown` is `view`, `current` is `cache`,
and `life` is `Life(c)`, read off the writer (`none` before `registerConn` has started
it, `done` once it has closed the socket), `conns` and `cancelled`. The run `FWUpdates`
checks the refinement (`ImplementsLifecycle`): whoever asks for the end first, the
reader, the writer, an initial sender or the hub itself, a connection is cancelled
before its socket is closed, it is closed once and for good, and nothing is written to
it before `registerConn` or after the close.

Bounds. Two connections are enough for a broadcast to meet one that is stale and one
that is not, and for one connection's registration to delay the other; two versions
for an event to be older than a list; one job of each kind for every goroutine to ask
for the same unregistration. A connection connects once: the hub never reuses a
`WebConn`. `CHECK_DEADLOCK` is off because the system may stop: every client has left
and the cluster is quiet, or a panic ended the process.

Fairness (`FairSpec`). Weak fairness for every goroutine that can take a step; strong
fairness for the hub's send, because a log stream may send to the same writer for ever
and Go serves blocked senders first in, first out. None for clients (connecting,
asking, leaving), for changes of the cluster, or for a log stream to end or to flush.
`NoGoroutineLeak` and `ErrorCloses` are checked for an auxiliary connection, to which
the hub broadcasts nothing: for the others the deadlock of `FWWriteFailure` refutes
them. `HubReturns`, `RegisterCompletes` and `Converges` are checked without faults for
the same reason. So they say nothing of a List that fails in the hub or in an initial
sender: the model has both (`hub.pc = "selfUnregister"`, `sender[k] = "unregister"`), the
hub blocks in both, and no property of a run covers them. The versions are bounded: that informers which
never pause do not starve a registration is the assumed fairness of Go's select.

### Findings

1. *A failed write stops the hub* (`FWWriteFailure`, `flow_watcher.go:251`). The writer
   sends the connection to `s.unregister` and stops receiving from `writeChan`; if the
   hub is in `sendConn` to it, each waits for the other. A normal close of the client
   during a broadcast is enough.
2. *Send on a closed channel* (`FWSendOnClosed`, `flow_watcher.go:155`). A job that has
   passed the check of `ctx.Err()` may be overtaken by the whole of `unregisterConn`;
   its select then has two ready cases, one of which panics.
3. *A deletion found by a relist is dropped* (`FWTombstone`, `flow_watcher.go:678`). The
   handlers know typed objects only. The counterexample ends with the drop itself: until
   then the deletion is on its way, after it the client's last state is the one before.

### Proofs: `FlowWatcher_proofs`

For any sets of connections, kinds, applications and requests, any bound on versions
and any faults (assumptions: the constants are disjoint where the module says so):

- `TypeCorrect`: `Spec => []TypeOK`.
- `NoDoubleCloseTheorem` and `HubSendsToOpenChannelTheorem`, from the inductive
  invariant `TypeOK /\ LifeInv`. `LifeInv` follows a connection's life: unknown to the
  hub until its handler is done, then held by the hub at "initial", then in `conns`,
  then closed; it is cancelled and not closed only between the steps of
  `unregisterConn`. Neither property is inductive alone: that the channel the hub
  sends to is open follows from the connection being in `conns` (or being the one
  that is registered), from `conns` and `closed` being disjoint, and from a writer
  ending only after its channel is closed.
- `NoLostUpdateTheorem`, under the assumption that no informer misses a deletion, from
  `TypeOK /\ LifeInv /\ DataInv`. `DataInv` adds that a queue of events which is not
  empty ends with the cached version, that an idle writer holds no message, that an
  initial sender whose kind has no event queued has listed or sent the cached version,
  and that the hub's message is for the connections it still has to serve.

### Proofs: `FlowLifecycle_proofs`

Both rest on `LifeInv` and two more invariants. `SeenInv`: a version in an event queue,
in the hub, in a snapshot or on a socket is one that the cache has had. `PruneInv`: the
subscribers of the application that is being broadcast are in `conns` or are still to be
served.

- `BroadcastPrunes`: a broadcast to the subscribers of an application leaves none among
  them that is not registered.
- `HubImplementsLifecycle`: `Spec => ImplementsLifecycle`. `AbstractInit` maps the
  initial states, and one lemma per action shows which abstract step it is, a stutter
  for most: a write is `Show`, an informer's step is `Change`, and `registerConn`, the
  cancel of a ctx and the close of a socket are each an `Advance`, whoever asked for it.
  `SeenInv` is what `Show` asks for, and `LifeInv` what keeps a connection from skipping
  a stage or going back to one.

The liveness properties of the hub are model-checked only.

## 3. The reconciler: `FlowReconcile`

One worker calls `Reconcile` for one Flow at a time (`MaxConcurrentReconciles` is left
at 1). A call is a straight line of requests: `Plan` lists the steps left for a spec,
given what is already synced, and each step is one or two actions, one per request.

| state | code |
| --- | --- |
| `flow[f]`, `obj[o]` | the Flow and the other objects at the API server: resource version, content, owner |
| `flowCache`, `cache` | what `r.Get` returns: the informers' copies, each as old as it happens to be |
| `worker` | the call in progress: the Flow as it was read, the steps left, the object read (`existing...`), `detectedDrift` |
| `queue` | the work queue; an error puts the Flow back |
| `syncedNamespaces`, `syncedProjects`, `syncedRepos` | `r.SyncedNamespaces`, ... |
| `configured` | repositories whose GitHub settings are applied |
| `touched` (history) | objects changed by others since the process started |
| `blind` (history) | RoleBindings deleted in a version that the worker had not read |
| `budget` (bounds) | edits, changes by others, failed requests and restarts that may still happen |

`ReadObject` is `r.Get` with the comparison, `CreateObject`, `UpdateObject` and
`DeleteBinding` are the requests that follow, `SkipProject` the `continue` for a synced
project, `SyncGitHubSettings`, `SetCondition` and `Refetch` the rest. A request may fail
without effect (`RequestFails`) or have its effect and lose its answer (`Answer`). The
conditions under which `Synced*` is set (after the last object it stands for, with no
request in between) are part of the action that ends that step. `FlowEvent` and
`ObjectEvent` bring one cached object up to date; only Flows and Sensors queue anything,
as `SetupWithManager` says. Spec contents that stop `Reconcile` early are the values of
`broken`, one per early return.

Not represented: the fields of objects beyond what the comparison tells apart (one
"drift" value stands for any that `DeepDerivative` rejects, "current" for any that it
accepts, such as a Role with further rules), an EventSource whose `spec.github` is missing
(`mergeOwnedRepos` would write to a nil map; `BuildEventSource` never makes one), several projects per Flow beyond a sequence of names, the
delays of the rate limiter, updates of the status of objects by other controllers (they
only add conflicts), a second process (leader election is off by default). The GitHub
settings are one request.

### Properties and runs

| run | instance | checks |
| --- | --- | --- |
| `FRSync` | 2 Flows of a namespace, one with an application and broken at any stage or not; a cluster with an outdated Role and RoleBinding; 2 edits, 1 fault, 1 restart | `TypeOK`, `SyncedMeansApplied`, `NothingForgotten`, `ReposKept` |
| `FRLive` | 1 Flow with three specs; 2 edits, 1 deletion of a Sensor or Application by others, 1 fault, resyncs | `SensorSettled`, `ReadyOnCurrentSpec`, `Converges`, `AppsConverge` |
| `FRReady` | 1 Flow, 1 edit, 1 fault | `ReadyIsCurrent` is violated |
| `FREvents` | 1 Flow that listens to one event or two, 2 edits | `EventsAsListed` is violated |

`SyncedMeansApplied` and `ReposKept` hold although every read may be stale because the
API server refuses a Create of what exists and an Update of an old version; the one
request without such a check is the Delete of a RoleBinding, which names no version. It
is followed by its creation or by an error, but it may delete a RoleBinding that an
earlier call had put right; if the Create after it fails, the retry may find the right
one in a cache that does not know of the deletion, and record the namespace as synced.
`SyncedMeansApplied` exempts a RoleBinding that is gone in this way (`blind`). It takes
two faults, one more than `FRSync` has; the proof found it. `SensorSettled` holds because a Sensor's event queues its Flow.
An Application is not watched: one that was read from a stale cache, or that belonged to
a deleted Flow of the same name and is collected later, stays wrong until the informers
resync, so `AppsConverge` assumes the resync and `Converges` leaves Applications out.

Bounds. Two Flows are enough for one to find the shared objects another has just
written; two edits for a Flow that is changed, or deleted, after its creation; one fault
and one restart for every position of each in a call. `MaxVersion` only stops the
garbage collector, which otherwise fights for ever with a worker that does not yet know
of a deletion. `CHECK_DEADLOCK` is off because a cluster that is in order is at rest.

Fairness (`FairSpec`). Weak for the worker, the informers and the garbage collector;
strong for taking a Flow from the queue, which is first in, first out. None for users,
others, faults and restarts.

### Findings

4. *Ready is not told by a retry* (`FRReady`, `flow_controller.go:591`). The condition is
   set only by a call that changed an object. If that call fails after its last change,
   the retry finds no drift and leaves the condition as it was; so does a broken Flow
   that is changed back to the spec its objects still have.
5. *Events are not taken away* (`FREvents`, `flow_controller.go:498`). `DeepDerivative`
   takes a prefix of a list for the list: a trigger that loses its last pull request
   events, or a Flow that loses its last trigger, leaves the Sensor as it was.

### Proofs: `FlowReconcile_proofs`

For any Flows, namespaces, projects, repositories and specs, any tampering, and any
number of edits, faults and restarts. The assumptions are that each Flow has one
namespace, that a spec has the fields of a spec, that `None` is not a value, and that
what the cluster starts with and what others write are contents an object can have. The
invariant `IInv` has four layers, each of which needs those before it:

1. `TypeInv`: types, and the form of the steps left of a call: each is a step of this
   Flow and this spec, and the last one, and no other, ends the call.
2. `VersionInv`, `OwnerInv`: what was read is never newer than what is there, and is the
   same if its version is; so an Update that is accepted replaces what was compared.
3. `CacheInv`, `OrderInv`, `SyncedInv`: a shared object that a cache shows as wanted is
   so, or others changed it, or its deletion was blind; a step that stands for others
   (the RoleBinding, which ends a namespace, and the settings, which end a repository)
   comes after those others or finds them done; and what is recorded as synced is done.
   The first clause is why a stale cache does no harm: the reconciler's own writes only
   ever bring a shared object to the value that every Flow wants.
4. `OwedInv`, `QueueInv`, `SensorInv`: what a call has left to do is at least what its
   spec needs and is not synced; a Flow that is not queued is the one being reconciled,
   in the spec that is in the cache, or has nothing left to do.

| theorem | property |
| --- | --- |
| `FlowReconcileTypes` | `TypeOK` |
| `SyncedCachesAreRight` | `SyncedMeansApplied` |
| `EventSourceKeepsItsRepos` | `ReposKept` |
| `WorkIsNeverForgotten` | `NothingForgotten` |
| `SensorsSettle` | `SensorSettled` |
| `ReadyMeansReconciled` | `ReadyOnCurrentSpec` |

None of the four safety invariants is inductive, and none follows from one layer alone:
`SyncedMeansApplied` must know what a call in progress has done so far, and
`NothingForgotten` what it has left. `Converges` and `AppsConverge` are model-checked
only.

## 4. The components without shared state: `MCComponents`

Four parts of the program share no state with each other or with the modules above.
They are modelled in modules of their own and checked in one run, `Components`: the
variable `part` picks one in the initial state, the others rest in a state in which
their fairness asks for nothing, so that every behaviour is one of the chosen
component and each property speaks of it alone. The run starts from 1814 initial
states: 1781 Flows, 33 repositories, one log, one token.

### 4.1 From a Flow to its workflow: `FlowBuild`, `FlowWorkflow`

`FlowBuild` has no variables. `PreProcessFlow` parses, defaults and validates;
`BuildArgoApps`, `TriggerParameters` and the tasks (`InitialTask`, one `...Task` per
kind of step, `FinalTask`) are the builders; the `...Template` operators are the six
templates of `workflowtemplates.go` with the inputs a task must pass, those they have,
the inputs their containers refer to, their outputs, volumes and mounts. `Build` puts them
together as `Reconcile` does, with the condition of each early return. A task is a
record: its template, the arguments it passes, the workflow parameters their values
refer to, `depends`, `when`, the dockerfile found for it, its application and its lock.

`FlowWorkflow` gives the result a life. `BuildInit` applies a Flow; `StartWorkflow` is
an event that one of the Sensor's dependencies lets through, after which Argo
Workflows accepts or rejects the workflow (`Accepted`); `StartTask`, `SkipTask`,
`OmitTask`, `FinishTask` and `FailTask` are what Argo does with a task given `depends`
and `when`; `EndTasks` is the end, when all have ended or the deadline has passed.
`StartCheck` is the call of GitHub by the container of the first task, which may still
fail or be stopped before its id is an output; `ExitHook` passes `workflow.status` on
(`Conclusion`), if the id is known (`CheckIdKnown`) and its own pod does not fail. Argo, the task images and the image registry are external:
they are modelled from what the builders rely on (a task's `depends` needs success, a
`when` on a reported status, `failFast`, unique names, declared volumes, a mutex).

| property | says |
| --- | --- |
| `BuildTypeOK` | every outcome of `Build` is one of its early returns or a workflow; a deployment is never built without a dockerfile; an image name has one content |
| `SearchMeetsReference` | the breadth-first search for a deployment's dockerfile agrees with a reference definition on the graph of `dependsOn`, with cycles, diamonds, unknown names and an empty path |
| `RunsIffWellFormed` | a workflow that is built is accepted exactly if the Flow is well formed; so tasks, templates and parameters agree with each other, which nothing in the code checks |
| `ParametersFilled` | each workflow parameter gets the part of the event it is named for |
| `AppsMatchTasks` | the application a task syncs is one that was applied, unless another step took its name |
| `DeploysOnlyBuilt` | a deployment that runs deploys an image of this revision and of its dockerfile, unless a build test hides the skip or two dockerfiles share an image name |
| `SuccessMeansDeployed` | a check that GitHub shows as passed means that every deployment of the Flow succeeded, or had a step below it that reported nothing to do |

That a check which was started is also completed is *not* a property: the id is lost
with the pod that fails after creating the check, or the exit handler's pod fails, and
then the check stays open. The model has these behaviours; the code and its docs promise
nothing else (see `hazards`).

The exceptions are behaviour of the code, not of the model: `GetAppName` maps
`shop` and `shop-argo-configs`, or `a/b` and `a-b`, to one name; `getWhen` looks at
direct dependencies only; `api/Dockerfile` and `Dockerfile.api` have one image name.
`WellFormed` likewise names what a Flow may get wrong without the reconciler noticing:
two triggers, two steps of one name, a cycle, an unknown dependency, a mount without a
volume, a build test under a push trigger.

Bounds. The Flows are all combinations of three steps (a publishing step, a step of
any kind, a deployment of either kind) with either trigger and dependencies that are
absent, direct, indirect, doubled, cyclic or unknown (`Dags`), and a list of special
ones (`Special`) for every other branch: triggers, names, URLs, applications, image
names, volumes. Three steps suffice for an indirect dependency, two paths and a cycle.

Fairness. None: the properties of this part are invariants and one action property.

`Accepted` goes beyond Argo's own validation in one thing: a volume mount without a
volume is refused only by the API server, when the pod is created; it is counted as not
accepted, since such a workflow cannot do its work.

Proofs (`FlowWorkflow_proofs`), for any set of Flows with steps, triggers and
dependencies of any number and names (`FlowAssumption` says only that they have the
fields of a Flow):

- `SearchIsCorrect`: `SearchMeetsReference`. The breadth-first search is a recursive
  function on its states (the queue, what was visited, the path found so far). That there
  is such a function is proved first, as the least relation closed under the steps of
  the loop. It is total since each step visits a step of the Flow or shortens the queue:
  a smallest state without a result cannot be. It is right by the loop's invariant
  `LoopInv`: whatever a visited step depends on is visited or queued, only what the
  reference graph leads to is either, and the path found is the only one so far.
- `BuildTypes`: `BuildTypeOK`; the proof goes through `Build` task by task.
- `DeploymentsAreBuilt`: `DeploysOnlyBuilt`, from `BuildInv`: a workflow that runs was
  accepted (`RunInv`); what let a task start has ended and so stays as it was
  (`DependsInv`, `WhenInv`); and a task that succeeded has left its report and its image
  (`ReportInv`, `ImageInv`). An image may be missing only where another task publishes
  under its name.
- `GreenMeansDeployed`: `SuccessMeansDeployed`, from `OutcomeInv`: a task that was skipped
  or omitted has a failed task in the workflow or a reported skip below it
  (`LeftOutInv`), where "below" is passed on along `depends` (`BelowTransitive`); a report
  comes from a task that succeeded (`UnreportedInv`); and a check turns green only when
  every task has ended without failing (`GreenInv`), which is not so where the deadline
  stopped a task or kept it from starting.
- `ParametersAreFilled`, `AppsAreApplied`: `ParametersFilled`, `AppsMatchTasks`.
- `WellFormedFlowsRun`: `RunsIffWellFormed`, both ways. That a workflow from a
  well-formed Flow is accepted goes through every kind of task against its template; the
  other way, each defect that `WellFormed` names is found by one check of Argo's. The
  proof found that `WellFormed` had to allow a dependency on the task that starts the
  GitHub check, which is no step of the Flow; the run has such a Flow.

`Below` and `Acyclic` define what lies below a task as the least set closed under its
edges: the reachability of the module `Graphs` is a function of two arguments, which
the prover cannot expand.

### 4.2 GitHub settings: `GhSettings`

One pass of `SyncGitHubSettingsForRepo` is a sequence of calls, one action each:
`FindInstallation`, `GetRepo`, `ListRulesets`, `ReadRuleset` and `Write` (the edit of the repository, the creation
or the update of the ruleset). `pass` holds what has been read. A setting is in the set
of those at their wanted value or not, and what the code does not look at is one
version number per object. `FixSettings` and `FixRuleset` are the comparisons with
their corrections. Any call may fail, the answer of a write may be lost (`CallFails`), the
process may restart, and people edit, delete and add rulesets between any two calls.
`ListRulesets` sees the first page, including the organisation's rulesets, as
`GetAllRulesets` without options does; `ReadRuleset` finds the repository's own only.

| property | says |
| --- | --- |
| `GhTypeOK` | among the types: there is at most one ruleset of our name, and a synced repository has no pass |
| `SyncedMeansRight` | a pass without an edit in it leaves every setting and every rule as wanted |
| `SecondPassQuiet` | what is created and written satisfies every check of the next pass |
| `KeepsOthers` | no write loses what people set before the object was read |
| `GhSettles` | failures do not keep a repository from being synced; only a hidden ruleset does |

A ruleset is hidden (`DefaultHidden`) if it is not in the first page or follows one of
the organisation with its name: then every pass fails. The three properties that
exempt it show that it is the only such case.

Bounds. `PageSize` 2 with up to three rulesets puts one beyond the page; `MaxEdits` 2
allows an edit before and one within a pass; `MaxFailures` 2 a failure and another in
its retry, or a restart. Every single setting starts wrong in one of the
repositories; one flag and one rule are enough for later edits, as all are
treated alike. Fairness: the worker runs and requeues; people need do nothing.

Proofs (`GhSettings_proofs`), for any page size, flags, numbers of edits and failures,
and any rulesets found that GitHub can hold (`Kept`: no two of one id, at most one of the
repository's own with our name): `GhTypes`, `SyncedRepositoriesAreRight`
(`SyncedMeansRight`), `SecondPassWritesNothing` (`SecondPassQuiet`) and
`OthersSettingsKept` (`KeepsOthers`). The invariant `GhInv` is the types with `SettledInv`
and `ReadInv`. `SettledInv` says what a pass without an edit in it has done so far, and
that after such a pass nothing is left to write; `ReadInv` that what a pass will write
over is as it was read. Both are conditional on the number of edits, since any edit may
undo them. `GhSettles` is model-checked only.

### 4.3 The log of a container: `LogStream`

`FlowWatcher` sees a log stream as a job that sends now and then; `LogStream` looks
inside: the scanner goroutine (`scanner`, `scanned`), the streamer with its debounce
timer and buffer (`streamer`, `timer`, `logLines`), and the connection's writer
(`wire`). A slice is an address and a length over `heap`, because
the buffer is cut with `logLines[:0]` and keeps the array that the writer may still be
encoding (`AppendLine`, `EncodeLine`). `sendConn`'s check of the ctx belongs to the
step before the select, as in `FlowWatcher`.

| property | says |
| --- | --- |
| `LogTypeOK` | among the types: a slice never exceeds its array |
| `EndMarkerLast` | the empty message is the last one and comes after every line |
| `LinesFlushed` | a line is sent although the container neither logs again nor ends |
| `StreamReleased` | both goroutines end with the connection, wherever they are blocked |
| `LinesAsLogged` (run `LSLines`) | is violated, see below |

Bounds. Four lines (`MaxLines`) are a message, one that overlaps it, a growth of the
array and a rest; three suffice for the violation. Because a log is
finite, a container that logs more often than every 50 ms for ever, whose lines are
never flushed, is out of reach. Fairness: every goroutine, the timer and the socket's
write; none for the container or the client.

Proofs (`LogStream_proofs`), for logs of any length: `LogTypes` (`LogTypeOK`) and
`EndMarkerIsLast` (`EndMarkerLast`). The invariant `LogInv` has, besides the types,
`ScanInv`, `HeapInv` (an array never has more lines than were scanned, and what a slice
covers are lines), `CountInv` (while the connection lives, every line scanned is at the
client, on the wire, in the buffer or on offer) and `MarkerInv`. `EndMarkerLast` counts
lines and does not say which they are: that is what `LinesAsLogged` asks, and the
code violates. The lemma on appending to a list of lists (`FlattenAppend`) is proved by
a least counterexample. `LinesFlushed` and `StreamReleased` are model-checked only.

### 4.4 The Argo CD token: `ArgoSync`

`getAuthToken` under its mutex is `GetAuthToken` (with the mutex: use the
cached token or ask for a session) followed by `SessionCreated` or `SessionFails`;
`SyncApp` is the request itself. A token is the time at which it was issued,
anywhere between the start of the request and its answer.

| property | says |
| --- | --- |
| `ArgoTypeOK` | among the types: only the holder of the mutex is in a session, and the token is never older than the time kept with it |
| `TokenFresh` | a cached token is handed out only within the threshold, through failed and slow refreshes |
| `SessionsApart` | concurrent callers that find the token old cause one refresh |
| `SyncReturns` | every call returns: no path keeps the mutex |

Bounds. Two callers, threshold 2, validity 4, clock to 7: two callers meet at the
mutex at each of three refreshes. Fairness: `sync.Mutex` does not starve
a waiter (strong), and calls of Argo CD return.

`ArgoSync_proofs` proves the first three for any callers, thresholds, validity and
clock (`ArgoTypeCorrect`, `TokenFreshTheorem`, `SessionsApartTheorem`), from the
assumption that a token lives at least twice as long as the threshold. The inductive
invariant is `ArgoTypeOK` with `SessionInv`: a caller in a session read a time past
the threshold of the last refresh. It stays true because that caller has the mutex, so
nobody else can refresh. `SyncReturns` is model-checked
only.

### Finding

6. *A log line is overwritten on its way* (`LSLines`,
   `container_log_message_handler.go:118`). A line that arrives while the writer
   encodes the last message takes the place of that message's first line.

## 5. All runs

| run | module | expected | distinct states |
| --- | --- | --- | --- |
| `FWUpdates` | `MCFlowWatcher` | pass | 591 570 |
| `FWJobs` | `MCFlowWatcher` | pass | 54 760 |
| `FWLive` | `MCFlowWatcher` | pass | 91 663 |
| `FWWriteFailure`, `FWSendOnClosed`, `FWTombstone` | `MCFlowWatcher` | violation | |
| `FRSync` | `MCFlowReconcile` | pass | 1 207 274 |
| `FRLive` | `MCFlowReconcile` | pass | 377 491 |
| `FRReady`, `FREvents` | `MCFlowReconcile` | violation | |
| `Components` | `MCComponents` | pass | 142 675 |
| `LSLines` | `LogStream` | violation | |

## 6. What is proved and what is only checked

Every invariant and every action property of the passing runs, and the refinement of
`ConnLifecycle`, is a theorem; `PROJECT.json` lists them under `theorems`. Each inductive
invariant was also checked by TLC on the module's instances. The proofs assume the
`ASSUME`s of the modules, which TLC evaluates for the instances; `NoLostUpdateTheorem`
also assumes that no informer misses a deletion, and the theorems on the GitHub settings
start from rulesets that GitHub can hold.

Only checked:

- liveness: `NoGoroutineLeak`, `ErrorCloses`, `HubReturns`, `RegisterCompletes` and
  `Converges` of the hub; `Converges` and `AppsConverge` of the reconciler;
  `GhSettles`, `LinesFlushed`, `StreamReleased`, `SyncReturns`. A proof
  needs `ENABLED` of the fair actions, which the prover cannot expand;
- the violations: each is a counterexample.

Induction over data is out of the prover's reach in general, because the library's
induction theorems take an operator as a parameter. Two proofs need it, of the search
and of `FlattenSeq`: they take a least counterexample in `Nat` (`WFMin`,
`NatLessThanWellFounded`) instead.

## 7. Plan

1. What the inductive invariants show beyond the properties, as properties of their own
   where they matter: an Update that is accepted replaces what was compared; lines of a
   log are neither lost nor doubled while the connection lives.
2. Abstract specifications of the reconciler (what an observer of the cluster may rely
   on) and of the log stream, and the refinements.
3. The hazards that no property covers yet.

## 8. Not modelled

- `SyncWorkflowTemplates`: one call repeated every five seconds until it succeeds.
- The REST reads (one lookup each, without state) and `workflow_mysql.go` (the archived
  workflows, read once at start and never again).
- `cmd/main.go` (flags, TLS and wiring), generated deep copies, manifests and tests.
- The contents of the EventBus, EventSource, volume claims and RBAC objects, images,
  artifacts, environment and labels of the built objects, JSON decoding.
- The spelling of a repository's URL beyond its `.git` suffix. `GetRepoOrgName` accepts
  URLs with and without it; the Sensor's filter compares the trigger's URL with GitHub's
  `clone_url`, which has it (`Matches`), so that a Flow without the suffix is built and never started.
- The aliasing of objects between the informer and its readers, and pods that move
  between applications (the hazards without a property in `PROJECT.json`).
