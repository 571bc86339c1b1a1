----------------------------- MODULE FlowReconcile -----------------------------
(***************************************************************************)
(* The Flow reconciler (internal/controller/flow_controller.go): one       *)
(* worker takes Flows from a work queue and applies, in the order of       *)
(* Reconcile, the objects every Flow of a namespace shares, the            *)
(* AppProjects, the Applications, the Sensor, the EventSource that all     *)
(* Flows share, the GitHub settings and the condition of the Flow.         *)
(*                                                                         *)
(* The worker reads from the informers' cache, which lags behind the API   *)
(* server object by object, and writes to the API server, which refuses a  *)
(* Create of what exists and an Update of another version than the latest. *)
(* Meanwhile users edit Flows, others change objects, the garbage          *)
(* collector removes the objects of deleted Flows, requests fail with or   *)
(* without having taken effect, and the process restarts.                  *)
(*                                                                         *)
(* Kept: every request, check, early return and cache of Reconcile, and    *)
(* the order of all.  Abstracted: an object is what the comparison of      *)
(* Reconcile tells apart, a GitHub repository's settings are applied or    *)
(* not, a condition is its reason.  Bounds: MaxEdits, MaxTampers,          *)
(* MaxFaults, MaxRestarts, and MaxVersion: a Flow whose deletion is not    *)
(* known yet is reconciled against the garbage collector for ever.         *)
(*                                                                         *)
(* An operator D_bug is the definition D with a plausible bug: no action   *)
(* uses it, and a property that D satisfies fails when it replaces D.      *)
(***************************************************************************)
EXTENDS Naturals, Sequences, FiniteSets

CONSTANTS Flows, Namespaces, Apps, Projects, Repos,
          AppSpecs,      \* the specs an Application may have
          Events,        \* the pull request events a Sensor may listen to
          NamespaceOf,   \* NamespaceOf[f]: the namespace of Flow f
          SpecsOf,       \* SpecsOf[f]: the specs its users may give it
          InitialVals,   \* what the objects may be at first: functions on Objects
          Tampering,     \* Tampering[o]: what others may turn object o into
          None,          \* the content of an object that does not exist
          Resyncs,       \* whether the informers resync (every 10 hours)
          MaxVersion,    \* the garbage collector stops at this version
          MaxEdits, MaxTampers, MaxFaults, MaxRestarts

(***************************************************************************)
(* The objects of a namespace in the order they are applied.               *)
(***************************************************************************)
SharedKinds == <<"EventBus", "PersistentVolumeClaim", "ServiceAccount", "Role", "RoleBinding">>
Shared(n) == {<<SharedKinds[i], n>> : i \in DOMAIN SharedKinds}
EventSource == <<"EventSource", "github">>
SensorOf(f) == <<"Sensor", f>>
Owned == ({"Application"} \X Apps) \cup ({"Sensor"} \X Flows)
Objects == (UNION {Shared(n) : n \in Namespaces}) \cup ({"AppProject"} \X Projects)
           \cup Owned \cup {EventSource}

(***************************************************************************)
(* Contents.  "current" is what the operator builds, "drift" differs in a  *)
(* field it may update, "badRef" is a RoleBinding with another RoleRef.    *)
(* An Application's content is one of its specs, a Sensor's the sequence   *)
(* of pull request events it listens to, the EventSource's the set of      *)
(* repositories it receives webhooks for.                                  *)
(*                                                                         *)
(* A Flow's spec says what it is built into, and at which stage Reconcile  *)
(* gives it up: "owner" is an Application of another namespace, which the  *)
(* Flow cannot own.                                                        *)
(***************************************************************************)
BrokenAt == {"no", "preprocess", "apps", "owner", "sensor", "repo"}
Reasons == {"none", "PreProcessFailed", "AppBuildFailed", "SensorBuildFailed",
            "EventSourceFailed", "FlowSynced"}

ASSUME NamespaceAssumption == NamespaceOf \in [Flows -> Namespaces]
ASSUME SpecAssumption ==
  \A f \in Flows :
    SpecsOf[f] \subseteq [broken : BrokenAt, projects : Seq(Projects), repo : Repos,
                         apps : Seq([name : Apps, val : AppSpecs]), events : Seq(Events)]

Content(o) ==
  CASE o[1] = "Application" -> AppSpecs
    [] o[1] = "Sensor" -> Seq(Events)
    [] o[1] = "EventSource" -> SUBSET Repos
    [] o[1] = "RoleBinding" -> {"current", "drift", "badRef"}
    [] OTHER -> {"current", "drift"}

ASSUME NoneAssumption ==
  /\ None \notin Flows \cup AppSpecs \cup {"current", "drift", "badRef"}
  /\ None \notin Seq(Events) /\ \A R \in SUBSET Repos : None # R
  /\ \A f \in Flows : None \notin SpecsOf[f]
ASSUME ContentAssumption ==
  /\ \A o \in Objects, v \in InitialVals : v[o] = None \/ (v[o] \in Content(o) /\ o \notin Owned)
  /\ \A o \in Objects : \A val \in Tampering[o] : val = None \/ val \in Content(o)
ASSUME BoundAssumption ==
  Resyncs \in BOOLEAN /\ MaxVersion \in Nat /\ MaxEdits \in Nat /\ MaxTampers \in Nat /\ MaxFaults \in Nat /\ MaxRestarts \in Nat

VARIABLES
  flow,              \* flow[f]: the Flow at the API server
  obj,               \* obj[o]: the object at the API server
  flowCache, cache,  \* what the informers know of them
  configured,        \* the repositories whose GitHub settings are applied
  queue,             \* the Flows in the work queue
  worker,            \* the call of Reconcile in progress
  syncedNamespaces,  \* r.SyncedNamespaces
  syncedProjects,    \* r.SyncedProjects
  syncedRepos,       \* r.SyncedRepos
  touched,           \* (history) objects others have changed since the start
  blind,             \* (history) objects deleted in a version the worker had not read
  budget             \* (bounds) what may still go wrong

clusterVars == <<flow, obj, configured>>
cacheVars == <<flowCache, cache>>
syncedVars == <<syncedNamespaces, syncedProjects, syncedRepos>>
history == <<touched, blind>>
vars == <<clusterVars, cacheVars, queue, worker, syncedVars, history, budget>>

NoOwner == <<>>
NoSpec == None
Gone(rv) == [rv |-> rv, val |-> None, owner |-> NoOwner]
Here(ob) == ob.val # None
Exists(fl) == fl.spec # NoSpec
IdleWorker == [pc |-> "idle", flow |-> None, uid |-> 0, rv |-> 0, spec |-> NoSpec,
               cond |-> "none", todo |-> <<>>, held |-> Gone(0), drift |-> FALSE]

Init ==
  /\ flow = [f \in Flows |-> [rv |-> 0, uid |-> 0, spec |-> NoSpec, cond |-> "none"]]
  /\ \E v \in InitialVals :
        obj = [o \in Objects |-> [rv |-> 0, val |-> v[o], owner |-> NoOwner]]
  /\ flowCache = flow
  /\ cache = obj
  /\ configured = {}
  /\ queue = {}
  /\ worker = IdleWorker
  /\ syncedNamespaces = {}
  /\ syncedProjects = {}
  /\ syncedRepos = {}
  /\ touched = {}
  /\ blind = {}
  /\ budget = [edits |-> MaxEdits, tampers |-> MaxTampers,
               faults |-> MaxFaults, restarts |-> MaxRestarts]

Less(counter) == [budget EXCEPT ![counter] = @ - 1]

(***************************************************************************)
(* The steps of one call of Reconcile for a spec, in order.  "apply" reads *)
(* an object and creates or updates it; "settings" is the call to GitHub;  *)
(* "condition" ends the call with a condition; "error" with an error.      *)
(***************************************************************************)
Step(do, o, want) == [do |-> do, obj |-> o, want |-> want]
Condition(reason) == <<Step("condition", EventSource, reason)>>

ApplyShared(n) == [i \in DOMAIN SharedKinds |-> Step("apply", <<SharedKinds[i], n>>, "current")]
ApplyProjects(s) ==
  [i \in DOMAIN s.projects |-> Step("apply", <<"AppProject", s.projects[i]>>, "current")]
ApplyApps(s) ==
  [i \in DOMAIN s.apps |-> Step("apply", <<"Application", s.apps[i].name>>, s.apps[i].val)]
ApplySensor(f, s) == <<Step("apply", SensorOf(f), s.events)>>
ApplyRepo(s) ==
  <<Step("apply", EventSource, {s.repo}), Step("settings", EventSource, {s.repo})>>

Plan(f, s) ==
  IF s.broken = "preprocess" THEN Condition("PreProcessFailed")
  ELSE (IF NamespaceOf[f] \in syncedNamespaces THEN <<>> ELSE ApplyShared(NamespaceOf[f]))
    \o (IF s.broken = "apps" THEN Condition("AppBuildFailed")
        ELSE ApplyProjects(s)
          \o (IF s.broken = "owner" THEN <<Step("error", EventSource, None)>>
              ELSE ApplyApps(s)
                \o (IF s.broken = "sensor" THEN Condition("SensorBuildFailed")
                    ELSE ApplySensor(f, s)
                      \o (IF s.broken = "repo" THEN Condition("EventSourceFailed")
                          ELSE (IF s.repo \in syncedRepos THEN <<>> ELSE ApplyRepo(s))
                            \o Condition("FlowSynced")))))

(***************************************************************************)
(* equality.Semantic.DeepDerivative(want, val) of apimachinery: a slice    *)
(* may be longer than the wanted one, and an empty wanted slice matches    *)
(* all.  Of the contents modelled only a Sensor's is spelled out, since    *)
(* only its wanted value changes with the Flow's spec.                     *)
(***************************************************************************)
DeepDerivative(want, val) == Len(want) <= Len(val) /\ want = SubSeq(val, 1, Len(want))

(***************************************************************************)
(* Whether the content val of object o needs no write.  A ServiceAccount   *)
(* has nothing to compare, an EventSource only has to have the repository. *)
(* The other kinds are compared by DeepDerivative too (the rules of a      *)
(* Role, the subjects of a RoleBinding, the whole spec of an Application), *)
(* against a wanted value that stays the same or is a value of its own per *)
(* spec: want stands for every content that the comparison accepts, longer *)
(* slices included, and another value for one that it does not.            *)
(***************************************************************************)
Matches(o, want, val) ==
  /\ val # None
  /\ CASE o[1] = "ServiceAccount" -> TRUE
       [] o[1] = "Sensor" -> DeepDerivative(want, val)
       [] o[1] = "EventSource" -> want \subseteq val
       [] OTHER -> val = want

(***************************************************************************)
(* What Reconcile writes over the content it has read: mergeOwnedRepos     *)
(* adds the repository to those of the EventSource.  {} is a spec.github   *)
(* without repositories; one that is missing altogether, which             *)
(* BuildEventSource never makes, is left out (the merge would write to a   *)
(* nil map, and the call end in a panic that the controller recovers).     *)
(***************************************************************************)
Merged(o, want, val) == IF o = EventSource THEN val \cup want ELSE want

-------------------------------------------------------------------------------
(***************************************************************************)
(* The end of a call, and of one of its steps.                             *)
(***************************************************************************)
Return == worker' = IdleWorker /\ UNCHANGED <<queue, syncedVars>>

Requeue_drop == Return

\* an error puts the Flow back into the queue (the delay is not modelled)
Requeue ==
  /\ worker' = IdleWorker
  /\ queue' = queue \cup {worker.flow}
  /\ UNCHANGED syncedVars

MarkSynced_early(st) ==
  /\ syncedNamespaces' = IF st.obj[1] = "Role" THEN syncedNamespaces \cup {st.obj[2]} ELSE syncedNamespaces
  /\ syncedProjects' = IF st.obj[1] = "AppProject" THEN syncedProjects \cup {st.obj[2]} ELSE syncedProjects
  /\ syncedRepos' = IF st.do = "settings" THEN syncedRepos \cup st.want ELSE syncedRepos

\* the Synced* caches are set when the last step they stand for is done
MarkSynced(st) ==
  /\ syncedNamespaces' = IF st.obj[1] = "RoleBinding"
                         THEN syncedNamespaces \cup {st.obj[2]} ELSE syncedNamespaces
  /\ syncedProjects' = IF st.obj[1] = "AppProject"
                       THEN syncedProjects \cup {st.obj[2]} ELSE syncedProjects
  /\ syncedRepos' = IF st.do = "settings" THEN syncedRepos \cup st.want ELSE syncedRepos

Advance(drift) ==
  /\ worker' = [worker EXCEPT !.pc = "step", !.todo = Tail(@), !.held = Gone(0),
                              !.drift = @ \/ drift]
  /\ MarkSynced(Head(worker.todo))
  /\ UNCHANGED queue

\* a request took effect, but its answer may be lost
Answer(success) ==
  \/ success /\ UNCHANGED budget
  \/ budget.faults > 0 /\ budget' = Less("faults") /\ Requeue

At(pc) == worker.pc = pc
Todo == Head(worker.todo)
Doing(do) == At("step") /\ Todo.do = do

(***************************************************************************)
(* Reconcile                                                               *)
(***************************************************************************)
StartReconcile(f) ==
  /\ At("idle") /\ f \in queue
  /\ queue' = queue \ {f}
  /\ worker' = IF Exists(flowCache[f])
               THEN [IdleWorker EXCEPT !.pc = "step", !.flow = f, !.uid = flowCache[f].uid,
                       !.rv = flowCache[f].rv, !.spec = flowCache[f].spec,
                       !.cond = flowCache[f].cond, !.todo = Plan(f, flowCache[f].spec)]
               ELSE IdleWorker
  /\ UNCHANGED <<clusterVars, cacheVars, syncedVars, history, budget>>

Skips_apps(st) == st.obj[1] \in {"AppProject", "Application"} /\ syncedProjects # {}
Skips(st) == st.obj[1] = "AppProject" /\ st.obj[2] \in syncedProjects

SkipProject ==
  /\ Doing("apply") /\ Skips(Todo)
  /\ Advance(FALSE)
  /\ UNCHANGED <<clusterVars, cacheVars, history, budget>>

\* r.Get and the comparison
ReadObject ==
  /\ Doing("apply") /\ ~Skips(Todo)
  /\ LET got == cache[Todo.obj] IN
       \/ Matches(Todo.obj, Todo.want, got.val) /\ Advance(FALSE)
       \/ /\ ~Matches(Todo.obj, Todo.want, got.val)
          /\ worker' = [worker EXCEPT !.pc = "write", !.held = got]
          /\ UNCHANGED <<queue, syncedVars>>
  /\ UNCHANGED <<clusterVars, cacheVars, history, budget>>

OwnerRef(o) == IF o \in Owned THEN <<worker.flow, worker.uid>> ELSE NoOwner
Put(o, val, owner) ==
  obj' = [obj EXCEPT ![o] = [rv |-> @.rv + 1, val |-> val, owner |-> owner]]
Refused_return == Return /\ UNCHANGED <<obj, budget>>
Refused == Requeue /\ UNCHANGED <<obj, budget>>

\* r.Create: AlreadyExists if the object does
CreateObject ==
  /\ (At("write") /\ ~Here(worker.held)) \/ At("recreate")
  /\ LET o == Todo.obj IN
       \/ ~Here(obj[o]) /\ Put(o, Todo.want, OwnerRef(o)) /\ Answer(Advance(TRUE))
       \/ Here(obj[o]) /\ Refused
  /\ UNCHANGED <<flow, configured, cacheVars, history>>

\* the RoleRef is immutable, so the RoleBinding has to be recreated
Replaces(o, held) == o[1] = "RoleBinding" /\ held.val = "badRef"

Accepts_any(o, held) == Here(obj[o])

\* the API server refuses an Update of another version than the latest
Accepts(o, held) == Here(obj[o]) /\ obj[o].rv = held.rv

\* r.Update of the object read, with the built spec
UpdateObject ==
  /\ At("write") /\ Here(worker.held) /\ ~Replaces(Todo.obj, worker.held)
  /\ LET o == Todo.obj IN
       \/ /\ Accepts(o, worker.held)
          /\ Put(o, Merged(o, Todo.want, worker.held.val), worker.held.owner)
          /\ Answer(Advance(TRUE))
       \/ ~Accepts(o, worker.held) /\ Refused
  /\ UNCHANGED <<flow, configured, cacheVars, history>>

\* r.Delete has no precondition: it deletes whatever has the name
DeleteBinding ==
  /\ At("write") /\ Replaces(Todo.obj, worker.held)
  /\ LET o == Todo.obj IN
       \/ /\ Here(obj[o]) /\ Put(o, None, obj[o].owner)
          /\ Answer(worker' = [worker EXCEPT !.pc = "recreate"]
                    /\ UNCHANGED <<queue, syncedVars>>)
          /\ blind' = IF obj[o].rv = worker.held.rv THEN blind ELSE blind \cup {o}
       \/ ~Here(obj[o]) /\ Refused /\ UNCHANGED blind
  /\ UNCHANGED <<flow, configured, cacheVars, touched>>

\* ctrl.SetControllerReference refuses an owner of another namespace
OwnerError ==
  /\ Doing("error")
  /\ Requeue
  /\ UNCHANGED <<clusterVars, cacheVars, history, budget>>

SyncGitHubSettings ==
  /\ Doing("settings")
  /\ configured' = configured \cup Todo.want
  /\ Answer(Advance(FALSE))
  /\ UNCHANGED <<flow, obj, cacheVars, history>>

\* the condition FlowSynced is only set after a change; no other is a choice
Unchanged == worker.cond = Todo.want \/ (Todo.want = "FlowSynced" /\ ~worker.drift)
FlowAccepts_any == Exists(flow[worker.flow])
FlowAccepts == Exists(flow[worker.flow]) /\ flow[worker.flow].rv = worker.rv

SetCondition ==
  /\ Doing("condition")
  /\ \/ Unchanged /\ Return /\ UNCHANGED <<flow, budget>>
     \/ /\ ~Unchanged /\ FlowAccepts
        /\ flow' = [flow EXCEPT ![worker.flow].cond = Todo.want, ![worker.flow].rv = @ + 1]
        /\ Answer(worker' = [worker EXCEPT !.pc = "refetch"] /\ UNCHANGED <<queue, syncedVars>>)
     \/ ~Unchanged /\ ~FlowAccepts /\ Requeue /\ UNCHANGED <<flow, budget>>
  /\ UNCHANGED <<obj, configured, cacheVars, history>>

\* setCondition ends with a Get of the Flow
Refetch ==
  /\ At("refetch")
  /\ \/ Exists(flowCache[worker.flow]) /\ Return
     \/ ~Exists(flowCache[worker.flow]) /\ Requeue
  /\ UNCHANGED <<clusterVars, cacheVars, history, budget>>

\* a request (of the step at hand) fails without having taken effect
Requests ==
  /\ ~At("idle") /\ ~Doing("error")
  /\ Doing("condition") => ~Unchanged
  /\ Doing("apply") => ~Skips(Todo)
RequestFails ==
  /\ Requests /\ budget.faults > 0
  /\ budget' = Less("faults")
  /\ Requeue
  /\ UNCHANGED <<clusterVars, cacheVars, history>>

Reconcile ==
  \/ SkipProject \/ ReadObject \/ CreateObject \/ UpdateObject \/ DeleteBinding
  \/ OwnerError \/ SyncGitHubSettings \/ SetCondition \/ Refetch

-------------------------------------------------------------------------------
(***************************************************************************)
(* The informers.  A Flow's event queues the Flow, a Sensor's queues the   *)
(* Flow that owns it: SetupWithManager watches no other kind.              *)
(***************************************************************************)
FlowEvent(f) ==
  /\ flowCache[f] # flow[f]
  /\ flowCache' = [flowCache EXCEPT ![f] = flow[f]]
  /\ queue' = queue \cup {f}
  /\ UNCHANGED <<clusterVars, cache, worker, syncedVars, history, budget>>

Owners_none(o) == {}
Owners_name(o) == {o[2]}

\* handler.EnqueueRequestForOwner, for the old and the new object; the event of
\* a deletion carries the object, so obj[o] keeps the owner it had
Owners(o) ==
  IF o[1] = "Sensor"
  THEN {ob.owner[1] : ob \in {x \in {cache[o], obj[o]} : x.owner # NoOwner}} ELSE {}

ObjectEvent(o) ==
  /\ cache[o] # obj[o]
  /\ cache' = [cache EXCEPT ![o] = obj[o]]
  /\ queue' = queue \cup Owners(o)
  /\ UNCHANGED <<clusterVars, flowCache, worker, syncedVars, history, budget>>

\* the informers repeat what they know
Resync(f) ==
  /\ Resyncs /\ Exists(flowCache[f]) /\ f \notin queue
  /\ queue' = queue \cup {f}
  /\ UNCHANGED <<clusterVars, cacheVars, worker, syncedVars, history, budget>>

(***************************************************************************)
(* The environment.                                                        *)
(***************************************************************************)
EditFlow(f, s) ==
  /\ budget.edits > 0 /\ budget' = Less("edits")
  /\ flow[f].spec # s
  /\ flow' = [flow EXCEPT ![f] =
       [rv |-> @.rv + 1, uid |-> IF Exists(@) THEN @.uid ELSE @.uid + 1,
        spec |-> s, cond |-> IF Exists(@) THEN @.cond ELSE "none"]]
  /\ UNCHANGED <<obj, configured, cacheVars, queue, worker, syncedVars, history>>

DeleteFlow(f) ==
  /\ budget.edits > 0 /\ budget' = Less("edits")
  /\ Exists(flow[f])
  /\ flow' = [flow EXCEPT ![f] =
       [rv |-> @.rv + 1, uid |-> @.uid, spec |-> NoSpec, cond |-> "none"]]
  /\ UNCHANGED <<obj, configured, cacheVars, queue, worker, syncedVars, history>>

\* the garbage collector deletes what a deleted Flow owned
CollectGarbage(o) ==
  /\ Here(obj[o]) /\ obj[o].owner # NoOwner /\ obj[o].rv < MaxVersion
  /\ LET owner == flow[obj[o].owner[1]] IN
       ~Exists(owner) \/ owner.uid # obj[o].owner[2]
  /\ Put(o, None, obj[o].owner)
  /\ UNCHANGED <<flow, configured, cacheVars, queue, worker, syncedVars, history, budget>>

\* somebody else changes or deletes an object
Tamper(o, val) ==
  /\ budget.tampers > 0 /\ budget' = Less("tampers")
  /\ Here(obj[o]) /\ obj[o].val # val
  /\ Put(o, val, obj[o].owner)
  /\ touched' = touched \cup {o}
  /\ UNCHANGED <<blind, flow, configured, cacheVars, queue, worker, syncedVars>>

\* the process restarts: its caches are filled anew, the Synced* ones are empty
Restart ==
  /\ budget.restarts > 0 /\ budget' = Less("restarts")
  /\ worker' = IdleWorker
  /\ syncedNamespaces' = {} /\ syncedProjects' = {} /\ syncedRepos' = {}
  /\ flowCache' = flow /\ cache' = obj
  /\ queue' = {f \in Flows : Exists(flow[f])}
  /\ touched' = {} /\ blind' = {}
  /\ UNCHANGED clusterVars

Environment ==
  \/ \E f \in Flows : (\E s \in SpecsOf[f] : EditFlow(f, s)) \/ DeleteFlow(f)
  \/ \E o \in Objects : CollectGarbage(o) \/ \E val \in Tampering[o] : Tamper(o, val)
  \/ Restart

Next ==
  \/ \E f \in Flows : StartReconcile(f) \/ FlowEvent(f) \/ Resync(f)
  \/ Reconcile \/ RequestFails
  \/ \E o \in Objects : ObjectEvent(o)
  \/ Environment

Spec == Init /\ [][Next]_vars

(***************************************************************************)
(* The worker and the informers go on; the queue is first in, first out,   *)
(* so a Flow that is tried again for ever does not starve another.  The    *)
(* garbage collector and the resync are promised by Kubernetes.  Nothing   *)
(* is assumed of the rest of the environment.                              *)
(***************************************************************************)
Fairness ==
  /\ WF_vars(Reconcile)
  /\ \A f \in Flows : SF_vars(StartReconcile(f)) /\ WF_vars(FlowEvent(f))
  /\ \A o \in Objects : WF_vars(ObjectEvent(o)) /\ WF_vars(CollectGarbage(o))

FairSpec == Spec /\ Fairness

-------------------------------------------------------------------------------
(***************************************************************************)
(* Properties.                                                             *)
(***************************************************************************)
FlowState(f) == [rv : Nat, uid : Nat, spec : SpecsOf[f] \cup {NoSpec}, cond : Reasons]
IsObject(o, ob) ==
  /\ DOMAIN ob = {"rv", "val", "owner"} /\ ob.rv \in Nat
  /\ ob.val = None \/ ob.val \in Content(o)
  /\ ob.owner = NoOwner \/ ob.owner \in Flows \X Nat

TypeOK ==
  /\ \A f \in Flows : flow[f] \in FlowState(f) /\ flowCache[f] \in FlowState(f)
  /\ \A o \in Objects : IsObject(o, obj[o]) /\ IsObject(o, cache[o])
  /\ configured \subseteq Repos
  /\ queue \subseteq Flows
  /\ worker.pc \in {"idle", "step", "write", "recreate", "refetch"}
  /\ worker.pc # "idle" =>
       /\ worker.flow \in Flows /\ worker.spec \in SpecsOf[worker.flow]
       /\ worker.todo # <<>> /\ Todo.obj \in Objects
       /\ IsObject(Todo.obj, worker.held)
  /\ syncedNamespaces \subseteq Namespaces
  /\ syncedProjects \subseteq Projects
  /\ syncedRepos \subseteq Repos
  /\ touched \subseteq Objects /\ blind \subseteq Objects
  /\ budget \in [edits : 0 .. MaxEdits, tampers : 0 .. MaxTampers,
                 faults : 0 .. MaxFaults, restarts : 0 .. MaxRestarts]

Applied(o, want) == Matches(o, want, obj[o].val)
ProjectsOf(s) == {s.projects[i] : i \in DOMAIN s.projects}

\* What the Synced* caches say is true: every object they stand for is as built,
\* unless others have changed it since the process started.  A failed request, a
\* stale read, a RoleBinding deleted and not recreated must not be cached as done.
\* The one exception: a RoleBinding may be missing if r.Delete hit another version
\* of it than the one read (flow_controller.go:313 sends no precondition).
SyncedMeansApplied ==
  /\ \A n \in syncedNamespaces : \A o \in Shared(n) \ touched :
       Applied(o, "current") \/ (o \in blind /\ ~Here(obj[o]))
  /\ \A p \in syncedProjects : <<"AppProject", p>> \in touched \/ Applied(<<"AppProject", p>>, "current")
  /\ EventSource \in touched \/ \A r \in syncedRepos : Applied(EventSource, {r})
  /\ syncedRepos \subseteq configured

\* what Reconcile is to leave done for a Flow, as the Synced* caches record it
SyncedFor(f, s) ==
  /\ s.broken # "preprocess" => NamespaceOf[f] \in syncedNamespaces
  /\ s.broken \in {"owner", "sensor", "repo", "no"} => ProjectsOf(s) \subseteq syncedProjects
  /\ s.broken # "owner"
  /\ s.broken = "no" => s.repo \in syncedRepos

Pending(f) == f \in queue \/ worker.flow = f

\* Work that failed is never forgotten: a Flow known to the informer is in the
\* queue, being reconciled, or done as far as its spec allows.
NothingForgotten ==
  \A f \in Flows : Exists(flowCache[f]) => Pending(f) \/ SyncedFor(f, flowCache[f].spec)

\* When nothing is to be done for a Flow and its Sensor is known as it is, the
\* Sensor has what the Flow's spec asks for, whoever changed either, and whatever
\* was read from a stale cache: the watch of owned Sensors makes up for it.
SensorSettled ==
  \A f \in Flows :
    /\ Exists(flowCache[f]) /\ flowCache[f].spec.broken \in {"repo", "no"}
    /\ ~Pending(f) /\ cache[SensorOf(f)] = obj[SensorOf(f)]
    => Applied(SensorOf(f), flowCache[f].spec.events)

\* No write of the reconciler takes a repository out of the EventSource that all
\* Flows share (mergeOwnedRepos works on a copy that may be stale).
ReposKept ==
  [][ budget'.tampers = budget.tampers /\ Here(obj[EventSource])
      => Here(obj[EventSource]') /\ obj[EventSource].val \subseteq obj[EventSource]'.val ]_vars

\* Ready becomes true only for the spec that was reconciled, when all it needs is
\* synced: a Flow edited, or deleted and created again, meanwhile is not marked.
ReadyOnCurrentSpec ==
  [][ \A f \in Flows :
        flow'[f].cond = "FlowSynced" /\ flow[f].cond # "FlowSynced"
        => /\ worker.flow = f /\ worker.spec = flow'[f].spec
           /\ worker.spec.broken = "no" /\ SyncedFor(f, worker.spec) ]_vars

Live(f) == Exists(flow[f]) /\ flow[f].spec.broken = "no"

\* Once others leave the cluster alone, everything but the Applications comes to
\* be as the Flows say and stays so, without a restart and without a resync.
Converges ==
  <>[](\A f \in Flows : Live(f) =>
        LET s == flow[f].spec IN
          /\ Applied(SensorOf(f), s.events)
          /\ s.repo \in configured
          /\ EventSource \in touched \/ Applied(EventSource, {s.repo})
          /\ \A o \in Shared(NamespaceOf[f]) \cup ({"AppProject"} \X ProjectsOf(s)) :
               o \in touched \/ Applied(o, "current"))

\* The Applications, which are not watched, do so thanks to the resync.
AppsConverge ==
  (\A f \in Flows : WF_vars(Resync(f)))
  => <>[](\A f \in Flows : Live(f) =>
           LET s == flow[f].spec IN
             \A i \in DOMAIN s.apps : Applied(<<"Application", s.apps[i].name>>, s.apps[i].val))

(***************************************************************************)
(* A Flow that is settled: nothing to do, nothing to learn, all applied.   *)
(***************************************************************************)
Settled(f) ==
  /\ Live(f) /\ flowCache = flow /\ cache = obj /\ ~Pending(f)
  /\ \A i \in DOMAIN Plan(f, flow[f].spec) :
       LET st == Plan(f, flow[f].spec)[i] IN st.do = "apply" => Applied(st.obj, st.want)

\* "Represents the observations of a Flow's current state" (flow_types.go:58): the
\* condition of a settled Flow says it is synced.
ReadyIsCurrent == \A f \in Flows : Settled(f) => flow[f].cond = "FlowSynced"

\* "list of GitHub pull request event types that will trigger the PR workflow"
\* (trigger_types.go:38): the Sensor of a settled Flow listens to no others.
EventsAsListed == \A f \in Flows : Settled(f) => obj[SensorOf(f)].val = flow[f].spec.events

================================================================================
