------------------------------ MODULE FlowWorkflow ------------------------------
(***************************************************************************)
(* The life of one workflow: a Flow is built (FlowBuild), an event starts  *)
(* the workflow, and Argo Workflows, which is external, validates it and   *)
(* runs its tasks as depends and when say.  The tasks report what they did *)
(* (jettison-deploy-step-status), and the last one pushed under an image   *)
(* name is what a deployment of that name gets.                            *)
(***************************************************************************)
EXTENDS FlowBuild

CONSTANTS
  Flows,      \* the Flows that are applied
  Events      \* what GitHub may report

ASSUME FlowAssumption == Flows \subseteq FlowSpecs

VARIABLES
  flow,       \* the Flow
  built,      \* what the reconciler built from it
  phase,      \* the Flow and its workflow, of Phases
  status,     \* status[i]: the i-th task
  report,     \* report[i]: its jettison-deploy-step-status
  images,     \* [dir, dockerfile]: what was last pushed under each image suffix
  check       \* the GitHub check of the revision

BuildVars == <<flow, built, phase, status, report, images, check>>

Tasks == DOMAIN built.tasks
Task(i) == built.tasks[i]
TasksOf(names) == {i \in Tasks : Task(i).name \in names}

Phases == {"applied", "refused", "rejected", "running", "exit", "done"}
Statuses == {"pending", "running", "succeeded", "failed", "skipped", "omitted"}

--------------------------------------------------------------------------------
(* What Argo accepts of a workflow (external).                                *)

\* What n leads to: the least set that has the successors of n and of its elements.
Below(graph, n) ==
  {m \in graph.node : \A X \in SUBSET graph.node :
     (\A e \in graph.edge : e[1] \in X \cup {n} => e[2] \in X) => m \in X}

Acyclic(graph) == \A n \in graph.node : n \notin Below(graph, n)

TaskNames == {Task(i).name : i \in Tasks}
DependsGraph ==
  [node |-> TaskNames,
   edge |-> UNION {{<<Task(i).name, d>> : d \in Task(i).depends} : i \in Tasks}]

\* The template has its inputs and its volumes.  An undeclared mount is found by the
\* API server when the pod is created, the rest by Argo when the workflow is.
TemplateFits(t) ==
  /\ t.template.needs \subseteq t.args
  /\ t.template.uses \subseteq t.args \cup t.template.has
  /\ t.template.mounts \subseteq t.template.volumes

Accepted ==
  /\ \A i, j \in Tasks : Task(i).name = Task(j).name => i = j
  /\ \A i, j \in DOMAIN built.parameters : built.parameters[i] = built.parameters[j] => i = j
  /\ \A i \in Tasks :
       /\ TemplateFits(Task(i))
       /\ Task(i).refs \subseteq ToSet(built.parameters)
       /\ Task(i).depends \subseteq TaskNames
       /\ \A j \in TasksOf(Task(i).when) : DeployStepStatus \in Task(j).template.outputs
  /\ FinalTask.template.needs \subseteq FinalTask.args
  /\ Acyclic(DependsGraph)

--------------------------------------------------------------------------------
BuildInit ==
  /\ flow \in Flows
  /\ built = Build(flow)
  /\ phase = IF built.pc = "built" THEN "applied" ELSE "refused"
  /\ status = [i \in Tasks |-> "pending"]
  /\ report = [i \in Tasks |-> "none"]
  /\ images = {}
  /\ check = "none"

Pre == PreProcessFlow(flow)
ByName == StepsByName(Pre.steps)
Ended(i) == status[i] \notin {"pending", "running"}

\* An event that one of the Sensor's dependencies lets through creates the workflow.
StartWorkflow ==
  /\ phase = "applied"
  /\ \E i \in DOMAIN Pre.triggers : \E event \in Events : Matches(Pre.triggers[i], event)
  /\ phase' = IF Accepted THEN "running" ELSE "rejected"
  /\ UNCHANGED <<flow, built, status, report, images, check>>

DependsMet(i) == \A j \in TasksOf(Task(i).depends) : status[j] = "succeeded"
\* The comparison of getWhen with Skipped is the wrong way round.
WhenMet_inverted(i) == \A j \in TasksOf(Task(i).when) : report[j] = "Skipped"
WhenMet(i) == \A j \in TasksOf(Task(i).when) : report[j] # "Skipped"

\* Argo's mutex of the ArgoCD template: one deployment per resource path at a time.
LockFree(i) ==
  \A j \in Tasks : status[j] = "running" => Task(j).lock = <<>> \/ Task(j).lock # Task(i).lock

SomeFailed == \E i \in Tasks : status[i] = "failed"

StartTask(i) ==
  /\ phase = "running" /\ status[i] = "pending" /\ ~SomeFailed
  /\ DependsMet(i) /\ WhenMet(i) /\ LockFree(i)
  /\ status' = [status EXCEPT ![i] = "running"]
  /\ UNCHANGED <<flow, built, phase, report, images, check>>

\* when is false.
SkipTask(i) ==
  /\ phase = "running" /\ status[i] = "pending" /\ ~SomeFailed
  /\ DependsMet(i) /\ ~WhenMet(i)
  /\ status' = [status EXCEPT ![i] = "skipped"]
  /\ UNCHANGED <<flow, built, phase, report, images, check>>

\* Its depends cannot be met any more, or a task has failed (failFast).
OmitTask(i) ==
  /\ phase = "running" /\ status[i] = "pending"
  /\ \/ SomeFailed
     \/ \E j \in TasksOf(Task(i).depends) : Ended(j) /\ status[j] # "succeeded"
  /\ status' = [status EXCEPT ![i] = "omitted"]
  /\ UNCHANGED <<flow, built, phase, report, images, check>>

\* The diff check of a build, and the update of a config repository, may find
\* nothing to do.
Reports(i) == IF DeployStepStatus \in Task(i).template.outputs THEN {"Done", "Skipped"} ELSE {"none"}

Push(i) ==
  {m \in images : m.dir # Task(i).dir} \cup {[dir |-> Task(i).dir, dockerfile |-> Task(i).dockerfile]}

\* The container of github-check-start creates the check before it writes the id.
StartsCheck(i) == Task(i).source = "GitHubCheckStart"

StartCheck(i) ==
  /\ phase = "running" /\ status[i] = "running" /\ StartsCheck(i)
  /\ check = "none"
  /\ check' = "started"
  /\ UNCHANGED <<flow, built, phase, status, report, images>>

FinishTask(i) ==
  /\ phase = "running" /\ status[i] = "running"
  /\ StartsCheck(i) => check = "started"
  /\ status' = [status EXCEPT ![i] = "succeeded"]
  /\ \E r \in Reports(i) : report' = [report EXCEPT ![i] = r]
  /\ images' = IF Task(i).source = "DockerBuildTestPublish" /\ report'[i] = "Done"
                 THEN Push(i) ELSE images
  /\ UNCHANGED <<flow, built, phase, check>>

FailTask(i) ==
  /\ phase = "running" /\ status[i] = "running"
  /\ status' = [status EXCEPT ![i] = "failed"]
  /\ UNCHANGED <<flow, built, phase, report, images, check>>

\* Every task has ended, or activeDeadlineSeconds have passed: what runs is stopped,
\* what has not started stays so.
EndTasks ==
  /\ phase = "running"
  /\ phase' = "exit"
  /\ status' = [i \in Tasks |-> IF status[i] = "running" THEN "failed" ELSE status[i]]
  /\ UNCHANGED <<flow, built, report, images, check>>

\* What workflow.status tells the check.
Conclusion ==
  IF \A i \in Tasks : status[i] \in {"succeeded", "skipped", "omitted"} THEN "success" ELSE "failure"

\* check-run-id is an output, which a task has only if it succeeded.
CheckIdKnown == \E i \in Tasks : StartsCheck(i) /\ status[i] = "succeeded"

\* The exit handler is a pod, which may fail and has a deadline of its own.
ExitHook ==
  /\ phase = "exit"
  /\ phase' = "done"
  /\ \/ CheckIdKnown /\ check' = Conclusion
     \/ UNCHANGED check
  /\ UNCHANGED <<flow, built, status, report, images>>

BuildNext ==
  \/ StartWorkflow \/ EndTasks \/ ExitHook
  \/ \E i \in Tasks : StartTask(i) \/ SkipTask(i) \/ OmitTask(i)
  \/ \E i \in Tasks : StartCheck(i) \/ FinishTask(i) \/ FailTask(i)

BuildSpec == BuildInit /\ [][BuildNext]_BuildVars

--------------------------------------------------------------------------------
(* Properties.                                                                *)

BuildTypeOK ==
  /\ phase \in Phases
  /\ built.pc \in {"built", "PreProcessFailed", "AppBuildFailed", "SensorBuildFailed", "panic"}
  /\ (phase = "refused") <=> (built.pc # "built")
  /\ built.type \in {"PR", "commit", "none"}
  /\ status \in [Tasks -> Statuses]
  /\ report \in [Tasks -> {"none", "Done", "Skipped"}]
  /\ \A i \in Tasks : DeployStep(Task(i)) => Task(i).dockerfile # NoPath
  /\ \A m, n \in images : m.dir = n.dir => m = n
  /\ check \in {"none", "started", "success", "failure"}

(***************************************************************************)
(* The search for a deployment's dockerfile finds the one of the only      *)
(* publishing step that is below the deployment in dependsOn, however far, *)
(* through whatever steps, on several paths or on a cycle; it reports      *)
(* several if there are several, and none exactly if none of them names a  *)
(* dockerfile; a dependency that is no step is never overlooked            *)
(* (sensor_trigger_tasks.go:474-506).  Where a step with an empty path is  *)
(* among several publishers the answer depends on the order in which they  *)
(* are met, and all that is asked is that it is not none.                  *)
(***************************************************************************)
StepGraph ==
  LET names == StepNames(Pre.steps)
      known == UNION {ToSet(ByName[n].dependsOn) : n \in names}
  IN [node |-> names \cup known,
      edge |-> UNION {{<<n, d>> : d \in ToSet(ByName[n].dependsOn)} : n \in names}]

SearchMeetsReference ==
  phase \in {"applied", "refused"} /\ Pre.ok =>
    \A n \in {m \in StepNames(Pre.steps) : DeployStep(ByName[m])} :
      LET found == GetDockerfilePathDependency(n, ByName)
          below == Below(StepGraph, n)
          publishers == {m \in below \cap StepNames(Pre.steps) :
                           ByName[m].source = "DockerBuildTestPublish"}
          paths == {ByName[m].dockerfile : m \in publishers}
      IN IF below \subseteq StepNames(Pre.steps)
           THEN /\ found.pc \in {"path", "missing", "multiple"}
                /\ Cardinality(publishers) = 1 /\ NoPath \notin paths =>
                     found = [pc |-> "path", path |-> CHOOSE p \in paths : TRUE]
                /\ Cardinality(publishers) > 1 /\ NoPath \notin paths => found.pc = "multiple"
                /\ found.pc = "missing" <=> paths \subseteq {NoPath}
           ELSE found.pc \in {"panic", "multiple"}

(***************************************************************************)
(* A Flow that the reconciler builds is one that Argo runs, if and only if *)
(* it has one trigger, its steps have names of their own that are not the  *)
(* check's, depend on each other or on the check without a cycle, declare  *)
(* what they mount, and do not test a build against the base revision of a *)
(* push: what the tasks pass and refer to is what the templates and the    *)
(* workflow's parameters have (sensor_trigger_tasks.go,                    *)
(* sensor_trigger_parameters.go, workflowtemplates.go; nothing but this    *)
(* model looks at the three).                                              *)
(***************************************************************************)
WellFormed ==
  LET steps == Pre.steps
      names == StepNames(steps)
  IN /\ Len(Pre.triggers) = 1
     /\ Cardinality(names) = Len(steps) /\ GitHubCheckStart \notin names
     /\ StepGraph.node \subseteq names \cup {GitHubCheckStart} /\ Acyclic(StepGraph)
     /\ \A i \in DOMAIN steps :
          /\ steps[i].source \in {"DockerBuildTest", "DockerBuildTestPublish"} =>
               steps[i].mounts \subseteq Task(i + 1).template.volumes
          /\ steps[i].source = "DockerBuildTest" => Pre.triggers[1].source = "GitHubPullRequest"
RunsIffWellFormed ==
  [][phase = "applied" => (phase' = "running" <=> WellFormed)]_BuildVars

\* Each parameter of a workflow that runs gets the part of the event it is named
\* for: the positions in the two lists agree (sensor_trigger_parameters.go:16, 77).
KeyFor(type, parameter) ==
  CASE parameter = "repo" -> IF type = "PR" THEN "head.repo.clone_url" ELSE "repository.clone_url"
    [] parameter = "revision" -> IF type = "PR" THEN "head.sha" ELSE "after"
    [] parameter = "repo-short" -> IF type = "PR" THEN "head.repo.full_name" ELSE "repository.full_name"
    [] parameter = "revision-ref" -> IF type = "PR" THEN "head.ref" ELSE "ref"
    [] parameter = "revision-title" -> IF type = "PR" THEN "title" ELSE "head_commit.message"
    [] parameter = "revision-author" -> IF type = "PR" THEN "user.login" ELSE "pusher.name"
    [] parameter = "base-revision" -> "base.sha"
    [] parameter = "base-revision-ref" -> "base.ref"
    [] parameter = "revision-number" -> "number"
ParametersFilled ==
  phase = "running" =>
    \A i \in DOMAIN built.parameters :
      {k.key : k \in {m \in ToSet(built.keys) : m.dest = i}} = {KeyFor(built.type, built.parameters[i])}

\* The application that a deployment syncs is one the reconciler has made for it,
\* with its repository and path, unless another step's application has the same
\* name (sensor_trigger_tasks.go:332, app_builder.go:88-125).
AppOf(t) == [name |-> t.app, namespace |-> t.org, url |-> t.lock[1], path |-> t.lock[2]]
AppsMatchTasks ==
  phase = "applied" =>
    \A i \in {k \in Tasks : Task(k).source = "ArgoCD"} :
      \/ AppOf(Task(i)) \in built.apps
      \/ \E j \in 1 .. i - 1 :
           /\ Task(j).source = "ArgoCD" /\ Task(j).app = Task(i).app
           /\ AppOf(Task(j)) # AppOf(Task(i))

(***************************************************************************)
(* A deployment that runs deploys an image of its revision: the publishing *)
(* step it was matched with has succeeded and was not skipped, and what is *)
(* under its image name was built from its dockerfile                      *)
(* (sensor_trigger_tasks.go:379, 434, 533-557).  The step may have been    *)
(* skipped if a build test comes between the two, whose own report hides   *)
(* it; and two publishing steps may share an image name.                   *)
(***************************************************************************)
DeployGraph ==
  [node |-> TaskNames,
   edge |-> UNION {{<<Task(i).name, d>> : d \in Task(i).depends} :
                     i \in {j \in Tasks : DeployStep(Task(j))}}]
DeploysOnlyBuilt ==
  phase = "running" =>
    \A i \in Tasks :
      DeployStep(Task(i)) /\ status[i] \in {"running", "succeeded"} =>
        \E j \in Tasks :
          /\ Task(j).source = "DockerBuildTestPublish" /\ Task(j).dockerfile = Task(i).dockerfile
          /\ Task(j).name \in Below(DependsGraph, Task(i).name)
          /\ status[j] = "succeeded"
          /\ Task(j).name \in Below(DeployGraph, Task(i).name) => report[j] = "Done"
          /\ \/ report[j] = "Skipped"
             \/ [dir |-> Task(i).dir, dockerfile |-> Task(j).dockerfile] \in images
             \/ \E k \in Tasks \ {j} :
                  Task(k).source = "DockerBuildTestPublish" /\ Task(k).dir = Task(j).dir

(***************************************************************************)
(* A check that GitHub shows as passed means that everything the Flow      *)
(* deploys was deployed, unless a step that the deployment waits for,      *)
(* directly or not, reported that it had nothing to do: neither a failure  *)
(* that skips or omits the tasks after it nor the deadline ends in a green *)
(* check (sensor_trigger_tasks.go:444-472, 531-574).                       *)
(***************************************************************************)
SuccessMeansDeployed ==
  check = "success" =>
    \A i \in Tasks :
      DeployStep(Task(i)) =>
        \/ status[i] = "succeeded"
        \/ \E j \in Tasks : /\ Task(j).name \in Below(DependsGraph, Task(i).name)
                            /\ report[j] = "Skipped"
================================================================================
