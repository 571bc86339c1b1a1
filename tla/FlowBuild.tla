-------------------------------- MODULE FlowBuild --------------------------------
(***************************************************************************)
(* What the reconciler computes from a Flow, as operators: parsing,        *)
(* defaults and validation (api/v1alpha1), the Argo CD projects and        *)
(* applications (appbuilder), the Sensor and the Workflow it submits       *)
(* (sensorbuilder), and the templates its tasks refer to                   *)
(* (workflowtemplates).                                                    *)
(*                                                                         *)
(* Names are strings.  A repository name or a path segment is the sequence *)
(* of its atoms, which a dash joins in a repository name and a dot in a    *)
(* file name.  A field that may be nil is a sequence of length 0 or 1.     *)
(* Left out: images, artifacts, mount paths, accounts, labels, letter case.*)
(***************************************************************************)
EXTENDS Integers, Sequences, FiniteSets, SequencesExt

Default(option, value) == IF option = <<>> THEN value ELSE option[1]

--------------------------------------------------------------------------------
(* The specs that the API server lets a user write (flow_types.go,            *)
(* trigger_types.go, step_types.go): the fields of all kinds together.        *)

Paths == [dir : Seq(Seq(STRING)), file : Seq(STRING)]
Urls == [host : STRING, path : Seq(Seq(STRING)), git : BOOLEAN]

TriggerSpecs ==
  [source : STRING, url : Urls, events : Seq(SUBSET STRING), baseRef : Seq(STRING)]
StepSpecs ==
  [source : STRING, name : Seq(STRING), dependsOn : Seq(STRING), dockerfile : Seq(Paths),
   contextDir : Seq(Seq(Seq(STRING))), url : Urls, path : Seq(Seq(STRING)),
   baseRef : Seq(STRING), volumes : SUBSET STRING, mounts : SUBSET STRING]
FlowSpecs == [triggers : Seq(TriggerSpecs), steps : Seq(StepSpecs), deadline : Seq(Int)]

--------------------------------------------------------------------------------
(* PreProcessFlow: parse, apply defaults, validate.                           *)

TriggerSources == {"GitHubPullRequest", "GitHubPush"}
StepSources == {"DockerBuildTest", "DockerBuildTestPublish", "ArgoCD", "GitHubCreatePR"}

DefaultPullRequestEvents == {"opened", "reopened", "synchronize"}
DefaultBaseRef == "main"
DefaultDockerfilePath(dir) == [dir |-> dir, file |-> <<"dockerfile">>]
DefaultActiveDeadlineSeconds(triggers) ==
  IF \E i \in DOMAIN triggers : triggers[i].source = "GitHubPush" THEN 3600 ELSE 900

TriggerDefaults(t) ==
  [source |-> t.source, url |-> t.url,
   events |-> Default(t.events, DefaultPullRequestEvents),
   baseRef |-> Default(t.baseRef, DefaultBaseRef)]

StepDefaults(s) ==
  LET dir == Default(s.contextDir, <<>>)
  IN [source |-> s.source, name |-> Default(s.name, s.source), dependsOn |-> s.dependsOn,
      contextDir |-> dir, dockerfile |-> Default(s.dockerfile, DefaultDockerfilePath(dir)),
      url |-> s.url, path |-> s.path, baseRef |-> Default(s.baseRef, DefaultBaseRef),
      volumes |-> s.volumes, mounts |-> s.mounts]

ParseTrigger(t) == t.source \in TriggerSources
ParseStep(s) == s.source \in StepSources

Validate(triggers, steps) ==
  /\ triggers # <<>>
  /\ \A i \in DOMAIN triggers :
       triggers[i].source = "GitHubPullRequest" => triggers[i].events # {}
  /\ steps # <<>>

\* Op of each element.
Each(Op(_), s) == [i \in DOMAIN s |-> Op(s[i])]

PreProcessFlow(flow) ==
  LET triggers == Each(TriggerDefaults, flow.triggers)
      steps == Each(StepDefaults, flow.steps)
  IN [ok |-> /\ \A i \in DOMAIN flow.triggers : ParseTrigger(flow.triggers[i])
             /\ \A i \in DOMAIN flow.steps : ParseStep(flow.steps[i])
             /\ Validate(triggers, steps),
      triggers |-> triggers, steps |-> steps,
      deadline |-> Default(flow.deadline, DefaultActiveDeadlineSeconds(triggers))]

--------------------------------------------------------------------------------
(* gitutil and appbuilder.                                                    *)

\* <<org, name>>, or <<>> for an error.  The .git suffix (url.git) is optional.
GetRepoOrgName(url) ==
  IF url.host = "github" /\ Len(url.path) = 2 THEN url.path ELSE <<>>

ConfigRepoSuffix == <<"argo", "configs">>
TrimConfigSuffix(name) ==
  LET n == Len(name) - 2
  IN IF n > 0 /\ SubSeq(name, n + 1, n + 2) = ConfigRepoSuffix THEN SubSeq(name, 1, n) ELSE name

\* The slashes of the path become dashes, as in the name.
GetAppName(name, path) == TrimConfigSuffix(name) \o FlattenSeq(path)

Deploys(steps) == {i \in DOMAIN steps : steps[i].source = "ArgoCD"}
StepApp(s) == GetAppName(GetRepoOrgName(s.url)[2], s.path)

\* One application per organisation, as with the projects.
BuildArgoApps_byOrg(steps) ==
  LET deploys == Deploys(steps)
      repo(i) == GetRepoOrgName(steps[i].url)
      first(i) == \A j \in deploys : j < i => repo(j)[1] # repo(i)[1]
  IN IF \E i \in deploys : repo(i) = <<>>
       THEN [ok |-> FALSE, projects |-> {}, applications |-> {}]
       ELSE [ok |-> TRUE,
             projects |-> {repo(i)[1] : i \in deploys},
             applications |->
               {[name |-> StepApp(steps[i]), namespace |-> repo(i)[1],
                 url |-> steps[i].url, path |-> steps[i].path] :
                 i \in {j \in deploys : first(j)}}]

\* The first step of a name makes the application, whatever the organisation.
BuildArgoApps(steps) ==
  LET deploys == Deploys(steps)
      repo(i) == GetRepoOrgName(steps[i].url)
      first(i) == \A j \in deploys : j < i => StepApp(steps[j]) # StepApp(steps[i])
  IN IF \E i \in deploys : repo(i) = <<>>
       THEN [ok |-> FALSE, projects |-> {}, applications |-> {}]
       ELSE [ok |-> TRUE,
             projects |-> {repo(i)[1] : i \in deploys},
             applications |->
               {[name |-> StepApp(steps[i]), namespace |-> repo(i)[1],
                 url |-> steps[i].url, path |-> steps[i].path] :
                 i \in {j \in deploys : first(j)}}]

--------------------------------------------------------------------------------
(* The parameters of the workflow (sensor_trigger_parameters.go).             *)

GlobalWorkflowParameters ==
  <<"repo", "revision", "repo-short", "revision-ref", "revision-title", "revision-author">>
PrWorkflowParameters == <<"base-revision", "base-revision-ref", "revision-number">>

\* Every trigger has the global parameters only.
WorkflowParameters_noPr(triggers) == GlobalWorkflowParameters
WorkflowParameters(triggers) ==
  GlobalWorkflowParameters \o
    FlattenSeq([i \in DOMAIN triggers |->
                  IF triggers[i].source = "GitHubPullRequest" THEN PrWorkflowParameters ELSE <<>>])

\* The i-th element is the part of the event that the sensor writes to the
\* workflow's argument i (from 0 in the code: spec.arguments.parameters.0.value).
PullRequestKeys_swapped ==
  <<"head.repo.clone_url", "head.sha", "head.repo.full_name", "head.ref", "title", "user.login",
    "base.ref", "base.sha", "number">>
PullRequestKeys ==
  <<"head.repo.clone_url", "head.sha", "head.repo.full_name", "head.ref", "title", "user.login",
    "base.sha", "base.ref", "number">>
PushKeys ==
  <<"repository.clone_url", "after", "repository.full_name", "ref", "head_commit.message",
    "pusher.name">>

TriggerParameters(triggers) ==
  FlattenSeq([i \in DOMAIN triggers |->
    LET keys == IF triggers[i].source = "GitHubPullRequest" THEN PullRequestKeys ELSE PushKeys
    IN [k \in DOMAIN keys |-> [dest |-> k, key |-> keys[k]]]])

(***************************************************************************)
(* getSensorDependencies: which events start the workflow.  The URL is     *)
(* compared as it is written, and GitHub's clone_url ends in .git.  All    *)
(* of the triggers' dependencies have the one name github-event-dep.       *)
(***************************************************************************)
Matches(trigger, event) ==
  /\ event.kind = trigger.source
  /\ event.url = trigger.url
  /\ IF trigger.source = "GitHubPullRequest"
       THEN event.action \in trigger.events /\ event.open
       ELSE event.ref = trigger.baseRef

--------------------------------------------------------------------------------
(* The templates the tasks refer to (workflowtemplates.go): the inputs a task *)
(* must supply and those with a value, the inputs that the containers and the *)
(* mutex refer to, the outputs, the volumes mounted and declared.             *)

Template(needs, has, uses, outputs, mounts, volumes) ==
  [needs |-> needs, has |-> has, uses |-> uses, outputs |-> outputs,
   mounts |-> mounts, volumes |-> volumes]

DeployStepStatus == "jettison-deploy-step-status"
GitHubApp == {"github-app-id", "github-app-user-id", "github-app-user-name"}

GitHubCheckStartTemplate ==
  Template({"repo-short", "event-type", "revision"}, {"github-app-id", "workflow-url"},
           {"github-app-id", "repo-short", "workflow-url", "event-type", "revision"},
           {"check-run-id"}, {"github-key"}, {"github-key"})

DockerBuildTestTemplate ==
  Template({"repo", "revision", "dockerfile-path", "docker-context-dir", "revision-ref",
            "base-revision", "base-revision-ref", "num-artifacts"}, {},
           {"repo", "revision", "revision-ref", "base-revision", "base-revision-ref",
            "dockerfile-path", "docker-context-dir"}     \* the clone and diff check
             \cup {"dockerfile-path", "docker-context-dir", "num-artifacts"},    \* the build
           {DeployStepStatus},
           {"docker-build-pr-workspace", "docker-build-pr-artifacts", "buildkit-cache"},
           {"docker-build-pr-workspace", "docker-build-pr-artifacts", "buildkit-cache"})

DockerBuildTestPublishTemplate ==
  Template({"repo", "revision", "revision-ref", "dockerfile-path", "docker-context-dir",
            "image-repo", "dockerfile-dir", "num-artifacts"}, {"image-registry"},
           {"repo", "revision", "revision-ref", "dockerfile-path", "docker-context-dir"}
             \cup {"revision", "revision-ref", "dockerfile-path", "docker-context-dir",
                   "image-registry", "image-repo", "dockerfile-dir", "num-artifacts"},
           {DeployStepStatus},
           {"docker-build-commit-workspace", "docker-build-commit-artifacts", "docker-config",
            "buildkit-cache"},
           {"docker-build-commit-workspace", "docker-build-commit-artifacts", "docker-config",
            "buildkit-cache"})

ArgoCDTemplate ==
  Template({"deploy-repo", "deploy-revision", "resource-path", "image-repo", "build-revision",
            "dockerfile-dir", "argocd-app-namespace", "argocd-app-name"},
           GitHubApp \cup {"image-registry"},
           {"deploy-repo", "deploy-revision", "resource-path", "image-registry", "image-repo",
            "build-revision", "dockerfile-dir", "argocd-app-namespace", "argocd-app-name"}
             \cup GitHubApp \cup {"deploy-repo", "resource-path"},    \* the mutex's name
           {DeployStepStatus}, {"github-key"}, {"github-key"})

GitHubCreatePrTemplate ==
  Template({"target-repo", "target-repo-short-name", "target-branch", "file-paths", "image-repo",
            "build-revision", "dockerfile-dir"},
           GitHubApp \cup {"image-registry"},
           {"target-repo", "target-repo-short-name", "target-branch", "file-paths",
            "image-registry", "image-repo", "build-revision", "dockerfile-dir"} \cup GitHubApp,
           {"jettison-created-pr-number"}, {"github-key"}, {"github-key"})

GitHubCheckCompleteTemplate ==
  Template({"repo-short", "event-type", "check-run-id", "workflow-status"},
           {"github-app-id", "workflow-url"},
           {"github-app-id", "repo-short", "workflow-url", "event-type", "check-run-id",
            "workflow-status"}, {}, {"github-key"}, {"github-key"})

--------------------------------------------------------------------------------
(* Searches over the steps (sensor_trigger_tasks.go).                         *)

StepNames(steps) == {steps[i].name : i \in DOMAIN steps}

\* A map that the steps are put in one after the other: the last of a name stays.
StepsByName(steps) ==
  [n \in StepNames(steps) |->
     steps[CHOOSE i \in DOMAIN steps :
             steps[i].name = n /\ \A j \in DOMAIN steps : steps[j].name = n => j <= i]]

NoPath == [dir |-> <<>>, file |-> <<>>]        \* the empty string

\* Only the steps that are named by dependsOn itself.
GetDockerfilePathDependency_direct(name, byName) ==
  LET deps == {n \in ToSet(byName[name].dependsOn) \cap DOMAIN byName :
                 byName[n].source = "DockerBuildTestPublish"}
  IN CASE deps = {} -> [pc |-> "missing", path |-> NoPath]
       [] Cardinality(deps) > 1 -> [pc |-> "multiple", path |-> NoPath]
       [] OTHER -> [pc |-> "path", path |-> byName[CHOOSE n \in deps : TRUE].dockerfile]

(***************************************************************************)
(* getDockerfilePathDependency: breadth first through dependsOn.  A name   *)
(* that is not a step is a nil interface in the map, and calling           *)
(* GetDependsOn on it panics.                                              *)
(***************************************************************************)
SearchStates(byName) ==
  [queue : Seq(STRING), visited : SUBSET DOMAIN byName,
   path : {NoPath} \cup {byName[n].dockerfile : n \in DOMAIN byName}]

GetDockerfilePathDependency(name, byName) ==
  LET search[s \in SearchStates(byName)] ==
        IF s.queue = <<>>
          THEN [pc |-> IF s.path = NoPath THEN "missing" ELSE "path", path |-> s.path]
          ELSE LET d == Head(s.queue)
                   known == d \in DOMAIN byName
                   publishes == known /\ byName[d].source = "DockerBuildTestPublish"
               IN CASE d \in s.visited -> search[[s EXCEPT !.queue = Tail(@)]]
                    [] d \notin s.visited /\ publishes /\ s.path # NoPath ->
                         [pc |-> "multiple", path |-> NoPath]
                    [] d \notin s.visited /\ ~known -> [pc |-> "panic", path |-> NoPath]
                    [] OTHER ->
                         search[[queue |-> Tail(s.queue) \o byName[d].dependsOn,
                                 visited |-> s.visited \cup {d},
                                 path |-> IF publishes THEN byName[d].dockerfile ELSE s.path]]
  IN search[[queue |-> byName[name].dependsOn, visited |-> {}, path |-> NoPath]]

\* The image suffix of a dockerfile: its directory, and what its file name says
\* besides "dockerfile".
GetDockerfileDir(p) ==
  LET rest == SelectSeq(p.file, LAMBDA a : a # "dockerfile")
  IN p.dir \o (IF rest = <<>> THEN <<>> ELSE <<rest>>)

\* No step is ever skipped.
GetWhen_none(name, byName) == {}

\* The dependencies whose reported status must not be Skipped.
GetWhen(name, byName) ==
  {d \in ToSet(byName[name].dependsOn) \cap DOMAIN byName :
     byName[d].source \in {"DockerBuildTestPublish", "DockerBuildTest", "ArgoCD"}}

GetDepends(dependsOn) == ToSet(dependsOn)

--------------------------------------------------------------------------------
(* getWorkflowTemplateDAGTasks: one task per trigger, then one per step.      *)

GitHubCheckStart == "github-check-start"

TriggerType(triggers) == IF triggers[1].source = "GitHubPullRequest" THEN "PR" ELSE "commit"
TriggersMixed(triggers) ==
  \E i \in DOMAIN triggers : triggers[i].source # triggers[1].source

\* args: the arguments passed.  refs: the workflow parameters their values refer to.
InitialTask(t) ==
  [name |-> GitHubCheckStart, source |-> "GitHubCheckStart", template |-> GitHubCheckStartTemplate,
   args |-> {"repo-short", "event-type", "revision"}, refs |-> {"repo-short", "revision"},
   depends |-> {}, when |-> {}, dockerfile |-> NoPath, dir |-> <<>>, org |-> <<>>, app |-> <<>>,
   lock |-> <<>>]

\* With volumes of its own, the step gets a copy of the template, with them.
StepTemplate(s, template) ==
  [template EXCEPT !.volumes = @ \cup s.volumes, !.mounts = @ \cup s.mounts]

DockerBuildTestTask(s, byName) ==
  [InitialTask(s) EXCEPT !.name = s.name, !.source = s.source,
     !.template = StepTemplate(s, DockerBuildTestTemplate),
     !.args = {"repo", "revision", "dockerfile-path", "docker-context-dir", "revision-ref",
               "base-revision", "base-revision-ref", "num-artifacts"},
     !.refs = {"repo", "revision", "revision-ref", "base-revision", "base-revision-ref"},
     !.depends = GetDepends(s.dependsOn), !.dockerfile = s.dockerfile]

DockerBuildTestPublishTask(s, byName) ==
  [InitialTask(s) EXCEPT !.name = s.name, !.source = s.source,
     !.template = StepTemplate(s, DockerBuildTestPublishTemplate),
     !.args = {"repo", "revision", "revision-ref", "dockerfile-path", "docker-context-dir",
               "image-repo", "dockerfile-dir", "num-artifacts"},
     !.refs = {"repo", "revision", "revision-ref", "repo-short"},
     !.depends = GetDepends(s.dependsOn), !.dockerfile = s.dockerfile,
     !.dir = GetDockerfileDir(s.dockerfile)]

\* What a step that deploys an image has: the image is the one whose dockerfile
\* the search finds.  The lock is the template's mutex.
DeployTask(s, byName, template, args, app, lock) ==
  LET found == GetDockerfilePathDependency(s.name, byName).path
  IN [InitialTask(s) EXCEPT !.name = s.name, !.source = s.source, !.template = template,
        !.args = args, !.refs = {"repo-short", "revision"},
        !.depends = GetDepends(s.dependsOn), !.when = GetWhen(s.name, byName),
        !.dockerfile = found, !.dir = GetDockerfileDir(found),
        !.org = GetRepoOrgName(s.url)[1], !.app = app, !.lock = lock]

ArgoCDTask(s, byName) ==
  DeployTask(s, byName, ArgoCDTemplate,
    {"deploy-repo", "deploy-revision", "resource-path", "image-repo", "build-revision",
     "dockerfile-dir", "argocd-app-namespace", "argocd-app-name"},
    StepApp(s), <<s.url, s.path>>)

GitHubCreatePrTask(s, byName) ==
  DeployTask(s, byName, GitHubCreatePrTemplate,
    {"target-repo", "target-repo-short-name", "target-branch", "file-paths", "image-repo",
     "build-revision", "dockerfile-dir"},
    <<>>, <<>>)

StepTask(s, byName) ==
  CASE s.source = "DockerBuildTest" -> DockerBuildTestTask(s, byName)
    [] s.source = "DockerBuildTestPublish" -> DockerBuildTestPublishTask(s, byName)
    [] s.source = "ArgoCD" -> ArgoCDTask(s, byName)
    [] s.source = "GitHubCreatePR" -> GitHubCreatePrTask(s, byName)

DeployStep(s) == s.source \in {"ArgoCD", "GitHubCreatePR"}

\* A deployment without an image is built all the same.
StepError_missing(s, byName) ==
  IF ~DeployStep(s) THEN "ok"
  ELSE LET found == GetDockerfilePathDependency(s.name, byName).pc
       IN CASE found \notin {"path", "missing"} -> found
            [] found \in {"path", "missing"} /\ GetRepoOrgName(s.url) = <<>> -> "url"
            [] OTHER -> "ok"

\* "ok", or why the step has no task.
StepError(s, byName) ==
  IF ~DeployStep(s) THEN "ok"
  ELSE LET found == GetDockerfilePathDependency(s.name, byName).pc
       IN CASE found # "path" -> found
            [] found = "path" /\ GetRepoOrgName(s.url) = <<>> -> "url"
            [] OTHER -> "ok"

\* The exit handler: the arguments of the check's completion.
FinalTask ==
  [template |-> GitHubCheckCompleteTemplate,
   args |-> {"repo-short", "event-type", "check-run-id", "workflow-status"},
   refs |-> {"repo-short"}]

--------------------------------------------------------------------------------
(* Reconcile's use of them, up to the Sensor.                                 *)

Refused(why, apps) == [pc |-> why, apps |-> apps, parameters |-> <<>>, keys |-> <<>>,
                       tasks |-> <<>>, type |-> "none", deadline |-> 0]

(***************************************************************************)
(* The condition of the Flow that ends the reconcile, or the workflow.     *)
(* The applications are applied before the Sensor is built.  A panic of    *)
(* the first step that fails leaves no condition.                          *)
(***************************************************************************)
Build(flow) ==
  LET pre == PreProcessFlow(flow)
      argo == BuildArgoApps(pre.steps)
      byName == StepsByName(pre.steps)
      errors == {i \in DOMAIN pre.steps : StepError(pre.steps[i], byName) # "ok"}
      first == CHOOSE i \in errors : \A j \in errors : i <= j
  IN CASE ~pre.ok -> Refused("PreProcessFailed", {})
       [] pre.ok /\ ~argo.ok -> Refused("AppBuildFailed", {})
       [] pre.ok /\ argo.ok /\ TriggersMixed(pre.triggers) ->
            Refused("SensorBuildFailed", argo.applications)
       [] pre.ok /\ argo.ok /\ ~TriggersMixed(pre.triggers) /\ errors # {} ->
            Refused(IF StepError(pre.steps[first], byName) = "panic" THEN "panic"
                    ELSE "SensorBuildFailed", argo.applications)
       [] OTHER ->
            [pc |-> "built", apps |-> argo.applications,
             parameters |-> WorkflowParameters(pre.triggers),
             keys |-> TriggerParameters(pre.triggers),
             tasks |-> Each(InitialTask, pre.triggers) \o
                         [i \in DOMAIN pre.steps |-> StepTask(pre.steps[i], byName)],
             type |-> TriggerType(pre.triggers), deadline |-> pre.deadline]
================================================================================
