----------------------------- MODULE MCComponents -----------------------------
(***************************************************************************)
(* Four components that share nothing with each other, checked in one run: *)
(* part says which one a behaviour is about, and the others stay in an     *)
(* initial state.  Here are the Flows, the events and the repositories     *)
(* they start from.                                                        *)
(***************************************************************************)
EXTENDS FlowWorkflow, GhSettings, LogStream, ArgoSync

VARIABLE part       \* the component that runs

--------------------------------------------------------------------------------
(* FlowWorkflow: the Flows that are applied.                                  *)

Url(org, name) == [host |-> "github", path |-> <<<<org>>, name>>, git |-> TRUE]
Shop == Url("acme", <<"shop">>)
ConfigRepo == Url("acme", <<"shop", "argo", "configs">>)
Trigger(source) == [source |-> source, url |-> Shop, events |-> <<>>, baseRef |-> <<>>]
PrTrigger == Trigger("GitHubPullRequest")
PushTrigger == Trigger("GitHubPush")
GitHubEvents ==
  {[kind |-> "GitHubPullRequest", url |-> Shop, action |-> "synchronize", open |-> TRUE],
   [kind |-> "GitHubPush", url |-> Shop, ref |-> "main"]}
Step(source, name, deps) ==
  [source |-> source, name |-> <<name>>, dependsOn |-> deps, dockerfile |-> <<>>,
   contextDir |-> <<>>, url |-> ConfigRepo, path |-> <<<<"dev">>>>,
   baseRef |-> <<>>, volumes |-> {}, mounts |-> {}]
Flow(triggers, steps) == [triggers |-> triggers, steps |-> steps, deadline |-> <<>>]
In(dir, s) == [s EXCEPT !.contextDir = <<<<<<dir>>>>>>]
With(path, s) == [s EXCEPT !.dockerfile = <<path>>]
Onto(url, path, s) == [s EXCEPT !.url = url, !.path = path]

\* Two steps and a deployment, with dependencies of every kind.
Deps == {<<>>, <<"a">>, <<"b">>, <<"c">>, <<"a", "b">>, <<"b", "x">>}
Dags ==
  {Flow(<<t>>, <<Step("DockerBuildTestPublish", "a", d1), In("api", Step(src, "b", d2)), Step(dep, "c", d3)>>) :
     t \in {PrTrigger, PushTrigger}, src \in StepSources, dep \in {"ArgoCD", "GitHubCreatePR"},
     d1 \in {<<>>, <<"b">>, <<"c">>}, d2 \in Deps, d3 \in Deps}

\* Triggers.
PlainSteps == <<Step("DockerBuildTestPublish", "a", <<>>), Step("ArgoCD", "b", <<"a">>)>>
TriggerLists ==
  {<<>>, <<PushTrigger>>, <<PrTrigger, PrTrigger>>, <<PushTrigger, PushTrigger>>, <<PrTrigger, PushTrigger>>,
   <<Trigger("GitLabPush")>>, <<[PrTrigger EXCEPT !.events = <<{}>>]>>,
   <<[PrTrigger EXCEPT !.events = <<{"closed"}>>]>>,
   <<[PushTrigger EXCEPT !.baseRef = <<"release">>]>>,
   <<[PushTrigger EXCEPT !.url.git = FALSE]>>}
\* Steps without names, with one name, with the check's name, of no known source.
Unnamed(s) == [s EXCEPT !.name = <<>>]
Publish(name) == Step("DockerBuildTestPublish", name, <<>>)
Deploy(name, deps) == Step("ArgoCD", name, deps)
StepLists ==
  {<<>>,
   <<Unnamed(Publish("a")), Unnamed(Deploy("b", <<"DockerBuildTestPublish">>))>>,
   <<Unnamed(Publish("a")), Unnamed(In("api", Publish("a")))>>,
   <<Publish("a"), In("api", Publish("a")), Deploy("b", <<"a">>)>>,
   <<Publish("github-check-start")>>,
   <<Step("DockerBuildTestPublish", "a", <<"github-check-start">>)>>,
   <<Step("Shell", "a", <<>>)>>,
   \* URLs that are not a GitHub repository's
   <<Publish("a"), Onto([ConfigRepo EXCEPT !.host = "gitlab"], <<>>, Deploy("b", <<"a">>))>>,
   <<Publish("a"), Onto([ConfigRepo EXCEPT !.path = <<<<"acme">>>>], <<>>, Step("GitHubCreatePR", "b", <<"a">>))>>,
   \* two deployments: of one application, of one name, of two organisations
   <<Publish("a"), Deploy("b", <<"a">>), Deploy("c", <<"a">>)>>,
   <<Publish("a"), Deploy("b", <<"a">>), Onto(ConfigRepo, <<<<"prod">>>>, Deploy("c", <<"b">>))>>,
   <<Publish("a"), Onto(Shop, <<<<"a">>, <<"b">>>>, Deploy("b", <<"a">>)),
     Onto(ConfigRepo, <<<<"a", "b">>>>, Deploy("c", <<"b">>))>>,
   <<Publish("a"), Deploy("b", <<"a">>),
     Onto(Url("umbrella", <<"shop">>), <<<<"dev">>>>, Deploy("c", <<"b">>))>>,
   <<Publish("a"), Deploy("b", <<"a">>),
     Onto(Url("umbrella", <<"lab">>), <<<<"dev">>>>, Deploy("c", <<"b">>))>>,
   \* two images of one name, one that is built in the root directory, an empty path
   <<In("api", Publish("a")), With([dir |-> <<>>, file |-> <<"dockerfile", "api">>], Publish("b")),
     Deploy("c", <<"a">>)>>,
   <<With([dir |-> <<>>, file |-> <<"web", "dockerfile">>], Publish("a")), Deploy("b", <<"a">>)>>,
   <<With(NoPath, Publish("a")), Deploy("b", <<"a">>)>>,
   <<With(NoPath, Publish("a")), Publish("b"), Deploy("c", <<"a", "b">>)>>,
   \* volumes
   <<[Publish("a") EXCEPT !.volumes = {"cache"}, !.mounts = {"cache"}]>>,
   <<[Publish("a") EXCEPT !.mounts = {"cache"}]>>,
   \* a build test between the image and its deployment
   <<Publish("a"), Step("DockerBuildTest", "b", <<"a">>), Step("GitHubCreatePR", "c", <<"b">>)>>}
Special ==
  {Flow(ts, PlainSteps) : ts \in TriggerLists} \cup {Flow(<<PushTrigger>>, ss) : ss \in StepLists}
    \cup {Flow(<<PrTrigger>>, ss) : ss \in StepLists}
    \cup {[Flow(<<PrTrigger>>, PlainSteps) EXCEPT !.deadline = <<60>>]}
AllFlows == Dags \cup Special

--------------------------------------------------------------------------------
(* GhSettings: the repositories that a first pass finds.                      *)

Ruleset(id, name, owner, right) ==
  [id |-> id, name |-> name, owner |-> owner, right |-> right, extra |-> 0]
Other(id) == Ruleset(id, "other", "repo", {})

Settings == {RepoFlags, {}} \cup {RepoFlags \ {f} : f \in RepoFlags}
SecondIsDefault == <<Other(1), Ruleset(2, "default", "repo", {})>>
OrgIsDefault == <<Ruleset(1, "default", "org", Leaves)>>
RulesetLists ==
  {<<>>, <<Other(1)>>, SecondIsDefault, OrgIsDefault,
   <<Other(1), Other(2), Ruleset(3, "default", "repo", Leaves)>>,
   <<Ruleset(1, "default", "repo", {}), Ruleset(2, "default", "org", {})>>,
   <<Ruleset(1, "default", "repo", Leaves)>>}
   \cup {<<Ruleset(1, "default", "repo", Leaves \ {l})>> : l \in Leaves}

Repositories ==
  \/ \E f \in Settings : GhInit(f, SecondIsDefault)
  \/ \E r \in RulesetLists : GhInit(RepoFlags \ {"allowAutoMerge"}, r)

--------------------------------------------------------------------------------
ComponentVars == <<part, BuildVars, GhVars, LogVars, ArgoVars>>

\* Each component at rest: a state of it in which its fairness asks for no step.
BuildRests == flow = Flow(<<>>, PlainSteps) /\ BuildInit
GhRests ==
  /\ repo = [flags |-> RepoFlags, about |-> 0] /\ rulesets = OrgIsDefault
  /\ pass = NoPass /\ syncedRepo = TRUE /\ settledAt = -1
  /\ edits = 0 /\ failures = 0
LogRests ==        \* GetLogs failed
  /\ streamer = "failed" /\ scanner = "none" /\ scanned = 0 /\ timer = "off"
  /\ container = [lines |-> 0, end |-> "open"] /\ heap = <<>> /\ logLines = NoSlice
  /\ wire = Idle /\ delivered = <<>> /\ logCtx = "live"
ArgoRests == ArgoInit

Init ==
  \/ part = "build" /\ BuildInit /\ GhRests /\ LogRests /\ ArgoRests
  \/ part = "gh" /\ Repositories /\ BuildRests /\ LogRests /\ ArgoRests
  \/ part = "log" /\ LogInit /\ BuildRests /\ GhRests /\ ArgoRests
  \/ part = "argo" /\ ArgoInit /\ BuildRests /\ GhRests /\ LogRests

Next ==
  /\ UNCHANGED part
  /\ \/ part = "build" /\ BuildNext /\ UNCHANGED <<GhVars, LogVars, ArgoVars>>
     \/ part = "gh" /\ GhNext /\ UNCHANGED <<BuildVars, LogVars, ArgoVars>>
     \/ part = "log" /\ LogNext /\ UNCHANGED <<BuildVars, GhVars, ArgoVars>>
     \/ part = "argo" /\ ArgoNext /\ UNCHANGED <<BuildVars, GhVars, LogVars>>

Spec ==
  /\ Init /\ [][Next]_ComponentVars
  /\ GhFairness /\ LogFairness /\ ArgoFairness
================================================================================
