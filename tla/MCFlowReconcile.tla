--------------------------- MODULE MCFlowReconcile ---------------------------
(* The instances of FlowReconcile that TLC checks: a Flow "push" with an       *)
(* Application and a Flow "pr" without, of one namespace, each of its own      *)
(* repository.                                                                 *)
EXTENDS FlowReconcile

MCSpec(broken, apps, events, repo) ==
  [broken |-> broken, projects |-> IF apps = <<>> THEN <<>> ELSE <<"org">>,
   apps |-> apps, events |-> events, repo |-> repo]
MCApp(val) == <<[name |-> "app", val |-> val]>>

MCNamespaceOf == [f \in Flows |-> "ns"]

\* two Flows, the first possibly broken at any stage
MCTwoFlows == [f \in Flows |->
  IF f = "push" THEN {MCSpec(b, MCApp("v1"), <<"opened">>, "r1") : b \in BrokenAt}
  ELSE {MCSpec("no", <<>>, <<"opened">>, "r2")}]

\* a Flow whose Application and Sensor change, and that may be broken
MCEdited == [f \in Flows |->
  {MCSpec("no", MCApp("v1"), <<"opened">>, "r1"), MCSpec("no", MCApp("v2"), <<"closed">>, "r1"),
   MCSpec("owner", MCApp("v1"), <<"opened">>, "r1")}]

\* a Flow whose Sensor listens to one event or two
MCEvents == [f \in Flows |->
  {MCSpec("no", <<>>, <<"opened">>, "r1"), MCSpec("no", <<>>, <<"opened", "closed">>, "r1")}]

\* the cluster as an older operator left it, without the operator, and in order
MCOld == [o \in Objects |->
  CASE o \in Owned -> None
    [] o = EventSource -> {}
    [] o[1] = "RoleBinding" -> "badRef"
    [] o[1] = "Role" -> "drift"
    [] OTHER -> "current"]
MCNew == [o \in Objects |-> None]
MCSynced == [o \in Objects |->
  CASE o \in Owned -> None [] o = EventSource -> {} [] OTHER -> "current"]
MCOldOnly == {MCOld}
MCSyncedOnly == {MCSynced}
MCNewOnly == {MCNew}

\* others delete a Sensor or an Application
MCTampering == [o \in Objects |-> IF o \in Owned THEN {None} ELSE {}]
================================================================================
