----------------------------- MODULE ConnLifecycle -----------------------------
(***************************************************************************)
(* What the websocket hub promises to a client, without goroutines,        *)
(* channels or queues: a connection is set up, serves, is cancelled and    *)
(* closed, in this order and once; from the first to the last of its life, *)
(* and at no other time, it shows states that the objects have been in.    *)
(* FlowWatcher implements it (FlowWatcher!Lifecycle).                      *)
(***************************************************************************)
EXTENDS Naturals

CONSTANTS Conns,    \* the connections
          Feeds     \* the objects, by the feed they arrive on

VARIABLES
  life,       \* life[c]: how far the connection has come
  shown,      \* shown[c][f]: the version of f the client has, 0 if none
  current     \* current[f]: the version of f in the cluster

lifeVars == <<life, shown, current>>

LifeInit ==
  /\ life = [c \in Conns |-> "absent"]
  /\ shown = [c \in Conns |-> [f \in Feeds |-> 0]]
  /\ current = [f \in Feeds |-> 1]

\* One stage after the other; without initial resources the second is left out.
Stages == {<<"absent", "connecting">>, <<"absent", "open">>, <<"connecting", "open">>,
           <<"open", "closing">>, <<"closing", "closed">>}

Advance(c) ==
  /\ \E s \in Stages : life[c] = s[1] /\ life' = [life EXCEPT ![c] = s[2]]
  /\ UNCHANGED <<shown, current>>

\* Not always the newest version: an event may be older than the list before it.
Show(c, f) ==
  /\ life[c] \in {"connecting", "open", "closing"}
  /\ \E v \in 1 .. current[f] : shown' = [shown EXCEPT ![c][f] = v]
  /\ UNCHANGED <<life, current>>

Change(f) ==
  /\ current' = [current EXCEPT ![f] = @ + 1]
  /\ UNCHANGED <<life, shown>>

LifeNext ==
  \/ \E c \in Conns : Advance(c)
  \/ \E c \in Conns, f \in Feeds : Show(c, f)
  \/ \E f \in Feeds : Change(f)

LifeSpec == LifeInit /\ [][LifeNext]_lifeVars
================================================================================
