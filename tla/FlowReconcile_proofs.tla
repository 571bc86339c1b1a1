------------------------- MODULE FlowReconcile_proofs -------------------------
(***************************************************************************)
(* Theorems about the Flow reconciler, for any Flows, specs, objects,      *)
(* edits, tampering, faults and restarts.                                  *)
(***************************************************************************)
EXTENDS FlowReconcile, SequenceTheorems, TLAPS

(***************************************************************************)
(* The inductive invariant, in four layers, each of which rests on those   *)
(* before it.  First, types, and the form of what is left of a call: the   *)
(* steps are those of a Flow and a spec, and the last one, and no other,   *)
(* ends the call.                                                          *)
(***************************************************************************)
AllSpecs == UNION {SpecsOf[f] : f \in Flows}
Vals == {None} \cup AppSpecs \cup Seq(Events) \cup (SUBSET Repos) \cup {"current", "drift", "badRef"}
OwnerRefs == {NoOwner} \cup (Flows \X Nat)
Versions == [rv : Nat, val : Vals, owner : OwnerRefs]
FlowStates == [rv : Nat, uid : Nat, spec : AllSpecs \cup {NoSpec}, cond : Reasons]
Steps == [do : {"apply", "settings", "condition", "error"}, obj : Objects, want : Vals \cup Reasons]
Workers == [pc : {"idle", "step", "write", "recreate", "refetch"}, flow : Flows \cup {None},
            uid : Nat, rv : Nat, spec : AllSpecs \cup {NoSpec}, cond : Reasons,
            todo : Seq(Steps), held : Versions, drift : BOOLEAN]

StepFor(st, f, s) ==
  /\ CASE st.do = "apply" ->
            CASE st.obj[1] = "Application" -> st.want \in AppSpecs
              [] st.obj[1] = "Sensor" -> st.obj[2] = f /\ st.want = s.events
              [] st.obj[1] = "EventSource" -> st.want = {s.repo}
              [] OTHER -> st.want = "current"
       [] st.do = "settings" -> st.obj = EventSource /\ st.want = {s.repo}
       [] st.do = "condition" ->
            st.obj = EventSource /\ st.want \in Reasons /\ (st.want = "FlowSynced" => s.broken = "no")
       [] st.do = "error" -> st.obj = EventSource /\ s.broken = "owner"

Ends(st) == st.do \in {"condition", "error"}

StepsFor(t, f, s) == \A i \in 1 .. Len(t) : StepFor(t[i], f, s)
EndsOnce(t) == t # <<>> /\ \A i \in 1 .. Len(t) : Ends(t[i]) <=> i = Len(t)
WellFormed(t, f, s) == StepsFor(t, f, s) /\ EndsOnce(t)

StoreInv ==
  /\ flow \in [Flows -> FlowStates] /\ flowCache \in [Flows -> FlowStates]
  /\ \A f \in Flows : /\ flow[f].spec \in SpecsOf[f] \cup {NoSpec}
                      /\ flowCache[f].spec \in SpecsOf[f] \cup {NoSpec}
  /\ obj \in [Objects -> Versions] /\ cache \in [Objects -> Versions]
  /\ \A o \in Objects : /\ obj[o].val \in Content(o) \cup {None}
                        /\ cache[o].val \in Content(o) \cup {None}

WorkerInv ==
  /\ worker \in Workers
  /\ worker.pc = "idle" => worker = IdleWorker
  /\ worker.pc # "idle" => /\ worker.flow \in Flows /\ worker.spec \in SpecsOf[worker.flow]
                           /\ WellFormed(worker.todo, worker.flow, worker.spec)
                           /\ worker.held.val \in Content(Todo.obj) \cup {None}
  /\ worker.pc = "write" => Todo.do = "apply"
  /\ worker.pc = "recreate" => Todo.do = "apply" /\ Todo.obj[1] = "RoleBinding"
  /\ worker.pc = "refetch" => Todo.do = "condition"

SetsInv ==
  /\ configured \subseteq Repos /\ queue \subseteq Flows
  /\ syncedNamespaces \subseteq Namespaces /\ syncedProjects \subseteq Projects
  /\ syncedRepos \subseteq Repos
  /\ touched \subseteq Objects /\ blind \subseteq Objects
  /\ budget \in [edits : 0 .. MaxEdits, tampers : 0 .. MaxTampers,
                 faults : 0 .. MaxFaults, restarts : 0 .. MaxRestarts]

TypeInv == StoreInv /\ WorkerInv /\ SetsInv

(***************************************************************************)
(* Second, versions: what was read is not newer than what is there, and of *)
(* the same version only if it is the same.  Only Applications and Sensors *)
(* have an owner, a Sensor its Flow, from its creation on.                 *)
(***************************************************************************)
Older(old, new) == old.rv <= new.rv /\ (old.rv = new.rv => old = new)

VersionInv ==
  /\ \A o \in Objects : Older(cache[o], obj[o])
  /\ \A f \in Flows : Older(flowCache[f], flow[f])
  /\ worker.pc = "write" => Older(worker.held, obj[Todo.obj])
  /\ worker.pc # "idle" =>
       LET fl == flow[worker.flow] IN
         worker.rv <= fl.rv /\ (worker.rv = fl.rv => worker.spec = fl.spec)

OwnerInv ==
  /\ \A o \in Objects \ Owned : obj[o].owner = NoOwner
  /\ \A f \in Flows :
       LET o == SensorOf(f) IN
         /\ obj[o].owner = NoOwner => obj[o].val = None /\ cache[o] = obj[o]
         /\ obj[o].owner # NoOwner => obj[o].owner[1] = f
         /\ cache[o].owner # NoOwner => cache[o].owner[1] = f
  /\ \A o \in blind : o[1] = "RoleBinding"

(***************************************************************************)
(* Third, what is done: whoever sees an object as wanted in the cache, or  *)
(* finds it marked as synced, may rely on it.                              *)
(***************************************************************************)
Common == Objects \ Owned
Wanted(o) == IF o = EventSource THEN {{r} : r \in Repos} ELSE {"current"}
Done(o, want) == o \in touched \/ Applied(o, want) \/ (o \in blind /\ ~Here(obj[o]))

CacheInv == \A o \in Common : \A want \in Wanted(o) :
              Matches(o, want, cache[o].val) => Done(o, want)

\* the steps that stand for others come after those others
Applies(st, o) == st.do = "apply" /\ st.obj = o
Has(t, o) == \E i \in 1 .. Len(t) : Applies(t[i], o)
HasDo(t, do) == \E i \in 1 .. Len(t) : t[i].do = do
InOrder(t) ==
  \A i \in 1 .. Len(t) :
    /\ t[i].obj[1] = "RoleBinding" =>
         \A o \in Shared(t[i].obj[2]) : Done(o, "current") \/ \E j \in 1 .. i : Applies(t[j], o)
    /\ t[i].do = "settings" =>
         Done(EventSource, t[i].want) \/ \E j \in 1 .. i : Applies(t[j], EventSource)
OrderInv == InOrder(worker.todo)

SyncedInv ==
  /\ \A n \in syncedNamespaces : \A o \in Shared(n) : Done(o, "current")
  /\ \A p \in syncedProjects : Done(<<"AppProject", p>>, "current")
  /\ \A r \in syncedRepos : Done(EventSource, {r}) /\ r \in configured

(***************************************************************************)
(* Fourth, what is owed: a Flow is in the queue unless the call in         *)
(* progress reads its spec and has the steps left that it needs.           *)
(***************************************************************************)
Left(o) == Has(worker.todo, o)
OwedInv ==
  worker.pc # "idle" =>
    LET f == worker.flow
        s == worker.spec
    IN /\ s.broken # "preprocess" =>
            NamespaceOf[f] \in syncedNamespaces \/ Left(<<"RoleBinding", NamespaceOf[f]>>)
       /\ s.broken \in {"owner", "sensor", "repo", "no"} =>
            \A p \in ProjectsOf(s) : p \in syncedProjects \/ Left(<<"AppProject", p>>)
       /\ s.broken = "owner" => HasDo(worker.todo, "error")
       /\ s.broken = "no" =>
            s.repo \in syncedRepos \/ HasDo(worker.todo, "settings")

QueueInv ==
  \A f \in Flows : Exists(flowCache[f]) /\ f \notin queue =>
    IF worker.flow = f THEN worker.spec = flowCache[f].spec ELSE SyncedFor(f, flowCache[f].spec)

SensorInv ==
  \A f \in Flows :
    /\ Exists(flowCache[f]) /\ flowCache[f].spec.broken \in {"repo", "no"}
    /\ f \notin queue /\ cache[SensorOf(f)] = obj[SensorOf(f)]
    => \/ Applied(SensorOf(f), flowCache[f].spec.events)
       \/ worker.flow = f /\ Left(SensorOf(f))

IInv == TypeInv /\ VersionInv /\ OwnerInv /\ CacheInv /\ OrderInv /\ SyncedInv /\ OwedInv /\ QueueInv /\ SensorInv

-------------------------------------------------------------------------------
(***************************************************************************)
(* Objects and their contents.                                             *)
(***************************************************************************)
LEMMA SharedObjects ==
  ASSUME NEW n
  PROVE  Shared(n) = {<<"EventBus", n>>, <<"PersistentVolumeClaim", n>>, <<"ServiceAccount", n>>,
                      <<"Role", n>>, <<"RoleBinding", n>>}
<1>1. DOMAIN SharedKinds = 1 .. 5
  BY DEF SharedKinds
<1>2. 1 .. 5 = {1, 2, 3, 4, 5}
  OBVIOUS
<1> QED
  BY <1>1, <1>2 DEF Shared, SharedKinds

LEMMA ObjectKinds ==
  ASSUME NEW o \in Objects
  PROVE  /\ \/ o[1] \in {"EventBus", "PersistentVolumeClaim", "ServiceAccount", "Role", "RoleBinding"}
               /\ o[2] \in Namespaces /\ o \in Shared(o[2])
            \/ o[1] = "AppProject" /\ o[2] \in Projects
            \/ o[1] = "Application" /\ o[2] \in Apps
            \/ o[1] = "Sensor" /\ o[2] \in Flows
            \/ o = EventSource /\ o[1] = "EventSource"
         /\ o # EventSource => o = <<o[1], o[2]>>
         /\ o \in Owned <=> o[1] \in {"Application", "Sensor"}
<1>1. CASE o \in UNION {Shared(n) : n \in Namespaces}
  <2>1. PICK n \in Namespaces : o \in Shared(n)
    BY <1>1
  <2> QED
    BY <2>1, SharedObjects DEF Owned, EventSource
<1>2. CASE o \in {"AppProject"} \X Projects
  BY <1>2 DEF Owned, EventSource
<1>3. CASE o \in {"Application"} \X Apps \/ o \in {"Sensor"} \X Flows
  BY <1>3 DEF Owned, EventSource
<1>4. CASE o = EventSource
  BY <1>4 DEF Owned, EventSource
<1>5. \/ o \in UNION {Shared(n) : n \in Namespaces} \/ o \in {"AppProject"} \X Projects
      \/ o \in {"Application"} \X Apps \/ o \in {"Sensor"} \X Flows \/ o = EventSource
  BY DEF Objects, Owned
<1> QED
  BY <1>1, <1>2, <1>3, <1>4, <1>5

LEMMA ObjectsOf ==
  /\ \A n \in Namespaces : \A o \in Shared(n) :
       o \in Objects /\ o \in Common /\ o[2] = n
       /\ o[1] \in {"EventBus", "PersistentVolumeClaim", "ServiceAccount", "Role", "RoleBinding"}
  /\ \A p \in Projects : <<"AppProject", p>> \in Objects /\ <<"AppProject", p>> \in Common
  /\ \A a \in Apps : <<"Application", a>> \in Objects
  /\ \A f \in Flows : SensorOf(f) \in Objects /\ SensorOf(f) \in Owned
  /\ EventSource \in Objects /\ EventSource \in Common
<1>1. ASSUME NEW n \in Namespaces, NEW o \in Shared(n)
      PROVE  o \in Objects /\ o \in Common /\ o[2] = n
             /\ o[1] \in {"EventBus", "PersistentVolumeClaim", "ServiceAccount", "Role", "RoleBinding"}
  <2>1. o \in Objects
    BY DEF Objects
  <2> QED
    BY <2>1, ObjectKinds, SharedObjects DEF Common
<1>2. ASSUME NEW p \in Projects
      PROVE  <<"AppProject", p>> \in Objects /\ <<"AppProject", p>> \in Common
  BY ObjectKinds DEF Objects, Common, Owned
<1>3. \A a \in Apps : <<"Application", a>> \in Objects
  BY DEF Objects, Owned
<1>4. \A f \in Flows : SensorOf(f) \in Objects /\ SensorOf(f) \in Owned
  BY DEF Objects, Owned, SensorOf
<1>5. EventSource \in Objects
  BY DEF Objects
<1>6. EventSource \in Common
  BY <1>5, ObjectKinds DEF Common, Owned, EventSource
<1> QED
  BY <1>1, <1>2, <1>3, <1>4, <1>5, <1>6

LEMMA ContentTypes ==
  ASSUME NEW o \in Objects
  PROVE  /\ Content(o) \subseteq Vals /\ None \notin Content(o)
         /\ o[1] = "EventSource" => Content(o) = SUBSET Repos
         /\ o[1] = "Sensor" => Content(o) = Seq(Events)
         /\ o[1] = "Application" => Content(o) = AppSpecs
         /\ o[1] \notin {"EventSource", "Sensor", "Application"} => "current" \in Content(o)
<1>1. /\ o[1] = "Application" => Content(o) = AppSpecs
      /\ o[1] = "Sensor" => Content(o) = Seq(Events)
      /\ o[1] = "EventSource" => Content(o) = SUBSET Repos
      /\ o[1] = "RoleBinding" => Content(o) = {"current", "drift", "badRef"}
      /\ o[1] \notin {"Application", "Sensor", "EventSource", "RoleBinding"} =>
           Content(o) = {"current", "drift"}
  BY Zenon DEF Content
<1> QED
  BY <1>1, NoneAssumption DEF Vals

(***************************************************************************)
(* The steps of a call, and what concatenation and Tail do to them.        *)
(***************************************************************************)
Works(t) == \A i \in 1 .. Len(t) : ~Ends(t[i])
Ordered(t) ==
  \A i \in 1 .. Len(t) :
    /\ t[i].obj[1] = "RoleBinding" =>
         \A o \in Shared(t[i].obj[2]) : \E j \in 1 .. i : Applies(t[j], o)
    /\ t[i].do = "settings" => \E j \in 1 .. i : Applies(t[j], EventSource)

LEMMA ConcatSteps ==
  ASSUME NEW a \in Seq(Steps), NEW b \in Seq(Steps), NEW f, NEW s
  PROVE  /\ a \o b \in Seq(Steps)
         /\ StepsFor(a, f, s) /\ StepsFor(b, f, s) => StepsFor(a \o b, f, s)
         /\ Works(a) /\ Works(b) => Works(a \o b)
         /\ Works(a) /\ EndsOnce(b) => EndsOnce(a \o b)
         /\ Ordered(a) /\ Ordered(b) => Ordered(a \o b)
         /\ \A o : Has(a, o) \/ Has(b, o) => Has(a \o b, o)
         /\ \A do : HasDo(a, do) \/ HasDo(b, do) => HasDo(a \o b, do)
<1> DEFINE c == a \o b
<1>1. /\ c \in Seq(Steps) /\ Len(c) = Len(a) + Len(b) /\ Len(a) \in Nat /\ Len(b) \in Nat
      /\ \A i \in 1 .. Len(a) : i \in 1 .. Len(c) /\ c[i] = a[i]
      /\ \A i \in 1 .. Len(b) : Len(a) + i \in 1 .. Len(c) /\ c[Len(a) + i] = b[i]
      /\ \A i \in 1 .. Len(c) : i \in 1 .. Len(a) \/ (i - Len(a) \in 1 .. Len(b) /\ c[i] = b[i - Len(a)])
  BY ConcatProperties
<1> HIDE DEF c
<1>2. ASSUME StepsFor(a, f, s), StepsFor(b, f, s) PROVE StepsFor(c, f, s)
  BY <1>1, <1>2 DEF StepsFor
<1>3. ASSUME Works(a), Works(b) PROVE Works(c)
  BY <1>1, <1>3 DEF Works
<1>4. ASSUME Works(a), EndsOnce(b) PROVE EndsOnce(c)
  <2>1. Len(b) # 0 
    BY <1>4, EmptySeq DEF EndsOnce
  <2>2. c # <<>>
    BY <2>1, <1>1, EmptySeq
  <2>3. ASSUME NEW i \in 1 .. Len(c) PROVE Ends(c[i]) <=> i = Len(c)
    <3>1. CASE i \in 1 .. Len(a)
      BY <3>1, <2>1, <1>1, <1>4 DEF Works
    <3>2. CASE i \notin 1 .. Len(a)
      <4>1. i - Len(a) \in 1 .. Len(b) /\ c[i] = b[i - Len(a)]
        BY <3>2, <1>1
      <4>2. Ends(b[i - Len(a)]) <=> i - Len(a) = Len(b)
        BY <4>1, <1>4 DEF EndsOnce
      <4> QED
        BY <4>1, <4>2, <1>1
    <3> QED
      BY <3>1, <3>2
  <2> QED
    BY <2>2, <2>3 DEF EndsOnce
<1>5. ASSUME Ordered(a), Ordered(b) PROVE Ordered(c)
  <2> SUFFICES ASSUME NEW i \in 1 .. Len(c)
               PROVE  /\ c[i].obj[1] = "RoleBinding" =>
                           \A o \in Shared(c[i].obj[2]) : \E j \in 1 .. i : Applies(c[j], o)
                      /\ c[i].do = "settings" => \E j \in 1 .. i : Applies(c[j], EventSource)
    BY DEF Ordered
  <2>1. CASE i \in 1 .. Len(a)
    <3>1. \A j \in 1 .. i : c[j] = a[j]
      BY <2>1, <1>1
    <3>2. i \in 1 .. i
      OBVIOUS
    <3> QED
      BY <2>1, <3>1, <3>2, <1>5 DEF Ordered
  <2>2. CASE i \notin 1 .. Len(a)
    <3> DEFINE k == i - Len(a)
    <3>1. k \in 1 .. Len(b) /\ c[i] = b[k]
      BY <2>2, <1>1
    <3>2. \A j \in 1 .. k : Len(a) + j \in 1 .. i /\ c[Len(a) + j] = b[j]
      BY <3>1, <1>1
    <3> HIDE DEF k
    <3> QED
      BY <3>1, <3>2, <1>5 DEF Ordered
  <2> QED
    BY <2>1, <2>2
<1>6. \A o : Has(a, o) \/ Has(b, o) => Has(c, o)
  BY <1>1 DEF Has
<1>7. \A do : HasDo(a, do) \/ HasDo(b, do) => HasDo(c, do)
  BY <1>1 DEF HasDo
<1> QED
  BY <1>1, <1>2, <1>3, <1>4, <1>5, <1>6, <1>7 DEF c

LEMMA TailSteps ==
  ASSUME NEW t \in Seq(Steps), NEW f, NEW s, WellFormed(t, f, s)
  PROVE  /\ Head(t) = t[1] /\ Head(t) \in Steps /\ StepFor(Head(t), f, s)
         /\ 1 \in 1 .. Len(t) /\ Len(t) \in Nat
         /\ Ends(Head(t)) => Len(t) = 1
         /\ ~Ends(Head(t)) =>
              /\ Tail(t) \in Seq(Steps) /\ WellFormed(Tail(t), f, s)
              /\ Len(Tail(t)) = Len(t) - 1
              /\ \A i \in 1 .. Len(Tail(t)) : i + 1 \in 1 .. Len(t) /\ Tail(t)[i] = t[i + 1]
         /\ \A o : Has(t, o) => Applies(Head(t), o) \/ Has(Tail(t), o)
         /\ \A do : HasDo(t, do) => Head(t).do = do \/ HasDo(Tail(t), do)
<1> DEFINE u == Tail(t)
<1>1. /\ t # <<>> /\ Len(t) \in Nat \ {0} /\ Head(t) = t[1] /\ Head(t) \in Steps
      /\ u \in Seq(Steps) /\ Len(u) = Len(t) - 1
      /\ \A i \in 1 .. Len(u) : u[i] = t[i + 1]
  BY HeadTailProperties, EmptySeq DEF WellFormed, EndsOnce
<1> HIDE DEF u
<1>0. 1 \in 1 .. Len(t)
  BY <1>1
<1>2. StepFor(Head(t), f, s) /\ (Ends(Head(t)) <=> 1 = Len(t))
  BY <1>0, <1>1 DEF WellFormed, StepsFor, EndsOnce
<1>3. \A i \in 1 .. Len(u) : i + 1 \in 1 .. Len(t)
  BY <1>1
<1>4. \A i \in 1 .. Len(t) : i = 1 \/ (i - 1 \in 1 .. Len(u) /\ u[i - 1] = t[i])
  BY <1>1
<1>5. ASSUME ~Ends(Head(t)) PROVE WellFormed(u, f, s)
  <2>1. StepsFor(u, f, s)
    BY <1>1, <1>3 DEF WellFormed, StepsFor
  <2>2. u # <<>>
    <3>1. Len(u) # 0
      BY <1>5, <1>2, <1>1
    <3> QED
      BY <3>1, EmptySeq
  <2>3. \A i \in 1 .. Len(u) : Ends(u[i]) <=> i = Len(u)
    <3> TAKE i \in 1 .. Len(u)
    <3>1. Ends(t[i + 1]) <=> i + 1 = Len(t)
      BY <1>3 DEF WellFormed, EndsOnce
    <3> QED
      BY <3>1, <1>1
  <2> QED
    BY <2>1, <2>2, <2>3 DEF WellFormed, EndsOnce
<1>6. \A o : Has(t, o) => Applies(Head(t), o) \/ Has(u, o)
  BY <1>1, <1>4 DEF Has
<1>7. \A do : HasDo(t, do) => Head(t).do = do \/ HasDo(u, do)
  BY <1>1, <1>4 DEF HasDo
<1> QED
  BY <1>1, <1>0, <1>2, <1>3, <1>5, <1>6, <1>7 DEF u

(***************************************************************************)
(* The plan of a call: its parts, and the whole.                           *)
(***************************************************************************)
LEMMA SeqOf ==
  ASSUME NEW S, NEW n \in Nat, NEW t \in [1 .. n -> S]
  PROVE  t \in Seq(S) /\ Len(t) = n
BY SeqDef

LEMMA SpecFields ==
  ASSUME NEW f \in Flows, NEW s \in SpecsOf[f]
  PROVE  /\ s.broken \in BrokenAt /\ s.projects \in Seq(Projects) /\ s.repo \in Repos
         /\ s.apps \in Seq([name : Apps, val : AppSpecs]) /\ s.events \in Seq(Events)
         /\ s # NoSpec /\ s \in AllSpecs /\ NamespaceOf[f] \in Namespaces
BY SpecAssumption, NamespaceAssumption, NoneAssumption DEF NoSpec, AllSpecs

LEMMA StepType ==
  ASSUME NEW do \in {"apply", "settings", "condition", "error"}, NEW o \in Objects,
         NEW want \in Vals \cup Reasons
  PROVE  Step(do, o, want) \in Steps
         /\ Step(do, o, want).do = do /\ Step(do, o, want).obj = o /\ Step(do, o, want).want = want
BY DEF Step, Steps

LEMMA SharedSteps ==
  ASSUME NEW n \in Namespaces, NEW f, NEW s
  PROVE  LET t == ApplyShared(n) IN
           /\ t \in Seq(Steps) /\ StepsFor(t, f, s) /\ Works(t) /\ Ordered(t)
           /\ Has(t, <<"RoleBinding", n>>)
<1> DEFINE t == ApplyShared(n)
<1>1. /\ DOMAIN SharedKinds = 1 .. 5
      /\ SharedKinds[1] = "EventBus" /\ SharedKinds[2] = "PersistentVolumeClaim"
      /\ SharedKinds[3] = "ServiceAccount" /\ SharedKinds[4] = "Role" /\ SharedKinds[5] = "RoleBinding"
  BY DEF SharedKinds
<1>2. \A i \in 1 .. 5 : i = 1 \/ i = 2 \/ i = 3 \/ i = 4 \/ i = 5
  OBVIOUS
<1>3. \A i \in 1 .. 5 : <<SharedKinds[i], n>> \in Shared(n)
  BY <1>1 DEF Shared
<1>4. ASSUME NEW i \in 1 .. 5
      PROVE  /\ t[i] \in Steps /\ t[i].do = "apply" /\ t[i].want = "current"
             /\ t[i].obj = <<SharedKinds[i], n>>
  <2>1. t[i] = Step("apply", <<SharedKinds[i], n>>, "current")
    BY <1>1 DEF ApplyShared
  <2>2. "current" \in Vals \cup Reasons /\ <<SharedKinds[i], n>> \in Objects
    BY <1>3, ObjectsOf DEF Vals
  <2> QED
    BY <2>1, <2>2, StepType
<1>5. t \in [1 .. 5 -> Steps]
  BY <1>1, <1>4 DEF ApplyShared
<1> HIDE DEF t
<1>6. t \in Seq(Steps) /\ Len(t) = 5
  BY <1>5, SeqOf
<1>7. Works(t)
  BY <1>4, <1>6 DEF Works, Ends
<1>8. StepsFor(t, f, s)
  <2>1. ASSUME NEW i \in 1 .. 5 PROVE StepFor(t[i], f, s)
    <3>1. t[i].obj[1] \notin {"Application", "Sensor", "EventSource"}
      BY <1>1, <1>2, <1>4
    <3> QED
      BY <3>1, <1>4, Zenon DEF StepFor
  <2> QED
    BY <2>1, <1>6 DEF StepsFor
<1>9. Has(t, <<"RoleBinding", n>>)
  BY <1>1, <1>4, <1>6 DEF Has, Applies
<1>10. Ordered(t)
  <2>1. ASSUME NEW i \in 1 .. 5, t[i].obj[1] = "RoleBinding"
        PROVE  \A o \in Shared(t[i].obj[2]) : \E j \in 1 .. i : Applies(t[j], o)
    <3>1. i = 5 /\ t[i].obj[2] = n
      BY <2>1, <1>1, <1>2, <1>4
    <3>2. /\ Applies(t[1], <<"EventBus", n>>) /\ Applies(t[2], <<"PersistentVolumeClaim", n>>)
          /\ Applies(t[3], <<"ServiceAccount", n>>) /\ Applies(t[4], <<"Role", n>>)
          /\ Applies(t[5], <<"RoleBinding", n>>)
      BY <1>1, <1>4 DEF Applies
    <3> QED
      BY <3>1, <3>2, SharedObjects
  <2> QED
    BY <2>1, <1>4, <1>6 DEF Ordered
<1> QED
  BY <1>6, <1>7, <1>8, <1>9, <1>10 DEF t

LEMMA ProjectSteps ==
  ASSUME NEW f \in Flows, NEW s \in SpecsOf[f]
  PROVE  LET t == ApplyProjects(s) IN
           /\ t \in Seq(Steps) /\ StepsFor(t, f, s) /\ Works(t) /\ Ordered(t)
           /\ \A p \in ProjectsOf(s) : Has(t, <<"AppProject", p>>)
<1> DEFINE t == ApplyProjects(s)
           n == Len(s.projects)
<1>1. n \in Nat /\ DOMAIN s.projects = 1 .. n /\ \A i \in 1 .. n : s.projects[i] \in Projects
  BY SpecFields, LenProperties, ElementOfSeq
<1>2. ASSUME NEW i \in 1 .. n
      PROVE  /\ t[i] \in Steps /\ t[i].do = "apply" /\ t[i].want = "current"
             /\ t[i].obj = <<"AppProject", s.projects[i]>>
  <2>1. t[i] = Step("apply", <<"AppProject", s.projects[i]>>, "current")
    BY <1>1 DEF ApplyProjects
  <2>2. "current" \in Vals \cup Reasons /\ <<"AppProject", s.projects[i]>> \in Objects
    BY <1>1, ObjectsOf DEF Vals
  <2> QED
    BY <2>1, <2>2, StepType
<1>3. t \in [1 .. n -> Steps]
  BY <1>1, <1>2 DEF ApplyProjects
<1>4. \A p \in ProjectsOf(s) : \E i \in 1 .. n : p = s.projects[i]
  BY <1>1 DEF ProjectsOf
<1> HIDE DEF t, n
<1>5. t \in Seq(Steps) /\ Len(t) = n
  BY <1>1, <1>3, SeqOf
<1>6. Works(t) /\ Ordered(t)
  BY <1>2, <1>5 DEF Works, Ends, Ordered
<1>7. StepsFor(t, f, s)
  <2>1. ASSUME NEW i \in 1 .. n PROVE StepFor(t[i], f, s)
    <3>1. t[i].obj[1] \notin {"Application", "Sensor", "EventSource"}
      BY <1>2
    <3> QED
      BY <3>1, <1>2, Zenon DEF StepFor
  <2> QED
    BY <2>1, <1>5 DEF StepsFor
<1>8. \A p \in ProjectsOf(s) : Has(t, <<"AppProject", p>>)
  BY <1>2, <1>4, <1>5 DEF Has, Applies
<1> QED
  BY <1>5, <1>6, <1>7, <1>8 DEF t

LEMMA AppSteps ==
  ASSUME NEW f \in Flows, NEW s \in SpecsOf[f]
  PROVE  LET t == ApplyApps(s) IN
           t \in Seq(Steps) /\ StepsFor(t, f, s) /\ Works(t) /\ Ordered(t)
<1> DEFINE t == ApplyApps(s)
           n == Len(s.apps)
<1>1. n \in Nat /\ DOMAIN s.apps = 1 .. n
      /\ \A i \in 1 .. n : s.apps[i] \in [name : Apps, val : AppSpecs]
  BY SpecFields, LenProperties, ElementOfSeq
<1>2. ASSUME NEW i \in 1 .. n
      PROVE  /\ t[i] \in Steps /\ t[i].do = "apply" /\ t[i].want \in AppSpecs
             /\ t[i].obj[1] = "Application"
  <2>1. t[i] = Step("apply", <<"Application", s.apps[i].name>>, s.apps[i].val)
    BY <1>1 DEF ApplyApps
  <2>2. s.apps[i].val \in Vals \cup Reasons /\ <<"Application", s.apps[i].name>> \in Objects
        /\ s.apps[i].val \in AppSpecs
    BY <1>1, ObjectsOf DEF Vals
  <2> QED
    BY <2>1, <2>2, StepType
<1>3. t \in [1 .. n -> Steps]
  BY <1>1, <1>2 DEF ApplyApps
<1> HIDE DEF t, n
<1>4. t \in Seq(Steps) /\ Len(t) = n
  BY <1>1, <1>3, SeqOf
<1>5. Works(t) /\ Ordered(t)
  BY <1>2, <1>4 DEF Works, Ends, Ordered
<1>6. StepsFor(t, f, s)
  <2>1. ASSUME NEW i \in 1 .. n PROVE StepFor(t[i], f, s)
    BY <1>2, Zenon DEF StepFor
  <2> QED
    BY <2>1, <1>4 DEF StepsFor
<1> QED
  BY <1>4, <1>5, <1>6 DEF t

LEMMA SensorSteps ==
  ASSUME NEW f \in Flows, NEW s \in SpecsOf[f]
  PROVE  LET t == ApplySensor(f, s) IN
           /\ t \in Seq(Steps) /\ StepsFor(t, f, s) /\ Works(t) /\ Ordered(t)
           /\ Has(t, SensorOf(f))
<1> DEFINE st == Step("apply", SensorOf(f), s.events)
<1>1. st \in Steps /\ st.do = "apply" /\ st.obj = SensorOf(f) /\ st.want = s.events
  <2>1. s.events \in Vals \cup Reasons /\ SensorOf(f) \in Objects
    BY SpecFields, ObjectsOf DEF Vals
  <2> QED
    BY <2>1, StepType
<1>2. st.obj[1] = "Sensor" /\ st.obj[2] = f
  BY <1>1 DEF SensorOf
<1> HIDE DEF st
<1>3. StepFor(st, f, s)
  BY <1>1, <1>2, Zenon DEF StepFor
<1> DEFINE t == <<st>>
<1>4. t \in Seq(Steps) /\ Len(t) = 1 /\ t[1] = st
  BY <1>1
<1>5. \A i \in 1 .. Len(t) : t[i] = st
  BY <1>4
<1>6. 1 \in 1 .. Len(t)
  BY <1>4
<1> HIDE DEF t
<1>7. StepsFor(t, f, s) /\ Works(t) /\ Ordered(t)
  BY <1>1, <1>2, <1>3, <1>5 DEF StepsFor, Works, Ends, Ordered
<1>8. Has(t, SensorOf(f))
  BY <1>1, <1>4, <1>6 DEF Has, Applies
<1> QED
  BY <1>4, <1>7, <1>8 DEF t, st, ApplySensor

LEMMA RepoSteps ==
  ASSUME NEW f \in Flows, NEW s \in SpecsOf[f]
  PROVE  LET t == ApplyRepo(s) IN
           /\ t \in Seq(Steps) /\ StepsFor(t, f, s) /\ Works(t) /\ Ordered(t)
           /\ HasDo(t, "settings")
<1> DEFINE want == {s.repo}
           st1 == Step("apply", EventSource, want)
           st2 == Step("settings", EventSource, want)
<1>1. want \in Vals \cup Reasons /\ EventSource \in Objects
  BY SpecFields, ObjectsOf DEF Vals
<1> HIDE DEF want
<1>2. /\ st1 \in Steps /\ st1.do = "apply" /\ st1.obj = EventSource /\ st1.want = want
      /\ st2 \in Steps /\ st2.do = "settings" /\ st2.obj = EventSource /\ st2.want = want
  BY <1>1, StepType
<1>3. EventSource[1] = "EventSource"
  BY DEF EventSource
<1> HIDE DEF st1, st2
<1>4. StepFor(st1, f, s)
  BY <1>2, <1>3, Zenon DEF StepFor, want
<1>5. StepFor(st2, f, s)
  BY <1>2, Zenon DEF StepFor, want
<1> DEFINE t == <<st1, st2>>
<1>6. t \in Seq(Steps) /\ Len(t) = 2 /\ t[1] = st1 /\ t[2] = st2
  BY <1>2
<1>7. \A i \in 1 .. Len(t) : (i = 1 /\ t[i] = st1) \/ (i = 2 /\ t[i] = st2)
  BY <1>6
<1>8. 2 \in 1 .. Len(t) /\ 1 \in 1 .. 2
  BY <1>6
<1> HIDE DEF t
<1>9. StepsFor(t, f, s) /\ Works(t)
  BY <1>2, <1>4, <1>5, <1>7 DEF StepsFor, Works, Ends
<1>10. Ordered(t)
  BY <1>2, <1>3, <1>6, <1>7, <1>8 DEF Ordered, Applies
<1>11. HasDo(t, "settings")
  BY <1>2, <1>6, <1>8 DEF HasDo
<1> QED
  BY <1>6, <1>9, <1>10, <1>11 DEF t, st1, st2, want, ApplyRepo

LEMMA LastStep ==
  ASSUME NEW st \in Steps, Ends(st), st.obj = EventSource, NEW f, NEW s, StepFor(st, f, s)
  PROVE  /\ <<st>> \in Seq(Steps) /\ StepsFor(<<st>>, f, s) /\ EndsOnce(<<st>>) /\ Ordered(<<st>>)
         /\ HasDo(<<st>>, st.do)
<1> DEFINE t == <<st>>
<1>1. t \in Seq(Steps) /\ Len(t) = 1 /\ t # <<>> /\ t[1] = st
  OBVIOUS
<1>2. \A i \in 1 .. Len(t) : i = Len(t) /\ t[i] = st
  BY <1>1
<1>3. 1 \in 1 .. Len(t) /\ EventSource[1] # "RoleBinding"
  BY <1>1 DEF EventSource
<1> HIDE DEF t
<1>4. StepsFor(t, f, s) /\ EndsOnce(t) /\ HasDo(t, st.do)
  BY <1>1, <1>2, <1>3 DEF StepsFor, EndsOnce, HasDo
<1>5. Ordered(t)
  BY <1>2, <1>3 DEF Ordered, Ends
<1> QED
  BY <1>1, <1>4, <1>5 DEF t

LEMMA ConditionSteps ==
  ASSUME NEW f, NEW s, NEW reason \in Reasons, reason = "FlowSynced" => s.broken = "no"
  PROVE  LET t == Condition(reason) IN
           t \in Seq(Steps) /\ StepsFor(t, f, s) /\ EndsOnce(t) /\ Ordered(t)
<1> DEFINE st == Step("condition", EventSource, reason)
<1>1. st \in Steps /\ st.do = "condition" /\ st.obj = EventSource /\ st.want = reason
  BY StepType, ObjectsOf
<1> HIDE DEF st
<1>2. StepFor(st, f, s) /\ Ends(st)
  BY <1>1, Zenon DEF StepFor, Ends
<1> QED
  BY <1>1, <1>2, LastStep DEF Condition, st

LEMMA ErrorSteps ==
  ASSUME NEW f, NEW s, s.broken = "owner"
  PROVE  LET t == <<Step("error", EventSource, None)>> IN
           /\ t \in Seq(Steps) /\ StepsFor(t, f, s) /\ EndsOnce(t) /\ Ordered(t)
           /\ HasDo(t, "error")
<1> DEFINE st == Step("error", EventSource, None)
<1>1. st \in Steps /\ st.do = "error" /\ st.obj = EventSource /\ st.want = None
  BY StepType, ObjectsOf DEF Vals
<1> HIDE DEF st
<1>2. StepFor(st, f, s) /\ Ends(st)
  BY <1>1, Zenon DEF StepFor, Ends
<1> QED
  BY <1>1, <1>2, LastStep DEF st

LEMMA EmptySteps ==
  ASSUME NEW f, NEW s
  PROVE  <<>> \in Seq(Steps) /\ StepsFor(<<>>, f, s) /\ Works(<<>>) /\ Ordered(<<>>)
BY DEF StepsFor, Works, Ordered

(***************************************************************************)
(* The plan of Reconcile, whatever is synced already, has every step the   *)
(* spec needs, each after those it stands for, and ends the call once.     *)
(***************************************************************************)
LEMMA PlanSteps ==
  ASSUME NEW f \in Flows, NEW s \in SpecsOf[f]
  PROVE  LET t == Plan(f, s) IN
           /\ t \in Seq(Steps) /\ WellFormed(t, f, s) /\ Ordered(t)
           /\ s.broken # "preprocess" =>
                NamespaceOf[f] \in syncedNamespaces \/ Has(t, <<"RoleBinding", NamespaceOf[f]>>)
           /\ s.broken \in {"owner", "sensor", "repo", "no"} =>
                \A p \in ProjectsOf(s) : Has(t, <<"AppProject", p>>)
           /\ s.broken = "owner" => HasDo(t, "error")
           /\ s.broken \in {"repo", "no"} => Has(t, SensorOf(f))
           /\ s.broken = "no" => s.repo \in syncedRepos \/ HasDo(t, "settings")
<1> DEFINE Good(t) == t \in Seq(Steps) /\ StepsFor(t, f, s) /\ EndsOnce(t) /\ Ordered(t)
           Part(t) == t \in Seq(Steps) /\ StepsFor(t, f, s) /\ Works(t) /\ Ordered(t)
           n == NamespaceOf[f]
           shared == IF n \in syncedNamespaces THEN <<>> ELSE ApplyShared(n)
           repo == IF s.repo \in syncedRepos THEN <<>> ELSE ApplyRepo(s)
           r == IF s.broken = "repo" THEN Condition("EventSourceFailed") ELSE repo \o Condition("FlowSynced")
           e == IF s.broken = "sensor" THEN Condition("SensorBuildFailed") ELSE ApplySensor(f, s) \o r
           a == IF s.broken = "owner" THEN <<Step("error", EventSource, None)>> ELSE ApplyApps(s) \o e
           p == IF s.broken = "apps" THEN Condition("AppBuildFailed") ELSE ApplyProjects(s) \o a
<1>1. \A x, y : Part(x) /\ Good(y) =>
        /\ Good(x \o y)
        /\ \A o : Has(x, o) \/ Has(y, o) => Has(x \o y, o)
        /\ \A do : HasDo(x, do) \/ HasDo(y, do) => HasDo(x \o y, do)
  BY ConcatSteps
<1>2. s.broken \in BrokenAt /\ n \in Namespaces
  BY SpecFields
<1>3. Part(shared) /\ (n \in syncedNamespaces \/ Has(shared, <<"RoleBinding", n>>))
  BY <1>2, SharedSteps, EmptySteps
<1>4. Part(repo) /\ (s.repo \in syncedRepos \/ HasDo(repo, "settings"))
  BY RepoSteps, EmptySteps
<1>5. \A reason \in Reasons : (reason = "FlowSynced" => s.broken = "no") => Good(Condition(reason))
  BY ConditionSteps
<1>6. {"PreProcessFailed", "AppBuildFailed", "SensorBuildFailed", "EventSourceFailed", "FlowSynced"} \subseteq Reasons
  BY DEF Reasons
<1>7. Part(ApplySensor(f, s)) /\ Has(ApplySensor(f, s), SensorOf(f))
  BY SensorSteps
<1>8. Part(ApplyApps(s))
  BY AppSteps
<1>9. Part(ApplyProjects(s)) /\ \A q \in ProjectsOf(s) : Has(ApplyProjects(s), <<"AppProject", q>>)
  BY ProjectSteps
<1>10. s.broken = "owner" => Good(<<Step("error", EventSource, None)>>) /\ HasDo(<<Step("error", EventSource, None)>>, "error")
  BY ErrorSteps
<1>11. Plan(f, s) = IF s.broken = "preprocess" THEN Condition("PreProcessFailed") ELSE shared \o p
  BY DEF Plan
<1> HIDE DEF Good, Part, shared, repo
<1>12. s.broken \in {"repo", "no"} => Good(r) /\ (s.broken = "no" => s.repo \in syncedRepos \/ HasDo(r, "settings"))
  BY <1>1, <1>4, <1>5, <1>6
<1> HIDE DEF r
<1>13. s.broken \in {"sensor", "repo", "no"} =>
         /\ Good(e)
         /\ s.broken \in {"repo", "no"} => Has(e, SensorOf(f))
         /\ s.broken = "no" => s.repo \in syncedRepos \/ HasDo(e, "settings")
  BY <1>1, <1>5, <1>6, <1>7, <1>12
<1> HIDE DEF e
<1>14. s.broken \in {"owner", "sensor", "repo", "no"} =>
         /\ Good(a)
         /\ s.broken = "owner" => HasDo(a, "error")
         /\ s.broken \in {"repo", "no"} => Has(a, SensorOf(f))
         /\ s.broken = "no" => s.repo \in syncedRepos \/ HasDo(a, "settings")
  BY <1>1, <1>8, <1>10, <1>13
<1> HIDE DEF a
<1>15. s.broken # "preprocess" =>
         /\ Good(p)
         /\ s.broken = "owner" => HasDo(p, "error")
         /\ s.broken \in {"repo", "no"} => Has(p, SensorOf(f))
         /\ s.broken = "no" => s.repo \in syncedRepos \/ HasDo(p, "settings")
         /\ s.broken # "apps" => \A q \in ProjectsOf(s) : Has(p, <<"AppProject", q>>)
  BY <1>1, <1>2, <1>5, <1>6, <1>9, <1>14 DEF BrokenAt
<1> HIDE DEF p
<1>16. CASE s.broken = "preprocess"
  BY <1>16, <1>5, <1>6, <1>11 DEF Good, WellFormed
<1>17. CASE s.broken # "preprocess"
  <2>1. Plan(f, s) = shared \o p
    BY <1>17, <1>11
  <2>2. Good(p) /\ Good(shared \o p)
    BY <1>17, <1>15, <1>3, <1>1
  <2>3. /\ \A o : Has(shared, o) \/ Has(p, o) => Has(shared \o p, o)
        /\ \A do : HasDo(shared, do) \/ HasDo(p, do) => HasDo(shared \o p, do)
    BY <2>2, <1>3, <1>1
  <2> QED
    BY <1>17, <1>3, <1>15, <2>1, <2>2, <2>3 DEF Good, WellFormed
<1> QED
  BY <1>16, <1>17

-------------------------------------------------------------------------------
(***************************************************************************)
(* Types.                                                                  *)
(***************************************************************************)
LEMMA StepKinds ==
  ASSUME NEW st, NEW f, NEW s, StepFor(st, f, s)
  PROVE  /\ st.do = "apply" =>
              /\ st.obj[1] = "Application" => st.want \in AppSpecs
              /\ st.obj[1] = "Sensor" => st.obj[2] = f /\ st.want = s.events
              /\ st.obj[1] = "EventSource" => st.want = {s.repo}
              /\ st.obj[1] \notin {"Application", "Sensor", "EventSource"} => st.want = "current"
         /\ st.do = "settings" => st.obj = EventSource /\ st.want = {s.repo}
         /\ st.do = "condition" =>
              st.obj = EventSource /\ st.want \in Reasons /\ (st.want = "FlowSynced" => s.broken = "no")
         /\ st.do = "error" => st.obj = EventSource /\ s.broken = "owner"
BY Zenon DEF StepFor

LEMMA WantType ==
  ASSUME NEW st \in Steps, NEW f \in Flows, NEW s \in SpecsOf[f], StepFor(st, f, s), st.do = "apply"
  PROVE  /\ st.obj \in Objects /\ st.want \in Content(st.obj) /\ st.want # None
         /\ st.want \in Vals
         /\ \A val \in Content(st.obj) : Merged(st.obj, st.want, val) \in Content(st.obj)
<1>1. st.obj \in Objects
  BY DEF Steps
<1>2. st.want \in Content(st.obj)
  BY <1>1, StepKinds, ContentTypes, SpecFields
<1>3. \A val \in Content(st.obj) : Merged(st.obj, st.want, val) \in Content(st.obj)
  <2>1. CASE st.obj = EventSource
    <3>1. Content(st.obj) = SUBSET Repos
      BY <2>1, <1>1, ObjectKinds, ContentTypes DEF EventSource
    <3> QED
      BY <2>1, <3>1, <1>2 DEF Merged
  <2>2. CASE st.obj # EventSource
    BY <2>2, <1>2 DEF Merged
  <2> QED
    BY <2>1, <2>2
<1> QED
  BY <1>1, <1>2, <1>3, ContentTypes

LEMMA GoneType == ASSUME NEW n \in Nat PROVE Gone(n) \in Versions /\ Gone(n).val = None
BY DEF Gone, Versions, Vals, NoOwner, OwnerRefs

LEMMA IdleType ==
  /\ IdleWorker \in Workers /\ IdleWorker.pc = "idle" /\ IdleWorker.flow = None /\ None \notin Flows
  /\ IdleWorker.todo = <<>>
BY GoneType, NoneAssumption DEF IdleWorker, Workers, NoSpec, Reasons

LEMMA LessType ==
  ASSUME SetsInv, NEW b \in {"edits", "tampers", "faults", "restarts"}, budget[b] > 0
  PROVE  Less(b) \in [edits : 0 .. MaxEdits, tampers : 0 .. MaxTampers,
                      faults : 0 .. MaxFaults, restarts : 0 .. MaxRestarts]
<1> USE BoundAssumption DEF SetsInv, Less
<1>1. CASE b = "edits"
  BY <1>1
<1>2. CASE b = "tampers"
  BY <1>2
<1>3. CASE b = "faults"
  BY <1>3
<1>4. CASE b = "restarts"
  BY <1>4
<1> QED
  BY <1>1, <1>2, <1>3, <1>4

(***************************************************************************)
(* The step at hand of a call in progress.                                 *)
(***************************************************************************)
LEMMA TodoType ==
  ASSUME WorkerInv, worker.pc # "idle"
  PROVE  /\ worker.flow \in Flows /\ worker.spec \in SpecsOf[worker.flow]
         /\ worker.todo \in Seq(Steps) /\ WellFormed(worker.todo, worker.flow, worker.spec)
         /\ Todo \in Steps /\ Todo.obj \in Objects /\ Todo = worker.todo[1]
         /\ StepFor(Todo, worker.flow, worker.spec)
         /\ worker.uid \in Nat /\ worker.held \in Versions
<1>1. worker.todo \in Seq(Steps) /\ worker.uid \in Nat /\ worker.held \in Versions
  BY DEF WorkerInv, Workers
<1>2. WellFormed(worker.todo, worker.flow, worker.spec)
  BY DEF WorkerInv
<1>3. Todo \in Steps /\ StepFor(Todo, worker.flow, worker.spec) /\ Todo = worker.todo[1]
  BY <1>1, <1>2, TailSteps DEF Todo
<1>4. Todo.obj \in Objects
  BY <1>3 DEF Steps
<1> QED
  BY <1>1, <1>2, <1>3, <1>4 DEF WorkerInv

LEMMA AdvanceType ==
  ASSUME TypeInv, worker.pc # "idle", ~Ends(Todo), NEW drift \in BOOLEAN, Advance(drift)
  PROVE  /\ WorkerInv'
         /\ worker'.pc = "step" /\ worker'.flow = worker.flow /\ worker'.spec = worker.spec
         /\ worker'.rv = worker.rv /\ worker'.uid = worker.uid
         /\ worker'.todo = Tail(worker.todo)
         /\ syncedNamespaces' \subseteq Namespaces /\ syncedNamespaces \subseteq syncedNamespaces'
         /\ syncedProjects' \subseteq Projects /\ syncedProjects \subseteq syncedProjects'
         /\ syncedRepos' \subseteq Repos /\ syncedRepos \subseteq syncedRepos'
         /\ queue' = queue
<1> USE DEF TypeInv
<1>1. /\ worker.todo \in Seq(Steps) /\ WellFormed(worker.todo, worker.flow, worker.spec)
      /\ Todo \in Steps /\ Todo.obj \in Objects /\ StepFor(Todo, worker.flow, worker.spec)
      /\ worker.flow \in Flows /\ worker.spec \in SpecsOf[worker.flow]
  BY TodoType
<1>2. Tail(worker.todo) \in Seq(Steps) /\ WellFormed(Tail(worker.todo), worker.flow, worker.spec)
  BY <1>1, TailSteps DEF Todo
<1> DEFINE t == Tail(worker.todo)
<1> HIDE DEF t
<1>3. worker' = [worker EXCEPT !.pc = "step", !.todo = t, !.held = Gone(0), !.drift = @ \/ drift]
  BY DEF Advance, t
<1>4. /\ worker'.pc = "step" /\ worker'.flow = worker.flow /\ worker'.spec = worker.spec
      /\ worker'.rv = worker.rv /\ worker'.uid = worker.uid
      /\ worker'.todo = t /\ worker'.held = Gone(0)
  BY <1>3 DEF WorkerInv, Workers
<1>5. worker' \in Workers
  <2>1. worker \in Workers /\ t \in Seq(Steps) /\ Gone(0) \in Versions
    BY <1>2, GoneType DEF WorkerInv, t
  <2>2. worker.drift \in BOOLEAN /\ (worker.drift \/ drift) \in BOOLEAN
    BY <2>1 DEF Workers
  <2> QED
    BY <1>3, <2>1, <2>2 DEF Workers
<1>6. WorkerInv'
  BY <1>1, <1>2, <1>4, <1>5, GoneType DEF WorkerInv, t
<1>7. /\ syncedNamespaces' \subseteq Namespaces /\ syncedNamespaces \subseteq syncedNamespaces'
      /\ syncedProjects' \subseteq Projects /\ syncedProjects \subseteq syncedProjects'
  BY <1>1, ObjectKinds DEF Advance, MarkSynced, SetsInv, Todo
<1>8. syncedRepos' \subseteq Repos /\ syncedRepos \subseteq syncedRepos'
  BY <1>1, StepKinds, SpecFields DEF Advance, MarkSynced, SetsInv, Todo
<1> QED
  BY <1>4, <1>6, <1>7, <1>8 DEF Advance, t

LEMMA IdleWorkerInv == ASSUME worker' = IdleWorker PROVE WorkerInv'
BY IdleType DEF WorkerInv

(***************************************************************************)
(* The two ways a call stops, and a request that took effect.              *)
(***************************************************************************)
LEMMA StopType ==
  ASSUME TypeInv, worker.pc # "idle", Return \/ Requeue
  PROVE  /\ worker' = IdleWorker /\ WorkerInv' /\ queue' \subseteq Flows /\ queue \subseteq queue'
         /\ UNCHANGED syncedVars
BY TodoType, IdleWorkerInv DEF Return, Requeue, TypeInv, SetsInv

LEMMA AnswerType ==
  ASSUME TypeInv, NEW success \in BOOLEAN, Answer(success), worker.pc # "idle"
  PROVE  /\ success \/ Requeue
         /\ budget' \in [edits : 0 .. MaxEdits, tampers : 0 .. MaxTampers,
                         faults : 0 .. MaxFaults, restarts : 0 .. MaxRestarts]
BY LessType DEF Answer, TypeInv, SetsInv

LEMMA PutType ==
  ASSUME TypeInv, NEW o \in Objects, NEW val \in Content(o) \cup {None},
         NEW who \in OwnerRefs, Put(o, val, who)
  PROVE  /\ obj' \in [Objects -> Versions]
         /\ obj'[o] = [rv |-> obj[o].rv + 1, val |-> val, owner |-> who]
         /\ obj'[o].rv = obj[o].rv + 1 /\ obj'[o].val = val /\ obj'[o].owner = who
         /\ \A p \in Objects \ {o} : obj'[p] = obj[p]
         /\ \A p \in Objects : obj'[p].val \in Content(p) \cup {None}
<1>1. obj[o] \in Versions /\ val \in Vals
  BY ContentTypes DEF TypeInv, StoreInv, Vals
<1> DEFINE ob == [rv |-> obj[o].rv + 1, val |-> val, owner |-> who]
<1>2. ob \in Versions /\ ob.rv = obj[o].rv + 1 /\ ob.val = val /\ ob.owner = who
  BY <1>1 DEF Versions
<1>3. obj' = [obj EXCEPT ![o] = ob]
  BY DEF Put
<1> HIDE DEF ob
<1>4. /\ obj' \in [Objects -> Versions] /\ obj'[o] = ob
      /\ \A p \in Objects \ {o} : obj'[p] = obj[p]
  BY <1>2, <1>3 DEF TypeInv, StoreInv
<1>5. \A p \in Objects : obj'[p].val \in Content(p) \cup {None}
  BY <1>2, <1>4 DEF TypeInv, StoreInv
<1> QED
  BY <1>2, <1>4, <1>5 DEF ob

LEMMA OwnerType ==
  ASSUME TypeInv, worker.pc # "idle", NEW o
  PROVE  OwnerRef(o) \in OwnerRefs
BY TodoType DEF OwnerRef, OwnerRefs, TypeInv

LEMMA FlowCacheType ==
  ASSUME TypeInv, NEW f \in Flows
  PROVE  /\ flow[f] \in FlowStates /\ flowCache[f] \in FlowStates
         /\ flowCache[f].uid \in Nat /\ flowCache[f].rv \in Nat /\ flowCache[f].cond \in Reasons
         /\ Exists(flowCache[f]) => flowCache[f].spec \in SpecsOf[f]
         /\ flow[f].uid \in Nat /\ flow[f].rv \in Nat /\ flow[f].cond \in Reasons
         /\ Exists(flow[f]) => flow[f].spec \in SpecsOf[f]
BY DEF TypeInv, StoreInv, FlowStates, Exists

LEMMA StartType ==
  ASSUME TypeInv, NEW f \in Flows, StartReconcile(f)
  PROVE  /\ WorkerInv'
         /\ Exists(flowCache[f]) =>
              /\ worker'.pc = "step" /\ worker'.flow = f /\ worker'.spec = flowCache[f].spec
              /\ worker'.rv = flowCache[f].rv /\ worker'.todo = Plan(f, flowCache[f].spec)
         /\ ~Exists(flowCache[f]) => worker' = IdleWorker
<1>1. CASE ~Exists(flowCache[f])
  BY <1>1, IdleWorkerInv DEF StartReconcile
<1>2. CASE Exists(flowCache[f])
  <2> DEFINE t == Plan(f, flowCache[f].spec)
  <2>1. t \in Seq(Steps) /\ WellFormed(t, f, flowCache[f].spec)
    BY <1>2, FlowCacheType, PlanSteps
  <2> HIDE DEF t
  <2>2. worker' = [IdleWorker EXCEPT !.pc = "step", !.flow = f, !.uid = flowCache[f].uid,
                     !.rv = flowCache[f].rv, !.spec = flowCache[f].spec,
                     !.cond = flowCache[f].cond, !.todo = t]
    BY <1>2 DEF StartReconcile, t
  <2>3. /\ worker'.pc = "step" /\ worker'.flow = f /\ worker'.spec = flowCache[f].spec
        /\ worker'.rv = flowCache[f].rv /\ worker'.todo = t /\ worker'.held = Gone(0)
    BY <2>2 DEF IdleWorker
  <2>4. worker' \in Workers
    BY <2>1, <2>2, <1>2, FlowCacheType, IdleType, SpecFields DEF Workers
  <2> QED
    BY <1>2, <2>1, <2>3, <2>4, FlowCacheType, GoneType DEF WorkerInv, t
<1> QED
  BY <1>1, <1>2

\* the object is read and will be written
LEMMA WriteType ==
  ASSUME TypeInv, worker.pc = "step", Todo.do = "apply",
         worker' = [worker EXCEPT !.pc = "write", !.held = cache[Todo.obj]]
  PROVE  /\ WorkerInv'
         /\ worker'.pc = "write" /\ worker'.held = cache[Todo.obj] /\ worker'.flow = worker.flow
         /\ worker'.spec = worker.spec /\ worker'.rv = worker.rv /\ worker'.todo = worker.todo
<1>1. Todo.obj \in Objects /\ worker \in Workers
  BY TodoType DEF TypeInv, WorkerInv
<1>2. cache[Todo.obj] \in Versions /\ cache[Todo.obj].val \in Content(Todo.obj) \cup {None}
  BY <1>1 DEF TypeInv, StoreInv
<1>3. /\ worker'.pc = "write" /\ worker'.held = cache[Todo.obj] /\ worker'.flow = worker.flow
      /\ worker'.spec = worker.spec /\ worker'.rv = worker.rv /\ worker'.todo = worker.todo
      /\ worker' \in Workers
  BY <1>1, <1>2 DEF Workers
<1> QED
  BY <1>2, <1>3 DEF TypeInv, WorkerInv, Todo

\* the next request belongs to the same step
LEMMA GoOnType ==
  ASSUME TypeInv, worker.pc # "idle", NEW pc \in {"recreate", "refetch"},
         pc = "recreate" => Todo.do = "apply" /\ Todo.obj[1] = "RoleBinding",
         pc = "refetch" => Todo.do = "condition",
         worker' = [worker EXCEPT !.pc = pc]
  PROVE  /\ WorkerInv'
         /\ worker'.pc = pc /\ worker'.held = worker.held /\ worker'.flow = worker.flow
         /\ worker'.spec = worker.spec /\ worker'.rv = worker.rv /\ worker'.todo = worker.todo
<1>1. worker \in Workers
  BY DEF TypeInv, WorkerInv
<1>2. /\ worker'.pc = pc /\ worker'.held = worker.held /\ worker'.flow = worker.flow
      /\ worker'.spec = worker.spec /\ worker'.rv = worker.rv /\ worker'.todo = worker.todo
      /\ worker' \in Workers
  BY <1>1 DEF Workers
<1> QED
  BY <1>2 DEF TypeInv, WorkerInv, Todo

LEMMA EditType ==
  ASSUME TypeInv, NEW f \in Flows, NEW s \in SpecsOf[f], EditFlow(f, s) \/ DeleteFlow(f)
  PROVE  /\ flow' \in [Flows -> FlowStates]
         /\ \A g \in Flows \ {f} : flow'[g] = flow[g]
         /\ flow'[f].rv = flow[f].rv + 1
         /\ flow'[f].spec \in SpecsOf[f] \cup {NoSpec}
         /\ flow'[f].cond = flow[f].cond \/ flow'[f].cond = "none"
<1>1. s \in AllSpecs /\ flow[f] \in FlowStates /\ flow \in [Flows -> FlowStates]
  BY SpecFields DEF TypeInv, StoreInv
<1> DEFINE rv == flow[f].rv + 1
<1>2. rv \in Nat
  BY <1>1 DEF FlowStates
<1> HIDE DEF rv
<1>3. PICK uid \in Nat, spec \in {s, NoSpec}, cond \in {flow[f].cond, "none"} :
        flow' = [flow EXCEPT ![f] = [rv |-> rv, uid |-> uid, spec |-> spec, cond |-> cond]]
  BY <1>1 DEF EditFlow, DeleteFlow, rv, FlowStates
<1> DEFINE fl == [rv |-> rv, uid |-> uid, spec |-> spec, cond |-> cond]
<1>4. fl \in FlowStates /\ fl.rv = rv /\ fl.spec = spec /\ fl.cond = cond
  BY <1>1, <1>2 DEF FlowStates, Reasons
<1> HIDE DEF fl
<1> QED
  BY <1>1, <1>3, <1>4 DEF fl, rv

LEMMA TypeInit == Init => TypeInv
<1> SUFFICES ASSUME Init PROVE TypeInv
  OBVIOUS
<1>1. PICK v \in InitialVals : obj = [o \in Objects |-> [rv |-> 0, val |-> v[o], owner |-> NoOwner]]
  BY DEF Init
<1>2. \A o \in Objects : v[o] \in Content(o) \cup {None} /\ v[o] \in Vals
  BY ContentAssumption, ContentTypes DEF Vals
<1>3. obj \in [Objects -> Versions] /\ \A o \in Objects : obj[o].val \in Content(o) \cup {None}
  BY <1>1, <1>2 DEF Versions, OwnerRefs
<1>4. /\ flow \in [Flows -> FlowStates]
      /\ \A f \in Flows : flow[f].spec = NoSpec
  BY DEF Init, FlowStates, Reasons
<1>5. StoreInv
  BY <1>3, <1>4 DEF Init, StoreInv
<1>6. WorkerInv
  BY IdleType DEF Init, WorkerInv
<1>7. SetsInv
  BY BoundAssumption DEF Init, SetsInv
<1> QED
  BY <1>5, <1>6, <1>7 DEF TypeInv

LEMMA TypeStep == TypeInv /\ [Next]_vars => TypeInv'
<1> SUFFICES ASSUME TypeInv, [Next]_vars PROVE TypeInv'
  OBVIOUS
<1> USE DEF clusterVars, cacheVars, syncedVars, history
<1>1. ASSUME NEW f \in Flows, StartReconcile(f) PROVE TypeInv'
  BY <1>1, StartType DEF StartReconcile, TypeInv, StoreInv, SetsInv
<1>2. ASSUME SkipProject PROVE TypeInv'
  BY <1>2, AdvanceType DEF SkipProject, Doing, At, Ends, TypeInv, StoreInv, SetsInv
<1>3. ASSUME ReadObject PROVE TypeInv'
  <2>1. WorkerInv' /\ SetsInv'
    <3>1. CASE Advance(FALSE)
      BY <1>3, <3>1, AdvanceType DEF ReadObject, Doing, At, Ends, TypeInv, SetsInv
    <3>2. CASE /\ worker' = [worker EXCEPT !.pc = "write", !.held = cache[Todo.obj]]
               /\ UNCHANGED <<queue, syncedVars>>
      BY <1>3, <3>2, WriteType DEF ReadObject, Doing, At, TypeInv, SetsInv
    <3> QED
      BY <1>3, <3>1, <3>2 DEF ReadObject
  <2> QED
    BY <1>3, <2>1 DEF ReadObject, TypeInv, StoreInv
<1>4. ASSUME CreateObject PROVE TypeInv'
  <2>1. worker.pc # "idle" /\ ~Ends(Todo) /\ Todo.do = "apply"
    BY <1>4 DEF CreateObject, At, Ends, TypeInv, WorkerInv
  <2>2. CASE Put(Todo.obj, Todo.want, OwnerRef(Todo.obj)) /\ Answer(Advance(TRUE))
    <3>1. StoreInv'
      BY <1>4, <2>1, <2>2, TodoType, WantType, OwnerType, PutType DEF CreateObject, TypeInv, StoreInv
    <3>2. WorkerInv' /\ SetsInv'
      BY <1>4, <2>1, <2>2, AnswerType, AdvanceType, StopType DEF CreateObject, Answer, TypeInv, SetsInv
    <3> QED
      BY <3>1, <3>2 DEF TypeInv
  <2>3. CASE Refused
    BY <1>4, <2>1, <2>3, StopType DEF CreateObject, Refused, TypeInv, StoreInv, SetsInv
  <2> QED
    BY <1>4, <2>2, <2>3 DEF CreateObject
<1>5. ASSUME UpdateObject PROVE TypeInv'
  <2>1. worker.pc # "idle" /\ ~Ends(Todo) /\ Todo.do = "apply"
    BY <1>5 DEF UpdateObject, At, Ends, TypeInv, WorkerInv
  <2>2. CASE /\ Put(Todo.obj, Merged(Todo.obj, Todo.want, worker.held.val), worker.held.owner)
             /\ Answer(Advance(TRUE))
    <3>1. worker.held.val \in Content(Todo.obj) /\ worker.held.owner \in OwnerRefs
      BY <1>5, <2>1, TodoType DEF UpdateObject, Here, TypeInv, WorkerInv, Versions
    <3>2. StoreInv'
      BY <1>5, <2>1, <2>2, <3>1, TodoType, WantType, PutType DEF UpdateObject, TypeInv, StoreInv
    <3>3. WorkerInv' /\ SetsInv'
      BY <1>5, <2>1, <2>2, AnswerType, AdvanceType, StopType DEF UpdateObject, Answer, TypeInv, SetsInv
    <3> QED
      BY <3>2, <3>3 DEF TypeInv
  <2>3. CASE Refused
    BY <1>5, <2>1, <2>3, StopType DEF UpdateObject, Refused, TypeInv, StoreInv, SetsInv
  <2> QED
    BY <1>5, <2>2, <2>3 DEF UpdateObject
<1>6. ASSUME DeleteBinding PROVE TypeInv'
  <2>1. worker.pc # "idle" /\ Todo.do = "apply" /\ Todo.obj[1] = "RoleBinding" /\ Todo.obj \in Objects
    BY <1>6, TodoType DEF DeleteBinding, At, Replaces, TypeInv, WorkerInv
  <2>2. CASE Put(Todo.obj, None, obj[Todo.obj].owner)
    <3>1. obj[Todo.obj].owner \in OwnerRefs
      BY <2>1 DEF TypeInv, StoreInv, Versions
    <3>2. StoreInv'
      BY <1>6, <2>1, <2>2, <3>1, PutType DEF DeleteBinding, TypeInv, StoreInv
    <3>3. CASE worker' = [worker EXCEPT !.pc = "recreate"] /\ UNCHANGED <<queue, syncedVars, budget>>
      BY <1>6, <2>1, <3>2, <3>3, GoOnType DEF DeleteBinding, TypeInv, SetsInv
    <3>4. CASE Requeue /\ budget' = Less("faults") /\ budget.faults > 0
      BY <1>6, <2>1, <3>2, <3>4, StopType, LessType DEF DeleteBinding, TypeInv, SetsInv
    <3>5. CASE Refused
      BY <1>6, <2>1, <3>5, StopType DEF DeleteBinding, Refused, TypeInv, StoreInv, SetsInv
    <3> QED
      BY <1>6, <3>3, <3>4, <3>5 DEF DeleteBinding, Answer
  <2>3. CASE Refused
    BY <1>6, <2>1, <2>3, StopType DEF DeleteBinding, Refused, TypeInv, StoreInv, SetsInv
  <2> QED
    BY <1>6, <2>2, <2>3 DEF DeleteBinding
<1>7. ASSUME OwnerError PROVE TypeInv'
  BY <1>7, StopType DEF OwnerError, Doing, At, TypeInv, StoreInv, SetsInv
<1>8. ASSUME SyncGitHubSettings PROVE TypeInv'
  <2>1. worker.pc # "idle" /\ ~Ends(Todo)
    BY <1>8 DEF SyncGitHubSettings, Doing, At, Ends
  <2>2. configured' \subseteq Repos
    BY <1>8, <2>1, TodoType, StepKinds, SpecFields DEF SyncGitHubSettings, Doing, TypeInv, SetsInv
  <2>3. WorkerInv' /\ SetsInv'
    BY <1>8, <2>1, <2>2, AnswerType, AdvanceType, StopType
       DEF SyncGitHubSettings, Answer, TypeInv, SetsInv
  <2> QED
    BY <1>8, <2>3 DEF SyncGitHubSettings, TypeInv, StoreInv
<1>9. ASSUME SetCondition PROVE TypeInv'
  <2>1. worker.pc # "idle" /\ Todo.do = "condition" /\ Todo.want \in Reasons /\ worker.flow \in Flows
    BY <1>9, TodoType, StepKinds DEF SetCondition, Doing, At, TypeInv
  <2>2. CASE Return /\ UNCHANGED <<flow, budget>>
    BY <1>9, <2>1, <2>2, StopType DEF SetCondition, TypeInv, StoreInv, SetsInv
  <2>3. CASE Requeue /\ UNCHANGED <<flow, budget>>
    BY <1>9, <2>1, <2>3, StopType DEF SetCondition, TypeInv, StoreInv, SetsInv
  <2>4. CASE /\ flow' = [flow EXCEPT ![worker.flow].cond = Todo.want, ![worker.flow].rv = @ + 1]
             /\ Answer(worker' = [worker EXCEPT !.pc = "refetch"] /\ UNCHANGED <<queue, syncedVars>>)
    <3>1. /\ flow' \in [Flows -> FlowStates] 
          /\ \A f \in Flows : flow'[f].spec = flow[f].spec
      BY <2>1, <2>4 DEF TypeInv, StoreInv, FlowStates
    <3>2. StoreInv'
      BY <1>9, <3>1 DEF SetCondition, TypeInv, StoreInv
    <3>3. CASE worker' = [worker EXCEPT !.pc = "refetch"] /\ UNCHANGED <<queue, syncedVars, budget>>
      BY <1>9, <2>1, <3>2, <3>3, GoOnType DEF SetCondition, TypeInv, SetsInv
    <3>4. CASE Requeue /\ budget' = Less("faults") /\ budget.faults > 0
      BY <1>9, <2>1, <3>2, <3>4, StopType, LessType DEF SetCondition, TypeInv, SetsInv
    <3> QED
      BY <2>4, <3>3, <3>4 DEF Answer
  <2> QED
    BY <1>9, <2>2, <2>3, <2>4 DEF SetCondition
<1>10. ASSUME Refetch PROVE TypeInv'
  BY <1>10, StopType DEF Refetch, At, TypeInv, StoreInv, SetsInv
<1>11. ASSUME RequestFails PROVE TypeInv'
  BY <1>11, StopType, LessType DEF RequestFails, Requests, At, TypeInv, StoreInv, SetsInv
<1>12. ASSUME NEW f \in Flows, FlowEvent(f) PROVE TypeInv'
  BY <1>12 DEF FlowEvent, TypeInv, StoreInv, SetsInv, WorkerInv, Todo
<1>13. ASSUME NEW o \in Objects, ObjectEvent(o) PROVE TypeInv'
  <2>1. Owners(o) \subseteq Flows
    BY DEF Owners, OwnerRefs, TypeInv, StoreInv, Versions
  <2>2. StoreInv' /\ SetsInv'
    BY <1>13, <2>1 DEF ObjectEvent, TypeInv, StoreInv, SetsInv
  <2> QED
    BY <1>13, <2>2 DEF ObjectEvent, TypeInv, WorkerInv, Todo
<1>14. ASSUME NEW f \in Flows, Resync(f) PROVE TypeInv'
  BY <1>14 DEF Resync, TypeInv, StoreInv, SetsInv, WorkerInv, Todo
<1>15. ASSUME NEW f \in Flows, NEW s \in SpecsOf[f], EditFlow(f, s) PROVE TypeInv'
  <2>1. StoreInv'
    BY <1>15, EditType DEF EditFlow, TypeInv, StoreInv
  <2> QED
    BY <1>15, <2>1, LessType DEF EditFlow, TypeInv, SetsInv, WorkerInv, Todo
<1>16. ASSUME NEW f \in Flows, DeleteFlow(f) PROVE TypeInv'
  <2>1. StoreInv'
    BY <1>16, FlowCacheType, EditType DEF DeleteFlow, TypeInv, StoreInv
  <2> QED
    BY <1>16, <2>1, LessType DEF DeleteFlow, TypeInv, SetsInv, WorkerInv, Todo
<1>17. ASSUME NEW o \in Objects, CollectGarbage(o) PROVE TypeInv'
  <2>1. obj[o].owner \in OwnerRefs
    BY DEF TypeInv, StoreInv, Versions
  <2>2. StoreInv'
    BY <1>17, <2>1, PutType DEF CollectGarbage, TypeInv, StoreInv
  <2> QED
    BY <1>17, <2>2 DEF CollectGarbage, TypeInv, SetsInv, WorkerInv, Todo
<1>18. ASSUME NEW o \in Objects, NEW val \in Tampering[o], Tamper(o, val) PROVE TypeInv'
  <2>1. obj[o].owner \in OwnerRefs /\ val \in Content(o) \cup {None}
    BY ContentAssumption DEF TypeInv, StoreInv, Versions
  <2>2. StoreInv'
    BY <1>18, <2>1, PutType DEF Tamper, TypeInv, StoreInv
  <2> QED
    BY <1>18, <2>2, LessType DEF Tamper, TypeInv, SetsInv, WorkerInv, Todo
<1>19. ASSUME Restart PROVE TypeInv'
  BY <1>19, IdleWorkerInv, LessType DEF Restart, TypeInv, StoreInv, SetsInv
<1>20. CASE UNCHANGED vars
  BY <1>20 DEF vars, TypeInv, StoreInv, SetsInv, WorkerInv, Todo
<1> QED
  BY <1>1, <1>2, <1>3, <1>4, <1>5, <1>6, <1>7, <1>8, <1>9, <1>10, <1>11, <1>12, <1>13, <1>14,
     <1>15, <1>16, <1>17, <1>18, <1>19, <1>20 DEF Next, Reconcile, Environment

LEMMA TypeInvTypeOK == TypeInv => TypeOK
<1> SUFFICES ASSUME TypeInv PROVE TypeOK
  OBVIOUS
<1>1. \A f \in Flows : flow[f] \in FlowState(f) /\ flowCache[f] \in FlowState(f)
  BY DEF TypeInv, StoreInv, FlowStates, FlowState
<1>2. ASSUME NEW ob \in Versions, NEW o, ob.val \in Content(o) \cup {None}
      PROVE  IsObject(o, ob)
  BY <1>2 DEF IsObject, Versions, OwnerRefs
<1>3. \A o \in Objects : IsObject(o, obj[o]) /\ IsObject(o, cache[o])
  BY <1>2 DEF TypeInv, StoreInv
<1>4. worker.pc # "idle" =>
        /\ worker.flow \in Flows /\ worker.spec \in SpecsOf[worker.flow]
        /\ worker.todo # <<>> /\ Todo.obj \in Objects
        /\ IsObject(Todo.obj, worker.held)
  BY <1>2, TodoType DEF TypeInv, WorkerInv, WellFormed, EndsOnce
<1>5. worker.pc \in {"idle", "step", "write", "recreate", "refetch"}
  BY DEF TypeInv, WorkerInv, Workers
<1> QED
  BY <1>1, <1>3, <1>4, <1>5 DEF TypeInv, SetsInv, TypeOK

\* Every state that the reconciler, the informers, the users and the faults can reach
\* is of the types of the model, whatever the bounds.
THEOREM FlowReconcileTypes == Spec => []TypeOK
<1>1. TypeInv /\ [Next]_vars => TypeInv'
  BY TypeStep
<1> QED
  BY <1>1, TypeInit, TypeInvTypeOK, PTL DEF Spec

-------------------------------------------------------------------------------
(***************************************************************************)
(* What a step does to the objects, to the Flows, to the informers and to  *)
(* the call in progress.                                                   *)
(***************************************************************************)
Writes ==
  \/ CreateObject \/ UpdateObject \/ DeleteBinding
  \/ \E o \in Objects : CollectGarbage(o) \/ \E val \in Tampering[o] : Tamper(o, val)

LEMMA OtherSteps ==
  ASSUME [Next]_vars
  PROVE  /\ Writes \/ obj' = obj
         /\ SetCondition \/ (\E f \in Flows : DeleteFlow(f) \/ \E s \in SpecsOf[f] : EditFlow(f, s))
              \/ flow' = flow
         /\ (\E o \in Objects : ObjectEvent(o)) \/ Restart \/ cache' = cache
         /\ (\E f \in Flows : FlowEvent(f)) \/ Restart \/ flowCache' = flowCache
<1> USE DEF clusterVars, cacheVars, Writes, Next, Reconcile, Environment, vars
<1>1. CASE \E f \in Flows : StartReconcile(f) \/ FlowEvent(f) \/ Resync(f)
  BY <1>1 DEF StartReconcile, FlowEvent, Resync
<1>2. CASE Reconcile
  BY <1>2 DEF SkipProject, ReadObject, CreateObject, UpdateObject, DeleteBinding, OwnerError,
     SyncGitHubSettings, SetCondition, Refetch
<1>3. CASE RequestFails
  BY <1>3 DEF RequestFails
<1>4. CASE \E o \in Objects : ObjectEvent(o)
  BY <1>4 DEF ObjectEvent
<1>5. CASE Environment
  BY <1>5 DEF EditFlow, DeleteFlow, CollectGarbage, Tamper, Restart
<1> QED
  BY <1>1, <1>2, <1>3, <1>4, <1>5

LEMMA WriteVersions ==
  ASSUME TypeInv, Writes, NEW o \in Objects
  PROVE  obj'[o] = obj[o] \/ obj'[o].rv = obj[o].rv + 1
<1>1. \A p, val, owner : Put(p, val, owner) => obj'[o] = obj[o] \/ obj'[o].rv = obj[o].rv + 1
  BY DEF Put, TypeInv, StoreInv
<1> QED
  BY <1>1 DEF Writes, CreateObject, UpdateObject, DeleteBinding, CollectGarbage, Tamper, Refused

LEMMA FlowVersions ==
  ASSUME TypeInv, [Next]_vars, NEW f \in Flows
  PROVE  flow'[f] = flow[f] \/ flow'[f].rv = flow[f].rv + 1
<1>1. CASE SetCondition
  <2>1. flow[f] \in FlowStates
    BY FlowCacheType
  <2> QED
    BY <1>1, <2>1 DEF SetCondition, TypeInv, StoreInv, FlowStates
<1>2. ASSUME NEW g \in Flows, DeleteFlow(g) \/ \E s \in SpecsOf[g] : EditFlow(g, s)
      PROVE  flow'[f] = flow[f] \/ flow'[f].rv = flow[f].rv + 1
  BY <1>2, EditType, FlowCacheType DEF DeleteFlow
<1> QED
  BY <1>1, <1>2, OtherSteps

\* a call goes on with the same Flow, spec and version
Continues ==
  /\ worker.pc # "idle" /\ worker'.pc \notin {"idle", "write"}
  /\ worker'.flow = worker.flow /\ worker'.spec = worker.spec /\ worker'.rv = worker.rv
Fetched ==
  /\ worker.pc = "step" /\ Todo.do = "apply" /\ obj' = obj /\ cache' = cache /\ flow' = flow
  /\ worker' = [worker EXCEPT !.pc = "write", !.held = cache[Todo.obj]]

LEMMA WorkerSteps ==
  ASSUME TypeInv, [Next]_vars
  PROVE  \/ worker' = worker
         \/ worker' = IdleWorker
         \/ Continues
         \/ Fetched
         \/ \E f \in Flows : StartReconcile(f)
<1> USE DEF clusterVars, cacheVars
<1>1. ASSUME Doing("apply") \/ Doing("settings") \/ CreateObject \/ UpdateObject
      PROVE  worker.pc # "idle" /\ ~Ends(Todo)
  BY <1>1 DEF Doing, At, CreateObject, UpdateObject, Ends, TypeInv, WorkerInv
<1>2. ASSUME Doing("apply") \/ Doing("settings") \/ CreateObject \/ UpdateObject,
             Advance(TRUE) \/ Advance(FALSE)
      PROVE  Continues
  BY <1>1, <1>2, AdvanceType DEF Continues
<1>3. CASE SkipProject \/ ReadObject
  BY <1>2, <1>3 DEF SkipProject, ReadObject, Fetched, Doing, At
<1>4. CASE CreateObject \/ UpdateObject \/ SyncGitHubSettings
  BY <1>2, <1>4 DEF CreateObject, UpdateObject, SyncGitHubSettings, Answer, Refused, Requeue
<1>5. CASE DeleteBinding
  <2>1. worker.pc # "idle" /\ Todo.do = "apply" /\ Todo.obj[1] = "RoleBinding"
    BY <1>5 DEF DeleteBinding, At, Replaces, TypeInv, WorkerInv
  <2> QED
    BY <1>5, <2>1, GoOnType DEF DeleteBinding, Answer, Refused, Requeue, Continues
<1>6. CASE SetCondition
  <2>1. worker.pc # "idle" /\ Todo.do = "condition"
    BY <1>6 DEF SetCondition, Doing, At
  <2> QED
    BY <1>6, <2>1, GoOnType DEF SetCondition, Answer, Return, Requeue, Continues
<1>7. CASE OwnerError \/ Refetch \/ RequestFails
  BY <1>7 DEF OwnerError, Refetch, RequestFails, Return, Requeue
<1>8. CASE \E f \in Flows : FlowEvent(f) \/ Resync(f)
  BY <1>8 DEF FlowEvent, Resync
<1>9. CASE \E o \in Objects : ObjectEvent(o)
  BY <1>9 DEF ObjectEvent
<1>10. CASE Environment
  BY <1>10 DEF Environment, EditFlow, DeleteFlow, CollectGarbage, Tamper, Restart
<1>11. CASE UNCHANGED vars
  BY <1>11 DEF vars
<1> QED
  BY <1>3, <1>4, <1>5, <1>6, <1>7, <1>8, <1>9, <1>10, <1>11 DEF Next, Reconcile

(***************************************************************************)
(* Versions.                                                               *)
(***************************************************************************)
LEMMA VersionInit == Init => VersionInv
<1> SUFFICES ASSUME Init PROVE VersionInv
  OBVIOUS
<1>1. TypeInv
  BY TypeInit
<1>2. /\ \A o \in Objects : Older(cache[o], obj[o])
      /\ \A f \in Flows : Older(flowCache[f], flow[f])
  BY <1>1, FlowCacheType DEF Init, Older, TypeInv, StoreInv, Versions
<1> QED
  BY <1>2, IdleType DEF Init, VersionInv

\* time does not make a copy newer
LEMMA OlderStays ==
  ASSUME NEW copy, NEW old, NEW new, Older(copy, old), copy.rv \in Nat, old.rv \in Nat,
         new = old \/ new.rv = old.rv + 1
  PROVE  Older(copy, new)
BY DEF Older

LEMMA VersionStep == TypeInv /\ VersionInv /\ [Next]_vars => VersionInv'
<1> SUFFICES ASSUME TypeInv, VersionInv, [Next]_vars PROVE VersionInv'
  OBVIOUS
<1>1. TypeInv'
  BY TypeStep
<1>2. \A o \in Objects : /\ obj[o] \in Versions /\ obj[o].rv \in Nat /\ obj'[o].rv \in Nat
                         /\ cache[o] \in Versions /\ cache[o].rv \in Nat
  BY <1>1 DEF TypeInv, StoreInv, Versions
<1>3. \A o \in Objects : obj'[o] = obj[o] \/ obj'[o].rv = obj[o].rv + 1
  BY OtherSteps, WriteVersions
<1>4. \A f \in Flows : flow'[f] = flow[f] \/ flow'[f].rv = flow[f].rv + 1
  BY FlowVersions
<1>5. \A f \in Flows : flow[f].rv \in Nat /\ flowCache[f].rv \in Nat /\ flow'[f].rv \in Nat
  BY <1>1 DEF TypeInv, StoreInv, FlowStates
<1>6. \A o \in Objects : Older(cache[o], obj'[o])
  BY <1>2, <1>3, OlderStays DEF VersionInv
<1>7. \A f \in Flows : Older(flowCache[f], flow'[f])
  BY <1>4, <1>5, OlderStays DEF VersionInv
<1>8. \A o \in Objects : Older(cache'[o], obj'[o])
  <2>1. CASE cache' = cache
    BY <2>1, <1>6
  <2>2. CASE Restart
    BY <2>2, <1>2 DEF Restart, clusterVars, Older
  <2>3. ASSUME NEW p \in Objects, ObjectEvent(p), NEW o \in Objects PROVE Older(cache'[o], obj'[o])
    <3>1. obj' = obj /\ cache' = [cache EXCEPT ![p] = obj[p]]
      BY <2>3 DEF ObjectEvent, clusterVars
    <3> QED
      BY <3>1, <1>2, <1>6 DEF TypeInv, StoreInv, Older
  <2> QED
    BY <2>1, <2>2, <2>3, OtherSteps
<1>9. \A f \in Flows : Older(flowCache'[f], flow'[f])
  <2>1. CASE flowCache' = flowCache
    BY <2>1, <1>7
  <2>2. CASE Restart
    BY <2>2, <1>5 DEF Restart, clusterVars, Older
  <2>3. ASSUME NEW g \in Flows, FlowEvent(g), NEW f \in Flows PROVE Older(flowCache'[f], flow'[f])
    <3>1. flow' = flow /\ flowCache' = [flowCache EXCEPT ![g] = flow[g]]
      BY <2>3 DEF FlowEvent, clusterVars
    <3> QED
      BY <3>1, <1>5, <1>7 DEF TypeInv, StoreInv, Older
  <2> QED
    BY <2>1, <2>2, <2>3, OtherSteps
<1>10. /\ worker'.pc = "write" => Older(worker'.held, obj'[Todo'.obj])
       /\ worker'.pc # "idle" =>
            /\ worker'.rv <= flow'[worker'.flow].rv
            /\ worker'.rv = flow'[worker'.flow].rv => worker'.spec = flow'[worker'.flow].spec
  <2>1. ASSUME worker.pc # "idle", worker'.flow = worker.flow, worker'.spec = worker.spec,
               worker'.rv = worker.rv
        PROVE  /\ worker'.rv <= flow'[worker'.flow].rv
               /\ worker'.rv = flow'[worker'.flow].rv => worker'.spec = flow'[worker'.flow].spec
    <3>1. worker.flow \in Flows /\ worker.rv \in Nat
      BY <2>1 DEF TypeInv, WorkerInv, Workers
    <3> QED
      BY <2>1, <3>1, <1>4, <1>5 DEF VersionInv
  <2>2. CASE worker' = worker
    <3>1. CASE worker.pc = "write"
      <4>1. Todo' = Todo /\ Todo.obj \in Objects /\ worker.held.rv \in Nat
        BY <2>2, <3>1, TodoType DEF Todo, TypeInv, Versions
      <4>2. Older(worker.held, obj'[Todo.obj])
        BY <4>1, <3>1, <1>2, <1>3, OlderStays DEF VersionInv
      <4> QED
        BY <2>1, <2>2, <3>1, <4>1, <4>2
    <3> QED
      BY <2>1, <2>2, <3>1
  <2>3. CASE worker' = IdleWorker
    BY <2>3, IdleType
  <2>4. CASE Continues
    BY <2>1, <2>4 DEF Continues
  <2>5. CASE Fetched
    <3>1. worker'.held = cache[Todo.obj] /\ worker'.todo = worker.todo /\ Todo.obj \in Objects
          /\ worker'.flow = worker.flow /\ worker'.spec = worker.spec /\ worker'.rv = worker.rv
      BY <2>5, WriteType, TodoType DEF Fetched, TypeInv
    <3>2. Older(worker'.held, obj'[Todo'.obj])
      BY <3>1, <2>5 DEF Fetched, VersionInv, Todo
    <3> QED
      BY <2>1, <2>5, <3>1, <3>2 DEF Fetched
  <2>6. ASSUME NEW f \in Flows, StartReconcile(f)
        PROVE  /\ worker'.pc # "write"
               /\ worker'.pc # "idle" =>
                    /\ worker'.rv <= flow'[worker'.flow].rv
                    /\ worker'.rv = flow'[worker'.flow].rv => worker'.spec = flow'[worker'.flow].spec
    <3>1. flow' = flow
      BY <2>6 DEF StartReconcile, clusterVars
    <3> QED
      BY <2>6, <3>1, StartType, IdleType DEF VersionInv, Older
  <2> QED
    BY <2>2, <2>3, <2>4, <2>5, <2>6, WorkerSteps
<1> QED
  BY <1>8, <1>9, <1>10 DEF VersionInv

\* an update replaces what was read
LEMMA UpdatesWhatWasRead ==
  ASSUME VersionInv, UpdateObject, Accepts(Todo.obj, worker.held)
  PROVE  obj[Todo.obj] = worker.held
BY DEF VersionInv, UpdateObject, At, Accepts, Older

(***************************************************************************)
(* Owners.                                                                 *)
(***************************************************************************)
LEMMA OwnerInit == Init => OwnerInv
<1> SUFFICES ASSUME Init PROVE OwnerInv
  OBVIOUS
<1>1. PICK v \in InitialVals : obj = [o \in Objects |-> [rv |-> 0, val |-> v[o], owner |-> NoOwner]]
  BY DEF Init
<1>2. \A o \in Objects : obj[o].owner = NoOwner /\ obj[o].val = v[o]
  BY <1>1
<1>3. \A f \in Flows : obj[SensorOf(f)].val = None
  BY <1>2, ObjectsOf, ContentAssumption
<1> QED
  BY <1>2, <1>3, ObjectsOf DEF Init, OwnerInv

LEMMA OwnerStep == TypeInv /\ VersionInv /\ OwnerInv /\ [Next]_vars => OwnerInv'
<1> SUFFICES ASSUME TypeInv, VersionInv, OwnerInv, [Next]_vars PROVE OwnerInv'
  OBVIOUS
<1> DEFINE OneWrite(o, owner) ==
             /\ o \in Objects /\ obj'[o].rv = obj[o].rv + 1 /\ obj'[o].owner = owner
             /\ \A p \in Objects \ {o} : obj'[p] = obj[p]
<1>1. ASSUME NEW o \in Objects, NEW owner \in OwnerRefs, OneWrite(o, owner), cache' = cache,
             blind' \subseteq blind \/ (o[1] = "RoleBinding" /\ blind' \subseteq blind \cup {o}),
             o \notin Owned => owner = NoOwner,
             o[1] = "Sensor" => owner # NoOwner /\ owner[1] = o[2]
      PROVE  OwnerInv'
  <2>1. \A p \in Objects \ Owned : obj'[p].owner = NoOwner
    BY <1>1 DEF OwnerInv
  <2>2. ASSUME NEW f \in Flows
        PROVE  LET p == SensorOf(f) IN
                 /\ obj'[p].owner = NoOwner => obj'[p].val = None /\ cache'[p] = obj'[p]
                 /\ obj'[p].owner # NoOwner => obj'[p].owner[1] = f
                 /\ cache'[p].owner # NoOwner => cache'[p].owner[1] = f
    <3>1. SensorOf(f) \in Objects /\ SensorOf(f)[1] = "Sensor" /\ SensorOf(f)[2] = f
      BY ObjectsOf DEF SensorOf
    <3>2. CASE o = SensorOf(f)
      BY <1>1, <3>1, <3>2 DEF OwnerInv
    <3>3. CASE o # SensorOf(f)
      BY <1>1, <3>1, <3>3 DEF OwnerInv
    <3> QED
      BY <3>2, <3>3
  <2>3. \A p \in blind' : p[1] = "RoleBinding"
    BY <1>1 DEF OwnerInv
  <2> QED
    BY <2>1, <2>2, <2>3 DEF OwnerInv
<1>2. ASSUME NEW o \in Objects, NEW val \in Content(o) \cup {None},
             NEW owner \in OwnerRefs, Put(o, val, owner)
      PROVE  OneWrite(o, owner)
  BY <1>2, PutType
<1> HIDE DEF OneWrite
<1>3. ASSUME NEW o \in Objects
      PROVE  /\ obj[o].owner \in OwnerRefs /\ None \in Content(o) \cup {None}
             /\ o \notin Owned => obj[o].owner = NoOwner
             /\ o[1] = "Sensor" /\ Here(obj[o]) => obj[o].owner # NoOwner /\ obj[o].owner[1] = o[2]
  <2>1. obj[o].owner \in OwnerRefs /\ None \in Content(o) \cup {None}
    BY DEF TypeInv, StoreInv, Versions
  <2>2. o \notin Owned => obj[o].owner = NoOwner
    BY DEF OwnerInv
  <2>3. CASE o[1] = "Sensor"
    <3>1. o[2] \in Flows /\ o = SensorOf(o[2])
      BY <2>3, ObjectKinds DEF SensorOf, EventSource
    <3> QED
      BY <2>1, <2>2, <3>1 DEF OwnerInv, Here
  <2> QED
    BY <2>1, <2>2, <2>3
<1>4. CASE CreateObject /\ obj' # obj
  <2>1. worker.pc # "idle" /\ Todo.do = "apply"
    BY <1>4 DEF CreateObject, At, TypeInv, WorkerInv
  <2>2. Put(Todo.obj, Todo.want, OwnerRef(Todo.obj)) /\ cache' = cache /\ blind' = blind
    BY <1>4 DEF CreateObject, Refused, cacheVars, history
  <2>3. /\ Todo.obj \in Objects /\ Todo.want \in Content(Todo.obj) \cup {None}
        /\ OwnerRef(Todo.obj) \in OwnerRefs
    BY <2>1, TodoType, WantType, OwnerType DEF TypeInv
  <2>4. Todo.obj \notin Owned => OwnerRef(Todo.obj) = NoOwner
    BY DEF OwnerRef
  <2>5. Todo.obj[1] = "Sensor" => OwnerRef(Todo.obj) # NoOwner /\ OwnerRef(Todo.obj)[1] = Todo.obj[2]
    BY <2>1, <2>3, TodoType, StepKinds, ObjectKinds DEF OwnerRef, NoOwner, TypeInv
  <2> QED
    BY <2>2, <2>3, <2>4, <2>5, <1>1, <1>2
<1>5. CASE UpdateObject /\ obj' # obj
  <2>1. worker.pc # "idle" /\ Todo.do = "apply"
    BY <1>5 DEF UpdateObject, At, TypeInv, WorkerInv
  <2>2. /\ Put(Todo.obj, Merged(Todo.obj, Todo.want, worker.held.val), worker.held.owner)
        /\ cache' = cache /\ blind' = blind /\ Accepts(Todo.obj, worker.held) /\ Here(worker.held)
    BY <1>5 DEF UpdateObject, Refused, cacheVars, history
  <2>3. obj[Todo.obj] = worker.held
    BY <1>5, <2>2, UpdatesWhatWasRead
  <2>4. /\ Todo.obj \in Objects
        /\ Merged(Todo.obj, Todo.want, worker.held.val) \in Content(Todo.obj) \cup {None}
    BY <2>1, <2>2, TodoType, WantType DEF TypeInv, WorkerInv, Here
  <2> QED
    BY <2>2, <2>3, <2>4, <1>1, <1>2, <1>3
<1>6. CASE DeleteBinding /\ obj' # obj
  <2>1. worker.pc # "idle" /\ Todo.obj[1] = "RoleBinding" /\ Todo.obj \in Objects
    BY <1>6, TodoType DEF DeleteBinding, At, Replaces, TypeInv
  <2>2. /\ Put(Todo.obj, None, obj[Todo.obj].owner) /\ cache' = cache
        /\ blind' \subseteq blind \cup {Todo.obj}
    BY <1>6 DEF DeleteBinding, Refused, cacheVars
  <2> QED
    BY <2>1, <2>2, <1>1, <1>2, <1>3
<1>7. ASSUME NEW o \in Objects, CollectGarbage(o) PROVE OwnerInv'
  BY <1>7, <1>1, <1>2, <1>3 DEF CollectGarbage, cacheVars, history
<1>8. ASSUME NEW o \in Objects, NEW val \in Tampering[o], Tamper(o, val) PROVE OwnerInv'
  <2>1. val \in Content(o) \cup {None}
    BY ContentAssumption
  <2> QED
    BY <1>8, <2>1, <1>1, <1>2, <1>3 DEF Tamper, cacheVars
<1>9. CASE obj' = obj
  <2>1. blind' \subseteq blind
    <3>1. CASE DeleteBinding
      <4>1. ~Put(Todo.obj, None, obj[Todo.obj].owner)
        <5>1. Todo.obj \in Objects /\ obj[Todo.obj].rv \in Nat
          BY <3>1, TodoType DEF DeleteBinding, At, TypeInv, StoreInv, Versions
        <5>2. Put(Todo.obj, None, obj[Todo.obj].owner) => obj'[Todo.obj].rv = obj[Todo.obj].rv + 1
          BY <5>1, <1>3, PutType
        <5> QED
          BY <5>1, <5>2, <1>9
      <4> QED
        BY <3>1, <4>1 DEF DeleteBinding
    <3>2. CASE Reconcile /\ ~DeleteBinding
      BY <3>2 DEF Reconcile, SkipProject, ReadObject, CreateObject, UpdateObject, OwnerError,
         SyncGitHubSettings, SetCondition, Refetch, history
    <3>3. CASE ~Reconcile
      BY <3>3 DEF Next, vars, history, Environment, StartReconcile, FlowEvent, Resync, RequestFails,
         ObjectEvent, EditFlow, DeleteFlow, CollectGarbage, Tamper, Restart
    <3> QED
      BY <3>1, <3>2, <3>3
  <2>2. ASSUME NEW f \in Flows
        PROVE  LET p == SensorOf(f) IN
                 /\ obj[p].owner = NoOwner => cache'[p] = obj[p]
                 /\ cache'[p].owner # NoOwner => cache'[p].owner[1] = f
    <3>1. SensorOf(f) \in Objects
      BY ObjectsOf
    <3>2. cache'[SensorOf(f)] \in {cache[SensorOf(f)], obj[SensorOf(f)]}
      <4>1. ASSUME NEW o \in Objects, ObjectEvent(o)
            PROVE  cache'[SensorOf(f)] \in {cache[SensorOf(f)], obj[SensorOf(f)]}
        BY <4>1, <3>1 DEF ObjectEvent, TypeInv, StoreInv
      <4> QED
        BY <4>1, <3>1, OtherSteps DEF Restart
    <3> QED
      BY <3>1, <3>2 DEF OwnerInv
  <2> QED
    BY <1>9, <2>1, <2>2 DEF OwnerInv
<1> QED
  BY <1>4, <1>5, <1>6, <1>7, <1>8, <1>9, OtherSteps DEF Writes

-------------------------------------------------------------------------------
(***************************************************************************)
(* What is done stays done, until the process restarts.                    *)
(***************************************************************************)
LEMMA MatchCases ==
  ASSUME NEW o, NEW want, NEW val
  PROVE  /\ Matches(o, want, val) => val # None
         /\ o[1] = "Sensor" => (Matches(o, want, val) <=> val # None /\ DeepDerivative(want, val))
         /\ o[1] = "EventSource" => (Matches(o, want, val) <=> val # None /\ want \subseteq val)
         /\ o[1] = "ServiceAccount" => (Matches(o, want, val) <=> val # None)
         /\ o[1] \notin {"Sensor", "EventSource", "ServiceAccount"} =>
              (Matches(o, want, val) <=> val # None /\ val = want)
BY Zenon DEF Matches

LEMMA WrittenMatches ==
  ASSUME NEW st \in Steps, NEW f \in Flows, NEW s \in SpecsOf[f], StepFor(st, f, s), st.do = "apply"
  PROVE  /\ Matches(st.obj, st.want, st.want)
         /\ \A val \in Content(st.obj) : Matches(st.obj, st.want, Merged(st.obj, st.want, val))
<1>1. st.want # None /\ st.obj \in Objects
      /\ \A val \in Content(st.obj) : Merged(st.obj, st.want, val) # None
  BY WantType, ContentTypes
<1>2. EventSource[1] = "EventSource"
  BY DEF EventSource
<1>3. CASE st.obj[1] = "Sensor"
  <2>1. st.want \in Seq(Events) /\ \A val : Merged(st.obj, st.want, val) = st.want
    BY <1>2, <1>3, StepKinds, SpecFields DEF Merged
  <2>2. DeepDerivative(st.want, st.want)
    BY <2>1, SubSeqFull, LenProperties DEF DeepDerivative
  <2> QED
    BY <1>1, <1>3, <2>1, <2>2, MatchCases
<1>4. CASE st.obj = EventSource
  BY <1>1, <1>2, <1>4, MatchCases DEF Merged
<1>5. CASE st.obj[1] \notin {"Sensor", "EventSource"}
  BY <1>1, <1>2, <1>5, MatchCases DEF Merged
<1> QED
  BY <1>1, <1>3, <1>4, <1>5, ObjectKinds

LEMMA WantedOf ==
  ASSUME NEW o \in Common
  PROVE  /\ o \in Objects /\ o \notin Owned /\ o[1] \notin {"Application", "Sensor"}
         /\ o[1] # "EventSource" => Wanted(o) = {"current"} /\ o # EventSource
         /\ o[1] = "EventSource" => Wanted(o) = {{r} : r \in Repos} /\ o = EventSource
BY ObjectKinds DEF Common, Wanted, EventSource

\* the step at hand wants of a common object what the others want
LEMMA TodoWants ==
  ASSUME TypeInv, worker.pc # "idle", Todo.do = "apply", Todo.obj \in Common
  PROVE  Todo.want \in Wanted(Todo.obj)
<1>1. /\ Todo.obj[1] = "EventSource" => Todo.want = {worker.spec.repo}
      /\ Todo.obj[1] \notin {"Application", "Sensor", "EventSource"} => Todo.want = "current"
  BY TodoType, StepKinds DEF TypeInv
<1>2. worker.spec.repo \in Repos
  BY TodoType, SpecFields DEF TypeInv
<1>3. CASE Todo.obj[1] = "EventSource"
  BY <1>1, <1>2, <1>3, WantedOf
<1>4. CASE Todo.obj[1] # "EventSource"
  BY <1>1, <1>4, WantedOf
<1> QED
  BY <1>3, <1>4

LEMMA HistoryGrows ==
  ASSUME [Next]_vars, ~Restart
  PROVE  touched \subseteq touched' /\ blind \subseteq blind'
<1>1. CASE Reconcile
  BY <1>1 DEF Reconcile, SkipProject, ReadObject, CreateObject, UpdateObject, DeleteBinding, OwnerError,
     SyncGitHubSettings, SetCondition, Refetch, history
<1>2. CASE ~Reconcile
  BY <1>2 DEF Next, vars, history, Environment, StartReconcile, FlowEvent, Resync, RequestFails,
     ObjectEvent, EditFlow, DeleteFlow, CollectGarbage, Tamper
<1> QED
  BY <1>1, <1>2

LEMMA DoneStays ==
  ASSUME TypeInv, VersionInv, OwnerInv, [Next]_vars, ~Restart,
         NEW o \in Common, NEW want \in Wanted(o), Done(o, want)
  PROVE  Done(o, want)'
<1>1. touched \subseteq touched' /\ blind \subseteq blind'
  BY HistoryGrows
<1>2. o \in Objects /\ o \notin Owned /\ o[1] \notin {"Application", "Sensor"}
  BY WantedOf
<1>3. CASE obj'[o] = obj[o]
  BY <1>1, <1>3 DEF Done, Applied
<1>4. CASE o \in touched'
  BY <1>4 DEF Done
<1> DEFINE W == obj'[o] # obj[o] /\ o \notin touched
<1>5. \A p \in Objects : \A val, owner : W /\ Put(p, val, owner) => p = o
  BY <1>2 DEF Put, TypeInv, StoreInv
<1>6. \A val, owner : Put(o, val, owner) => obj'[o].val = val
  BY <1>2 DEF Put, TypeInv, StoreInv
<1>7. CASE W /\ CreateObject
  <2>1. worker.pc # "idle" /\ Todo.do = "apply"
    BY <1>7 DEF CreateObject, At, TypeInv, WorkerInv
  <2>2. Todo.obj \in Objects /\ Put(Todo.obj, Todo.want, OwnerRef(Todo.obj)) /\ ~Here(obj[Todo.obj])
    BY <1>7, <1>2, <2>1, TodoType DEF CreateObject, Refused, TypeInv
  <2>3. o = Todo.obj /\ obj'[o].val = Todo.want
    BY <1>5, <1>6, <1>7, <2>2
  <2>4. o \in blind /\ o[1] = "RoleBinding"
    BY <1>7, <2>2, <2>3, MatchCases DEF Done, Applied, Here, OwnerInv
  <2>5. want = Todo.want
    BY <2>1, <2>3, <2>4, TodoWants, WantedOf
  <2>6. Matches(o, want, obj'[o].val)
    BY <2>1, <2>3, <2>5, TodoType, WrittenMatches DEF TypeInv
  <2> QED
    BY <2>6 DEF Done, Applied
<1>8. CASE W /\ UpdateObject
  <2>1. worker.pc # "idle" /\ Todo.do = "apply"
    BY <1>8 DEF UpdateObject, At, TypeInv, WorkerInv
  <2>2. /\ Todo.obj \in Objects /\ Accepts(Todo.obj, worker.held)
        /\ Put(Todo.obj, Merged(Todo.obj, Todo.want, worker.held.val), worker.held.owner)
    BY <1>8, <1>2, <2>1, TodoType DEF UpdateObject, Refused, TypeInv
  <2>3. o = Todo.obj /\ obj'[o].val = Merged(o, Todo.want, obj[o].val) /\ Here(obj[o])
    BY <1>5, <1>6, <1>8, <2>2, UpdatesWhatWasRead DEF Accepts
  <2>4. obj[o].val \in Content(o) /\ obj'[o].val \in Content(o) \cup {None}
    BY <2>3, <1>2, TypeStep DEF TypeInv, StoreInv, Here
  <2>5. CASE o[1] # "EventSource"
    <3>1. want = Todo.want
      BY <2>1, <2>3, <2>5, TodoWants, WantedOf
    <3>2. Matches(o, want, obj'[o].val)
      BY <2>1, <2>3, <2>4, <3>1, TodoType, WrittenMatches DEF TypeInv
    <3> QED
      BY <3>2 DEF Done, Applied
  <2>6. CASE o[1] = "EventSource"
    <3>1. want \subseteq obj[o].val /\ o = EventSource
      BY <1>8, <2>3, <2>6, MatchCases, WantedOf DEF Done, Applied
    <3>2. obj'[o].val = obj[o].val \cup Todo.want
      BY <2>3, <3>1 DEF Merged
    <3>3. obj'[o].val # None
      <4>1. Merged(o, Todo.want, obj[o].val) \in Content(o)
        BY <2>1, <2>3, <2>4, TodoType, WantType DEF TypeInv
      <4> QED
        BY <4>1, <2>3, <1>2, ContentTypes
    <3>4. Matches(o, want, obj'[o].val)
      BY <2>6, <3>1, <3>2, <3>3, MatchCases
    <3> QED
      BY <3>4 DEF Done, Applied
  <2> QED
    BY <2>5, <2>6
<1>9. CASE W /\ DeleteBinding
  <2>1. worker.pc = "write" /\ Todo.obj \in Objects /\ Todo.obj[1] = "RoleBinding"
        /\ worker.held.val = "badRef"
    BY <1>9, TodoType DEF DeleteBinding, At, Replaces, TypeInv
  <2>2. /\ Here(obj[Todo.obj]) /\ Put(Todo.obj, None, obj[Todo.obj].owner)
        /\ blind' = IF obj[Todo.obj].rv = worker.held.rv THEN blind ELSE blind \cup {Todo.obj}
    BY <1>9, <1>2 DEF DeleteBinding, Refused
  <2>3. o = Todo.obj /\ obj'[o].val = None
    BY <1>5, <1>6, <1>9, <2>1, <2>2
  <2>4. obj[o].rv # worker.held.rv
    <3>1. SUFFICES ASSUME obj[o] = worker.held PROVE FALSE
      BY <2>1, <2>3 DEF VersionInv, Older
    <3>2. want = "current" /\ obj[o].val = "badRef"
      BY <2>1, <2>3, <3>1, WantedOf
    <3>3. ~Matches(o, want, obj[o].val)
      BY <2>1, <2>3, <3>2, MatchCases
    <3> QED
      BY <1>9, <2>2, <2>3, <3>3 DEF Done, Applied, W
  <2> QED
    BY <2>2, <2>3, <2>4 DEF Done, Here
<1>10. ASSUME W, NEW p \in Objects, CollectGarbage(p) PROVE FALSE
  BY <1>2, <1>5, <1>10 DEF CollectGarbage, OwnerInv
<1>11. ASSUME W, NEW p \in Objects, NEW val \in Tampering[p], Tamper(p, val) PROVE o \in touched'
  BY <1>5, <1>11 DEF Tamper
<1> QED
  BY <1>1, <1>3, <1>4, <1>7, <1>8, <1>9, <1>10, <1>11, OtherSteps DEF Writes

(***************************************************************************)
(* The step at hand is done: what it is for has been brought about.        *)
(***************************************************************************)
Completes(st) ==
  /\ worker.pc # "idle" /\ st = Todo /\ ~Ends(st) /\ (Advance(TRUE) \/ Advance(FALSE))
  /\ st.do = "apply" /\ st.obj \in Common => Done(st.obj, st.want)'
  /\ st.do = "settings" => st.want \subseteq configured'

AppliedInv == CacheInv /\ OrderInv /\ SyncedInv

LEMMA TodoSteps ==
  ASSUME TypeInv, VersionInv, OwnerInv, AppliedInv, [Next]_vars
  PROVE  \/ Restart
         \/ worker'.todo = worker.todo /\ UNCHANGED syncedVars
         \/ worker' = IdleWorker /\ UNCHANGED syncedVars
         \/ \E st \in Steps : Completes(st)
         \/ \E f \in Flows : StartReconcile(f)
<1> DEFINE Goal == \/ worker'.todo = worker.todo /\ UNCHANGED syncedVars
                   \/ worker' = IdleWorker /\ UNCHANGED syncedVars
                   \/ \E st \in Steps : Completes(st)
<1>1. ASSUME NEW st \in Steps, worker.pc # "idle", st = Todo, SkipProject PROVE Goal
  <2>1. /\ st.do = "apply" /\ ~Ends(st) /\ Advance(FALSE) /\ st.obj \in Objects
        /\ st.obj[1] = "AppProject" /\ st.obj[2] \in syncedProjects
    BY <1>1 DEF SkipProject, Doing, At, Ends, Skips, Steps
  <2>2. st.obj = <<"AppProject", st.obj[2]>> /\ st.obj \in Common
    BY <2>1, ObjectKinds DEF EventSource, Common
  <2>3. Done(st.obj, "current")
    BY <2>1, <2>2 DEF AppliedInv, SyncedInv
  <2>4. st.want = "current" /\ "current" \in Wanted(st.obj)
    BY <1>1, <2>1, <2>2, TodoWants, WantedOf
  <2>5. ~Restart
    BY <1>1, <2>1, AdvanceType, IdleType DEF Restart
  <2>6. Done(st.obj, st.want)'
    BY <2>2, <2>3, <2>4, <2>5, DoneStays
  <2> QED
    BY <1>1, <2>1, <2>6 DEF Completes
<1>2. ASSUME NEW st \in Steps, worker.pc # "idle", st = Todo, ReadObject PROVE Goal
  <2>1. st.do = "apply" /\ ~Ends(st) /\ st.obj \in Objects /\ worker.pc = "step"
    BY <1>2 DEF ReadObject, Doing, At, Ends, Steps
  <2>2. CASE Matches(st.obj, st.want, cache[st.obj].val) /\ Advance(FALSE)
    <3>1. ASSUME st.obj \in Common PROVE Done(st.obj, st.want)'
      <4>1. Done(st.obj, st.want)
        BY <1>2, <2>1, <2>2, <3>1, TodoWants DEF AppliedInv, CacheInv
      <4>2. UNCHANGED <<touched, blind, obj>>
        BY <1>2 DEF ReadObject, clusterVars, history
      <4> QED
        BY <4>1, <4>2 DEF Done, Applied, Here
    <3> QED
      BY <1>2, <2>1, <2>2, <3>1 DEF Completes
  <2>3. CASE worker' = [worker EXCEPT !.pc = "write", !.held = cache[Todo.obj]] /\ UNCHANGED syncedVars
    BY <1>2, <2>1, <2>3, WriteType
  <2> QED
    BY <1>2, <2>2, <2>3 DEF ReadObject
<1>3. ASSUME NEW st \in Steps, worker.pc # "idle", st = Todo, CreateObject \/ UpdateObject PROVE Goal
  <2>1. st.do = "apply" /\ ~Ends(st) /\ st.obj \in Objects
    BY <1>3 DEF CreateObject, UpdateObject, At, Ends, TypeInv, WorkerInv, Steps
  <2>2. CASE Requeue
    BY <2>2 DEF Requeue
  <2>3. CASE ~Requeue
    <3>1. Advance(TRUE)
      BY <1>3, <2>3 DEF CreateObject, UpdateObject, Answer, Refused
    <3>2. \A val, owner : Put(st.obj, val, owner) => obj'[st.obj].val = val
      BY <2>1 DEF Put, TypeInv, StoreInv
    <3>3. Matches(st.obj, st.want, obj'[st.obj].val)
      <4>1. CASE CreateObject
        <5>1. obj'[st.obj].val = st.want
          BY <1>3, <3>2, <4>1, <2>3 DEF CreateObject, Refused
        <5> QED
          BY <5>1, <1>3, <2>1, TodoType, WrittenMatches DEF TypeInv
      <4>2. CASE UpdateObject
        <5>1. obj'[st.obj].val = Merged(st.obj, st.want, worker.held.val)
          BY <1>3, <3>2, <4>2, <2>3 DEF UpdateObject, Refused
        <5>2. worker.held.val \in Content(st.obj)
          BY <1>3, <4>2 DEF UpdateObject, Here, TypeInv, WorkerInv
        <5> QED
          BY <5>1, <5>2, <1>3, <2>1, TodoType, WrittenMatches DEF TypeInv
      <4> QED
        BY <1>3, <4>1, <4>2
    <3>4. Done(st.obj, st.want)'
      BY <3>3 DEF Done, Applied
    <3> QED
      BY <1>3, <2>1, <3>1, <3>4 DEF Completes
  <2> QED
    BY <2>2, <2>3
<1>4. ASSUME NEW st \in Steps, worker.pc # "idle", st = Todo, DeleteBinding PROVE Goal
  <2>1. st.do = "apply" /\ st.obj[1] = "RoleBinding"
    BY <1>4 DEF DeleteBinding, At, Replaces, TypeInv, WorkerInv
  <2> QED
    BY <1>4, <2>1, GoOnType DEF DeleteBinding, Answer, Refused, Requeue
<1>5. ASSUME NEW st \in Steps, worker.pc # "idle", st = Todo, SyncGitHubSettings PROVE Goal
  <2>1. CASE Requeue
    BY <2>1 DEF Requeue
  <2>2. CASE Advance(FALSE)
    BY <1>5, <2>2 DEF SyncGitHubSettings, Doing, At, Ends, Completes
  <2> QED
    BY <1>5, <2>1, <2>2 DEF SyncGitHubSettings, Answer
<1>6. ASSUME NEW st \in Steps, worker.pc # "idle", st = Todo, SetCondition PROVE Goal
  BY <1>6, GoOnType DEF SetCondition, Doing, Answer, Return, Requeue
<1>7. CASE OwnerError \/ Refetch \/ RequestFails
  BY <1>7 DEF OwnerError, Refetch, RequestFails, Return, Requeue
<1>8. CASE worker' = worker /\ UNCHANGED syncedVars
  BY <1>8
<1> HIDE DEF Goal
<1>9. CASE Reconcile /\ ~OwnerError /\ ~Refetch
  <2>1. worker.pc # "idle"
    BY <1>9 DEF Reconcile, SkipProject, ReadObject, CreateObject, UpdateObject, DeleteBinding,
       SyncGitHubSettings, SetCondition, Doing, At
  <2>2. PICK st \in Steps : st = Todo
    BY <2>1, TodoType DEF TypeInv
  <2> QED
    BY <1>9, <2>1, <2>2, <1>1, <1>2, <1>3, <1>4, <1>5, <1>6 DEF Reconcile, Goal
<1>10. CASE ~Reconcile /\ ~RequestFails /\ ~Restart /\ ~\E f \in Flows : StartReconcile(f)
  BY <1>8, <1>10 DEF Next, vars, Environment, FlowEvent, Resync, ObjectEvent,
     EditFlow, DeleteFlow, CollectGarbage, Tamper
<1> QED
  BY <1>7, <1>9, <1>10 DEF Goal

LEMMA AppliedInit == Init => AppliedInv
<1> SUFFICES ASSUME Init PROVE AppliedInv
  OBVIOUS
<1>1. CacheInv
  BY DEF Init, CacheInv, Done, Applied
<1>2. OrderInv
  BY IdleType DEF Init, OrderInv, InOrder
<1> QED
  BY <1>1, <1>2 DEF Init, AppliedInv, SyncedInv

LEMMA CacheStep ==
  ASSUME TypeInv, VersionInv, OwnerInv, CacheInv, [Next]_vars
  PROVE  CacheInv'
<1> SUFFICES ASSUME NEW o \in Common, NEW want \in Wanted(o), Matches(o, want, cache'[o].val)
             PROVE  Done(o, want)'
  BY DEF CacheInv
<1>1. o \in Objects
  BY DEF Common
<1>2. CASE Matches(o, want, cache[o].val) /\ ~Restart
  BY <1>2, DoneStays DEF CacheInv
<1>3. CASE cache'[o] = obj'[o]
  BY <1>3 DEF Done, Applied
<1>4. ASSUME NEW p \in Objects, ObjectEvent(p)
      PROVE  cache'[o] = cache[o] \/ cache'[o] = obj'[o]
  BY <1>1, <1>4 DEF ObjectEvent, clusterVars, TypeInv, StoreInv
<1>5. CASE Restart
  BY <1>3, <1>5 DEF Restart, clusterVars
<1> QED
  BY <1>2, <1>3, <1>4, <1>5, OtherSteps

\* the objects a step stands for
LEMMA StandsFor ==
  ASSUME NEW st \in Steps, NEW f \in Flows, NEW s \in SpecsOf[f], StepFor(st, f, s)
  PROVE  /\ st.obj[1] = "RoleBinding" =>
              st.do = "apply" /\ \A o \in Shared(st.obj[2]) : o \in Common /\ Wanted(o) = {"current"}
         /\ st.do = "settings" => EventSource \in Common /\ st.want \in Wanted(EventSource)
         /\ st.do \in {"apply", "settings"} /\ st.obj = EventSource => st.want = {s.repo}
<1>1. st.obj \in Objects /\ EventSource[1] = "EventSource" /\ st.do \in {"apply", "settings", "condition", "error"}
  BY DEF Steps, EventSource
<1>2. ASSUME st.obj[1] = "RoleBinding", NEW o \in Shared(st.obj[2])
      PROVE  o \in Common /\ Wanted(o) = {"current"}
  <2>1. st.obj[2] \in Namespaces
    BY <1>1, <1>2, ObjectKinds
  <2>2. o \in Common /\ o[1] # "EventSource"
    BY <1>2, <2>1, ObjectsOf
  <2> QED
    BY <2>2, WantedOf
<1>3. st.do \in {"apply", "settings"} /\ st.obj = EventSource => st.want = {s.repo}
  BY <1>1, StepKinds
<1>4. st.do = "settings" => st.obj = EventSource
  BY StepKinds
<1>5. s.repo \in Repos /\ EventSource \in Common
  BY SpecFields, ObjectsOf
<1>6. st.obj[1] = "RoleBinding" => st.do = "apply"
  BY <1>1, StepKinds
<1> QED
  BY <1>2, <1>3, <1>4, <1>5, <1>6 DEF Wanted

LEMMA IdleOrder == worker' = IdleWorker => OrderInv'
BY IdleType DEF OrderInv, InOrder

LEMMA OrderStays ==
  ASSUME TypeInv, VersionInv, OwnerInv, [Next]_vars, ~Restart,
         NEW f \in Flows, NEW s \in SpecsOf[f], NEW t \in Seq(Steps), WellFormed(t, f, s), InOrder(t)
  PROVE  InOrder(t)'
<1> SUFFICES ASSUME NEW i \in 1 .. Len(t)
             PROVE  /\ t[i].obj[1] = "RoleBinding" =>
                         \A o \in Shared(t[i].obj[2]) :
                           Done(o, "current")' \/ \E j \in 1 .. i : Applies(t[j], o)
                    /\ t[i].do = "settings" =>
                         Done(EventSource, t[i].want)' \/ \E j \in 1 .. i : Applies(t[j], EventSource)
  BY DEF InOrder
<1>1. t[i] \in Steps /\ StepFor(t[i], f, s)
  BY ElementOfSeq DEF WellFormed, StepsFor
<1> QED
  BY <1>1, StandsFor, DoneStays DEF InOrder

LEMMA OrderTail ==
  ASSUME TypeInv, VersionInv, OwnerInv, [Next]_vars, ~Restart,
         NEW f \in Flows, NEW s \in SpecsOf[f], NEW t \in Seq(Steps), WellFormed(t, f, s), InOrder(t),
         NEW st \in Steps, st = Head(t), Completes(st)
  PROVE  InOrder(Tail(t))'
<1> DEFINE u == Tail(t)
<1>1. /\ ~Ends(st) /\ st = t[1] /\ u \in Seq(Steps) /\ WellFormed(u, f, s) /\ Len(t) \in Nat
      /\ Len(u) = Len(t) - 1 /\ StepFor(st, f, s)
      /\ \A i \in 1 .. Len(u) : i + 1 \in 1 .. Len(t) /\ u[i] = t[i + 1]
  BY TailSteps DEF Completes
<1> HIDE DEF u
<1> SUFFICES ASSUME NEW i \in 1 .. Len(u)
             PROVE  /\ u[i].obj[1] = "RoleBinding" =>
                         \A o \in Shared(u[i].obj[2]) :
                           Done(o, "current")' \/ \E j \in 1 .. i : Applies(u[j], o)
                    /\ u[i].do = "settings" =>
                         Done(EventSource, u[i].want)' \/ \E j \in 1 .. i : Applies(u[j], EventSource)
  BY DEF InOrder, u
<1>2. u[i] \in Steps /\ StepFor(u[i], f, s) /\ i + 1 \in 1 .. Len(t) /\ u[i] = t[i + 1]
  BY <1>1, ElementOfSeq DEF WellFormed, StepsFor
<1>3. \A o : (\E j \in 1 .. i + 1 : Applies(t[j], o)) =>
             Applies(st, o) \/ \E j \in 1 .. i : Applies(u[j], o)
  <2> SUFFICES ASSUME NEW o, NEW j \in 1 .. i + 1, Applies(t[j], o), j # 1
               PROVE  \E k \in 1 .. i : Applies(u[k], o)
    BY <1>1
  <2>1. j - 1 \in 1 .. i /\ j - 1 \in 1 .. Len(u)
    BY <1>1
  <2>2. u[j - 1] = t[j]
    BY <1>1, <2>1
  <2> QED
    BY <2>1, <2>2
<1>4. \A o \in Common : \A want \in Wanted(o) : Applies(st, o) /\ st.want = want => Done(o, want)'
  BY DEF Completes, Applies
<1>5. ASSUME u[i].obj[1] = "RoleBinding", NEW o \in Shared(u[i].obj[2])
      PROVE  Done(o, "current")' \/ \E j \in 1 .. i : Applies(u[j], o)
  <2>1. o \in Common /\ Wanted(o) = {"current"}
    BY <1>2, <1>5, StandsFor
  <2>2. Done(o, "current") \/ Applies(st, o) \/ \E j \in 1 .. i : Applies(u[j], o)
    BY <1>2, <1>3, <1>5 DEF InOrder
  <2>3. CASE Done(o, "current")
    BY <2>1, <2>3, DoneStays
  <2>4. CASE Applies(st, o)
    <3>1. st.want = "current"
      <4>1. o[1] \notin {"Application", "Sensor", "EventSource"}
        BY <1>2, <1>5, <2>1, ObjectKinds, ObjectsOf DEF Steps, EventSource
      <4> QED
        BY <4>1, <2>4, <1>1, StepKinds DEF Applies
    <3> QED
      BY <2>1, <2>4, <3>1, <1>4
  <2> QED
    BY <2>2, <2>3, <2>4
<1>6. ASSUME u[i].do = "settings"
      PROVE  Done(EventSource, u[i].want)' \/ \E j \in 1 .. i : Applies(u[j], EventSource)
  <2>1. EventSource \in Common /\ u[i].want \in Wanted(EventSource) /\ u[i].obj = EventSource /\ u[i].want = {s.repo}
    BY <1>2, <1>6, StandsFor, StepKinds
  <2>2. Done(EventSource, u[i].want) \/ Applies(st, EventSource) \/ \E j \in 1 .. i : Applies(u[j], EventSource)
    BY <1>2, <1>3, <1>6 DEF InOrder
  <2>3. CASE Done(EventSource, u[i].want)
    BY <2>1, <2>3, DoneStays
  <2>4. CASE Applies(st, EventSource)
    <3>1. st.want = u[i].want
      BY <2>1, <2>4, <1>1, StandsFor DEF Applies
    <3> QED
      BY <2>1, <2>4, <3>1, <1>4
  <2> QED
    BY <2>2, <2>3, <2>4
<1> QED
  BY <1>5, <1>6

LEMMA OrderStep ==
  ASSUME TypeInv, VersionInv, OwnerInv, AppliedInv, [Next]_vars
  PROVE  OrderInv'
<1>1. CASE worker' = IdleWorker
  BY <1>1, IdleOrder
<1>2. CASE Restart
  BY <1>1, <1>2 DEF Restart
<1>3. CASE worker'.todo = <<>>
  BY <1>3 DEF OrderInv, InOrder
<1>4. CASE worker.pc # "idle" /\ ~Restart
  <2>1. PICK t \in Seq(Steps), f \in Flows : \E s \in SpecsOf[f] :
          t = worker.todo /\ WellFormed(t, f, s) /\ InOrder(t)
    BY <1>4, TodoType DEF TypeInv, AppliedInv, OrderInv
  <2>2. PICK s \in SpecsOf[f] : t = worker.todo /\ WellFormed(t, f, s) /\ InOrder(t)
    BY <2>1
  <2>3. CASE worker'.todo = worker.todo
    BY <1>4, <2>2, <2>3, OrderStays DEF OrderInv, InOrder
  <2>4. ASSUME NEW st \in Steps, Completes(st) PROVE OrderInv'
    <3>1. st = Head(t) /\ worker'.todo = Tail(t)
      BY <2>2, <2>4, <1>4, AdvanceType DEF Completes, Todo
    <3>2. InOrder(Tail(t))'
      BY <1>4, <2>2, <2>4, <3>1, OrderTail
    <3> QED
      BY <3>1, <3>2 DEF OrderInv, InOrder
  <2> QED
    BY <1>1, <1>4, <2>3, <2>4, TodoSteps DEF StartReconcile, At
<1>5. ASSUME NEW f \in Flows, StartReconcile(f) PROVE OrderInv'
  <2>1. CASE ~Exists(flowCache[f])
    BY <1>1, <1>5, <2>1, StartType
  <2>2. CASE Exists(flowCache[f])
    <3>1. worker'.todo = Plan(f, flowCache[f].spec)
      BY <1>5, <2>2, StartType
    <3>2. Ordered(Plan(f, flowCache[f].spec))
      BY <2>2, FlowCacheType, PlanSteps
    <3>3. Ordered(worker'.todo)
      BY <3>1, <3>2
    <3> QED
      BY <3>3 DEF Ordered, OrderInv, InOrder
  <2> QED
    BY <2>1, <2>2
<1>6. CASE worker.pc = "idle" /\ ~Restart
  <2>1. worker.todo = <<>>
    BY <1>6, IdleType DEF TypeInv, WorkerInv
  <2> QED
    BY <1>1, <1>3, <1>5, <1>6, <2>1, TodoSteps DEF Completes
<1> QED
  BY <1>2, <1>4, <1>6

LEMMA ConfiguredGrows ==
  ASSUME [Next]_vars
  PROVE  configured \subseteq configured'
<1>1. CASE Reconcile
  BY <1>1 DEF Reconcile, SkipProject, ReadObject, CreateObject, UpdateObject, DeleteBinding,
     OwnerError, SyncGitHubSettings, SetCondition, Refetch, clusterVars
<1>2. CASE ~Reconcile
  BY <1>2 DEF Next, vars, clusterVars, Environment, StartReconcile, FlowEvent, Resync, RequestFails,
     ObjectEvent, EditFlow, DeleteFlow, CollectGarbage, Tamper, Restart
<1> QED
  BY <1>1, <1>2

\* what the step that marks something as synced stands for is done
LEMMA MarksWhatIsDone ==
  ASSUME TypeInv, VersionInv, OwnerInv, AppliedInv, [Next]_vars, ~Restart, NEW st \in Steps, Completes(st)
  PROVE  /\ st.obj[1] = "RoleBinding" => \A o \in Shared(st.obj[2]) : Done(o, "current")'
         /\ st.obj[1] = "AppProject" => Done(st.obj, "current")'
         /\ st.do = "settings" => Done(EventSource, st.want)'
<1>1. worker.pc # "idle" /\ st = Todo /\ ~Ends(st)
  BY DEF Completes
<1>2. PICK t \in Seq(Steps), f \in Flows : \E s \in SpecsOf[f] : t = worker.todo /\ WellFormed(t, f, s)
  BY <1>1, TodoType DEF TypeInv
<1>3. PICK s \in SpecsOf[f] : t = worker.todo /\ WellFormed(t, f, s)
  BY <1>2
<1>4. InOrder(t) /\ st = t[1] /\ StepFor(st, f, s) /\ 1 \in 1 .. Len(t)
  BY <1>1, <1>3, TailSteps DEF AppliedInv, OrderInv, Todo
<1>5. \A j \in 1 .. 1 : t[j] = st
  BY <1>4
<1>6. ASSUME st.obj[1] = "RoleBinding", NEW o \in Shared(st.obj[2]) PROVE Done(o, "current")'
  <2>1. o \in Common /\ Wanted(o) = {"current"}
    BY <1>4, <1>6, StandsFor
  <2>2. Done(o, "current") \/ Applies(st, o)
    BY <1>4, <1>5, <1>6 DEF InOrder
  <2>3. CASE Done(o, "current")
    BY <2>1, <2>3, DoneStays
  <2>4. CASE Applies(st, o)
    <3>1. st.want = "current"
      BY <1>1, <2>1, <2>4, TodoWants DEF Applies
    <3> QED
      BY <2>1, <2>4, <3>1 DEF Applies, Completes
  <2> QED
    BY <2>2, <2>3, <2>4
<1>7. ASSUME st.obj[1] = "AppProject" PROVE Done(st.obj, "current")'
  <2>1. st.obj \in Objects /\ EventSource[1] = "EventSource" /\ st.do \in {"apply", "settings", "condition", "error"}
    BY DEF Steps, EventSource
  <2>2. st.do = "apply" /\ st.want = "current"
    BY <1>4, <1>7, <2>1, StepKinds
  <2>3. st.obj \in Common
    BY <1>7, <2>1, ObjectKinds DEF Common
  <2> QED
    BY <2>2, <2>3 DEF Completes
<1>8. ASSUME st.do = "settings" PROVE Done(EventSource, st.want)'
  <2>1. EventSource \in Common /\ st.want \in Wanted(EventSource)
    BY <1>4, <1>8, StandsFor
  <2>2. Done(EventSource, st.want)
    BY <1>4, <1>5, <1>8 DEF InOrder, Applies
  <2> QED
    BY <2>1, <2>2, DoneStays
<1> QED
  BY <1>6, <1>7, <1>8

LEMMA SyncedStep ==
  ASSUME TypeInv, VersionInv, OwnerInv, AppliedInv, [Next]_vars
  PROVE  SyncedInv'
<1>1. CASE Restart
  BY <1>1 DEF Restart, SyncedInv
<1> DEFINE Kept ==
      /\ \A n \in syncedNamespaces : \A o \in Shared(n) : Done(o, "current")'
      /\ \A p \in syncedProjects : Done(<<"AppProject", p>>, "current")'
      /\ \A r \in syncedRepos : Done(EventSource, {r})' /\ r \in configured'
<1>2. ASSUME ~Restart PROVE Kept
  <2>1. ASSUME NEW n \in syncedNamespaces, NEW o \in Shared(n) PROVE Done(o, "current")'
    <3>1. n \in Namespaces /\ o \in Common /\ o[1] # "EventSource" /\ Done(o, "current")
      BY ObjectsOf DEF AppliedInv, SyncedInv, TypeInv, SetsInv
    <3> QED
      BY <1>2, <3>1, WantedOf, DoneStays
  <2>2. ASSUME NEW p \in syncedProjects PROVE Done(<<"AppProject", p>>, "current")'
    <3> DEFINE o == <<"AppProject", p>>
    <3>1. o \in Common /\ o[1] # "EventSource" /\ Done(o, "current")
      BY ObjectsOf DEF AppliedInv, SyncedInv, TypeInv, SetsInv
    <3> HIDE DEF o
    <3>2. Done(o, "current")'
      BY <1>2, <3>1, WantedOf, DoneStays
    <3> QED
      BY <3>2 DEF o
  <2>3. ASSUME NEW r \in syncedRepos PROVE Done(EventSource, {r})' /\ r \in configured'
    <3>1. EventSource \in Common /\ {r} \in Wanted(EventSource) /\ Done(EventSource, {r}) /\ r \in configured
      BY ObjectsOf DEF AppliedInv, SyncedInv, TypeInv, SetsInv, Wanted
    <3> QED
      BY <1>2, <3>1, DoneStays, ConfiguredGrows
  <2> QED
    BY <2>1, <2>2, <2>3
<1>3. CASE ~Restart /\ UNCHANGED syncedVars
  BY <1>2, <1>3 DEF SyncedInv, syncedVars
<1>4. ASSUME ~Restart, NEW st \in Steps, Completes(st) PROVE SyncedInv'
  <2>1. MarkSynced(st)
    BY <1>4 DEF Completes, Advance, Todo
  <2>2. /\ st.obj[1] = "RoleBinding" => \A o \in Shared(st.obj[2]) : Done(o, "current")'
        /\ st.obj[1] = "AppProject" => Done(st.obj, "current")'
        /\ st.do = "settings" => Done(EventSource, st.want)' /\ st.want \subseteq configured'
    BY <1>4, MarksWhatIsDone DEF Completes
  <2>3. \A n \in syncedNamespaces' : \A o \in Shared(n) : Done(o, "current")'
    BY <1>2, <1>4, <2>1, <2>2 DEF MarkSynced
  <2>4. \A p \in syncedProjects' : Done(<<"AppProject", p>>, "current")'
    <3>1. st.obj[1] = "AppProject" => st.obj = <<"AppProject", st.obj[2]>>
      BY ObjectKinds DEF Steps, EventSource
    <3> TAKE p \in syncedProjects'
    <3>2. p \in syncedProjects \/ (st.obj[1] = "AppProject" /\ p = st.obj[2])
      BY <2>1 DEF MarkSynced
    <3>3. CASE p \in syncedProjects
      BY <1>2, <1>4, <3>3
    <3>4. CASE st.obj[1] = "AppProject" /\ p = st.obj[2]
      <4>1. st.obj = <<"AppProject", p>>
        BY <3>1, <3>4
      <4> QED
        BY <2>2, <3>4, <4>1
    <3> QED
      BY <3>2, <3>3, <3>4
  <2>5. \A r \in syncedRepos' : Done(EventSource, {r})' /\ r \in configured'
    <3>1. st.do = "settings" => \E r : st.want = {r}
      <4>1. worker.pc # "idle" /\ st = Todo
        BY <1>4 DEF Completes
      <4>2. StepFor(st, worker.flow, worker.spec)
        BY <4>1, TodoType DEF TypeInv
      <4>3. st.do = "settings" => st.want = {worker.spec.repo}
        BY <4>2, StepKinds
      <4> QED
        BY <4>3
    <3> TAKE r \in syncedRepos'
    <3>2. r \in syncedRepos \/ (st.do = "settings" /\ r \in st.want)
      BY <2>1 DEF MarkSynced
    <3>3. CASE r \in syncedRepos
      BY <1>2, <1>4, <3>3
    <3>4. CASE st.do = "settings" /\ r \in st.want
      <4>1. st.want = {r}
        BY <3>1, <3>4
      <4> QED
        BY <2>2, <3>4, <4>1
    <3> QED
      BY <3>2, <3>3, <3>4
  <2> QED
    BY <2>3, <2>4, <2>5 DEF SyncedInv
<1> QED
  BY <1>1, <1>3, <1>4, TodoSteps DEF StartReconcile

AppliedIInv == TypeInv /\ VersionInv /\ OwnerInv /\ AppliedInv

LEMMA AppliedIInvInit == Init => AppliedIInv
BY TypeInit, VersionInit, OwnerInit, AppliedInit DEF AppliedIInv

LEMMA AppliedIInvStep == AppliedIInv /\ [Next]_vars => AppliedIInv'
BY TypeStep, VersionStep, OwnerStep, CacheStep, OrderStep, SyncedStep DEF AppliedIInv, AppliedInv

\* What the Synced* caches of the reconciler record is true of the cluster, whatever
\* fails, is read late, is restarted or is edited meanwhile: whoever is told to skip
\* the objects of a namespace, an AppProject or a repository may rely on them.
THEOREM SyncedCachesAreRight == Spec => []SyncedMeansApplied
<1>1. ASSUME AppliedIInv PROVE SyncedMeansApplied
  <2>1. EventSource \notin blind /\ \A p : <<"AppProject", p>> \notin blind
    BY <1>1 DEF AppliedIInv, OwnerInv, EventSource
  <2>2. \A n \in syncedNamespaces : \A o \in Shared(n) \ touched :
          Applied(o, "current") \/ (o \in blind /\ ~Here(obj[o]))
    BY <1>1 DEF AppliedIInv, AppliedInv, SyncedInv, Done
  <2>3. \A p \in syncedProjects :
          <<"AppProject", p>> \in touched \/ Applied(<<"AppProject", p>>, "current")
    BY <1>1, <2>1 DEF AppliedIInv, AppliedInv, SyncedInv, Done
  <2>4. EventSource \in touched \/ \A r \in syncedRepos : Applied(EventSource, {r})
    BY <1>1, <2>1 DEF AppliedIInv, AppliedInv, SyncedInv, Done
  <2>5. syncedRepos \subseteq configured
    BY <1>1 DEF AppliedIInv, AppliedInv, SyncedInv
  <2> QED
    BY <2>2, <2>3, <2>4, <2>5 DEF SyncedMeansApplied
<1> QED
  BY <1>1, AppliedIInvInit, AppliedIInvStep, PTL DEF Spec

(***************************************************************************)
(* The write that is accepted is the one of the version that was read.     *)
(***************************************************************************)
LEMMA ReposKeptStep ==
  ASSUME AppliedIInv, [Next]_vars, budget'.tampers = budget.tampers, Here(obj[EventSource])
  PROVE  Here(obj[EventSource]') /\ obj[EventSource].val \subseteq obj[EventSource]'.val
<1> USE DEF AppliedIInv
<1>1. EventSource \in Objects /\ EventSource \notin Owned /\ EventSource[1] = "EventSource"
  BY ObjectsOf DEF Common, EventSource
<1>2. CASE obj'[EventSource] = obj[EventSource]
  BY <1>2
<1>3. \A o, val, owner : Put(o, val, owner) =>
        obj'[EventSource] = obj[EventSource] \/ (o = EventSource /\ obj'[EventSource].val = val)
  BY <1>1 DEF Put, TypeInv, StoreInv
<1>4. CASE CreateObject
  BY <1>2, <1>3, <1>4 DEF CreateObject, Refused
<1>5. CASE UpdateObject
  <2>1. CASE ~Accepts(Todo.obj, worker.held)
    BY <1>2, <1>5, <2>1 DEF UpdateObject, Refused
  <2>2. CASE Accepts(Todo.obj, worker.held)
    <3>1. obj[Todo.obj] = worker.held
      BY <1>5, <2>2, UpdatesWhatWasRead
    <3>2. Put(Todo.obj, Merged(Todo.obj, Todo.want, worker.held.val), worker.held.owner)
      BY <1>5, <2>2 DEF UpdateObject
    <3>3. CASE Todo.obj = EventSource /\ obj'[EventSource].val = worker.held.val \cup Todo.want
      <4>1. worker.pc # "idle" /\ Todo.do = "apply"
        BY <1>5 DEF UpdateObject, At, TypeInv, WorkerInv
      <4>2. Merged(EventSource, Todo.want, worker.held.val) # None
        <5>1. worker.held.val \in Content(EventSource)
          BY <1>1, <3>1, <3>3 DEF TypeInv, StoreInv, Here
        <5>2. Merged(EventSource, Todo.want, worker.held.val) \in Content(EventSource)
          BY <3>3, <4>1, <5>1, TodoType, WantType DEF TypeInv
        <5> QED
          BY <1>1, <5>2, ContentTypes
      <4> QED
        BY <3>1, <3>3, <4>2 DEF Here, Merged
    <3> QED
      BY <1>2, <1>3, <3>2, <3>3 DEF Merged
  <2> QED
    BY <2>1, <2>2
<1>6. CASE DeleteBinding
  BY <1>1, <1>2, <1>3, <1>6 DEF DeleteBinding, Replaces, Refused
<1>7. ASSUME NEW o \in Objects, CollectGarbage(o) PROVE obj'[EventSource] = obj[EventSource]
  BY <1>1, <1>3, <1>7 DEF CollectGarbage, OwnerInv
<1>8. ASSUME NEW o \in Objects, NEW val \in Tampering[o], Tamper(o, val) PROVE FALSE
  <2>1. budget \in [edits : 0 .. MaxEdits, tampers : 0 .. MaxTampers,
                    faults : 0 .. MaxFaults, restarts : 0 .. MaxRestarts]
    BY DEF TypeInv, SetsInv
  <2>2. budget'.tampers = budget.tampers - 1
    BY <1>8, <2>1 DEF Tamper, Less
  <2> QED
    BY <2>1, <2>2
<1> QED
  BY <1>2, <1>4, <1>5, <1>6, <1>7, <1>8, OtherSteps DEF Writes

\* No write of the reconciler takes a repository out of the EventSource that all Flows
\* share, although it writes what it has merged into a copy that may be stale: only
\* others can.
THEOREM EventSourceKeepsItsRepos == Spec => ReposKept
<1>1. AppliedIInv /\ [Next]_vars =>
        [ budget'.tampers = budget.tampers /\ Here(obj[EventSource])
          => Here(obj[EventSource]') /\ obj[EventSource].val \subseteq obj[EventSource]'.val ]_vars
  BY ReposKeptStep
<1> QED
  BY <1>1, AppliedIInvInit, AppliedIInvStep, PTL DEF Spec, ReposKept

-------------------------------------------------------------------------------
(***************************************************************************)
(* What is owed.  A call ends with an error, which puts the Flow back into *)
(* the queue, or at its last step, when nothing is left.                   *)
(***************************************************************************)
LEMMA CallEnds ==
  ASSUME TypeInv, [Next]_vars, ~Restart, worker.pc # "idle", worker' = IdleWorker
  PROVE  Requeue \/ (Todo.do = "condition" /\ Return)
<1>1. ASSUME NEW drift, Advance(drift) PROVE FALSE
  BY <1>1, IdleType DEF Advance, TypeInv, WorkerInv, Workers
<1>2. ASSUME NEW pc \in {"write", "recreate", "refetch"}, worker'.pc = pc PROVE FALSE
  BY <1>2, IdleType
<1>3. worker' # worker
  BY IdleType
<1>4. CASE SkipProject \/ OwnerError \/ RequestFails
  BY <1>1, <1>4 DEF SkipProject, OwnerError, RequestFails
<1>5. CASE ReadObject
  BY <1>1, <1>2, <1>5, WriteType DEF ReadObject, Doing, At
<1>6. CASE CreateObject \/ UpdateObject \/ SyncGitHubSettings
  BY <1>1, <1>6 DEF CreateObject, UpdateObject, SyncGitHubSettings, Answer, Refused
<1>7. CASE DeleteBinding
  <2>1. Todo.do = "apply" /\ Todo.obj[1] = "RoleBinding"
    BY <1>7 DEF DeleteBinding, At, Replaces, TypeInv, WorkerInv
  <2> QED
    BY <1>2, <1>7, <2>1, GoOnType DEF DeleteBinding, Answer, Refused
<1>8. CASE SetCondition
  BY <1>2, <1>8, GoOnType DEF SetCondition, Doing, Answer
<1>9. CASE Refetch
  BY <1>9 DEF Refetch, At, TypeInv, WorkerInv
<1>10. CASE ~Reconcile /\ ~RequestFails
  BY <1>3, <1>10 DEF Next, vars, Environment, StartReconcile, At, FlowEvent, Resync, ObjectEvent,
     EditFlow, DeleteFlow, CollectGarbage, Tamper
<1> QED
  BY <1>4, <1>5, <1>6, <1>7, <1>8, <1>9, <1>10 DEF Reconcile

LEMMA QueueGrows ==
  ASSUME TypeInv, [Next]_vars, ~Restart, ~\E f \in Flows : StartReconcile(f)
  PROVE  queue \subseteq queue'
<1>1. CASE Reconcile
  BY <1>1 DEF Reconcile, SkipProject, ReadObject, CreateObject, UpdateObject, DeleteBinding, OwnerError,
     SyncGitHubSettings, SetCondition, Refetch, Advance, Answer, Refused, Requeue, Return
<1>2. CASE ~Reconcile
  BY <1>2 DEF Next, vars, Environment, FlowEvent, Resync, ObjectEvent, RequestFails, Requeue,
     EditFlow, DeleteFlow, CollectGarbage, Tamper
<1> QED
  BY <1>1, <1>2

LEMMA SyncedGrows ==
  ASSUME TypeInv, VersionInv, OwnerInv, AppliedInv, [Next]_vars, ~Restart
  PROVE  /\ syncedNamespaces \subseteq syncedNamespaces'
         /\ syncedProjects \subseteq syncedProjects'
         /\ syncedRepos \subseteq syncedRepos'
<1>1. ASSUME NEW st \in Steps, Completes(st)
      PROVE  /\ syncedNamespaces \subseteq syncedNamespaces'
             /\ syncedProjects \subseteq syncedProjects'
             /\ syncedRepos \subseteq syncedRepos'
  BY <1>1, AdvanceType DEF Completes
<1> QED
  BY <1>1, TodoSteps DEF syncedVars, StartReconcile

\* a call stays with its Flow and spec
LEMMA SameCall ==
  ASSUME TypeInv, [Next]_vars, ~\E f \in Flows : StartReconcile(f), worker' # IdleWorker
  PROVE  worker'.flow = worker.flow /\ worker'.spec = worker.spec /\ worker.pc # "idle"
<1>1. CASE worker' = worker
  BY <1>1 DEF TypeInv, WorkerInv
<1>2. CASE Continues
  BY <1>2 DEF Continues
<1>3. CASE Fetched
  BY <1>3, WriteType DEF Fetched
<1> QED
  BY <1>1, <1>2, <1>3, WorkerSteps

\* nothing is left to apply at the last step
LEMMA NothingLeft ==
  ASSUME TypeInv, OwedInv, worker.pc # "idle", Todo.do = "condition"
  PROVE  SyncedFor(worker.flow, worker.spec) /\ \A o : ~Left(o)
<1>1. PICK t \in Seq(Steps) : t = worker.todo /\ WellFormed(t, worker.flow, worker.spec)
  BY TodoType DEF TypeInv
<1>2. Len(t) = 1 /\ t[1].do = "condition"
  BY <1>1, TailSteps DEF Todo, Ends
<1>3. \A i \in 1 .. Len(t) : t[i].do = "condition"
  BY <1>2
<1>4. (\A o : ~Left(o)) /\ ~HasDo(worker.todo, "error") /\ ~HasDo(worker.todo, "settings")
  BY <1>1, <1>3 DEF Left, Has, Applies, HasDo
<1> QED
  BY <1>4 DEF OwedInv, SyncedFor

LEMMA OwedStep ==
  ASSUME TypeInv, VersionInv, OwnerInv, AppliedInv, OwedInv, [Next]_vars
  PROVE  OwedInv'
<1>1. CASE worker' = IdleWorker
  BY <1>1, IdleType DEF OwedInv
<1>2. CASE Restart
  BY <1>1, <1>2 DEF Restart
<1>3. ASSUME NEW f \in Flows, StartReconcile(f) PROVE OwedInv'
  <2>1. CASE ~Exists(flowCache[f])
    BY <1>1, <1>3, <2>1, StartType
  <2>2. CASE Exists(flowCache[f])
    <3> DEFINE t == Plan(f, flowCache[f].spec)
    <3>1. worker'.todo = t /\ worker'.flow = f /\ worker'.spec = flowCache[f].spec
      BY <1>3, <2>2, StartType
    <3>2. UNCHANGED syncedVars
      BY <1>3 DEF StartReconcile
    <3>3. flowCache[f].spec \in SpecsOf[f]
      BY <2>2, FlowCacheType
    <3>4. LET s == flowCache[f].spec IN
            /\ s.broken # "preprocess" =>
                 NamespaceOf[f] \in syncedNamespaces \/ Has(t, <<"RoleBinding", NamespaceOf[f]>>)
            /\ s.broken \in {"owner", "sensor", "repo", "no"} =>
                 \A p \in ProjectsOf(s) : Has(t, <<"AppProject", p>>)
            /\ s.broken = "owner" => HasDo(t, "error")
            /\ s.broken = "no" => s.repo \in syncedRepos \/ HasDo(t, "settings")
      BY <3>3, PlanSteps
    <3> HIDE DEF t
    <3> QED
      BY <3>1, <3>2, <3>4 DEF OwedInv, Left, syncedVars
  <2> QED
    BY <2>1, <2>2
<1>4. ASSUME worker' # IdleWorker, ~Restart, ~\E f \in Flows : StartReconcile(f) PROVE OwedInv'
  <2>1. worker'.flow = worker.flow /\ worker'.spec = worker.spec /\ worker.pc # "idle"
    BY <1>4, SameCall
  <2>2. CASE worker'.todo = worker.todo /\ UNCHANGED syncedVars
    BY <2>1, <2>2 DEF OwedInv, Left, syncedVars
  <2>3. ASSUME NEW st \in Steps, Completes(st) PROVE OwedInv'
    <3>1. st = Todo /\ ~Ends(st) /\ MarkSynced(st) /\ worker'.todo = Tail(worker.todo)
      BY <2>3, AdvanceType DEF Completes, Advance, Todo
    <3>2. PICK t \in Seq(Steps) : t = worker.todo /\ WellFormed(t, worker.flow, worker.spec)
      BY <2>1, TodoType DEF TypeInv
    <3>3. /\ \A o : Has(t, o) => Applies(st, o) \/ Has(Tail(t), o)
          /\ \A do : HasDo(t, do) => st.do = do \/ HasDo(Tail(t), do)
          /\ StepFor(st, worker.flow, worker.spec)
      BY <3>1, <3>2, TailSteps DEF Todo
    <3>4. st.do # "error" /\ (st.do = "settings" => st.want = {worker.spec.repo})
      BY <3>1, <3>3, StepKinds DEF Ends
    <3>5. /\ syncedNamespaces \subseteq syncedNamespaces' /\ syncedProjects \subseteq syncedProjects'
          /\ syncedRepos \subseteq syncedRepos'
      BY <1>4, SyncedGrows
    <3>6. /\ \A n : Applies(st, <<"RoleBinding", n>>) => n \in syncedNamespaces'
          /\ \A p : Applies(st, <<"AppProject", p>>) => p \in syncedProjects'
          /\ st.do = "settings" => worker.spec.repo \in syncedRepos'
      BY <3>1, <3>4 DEF Applies, MarkSynced
    <3> QED
      BY <2>1, <3>1, <3>2, <3>3, <3>4, <3>5, <3>6 DEF OwedInv, Left
  <2> QED
    BY <1>4, <2>2, <2>3, TodoSteps
<1> QED
  BY <1>1, <1>2, <1>3, <1>4

LEMMA QueueStep ==
  ASSUME TypeInv, VersionInv, OwnerInv, AppliedInv, OwedInv, QueueInv, [Next]_vars
  PROVE  QueueInv'
<1> SUFFICES ASSUME NEW f \in Flows, Exists(flowCache'[f]), f \notin queue'
             PROVE  IF worker'.flow = f THEN worker'.spec = flowCache'[f].spec
                                        ELSE SyncedFor(f, flowCache[f].spec)'
  BY DEF QueueInv
<1>1. CASE Restart
  BY <1>1 DEF Restart
<1>2. ASSUME NEW g \in Flows, StartReconcile(g)
      PROVE  IF worker'.flow = f THEN worker'.spec = flowCache'[f].spec
                                 ELSE SyncedFor(f, flowCache[f].spec)'
  <2>1. flowCache' = flowCache /\ UNCHANGED syncedVars /\ queue' = queue \ {g}
    BY <1>2 DEF StartReconcile, cacheVars
  <2>2. CASE g = f
    BY <1>2, <2>1, <2>2, StartType
  <2>3. CASE g # f
    <3>1. worker.flow # f /\ worker'.flow # f
      <4>1. worker = IdleWorker
        BY <1>2 DEF StartReconcile, At, TypeInv, WorkerInv
      <4> QED
        BY <1>2, <2>3, <4>1, IdleType, StartType
    <3>2. SyncedFor(f, flowCache[f].spec)
      BY <2>1, <2>3, <3>1 DEF QueueInv
    <3> QED
      BY <2>1, <3>1, <3>2 DEF SyncedFor, syncedVars
  <2> QED
    BY <2>2, <2>3
<1>3. ASSUME ~Restart, ~\E g \in Flows : StartReconcile(g)
      PROVE  IF worker'.flow = f THEN worker'.spec = flowCache'[f].spec
                                 ELSE SyncedFor(f, flowCache[f].spec)'
  <2>1. flowCache'[f] = flowCache[f] /\ f \notin queue
    <3>1. ASSUME NEW g \in Flows, FlowEvent(g) PROVE g # f /\ flowCache'[f] = flowCache[f]
      BY <3>1 DEF FlowEvent, TypeInv, StoreInv
    <3> QED
      BY <1>3, <3>1, OtherSteps, QueueGrows
  <2>2. SyncedFor(f, flowCache[f].spec) => SyncedFor(f, flowCache[f].spec)'
    BY <1>3, <2>1, SyncedGrows DEF SyncedFor
  <2>3. CASE worker' # IdleWorker
    BY <1>3, <2>1, <2>2, <2>3, SameCall DEF QueueInv
  <2>4. CASE worker' = IdleWorker
    <3>1. worker'.flow # f
      BY <2>4, IdleType
    <3>2. CASE worker.flow # f
      BY <2>1, <2>2, <3>1, <3>2 DEF QueueInv
    <3>3. CASE worker.flow = f
      <4>1. worker.pc # "idle"
        BY <3>3, IdleType DEF TypeInv, WorkerInv
      <4>2. ~Requeue
        BY <3>3 DEF Requeue
      <4>3. SyncedFor(f, worker.spec)
        BY <1>3, <2>4, <3>3, <4>1, <4>2, CallEnds, NothingLeft
      <4> QED
        BY <2>1, <2>2, <3>1, <3>3, <4>3 DEF QueueInv
    <3> QED
      BY <3>2, <3>3
  <2> QED
    BY <2>3, <2>4
<1> QED
  BY <1>1, <1>2, <1>3

(***************************************************************************)
(* The Sensor of a Flow with nothing to do.  A write to it is news to the  *)
(* informer, which puts the Flow into the queue; so a step that completes  *)
(* without a write has found the Sensor as it is.                          *)
(***************************************************************************)
LEMMA CompletedUnwritten ==
  ASSUME TypeInv, [Next]_vars, NEW st \in Steps, Completes(st), st.do = "apply",
         obj'[st.obj] = obj[st.obj], st.obj[1] = "Sensor"
  PROVE  Matches(st.obj, st.want, cache[st.obj].val)
<1>1. worker.pc # "idle" /\ st = Todo /\ st.obj \in Objects /\ worker'.pc = "step" /\ queue' = queue
      /\ worker'.todo = Tail(worker.todo)
  BY AdvanceType DEF Completes, Steps
<1>2. worker'.todo # worker.todo
  <2>1. PICK t \in Seq(Steps) : t = worker.todo /\ WellFormed(t, worker.flow, worker.spec)
    BY <1>1, TodoType DEF TypeInv
  <2>2. Len(Tail(t)) # Len(t)
    BY <1>1, <2>1, TailSteps DEF Completes, Todo
  <2> QED
    BY <1>1, <2>1, <2>2
<1>3. worker' # worker
  BY <1>2
<1>4. worker'.pc \notin {"idle", "recreate", "refetch"} /\ worker' # IdleWorker
  BY <1>1, IdleType
<1>5. \A val, owner : ~Put(st.obj, val, owner)
  <2>1. obj[st.obj].rv \in Nat
    BY <1>1 DEF TypeInv, StoreInv, Versions
  <2> QED
    BY <1>1, <2>1 DEF Put, TypeInv, StoreInv
<1>6. ~CreateObject /\ ~UpdateObject
  BY <1>1, <1>4, <1>5 DEF CreateObject, UpdateObject, Refused, Requeue
<1>7. ~SkipProject /\ ~SyncGitHubSettings /\ ~SetCondition /\ ~OwnerError
  BY <1>1 DEF SkipProject, Skips, SyncGitHubSettings, SetCondition, OwnerError, Doing
<1>8. ~DeleteBinding
  BY <1>1 DEF DeleteBinding, Replaces
<1>9. ~Refetch /\ ~RequestFails
  BY <1>4 DEF Refetch, Return, RequestFails, Requeue
<1>10. ReadObject
  <2>1. CASE Reconcile
    BY <1>6, <1>7, <1>8, <1>9, <2>1 DEF Reconcile
  <2>2. CASE ~Reconcile
    <3>1. ~Restart /\ ~\E f \in Flows : StartReconcile(f)
      BY <1>1, <1>4 DEF Restart, StartReconcile, At
    <3> QED
      BY <1>3, <1>9, <2>2, <3>1 DEF Next, vars, Environment, FlowEvent, Resync, ObjectEvent,
         EditFlow, DeleteFlow, CollectGarbage, Tamper
  <2> QED
    BY <2>1, <2>2
<1>11. CASE worker' = [worker EXCEPT !.pc = "write", !.held = cache[Todo.obj]]
  BY <1>1, <1>10, <1>11, WriteType DEF ReadObject, Doing, At
<1> QED
  BY <1>1, <1>10, <1>11 DEF ReadObject

LEMMA SensorStep ==
  ASSUME IInv, [Next]_vars
  PROVE  SensorInv'
<1> USE DEF IInv
<1> SUFFICES ASSUME NEW f \in Flows, Exists(flowCache'[f]), flowCache'[f].spec.broken \in {"repo", "no"},
                    f \notin queue', cache'[SensorOf(f)] = obj'[SensorOf(f)]
             PROVE  \/ Applied(SensorOf(f), flowCache[f].spec.events)'
                    \/ (worker.flow = f /\ Left(SensorOf(f)))'
  BY DEF SensorInv
<1> DEFINE S == SensorOf(f)
           Goal == \/ Matches(S, flowCache'[f].spec.events, obj'[S].val)
                   \/ worker'.flow = f /\ Has(worker'.todo, S)
<1>0. S \in Objects /\ S[1] = "Sensor" /\ S = SensorOf(f)
  BY ObjectsOf DEF SensorOf
<1> SUFFICES Goal
  BY DEF Applied, Left
<1> HIDE DEF S, Goal
<1>1. ~Restart
  BY DEF Restart
<1>2. ASSUME NEW g \in Flows, StartReconcile(g) PROVE Goal
  <2>1. UNCHANGED <<obj, cache, flowCache>> /\ queue' = queue \ {g}
    BY <1>2 DEF StartReconcile, cacheVars, clusterVars
  <2>2. CASE g = f
    <3>1. worker'.flow = f /\ worker'.todo = Plan(f, flowCache[f].spec)
      BY <1>2, <2>1, <2>2, StartType
    <3>2. Has(Plan(f, flowCache[f].spec), S)
      BY <1>0, <2>1, FlowCacheType, PlanSteps
    <3> QED
      BY <3>1, <3>2 DEF Goal
  <2>3. CASE g # f
    <3>1. worker.flow # f
      BY <1>2, IdleType DEF StartReconcile, At, TypeInv, WorkerInv
    <3>2. Matches(S, flowCache[f].spec.events, obj[S].val)
      BY <1>0, <2>1, <2>3, <3>1 DEF SensorInv, Applied
    <3> QED
      BY <2>1, <3>2 DEF Goal
  <2> QED
    BY <2>2, <2>3
<1>3. ASSUME ~\E g \in Flows : StartReconcile(g) PROVE Goal
  <2>1. flowCache'[f] = flowCache[f] /\ f \notin queue
    <3>1. ASSUME NEW g \in Flows, FlowEvent(g) PROVE g # f /\ flowCache'[f] = flowCache[f]
      BY <3>1 DEF FlowEvent, TypeInv, StoreInv
    <3> QED
      BY <1>1, <1>3, <3>1, OtherSteps, QueueGrows
  <2>2. obj'[S] = obj[S]
    <3> SUFFICES ASSUME obj'[S] # obj[S] PROVE FALSE
      OBVIOUS
    <3>1. Writes
      BY OtherSteps
    <3>2. cache' = cache
      BY <3>1 DEF Writes, CreateObject, UpdateObject, DeleteBinding, CollectGarbage, Tamper, cacheVars
    <3>3. obj'[S].rv = obj[S].rv + 1
      BY <1>0, <3>1, WriteVersions
    <3>4. cache[S].rv <= obj[S].rv /\ cache[S].rv \in Nat /\ obj[S].rv \in Nat
      BY <1>0 DEF VersionInv, Older, TypeInv, StoreInv, Versions
    <3>5. cache'[S] = obj'[S]
      BY <1>0
    <3> QED
      BY <3>2, <3>3, <3>4, <3>5
  <2>3. cache[S] = obj[S]
    <3> SUFFICES ASSUME cache[S] # obj[S] PROVE FALSE
      OBVIOUS
    <3>1. cache'[S] # cache[S]
      BY <1>0, <2>2
    <3>2. PICK o \in Objects : ObjectEvent(o)
      BY <1>1, <3>1, OtherSteps
    <3>3. o = S
      BY <1>0, <3>1, <3>2 DEF ObjectEvent, TypeInv, StoreInv
    <3>4. obj[S].owner # NoOwner /\ obj[S].owner[1] = f
      BY <1>0, <3>1, <2>2 DEF OwnerInv
    <3>5. f \in Owners(S)
      BY <1>0, <3>4 DEF Owners
    <3> QED
      BY <3>2, <3>3, <3>5 DEF ObjectEvent
  <2>4. \/ Matches(S, flowCache[f].spec.events, obj[S].val)
        \/ worker.flow = f /\ Has(worker.todo, S)
    BY <1>0, <2>1, <2>3 DEF SensorInv, Applied, Left
  <2>5. CASE Matches(S, flowCache[f].spec.events, obj[S].val)
    BY <2>1, <2>2, <2>5 DEF Goal
  <2>6. CASE worker.flow = f /\ Has(worker.todo, S)
    <3>1. worker.pc # "idle"
      BY <2>6, IdleType DEF TypeInv, WorkerInv
    <3>2. CASE worker' = IdleWorker
      <4>1. ~Requeue
        BY <2>6 DEF Requeue
      <4> QED
        BY <1>1, <2>6, <3>1, <3>2, <4>1, CallEnds, NothingLeft DEF Left
    <3>3. CASE worker' # IdleWorker /\ worker'.todo = worker.todo
      BY <1>3, <2>6, <3>3, SameCall DEF Goal
    <3>4. ASSUME worker' # IdleWorker, NEW st \in Steps, Completes(st) PROVE Goal
      <4>1. st = Todo /\ worker'.todo = Tail(worker.todo) /\ worker'.flow = f
        BY <2>6, <3>4, AdvanceType DEF Completes
      <4>2. PICK t \in Seq(Steps) : t = worker.todo /\ WellFormed(t, worker.flow, worker.spec)
        BY <3>1, TodoType DEF TypeInv
      <4>3. (Applies(st, S) \/ Has(Tail(t), S)) /\ StepFor(st, worker.flow, worker.spec)
        BY <2>6, <4>1, <4>2, TailSteps DEF Todo
      <4>4. CASE Has(Tail(t), S)
        BY <4>1, <4>2, <4>4 DEF Goal
      <4>5. CASE Applies(st, S)
        <5>1. st.do = "apply" /\ st.obj = S /\ st.want = worker.spec.events
          BY <1>0, <4>3, <4>5, StepKinds DEF Applies
        <5>2. Matches(S, st.want, cache[S].val)
          BY <1>0, <2>2, <3>4, <5>1, CompletedUnwritten
        <5>3. worker.spec = flowCache[f].spec
          BY <2>1, <2>6 DEF QueueInv
        <5> QED
          BY <2>1, <2>2, <2>3, <5>1, <5>2, <5>3 DEF Goal
      <4> QED
        BY <4>3, <4>4, <4>5
    <3> QED
      BY <1>1, <1>3, <3>2, <3>3, <3>4, TodoSteps DEF AppliedInv
  <2> QED
    BY <2>4, <2>5, <2>6
<1> QED
  BY <1>2, <1>3

LEMMA IInvInit == Init => IInv
<1> SUFFICES ASSUME Init PROVE IInv
  OBVIOUS
<1>1. TypeInv /\ VersionInv /\ OwnerInv /\ AppliedInv
  BY TypeInit, VersionInit, OwnerInit, AppliedInit
<1>2. OwedInv
  BY IdleType DEF Init, OwedInv
<1>3. \A f \in Flows : ~Exists(flowCache[f])
  BY DEF Init, Exists
<1> QED
  BY <1>1, <1>2, <1>3 DEF IInv, AppliedInv, QueueInv, SensorInv

LEMMA IInvStep == IInv /\ [Next]_vars => IInv'
BY TypeStep, VersionStep, OwnerStep, CacheStep, OrderStep, SyncedStep, OwedStep, QueueStep, SensorStep
   DEF IInv, AppliedInv

\* Work that failed, was refused or was interrupted is never forgotten: every Flow that
\* the informer knows is in the queue, being reconciled, or done as far as its spec
\* allows, so that no error of any request needs an event or a restart to be made up for.
THEOREM WorkIsNeverForgotten == Spec => []NothingForgotten
<1>1. IInv => NothingForgotten
  BY DEF IInv, QueueInv, NothingForgotten, Pending
<1> QED
  BY <1>1, IInvInit, IInvStep, PTL DEF Spec

\* When a Flow has nothing to be done and its Sensor is known as it is, the Sensor has
\* what the Flow's spec asks for: the watch of owned Sensors makes up for every change
\* by others, every stale read and every collected Sensor.
THEOREM SensorsSettle == Spec => []SensorSettled
<1>1. IInv => SensorSettled
  BY DEF IInv, SensorInv, SensorSettled, Pending
<1> QED
  BY <1>1, IInvInit, IInvStep, PTL DEF Spec

LEMMA ReadyStep ==
  ASSUME IInv, [Next]_vars, NEW f \in Flows, flow'[f].cond = "FlowSynced", flow[f].cond # "FlowSynced"
  PROVE  /\ worker.flow = f /\ worker.spec = flow'[f].spec
         /\ worker.spec.broken = "no" /\ SyncedFor(f, worker.spec)
<1> USE DEF IInv
<1>1. ASSUME NEW g \in Flows, DeleteFlow(g) \/ \E s \in SpecsOf[g] : EditFlow(g, s) PROVE FALSE
  BY <1>1, EditType, FlowCacheType DEF DeleteFlow
<1>2. SetCondition
  BY <1>1, OtherSteps
<1>3. worker.pc # "idle" /\ Todo.do = "condition" /\ worker.flow \in Flows
      /\ StepFor(Todo, worker.flow, worker.spec)
  BY <1>2, TodoType DEF SetCondition, Doing, At, TypeInv
<1>4. /\ flow' = [flow EXCEPT ![worker.flow].cond = Todo.want, ![worker.flow].rv = @ + 1]
      /\ flow[worker.flow].rv = worker.rv
  BY <1>2 DEF SetCondition, FlowAccepts
<1>5. f = worker.flow /\ flow'[f].spec = flow[f].spec /\ Todo.want = "FlowSynced"
  <2>1. flow \in [Flows -> FlowStates] /\ flow[worker.flow] \in FlowStates
    BY <1>3, FlowCacheType DEF TypeInv, StoreInv
  <2> QED
    BY <1>3, <1>4, <2>1 DEF FlowStates
<1>6. worker.spec = flow[f].spec
  BY <1>3, <1>4, <1>5 DEF VersionInv
<1>7. worker.spec.broken = "no"
  BY <1>3, <1>5, StepKinds
<1> QED
  BY <1>3, <1>5, <1>6, <1>7, NothingLeft

\* Ready becomes true only for the spec that was reconciled and only when all that it
\* needs is synced: a Flow edited, or deleted and created again, during a call is not
\* marked by it.
THEOREM ReadyMeansReconciled == Spec => ReadyOnCurrentSpec
<1>1. IInv /\ [Next]_vars =>
        [ \A f \in Flows :
            flow'[f].cond = "FlowSynced" /\ flow[f].cond # "FlowSynced"
            => /\ worker.flow = f /\ worker.spec = flow'[f].spec
               /\ worker.spec.broken = "no" /\ SyncedFor(f, worker.spec) ]_vars
  BY ReadyStep
<1> QED
  BY <1>1, IInvInit, IInvStep, PTL DEF Spec, ReadyOnCurrentSpec
===============================================================================
