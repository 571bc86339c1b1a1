------------------------- MODULE FlowWorkflow_proofs -------------------------
(***************************************************************************)
(* Theorems about what the reconciler builds from a Flow and about the     *)
(* workflow it starts, for any Flows that the API server accepts: any      *)
(* number of steps, with any names and dependencies.                       *)
(***************************************************************************)
EXTENDS FlowWorkflow, SequenceTheorems, FiniteSetTheorems, WellFoundedInduction, TLAPS

(***************************************************************************)
(* The search as a loop: a state in which it stops, with its answer, or    *)
(* the state it goes on to.                                                *)
(***************************************************************************)
Publishes(B, d) == d \in DOMAIN B /\ B[d].source = "DockerBuildTestPublish"

StepMap(B) ==
  /\ IsFiniteSet(DOMAIN B)
  /\ \A n \in DOMAIN B : B[n].dependsOn \in Seq(STRING)

PathsOf(B) == {NoPath} \cup {B[n].dockerfile : n \in DOMAIN B}

Stops(B, s) ==
  \/ s.queue = <<>>
  \/ /\ s.queue # <<>> /\ Head(s.queue) \notin s.visited
     /\ \/ Publishes(B, Head(s.queue)) /\ s.path # NoPath
        \/ Head(s.queue) \notin DOMAIN B

Reply(pc, path) == [pc |-> pc, path |-> path]
Answer(B, s) ==
  IF s.queue = <<>> THEN Reply(IF s.path = NoPath THEN "missing" ELSE "path", s.path)
  ELSE IF Head(s.queue) \in DOMAIN B THEN Reply("multiple", NoPath) ELSE Reply("panic", NoPath)

Skip(s) == [s EXCEPT !.queue = Tail(@)]
Visit(B, s) ==
  LET d == Head(s.queue)
  IN [queue |-> Tail(s.queue) \o B[d].dependsOn, visited |-> s.visited \cup {d},
      path |-> IF Publishes(B, d) THEN B[d].dockerfile ELSE s.path]
Onward(B, s) == IF Head(s.queue) \in s.visited THEN Skip(s) ELSE Visit(B, s)

\* The body of the recursive function that GetDockerfilePathDependency defines
Body(B, search, s) ==
        IF s.queue = <<>>
          THEN [pc |-> IF s.path = NoPath THEN "missing" ELSE "path", path |-> s.path]
          ELSE LET d == Head(s.queue)
                   known == d \in DOMAIN B
                   publishes == known /\ B[d].source = "DockerBuildTestPublish"
               IN CASE d \in s.visited -> search[[s EXCEPT !.queue = Tail(@)]]
                    [] d \notin s.visited /\ publishes /\ s.path # NoPath ->
                         [pc |-> "multiple", path |-> NoPath]
                    [] d \notin s.visited /\ ~known -> [pc |-> "panic", path |-> NoPath]
                    [] OTHER ->
                         search[[queue |-> Tail(s.queue) \o B[d].dependsOn,
                                 visited |-> s.visited \cup {d},
                                 path |-> IF publishes THEN B[d].dockerfile ELSE s.path]]

LEMMA BodyIs ==
  ASSUME NEW B, NEW f, NEW s
  PROVE  Body(B, f, s) = IF Stops(B, s) THEN Answer(B, s) ELSE f[Onward(B, s)]
<1> DEFINE d == Head(s.queue)
<1>1. CASE s.queue = <<>>
  BY Zenon, <1>1 DEF Body, Stops, Answer, Reply
<1>2. CASE s.queue # <<>> /\ d \in s.visited
  <2>1. ~Stops(B, s)
    BY <1>2 DEF Stops
  <2>2. Onward(B, s) = [s EXCEPT !.queue = Tail(@)]
    BY <1>2 DEF Onward, Skip
  <2>3. Body(B, f, s) = f[[s EXCEPT !.queue = Tail(@)]]
    BY Zenon, <1>2 DEF Body
  <2> QED
    BY <2>1, <2>2, <2>3
<1>3. CASE s.queue # <<>> /\ d \notin s.visited /\ Publishes(B, d) /\ s.path # NoPath
  <2>1. Stops(B, s) /\ d \in DOMAIN B
    BY <1>3 DEF Stops, Publishes
  <2>2. Body(B, f, s) = [pc |-> "multiple", path |-> NoPath]
    BY Zenon, <1>3 DEF Body, Publishes
  <2> QED
    BY <1>3, <2>1, <2>2 DEF Answer, Reply
<1>4. CASE s.queue # <<>> /\ d \notin s.visited /\ d \notin DOMAIN B
  <2>1. Stops(B, s)
    BY <1>4 DEF Stops
  <2>2. Body(B, f, s) = [pc |-> "panic", path |-> NoPath]
    BY Zenon, <1>4 DEF Body
  <2> QED
    BY <1>4, <2>1, <2>2 DEF Answer, Reply
<1>5. CASE s.queue # <<>> /\ d \notin s.visited /\ d \in DOMAIN B /\ ~(Publishes(B, d) /\ s.path # NoPath)
  <2>1. ~Stops(B, s)
    BY <1>5 DEF Stops
  <2>2. Onward(B, s) = Visit(B, s)
    BY <1>5 DEF Onward
  <2>3. Body(B, f, s) = f[Visit(B, s)]
    BY Zenon, <1>5 DEF Body, Publishes, Visit
  <2> QED
    BY <2>1, <2>2, <2>3
<1> QED
  BY <1>1, <1>2, <1>3, <1>4, <1>5

Loops(B, f) == f = [s \in SearchStates(B) |-> Body(B, f, s)]
Search(B) == CHOOSE f : Loops(B, f)
StartAt(B, n) == [queue |-> B[n].dependsOn, visited |-> {}, path |-> NoPath]

LEMMA SearchIs ==
  ASSUME NEW B, NEW n
  PROVE  GetDockerfilePathDependency(n, B) = Search(B)[StartAt(B, n)]
BY Zenon DEF GetDockerfilePathDependency, Search, Loops, Body, StartAt

-------------------------------------------------------------------------------
(***************************************************************************)
(* The loop ends: every round visits another step, or leaves the visited   *)
(* ones as they are and shortens the queue.                                *)
(***************************************************************************)
LEMMA Least ==
  ASSUME NEW T \in SUBSET Nat, T # {}
  PROVE  \E n \in T : \A m \in T : n <= m
<1>0. T \subseteq Nat
  OBVIOUS
<1>1. PICK n \in T : \A m \in T : <<m, n>> \notin OpToRel(<, Nat)
  BY <1>0, NatLessThanWellFounded, WFMin
<1>2. \A m \in T : ~(m < n)
  BY <1>0, <1>1 DEF OpToRel
<1> QED
  BY <1>0, <1>2

Unvisited(B, s) == Cardinality(DOMAIN B \ s.visited)
Before(B, t, s) ==
  \/ Unvisited(B, t) < Unvisited(B, s)
  \/ Unvisited(B, t) = Unvisited(B, s) /\ Len(t.queue) < Len(s.queue)

LEMMA LeastState ==
  ASSUME NEW B, StepMap(B), NEW T \in SUBSET SearchStates(B), T # {}
  PROVE  \E s \in T : \A t \in T : ~Before(B, t, s)
<1>1. \A s \in T : Unvisited(B, s) \in Nat /\ Len(s.queue) \in Nat
  <2> TAKE s \in T
  <2>1. s.queue \in Seq(STRING)
    BY DEF SearchStates
  <2>2. IsFiniteSet(DOMAIN B \ s.visited)
    BY FS_Subset DEF StepMap
  <2> QED
    BY <2>1, <2>2, FS_CardinalityType, LenProperties DEF Unvisited
<1> DEFINE Us == {Unvisited(B, s) : s \in T}
<1>2. PICK u \in Us : \A v \in Us : u <= v
  <2>1. Us \in SUBSET Nat /\ Us # {}
    BY <1>1
  <2> HIDE DEF Us
  <2> QED
    BY <2>1, Least
<1> DEFINE Ls == {Len(s.queue) : s \in {t \in T : Unvisited(B, t) = u}}
<1>3. PICK l \in Ls : \A k \in Ls : l <= k
  <2>1. Ls \in SUBSET Nat /\ Ls # {}
    BY <1>1, <1>2
  <2> HIDE DEF Ls, Us
  <2> QED
    BY <2>1, Least
<1>4. PICK s \in T : Unvisited(B, s) = u /\ Len(s.queue) = l
  BY <1>3
<1>5. ASSUME NEW t \in T, Before(B, t, s) PROVE FALSE
  <2>1. u <= Unvisited(B, t)
    BY <1>2
  <2>2. Unvisited(B, t) = u => l <= Len(t.queue)
    BY <1>3
  <2> HIDE DEF Us, Ls
  <2>3. Unvisited(B, t) \in Nat /\ Len(t.queue) \in Nat /\ u \in Nat /\ l \in Nat
    BY <1>1, <1>4
  <2> QED
    BY <1>4, <1>5, <2>1, <2>2, <2>3 DEF Before
<1> QED
  BY <1>5

LEMMA GoesOn ==
  ASSUME NEW B, StepMap(B), NEW s \in SearchStates(B), ~Stops(B, s)
  PROVE  Onward(B, s) \in SearchStates(B) /\ Before(B, Onward(B, s), s)
<1> DEFINE d == Head(s.queue)
<1>0. /\ s.queue \in Seq(STRING) /\ s.queue # <<>> /\ s.visited \in SUBSET DOMAIN B /\ s.path \in PathsOf(B)
      /\ s = [queue |-> s.queue, visited |-> s.visited, path |-> s.path]
  BY DEF SearchStates, Stops, PathsOf
<1>1. d \in STRING /\ Tail(s.queue) \in Seq(STRING) /\ Len(Tail(s.queue)) < Len(s.queue)
  <2>1. Tail(s.queue) \in Seq(STRING) /\ Len(Tail(s.queue)) = Len(s.queue) - 1 /\ d \in STRING
    BY <1>0, HeadTailProperties
  <2>2. Len(s.queue) \in Nat
    BY <1>0, LenProperties
  <2> QED
    BY <2>1, <2>2
<1>2. IsFiniteSet(DOMAIN B \ s.visited)
  BY FS_Subset DEF StepMap
<1>3. CASE d \in s.visited
  <2>1. Onward(B, s) = Skip(s)
    BY <1>3 DEF Onward
  <2>2. Skip(s) = [queue |-> Tail(s.queue), visited |-> s.visited, path |-> s.path]
    <3> DEFINE e == [s EXCEPT !.queue = Tail(s.queue)]
    <3>1. e \in [queue : Seq(STRING), visited : SUBSET DOMAIN B, path : PathsOf(B)]
      BY <1>0, <1>1 DEF SearchStates
    <3>2. e.queue = Tail(s.queue) /\ e.visited = s.visited /\ e.path = s.path
      BY DEF SearchStates
    <3>3. e = [queue |-> e.queue, visited |-> e.visited, path |-> e.path]
      <4> HIDE DEF e
      <4> QED
        BY <3>1
    <3> QED
      BY <3>2, <3>3 DEF Skip
  <2>3. Skip(s) \in SearchStates(B)
    BY <1>0, <1>1, <2>2 DEF SearchStates, PathsOf
  <2>4. Unvisited(B, Skip(s)) = Unvisited(B, s) /\ Skip(s).queue = Tail(s.queue)
    BY <2>2 DEF Unvisited
  <2> QED
    BY <1>1, <2>1, <2>3, <2>4 DEF Before
<1>4. CASE d \notin s.visited
  <2>1. Onward(B, s) = Visit(B, s) /\ d \in DOMAIN B
    BY <1>0, <1>4 DEF Onward, Stops
  <2>2. B[d].dependsOn \in Seq(STRING) /\ B[d].dockerfile \in PathsOf(B)
    BY <2>1 DEF StepMap, PathsOf
  <2>3. Tail(s.queue) \o B[d].dependsOn \in Seq(STRING)
    BY <1>1, <2>2, ConcatProperties
  <2>4. Visit(B, s) \in SearchStates(B)
    BY <1>0, <1>1, <2>1, <2>2, <2>3 DEF Visit, SearchStates, PathsOf
  <2>5. Unvisited(B, Visit(B, s)) < Unvisited(B, s)
    <3>1. Visit(B, s).visited = s.visited \cup {d}
      BY DEF Visit
    <3>2. DOMAIN B \ (s.visited \cup {d}) = (DOMAIN B \ s.visited) \ {d} /\ d \in DOMAIN B \ s.visited
      BY <1>4, <2>1
    <3>3. Cardinality((DOMAIN B \ s.visited) \ {d}) = Cardinality(DOMAIN B \ s.visited) - 1
      BY <1>2, <3>2, FS_RemoveElement
    <3>4. Cardinality(DOMAIN B \ s.visited) \in Nat
      BY <1>2, FS_CardinalityType
    <3>5. Unvisited(B, Visit(B, s)) = Cardinality((DOMAIN B \ s.visited) \ {d})
      BY <3>1, <3>2 DEF Unvisited
    <3>6. Unvisited(B, s) = Cardinality(DOMAIN B \ s.visited)
      BY DEF Unvisited
    <3> QED
      BY <3>3, <3>4, <3>5, <3>6
  <2> QED
    BY <2>1, <2>4, <2>5 DEF Before
<1> QED
  BY <1>3, <1>4

(***************************************************************************)
(* So the recursive function exists: its graph is the least relation that  *)
(* has the answers and is closed under going on, which gives every state   *)
(* one answer.                                                             *)
(***************************************************************************)
Replies(B) == [pc : {"missing", "path", "multiple", "panic"}, path : PathsOf(B)]
Closed(B, Q) ==
  \A s \in SearchStates(B) :
    IF Stops(B, s) THEN <<s, Answer(B, s)>> \in Q
    ELSE \A r \in Replies(B) : <<Onward(B, s), r>> \in Q => <<s, r>> \in Q
Outcomes(B) ==
  {p \in SearchStates(B) \X Replies(B) : \A Q \in SUBSET (SearchStates(B) \X Replies(B)) : Closed(B, Q) => p \in Q}

LEMMA AnswerIs ==
  ASSUME NEW B, NEW s \in SearchStates(B)
  PROVE  Answer(B, s) \in Replies(B)
<1>1. s.path \in PathsOf(B) /\ NoPath \in PathsOf(B)
  BY DEF SearchStates, PathsOf
<1>2. ASSUME NEW pc \in {"missing", "path", "multiple", "panic"}, NEW path \in PathsOf(B)
      PROVE  Reply(pc, path) \in Replies(B)
  BY DEF Reply, Replies
<1>3. \/ Answer(B, s) = Reply("missing", s.path) \/ Answer(B, s) = Reply("path", s.path)
      \/ Answer(B, s) = Reply("multiple", NoPath) \/ Answer(B, s) = Reply("panic", NoPath)
  BY DEF Answer
<1> QED
  BY <1>1, <1>2, <1>3

LEMMA OutcomesClosed ==
  ASSUME NEW B, StepMap(B)
  PROVE  Closed(B, Outcomes(B))
<1> SUFFICES ASSUME NEW s \in SearchStates(B)
             PROVE  IF Stops(B, s) THEN <<s, Answer(B, s)>> \in Outcomes(B)
                    ELSE \A r \in Replies(B) : <<Onward(B, s), r>> \in Outcomes(B) => <<s, r>> \in Outcomes(B)
  BY DEF Closed
<1>1. CASE Stops(B, s)
  <2>1. <<s, Answer(B, s)>> \in SearchStates(B) \X Replies(B)
    BY AnswerIs
  <2>2. \A Q : Closed(B, Q) => <<s, Answer(B, s)>> \in Q
    BY <1>1 DEF Closed
  <2> QED
    BY <1>1, <2>1, <2>2 DEF Outcomes
<1>2. CASE ~Stops(B, s)
  <2>1. ASSUME NEW r \in Replies(B), <<Onward(B, s), r>> \in Outcomes(B) PROVE <<s, r>> \in Outcomes(B)
    <3>1. ASSUME NEW Q \in SUBSET (SearchStates(B) \X Replies(B)), Closed(B, Q) PROVE <<s, r>> \in Q
      <4>1. <<Onward(B, s), r>> \in Q
        BY <2>1, <3>1 DEF Outcomes
      <4> QED
        BY <1>2, <3>1, <4>1 DEF Closed
    <3> QED
      BY <3>1 DEF Outcomes
  <2> QED
    BY <1>2, <2>1
<1> QED
  BY <1>1, <1>2

LEMMA OutcomesFrom ==
  ASSUME NEW B, StepMap(B), NEW s \in SearchStates(B), NEW r \in Replies(B), <<s, r>> \in Outcomes(B)
  PROVE  IF Stops(B, s) THEN r = Answer(B, s) ELSE <<Onward(B, s), r>> \in Outcomes(B)
<1> DEFINE From(t, q) == IF Stops(B, t) THEN q = Answer(B, t) ELSE <<Onward(B, t), q>> \in Outcomes(B)
           Q == {p \in Outcomes(B) : From(p[1], p[2])}
<1>1. Q \in SUBSET (SearchStates(B) \X Replies(B))
  BY DEF Outcomes
<1>2. Closed(B, Q)
  <2> SUFFICES ASSUME NEW t \in SearchStates(B)
               PROVE  IF Stops(B, t) THEN <<t, Answer(B, t)>> \in Q
                      ELSE \A q \in Replies(B) : <<Onward(B, t), q>> \in Q => <<t, q>> \in Q
    BY DEF Closed
  <2>1. CASE Stops(B, t)
    <3>1. <<t, Answer(B, t)>> \in Outcomes(B)
      BY <2>1, OutcomesClosed DEF Closed
    <3>2. From(t, Answer(B, t))
      BY <2>1
    <3> QED
      BY <2>1, <3>1, <3>2
  <2>2. CASE ~Stops(B, t)
    <3>1. ASSUME NEW q \in Replies(B), <<Onward(B, t), q>> \in Q PROVE <<t, q>> \in Q
      <4>1. <<Onward(B, t), q>> \in Outcomes(B)
        BY <3>1
      <4>2. <<t, q>> \in Outcomes(B)
        BY <2>2, <4>1, OutcomesClosed DEF Closed
      <4>3. From(t, q)
        BY <2>2, <4>1
      <4> QED
        BY <4>2, <4>3
    <3> QED
      BY <2>2, <3>1
  <2> QED
    BY <2>1, <2>2
<1>3. <<s, r>> \in Q
  <2> HIDE DEF Q
  <2> QED
    BY <1>1, <1>2 DEF Outcomes
<1>4. From(s, r)
  BY <1>3
<1> QED
  BY <1>4

LEMMA OneOutcome ==
  ASSUME NEW B, StepMap(B), NEW s \in SearchStates(B)
  PROVE  \E r \in Replies(B) : /\ <<s, r>> \in Outcomes(B)
                            /\ \A q \in Replies(B) : <<s, q>> \in Outcomes(B) => q = r
<1> DEFINE One(t) == \E r \in Replies(B) : /\ <<t, r>> \in Outcomes(B)
                                        /\ \A q \in Replies(B) : <<t, q>> \in Outcomes(B) => q = r
           T == {t \in SearchStates(B) : ~One(t)}
<1>1. SUFFICES ASSUME T # {} PROVE FALSE
  OBVIOUS
<1>2. PICK t \in T : \A u \in T : ~Before(B, u, t)
  <2>1. T \in SUBSET SearchStates(B)
    OBVIOUS
  <2> HIDE DEF T
  <2> QED
    BY <1>1, <2>1, LeastState
<1>3. t \in SearchStates(B) /\ ~One(t)
  OBVIOUS
<1>4. CASE Stops(B, t)
  <2>1. Answer(B, t) \in Replies(B) /\ <<t, Answer(B, t)>> \in Outcomes(B)
    BY <1>3, <1>4, AnswerIs, OutcomesClosed DEF Closed
  <2>2. \A q \in Replies(B) : <<t, q>> \in Outcomes(B) => q = Answer(B, t)
    BY <1>3, <1>4, OutcomesFrom
  <2> QED
    BY <1>3, <2>1, <2>2
<1>5. CASE ~Stops(B, t)
  <2>1. Onward(B, t) \in SearchStates(B) /\ One(Onward(B, t))
    BY <1>2, <1>3, <1>5, GoesOn
  <2>2. PICK r \in Replies(B) : /\ <<Onward(B, t), r>> \in Outcomes(B)
                             /\ \A q \in Replies(B) : <<Onward(B, t), q>> \in Outcomes(B) => q = r
    BY <2>1
  <2>3. <<t, r>> \in Outcomes(B)
    BY <1>3, <1>5, <2>2, OutcomesClosed DEF Closed
  <2>4. \A q \in Replies(B) : <<t, q>> \in Outcomes(B) => q = r
    BY <1>3, <1>5, <2>2, OutcomesFrom
  <2> QED
    BY <1>3, <2>3, <2>4
<1> QED
  BY <1>4, <1>5

LEMMA SearchLoops ==
  ASSUME NEW B, StepMap(B), NEW s \in SearchStates(B)
  PROVE  Search(B)[s] = IF Stops(B, s) THEN Answer(B, s) ELSE Search(B)[Onward(B, s)]
<1> DEFINE f == [t \in SearchStates(B) |-> CHOOSE r \in Replies(B) : <<t, r>> \in Outcomes(B)]
<1>1. ASSUME NEW t \in SearchStates(B)
      PROVE  f[t] \in Replies(B) /\ <<t, f[t]>> \in Outcomes(B) /\ \A q \in Replies(B) : <<t, q>> \in Outcomes(B) => q = f[t]
  <2>1. f[t] \in Replies(B) /\ <<t, f[t]>> \in Outcomes(B)
    BY OneOutcome
  <2> HIDE DEF f
  <2> QED
    BY <2>1, OneOutcome
<1>2. ASSUME NEW t \in SearchStates(B) PROVE f[t] = Body(B, f, t)
  <2> HIDE DEF f
  <2>1. CASE Stops(B, t)
    <3>1. f[t] = Answer(B, t)
      BY <1>1, <2>1, OutcomesFrom
    <3> QED
      BY <2>1, <3>1, BodyIs
  <2>2. CASE ~Stops(B, t)
    <3>1. Onward(B, t) \in SearchStates(B)
      BY <2>2, GoesOn
    <3>2. <<Onward(B, t), f[t]>> \in Outcomes(B)
      BY <1>1, <2>2, OutcomesFrom
    <3>3. f[t] = f[Onward(B, t)]
      BY <1>1, <3>1, <3>2
    <3> QED
      BY <2>2, <3>3, BodyIs
  <2> QED
    BY <2>1, <2>2
<1>3. f = [t \in SearchStates(B) |-> Body(B, f, t)]
  <2>1. f \in [SearchStates(B) -> Replies(B)]
    BY OneOutcome
  <2> HIDE DEF f
  <2>2. f = [t \in SearchStates(B) |-> f[t]]
    BY <2>1
  <2> QED
    BY <1>2, <2>2
<1> HIDE DEF f
<1>4. Loops(B, Search(B))
  BY Zenon, <1>3 DEF Loops, Search
<1>5. PICK g : g = Search(B)
  OBVIOUS
<1>6. g = [t \in SearchStates(B) |-> Body(B, g, t)]
  BY Zenon, <1>4, <1>5 DEF Loops
<1>7. g[s] = Body(B, g, s)
  BY Zenon, <1>6
<1> QED
  BY <1>5, <1>7, BodyIs

-------------------------------------------------------------------------------
(***************************************************************************)
(* What the search finds, W being what n leads to.                         *)
(***************************************************************************)
Leads(B, n, W) ==
  /\ ToSet(B[n].dependsOn) \subseteq W
  /\ \A d \in W \cap DOMAIN B : ToSet(B[d].dependsOn) \subseteq W
  /\ \A X : /\ ToSet(B[n].dependsOn) \subseteq X
            /\ \A d \in X \cap DOMAIN B : ToSet(B[d].dependsOn) \subseteq X
            => W \subseteq X

Only(B, V, path) ==
  \E p \in V : /\ Publishes(B, p) /\ B[p].dockerfile = path
               /\ \A v \in V \ {p} : Publishes(B, v) => B[v].dockerfile = NoPath
None(B, V) == \A v \in V : Publishes(B, v) => B[v].dockerfile = NoPath

Right(B, W, found) ==
  /\ found \in Replies(B)
  /\ found.pc = "path" => W \subseteq DOMAIN B /\ found.path # NoPath /\ Only(B, W, found.path)
  /\ found.pc = "missing" => W \subseteq DOMAIN B /\ None(B, W)
  /\ found.pc = "multiple" =>
       \E p, q \in W : p # q /\ Publishes(B, p) /\ Publishes(B, q) /\ B[p].dockerfile # NoPath
  /\ found.pc = "panic" => ~(W \subseteq DOMAIN B)

LoopInv(B, n, W, s) ==
  /\ s.visited \subseteq W \cap DOMAIN B
  /\ ToSet(s.queue) \subseteq W
  /\ ToSet(B[n].dependsOn) \subseteq s.visited \cup ToSet(s.queue)
  /\ \A d \in s.visited : ToSet(B[d].dependsOn) \subseteq s.visited \cup ToSet(s.queue)
  /\ IF s.path = NoPath THEN None(B, s.visited) ELSE Only(B, s.visited, s.path)

LEMMA ToSetTail ==
  ASSUME NEW S, NEW q \in Seq(S), q # <<>>
  PROVE  ToSet(q) = {Head(q)} \cup ToSet(Tail(q))
<1>1. /\ Len(q) \in Nat \ {0} /\ Head(q) = q[1] /\ DOMAIN q = 1 .. Len(q)
      /\ DOMAIN Tail(q) = 1 .. Len(q) - 1 /\ \A i \in 1 .. Len(q) - 1 : Tail(q)[i] = q[i + 1]
  BY HeadTailProperties, LenProperties, EmptySeq
<1>2. ASSUME NEW x \in ToSet(q), x # q[1] PROVE x \in ToSet(Tail(q))
  <2>1. PICK i \in 1 .. Len(q) : q[i] = x
    BY <1>1 DEF ToSet
  <2>2. i - 1 \in 1 .. Len(q) - 1 /\ (i - 1) + 1 = i
    BY <1>1, <1>2, <2>1
  <2> QED
    BY <1>1, <2>1, <2>2 DEF ToSet
<1>3. ASSUME NEW x \in ToSet(Tail(q)) PROVE x \in ToSet(q)
  <2>1. PICK i \in 1 .. Len(q) - 1 : q[i + 1] = x
    BY <1>1 DEF ToSet
  <2>2. i + 1 \in 1 .. Len(q)
    BY <1>1, <2>1
  <2> QED
    BY <1>1, <2>1, <2>2 DEF ToSet
<1>4. q[1] \in ToSet(q)
  BY <1>1 DEF ToSet
<1> QED
  BY <1>1, <1>2, <1>3, <1>4

LEMMA ToSetConcat ==
  ASSUME NEW S, NEW q \in Seq(S), NEW r \in Seq(S)
  PROVE  ToSet(q \o r) = ToSet(q) \cup ToSet(r)
<1>1. /\ Len(q) \in Nat /\ Len(r) \in Nat /\ DOMAIN q = 1 .. Len(q) /\ DOMAIN r = 1 .. Len(r)
      /\ DOMAIN (q \o r) = 1 .. Len(q) + Len(r)
      /\ \A i \in 1 .. Len(q) + Len(r) : (q \o r)[i] = IF i <= Len(q) THEN q[i] ELSE r[i - Len(q)]
  BY ConcatProperties, LenProperties
<1>2. ASSUME NEW x \in ToSet(q \o r) PROVE x \in ToSet(q) \cup ToSet(r)
  <2>1. PICK i \in 1 .. Len(q) + Len(r) : (q \o r)[i] = x
    BY <1>1 DEF ToSet
  <2>2. CASE i <= Len(q)
    <3>1. i \in 1 .. Len(q) /\ q[i] = x
      BY <1>1, <2>1, <2>2
    <3> QED
      BY <1>1, <3>1 DEF ToSet
  <2>3. CASE ~(i <= Len(q))
    <3>1. i - Len(q) \in 1 .. Len(r) /\ r[i - Len(q)] = x
      BY <1>1, <2>1, <2>3
    <3> QED
      BY <1>1, <3>1 DEF ToSet
  <2> QED
    BY <2>2, <2>3
<1>3. ASSUME NEW x \in ToSet(q) PROVE x \in ToSet(q \o r)
  <2>1. PICK i \in 1 .. Len(q) : q[i] = x
    BY <1>1 DEF ToSet
  <2>2. i \in 1 .. Len(q) + Len(r) /\ i <= Len(q)
    BY <1>1, <2>1
  <2>3. (q \o r)[i] = x
    BY <1>1, <2>1, <2>2
  <2> QED
    BY <1>1, <2>2, <2>3 DEF ToSet
<1>4. ASSUME NEW x \in ToSet(r) PROVE x \in ToSet(q \o r)
  <2>1. PICK i \in 1 .. Len(r) : r[i] = x
    BY <1>1 DEF ToSet
  <2>2. i + Len(q) \in 1 .. Len(q) + Len(r) /\ ~(i + Len(q) <= Len(q)) /\ (i + Len(q)) - Len(q) = i
    BY <1>1, <2>1
  <2>3. (q \o r)[i + Len(q)] = x
    BY <1>1, <2>1, <2>2
  <2> QED
    BY <1>1, <2>2, <2>3 DEF ToSet
<1> QED
  BY <1>2, <1>3, <1>4

LEMMA LoopStarts ==
  ASSUME NEW B, StepMap(B), NEW n \in DOMAIN B, NEW W, Leads(B, n, W)
  PROVE  StartAt(B, n) \in SearchStates(B) /\ LoopInv(B, n, W, StartAt(B, n))
<1>1. NoPath \in PathsOf(B)
  BY DEF PathsOf
<1>2. StartAt(B, n) \in SearchStates(B)
  BY <1>1 DEF StepMap, StartAt, SearchStates, PathsOf
<1> QED
  BY <1>2 DEF StartAt, LoopInv, Leads, None

LEMMA LoopSkips ==
  ASSUME NEW B, StepMap(B), NEW n, NEW W, Leads(B, n, W),
         NEW s \in SearchStates(B), LoopInv(B, n, W, s), s.queue # <<>>, Head(s.queue) \in s.visited
  PROVE  LoopInv(B, n, W, Skip(s))
<1>1. Skip(s).visited = s.visited /\ Skip(s).path = s.path /\ Skip(s).queue = Tail(s.queue)
  BY DEF Skip, SearchStates
<1>2. ToSet(s.queue) = {Head(s.queue)} \cup ToSet(Tail(s.queue))
  BY ToSetTail DEF SearchStates
<1>3. s.visited \cup ToSet(s.queue) = s.visited \cup ToSet(Tail(s.queue))
  BY <1>2
<1> QED
  BY <1>1, <1>2, <1>3 DEF LoopInv

LEMMA LoopVisits ==
  ASSUME NEW B, StepMap(B), NEW n, NEW W, Leads(B, n, W),
         NEW s \in SearchStates(B), LoopInv(B, n, W, s), s.queue # <<>>, Head(s.queue) \notin s.visited,
         ~Stops(B, s)
  PROVE  LoopInv(B, n, W, Visit(B, s))
<1> DEFINE d == Head(s.queue)
           deps == B[d].dependsOn
           rest == Tail(s.queue)
           path == IF Publishes(B, d) THEN B[d].dockerfile ELSE s.path
<1>1. Visit(B, s) = [queue |-> rest \o deps, visited |-> s.visited \cup {d}, path |-> path]
  BY DEF Visit
<1>2. ToSet(s.queue) = {d} \cup ToSet(rest) /\ rest \in Seq(STRING)
  BY ToSetTail, HeadTailProperties DEF SearchStates
<1>3. d \in DOMAIN B /\ (Publishes(B, d) => s.path = NoPath)
  BY DEF Stops
<1>4. deps \in Seq(STRING)
  BY <1>3 DEF StepMap
<1>5. ToSet(rest \o deps) = ToSet(rest) \cup ToSet(deps)
  BY <1>2, <1>4, ToSetConcat
<1>6. d \in W /\ ToSet(deps) \subseteq W
  BY <1>2, <1>3 DEF LoopInv, Leads
<1>7. IF path = NoPath THEN None(B, s.visited \cup {d}) ELSE Only(B, s.visited \cup {d}, path)
  <2>1. CASE Publishes(B, d)
    <3>1. path = B[d].dockerfile /\ None(B, s.visited)
      BY <1>3, <2>1 DEF LoopInv
    <3> HIDE DEF path, d
    <3>2. CASE path = NoPath
      BY <2>1, <3>1, <3>2 DEF None
    <3>3. CASE path # NoPath
      BY <2>1, <3>1, <3>3 DEF None, Only
    <3> QED
      BY <3>2, <3>3
  <2>2. CASE ~Publishes(B, d)
    <3>1. path = s.path
      BY <2>2
    <3> HIDE DEF path, d
    <3>2. CASE path = NoPath
      BY <2>2, <3>1, <3>2 DEF None, LoopInv
    <3>3. CASE path # NoPath
      BY <2>2, <3>1, <3>3 DEF Only, LoopInv
    <3> QED
      BY <3>2, <3>3
  <2> QED
    BY <2>1, <2>2
<1> HIDE DEF d, deps, rest, path
<1>8. Visit(B, s).queue = rest \o deps /\ Visit(B, s).visited = s.visited \cup {d} /\ Visit(B, s).path = path
  BY <1>1
<1>9. s.visited \cup {d} \subseteq W \cap DOMAIN B /\ ToSet(rest \o deps) \subseteq W
  BY <1>2, <1>3, <1>5, <1>6 DEF LoopInv
<1>10. s.visited \cup ToSet(s.queue) \subseteq (s.visited \cup {d}) \cup ToSet(rest \o deps)
  BY <1>2, <1>5
<1>11. \A e \in s.visited \cup {d} : ToSet(B[e].dependsOn) \subseteq (s.visited \cup {d}) \cup ToSet(rest \o deps)
  BY <1>5, <1>10 DEF LoopInv, deps
<1>12. ToSet(B[n].dependsOn) \subseteq (s.visited \cup {d}) \cup ToSet(rest \o deps)
  BY <1>10 DEF LoopInv
<1> QED
  BY <1>7, <1>8, <1>9, <1>11, <1>12 DEF LoopInv

LEMMA LoopAnswers ==
  ASSUME NEW B, StepMap(B), NEW n, NEW W, Leads(B, n, W),
         NEW s \in SearchStates(B), LoopInv(B, n, W, s), Stops(B, s)
  PROVE  Right(B, W, Answer(B, s))
<1>0. Answer(B, s) \in Replies(B)
  BY AnswerIs
<1>1. CASE s.queue = <<>>
  <2>1. ToSet(s.queue) = {}
    BY <1>1 DEF ToSet
  <2>2. s.visited = W /\ W \subseteq DOMAIN B
    BY <2>1 DEF LoopInv, Leads
  <2>3. CASE s.path = NoPath
    <3>1. Answer(B, s).pc = "missing"
      BY <1>1, <2>3 DEF Answer, Reply
    <3> QED
      BY <1>0, <2>2, <2>3, <3>1 DEF Right, LoopInv
  <2>4. CASE s.path # NoPath
    <3>1. Answer(B, s).pc = "path" /\ Answer(B, s).path = s.path
      BY <1>1, <2>4 DEF Answer, Reply
    <3> QED
      BY <1>0, <2>2, <2>4, <3>1 DEF Right, LoopInv
  <2> QED
    BY <2>3, <2>4
<1>2. CASE s.queue # <<>>
  <2> DEFINE d == Head(s.queue)
  <2>1. d \in W /\ d \notin s.visited
    BY <1>2, ToSetTail DEF LoopInv, Stops, SearchStates
  <2>2. CASE d \in DOMAIN B
    <3>1. Answer(B, s).pc = "multiple"
      BY <1>2, <2>2 DEF Answer, Reply
    <3>2. Publishes(B, d) /\ s.path # NoPath
      BY <1>2, <2>2 DEF Stops
    <3>3. PICK p \in s.visited : Publishes(B, p) /\ B[p].dockerfile = s.path
      BY <3>2 DEF LoopInv, Only
    <3>4. p \in W /\ p # d
      BY <2>1, <3>3 DEF LoopInv
    <3> QED
      BY <1>0, <2>1, <3>1, <3>2, <3>3, <3>4 DEF Right
  <2>3. CASE d \notin DOMAIN B
    <3>1. Answer(B, s).pc = "panic"
      BY <1>2, <2>3 DEF Answer, Reply
    <3> QED
      BY <1>0, <2>1, <2>3, <3>1 DEF Right
  <2> QED
    BY <2>2, <2>3
<1> QED
  BY <1>1, <1>2

LEMMA SearchIsRight ==
  ASSUME NEW B, StepMap(B), NEW n \in DOMAIN B, NEW W, Leads(B, n, W)
  PROVE  Right(B, W, GetDockerfilePathDependency(n, B))
<1> DEFINE T == {s \in SearchStates(B) : LoopInv(B, n, W, s) /\ ~Right(B, W, Search(B)[s])}
<1>1. T = {}
  <2>1. SUFFICES ASSUME T # {} PROVE FALSE
    OBVIOUS
  <2>2. PICK s \in T : \A t \in T : ~Before(B, t, s)
    <3>1. T \in SUBSET SearchStates(B)
      OBVIOUS
    <3> HIDE DEF T
    <3> QED
      BY <2>1, <3>1, LeastState
  <2>3. s \in SearchStates(B) /\ LoopInv(B, n, W, s) /\ ~Right(B, W, Search(B)[s])
    OBVIOUS
  <2>4. CASE Stops(B, s)
    BY <2>3, <2>4, SearchLoops, LoopAnswers
  <2>5. CASE ~Stops(B, s)
    <3>1. Onward(B, s) \in SearchStates(B) /\ Before(B, Onward(B, s), s)
      BY <2>3, <2>5, GoesOn
    <3>2. s.queue # <<>>
      BY <2>5 DEF Stops
    <3>3. LoopInv(B, n, W, Onward(B, s))
      BY <2>3, <2>5, <3>2, LoopSkips, LoopVisits DEF Onward
    <3>4. Right(B, W, Search(B)[Onward(B, s)])
      BY <2>2, <3>1, <3>3
    <3> QED
      BY <2>3, <2>5, <3>4, SearchLoops
  <2> QED
    BY <2>4, <2>5
<1>2. StartAt(B, n) \in SearchStates(B) /\ LoopInv(B, n, W, StartAt(B, n))
  BY LoopStarts
<1>3. Right(B, W, Search(B)[StartAt(B, n)])
  BY <1>1, <1>2
<1> QED
  BY <1>3, SearchIs

-------------------------------------------------------------------------------
(***************************************************************************)
(* The steps of a Flow after parsing and defaults, and the map of them.    *)
(***************************************************************************)
ParsedPaths == Paths \cup {DefaultDockerfilePath(dir) : dir \in Seq(Seq(STRING))}
ParsedSteps ==
  [source : STRING, name : STRING, dependsOn : Seq(STRING), contextDir : Seq(Seq(STRING)),
   dockerfile : ParsedPaths, url : Urls, path : Seq(Seq(STRING)), baseRef : STRING \cup {"main"},
   volumes : SUBSET STRING, mounts : SUBSET STRING]

LEMMA DefaultIs ==
  ASSUME NEW S, NEW option \in Seq(S), NEW value
  PROVE  Default(option, value) \in S \cup {value}
<1>1. option # <<>> => 1 \in DOMAIN option /\ option[1] \in S
  BY LenProperties, EmptySeq, ElementOfSeq
<1> QED
  BY <1>1 DEF Default

LEMMA StepIsParsed ==
  ASSUME NEW s \in StepSpecs
  PROVE  StepDefaults(s) \in ParsedSteps
<1>1. /\ s.source \in STRING /\ s.name \in Seq(STRING) /\ s.dependsOn \in Seq(STRING)
      /\ s.dockerfile \in Seq(Paths) /\ s.contextDir \in Seq(Seq(Seq(STRING))) /\ s.url \in Urls
      /\ s.path \in Seq(Seq(STRING)) /\ s.baseRef \in Seq(STRING)
      /\ s.volumes \in SUBSET STRING /\ s.mounts \in SUBSET STRING
  BY DEF StepSpecs
<1> DEFINE dir == Default(s.contextDir, <<>>)
<1>2. dir \in Seq(Seq(STRING))
  <2>1. <<>> \in Seq(Seq(STRING))
    OBVIOUS
  <2>2. dir \in Seq(Seq(STRING)) \cup {<<>>}
    BY <1>1, DefaultIs
  <2> QED
    BY <2>1, <2>2
<1> HIDE DEF dir
<1>3. DefaultDockerfilePath(dir) \in ParsedPaths
  BY <1>2 DEF ParsedPaths
<1>4. Default(s.dockerfile, DefaultDockerfilePath(dir)) \in ParsedPaths
  <2>1. Default(s.dockerfile, DefaultDockerfilePath(dir)) \in Paths \cup {DefaultDockerfilePath(dir)}
    BY <1>1, DefaultIs
  <2> QED
    BY <1>3, <2>1 DEF ParsedPaths
<1>5. Default(s.name, s.source) \in STRING
  BY <1>1, DefaultIs
<1>6. Default(s.baseRef, DefaultBaseRef) \in STRING \cup {"main"}
  BY <1>1, DefaultIs DEF DefaultBaseRef
<1> QED
  BY <1>1, <1>2, <1>4, <1>5, <1>6 DEF StepDefaults, ParsedSteps, dir

LEMMA StepsAreParsed ==
  ASSUME NEW f \in FlowSpecs
  PROVE  /\ PreProcessFlow(f).steps \in Seq(ParsedSteps)
         /\ Len(PreProcessFlow(f).steps) = Len(f.steps)
         /\ \A i \in 1 .. Len(f.steps) : PreProcessFlow(f).steps[i] = StepDefaults(f.steps[i])
<1>1. f.steps \in Seq(StepSpecs) /\ DOMAIN f.steps = 1 .. Len(f.steps) /\ Len(f.steps) \in Nat
  BY LenProperties DEF FlowSpecs
<1>2. PreProcessFlow(f).steps = [i \in 1 .. Len(f.steps) |-> StepDefaults(f.steps[i])]
  BY <1>1 DEF PreProcessFlow, Each
<1>3. \A i \in 1 .. Len(f.steps) : StepDefaults(f.steps[i]) \in ParsedSteps
  BY <1>1, StepIsParsed
<1> QED
  BY <1>1, <1>2, <1>3, IsASeq, LenProperties

LEMMA LastOf ==
  ASSUME NEW steps \in Seq(ParsedSteps), NEW n \in StepNames(steps)
  PROVE  \E i \in 1 .. Len(steps) : /\ StepsByName(steps)[n] = steps[i] /\ steps[i].name = n
                                    /\ \A j \in 1 .. Len(steps) : steps[j].name = n => j <= i
<1>0. DOMAIN steps = 1 .. Len(steps) /\ Len(steps) \in Nat
  BY LenProperties
<1> DEFINE IsLast(i) == steps[i].name = n /\ \A j \in DOMAIN steps : steps[j].name = n => j <= i
           T == {Len(steps) - i : i \in {j \in 1 .. Len(steps) : steps[j].name = n}}
<1>1. T \in SUBSET Nat /\ T # {}
  BY <1>0 DEF StepNames
<1>2. PICK k \in T : \A m \in T : k <= m
  <2> HIDE DEF T
  <2> QED
    BY <1>1, Least
<1>3. PICK i \in 1 .. Len(steps) : k = Len(steps) - i /\ steps[i].name = n
  BY <1>2
<1>4. ASSUME NEW j \in 1 .. Len(steps), steps[j].name = n PROVE j <= i
  <2>1. k <= Len(steps) - j
    BY <1>2, <1>4
  <2> QED
    BY <1>0, <1>3, <2>1
<1>5. i \in DOMAIN steps /\ IsLast(i)
  BY <1>0, <1>3, <1>4
<1> HIDE DEF IsLast
<1>6. PICK l : l = CHOOSE j \in DOMAIN steps : IsLast(j)
  OBVIOUS
<1>7. l \in DOMAIN steps /\ IsLast(l)
  BY <1>5, <1>6
<1>8. StepsByName(steps)[n] = steps[l]
  BY <1>6 DEF StepsByName, IsLast
<1> QED
  BY <1>0, <1>7, <1>8 DEF IsLast

LEMMA MapOfSteps ==
  ASSUME NEW steps \in Seq(ParsedSteps)
  PROVE  StepMap(StepsByName(steps)) /\ DOMAIN StepsByName(steps) = StepNames(steps)
<1>0. DOMAIN steps = 1 .. Len(steps) /\ Len(steps) \in Nat /\ \A i \in 1 .. Len(steps) : steps[i] \in ParsedSteps
  BY LenProperties, ElementOfSeq
<1>1. DOMAIN StepsByName(steps) = StepNames(steps)
  BY DEF StepsByName
<1>2. IsFiniteSet(StepNames(steps))
  <2> DEFINE f == [i \in 1 .. Len(steps) |-> steps[i].name]
  <2>1. f \in Surjection(1 .. Len(steps), StepNames(steps))
    BY <1>0 DEF Surjection, StepNames
  <2>2. ExistsSurjection(1 .. Len(steps), StepNames(steps))
    BY <2>1 DEF ExistsSurjection
  <2> QED
    BY <1>0, <2>2, FS_NatSurjection
<1>3. ASSUME NEW n \in StepNames(steps) PROVE StepsByName(steps)[n] \in ParsedSteps
  BY <1>0, LastOf
<1> QED
  BY <1>1, <1>2, <1>3 DEF StepMap, ParsedSteps

(***************************************************************************)
(* The search and the graph of dependsOn.                                  *)
(***************************************************************************)
LEMMA BelowLeads ==
  ASSUME DOMAIN ByName = StepNames(Pre.steps), NEW n \in DOMAIN ByName
  PROVE  Leads(ByName, n, Below(StepGraph, n))
<1> DEFINE G == StepGraph
           W == Below(G, n)
<1>1. \A e : e \in G.edge <=> \E a \in DOMAIN ByName : \E b \in ToSet(ByName[a].dependsOn) : e = <<a, b>>
  BY DEF StepGraph
<1>2. \A a \in DOMAIN ByName : ToSet(ByName[a].dependsOn) \subseteq G.node
  BY DEF StepGraph
<1>3. ASSUME NEW X, ToSet(ByName[n].dependsOn) \subseteq X,
             \A d \in X \cap DOMAIN ByName : ToSet(ByName[d].dependsOn) \subseteq X
      PROVE  W \subseteq X
  <2> DEFINE Y == X \cap G.node
  <2>1. ASSUME NEW e \in G.edge, e[1] \in Y \cup {n} PROVE e[2] \in Y
    <3>1. PICK a \in DOMAIN ByName : \E b \in ToSet(ByName[a].dependsOn) : e = <<a, b>>
      BY <1>1
    <3>2. e[1] = a /\ e[2] \in ToSet(ByName[a].dependsOn)
      BY <3>1
    <3> QED
      BY <1>2, <1>3, <2>1, <3>2
  <2>2. W \subseteq Y
    BY <2>1 DEF Below
  <2> QED
    BY <2>2
<1>4. ASSUME NEW a \in (W \cap DOMAIN ByName) \cup {n}, NEW b \in ToSet(ByName[a].dependsOn) PROVE b \in W
  <2>1. <<a, b>> \in G.edge /\ b \in G.node
    BY <1>1, <1>2
  <2>2. ASSUME NEW X \in SUBSET G.node, \A e \in G.edge : e[1] \in X \cup {n} => e[2] \in X
        PROVE  b \in X
    <3>1. a \in X \cup {n}
      BY <2>2 DEF Below
    <3>2. <<a, b>>[1] \in X \cup {n} => <<a, b>>[2] \in X
      BY <2>1, <2>2
    <3> QED
      BY <3>1, <3>2
  <2> QED
    BY <2>1, <2>2 DEF Below
<1> HIDE DEF W, G
<1> QED
  BY <1>3, <1>4 DEF Leads, W, G

LEMMA SeveralElements ==
  ASSUME NEW S, IsFiniteSet(S), Cardinality(S) > 1
  PROVE  \A x : \E y \in S : y # x
<1> SUFFICES ASSUME NEW x, \A y \in S : y = x PROVE FALSE
  OBVIOUS
<1>1. S \in SUBSET {x} /\ IsFiniteSet({x}) /\ Cardinality({x}) = 1
  BY FS_Singleton
<1>2. Cardinality(S) <= 1
  BY <1>1, FS_Subset
<1>3. Cardinality(S) \in Nat
  BY FS_CardinalityType
<1> QED
  BY <1>2, <1>3

LEMMA FlowIsMapped ==
  ASSUME flow \in Flows
  PROVE  /\ Pre.steps \in Seq(ParsedSteps) /\ StepMap(ByName) /\ DOMAIN ByName = StepNames(Pre.steps)
         /\ \A n \in DOMAIN ByName : Right(ByName, Below(StepGraph, n), GetDockerfilePathDependency(n, ByName))
<1>1. Pre.steps \in Seq(ParsedSteps)
  BY FlowAssumption, StepsAreParsed DEF Pre
<1>2. StepMap(ByName) /\ DOMAIN ByName = StepNames(Pre.steps)
  BY <1>1, MapOfSteps DEF ByName
<1> QED
  BY <1>1, <1>2, BelowLeads, SearchIsRight

LEMMA SearchAgrees ==
  ASSUME flow \in Flows
  PROVE  SearchMeetsReference
<1> DEFINE names == StepNames(Pre.steps)
<1> SUFFICES ASSUME NEW n \in {m \in names : DeployStep(ByName[m])}
             PROVE  LET found == GetDockerfilePathDependency(n, ByName)
                        below == Below(StepGraph, n)
                        publishers == {m \in below \cap names : ByName[m].source = "DockerBuildTestPublish"}
                        paths == {ByName[m].dockerfile : m \in publishers}
                    IN IF below \subseteq names
                         THEN /\ found.pc \in {"path", "missing", "multiple"}
                              /\ Cardinality(publishers) = 1 /\ NoPath \notin paths =>
                                   found = [pc |-> "path", path |-> CHOOSE p \in paths : TRUE]
                              /\ Cardinality(publishers) > 1 /\ NoPath \notin paths => found.pc = "multiple"
                              /\ found.pc = "missing" <=> paths \subseteq {NoPath}
                         ELSE found.pc \in {"panic", "multiple"}
  BY Zenon DEF SearchMeetsReference
<1> DEFINE found == GetDockerfilePathDependency(n, ByName)
           below == Below(StepGraph, n)
           publishers == {m \in below \cap names : ByName[m].source = "DockerBuildTestPublish"}
           paths == {ByName[m].dockerfile : m \in publishers}
<1>1. StepMap(ByName) /\ DOMAIN ByName = names /\ Right(ByName, below, found)
  BY FlowIsMapped
<1>2. \A m \in below : Publishes(ByName, m) <=> m \in publishers
  BY <1>1 DEF Publishes
<1>3. IsFiniteSet(publishers)
  <2>1. publishers \in SUBSET DOMAIN ByName
    BY <1>1
  <2> HIDE DEF publishers
  <2> QED
    BY <1>1, <2>1, FS_Subset DEF StepMap
<1>4. publishers \subseteq below /\ \A m \in publishers : ByName[m].dockerfile \in paths
  OBVIOUS
<1>5. \A p \in paths : \E m \in publishers : p = ByName[m].dockerfile
  OBVIOUS
<1> HIDE DEF found, below, publishers, paths, names
<1>6. CASE ~(below \subseteq names)
  <2>1. found.pc \in {"panic", "multiple"}
    BY <1>1, <1>6 DEF Right, Replies
  <2> QED
    BY <1>6, <2>1 DEF found, below, publishers, paths, names
<1>7. CASE below \subseteq names
  <2>0. found.pc \in {"path", "missing", "multiple"} /\ found = [pc |-> found.pc, path |-> found.path]
    BY <1>1, <1>7 DEF Right, Replies
  <2>1. ASSUME Cardinality(publishers) = 1, NoPath \notin paths
        PROVE  found = [pc |-> "path", path |-> CHOOSE p \in paths : TRUE]
    <3>1. PICK x : publishers = {x}
      BY <1>3, <2>1, FS_Singleton
    <3>2. paths = {ByName[x].dockerfile} /\ ByName[x].dockerfile # NoPath
      BY <1>4, <1>5, <2>1, <3>1
    <3>3. found.pc # "missing"
      BY <1>1, <1>2, <1>4, <3>1, <3>2 DEF Right, None
    <3>4. found.pc # "multiple"
      BY <1>1, <1>2, <3>1 DEF Right
    <3>5. found.pc = "path" /\ found.path = ByName[x].dockerfile
      BY <1>1, <1>2, <2>0, <3>1, <3>3, <3>4 DEF Right, Only
    <3>6. (CHOOSE p \in paths : TRUE) = ByName[x].dockerfile
      BY <3>2
    <3> QED
      BY <2>0, <3>5, <3>6
  <2>2. ASSUME Cardinality(publishers) > 1, NoPath \notin paths
        PROVE  found.pc = "multiple"
    <3>0. \A m \in publishers : ByName[m].dockerfile # NoPath
      BY <1>4, <2>2
    <3>1. found.pc # "missing"
      <4>1. PICK x \in publishers : TRUE
        BY <1>3, <2>2, SeveralElements
      <4> QED
        BY <1>1, <1>2, <1>4, <3>0, <4>1 DEF Right, None
    <3>2. ASSUME found.pc = "path" PROVE FALSE
      <4>1. PICK p \in below : \A v \in below \ {p} : Publishes(ByName, v) => ByName[v].dockerfile = NoPath
        BY <1>1, <3>2 DEF Right, Only
      <4>2. PICK q \in publishers : q # p
        BY <1>3, <2>2, SeveralElements
      <4> QED
        BY <1>2, <1>4, <3>0, <4>1, <4>2
    <3> QED
      BY <2>0, <3>1, <3>2
  <2>3. ASSUME found.pc = "missing" PROVE paths \subseteq {NoPath}
    BY <1>1, <1>2, <1>4, <1>5, <2>3 DEF Right, None
  <2>4. ASSUME paths \subseteq {NoPath} PROVE found.pc = "missing"
    <3>0. \A m \in publishers : ByName[m].dockerfile = NoPath
      BY <1>4, <2>4
    <3>1. found.pc # "path"
      BY <1>1, <1>2, <3>0 DEF Right, Only
    <3>2. found.pc # "multiple"
      BY <1>1, <1>2, <3>0 DEF Right
    <3> QED
      BY <2>0, <3>1, <3>2
  <2> QED
    BY <1>7, <2>0, <2>1, <2>2, <2>3, <2>4 DEF found, below, publishers, paths, names
<1> QED
  BY <1>6, <1>7 DEF found, below, publishers, paths, names

LEMMA FlowStays == BuildSpec => [](flow \in Flows)
<1>1. BuildInit => flow \in Flows
  BY DEF BuildInit
<1>2. flow \in Flows /\ [BuildNext]_BuildVars => (flow \in Flows)'
  BY DEF BuildNext, BuildVars, StartWorkflow, EndTasks, ExitHook, StartTask, SkipTask, OmitTask,
         StartCheck, FinishTask, FailTask
<1> QED
  BY <1>1, <1>2, PTL DEF BuildSpec

\* The breadth-first search for the dockerfile of a deployment ends and agrees with the
\* graph of dependsOn for every Flow: through cycles, diamonds, unknown names, steps of
\* one name and empty paths (getDockerfilePathDependency).
THEOREM SearchIsCorrect == BuildSpec => []SearchMeetsReference
BY SearchAgrees, FlowStays, PTL

-------------------------------------------------------------------------------
(***************************************************************************)
(* What is built: one task for each trigger, then one for each step.       *)
(***************************************************************************)
Searched(s) == GetDockerfilePathDependency(s.name, ByName)
Publisher(t) == t.source = "DockerBuildTestPublish"

LEMMA StepTaskIs ==
  ASSUME NEW s, NEW B, s.source \in StepSources
  PROVE  LET t == StepTask(s, B)
         IN /\ t.name = s.name /\ t.source = s.source /\ t.depends = ToSet(s.dependsOn)
            /\ DeployStep(s) =>
                 /\ t.dockerfile = GetDockerfilePathDependency(s.name, B).path
                 /\ t.dir = GetDockerfileDir(t.dockerfile) /\ t.when = GetWhen(s.name, B)
            /\ ~DeployStep(s) => t.when = {}
            /\ Publisher(s) =>
                 /\ t.dockerfile = s.dockerfile /\ t.dir = GetDockerfileDir(s.dockerfile)
                 /\ DeployStepStatus \in t.template.outputs
<1>1. CASE s.source = "DockerBuildTest"
  <2>1. StepTask(s, B) = DockerBuildTestTask(s, B)
    BY Zenon, <1>1 DEF StepTask
  <2>2. /\ DockerBuildTestTask(s, B).name = s.name /\ DockerBuildTestTask(s, B).source = s.source
        /\ DockerBuildTestTask(s, B).depends = ToSet(s.dependsOn) /\ DockerBuildTestTask(s, B).when = {}
    BY DEF DockerBuildTestTask, InitialTask, GetDepends
  <2> QED
    BY <1>1, <2>1, <2>2 DEF DeployStep, Publisher
<1>2. CASE s.source = "DockerBuildTestPublish"
  <2> DEFINE t == DockerBuildTestPublishTask(s, B)
  <2>1. StepTask(s, B) = t
    BY Zenon, <1>2 DEF StepTask
  <2>2. /\ t.name = s.name /\ t.source = s.source /\ t.depends = ToSet(s.dependsOn) /\ t.when = {}
        /\ t.dockerfile = s.dockerfile /\ t.dir = GetDockerfileDir(s.dockerfile)
        /\ t.template = StepTemplate(s, DockerBuildTestPublishTemplate)
    BY DEF DockerBuildTestPublishTask, InitialTask, GetDepends
  <2>3. DeployStepStatus \in StepTemplate(s, DockerBuildTestPublishTemplate).outputs
    BY DEF StepTemplate, DockerBuildTestPublishTemplate, Template
  <2> HIDE DEF t
  <2> QED
    BY <1>2, <2>1, <2>2, <2>3 DEF DeployStep
<1>3. ASSUME NEW template, NEW args, NEW app, NEW lock, StepTask(s, B) = DeployTask(s, B, template, args, app, lock),
             s.source \in {"ArgoCD", "GitHubCreatePR"}
      PROVE  LET t == StepTask(s, B)
             IN /\ t.name = s.name /\ t.source = s.source /\ t.depends = ToSet(s.dependsOn)
                /\ t.dockerfile = GetDockerfilePathDependency(s.name, B).path
                /\ t.dir = GetDockerfileDir(t.dockerfile) /\ t.when = GetWhen(s.name, B)
  BY <1>3 DEF DeployTask, InitialTask, GetDepends
<1>4. CASE s.source = "ArgoCD"
  <2>1. StepTask(s, B) = ArgoCDTask(s, B)
    BY Zenon, <1>4 DEF StepTask
  <2> QED
    BY <1>3, <1>4, <2>1 DEF ArgoCDTask, DeployStep, Publisher
<1>5. CASE s.source = "GitHubCreatePR"
  <2>1. StepTask(s, B) = GitHubCreatePrTask(s, B)
    BY Zenon, <1>5 DEF StepTask
  <2> QED
    BY <1>3, <1>5, <2>1 DEF GitHubCreatePrTask, DeployStep, Publisher
<1> QED
  BY <1>1, <1>2, <1>4, <1>5 DEF StepSources

LEMMA Outcome ==
  ASSUME NEW f
  PROVE  LET b == Build(f)
             pre == PreProcessFlow(f)
         IN \/ /\ b.pc \in {"PreProcessFailed", "AppBuildFailed", "SensorBuildFailed", "panic"}
               /\ b.tasks = <<>> /\ b.type = "none"
            \/ /\ b.pc = "built" /\ b.type = TriggerType(pre.triggers) /\ pre.ok
               /\ ~TriggersMixed(pre.triggers)
               /\ b.parameters = WorkflowParameters(pre.triggers) /\ b.keys = TriggerParameters(pre.triggers)
               /\ BuildArgoApps(pre.steps).ok /\ b.apps = BuildArgoApps(pre.steps).applications
               /\ \A i \in DOMAIN pre.steps : StepError(pre.steps[i], StepsByName(pre.steps)) = "ok"
               /\ b.tasks = Each(InitialTask, pre.triggers) \o
                              [i \in DOMAIN pre.steps |-> StepTask(pre.steps[i], StepsByName(pre.steps))]
<1> DEFINE b == Build(f)
           pre == PreProcessFlow(f)
           argo == BuildArgoApps(pre.steps)
           byName == StepsByName(pre.steps)
           errors == {i \in DOMAIN pre.steps : StepError(pre.steps[i], byName) # "ok"}
           first == CHOOSE i \in errors : \A j \in errors : i <= j
           why == IF StepError(pre.steps[first], byName) = "panic" THEN "panic" ELSE "SensorBuildFailed"
           tasks == Each(InitialTask, pre.triggers) \o [i \in DOMAIN pre.steps |-> StepTask(pre.steps[i], byName)]
           all == [pc |-> "built", apps |-> argo.applications,
                   parameters |-> WorkflowParameters(pre.triggers), keys |-> TriggerParameters(pre.triggers),
                   tasks |-> tasks, type |-> TriggerType(pre.triggers), deadline |-> pre.deadline]
<1>0. ASSUME NEW pc, NEW apps PROVE Refused(pc, apps).pc = pc /\ Refused(pc, apps).tasks = <<>> /\ Refused(pc, apps).type = "none"
  BY DEF Refused
<1>1. CASE ~pre.ok
  <2>1. b = Refused("PreProcessFailed", {})
    BY Zenon, <1>1 DEF Build
  <2> HIDE DEF b
  <2> QED
    BY <1>0, <2>1 DEF b
<1>2. CASE pre.ok /\ ~argo.ok
  <2>1. b = Refused("AppBuildFailed", {})
    BY Zenon, <1>2 DEF Build
  <2> HIDE DEF b
  <2> QED
    BY <1>0, <2>1 DEF b
<1>3. CASE pre.ok /\ argo.ok /\ TriggersMixed(pre.triggers)
  <2>1. b = Refused("SensorBuildFailed", argo.applications)
    BY Zenon, <1>3 DEF Build
  <2> HIDE DEF b
  <2> QED
    BY <1>0, <2>1 DEF b
<1>4. CASE pre.ok /\ argo.ok /\ ~TriggersMixed(pre.triggers) /\ errors # {}
  <2>1. b = Refused(why, argo.applications)
    BY Zenon, <1>4 DEF Build
  <2>2. why \in {"panic", "SensorBuildFailed"}
    OBVIOUS
  <2> HIDE DEF b, why
  <2> QED
    BY <1>0, <2>1, <2>2 DEF b
<1>5. CASE pre.ok /\ argo.ok /\ ~TriggersMixed(pre.triggers) /\ errors = {}
  <2>1. b = all
    BY Zenon, <1>5 DEF Build
  <2>2. /\ all.pc = "built" /\ all.type = TriggerType(pre.triggers) /\ all.tasks = tasks
        /\ all.parameters = WorkflowParameters(pre.triggers) /\ all.keys = TriggerParameters(pre.triggers)
        /\ all.apps = argo.applications
    OBVIOUS
  <2>3. \A i \in DOMAIN pre.steps : StepError(pre.steps[i], byName) = "ok"
    BY <1>5
  <2> HIDE DEF b, all, argo
  <2> QED
    BY <1>5, <2>1, <2>2, <2>3 DEF b, argo
<1> QED
  BY <1>1, <1>2, <1>3, <1>4, <1>5

IsBuilt == flow \in Flows /\ built = Build(flow)
Triggers == Len(Pre.triggers)
Steps == Len(Pre.steps)

LEMMA BuiltTasks ==
  ASSUME IsBuilt, built.pc = "built"
  PROVE  /\ Triggers \in Nat /\ Steps \in Nat /\ Tasks = 1 .. Triggers + Steps
         /\ \A i \in 1 .. Triggers : Task(i) = InitialTask(Pre.triggers[i])
         /\ \A i \in 1 .. Steps : Task(Triggers + i) = StepTask(Pre.steps[i], ByName)
         /\ \A i \in 1 .. Steps : /\ Pre.steps[i].source \in StepSources
                                  /\ StepError(Pre.steps[i], ByName) = "ok"
<1> DEFINE a == Each(InitialTask, Pre.triggers)
           b == [i \in DOMAIN Pre.steps |-> StepTask(Pre.steps[i], ByName)]
           S == {InitialTask(Pre.triggers[i]) : i \in 1 .. Triggers} \cup
                  {StepTask(Pre.steps[i], ByName) : i \in 1 .. Steps}
<1>1. flow \in FlowSpecs /\ Pre.ok /\ built.tasks = a \o b
      /\ \A i \in DOMAIN Pre.steps : StepError(Pre.steps[i], ByName) = "ok"
  BY FlowAssumption, Outcome DEF IsBuilt, Pre, ByName
<1>2. Steps \in Nat /\ DOMAIN Pre.steps = 1 .. Steps /\ Steps = Len(flow.steps)
      /\ \A i \in 1 .. Steps : Pre.steps[i] = StepDefaults(flow.steps[i])
  BY <1>1, StepsAreParsed, LenProperties DEF Steps, Pre
<1>3. Triggers \in Nat /\ DOMAIN Pre.triggers = 1 .. Triggers
  <2>1. flow.triggers \in Seq(TriggerSpecs)
    BY <1>1 DEF FlowSpecs
  <2>2. DOMAIN flow.triggers = 1 .. Len(flow.triggers) /\ Len(flow.triggers) \in Nat
    BY <2>1, LenProperties
  <2>3. Pre.triggers = [i \in 1 .. Len(flow.triggers) |-> TriggerDefaults(flow.triggers[i])]
    BY <2>2 DEF Pre, PreProcessFlow, Each
  <2>4. Pre.triggers \in Seq({TriggerDefaults(flow.triggers[i]) : i \in 1 .. Len(flow.triggers)})
    BY <2>2, <2>3, IsASeq
  <2> QED
    BY <2>4, LenProperties DEF Triggers
<1>4. a = [i \in 1 .. Triggers |-> InitialTask(Pre.triggers[i])] /\ a \in Seq(S) /\ Len(a) = Triggers
  <2>1. a = [i \in 1 .. Triggers |-> InitialTask(Pre.triggers[i])]
    BY <1>3 DEF Each
  <2>2. \A i \in 1 .. Triggers : InitialTask(Pre.triggers[i]) \in S
    OBVIOUS
  <2> HIDE DEF a, S
  <2>3. a \in Seq(S)
    BY <1>3, <2>1, <2>2, IsASeq
  <2> QED
    BY <1>3, <2>1, <2>3, LenProperties
<1>5. b = [i \in 1 .. Steps |-> StepTask(Pre.steps[i], ByName)] /\ b \in Seq(S) /\ Len(b) = Steps
  <2>1. b = [i \in 1 .. Steps |-> StepTask(Pre.steps[i], ByName)]
    BY <1>2
  <2>2. \A i \in 1 .. Steps : StepTask(Pre.steps[i], ByName) \in S
    OBVIOUS
  <2> HIDE DEF b, S
  <2>3. b \in Seq(S)
    BY <1>2, <2>1, <2>2, IsASeq
  <2> QED
    BY <1>2, <2>1, <2>3, LenProperties
<1>6. ASSUME NEW i \in 1 .. Steps PROVE Pre.steps[i].source \in StepSources
  <2>1. DOMAIN flow.steps = 1 .. Steps
    BY <1>1, <1>2, LenProperties DEF FlowSpecs
  <2>2. ParseStep(flow.steps[i])
    BY <1>1, <2>1 DEF Pre, PreProcessFlow
  <2>3. Pre.steps[i].source = flow.steps[i].source
    <3>1. StepDefaults(flow.steps[i]).source = flow.steps[i].source
      BY DEF StepDefaults
    <3> QED
      BY <1>2, <3>1
  <2> QED
    BY <2>2, <2>3 DEF ParseStep
<1> HIDE DEF a, b, S
<1>7. /\ DOMAIN (a \o b) = 1 .. Triggers + Steps
      /\ \A i \in 1 .. Triggers + Steps : (a \o b)[i] = IF i <= Triggers THEN a[i] ELSE b[i - Triggers]
  <2>1. a \o b \in Seq(S) /\ Len(a \o b) = Len(a) + Len(b)
        /\ \A i \in 1 .. Len(a) + Len(b) : (a \o b)[i] = IF i <= Len(a) THEN a[i] ELSE b[i - Len(a)]
    <3>1. a \in Seq(S) /\ b \in Seq(S)
      BY <1>4, <1>5
    <3> QED
      BY <3>1, ConcatProperties
  <2>2. DOMAIN (a \o b) = 1 .. Len(a \o b)
    BY <2>1, LenProperties
  <2> QED
    BY <1>4, <1>5, <2>1, <2>2
<1>8. ASSUME NEW i \in 1 .. Triggers PROVE Task(i) = InitialTask(Pre.triggers[i])
  <2>1. i \in 1 .. Triggers + Steps /\ i <= Triggers
    BY <1>2, <1>3
  <2> QED
    BY <1>1, <1>4, <1>7, <2>1 DEF Task
<1>9. ASSUME NEW i \in 1 .. Steps PROVE Task(Triggers + i) = StepTask(Pre.steps[i], ByName)
  <2>1. Triggers + i \in 1 .. Triggers + Steps /\ ~(Triggers + i <= Triggers) /\ (Triggers + i) - Triggers = i
    BY <1>2, <1>3
  <2> QED
    BY <1>1, <1>5, <1>7, <2>1 DEF Task
<1> QED
  BY <1>1, <1>2, <1>3, <1>6, <1>7, <1>8, <1>9 DEF Tasks

\* Of a task that is not a trigger's: the step it was made from.
StepOf(i) == Pre.steps[i - Triggers]

LEMMA TaskIs ==
  ASSUME IsBuilt, built.pc = "built", NEW i \in Tasks
  PROVE  \/ /\ Task(i).source = "GitHubCheckStart" /\ Task(i).depends = {} /\ Task(i).when = {}
            /\ i \in 1 .. Triggers
         \/ /\ i - Triggers \in 1 .. Steps /\ StepOf(i) \in ParsedSteps
            /\ Task(i).name = StepOf(i).name /\ Task(i).source = StepOf(i).source
            /\ Task(i).depends = ToSet(StepOf(i).dependsOn) /\ StepOf(i).source \in StepSources
            /\ DeployStep(Task(i)) =>
                 /\ Task(i).dockerfile = Searched(StepOf(i)).path /\ Searched(StepOf(i)).pc = "path"
                 /\ Task(i).dir = GetDockerfileDir(Task(i).dockerfile)
                 /\ Task(i).when = GetWhen(StepOf(i).name, ByName)
            /\ ~DeployStep(Task(i)) => Task(i).when = {}
            /\ Publisher(Task(i)) =>
                 /\ Task(i).dockerfile = StepOf(i).dockerfile
                 /\ Task(i).dir = GetDockerfileDir(Task(i).dockerfile)
                 /\ DeployStepStatus \in Task(i).template.outputs
<1>0. Triggers \in Nat /\ Steps \in Nat /\ Tasks = 1 .. Triggers + Steps
  BY BuiltTasks
<1>1. CASE i <= Triggers
  <2>1. i \in 1 .. Triggers
    BY <1>0, <1>1
  <2>2. Task(i) = InitialTask(Pre.triggers[i])
    BY <2>1, BuiltTasks
  <2> QED
    BY <2>1, <2>2 DEF InitialTask
<1>2. CASE ~(i <= Triggers)
  <2> DEFINE s == StepOf(i)
  <2>1. i - Triggers \in 1 .. Steps /\ Triggers + (i - Triggers) = i
    BY <1>0, <1>2
  <2>2. Task(i) = StepTask(s, ByName) /\ s.source \in StepSources /\ StepError(s, ByName) = "ok"
    <3>1. PICK l : l = i - Triggers
      OBVIOUS
    <3>2. Task(Triggers + l) = StepTask(Pre.steps[l], ByName) /\ Pre.steps[l].source \in StepSources
          /\ StepError(Pre.steps[l], ByName) = "ok"
      BY <2>1, <3>1, BuiltTasks
    <3> QED
      BY <2>1, <3>1, <3>2 DEF StepOf
  <2>3. s \in ParsedSteps
    BY <1>0, <2>1, FlowIsMapped, ElementOfSeq DEF IsBuilt, StepOf, Steps
  <2>4. ASSUME DeployStep(s) PROVE Searched(s).pc = "path"
    <3> DEFINE found == GetDockerfilePathDependency(s.name, ByName).pc
    <3>1. CASE found # "path"
      <4>1. StepError(s, ByName) = found
        BY Zenon, <2>4, <3>1 DEF StepError
      <4>2. found # "ok"
        <5>1. s.name \in DOMAIN ByName
          BY <1>0, <2>1, FlowIsMapped, LenProperties DEF IsBuilt, StepNames, StepOf, Steps
        <5>2. GetDockerfilePathDependency(s.name, ByName) \in Replies(ByName)
          BY <5>1, FlowIsMapped DEF IsBuilt, Right
        <5> QED
          BY <5>2 DEF Replies
      <4> QED
        BY <2>2, <4>1, <4>2
    <3>2. CASE found = "path"
      BY <3>2 DEF Searched
    <3> QED
      BY <3>1, <3>2
  <2>5. Task(i).source = s.source /\ Task(i).name = s.name /\ Task(i).depends = ToSet(s.dependsOn)
    BY <2>2, StepTaskIs
  <2>6. (DeployStep(Task(i)) <=> DeployStep(s)) /\ (Publisher(Task(i)) <=> Publisher(s))
    BY <2>5 DEF DeployStep, Publisher
  <2>7. /\ DeployStep(s) => /\ Task(i).dockerfile = GetDockerfilePathDependency(s.name, ByName).path
                            /\ Task(i).dir = GetDockerfileDir(Task(i).dockerfile)
                            /\ Task(i).when = GetWhen(s.name, ByName)
        /\ ~DeployStep(s) => Task(i).when = {}
        /\ Publisher(s) => /\ Task(i).dockerfile = s.dockerfile
                           /\ Task(i).dir = GetDockerfileDir(s.dockerfile)
                           /\ DeployStepStatus \in Task(i).template.outputs
    BY <2>2, StepTaskIs
  <2> HIDE DEF s
  <2> QED
    BY <2>1, <2>2, <2>3, <2>4, <2>5, <2>6, <2>7 DEF s, Searched
<1> QED
  BY <1>1, <1>2

LEMMA NoTasks ==
  ASSUME IsBuilt, built.pc # "built"
  PROVE  Tasks = {} /\ built.type = "none"
         /\ built.pc \in {"PreProcessFailed", "AppBuildFailed", "SensorBuildFailed", "panic"}
<1>1. built.tasks = <<>> /\ built.type = "none"
      /\ built.pc \in {"PreProcessFailed", "AppBuildFailed", "SensorBuildFailed", "panic"}
  BY Outcome DEF IsBuilt
<1>2. DOMAIN built.tasks = {}
  BY <1>1
<1> QED
  BY <1>1, <1>2 DEF Tasks

-------------------------------------------------------------------------------
(***************************************************************************)
(* The inductive invariant of a workflow.  RunInv: a workflow that runs    *)
(* was accepted, and until then no task has started.  DependsInv, WhenInv: *)
(* what let a task start stays so, since the tasks it waited for have      *)
(* ended.  ReportInv, ImageInv: what a task that succeeded has left.       *)
(***************************************************************************)
RunInv ==
  /\ phase \in {"running", "exit", "done"} => Accepted
  /\ phase \in {"applied", "refused", "rejected"} => \A i \in Tasks : status[i] = "pending"

Started(i) == status[i] \in {"running", "succeeded"}
DependsInv ==
  \A i \in Tasks : Started(i) => \A j \in TasksOf(Task(i).depends) : status[j] = "succeeded"
WhenInv ==
  \A i \in Tasks : Started(i) => \A j \in TasksOf(Task(i).when) : report[j] # "Skipped"
ReportInv ==
  \A i \in Tasks : status[i] = "succeeded" => report[i] \in Reports(i)

Image(i) == [dir |-> Task(i).dir, dockerfile |-> Task(i).dockerfile]
ImageInv ==
  \A i \in Tasks :
    Publisher(Task(i)) /\ status[i] = "succeeded" /\ report[i] = "Done" =>
      \/ Image(i) \in images
      \/ \E k \in Tasks \ {i} : Publisher(Task(k)) /\ Task(k).dir = Task(i).dir

BuildTypeInv == IsBuilt /\ BuildTypeOK
BuildInv == BuildTypeInv /\ RunInv /\ DependsInv /\ WhenInv /\ ReportInv /\ ImageInv

LEMMA BuildTypeInit == BuildInit => BuildTypeInv
<1> SUFFICES ASSUME BuildInit PROVE BuildTypeInv
  OBVIOUS
<1>1. IsBuilt
  BY DEF BuildInit, IsBuilt
<1>2. CASE built.pc = "built"
  <2>1. built.type \in {"PR", "commit", "none"}
    BY <1>1, <1>2, Outcome DEF IsBuilt, TriggerType
  <2>2. ASSUME NEW i \in Tasks, DeployStep(Task(i)) PROVE Task(i).dockerfile # NoPath
    <3>1. /\ i - Triggers \in 1 .. Steps /\ Task(i).dockerfile = Searched(StepOf(i)).path
          /\ Searched(StepOf(i)).pc = "path"
      BY <1>1, <1>2, <2>2, TaskIs DEF DeployStep
    <3>2. StepOf(i).name \in DOMAIN ByName
      BY <1>1, <3>1, FlowIsMapped, LenProperties DEF IsBuilt, StepNames, StepOf, Steps
    <3>3. Right(ByName, Below(StepGraph, StepOf(i).name), Searched(StepOf(i)))
      BY <1>1, <3>2, FlowIsMapped DEF IsBuilt, Searched
    <3> QED
      BY <3>1, <3>3 DEF Right
  <2> QED
    BY <1>1, <1>2, <2>1, <2>2 DEF BuildInit, BuildTypeInv, BuildTypeOK, Phases, Statuses
<1>3. CASE built.pc # "built"
  <2>1. /\ Tasks = {} /\ built.type = "none"
        /\ built.pc \in {"PreProcessFailed", "AppBuildFailed", "SensorBuildFailed", "panic"}
    BY <1>1, <1>3, NoTasks
  <2> QED
    BY <1>1, <1>3, <2>1 DEF BuildInit, BuildTypeInv, BuildTypeOK, Phases, Statuses
<1> QED
  BY <1>2, <1>3

LEMMA ReportsAre ==
  ASSUME NEW i
  PROVE  Reports(i) \subseteq {"none", "Done", "Skipped"}
BY DEF Reports

LEMMA PushKeepsOne ==
  ASSUME NEW i, \A m, n \in images : m.dir = n.dir => m = n
  PROVE  \A m, n \in Push(i) : m.dir = n.dir => m = n
BY DEF Push

\* What no step changes
LEMMA BuiltStays ==
  ASSUME BuildTypeInv, [BuildNext]_BuildVars
  PROVE  /\ flow' = flow /\ built' = built /\ Tasks' = Tasks /\ IsBuilt'
         /\ \A i : Task(i)' = Task(i) /\ Reports(i)' = Reports(i) /\ Image(i)' = Image(i)
         /\ \A names : TasksOf(names)' = TasksOf(names)
         /\ Accepted' = Accepted
<1>1. flow' = flow /\ built' = built
  BY DEF BuildNext, BuildVars, StartWorkflow, EndTasks, ExitHook, StartTask, SkipTask, OmitTask,
         StartCheck, FinishTask, FailTask
<1>2. Accepted' = Accepted
  BY <1>1 DEF Accepted, TasksOf, Tasks, Task, TaskNames, DependsGraph
<1> QED
  BY <1>1, <1>2 DEF BuildTypeInv, IsBuilt, Tasks, Task, Reports, Image, TasksOf

\* The part of the types that a step may change.
StateTypes ==
  /\ phase \in Phases /\ ((phase = "refused") <=> (built.pc # "built"))
  /\ status \in [Tasks -> Statuses] /\ report \in [Tasks -> {"none", "Done", "Skipped"}]
  /\ \A m, n \in images : m.dir = n.dir => m = n
  /\ check \in {"none", "started", "success", "failure"}

LEMMA BuildTypeStep == BuildTypeInv /\ [BuildNext]_BuildVars => BuildTypeInv'
<1> SUFFICES ASSUME BuildTypeInv, [BuildNext]_BuildVars PROVE BuildTypeInv'
  OBVIOUS
<1>1. flow' = flow /\ built' = built /\ Tasks' = Tasks /\ IsBuilt' /\ (\A i : Task(i)' = Task(i))
  BY BuiltStays
<1>2. /\ phase \in Phases /\ ((phase = "refused") <=> (built.pc # "built"))
      /\ status \in [Tasks -> Statuses] /\ report \in [Tasks -> {"none", "Done", "Skipped"}]
      /\ \A m, n \in images : m.dir = n.dir => m = n
      /\ check \in {"none", "started", "success", "failure"}
  BY DEF BuildTypeInv, BuildTypeOK
<1>3. /\ built'.pc \in {"built", "PreProcessFailed", "AppBuildFailed", "SensorBuildFailed", "panic"}
      /\ built'.type \in {"PR", "commit", "none"}
      /\ \A i \in Tasks' : DeployStep(Task(i)') => Task(i)'.dockerfile # NoPath
  BY <1>1 DEF BuildTypeInv, BuildTypeOK
<1>4. StateTypes'
  <2> USE DEF StateTypes
  <2>1. CASE StartWorkflow
    BY <1>1, <1>2, <2>1 DEF StartWorkflow, Phases
  <2>2. CASE EndTasks
    <3>1. \A i \in Tasks : (IF status[i] = "running" THEN "failed" ELSE status[i]) \in Statuses
      BY <1>2 DEF Statuses
    <3> QED
      BY <1>1, <1>2, <2>2, <3>1 DEF EndTasks, Phases
  <2>3. CASE ExitHook
    <3>1. check' \in {check, "success", "failure"}
      BY <2>3 DEF ExitHook, Conclusion
    <3> QED
      BY <1>1, <1>2, <2>3, <3>1 DEF ExitHook, Phases
  <2>4. ASSUME NEW i \in Tasks, StartTask(i) \/ SkipTask(i) \/ OmitTask(i) \/ FailTask(i)
        PROVE  /\ UNCHANGED <<phase, report, images, check>>
               /\ \E s \in Statuses : status' = [status EXCEPT ![i] = s]
    BY <2>4 DEF StartTask, SkipTask, OmitTask, FailTask, Statuses
  <2>5. ASSUME NEW i \in Tasks, FinishTask(i)
        PROVE  StateTypes'
    <3>1. UNCHANGED phase /\ status' = [status EXCEPT ![i] = "succeeded"] /\ "succeeded" \in Statuses
      BY <2>5 DEF FinishTask, Statuses
    <3>2. PICK r \in {"none", "Done", "Skipped"} : report' = [report EXCEPT ![i] = r]
      BY <2>5, ReportsAre DEF FinishTask
    <3>3. images' = images \/ images' = Push(i)
      BY <2>5 DEF FinishTask
    <3>4. check' = check
      BY <2>5 DEF FinishTask
    <3> QED
      BY <1>1, <1>2, <3>1, <3>2, <3>3, <3>4, PushKeepsOne
  <2>6. CASE UNCHANGED BuildVars
    BY <1>1, <1>2, <2>6 DEF BuildVars
  <2>7. ASSUME NEW i \in Tasks, StartTask(i) \/ SkipTask(i) \/ OmitTask(i) \/ FailTask(i)
        PROVE  StateTypes'
    BY <1>1, <1>2, <2>4, <2>7
  <2>8. ASSUME NEW i \in Tasks, StartCheck(i) PROVE StateTypes'
    BY <1>1, <1>2, <2>8 DEF StartCheck
  <2> QED
    BY <2>1, <2>2, <2>3, <2>5, <2>6, <2>7, <2>8 DEF BuildNext
<1> QED
  BY <1>1, <1>3, <1>4 DEF BuildTypeInv, BuildTypeOK, StateTypes

\* What Build refuses and what it makes of the rest is as Reconcile expects: a
\* deployment in a workflow has the dockerfile of its image, for every Flow.
THEOREM BuildTypes == BuildSpec => []BuildTypeOK
<1>1. BuildTypeInv => BuildTypeOK
  BY DEF BuildTypeInv
<1> QED
  BY <1>1, BuildTypeInit, BuildTypeStep, PTL DEF BuildSpec

-------------------------------------------------------------------------------
(***************************************************************************)
(* What Argo accepts: every task has a name of its own, so that the map of *)
(* the steps by name has each of them, and a when refers to tasks that the *)
(* task depends on.                                                        *)
(***************************************************************************)
LEMMA StepHasTask ==
  ASSUME IsBuilt, built.pc = "built", NEW p \in DOMAIN ByName
  PROVE  \E j \in Tasks : /\ j - Triggers \in 1 .. Steps /\ StepOf(j) = ByName[p]
                          /\ Task(j).name = p /\ StepOf(j).name = p
                          /\ Task(j).source = ByName[p].source
<1>1. Pre.steps \in Seq(ParsedSteps) /\ p \in StepNames(Pre.steps)
  BY FlowIsMapped DEF IsBuilt
<1>2. PICK l \in 1 .. Steps : ByName[p] = Pre.steps[l] /\ Pre.steps[l].name = p
  BY <1>1, LastOf DEF ByName, Steps
<1>3. /\ Triggers \in Nat /\ Steps \in Nat /\ Tasks = 1 .. Triggers + Steps
      /\ Task(Triggers + l) = StepTask(Pre.steps[l], ByName) /\ Pre.steps[l].source \in StepSources
  BY BuiltTasks
<1>4. Task(Triggers + l).name = p /\ Task(Triggers + l).source = Pre.steps[l].source
  BY <1>2, <1>3, StepTaskIs
<1>5. Triggers + l \in Tasks /\ (Triggers + l) - Triggers = l
  BY <1>3
<1> QED
  BY <1>2, <1>4, <1>5 DEF StepOf

NamesDiffer == \A i, j \in Tasks : Task(i).name = Task(j).name => i = j

LEMMA AcceptedNames == Accepted => NamesDiffer
BY DEF Accepted, NamesDiffer

LEMMA OneStepOfAName ==
  ASSUME IsBuilt, built.pc = "built", NamesDiffer, NEW i \in Tasks, i - Triggers \in 1 .. Steps
  PROVE  StepOf(i).name \in DOMAIN ByName /\ ByName[StepOf(i).name] = StepOf(i)
         /\ Task(i).name = StepOf(i).name
<1>1. Task(i).name = StepOf(i).name
  <2>1. ~(i \in 1 .. Triggers)
    BY BuiltTasks
  <2> QED
    BY <2>1, TaskIs
<1>2. StepOf(i).name \in DOMAIN ByName
  BY FlowIsMapped, LenProperties DEF IsBuilt, StepNames, StepOf, Steps
<1>3. PICK j \in Tasks : StepOf(j) = ByName[StepOf(i).name] /\ Task(j).name = StepOf(i).name
  BY <1>2, StepHasTask
<1>4. i = j
  BY <1>1, <1>3 DEF NamesDiffer
<1> QED
  BY <1>1, <1>2, <1>3, <1>4

LEMMA WhenAreDepends ==
  ASSUME IsBuilt, built.pc = "built", Accepted, NEW i \in Tasks
  PROVE  Task(i).when \subseteq Task(i).depends
<1>1. CASE DeployStep(Task(i))
  <2>1. /\ i - Triggers \in 1 .. Steps /\ Task(i).when = GetWhen(StepOf(i).name, ByName)
        /\ Task(i).depends = ToSet(StepOf(i).dependsOn)
    BY <1>1, TaskIs DEF DeployStep
  <2>2. ByName[StepOf(i).name] = StepOf(i)
    BY <2>1, AcceptedNames, OneStepOfAName
  <2> QED
    BY <2>1, <2>2 DEF GetWhen
<1>2. CASE ~DeployStep(Task(i))
  BY <1>2, TaskIs
<1> QED
  BY <1>1, <1>2

-------------------------------------------------------------------------------
(***************************************************************************)
(* What a step does to a task: one that succeeded stays so and keeps its   *)
(* report; one that starts had its depends and its when met.               *)
(***************************************************************************)
Kept(i) == status[i] = "succeeded" => status'[i] = "succeeded" /\ report'[i] = report[i]
MayStart(i) ==
  status'[i] \in {"running", "succeeded"} =>
    Started(i) \/ (phase = "running" /\ DependsMet(i) /\ WhenMet(i))
Reported(i) ==
  status'[i] = "succeeded" =>
    \/ status[i] = "succeeded" /\ report'[i] = report[i]
    \/ status[i] = "running" /\ report'[i] \in Reports(i)
Effects == \A i \in Tasks : Kept(i) /\ MayStart(i) /\ Reported(i)

LEMMA StepEffects ==
  ASSUME BuildTypeInv, [BuildNext]_BuildVars
  PROVE  Effects
<1>0. status \in [Tasks -> Statuses] /\ report \in [Tasks -> {"none", "Done", "Skipped"}]
  BY DEF BuildTypeInv, BuildTypeOK
<1>1. CASE StartWorkflow \/ ExitHook \/ UNCHANGED BuildVars \/ \E i \in Tasks : StartCheck(i)
  <2>1. status' = status /\ report' = report
    BY <1>1 DEF StartWorkflow, ExitHook, StartCheck, BuildVars
  <2> QED
    BY <2>1 DEF Effects, Kept, MayStart, Reported, Started
<1>2. CASE EndTasks
  <2>1. report' = report /\ \A i \in Tasks : status'[i] = IF status[i] = "running" THEN "failed" ELSE status[i]
    BY <1>2 DEF EndTasks
  <2>2. ASSUME NEW i \in Tasks PROVE Kept(i) /\ MayStart(i) /\ Reported(i)
    BY <2>1 DEF Kept, MayStart, Reported, Started
  <2> QED
    BY <2>2 DEF Effects
<1>3. ASSUME NEW k \in Tasks, StartTask(k) \/ SkipTask(k) \/ OmitTask(k) \/ FailTask(k)
      PROVE  Effects
  <2>1. /\ report' = report /\ status[k] \in {"pending", "running"}
        /\ \E s \in {"running", "skipped", "omitted", "failed"} :
             /\ status' = [status EXCEPT ![k] = s]
             /\ s = "running" => phase = "running" /\ DependsMet(k) /\ WhenMet(k)
    BY <1>3 DEF StartTask, SkipTask, OmitTask, FailTask
  <2>2. ASSUME NEW i \in Tasks PROVE Kept(i) /\ MayStart(i) /\ Reported(i)
    <3>1. CASE i = k
      BY <1>0, <2>1, <3>1 DEF Kept, MayStart, Reported, Started
    <3>2. CASE i # k
      <4>1. status'[i] = status[i]
        BY <1>0, <2>1, <3>2
      <4> QED
        BY <2>1, <4>1 DEF Kept, MayStart, Reported, Started
    <3> QED
      BY <3>1, <3>2
  <2> QED
    BY <2>2 DEF Effects
<1>4. ASSUME NEW k \in Tasks, FinishTask(k) PROVE Effects
  <2>1. /\ status[k] = "running" /\ status' = [status EXCEPT ![k] = "succeeded"]
        /\ \E r \in Reports(k) : report' = [report EXCEPT ![k] = r]
    BY <1>4 DEF FinishTask
  <2>2. ASSUME NEW i \in Tasks PROVE Kept(i) /\ MayStart(i) /\ Reported(i)
    <3>1. CASE i = k
      BY <1>0, <2>1, <3>1 DEF Kept, MayStart, Reported, Started
    <3>2. CASE i # k
      <4>1. status'[i] = status[i] /\ report'[i] = report[i]
        BY <1>0, <2>1, <3>2
      <4> QED
        BY <4>1 DEF Kept, MayStart, Reported, Started
    <3> QED
      BY <3>1, <3>2
  <2> QED
    BY <2>2 DEF Effects
<1> QED
  BY <1>1, <1>2, <1>3, <1>4 DEF BuildNext

LEMMA BuildInvInit == BuildInit => BuildInv
<1> SUFFICES ASSUME BuildInit PROVE BuildInv
  OBVIOUS
<1>1. BuildTypeInv
  BY BuildTypeInit
<1>2. \A i \in Tasks : status[i] = "pending"
  BY DEF BuildInit
<1>3. phase \in {"applied", "refused"}
  BY DEF BuildInit
<1> QED
  BY <1>1, <1>2, <1>3 DEF BuildInv, RunInv, DependsInv, WhenInv, ReportInv, ImageInv, Started

LEMMA SomeTaskIsBuilt ==
  ASSUME IsBuilt, NEW i \in Tasks
  PROVE  built.pc = "built"
BY NoTasks

LEMMA StartedIsAccepted ==
  ASSUME BuildInv, NEW i \in Tasks, Started(i)
  PROVE  Accepted
BY DEF BuildInv, BuildTypeInv, BuildTypeOK, RunInv, Started, Phases

LEMMA BuildInvStep == BuildInv /\ [BuildNext]_BuildVars => BuildInv'
<1> SUFFICES ASSUME BuildInv, [BuildNext]_BuildVars PROVE BuildInv'
  OBVIOUS
<1>0. BuildTypeInv
  BY DEF BuildInv
<1>1. /\ Tasks' = Tasks /\ \A i : Task(i)' = Task(i) /\ Reports(i)' = Reports(i) /\ Image(i)' = Image(i)
      /\ \A names : TasksOf(names)' = TasksOf(names)
      /\ Accepted' = Accepted
  BY <1>0, BuiltStays
<1>2. BuildTypeInv'
  BY <1>0, BuildTypeStep
<1>3. Effects
  BY <1>0, StepEffects
<1>4. RunInv'
  <2>0. RunInv /\ status \in [Tasks -> Statuses]
    BY DEF BuildInv, BuildTypeInv, BuildTypeOK
  <2>1. CASE StartWorkflow
    BY <1>1, <2>0, <2>1 DEF StartWorkflow, RunInv
  <2>2. CASE EndTasks
    BY <1>1, <2>0, <2>2 DEF EndTasks, RunInv
  <2>3. CASE ExitHook
    BY <1>1, <2>0, <2>3 DEF ExitHook, RunInv
  <2>4. ASSUME NEW i \in Tasks,
               StartTask(i) \/ SkipTask(i) \/ OmitTask(i) \/ StartCheck(i) \/ FinishTask(i) \/ FailTask(i)
        PROVE  RunInv'
    <3>1. phase = "running" /\ phase' = phase
      BY <2>4 DEF StartTask, SkipTask, OmitTask, StartCheck, FinishTask, FailTask
    <3> QED
      BY <1>1, <2>0, <3>1 DEF RunInv
  <2>5. CASE UNCHANGED BuildVars
    BY <1>1, <2>0, <2>5 DEF RunInv, BuildVars
  <2> QED
    BY <2>1, <2>2, <2>3, <2>4, <2>5 DEF BuildNext
<1>5. DependsInv'
  <2> SUFFICES ASSUME NEW i \in Tasks, status'[i] \in {"running", "succeeded"},
                      NEW j \in TasksOf(Task(i).depends)
               PROVE  status'[j] = "succeeded"
    BY <1>1 DEF DependsInv, Started
  <2>1. status[j] = "succeeded"
    BY <1>3 DEF Effects, MayStart, BuildInv, DependsInv, DependsMet
  <2> QED
    BY <1>3, <2>1 DEF Effects, Kept, TasksOf
<1>6. WhenInv'
  <2> SUFFICES ASSUME NEW i \in Tasks, status'[i] \in {"running", "succeeded"},
                      NEW j \in TasksOf(Task(i).when)
               PROVE  report'[j] # "Skipped"
    BY <1>1 DEF WhenInv, Started
  <2>1. Started(i) \/ (phase = "running" /\ DependsMet(i) /\ WhenMet(i))
    BY <1>3 DEF Effects, MayStart
  <2>2. Accepted
    BY <2>1, StartedIsAccepted DEF BuildInv, RunInv
  <2>3. j \in TasksOf(Task(i).depends)
    BY <1>0, <2>2, WhenAreDepends, SomeTaskIsBuilt DEF BuildTypeInv, TasksOf
  <2>4. status[j] = "succeeded" /\ report[j] # "Skipped"
    BY <2>1, <2>3 DEF BuildInv, DependsInv, DependsMet, WhenInv, WhenMet
  <2> QED
    BY <1>3, <2>4 DEF Effects, Kept, TasksOf
<1>7. ReportInv'
  <2> SUFFICES ASSUME NEW i \in Tasks, status'[i] = "succeeded"
               PROVE  report'[i] \in Reports(i)
    BY <1>1 DEF ReportInv
  <2> QED
    BY <1>3 DEF Effects, Reported, BuildInv, ReportInv
<1>8. ImageInv'
  <2> SUFFICES ASSUME NEW i \in Tasks, Publisher(Task(i)), status'[i] = "succeeded", report'[i] = "Done"
               PROVE  \/ Image(i) \in images'
                      \/ \E k \in Tasks \ {i} : Publisher(Task(k)) /\ Task(k).dir = Task(i).dir
    BY <1>1 DEF ImageInv, Publisher
  <2>1. ASSUME status[i] = "succeeded"
        PROVE  \/ Image(i) \in images
               \/ \E k \in Tasks \ {i} : Publisher(Task(k)) /\ Task(k).dir = Task(i).dir
    BY <1>3, <2>1 DEF Effects, Kept, BuildInv, ImageInv
  <2>2. ASSUME NEW k \in Tasks, FinishTask(k)
        PROVE  \/ Image(i) \in images'
               \/ \E l \in Tasks \ {i} : Publisher(Task(l)) /\ Task(l).dir = Task(i).dir
    <3>1. images' = IF Task(k).source = "DockerBuildTestPublish" /\ report'[k] = "Done" THEN Push(k) ELSE images
      BY <2>2 DEF FinishTask
    <3>2. CASE k = i
      BY <3>1, <3>2 DEF Push, Image, Publisher
    <3>3. CASE k # i
      <4>1. status[i] = "succeeded"
        BY <2>2, <3>3 DEF FinishTask, BuildInv, BuildTypeInv, BuildTypeOK
      <4>2. CASE Publisher(Task(k)) /\ Task(k).dir = Task(i).dir
        BY <3>3, <4>2
      <4>3. CASE ~(Publisher(Task(k)) /\ Task(k).dir = Task(i).dir)
        <5>1. ASSUME Image(i) \in images PROVE Image(i) \in images'
          BY <3>1, <4>3, <5>1 DEF Push, Image, Publisher
        <5> QED
          BY <2>1, <4>1, <5>1
      <4> QED
        BY <4>2, <4>3
    <3> QED
      BY <3>2, <3>3
  <2>3. ASSUME ~\E k \in Tasks : FinishTask(k)
        PROVE  images' = images /\ status[i] = "succeeded"
    <3>1. images' = images
      BY <2>3 DEF BuildNext, BuildVars, StartWorkflow, EndTasks, ExitHook, StartTask, SkipTask, OmitTask,
                  StartCheck, FailTask
    <3>2. ASSUME status[i] = "running" PROVE FALSE
      <4>0. status \in [Tasks -> Statuses]
        BY <1>0 DEF BuildTypeInv, BuildTypeOK
      <4>1. CASE EndTasks
        BY <3>2, <4>1 DEF EndTasks
      <4>2. CASE StartWorkflow \/ ExitHook \/ UNCHANGED BuildVars \/ \E k \in Tasks : StartCheck(k)
        BY <3>2, <4>2 DEF StartWorkflow, ExitHook, StartCheck, BuildVars
      <4>3. ASSUME NEW k \in Tasks, StartTask(k) \/ SkipTask(k) \/ OmitTask(k) \/ FailTask(k)
            PROVE  FALSE
        BY <3>2, <4>0, <4>3 DEF StartTask, SkipTask, OmitTask, FailTask
      <4> QED
        BY <2>3, <4>1, <4>2, <4>3 DEF BuildNext
    <3> QED
      BY <1>3, <3>1, <3>2 DEF Effects, Reported
  <2> QED
    BY <2>1, <2>2, <2>3
<1> QED
  BY <1>2, <1>4, <1>5, <1>6, <1>7, <1>8 DEF BuildInv

-------------------------------------------------------------------------------
(***************************************************************************)
(* What a task leads to, in the graphs of the steps and of the tasks.      *)
(***************************************************************************)
LEMMA BelowClosed ==
  ASSUME NEW graph, NEW n, NEW e \in graph.edge, e[1] \in Below(graph, n) \cup {n}, e[2] \in graph.node
  PROVE  e[2] \in Below(graph, n)
<1>1. ASSUME NEW X \in SUBSET graph.node, \A f \in graph.edge : f[1] \in X \cup {n} => f[2] \in X
      PROVE  e[2] \in X
  <2>1. e[1] \in X \cup {n}
    BY <1>1 DEF Below
  <2> QED
    BY <1>1, <2>1
<1> QED
  BY <1>1 DEF Below

LEMMA BelowLeast ==
  ASSUME NEW graph, NEW n, NEW X \in SUBSET graph.node,
         \A e \in graph.edge : e[1] \in X \cup {n} => e[2] \in X
  PROVE  Below(graph, n) \subseteq X
BY DEF Below

LEMMA DependsEdges ==
  ASSUME Accepted, NEW k \in Tasks, NEW d \in Task(k).depends
  PROVE  <<Task(k).name, d>> \in DependsGraph.edge /\ d \in DependsGraph.node
BY DEF Accepted, DependsGraph, TaskNames

LEMMA StepsBelowTasks ==
  ASSUME IsBuilt, built.pc = "built", Accepted, NEW n \in DOMAIN ByName
  PROVE  Below(StepGraph, n) \subseteq Below(DependsGraph, n)
<1> DEFINE X == Below(DependsGraph, n)
<1>1. ASSUME NEW a \in DOMAIN ByName, a \in X \cup {n} PROVE ToSet(ByName[a].dependsOn) \subseteq X
  <2>1. PICK k \in Tasks : k - Triggers \in 1 .. Steps /\ StepOf(k) = ByName[a] /\ Task(k).name = a
    BY <1>1, StepHasTask
  <2>2. Task(k).depends = ToSet(ByName[a].dependsOn)
    <3>1. ~(k \in 1 .. Triggers)
      BY <2>1, BuiltTasks
    <3> QED
      BY <2>1, <3>1, TaskIs
  <2>3. ASSUME NEW d \in Task(k).depends PROVE d \in X
    <3>1. <<a, d>> \in DependsGraph.edge /\ d \in DependsGraph.node
      BY <2>1, DependsEdges
    <3> DEFINE e == <<a, d>>
    <3>2. e[1] = a /\ e[2] = d
      OBVIOUS
    <3> HIDE DEF e, X
    <3>3. e \in DependsGraph.edge
      BY <3>1 DEF e
    <3>4. e[2] \in Below(DependsGraph, n)
      BY <1>1, <3>1, <3>2, <3>3, BelowClosed DEF X
    <3> QED
      BY <3>2, <3>4 DEF X
  <2> QED
    BY <2>2, <2>3
<1>2. Leads(ByName, n, Below(StepGraph, n))
  BY BelowLeads, FlowIsMapped DEF IsBuilt
<1>3. ToSet(ByName[n].dependsOn) \subseteq X /\ \A d \in X \cap DOMAIN ByName : ToSet(ByName[d].dependsOn) \subseteq X
  BY <1>1
<1> HIDE DEF X
<1>4. Below(StepGraph, n) \subseteq X
  BY <1>2, <1>3 DEF Leads
<1> QED
  BY <1>4 DEF X

\* All that a task which has started leads to has succeeded.
LEMMA BelowSucceeded ==
  ASSUME BuildInv, NEW i \in Tasks, Started(i), NEW j \in Tasks,
         Task(j).name \in Below(DependsGraph, Task(i).name)
  PROVE  status[j] = "succeeded"
<1> DEFINE X == {m \in TaskNames : \A k \in Tasks : Task(k).name = m => status[k] = "succeeded"}
<1>1. Accepted
  BY StartedIsAccepted
<1>2. X \in SUBSET DependsGraph.node
  BY DEF DependsGraph
<1>3. ASSUME NEW e \in DependsGraph.edge, e[1] \in X \cup {Task(i).name} PROVE e[2] \in X
  <2>1. PICK k \in Tasks : \E d \in Task(k).depends : e = <<Task(k).name, d>>
    BY DEF DependsGraph
  <2>2. PICK d \in Task(k).depends : e[1] = Task(k).name /\ e[2] = d
    BY <2>1
  <2>3. Started(k)
    BY <1>1, <1>3, <2>2 DEF Accepted, Started
  <2>4. d \in TaskNames
    BY <1>1 DEF Accepted
  <2>5. \A l \in Tasks : Task(l).name = d => status[l] = "succeeded"
    BY <2>3 DEF BuildInv, DependsInv, TasksOf
  <2> QED
    BY <2>2, <2>4, <2>5
<1> HIDE DEF X
<1>4. Below(DependsGraph, Task(i).name) \subseteq X
  BY <1>2, <1>3, BelowLeast
<1> QED
  BY <1>4 DEF X

\* A publishing step that a deployment waits for directly is in its when.
LEMMA WhenNamesPublishers ==
  ASSUME IsBuilt, built.pc = "built", Accepted, NEW i \in Tasks, DeployStep(Task(i)),
         NEW j \in Tasks, Publisher(Task(j)), Task(j).name \in Task(i).depends
  PROVE  j \in TasksOf(Task(i).when)
<1>1. /\ i - Triggers \in 1 .. Steps /\ Task(i).when = GetWhen(StepOf(i).name, ByName)
      /\ Task(i).depends = ToSet(StepOf(i).dependsOn)
  BY TaskIs DEF DeployStep
<1>2. ByName[StepOf(i).name] = StepOf(i)
  BY <1>1, AcceptedNames, OneStepOfAName
<1>3. j - Triggers \in 1 .. Steps /\ StepOf(j).source = "DockerBuildTestPublish"
  BY TaskIs DEF Publisher
<1>4. Task(j).name \in DOMAIN ByName /\ ByName[Task(j).name] = StepOf(j)
  BY <1>3, AcceptedNames, OneStepOfAName
<1>5. Task(j).name \in GetWhen(StepOf(i).name, ByName)
  BY <1>1, <1>2, <1>3, <1>4 DEF GetWhen
<1> QED
  BY <1>1, <1>5 DEF TasksOf

LEMMA PublisherReports ==
  ASSUME BuildInv, NEW j \in Tasks, Publisher(Task(j)), status[j] = "succeeded"
  PROVE  report[j] \in {"Done", "Skipped"}
<1>1. built.pc = "built"
  BY SomeTaskIsBuilt DEF BuildInv, BuildTypeInv
<1>2. DeployStepStatus \in Task(j).template.outputs
  BY <1>1, TaskIs DEF BuildInv, BuildTypeInv, Publisher
<1> QED
  BY <1>2 DEF BuildInv, ReportInv, Reports

\* With deployments only on the way, the publishing steps that a task which has
\* started leads to were not skipped.
LEMMA BelowDone ==
  ASSUME BuildInv, NEW i \in Tasks, Started(i), NEW j \in Tasks, Publisher(Task(j)),
         Task(j).name \in Below(DeployGraph, Task(i).name)
  PROVE  report[j] = "Done"
<1> DEFINE Fine(k) == status[k] = "succeeded" /\ (Publisher(Task(k)) => report[k] = "Done")
           X == {m \in TaskNames : \A k \in Tasks : Task(k).name = m => Fine(k)}
<1>1. Accepted /\ built.pc = "built" /\ IsBuilt
  BY StartedIsAccepted, SomeTaskIsBuilt DEF BuildInv, BuildTypeInv
<1>2. X \in SUBSET DeployGraph.node
  BY DEF DeployGraph
<1>3. ASSUME NEW e \in DeployGraph.edge, e[1] \in X \cup {Task(i).name} PROVE e[2] \in X
  <2>1. PICK k \in {l \in Tasks : DeployStep(Task(l))} : \E d \in Task(k).depends : e = <<Task(k).name, d>>
    BY DEF DeployGraph
  <2>2. PICK d \in Task(k).depends : e[1] = Task(k).name /\ e[2] = d
    BY <2>1
  <2>3. Started(k)
    BY <1>1, <1>3, <2>2 DEF Accepted, Started
  <2>4. d \in TaskNames
    BY <1>1 DEF Accepted
  <2>5. ASSUME NEW l \in Tasks, Task(l).name = d PROVE Fine(l)
    <3>1. status[l] = "succeeded"
      BY <2>3, <2>5 DEF BuildInv, DependsInv, TasksOf
    <3>2. ASSUME Publisher(Task(l)) PROVE report[l] = "Done"
      <4>1. l \in TasksOf(Task(k).when)
        BY <1>1, <2>5, <3>2, WhenNamesPublishers
      <4>2. report[l] # "Skipped"
        BY <2>3, <4>1 DEF BuildInv, WhenInv
      <4> QED
        BY <3>1, <3>2, <4>2, PublisherReports
    <3> QED
      BY <3>1, <3>2
  <2> QED
    BY <2>2, <2>4, <2>5
<1> HIDE DEF X
<1>4. Below(DeployGraph, Task(i).name) \subseteq X
  BY <1>2, <1>3, BelowLeast
<1>5. Task(j).name \in X
  BY <1>4
<1>6. Fine(j)
  BY <1>5 DEF X
<1> QED
  BY <1>6

LEMMA ImageOf == BuildInv => DeploysOnlyBuilt
<1> SUFFICES ASSUME BuildInv, NEW i \in Tasks, DeployStep(Task(i)), Started(i)
             PROVE  \E j \in Tasks :
                      /\ Task(j).source = "DockerBuildTestPublish" /\ Task(j).dockerfile = Task(i).dockerfile
                      /\ Task(j).name \in Below(DependsGraph, Task(i).name)
                      /\ status[j] = "succeeded"
                      /\ Task(j).name \in Below(DeployGraph, Task(i).name) => report[j] = "Done"
                      /\ \/ report[j] = "Skipped"
                         \/ [dir |-> Task(i).dir, dockerfile |-> Task(j).dockerfile] \in images
                         \/ \E k \in Tasks \ {j} :
                              Task(k).source = "DockerBuildTestPublish" /\ Task(k).dir = Task(j).dir
  BY DEF DeploysOnlyBuilt, Started
<1> DEFINE n == Task(i).name
<1>1. Accepted /\ built.pc = "built" /\ IsBuilt
  BY StartedIsAccepted, SomeTaskIsBuilt DEF BuildInv, BuildTypeInv
<1>2. /\ i - Triggers \in 1 .. Steps /\ StepOf(i).name = n
      /\ Task(i).dockerfile = Searched(StepOf(i)).path /\ Searched(StepOf(i)).pc = "path"
      /\ Task(i).dir = GetDockerfileDir(Task(i).dockerfile)
  BY <1>1, TaskIs DEF DeployStep
<1>3. n \in DOMAIN ByName
  BY <1>1, <1>2, AcceptedNames, OneStepOfAName
<1>4. Right(ByName, Below(StepGraph, n), Searched(StepOf(i)))
  BY <1>1, <1>2, <1>3, FlowIsMapped DEF IsBuilt, Searched
<1>5. PICK p \in Below(StepGraph, n) : Publishes(ByName, p) /\ ByName[p].dockerfile = Task(i).dockerfile
  BY <1>2, <1>4 DEF Right, Only
<1>6. PICK j \in Tasks : /\ j - Triggers \in 1 .. Steps /\ StepOf(j) = ByName[p]
                         /\ Task(j).name = p /\ Task(j).source = ByName[p].source
  BY <1>1, <1>5, StepHasTask DEF Publishes
<1>7. /\ Publisher(Task(j)) /\ Task(j).dockerfile = Task(i).dockerfile /\ Task(j).dir = Task(i).dir
  <2>1. Publisher(Task(j))
    BY <1>5, <1>6 DEF Publisher, Publishes
  <2>2. Task(j).dockerfile = StepOf(j).dockerfile /\ Task(j).dir = GetDockerfileDir(Task(j).dockerfile)
    BY <1>1, <2>1, TaskIs DEF Publisher
  <2> QED
    BY <1>2, <1>5, <1>6, <2>1, <2>2
<1>8. Task(j).name \in Below(DependsGraph, n)
  BY <1>1, <1>3, <1>5, <1>6, StepsBelowTasks
<1>9. status[j] = "succeeded"
  BY <1>8, BelowSucceeded
<1>10. Task(j).name \in Below(DeployGraph, n) => report[j] = "Done"
  BY <1>7, BelowDone
<1>11. \/ report[j] = "Skipped"
       \/ Image(j) \in images
       \/ \E k \in Tasks \ {j} : Publisher(Task(k)) /\ Task(k).dir = Task(j).dir
  BY <1>7, <1>9, PublisherReports DEF BuildInv, ImageInv
<1>12. Image(j) = [dir |-> Task(i).dir, dockerfile |-> Task(j).dockerfile]
  BY <1>7 DEF Image
<1> QED
  BY <1>7, <1>8, <1>9, <1>10, <1>11, <1>12 DEF Publisher

\* A deployment that runs has its image: the publishing step that the search found has
\* succeeded, was not skipped if only deployments are between the two, and what is under
\* the image's name was built from its dockerfile, whatever order the tasks of the
\* workflow run, fail and are skipped in (sensor_trigger_tasks.go:379, 434, 533-557).
THEOREM DeploymentsAreBuilt == BuildSpec => []DeploysOnlyBuilt
<1>1. BuildInit => BuildInv
  BY BuildInvInit
<1>2. BuildInv /\ [BuildNext]_BuildVars => BuildInv'
  BY BuildInvStep
<1>3. BuildInv => DeploysOnlyBuilt
  BY ImageOf
<1> QED
  BY <1>1, <1>2, <1>3, PTL DEF BuildSpec

-------------------------------------------------------------------------------
(***************************************************************************)
(* What a green check says.  The invariant: once a task is skipped or      *)
(* omitted, a task has failed, or one that it leads to reported Skipped;   *)
(* and a check has passed only once every task has ended without failing.  *)
(***************************************************************************)
Excused(i) ==
  \E j \in Tasks : Task(j).name \in Below(DependsGraph, Task(i).name) /\ report[j] = "Skipped"

LeftOutInv ==
  \A i \in Tasks : status[i] \in {"skipped", "omitted"} => SomeFailed \/ Excused(i)

GreenInv ==
  check = "success" =>
    phase = "done" /\ \A i \in Tasks : status[i] \in {"succeeded", "skipped", "omitted"}

UnreportedInv == \A i \in Tasks : status[i] # "succeeded" => report[i] = "none"

OutcomeInv == BuildInv /\ UnreportedInv /\ LeftOutInv /\ GreenInv

LEMMA BelowDirect ==
  ASSUME Accepted, NEW i \in Tasks, NEW j \in TasksOf(Task(i).depends)
  PROVE  Task(j).name \in Below(DependsGraph, Task(i).name)
<1> DEFINE e == <<Task(i).name, Task(j).name>>
<1>1. Task(j).name \in Task(i).depends
  BY DEF TasksOf
<1>2. e \in DependsGraph.edge /\ Task(j).name \in DependsGraph.node
  BY <1>1, DependsEdges
<1>3. e[1] = Task(i).name /\ e[2] = Task(j).name
  OBVIOUS
<1> HIDE DEF e
<1>4. e[2] \in Below(DependsGraph, Task(i).name)
  BY <1>2, <1>3, BelowClosed
<1> QED
  BY <1>3, <1>4

LEMMA BelowTransitive ==
  ASSUME NEW graph, \A e \in graph.edge : e[2] \in graph.node, NEW n, NEW m \in Below(graph, n)
  PROVE  Below(graph, m) \subseteq Below(graph, n)
<1>1. Below(graph, n) \in SUBSET graph.node
  BY DEF Below
<1>2. ASSUME NEW e \in graph.edge, e[1] \in Below(graph, n) \cup {m} PROVE e[2] \in Below(graph, n)
  BY <1>2, BelowClosed
<1> QED
  BY <1>1, <1>2, BelowLeast

LEMMA ExcusePasses ==
  ASSUME Accepted, NEW i \in Tasks, NEW j \in TasksOf(Task(i).depends), Excused(j)
  PROVE  Excused(i)
<1>1. Task(j).name \in Below(DependsGraph, Task(i).name)
  BY BelowDirect
<1>2. \A e \in DependsGraph.edge : e[2] \in DependsGraph.node
  BY DEF Accepted, DependsGraph
<1>3. Below(DependsGraph, Task(j).name) \subseteq Below(DependsGraph, Task(i).name)
  BY <1>1, <1>2, BelowTransitive
<1> QED
  BY <1>3 DEF Excused

LEMMA OutcomeInit == BuildInit => OutcomeInv
<1> SUFFICES ASSUME BuildInit PROVE OutcomeInv
  OBVIOUS
<1>1. /\ \A i \in Tasks : status[i] = "pending" /\ report[i] = "none"
      /\ check = "none"
  BY DEF BuildInit
<1> QED
  BY <1>1, BuildInvInit DEF OutcomeInv, UnreportedInv, LeftOutInv, GreenInv

\* A failure stays, and so does a report of Skipped.
LEMMA OutcomesStay ==
  ASSUME OutcomeInv, [BuildNext]_BuildVars
  PROVE  /\ SomeFailed => SomeFailed'
         /\ \A i \in Tasks : Excused(i) => Excused(i)'
         /\ UnreportedInv'
<1>0. /\ BuildTypeInv
      /\ status \in [Tasks -> Statuses] /\ report \in [Tasks -> {"none", "Done", "Skipped"}]
  BY DEF OutcomeInv, BuildInv, BuildTypeInv, BuildTypeOK
<1>1. /\ Tasks' = Tasks /\ \A i : Task(i)' = Task(i)
      /\ DependsGraph' = DependsGraph
  <2>1. built' = built
    BY <1>0, BuiltStays
  <2> QED
    BY <2>1 DEF Tasks, Task, DependsGraph, TaskNames
<1>2. ASSUME NEW i \in Tasks
      PROVE  /\ status[i] = "failed" => status'[i] = "failed"
             /\ status[i] = "succeeded" => report'[i] = report[i]
             /\ status'[i] # "succeeded" => report'[i] = report[i] /\ status[i] # "succeeded"
  <2>1. CASE StartWorkflow \/ ExitHook \/ UNCHANGED BuildVars \/ \E k \in Tasks : StartCheck(k)
    BY <2>1 DEF StartWorkflow, ExitHook, StartCheck, BuildVars
  <2>2. CASE EndTasks
    BY <2>2 DEF EndTasks
  <2>3. ASSUME NEW k \in Tasks, StartTask(k) \/ SkipTask(k) \/ OmitTask(k) \/ FailTask(k)
        PROVE  /\ report' = report /\ status[k] \in {"pending", "running"}
               /\ \E s \in {"running", "skipped", "omitted", "failed"} : status' = [status EXCEPT ![k] = s]
    BY <2>3 DEF StartTask, SkipTask, OmitTask, FailTask
  <2>4. ASSUME NEW k \in Tasks, FinishTask(k)
        PROVE  /\ status[k] = "running" /\ status' = [status EXCEPT ![k] = "succeeded"]
               /\ \E x \in Reports(k) : report' = [report EXCEPT ![k] = x]
    BY <2>4 DEF FinishTask
  <2> QED
    BY <1>0, <2>1, <2>2, <2>3, <2>4 DEF BuildNext
<1>3. UnreportedInv'
  BY <1>1, <1>2 DEF OutcomeInv, UnreportedInv
<1>4. SomeFailed => SomeFailed'
  BY <1>1, <1>2 DEF SomeFailed
<1>5. ASSUME NEW i \in Tasks, Excused(i) PROVE Excused(i)'
  <2>1. PICK j \in Tasks : Task(j).name \in Below(DependsGraph, Task(i).name) /\ report[j] = "Skipped"
    BY <1>5 DEF Excused
  <2>2. status[j] = "succeeded"
    BY <2>1 DEF OutcomeInv, UnreportedInv
  <2>3. report'[j] = "Skipped"
    BY <1>2, <2>1, <2>2
  <2>4. Below(DependsGraph, Task(i).name)' = Below(DependsGraph, Task(i).name)
    BY <1>1
  <2> QED
    BY <1>1, <2>1, <2>3, <2>4 DEF Excused
<1> QED
  BY <1>3, <1>4, <1>5

LEMMA OutcomeStep == OutcomeInv /\ [BuildNext]_BuildVars => OutcomeInv'
<1> SUFFICES ASSUME OutcomeInv, [BuildNext]_BuildVars PROVE OutcomeInv'
  OBVIOUS
<1>0. /\ BuildInv /\ BuildInv' /\ BuildTypeInv
      /\ status \in [Tasks -> Statuses] /\ report \in [Tasks -> {"none", "Done", "Skipped"}]
  BY BuildInvStep DEF OutcomeInv, BuildInv, BuildTypeInv, BuildTypeOK
<1>1. Tasks' = Tasks
  BY <1>0, BuiltStays
<1>2. LeftOutInv'
  <2> SUFFICES ASSUME NEW i \in Tasks, status'[i] \in {"skipped", "omitted"}
               PROVE  SomeFailed' \/ Excused(i)'
    BY <1>1 DEF LeftOutInv
  <2>1. CASE status[i] \in {"skipped", "omitted"}
    BY <2>1, OutcomesStay DEF OutcomeInv, LeftOutInv
  <2>2. CASE status[i] \notin {"skipped", "omitted"}
    <3>1. SkipTask(i) \/ OmitTask(i)
      <4>1. CASE StartWorkflow \/ ExitHook \/ UNCHANGED BuildVars \/ \E k \in Tasks : StartCheck(k)
        BY <2>2, <4>1 DEF StartWorkflow, ExitHook, StartCheck, BuildVars
      <4>2. CASE EndTasks
        BY <2>2, <4>2 DEF EndTasks
      <4>3. ASSUME NEW k \in Tasks, StartTask(k) \/ FinishTask(k) \/ FailTask(k) PROVE FALSE
        <5>1. \E x \in {"running", "succeeded", "failed"} : status' = [status EXCEPT ![k] = x]
          BY <4>3 DEF StartTask, FinishTask, FailTask
        <5> QED
          BY <1>0, <2>2, <5>1
      <4>4. ASSUME NEW k \in Tasks, SkipTask(k) \/ OmitTask(k) PROVE k = i
        <5>1. \E x \in Statuses : status' = [status EXCEPT ![k] = x]
          BY <4>4 DEF SkipTask, OmitTask, Statuses
        <5> QED
          BY <1>0, <2>2, <5>1
      <4> QED
        BY <4>1, <4>2, <4>3, <4>4 DEF BuildNext
    <3>2. Accepted
      BY <3>1, <1>0 DEF SkipTask, OmitTask, BuildInv, RunInv
    <3>3. CASE SkipTask(i)
      <4>1. PICK j \in TasksOf(Task(i).when) : report[j] = "Skipped"
        BY <3>3 DEF SkipTask, WhenMet
      <4>2. j \in TasksOf(Task(i).depends) /\ j \in Tasks
        BY <1>0, <3>2, WhenAreDepends, SomeTaskIsBuilt DEF BuildTypeInv, TasksOf
      <4>3. Excused(i)
        BY <3>2, <4>1, <4>2, BelowDirect DEF Excused
      <4> QED
        BY <4>3, OutcomesStay
    <3>4. CASE OmitTask(i)
      <4>1. CASE SomeFailed
        BY <4>1, OutcomesStay
      <4>2. CASE ~SomeFailed
        <5>1. PICK j \in TasksOf(Task(i).depends) : Ended(j) /\ status[j] # "succeeded"
          BY <3>4, <4>2 DEF OmitTask
        <5>2. j \in Tasks /\ status[j] \in {"skipped", "omitted"}
          BY <1>0, <4>2, <5>1 DEF Ended, Statuses, SomeFailed, TasksOf
        <5>3. Excused(j)
          BY <4>2, <5>2 DEF OutcomeInv, LeftOutInv
        <5> QED
          BY <3>2, <5>1, <5>3, ExcusePasses, OutcomesStay
      <4> QED
        BY <4>1, <4>2
    <3> QED
      BY <3>1, <3>3, <3>4
  <2> QED
    BY <2>1, <2>2
<1>3. GreenInv'
  <2>1. CASE UNCHANGED BuildVars
    BY <1>1, <2>1 DEF OutcomeInv, GreenInv, BuildVars
  <2>2. CASE ExitHook
    <3>1. phase' = "done" /\ status' = status /\ check' \in {check, Conclusion} /\ phase # "done"
      BY <2>2 DEF ExitHook
    <3> QED
      BY <1>1, <3>1 DEF OutcomeInv, GreenInv, Conclusion
  <2>3. ASSUME BuildNext, ~ExitHook PROVE GreenInv'
    <3>1. phase # "done" /\ check' \in {check, "started"}
      BY <2>3 DEF BuildNext, StartWorkflow, EndTasks, StartTask, SkipTask, OmitTask, StartCheck,
                  FinishTask, FailTask
    <3> QED
      BY <3>1 DEF OutcomeInv, GreenInv
  <2> QED
    BY <2>1, <2>2, <2>3
<1> QED
  BY <1>0, <1>2, <1>3, OutcomesStay DEF OutcomeInv

\* A green check means that every deployment of the Flow was done, unless a step that it
\* waits for, directly or not, reported that it had nothing to do: for every Flow, and
\* whatever order its tasks run, fail, are skipped and are cut off in
\* (sensor_trigger_tasks.go:444-472, 531-574).
THEOREM GreenMeansDeployed == BuildSpec => []SuccessMeansDeployed
<1>1. OutcomeInv => SuccessMeansDeployed
  BY DEF OutcomeInv, LeftOutInv, GreenInv, SuccessMeansDeployed, SomeFailed, Excused
<1> QED
  BY <1>1, OutcomeInit, OutcomeStep, PTL DEF BuildSpec

-------------------------------------------------------------------------------
(***************************************************************************)
(* The parameters of a workflow that Argo accepts: it has one trigger,     *)
(* since two have tasks of one name.                                       *)
(***************************************************************************)
LEMMA FlattenOne ==
  ASSUME NEW x
  PROVE  FlattenSeq([i \in 1 .. 1 |-> x]) = x
<1> DEFINE s == [i \in 1 .. 1 |-> x]
           Recursion(f) == f = [i \in 1 .. Len(s) |-> IF i = 1 THEN s[i] ELSE f[i - 1] \o s[i]]
<1>1. s \in Seq({x}) /\ Len(s) = 1 /\ s[1] = x
  BY IsASeq, LenProperties
<1> HIDE DEF s
<1>2. Recursion([i \in 1 .. 1 |-> x])
  BY <1>1
<1>3. Recursion(CHOOSE f : Recursion(f))
  BY Zenon, <1>2
<1>4. PICK f : f = (CHOOSE e : Recursion(e))
  OBVIOUS
<1>5. Recursion(f)
  BY Zenon, <1>3, <1>4
<1>6. f[1] = x
  BY <1>1, <1>5
<1>7. Len(s) # 0
  BY <1>1
<1>8. FlattenSeq(s) = (CHOOSE e : Recursion(e))[Len(s)]
  BY Zenon, <1>7 DEF FlattenSeq
<1> QED
  BY <1>1, <1>4, <1>6, <1>8 DEF s

LEMMA OneTrigger ==
  ASSUME IsBuilt, built.pc = "built"
  PROVE  /\ DOMAIN Pre.triggers = 1 .. Triggers /\ Triggers >= 1
         /\ \A i \in 1 .. Triggers : /\ Pre.triggers[i].source \in TriggerSources
                                     /\ Pre.triggers[i].source = Pre.triggers[1].source
         /\ Accepted => Triggers = 1
<1>1. flow \in FlowSpecs /\ Pre.ok /\ ~TriggersMixed(Pre.triggers)
  BY FlowAssumption, Outcome DEF IsBuilt, Pre
<1>2. flow.triggers \in Seq(TriggerSpecs) /\ DOMAIN flow.triggers = 1 .. Len(flow.triggers)
      /\ Len(flow.triggers) \in Nat
  BY <1>1, LenProperties DEF FlowSpecs
<1>3. Pre.triggers = [i \in 1 .. Len(flow.triggers) |-> TriggerDefaults(flow.triggers[i])]
  BY <1>2 DEF Pre, PreProcessFlow, Each
<1>4. Pre.triggers \in Seq({TriggerDefaults(flow.triggers[i]) : i \in 1 .. Len(flow.triggers)})
  BY <1>2, <1>3, IsASeq
<1>5. DOMAIN Pre.triggers = 1 .. Triggers /\ Triggers = Len(flow.triggers) /\ Triggers \in Nat
  BY <1>2, <1>3, <1>4, LenProperties DEF Triggers
<1>6. Triggers >= 1
  <2>1. Pre.triggers # <<>>
    BY <1>1 DEF Pre, PreProcessFlow, Validate
  <2> QED
    BY <1>4, <1>5, <2>1, EmptySeq DEF Triggers
<1>7. ASSUME NEW i \in 1 .. Triggers PROVE Pre.triggers[i].source \in TriggerSources
  <2>1. ParseTrigger(flow.triggers[i])
    BY <1>1, <1>2, <1>5 DEF Pre, PreProcessFlow
  <2>2. TriggerDefaults(flow.triggers[i]).source = flow.triggers[i].source
    BY DEF TriggerDefaults
  <2> QED
    BY <1>3, <1>5, <2>1, <2>2 DEF ParseTrigger
<1>8. ASSUME Accepted PROVE Triggers = 1
  <2>1. ASSUME 2 \in 1 .. Triggers PROVE FALSE
    <3>1. 1 \in Tasks /\ 2 \in Tasks
      BY <2>1, BuiltTasks
    <3>2. Task(1).name = GitHubCheckStart /\ Task(2).name = GitHubCheckStart
      BY <1>6, <2>1, BuiltTasks DEF InitialTask
    <3> QED
      BY <1>8, <3>1, <3>2 DEF Accepted
  <2>2. Triggers \in Nat /\ Triggers >= 1
    BY <1>5, <1>6
  <2>3. Triggers >= 2 => 2 \in 1 .. Triggers
    BY <2>2
  <2> QED
    BY <2>1, <2>2, <2>3
<1>9. \A i \in 1 .. Triggers : Pre.triggers[i].source = Pre.triggers[1].source
  BY <1>1, <1>5 DEF TriggersMixed
<1> QED
  BY <1>5, <1>6, <1>7, <1>8, <1>9

ParametersOf(pr) == GlobalWorkflowParameters \o (IF pr THEN PrWorkflowParameters ELSE <<>>)
KeysOf(pr) == IF pr THEN PullRequestKeys ELSE PushKeys
FromPr == Pre.triggers[1].source = "GitHubPullRequest"

LEMMA ParametersAre ==
  ASSUME IsBuilt, built.pc = "built", Triggers = 1
  PROVE  /\ built.parameters = ParametersOf(FromPr) /\ built.type = IF FromPr THEN "PR" ELSE "commit"
         /\ built.keys = [k \in DOMAIN KeysOf(FromPr) |-> [dest |-> k, key |-> KeysOf(FromPr)[k]]]
<1>1. DOMAIN Pre.triggers = 1 .. 1
  BY OneTrigger
<1>2. /\ built.parameters = WorkflowParameters(Pre.triggers) /\ built.keys = TriggerParameters(Pre.triggers)
      /\ built.type = TriggerType(Pre.triggers)
  BY Outcome DEF IsBuilt, Pre
<1>3. built.parameters = ParametersOf(FromPr)
  <2> DEFINE ps(i) == IF Pre.triggers[i].source = "GitHubPullRequest" THEN PrWorkflowParameters ELSE <<>>
  <2>1. WorkflowParameters(Pre.triggers) = GlobalWorkflowParameters \o FlattenSeq([i \in DOMAIN Pre.triggers |-> ps(i)])
    BY DEF WorkflowParameters
  <2>2. [i \in DOMAIN Pre.triggers |-> ps(i)] = [i \in 1 .. 1 |-> ps(1)]
    <3>1. \A i \in 1 .. 1 : i = 1
      OBVIOUS
    <3> HIDE DEF ps
    <3> QED
      BY <1>1, <3>1
  <2>3. ps(1) = IF FromPr THEN PrWorkflowParameters ELSE <<>>
    BY DEF FromPr
  <2> HIDE DEF ps
  <2> QED
    BY <1>2, <2>1, <2>2, <2>3, FlattenOne DEF ParametersOf
<1>4. built.keys = [k \in DOMAIN KeysOf(FromPr) |-> [dest |-> k, key |-> KeysOf(FromPr)[k]]]
  <2> DEFINE keys(i) == IF Pre.triggers[i].source = "GitHubPullRequest" THEN PullRequestKeys ELSE PushKeys
             ks(i) == [k \in DOMAIN keys(i) |-> [dest |-> k, key |-> keys(i)[k]]]
  <2>1. TriggerParameters(Pre.triggers) = FlattenSeq([i \in DOMAIN Pre.triggers |-> ks(i)])
    BY DEF TriggerParameters
  <2>2. keys(1) = KeysOf(FromPr)
    BY DEF FromPr, KeysOf
  <2>3. ks(1) = [k \in DOMAIN KeysOf(FromPr) |-> [dest |-> k, key |-> KeysOf(FromPr)[k]]]
    <3> HIDE DEF keys
    <3> QED
      BY <2>2
  <2> HIDE DEF ks
  <2>4. [i \in DOMAIN Pre.triggers |-> ks(i)] = [i \in 1 .. 1 |-> ks(1)]
    <3>1. \A i \in 1 .. 1 : i = 1
      OBVIOUS
    <3> QED
      BY <1>1, <3>1
  <2> QED
    BY <1>2, <2>1, <2>3, <2>4, FlattenOne
<1>5. built.type = IF FromPr THEN "PR" ELSE "commit"
  BY <1>2 DEF TriggerType, FromPr
<1> QED
  BY <1>3, <1>4, <1>5

GlobalAt(p) ==
  /\ p[1] = "repo" /\ p[2] = "revision" /\ p[3] = "repo-short" /\ p[4] = "revision-ref"
  /\ p[5] = "revision-title" /\ p[6] = "revision-author"

LEMMA ParameterList ==
  /\ DOMAIN ParametersOf(TRUE) = 1 .. 9 /\ DOMAIN ParametersOf(FALSE) = 1 .. 6
  /\ GlobalAt(ParametersOf(TRUE)) /\ GlobalAt(ParametersOf(FALSE))
  /\ ParametersOf(TRUE)[7] = "base-revision" /\ ParametersOf(TRUE)[8] = "base-revision-ref"
  /\ ParametersOf(TRUE)[9] = "revision-number"
<1> DEFINE g == GlobalWorkflowParameters
           p == PrWorkflowParameters
           S == {"repo", "revision", "repo-short", "revision-ref", "revision-title", "revision-author",
                 "base-revision", "base-revision-ref", "revision-number"}
<1>1. g \in Seq(S) /\ Len(g) = 6 /\ GlobalAt(g) /\ DOMAIN g = 1 .. 6
  BY DEF GlobalWorkflowParameters, GlobalAt
<1>2. p \in Seq(S) /\ Len(p) = 3 /\ p[1] = "base-revision" /\ p[2] = "base-revision-ref" /\ p[3] = "revision-number"
  BY DEF PrWorkflowParameters
<1>3. ParametersOf(FALSE) = g
  BY DEF ParametersOf, GlobalWorkflowParameters
<1>4. ParametersOf(TRUE) = g \o p
  BY DEF ParametersOf
<1> HIDE DEF g, p, S
<1>5. /\ g \o p \in Seq(S) /\ Len(g \o p) = Len(g) + Len(p)
      /\ \A i \in 1 .. Len(g) + Len(p) : (g \o p)[i] = IF i <= Len(g) THEN g[i] ELSE p[i - Len(g)]
  <2>1. g \in Seq(S) /\ p \in Seq(S)
    BY <1>1, <1>2
  <2> QED
    BY <2>1, ConcatProperties
<1>6. DOMAIN (g \o p) = 1 .. 9
  BY <1>1, <1>2, <1>5, LenProperties
<1>7. \A i \in 1 .. 9 : (g \o p)[i] = IF i <= 6 THEN g[i] ELSE p[i - 6]
  BY <1>1, <1>2, <1>5
<1>8. PICK q : q = g \o p
  OBVIOUS
<1>9. \A i \in 1 .. 9 : q[i] = IF i <= 6 THEN g[i] ELSE p[i - 6]
  BY <1>7, <1>8
<1>10. GlobalAt(q)
  <2>1. q[1] = g[1] /\ q[2] = g[2] /\ q[3] = g[3] /\ q[4] = g[4] /\ q[5] = g[5] /\ q[6] = g[6]
    BY <1>9
  <2> QED
    BY <1>1, <2>1 DEF GlobalAt
<1>11. q[7] = "base-revision" /\ q[8] = "base-revision-ref" /\ q[9] = "revision-number"
  BY <1>2, <1>9
<1> QED
  BY <1>1, <1>3, <1>4, <1>6, <1>8, <1>10, <1>11

LEMMA KeysFit ==
  ASSUME NEW pr \in BOOLEAN, NEW i \in DOMAIN ParametersOf(pr)
  PROVE  /\ i \in DOMAIN KeysOf(pr)
         /\ KeysOf(pr)[i] = KeyFor(IF pr THEN "PR" ELSE "commit", ParametersOf(pr)[i])
<1> DEFINE Fit(type, keys, ps, k) == keys[k] = KeyFor(type, ps[k])
<1>1. CASE pr = TRUE
  <2> DEFINE ps == ParametersOf(TRUE)
             keys == KeysOf(TRUE)
  <2>1. DOMAIN keys = 1 .. 9 /\ keys = PullRequestKeys
    BY DEF KeysOf, PullRequestKeys
  <2>2. i \in 1 .. 9 /\ GlobalAt(ps)
        /\ ps[7] = "base-revision" /\ ps[8] = "base-revision-ref" /\ ps[9] = "revision-number"
    BY <1>1, ParameterList
  <2> HIDE DEF ps, keys
  <2>3. Fit("PR", keys, ps, 1) /\ Fit("PR", keys, ps, 2) /\ Fit("PR", keys, ps, 3)
    BY <2>1, <2>2 DEF PullRequestKeys, GlobalAt, KeyFor
  <2>4. Fit("PR", keys, ps, 4) /\ Fit("PR", keys, ps, 5) /\ Fit("PR", keys, ps, 6)
    BY <2>1, <2>2 DEF PullRequestKeys, GlobalAt, KeyFor
  <2>5. Fit("PR", keys, ps, 7) /\ Fit("PR", keys, ps, 8) /\ Fit("PR", keys, ps, 9)
    BY <2>1, <2>2 DEF PullRequestKeys, KeyFor
  <2>6. i = 1 \/ i = 2 \/ i = 3 \/ i = 4 \/ i = 5 \/ i = 6 \/ i = 7 \/ i = 8 \/ i = 9
    BY <2>2
  <2> HIDE DEF Fit
  <2>7. Fit("PR", keys, ps, i)
    BY <2>3, <2>4, <2>5, <2>6
  <2> QED
    BY <1>1, <2>1, <2>2, <2>7 DEF Fit, keys, ps
<1>2. CASE pr = FALSE
  <2> DEFINE ps == ParametersOf(FALSE)
             keys == KeysOf(FALSE)
  <2>1. DOMAIN keys = 1 .. 6 /\ keys = PushKeys
    BY DEF KeysOf, PushKeys
  <2>2. i \in 1 .. 6 /\ GlobalAt(ps)
    BY <1>2, ParameterList
  <2> HIDE DEF ps, keys
  <2>3. Fit("commit", keys, ps, 1) /\ Fit("commit", keys, ps, 2) /\ Fit("commit", keys, ps, 3)
    BY <2>1, <2>2 DEF PushKeys, GlobalAt, KeyFor
  <2>4. Fit("commit", keys, ps, 4) /\ Fit("commit", keys, ps, 5) /\ Fit("commit", keys, ps, 6)
    BY <2>1, <2>2 DEF PushKeys, GlobalAt, KeyFor
  <2>5. i = 1 \/ i = 2 \/ i = 3 \/ i = 4 \/ i = 5 \/ i = 6
    BY <2>2
  <2> HIDE DEF Fit
  <2>6. Fit("commit", keys, ps, i)
    BY <2>3, <2>4, <2>5
  <2> QED
    BY <1>2, <2>1, <2>2, <2>6 DEF Fit, keys, ps
<1> QED
  BY <1>1, <1>2

LEMMA Filled == BuildInv => ParametersFilled
<1> SUFFICES ASSUME BuildInv, phase = "running", NEW i \in DOMAIN built.parameters
             PROVE  {k.key : k \in {m \in ToSet(built.keys) : m.dest = i}} =
                      {KeyFor(built.type, built.parameters[i])}
  BY DEF ParametersFilled
<1>1. IsBuilt /\ built.pc = "built" /\ Accepted
  BY DEF BuildInv, BuildTypeInv, BuildTypeOK, RunInv
<1>2. Triggers = 1
  BY <1>1, OneTrigger
<1> DEFINE keys == KeysOf(FromPr)
<1>3. /\ built.parameters = ParametersOf(FromPr) /\ built.type = IF FromPr THEN "PR" ELSE "commit"
      /\ built.keys = [k \in DOMAIN keys |-> [dest |-> k, key |-> keys[k]]]
  BY <1>1, <1>2, ParametersAre
<1>4. i \in DOMAIN keys /\ keys[i] = KeyFor(built.type, built.parameters[i])
  <2>1. FromPr \in BOOLEAN
    BY DEF FromPr
  <2> QED
    BY <1>3, <2>1, KeysFit
<1> HIDE DEF keys
<1>5. ToSet(built.keys) = {[dest |-> k, key |-> keys[k]] : k \in DOMAIN keys}
  BY <1>3 DEF ToSet
<1>6. {m \in ToSet(built.keys) : m.dest = i} = {[dest |-> i, key |-> keys[i]]}
  BY <1>4, <1>5
<1>7. {k.key : k \in {[dest |-> i, key |-> keys[i]]}} = {keys[i]}
  OBVIOUS
<1> QED
  BY <1>4, <1>6, <1>7

\* Every parameter of a workflow that runs gets the one part of the event that it is
\* named for, for every Flow: a second trigger, whose parameters would be added to the
\* list, makes a task of the same name, and Argo refuses the workflow.
THEOREM ParametersAreFilled == BuildSpec => []ParametersFilled
<1>1. BuildInit => BuildInv
  BY BuildInvInit
<1>2. BuildInv /\ [BuildNext]_BuildVars => BuildInv'
  BY BuildInvStep
<1>3. BuildInv => ParametersFilled
  BY Filled
<1> QED
  BY <1>1, <1>2, <1>3, PTL DEF BuildSpec

-------------------------------------------------------------------------------
(***************************************************************************)
(* The applications of the deployments.                                    *)
(***************************************************************************)
LEMMA ArgoTaskIs ==
  ASSUME IsBuilt, built.pc = "built", NEW l \in 1 .. Steps, Pre.steps[l].source = "ArgoCD"
  PROVE  LET s == Pre.steps[l]
             t == Task(Triggers + l)
         IN /\ t.source = "ArgoCD" /\ t.app = StepApp(s)
            /\ AppOf(t) = [name |-> StepApp(s), namespace |-> GetRepoOrgName(s.url)[1],
                           url |-> s.url, path |-> s.path]
<1> DEFINE s == Pre.steps[l]
           t == Task(Triggers + l)
<1>1. t = StepTask(s, ByName)
  BY BuiltTasks
<1>2. StepTask(s, ByName) = ArgoCDTask(s, ByName)
  BY Zenon DEF StepTask
<1>3. /\ t.source = s.source /\ t.app = StepApp(s) /\ t.org = GetRepoOrgName(s.url)[1]
      /\ t.lock = <<s.url, s.path>>
  <2>1. ASSUME NEW r, NEW template, NEW args, NEW app, NEW lock
        PROVE  LET d == DeployTask(r, ByName, template, args, app, lock)
               IN /\ d.source = r.source /\ d.app = app /\ d.lock = lock
                  /\ d.org = GetRepoOrgName(r.url)[1]
    BY DEF DeployTask, InitialTask
  <2> QED
    BY <1>1, <1>2, <2>1 DEF ArgoCDTask
<1> HIDE DEF s, t
<1> QED
  BY <1>3 DEF AppOf, s, t

LEMMA AppsMatch == BuildInv => AppsMatchTasks
<1> SUFFICES ASSUME BuildInv, phase = "applied", NEW i \in Tasks, Task(i).source = "ArgoCD"
             PROVE  \/ AppOf(Task(i)) \in built.apps
                    \/ \E j \in 1 .. i - 1 :
                         /\ Task(j).source = "ArgoCD" /\ Task(j).app = Task(i).app
                         /\ AppOf(Task(j)) # AppOf(Task(i))
  BY DEF AppsMatchTasks
<1> DEFINE steps == Pre.steps
           deploys == Deploys(steps)
           repo(l) == GetRepoOrgName(steps[l].url)
           first(l) == \A k \in deploys : k < l => StepApp(steps[k]) # StepApp(steps[l])
           App(l) == [name |-> StepApp(steps[l]), namespace |-> repo(l)[1],
                      url |-> steps[l].url, path |-> steps[l].path]
<1>1. IsBuilt /\ built.pc = "built"
  BY DEF BuildInv, BuildTypeInv, BuildTypeOK
<1>2. built.apps = {App(l) : l \in {k \in deploys : first(k)}}
  <2>1. built.apps = BuildArgoApps(steps).applications /\ BuildArgoApps(steps).ok
    BY <1>1, Outcome DEF IsBuilt, Pre
  <2>2. CASE \E l \in deploys : repo(l) = <<>>
    <3>1. BuildArgoApps(steps) = [ok |-> FALSE, projects |-> {}, applications |-> {}]
      BY Zenon, <2>2 DEF BuildArgoApps
    <3> QED
      BY <2>1, <3>1
  <2>3. CASE ~ \E l \in deploys : repo(l) = <<>>
    <3>1. BuildArgoApps(steps) = [ok |-> TRUE, projects |-> {repo(l)[1] : l \in deploys},
                                  applications |-> {App(l) : l \in {k \in deploys : first(k)}}]
      BY Zenon, <2>3 DEF BuildArgoApps
    <3>2. BuildArgoApps(steps).applications = {App(l) : l \in {k \in deploys : first(k)}}
      <4> DEFINE ps == {repo(l)[1] : l \in deploys}
                 as == {App(l) : l \in {k \in deploys : first(k)}}
      <4>1. BuildArgoApps(steps) = [ok |-> TRUE, projects |-> ps, applications |-> as]
        BY <3>1
      <4> HIDE DEF ps, as
      <4>2. BuildArgoApps(steps).applications = as
        BY <4>1
      <4> QED
        BY <4>2 DEF as
    <3> QED
      BY <2>1, <3>2
  <2> QED
    BY <2>2, <2>3
<1>3. /\ Triggers \in Nat /\ Steps \in Nat /\ Tasks = 1 .. Triggers + Steps
      /\ DOMAIN steps = 1 .. Steps
  BY <1>1, BuiltTasks, FlowIsMapped, LenProperties DEF IsBuilt, Steps
<1>4. i - Triggers \in 1 .. Steps /\ steps[i - Triggers].source = "ArgoCD"
  BY <1>1, TaskIs DEF StepOf
<1>5. PICK l : l = i - Triggers
  OBVIOUS
<1>6. l \in deploys /\ l \in 1 .. Steps /\ i = Triggers + l
  BY <1>3, <1>4, <1>5 DEF Deploys
<1>7. \A k \in deploys : /\ k \in 1 .. Steps /\ AppOf(Task(Triggers + k)) = App(k)
                         /\ Task(Triggers + k).source = "ArgoCD" /\ Task(Triggers + k).app = StepApp(steps[k])
  BY <1>1, <1>3, ArgoTaskIs DEF Deploys
<1> DEFINE T == {k \in deploys : StepApp(steps[k]) = StepApp(steps[l])}
<1>8. PICK m \in T : \A k \in T : m <= k
  <2>1. T \in SUBSET Nat /\ T # {}
    BY <1>3, <1>6 DEF Deploys
  <2> HIDE DEF T
  <2> QED
    BY <2>1, Least
<1>9. m \in deploys /\ first(m) /\ StepApp(steps[m]) = StepApp(steps[l]) /\ m <= l
  <2>1. m \in deploys /\ StepApp(steps[m]) = StepApp(steps[l]) /\ m <= l
    BY <1>6, <1>8
  <2>2. ASSUME NEW k \in deploys, k < m, StepApp(steps[k]) = StepApp(steps[m]) PROVE FALSE
    <3>1. m <= k /\ m \in 1 .. Steps /\ k \in 1 .. Steps
      BY <1>7, <1>8, <2>1, <2>2
    <3> QED
      BY <2>2, <3>1
  <2> QED
    BY <2>1, <2>2
<1>10. App(m) \in built.apps
  BY <1>2, <1>9
<1>11. /\ AppOf(Task(Triggers + m)) = App(m) /\ Task(Triggers + m).source = "ArgoCD"
       /\ Task(Triggers + m).app = Task(i).app /\ m \in 1 .. Steps
  BY <1>6, <1>7, <1>9
<1> HIDE DEF App, T, deploys, first
<1>12. CASE AppOf(Task(Triggers + m)) = AppOf(Task(i))
  BY <1>10, <1>11, <1>12
<1>13. CASE AppOf(Task(Triggers + m)) # AppOf(Task(i))
  <2>1. m # l
    BY <1>6, <1>13
  <2>2. Triggers + m \in 1 .. i - 1
    BY <1>3, <1>6, <1>9, <1>11, <2>1
  <2> QED
    BY <1>11, <1>13, <2>2
<1> QED
  BY <1>12, <1>13

\* The application that a deployment syncs is in the list that the reconciler applies,
\* or an earlier deployment has taken its name for another repository or path, for every
\* Flow: deduplication by name loses no application for any other reason.
THEOREM AppsAreApplied == BuildSpec => []AppsMatchTasks
<1>1. BuildInit => BuildInv
  BY BuildInvInit
<1>2. BuildInv /\ [BuildNext]_BuildVars => BuildInv'
  BY BuildInvStep
<1>3. BuildInv => AppsMatchTasks
  BY AppsMatch
<1> QED
  BY <1>1, <1>2, <1>3, PTL DEF BuildSpec

-------------------------------------------------------------------------------
(***************************************************************************)
(* Which Flows Argo accepts: each conjunct of Accepted is one of           *)
(* WellFormed, or holds of whatever is built.                              *)
(***************************************************************************)
LEMMA SameBelow ==
  ASSUME NEW G, NEW H, G.edge = H.edge, G.node \subseteq H.node, \A e \in G.edge : e[2] \in G.node, NEW n
  PROVE  Below(G, n) = Below(H, n)
<1>1. Below(G, n) \subseteq Below(H, n)
  <2> DEFINE X == Below(H, n) \cap G.node
  <2>1. ASSUME NEW e \in G.edge, e[1] \in X \cup {n} PROVE e[2] \in X
    <3>1. e \in H.edge /\ e[1] \in Below(H, n) \cup {n} /\ e[2] \in H.node /\ e[2] \in G.node
      BY <2>1
    <3> QED
      BY <3>1, BelowClosed
  <2>2. X \in SUBSET G.node
    OBVIOUS
  <2>3. X \subseteq Below(H, n)
    OBVIOUS
  <2> HIDE DEF X
  <2>4. Below(G, n) \subseteq X
    BY <2>1, <2>2, BelowLeast
  <2> QED
    BY <2>3, <2>4
<1>2. Below(H, n) \subseteq Below(G, n)
  <2> DEFINE X == Below(G, n)
  <2>1. ASSUME NEW e \in H.edge, e[1] \in X \cup {n} PROVE e[2] \in X
    <3>1. e \in G.edge /\ e[2] \in G.node
      OBVIOUS
    <3> QED
      BY <2>1, <3>1, BelowClosed
  <2>2. X \in SUBSET H.node
    BY DEF Below
  <2> HIDE DEF X
  <2>3. Below(H, n) \subseteq X
    BY <2>1, <2>2, BelowLeast
  <2> QED
    BY <2>3 DEF X
<1> QED
  BY <1>1, <1>2

LEMMA SameAcyclic ==
  ASSUME NEW G, NEW H, G.edge = H.edge, G.node \subseteq H.node, \A e \in G.edge : e[2] \in G.node
  PROVE  Acyclic(G) <=> Acyclic(H)
<1>1. \A n : Below(G, n) = Below(H, n)
  BY SameBelow
<1>2. \A n : Below(G, n) \subseteq G.node
  BY DEF Below
<1> QED
  BY <1>1, <1>2 DEF Acyclic

LEMMA NamesApart ==
  ASSUME IsBuilt, built.pc = "built", Triggers = 1
  PROVE  /\ TaskNames = StepNames(Pre.steps) \cup {GitHubCheckStart}
         /\ NamesDiffer <=> /\ Cardinality(StepNames(Pre.steps)) = Len(Pre.steps)
                            /\ GitHubCheckStart \notin StepNames(Pre.steps)
<1> DEFINE steps == Pre.steps
           names == StepNames(steps)
           f == [l \in 1 .. Steps |-> steps[l].name]
<1>1. /\ Steps \in Nat /\ Tasks = 1 .. 1 + Steps /\ DOMAIN steps = 1 .. Steps
  BY BuiltTasks, FlowIsMapped, LenProperties DEF IsBuilt, Steps
<1>2. Task(1).name = GitHubCheckStart
  BY BuiltTasks DEF InitialTask
<1>3. \A l \in 1 .. Steps : Task(1 + l).name = steps[l].name
  BY BuiltTasks, StepTaskIs
<1>4. ASSUME NEW i \in Tasks PROVE i = 1 \/ (i - 1 \in 1 .. Steps /\ i = 1 + (i - 1))
  BY <1>1
<1>5. names = {steps[l].name : l \in 1 .. Steps}
  BY <1>1 DEF StepNames
<1>6. Cardinality(names) = Steps <=> \A k, l \in 1 .. Steps : steps[k].name = steps[l].name => k = l
  <2>1. f \in Surjection(1 .. Steps, names)
    BY <1>5 DEF Surjection
  <2>2. IsFiniteSet(1 .. Steps) /\ Cardinality(1 .. Steps) = Steps
    BY <1>1, FS_Interval
  <2>3. Cardinality(names) = Steps <=> f \in Injection(1 .. Steps, names)
    <3> HIDE DEF f, names
    <3> QED
      BY <2>1, <2>2, FS_Surjection
  <2>4. f \in Injection(1 .. Steps, names) <=> \A k, l \in 1 .. Steps : f[k] = f[l] => k = l
    <3>1. f \in [1 .. Steps -> names]
      BY <1>5
    <3> HIDE DEF f, names
    <3> QED
      BY <3>1 DEF Injection, IsInjective
  <2>5. \A k \in 1 .. Steps : f[k] = steps[k].name
    OBVIOUS
  <2> HIDE DEF f, names
  <2> QED
    BY <2>3, <2>4, <2>5
<1> HIDE DEF f, names, steps
<1>7. TaskNames = names \cup {GitHubCheckStart}
  <2>1. ASSUME NEW x \in TaskNames PROVE x \in names \cup {GitHubCheckStart}
    <3>1. PICK i \in Tasks : x = Task(i).name
      BY <2>1 DEF TaskNames
    <3>2. CASE i = 1
      BY <1>2, <3>1, <3>2
    <3>3. CASE i - 1 \in 1 .. Steps /\ i = 1 + (i - 1)
      BY <1>3, <1>5, <3>1, <3>3
    <3> QED
      BY <1>4, <3>2, <3>3
  <2>2. ASSUME NEW l \in 1 .. Steps PROVE steps[l].name \in TaskNames
    <3>1. 1 + l \in Tasks
      BY <1>1
    <3> QED
      BY <1>3, <3>1 DEF TaskNames
  <2>3. GitHubCheckStart \in TaskNames
    <3>1. 1 \in Tasks
      BY <1>1
    <3> QED
      BY <1>2, <3>1 DEF TaskNames
  <2> QED
    BY <1>5, <2>1, <2>2, <2>3
<1>8. ASSUME NamesDiffer
      PROVE  /\ \A k, l \in 1 .. Steps : steps[k].name = steps[l].name => k = l
             /\ GitHubCheckStart \notin names
  <2>1. ASSUME NEW k \in 1 .. Steps PROVE 1 + k \in Tasks /\ 1 + k # 1
    BY <1>1
  <2>2. 1 \in Tasks
    BY <1>1
  <2>3. ASSUME NEW k \in 1 .. Steps, NEW l \in 1 .. Steps, steps[k].name = steps[l].name PROVE k = l
    <3>1. 1 + k = 1 + l
      BY <1>3, <1>8, <2>1, <2>3 DEF NamesDiffer
    <3> QED
      BY <3>1
  <2>4. ASSUME NEW k \in 1 .. Steps PROVE steps[k].name # GitHubCheckStart
    BY <1>2, <1>3, <1>8, <2>1, <2>2 DEF NamesDiffer
  <2> QED
    BY <1>5, <2>3, <2>4
<1>9. ASSUME \A k, l \in 1 .. Steps : steps[k].name = steps[l].name => k = l, GitHubCheckStart \notin names
      PROVE  NamesDiffer
  <2> SUFFICES ASSUME NEW i \in Tasks, NEW j \in Tasks, Task(i).name = Task(j).name PROVE i = j
    BY DEF NamesDiffer
  <2>1. \A k \in 1 .. Steps : Task(1 + k).name # GitHubCheckStart
    BY <1>3, <1>5, <1>9
  <2>2. CASE i = 1 /\ j = 1
    BY <2>2
  <2>3. CASE i - 1 \in 1 .. Steps /\ j - 1 \in 1 .. Steps /\ i = 1 + (i - 1) /\ j = 1 + (j - 1)
    <3>1. Task(i).name = steps[i - 1].name /\ Task(j).name = steps[j - 1].name
      BY <1>3, <2>3
    <3>2. i - 1 = j - 1
      BY <1>9, <2>3, <3>1
    <3> QED
      BY <2>3, <3>2
  <2>4. CASE i = 1 /\ j - 1 \in 1 .. Steps /\ j = 1 + (j - 1)
    BY <1>2, <2>1, <2>4
  <2>5. CASE j = 1 /\ i - 1 \in 1 .. Steps /\ i = 1 + (i - 1)
    BY <1>2, <2>1, <2>5
  <2> QED
    BY <1>4, <2>2, <2>3, <2>4, <2>5
<1> QED
  BY <1>6, <1>7, <1>8, <1>9 DEF names, steps, Steps

LEMMA ParametersDiffer ==
  ASSUME NEW pr \in BOOLEAN, NEW i \in DOMAIN ParametersOf(pr), NEW j \in DOMAIN ParametersOf(pr),
         ParametersOf(pr)[i] = ParametersOf(pr)[j]
  PROVE  i = j
<1> DEFINE Differ(p, n) == \A k, l \in 1 .. n : p[k] = p[l] => k = l
<1>1. ASSUME NEW p, GlobalAt(p) PROVE Differ(p, 6)
  <2>1. \A k \in 1 .. 6 : k = 1 \/ k = 2 \/ k = 3 \/ k = 4 \/ k = 5 \/ k = 6
    OBVIOUS
  <2> QED
    BY <1>1, <2>1 DEF GlobalAt
<1>2. ASSUME NEW p, GlobalAt(p), p[7] = "base-revision", p[8] = "base-revision-ref", p[9] = "revision-number"
      PROVE  Differ(p, 9)
  <2> SUFFICES ASSUME NEW k \in 1 .. 9, NEW l \in 1 .. 9, p[k] = p[l] PROVE k = l
    OBVIOUS
  <2>1. CASE k \in 1 .. 6 /\ l \in 1 .. 6
    BY <1>1, <1>2, <2>1
  <2>2. CASE k \in 7 .. 9 /\ l \in 7 .. 9
    <3>1. (k = 7 \/ k = 8 \/ k = 9) /\ (l = 7 \/ l = 8 \/ l = 9)
      BY <2>2
    <3> QED
      BY <1>2, <3>1
  <2>3. ASSUME NEW m \in 1 .. 6, NEW n \in 7 .. 9 PROVE p[m] # p[n]
    <3>1. n = 7 \/ n = 8 \/ n = 9
      OBVIOUS
    <3>2. m = 1 \/ m = 2 \/ m = 3 \/ m = 4 \/ m = 5 \/ m = 6
      OBVIOUS
    <3> QED
      BY <1>2, <3>1, <3>2 DEF GlobalAt
  <2>4. (k \in 1 .. 6 \/ k \in 7 .. 9) /\ (l \in 1 .. 6 \/ l \in 7 .. 9)
    OBVIOUS
  <2> QED
    BY <2>1, <2>2, <2>3, <2>4
<1>3. CASE pr = TRUE
  <2>1. Differ(ParametersOf(TRUE), 9)
    BY <1>2, ParameterList
  <2> QED
    BY <1>3, <2>1, ParameterList
<1>4. CASE pr = FALSE
  <2>1. Differ(ParametersOf(FALSE), 6)
    BY <1>1, ParameterList
  <2> QED
    BY <1>4, <2>1, ParameterList
<1> QED
  BY <1>3, <1>4

LEMMA ParametersHave ==
  ASSUME NEW pr \in BOOLEAN
  PROVE  /\ {"repo", "revision", "repo-short", "revision-ref"} \subseteq ToSet(ParametersOf(pr))
         /\ pr => {"base-revision", "base-revision-ref"} \subseteq ToSet(ParametersOf(pr))
         /\ ~pr => "base-revision" \notin ToSet(ParametersOf(pr))
<1> DEFINE p == ParametersOf(pr)
<1>1. GlobalAt(p) /\ DOMAIN p = IF pr THEN 1 .. 9 ELSE 1 .. 6
  BY ParameterList
<1>2. pr => p[7] = "base-revision" /\ p[8] = "base-revision-ref"
  BY ParameterList
<1> HIDE DEF p
<1>3. \A x : x \in ToSet(p) <=> \E i \in DOMAIN p : x = p[i]
  BY DEF ToSet
<1>4. 1 \in DOMAIN p /\ 2 \in DOMAIN p /\ 3 \in DOMAIN p /\ 4 \in DOMAIN p
  BY <1>1
<1>5. {p[1], p[2], p[3], p[4]} \subseteq ToSet(p)
  BY <1>3, <1>4
<1>6. ASSUME pr PROVE {p[7], p[8]} \subseteq ToSet(p)
  <2>1. 7 \in DOMAIN p /\ 8 \in DOMAIN p
    BY <1>1, <1>6
  <2> QED
    BY <1>3, <2>1
<1>7. ASSUME ~pr, "base-revision" \in ToSet(p) PROVE FALSE
  <2>1. PICK i \in 1 .. 6 : p[i] = "base-revision"
    BY <1>1, <1>3, <1>7
  <2>2. i = 1 \/ i = 2 \/ i = 3 \/ i = 4 \/ i = 5 \/ i = 6
    OBVIOUS
  <2> QED
    BY <1>1, <2>1, <2>2 DEF GlobalAt
<1> QED
  BY <1>1, <1>2, <1>5, <1>6, <1>7 DEF GlobalAt, p

\* What a task has and what its template asks for.
Declares(s, t) ==
  s.source \in {"DockerBuildTest", "DockerBuildTestPublish"} => s.mounts \subseteq t.template.volumes

LEMMA TemplateOfStep ==
  ASSUME NEW s, NEW base, base.volumes = base.mounts,
         base = [needs |-> base.needs, has |-> base.has, uses |-> base.uses, outputs |-> base.outputs,
                 mounts |-> base.mounts, volumes |-> base.volumes]
  PROVE  LET t == StepTemplate(s, base)
         IN /\ t.needs = base.needs /\ t.uses = base.uses /\ t.has = base.has /\ t.outputs = base.outputs
            /\ t.mounts \subseteq t.volumes <=> s.mounts \subseteq t.volumes
<1> DEFINE t == StepTemplate(s, base)
<1>1. /\ t.needs = base.needs /\ t.uses = base.uses /\ t.has = base.has /\ t.outputs = base.outputs
      /\ t.mounts = base.mounts \cup s.mounts /\ t.volumes = base.volumes \cup s.volumes
  BY DEF StepTemplate
<1> HIDE DEF t
<1> QED
  BY <1>1 DEF t

LEMMA TaskFits ==
  ASSUME NEW s, NEW B, s.source \in StepSources
  PROVE  LET t == StepTask(s, B)
         IN /\ TemplateFits(t) <=> Declares(s, t)
            /\ s.source = "DockerBuildTest" =>
                 t.refs = {"repo", "revision", "revision-ref", "base-revision", "base-revision-ref"}
            /\ s.source # "DockerBuildTest" => t.refs \subseteq {"repo", "revision", "revision-ref", "repo-short"}
            /\ s.source \in {"DockerBuildTest", "DockerBuildTestPublish", "ArgoCD"} =>
                 DeployStepStatus \in t.template.outputs
<1> DEFINE t == StepTask(s, B)
<1>1. CASE s.source = "DockerBuildTest"
  <2> DEFINE base == DockerBuildTestTemplate
  <2>1. t = DockerBuildTestTask(s, B)
    BY Zenon, <1>1 DEF StepTask
  <2>2. /\ t.template = StepTemplate(s, base)
        /\ t.args = {"repo", "revision", "dockerfile-path", "docker-context-dir", "revision-ref",
                     "base-revision", "base-revision-ref", "num-artifacts"}
        /\ t.refs = {"repo", "revision", "revision-ref", "base-revision", "base-revision-ref"}
    BY <2>1 DEF DockerBuildTestTask, InitialTask
  <2>3. /\ base = [needs |-> base.needs, has |-> base.has, uses |-> base.uses, outputs |-> base.outputs,
                   mounts |-> base.mounts, volumes |-> base.volumes]
        /\ base.volumes = base.mounts /\ DeployStepStatus \in base.outputs
        /\ base.needs = {"repo", "revision", "dockerfile-path", "docker-context-dir", "revision-ref",
                         "base-revision", "base-revision-ref", "num-artifacts"}
        /\ base.has = {} /\ base.uses = base.needs
    BY DEF DockerBuildTestTemplate, Template
  <2> HIDE DEF t, base
  <2>4. /\ t.template.needs = base.needs /\ t.template.uses = base.uses /\ t.template.has = base.has
        /\ t.template.outputs = base.outputs
        /\ t.template.mounts \subseteq t.template.volumes <=> s.mounts \subseteq t.template.volumes
    BY <2>2, <2>3, TemplateOfStep
  <2> QED
    BY <1>1, <2>2, <2>3, <2>4 DEF TemplateFits, Declares, t
<1>2. CASE s.source = "DockerBuildTestPublish"
  <2> DEFINE base == DockerBuildTestPublishTemplate
  <2>1. t = DockerBuildTestPublishTask(s, B)
    BY Zenon, <1>2 DEF StepTask
  <2>2. /\ t.template = StepTemplate(s, base)
        /\ t.args = {"repo", "revision", "revision-ref", "dockerfile-path", "docker-context-dir",
                     "image-repo", "dockerfile-dir", "num-artifacts"}
        /\ t.refs = {"repo", "revision", "revision-ref", "repo-short"}
    BY <2>1 DEF DockerBuildTestPublishTask, InitialTask
  <2>3. /\ base = [needs |-> base.needs, has |-> base.has, uses |-> base.uses, outputs |-> base.outputs,
                   mounts |-> base.mounts, volumes |-> base.volumes]
        /\ base.volumes = base.mounts /\ DeployStepStatus \in base.outputs
        /\ base.needs = {"repo", "revision", "revision-ref", "dockerfile-path", "docker-context-dir",
                         "image-repo", "dockerfile-dir", "num-artifacts"}
        /\ base.uses = base.needs \cup base.has
    BY DEF DockerBuildTestPublishTemplate, Template
  <2> HIDE DEF t, base
  <2>4. /\ t.template.needs = base.needs /\ t.template.uses = base.uses /\ t.template.has = base.has
        /\ t.template.outputs = base.outputs
        /\ t.template.mounts \subseteq t.template.volumes <=> s.mounts \subseteq t.template.volumes
    BY <2>2, <2>3, TemplateOfStep
  <2> QED
    BY <1>2, <2>2, <2>3, <2>4 DEF TemplateFits, Declares, t
<1>3. ASSUME NEW template, NEW args, NEW app, NEW lock, t = DeployTask(s, B, template, args, app, lock)
      PROVE  t.template = template /\ t.args = args /\ t.refs = {"repo-short", "revision"}
  BY <1>3 DEF DeployTask, InitialTask
<1>4. CASE s.source = "ArgoCD"
  <2>1. t = ArgoCDTask(s, B)
    BY Zenon, <1>4 DEF StepTask
  <2>2. /\ t.template = ArgoCDTemplate /\ t.refs = {"repo-short", "revision"}
        /\ t.args = {"deploy-repo", "deploy-revision", "resource-path", "image-repo", "build-revision",
                     "dockerfile-dir", "argocd-app-namespace", "argocd-app-name"}
    BY <1>3, <2>1 DEF ArgoCDTask
  <2> HIDE DEF t
  <2>3. TemplateFits(t)
    BY <2>2 DEF TemplateFits, ArgoCDTemplate, Template
  <2>4. DeployStepStatus \in t.template.outputs
    BY <2>2 DEF ArgoCDTemplate, Template
  <2> QED
    BY <1>4, <2>2, <2>3, <2>4 DEF Declares, t
<1>5. CASE s.source = "GitHubCreatePR"
  <2>1. t = GitHubCreatePrTask(s, B)
    BY Zenon, <1>5 DEF StepTask
  <2>2. /\ t.template = GitHubCreatePrTemplate /\ t.refs = {"repo-short", "revision"}
        /\ t.args = {"target-repo", "target-repo-short-name", "target-branch", "file-paths", "image-repo",
                     "build-revision", "dockerfile-dir"}
    BY <1>3, <2>1 DEF GitHubCreatePrTask
  <2> HIDE DEF t
  <2>3. TemplateFits(t)
    BY <2>2 DEF TemplateFits, GitHubCreatePrTemplate, Template
  <2> QED
    BY <1>5, <2>2, <2>3 DEF Declares, t
<1> QED
  BY <1>1, <1>2, <1>4, <1>5 DEF StepSources

LEMMA InitialFits ==
  ASSUME NEW trigger
  PROVE  /\ TemplateFits(InitialTask(trigger)) /\ InitialTask(trigger).refs = {"repo-short", "revision"}
         /\ InitialTask(trigger).when = {} /\ InitialTask(trigger).depends = {}
BY DEF TemplateFits, InitialTask, GitHubCheckStartTemplate, Template

LEMMA FinalFits == FinalTask.template.needs \subseteq FinalTask.args
BY DEF FinalTask, GitHubCheckCompleteTemplate, Template

LEMMA WhenFits ==
  ASSUME IsBuilt, built.pc = "built", NamesDiffer, NEW i \in Tasks, NEW j \in TasksOf(Task(i).when)
  PROVE  DeployStepStatus \in Task(j).template.outputs
<1>1. j \in Tasks /\ Task(j).name \in Task(i).when
  BY DEF TasksOf
<1>2. Task(i).when = GetWhen(StepOf(i).name, ByName)
  BY <1>1, TaskIs
<1>3. /\ Task(j).name \in DOMAIN ByName
      /\ ByName[Task(j).name].source \in {"DockerBuildTestPublish", "DockerBuildTest", "ArgoCD"}
  BY <1>1, <1>2 DEF GetWhen
<1>4. PICK k \in Tasks : /\ k - Triggers \in 1 .. Steps /\ StepOf(k) = ByName[Task(j).name]
                         /\ Task(k).name = Task(j).name
  BY <1>3, StepHasTask
<1>5. k = j
  BY <1>1, <1>4 DEF NamesDiffer
<1>6. Task(j) = StepTask(StepOf(j), ByName) /\ StepOf(j).source \in StepSources
  <2>1. PICK l : l = j - Triggers
    OBVIOUS
  <2>2. j = Triggers + l /\ l \in 1 .. Steps
    BY <1>1, <1>4, <1>5, <2>1, BuiltTasks
  <2>3. Task(Triggers + l) = StepTask(Pre.steps[l], ByName) /\ Pre.steps[l].source \in StepSources
    BY <2>2, BuiltTasks
  <2> QED
    BY <2>1, <2>2, <2>3 DEF StepOf
<1> QED
  BY <1>3, <1>4, <1>5, <1>6, TaskFits

LEMMA GraphsAgree ==
  ASSUME IsBuilt, built.pc = "built", Triggers = 1, NamesDiffer
  PROVE  /\ (\A i \in Tasks : Task(i).depends \subseteq TaskNames) <=>
              StepGraph.node \subseteq StepNames(Pre.steps) \cup {GitHubCheckStart}
         /\ StepGraph.node \subseteq TaskNames => (Acyclic(StepGraph) <=> Acyclic(DependsGraph))
<1> DEFINE names == StepNames(Pre.steps)
<1>1. DOMAIN ByName = names /\ TaskNames = names \cup {GitHubCheckStart}
  BY FlowIsMapped, NamesApart DEF IsBuilt
<1>2. /\ StepGraph.node = names \cup UNION {ToSet(ByName[n].dependsOn) : n \in names}
      /\ StepGraph.edge = UNION {{<<n, d>> : d \in ToSet(ByName[n].dependsOn)} : n \in names}
      /\ DependsGraph.node = TaskNames
      /\ DependsGraph.edge = UNION {{<<Task(i).name, d>> : d \in Task(i).depends} : i \in Tasks}
  BY DEF StepGraph, DependsGraph
<1>3. ASSUME NEW n \in names
      PROVE  \E j \in Tasks : Task(j).name = n /\ Task(j).depends = ToSet(ByName[n].dependsOn)
  <2>1. PICK j \in Tasks : j - Triggers \in 1 .. Steps /\ StepOf(j) = ByName[n] /\ Task(j).name = n
    BY <1>1, StepHasTask
  <2>2. ~(j \in 1 .. Triggers)
    BY <2>1, BuiltTasks
  <2> QED
    BY <2>1, <2>2, TaskIs
<1>4. ASSUME NEW i \in Tasks, Task(i).depends # {}
      PROVE  Task(i).name \in names /\ Task(i).depends = ToSet(ByName[Task(i).name].dependsOn)
  <2>1. i - Triggers \in 1 .. Steps /\ Task(i).depends = ToSet(StepOf(i).dependsOn)
    BY <1>4, TaskIs
  <2> QED
    BY <1>1, <2>1, OneStepOfAName
<1> HIDE DEF names
<1>5. (\A i \in Tasks : Task(i).depends \subseteq TaskNames) <=> StepGraph.node \subseteq TaskNames
  <2>1. ASSUME \A i \in Tasks : Task(i).depends \subseteq TaskNames
        PROVE  StepGraph.node \subseteq TaskNames
    <3>1. \A n \in names : ToSet(ByName[n].dependsOn) \subseteq TaskNames
      BY <1>3, <2>1
    <3> QED
      BY <1>1, <1>2, <3>1
  <2>2. ASSUME StepGraph.node \subseteq TaskNames, NEW i \in Tasks
        PROVE  Task(i).depends \subseteq TaskNames
    <3>1. \A n \in names : ToSet(ByName[n].dependsOn) \subseteq StepGraph.node
      BY <1>2
    <3>2. CASE Task(i).depends # {}
      BY <1>4, <2>2, <3>1, <3>2
    <3> QED
      BY <3>2
  <2> QED
    BY <2>1, <2>2
<1>6. StepGraph.edge = DependsGraph.edge
  <2>1. ASSUME NEW e \in StepGraph.edge PROVE e \in DependsGraph.edge
    <3>1. PICK n \in names : \E d \in ToSet(ByName[n].dependsOn) : e = <<n, d>>
      BY <1>2
    <3>2. PICK j \in Tasks : Task(j).name = n /\ Task(j).depends = ToSet(ByName[n].dependsOn)
      BY <1>3
    <3>3. \E d \in Task(j).depends : e = <<Task(j).name, d>>
      BY <3>1, <3>2
    <3> QED
      BY <1>2, <3>3
  <2>2. ASSUME NEW e \in DependsGraph.edge PROVE e \in StepGraph.edge
    <3>1. PICK i \in Tasks : \E d \in Task(i).depends : e = <<Task(i).name, d>>
      BY <1>2
    <3>2. Task(i).name \in names /\ Task(i).depends = ToSet(ByName[Task(i).name].dependsOn)
      BY <1>4, <3>1
    <3>3. \E d \in ToSet(ByName[Task(i).name].dependsOn) : e = <<Task(i).name, d>>
      BY <3>1, <3>2
    <3> QED
      BY <1>2, <3>2, <3>3
  <2> QED
    BY <2>1, <2>2
<1>7. \A e \in StepGraph.edge : e[2] \in StepGraph.node
  <2> SUFFICES ASSUME NEW e \in StepGraph.edge PROVE e[2] \in StepGraph.node
    OBVIOUS
  <2>1. PICK n \in names : \E d \in ToSet(ByName[n].dependsOn) : e = <<n, d>>
    BY <1>2
  <2>2. e[2] \in ToSet(ByName[n].dependsOn)
    BY <2>1
  <2> QED
    BY <1>2, <2>2
<1>8. ASSUME StepGraph.node \subseteq TaskNames PROVE Acyclic(StepGraph) <=> Acyclic(DependsGraph)
  BY <1>2, <1>6, <1>7, <1>8, SameAcyclic
<1> QED
  BY <1>1, <1>5, <1>8 DEF names

StepsFit ==
  \A i \in DOMAIN Pre.steps :
    /\ Pre.steps[i].source \in {"DockerBuildTest", "DockerBuildTestPublish"} =>
         Pre.steps[i].mounts \subseteq Task(i + 1).template.volumes
    /\ Pre.steps[i].source = "DockerBuildTest" => Pre.triggers[1].source = "GitHubPullRequest"

LEMMA StepsFitTemplates ==
  ASSUME IsBuilt, built.pc = "built", Triggers = 1
  PROVE  (\A i \in Tasks : TemplateFits(Task(i)) /\ Task(i).refs \subseteq ToSet(built.parameters)) <=> StepsFit
<1> DEFINE steps == Pre.steps
           has == ToSet(built.parameters)
           Fits(i) == TemplateFits(Task(i)) /\ Task(i).refs \subseteq has
           StepFits(l) ==
             /\ steps[l].source \in {"DockerBuildTest", "DockerBuildTestPublish"} =>
                  steps[l].mounts \subseteq Task(l + 1).template.volumes
             /\ steps[l].source = "DockerBuildTest" => FromPr
<1>1. /\ Steps \in Nat /\ Tasks = 1 .. 1 + Steps /\ DOMAIN steps = 1 .. Steps
  BY BuiltTasks, FlowIsMapped, LenProperties DEF IsBuilt, Steps
<1>2. /\ {"repo", "revision", "repo-short", "revision-ref"} \subseteq has
      /\ FromPr => {"base-revision", "base-revision-ref"} \subseteq has
      /\ ~FromPr => "base-revision" \notin has
  <2>1. FromPr \in BOOLEAN /\ built.parameters = ParametersOf(FromPr)
    BY ParametersAre DEF FromPr
  <2> QED
    BY <2>1, ParametersHave
<1> HIDE DEF has
<1>3. Fits(1)
  <2>1. Task(1) = InitialTask(Pre.triggers[1])
    BY BuiltTasks
  <2> QED
    BY <1>2, <2>1, InitialFits
<1>4. ASSUME NEW l \in 1 .. Steps PROVE Fits(l + 1) <=> StepFits(l)
  <2> DEFINE s == steps[l]
             t == Task(l + 1)
  <2>1. t = StepTask(s, ByName) /\ s.source \in StepSources
    <3>1. Task(1 + l) = StepTask(Pre.steps[l], ByName) /\ Pre.steps[l].source \in StepSources
      BY BuiltTasks
    <3>2. 1 + l = l + 1
      OBVIOUS
    <3> QED
      BY <3>1, <3>2
  <2>2. /\ TemplateFits(t) <=> Declares(s, t)
        /\ s.source = "DockerBuildTest" =>
             t.refs = {"repo", "revision", "revision-ref", "base-revision", "base-revision-ref"}
        /\ s.source # "DockerBuildTest" => t.refs \subseteq {"repo", "revision", "revision-ref", "repo-short"}
    BY <2>1, TaskFits
  <2> HIDE DEF s, t
  <2>3. t.refs \subseteq has <=> (s.source = "DockerBuildTest" => FromPr)
    BY <1>2, <2>2
  <2>4. Declares(s, t) <=> (s.source \in {"DockerBuildTest", "DockerBuildTestPublish"} =>
                              s.mounts \subseteq t.template.volumes)
    BY DEF Declares
  <2> QED
    BY <2>2, <2>3, <2>4 DEF s, t
<1>5. StepsFit <=> \A l \in 1 .. Steps : StepFits(l)
  BY <1>1 DEF StepsFit, FromPr
<1> HIDE DEF Fits, StepFits
<1>6. (\A i \in Tasks : Fits(i)) <=> \A l \in 1 .. Steps : StepFits(l)
  <2>1. ASSUME \A i \in Tasks : Fits(i), NEW l \in 1 .. Steps PROVE StepFits(l)
    <3>1. l + 1 \in Tasks
      BY <1>1
    <3> QED
      BY <1>4, <2>1, <3>1
  <2>2. ASSUME \A l \in 1 .. Steps : StepFits(l), NEW i \in Tasks PROVE Fits(i)
    <3>1. CASE i = 1
      BY <1>3, <3>1
    <3>2. CASE i # 1
      <4>1. i - 1 \in 1 .. Steps /\ (i - 1) + 1 = i
        BY <1>1, <3>2
      <4>2. Fits((i - 1) + 1)
        BY <1>4, <2>2, <4>1
      <4> QED
        BY <4>1, <4>2
    <3> QED
      BY <3>1, <3>2
  <2> QED
    BY <2>1, <2>2
<1> QED
  BY <1>5, <1>6 DEF Fits, has

LEMMA AcceptsWellFormed ==
  ASSUME IsBuilt, built.pc = "built"
  PROVE  Accepted <=> WellFormed
<1> DEFINE names == StepNames(Pre.steps)
<1>1. WellFormed <=> /\ Triggers = 1
                     /\ Cardinality(names) = Len(Pre.steps) /\ GitHubCheckStart \notin names
                     /\ StepGraph.node \subseteq names \cup {GitHubCheckStart} /\ Acyclic(StepGraph)
                     /\ StepsFit
  BY DEF WellFormed, StepsFit, Triggers
<1> HIDE DEF names
<1>2. Accepted => Triggers = 1
  BY OneTrigger
<1>3. ASSUME Triggers = 1 PROVE Accepted <=> WellFormed
  <2>1. /\ TaskNames = names \cup {GitHubCheckStart}
        /\ NamesDiffer <=> /\ Cardinality(names) = Len(Pre.steps) /\ GitHubCheckStart \notin names
    BY <1>3, NamesApart DEF names
  <2>2. (\A i \in Tasks : TemplateFits(Task(i)) /\ Task(i).refs \subseteq ToSet(built.parameters)) <=> StepsFit
    BY <1>3, StepsFitTemplates
  <2>3. \A i, j \in DOMAIN built.parameters : built.parameters[i] = built.parameters[j] => i = j
    <3>1. FromPr \in BOOLEAN /\ built.parameters = ParametersOf(FromPr)
      BY <1>3, ParametersAre DEF FromPr
    <3> QED
      BY <3>1, ParametersDiffer
  <2>4. ASSUME NamesDiffer
        PROVE  /\ (\A i \in Tasks : Task(i).depends \subseteq TaskNames) <=> StepGraph.node \subseteq TaskNames
               /\ StepGraph.node \subseteq TaskNames => (Acyclic(StepGraph) <=> Acyclic(DependsGraph))
               /\ \A i \in Tasks : \A j \in TasksOf(Task(i).when) : DeployStepStatus \in Task(j).template.outputs
    BY <1>3, <2>1, <2>4, GraphsAgree, WhenFits DEF names
  <2>5. Accepted <=> /\ NamesDiffer
                     /\ \A i \in Tasks : TemplateFits(Task(i)) /\ Task(i).refs \subseteq ToSet(built.parameters)
                     /\ \A i \in Tasks : Task(i).depends \subseteq TaskNames
                     /\ \A i \in Tasks : \A j \in TasksOf(Task(i).when) : DeployStepStatus \in Task(j).template.outputs
                     /\ Acyclic(DependsGraph)
    BY <2>3, FinalFits DEF Accepted, NamesDiffer
  <2> QED
    BY <1>1, <1>3, <2>1, <2>2, <2>4, <2>5
<1> QED
  BY <1>1, <1>2, <1>3

\* Argo runs what the reconciler builds from a Flow if and only if the Flow is well
\* formed, for every Flow: no other mistake of a user is built into a Sensor, and what is
\* built has no mistake of its own, as a parameter that a task refers to and the workflow
\* lacks, an argument that its template misses, or an output that a when reads in vain.
THEOREM WellFormedFlowsRun == BuildSpec => RunsIffWellFormed
<1>1. BuildInit => BuildInv
  BY BuildInvInit
<1>2. BuildInv /\ [BuildNext]_BuildVars => BuildInv'
  BY BuildInvStep
<1>3. BuildInv /\ [BuildNext]_BuildVars => [phase = "applied" => (phase' = "running" <=> WellFormed)]_BuildVars
  <2> SUFFICES ASSUME BuildInv, BuildNext, phase = "applied" PROVE phase' = "running" <=> WellFormed
    OBVIOUS
  <2>1. IsBuilt /\ built.pc = "built"
    BY DEF BuildInv, BuildTypeInv, BuildTypeOK
  <2>2. StartWorkflow
    BY DEF BuildNext, EndTasks, ExitHook, StartTask, SkipTask, OmitTask, StartCheck, FinishTask, FailTask
  <2>3. phase' = "running" <=> Accepted
    BY <2>2 DEF StartWorkflow
  <2> QED
    BY <2>1, <2>3, AcceptsWellFormed
<1> QED
  BY <1>1, <1>2, <1>3, PTL DEF BuildSpec, RunsIffWellFormed
===============================================================================
