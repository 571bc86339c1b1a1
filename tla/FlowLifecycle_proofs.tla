------------------------- MODULE FlowLifecycle_proofs -------------------------
(***************************************************************************)
(* The websocket hub implements the life of a connection that              *)
(* ConnLifecycle states, and a broadcast leaves no stale subscriber of its *)
(* application behind.  Both for any connections, feeds, requests, faults  *)
(* and number of versions.  They rest on the invariants of                 *)
(* FlowWatcher_proofs and on two more: every version on its way to a       *)
(* client is one the cache has had, and the connections that a broadcast   *)
(* has passed are registered.                                              *)
(***************************************************************************)
EXTENDS FlowWatcher_proofs

SeenInv ==
  /\ \A f \in Feeds : \A i \in 1 .. Len(events[f]) : events[f][i].ver <= cache[f]
  /\ \A c \in Conns : writing[c].of \in Feeds => writing[c].ver \in 1 .. cache[writing[c].of]
  /\ hub.msg.of \in Feeds => hub.msg.ver \in 1 .. cache[hub.msg.of]
  /\ \A k \in Kinds : sender[k] = "send" => snapshot[k] \in 1 .. cache[k]

PruneInv ==
  hub.pc \in {"notify", "sendUpdate"} /\ hub.msg.of \in Apps =>
    subs[hub.msg.of] \subseteq conns \cup hub.todo

RefineInv == TypeOK /\ LifeInv /\ SeenInv /\ PruneInv

-------------------------------------------------------------------------------
(***************************************************************************)
(* The versions on their way.                                              *)
(***************************************************************************)
LEMMA SeenInit == Init => SeenInv
<1> SUFFICES ASSUME Init PROVE SeenInv
  OBVIOUS
<1>1. NoFeed \notin Feeds /\ NoMsg.of = NoFeed
  BY FeedAssumption DEF Feeds, NoMsg
<1> QED
  BY <1>1 DEF Init, SeenInv, IdleHub, Hub

LEMMA SeenSelect ==
  ASSUME TypeOK, SeenInv, NEW c, NEW m, Select(c, m), cache' = cache,
         m.of \in Feeds => m.ver \in 1 .. cache[m.of]
  PROVE  \A d \in Conns : writing'[d].of \in Feeds => writing'[d].ver \in 1 .. cache'[writing'[d].of]
BY DEF Select, SeenInv, TypeOK

LEMMA NothingSeen == NoMsg.of \notin Feeds
BY FeedAssumption DEF NoMsg, Feeds

LEMMA SeenHead ==
  ASSUME TypeOK, SeenInv, NEW f \in Feeds, events[f] # <<>>
  PROVE  /\ Head(events[f]).ver \in 1 .. cache[f]
         /\ \A i \in 1 .. Len(Tail(events[f])) : Tail(events[f])[i].ver <= cache[f]
<1>1. events[f] \in Seq(Event) /\ cache[f] \in Nat
  BY VersionAssumption DEF TypeOK, Versions
<1>2. Len(events[f]) \in Nat \ {0} /\ Head(events[f]) = events[f][1]
  <2>1. Len(events[f]) \in Nat /\ Len(events[f]) # 0
    BY <1>1, EmptySeq, LenProperties
  <2>2. Head(events[f]) = events[f][1]
    BY <1>1
  <2> QED
    BY <2>1, <2>2
<1>3. events[f][1] \in Event /\ events[f][1].ver <= cache[f]
  <2>1. 1 \in 1 .. Len(events[f])
    BY <1>2
  <2>2. events[f][1] \in Event
    BY <1>1, <2>1, ElementOfSeq
  <2>3. events[f][1].ver <= cache[f]
    BY <2>1 DEF SeenInv
  <2> QED
    BY <2>2, <2>3
<1>4. /\ Len(Tail(events[f])) = Len(events[f]) - 1
      /\ \A i \in 1 .. Len(Tail(events[f])) : Tail(events[f])[i] = events[f][i + 1]
  BY <1>1, HeadTailProperties
<1>5. ASSUME NEW i \in 1 .. Len(Tail(events[f])) PROVE Tail(events[f])[i].ver <= cache[f]
  <2>1. i + 1 \in 1 .. Len(events[f]) /\ Tail(events[f])[i] = events[f][i + 1]
    BY <1>2, <1>4
  <2> QED
    BY <2>1 DEF SeenInv
<1>6. Head(events[f]).ver \in 1 .. cache[f]
  BY <1>1, <1>2, <1>3 DEF Event, Versions
<1> QED
  BY <1>5, <1>6

LEMMA SeenStep == TypeOK /\ LifeInv /\ SeenInv /\ [Next]_vars => SeenInv'
<1> SUFFICES ASSUME TypeOK, LifeInv, SeenInv, [Next]_vars PROVE SeenInv'
  OBVIOUS
<1> USE NothingSeen, VersionAssumption
<1> USE DEF hubVars, sendVars, writeVars, readVars, jobVars, dataVars
<1>1. ASSUME UNCHANGED <<cache, events, writing, sender, snapshot>>,
             hub'.msg = hub.msg \/ hub'.msg = NoMsg
      PROVE  SeenInv'
  BY <1>1 DEF SeenInv
<1>2. ASSUME NEW c, NEW m, Select(c, m), UNCHANGED <<cache, events, sender, snapshot>>,
             hub'.msg = hub.msg \/ hub'.msg = NoMsg, m.of \in Feeds => m.ver \in 1 .. cache[m.of]
      PROVE  SeenInv'
  <2>1. \A d \in Conns : writing'[d].of \in Feeds => writing'[d].ver \in 1 .. cache'[writing'[d].of]
    BY <1>2, SeenSelect
  <2> QED
    BY <1>2, <2>1 DEF SeenInv
<1>3. ASSUME NEW c \in Conns, RegisterConn(c) PROVE SeenInv'
  BY <1>3 DEF RegisterConn, SeenInv, Hub
<1>4. ASSUME NEW k \in Kinds, ListInitial(k) PROVE SeenInv'
  <2>1. cache[k] \in 1 .. cache[k]
    BY DEF TypeOK, Versions, Feeds
  <2> QED
    BY <1>4, <2>1 DEF ListInitial, SeenInv, TypeOK
<1>5. ASSUME NEW k \in Kinds, InitialSend(k) PROVE SeenInv'
  <2> DEFINE m == IF sender[k] = "send" THEN [of |-> k, ver |-> snapshot[k]] ELSE NoMsg
  <2>1. m.of \in Feeds => m.ver \in 1 .. cache[m.of]
    BY DEF SeenInv
  <2>2. Select(hub.conn, m) /\ UNCHANGED <<cache, events, hub>>
    BY <1>5 DEF InitialSend
  <2> HIDE DEF m
  <2>3. \A d \in Conns : writing'[d].of \in Feeds => writing'[d].ver \in 1 .. cache'[writing'[d].of]
    BY <2>1, <2>2, SeenSelect
  <2>4. \A l \in Kinds : sender'[l] = "send" => l # k /\ sender[l] = "send" /\ snapshot'[l] = snapshot[l]
    BY <1>5 DEF InitialSend, TypeOK
  <2> QED
    BY <2>2, <2>3, <2>4 DEF SeenInv
<1>6. CASE FinishRegister
  BY <1>6 DEF FinishRegister, SeenInv, IdleHub, Hub
<1>7. ASSUME NEW f \in Feeds, CacheChange(f) PROVE SeenInv'
  <2>1. /\ cache[f] \in Nat /\ cache'[f] = cache[f] + 1
        /\ \A g \in Feeds : g # f => cache'[g] = cache[g]
        /\ \A g \in Feeds : g # f => events'[g] = events[g]
        /\ UNCHANGED <<writing, hub, sender, snapshot>>
    BY <1>7 DEF CacheChange, TypeOK, Versions
  <2>2. \A g \in Feeds : cache[g] \in Nat /\ cache'[g] \in Nat /\ cache[g] <= cache'[g]
    <3>1. \A g \in Feeds : cache[g] \in Nat
      BY DEF TypeOK, Versions
    <3> QED
      BY <2>1, <3>1
  <2>3. PICK w \in BOOLEAN : events' = [events EXCEPT ![f] = Append(@, [ver |-> cache'[f], wrapped |-> w])]
    BY <1>7 DEF CacheChange
  <2> DEFINE e == [ver |-> cache'[f], wrapped |-> w]
  <2>4. events[f] \in Seq(Event) /\ events'[f] = Append(events[f], e) /\ e.ver = cache'[f]
    BY <2>3 DEF TypeOK
  <2>5. ASSUME NEW i \in 1 .. Len(events'[f]) PROVE events'[f][i].ver <= cache'[f]
    <3>1. i = Len(events[f]) + 1 \/ i \in 1 .. Len(events[f])
      BY <2>4
    <3>2. CASE i = Len(events[f]) + 1
      <4>1. events'[f][i] = e
        BY <2>4, <3>2
      <4> QED
        BY <2>1, <2>4, <4>1
    <3>3. CASE i \in 1 .. Len(events[f])
      <4>1. events'[f][i] = events[f][i] /\ events[f][i].ver <= cache[f] /\ events[f][i].ver \in Nat
        BY <2>4, <3>3, ElementOfSeq, EventFields DEF SeenInv, Versions
      <4> QED
        BY <2>1, <4>1
    <3> QED
      BY <3>1, <3>2, <3>3
  <2>6. ASSUME NEW g \in Feeds, NEW i \in 1 .. Len(events'[g]) PROVE events'[g][i].ver <= cache'[g]
    BY <2>1, <2>5, <2>6 DEF SeenInv
  <2>7. \A g \in Feeds : \A v \in 1 .. cache[g] : v \in 1 .. cache'[g]
    BY <2>2
  <2>8. \A k \in Kinds : k \in Feeds
    BY DEF Feeds
  <2> QED
    BY <2>1, <2>6, <2>7, <2>8 DEF SeenInv
<1>8. ASSUME NEW f \in Feeds, events[f] # <<>>, events' = [events EXCEPT ![f] = Tail(@)],
             UNCHANGED <<cache, writing, sender, snapshot>>,
             hub'.msg.of \in Feeds => hub'.msg.ver \in 1 .. cache[hub'.msg.of]
      PROVE  SeenInv'
  BY <1>8, SeenHead DEF SeenInv, TypeOK
<1>9. ASSUME NEW f \in Feeds, DropTombstone(f) PROVE SeenInv'
  BY <1>8, <1>9 DEF DropTombstone, SeenInv
<1>10. ASSUME NEW f \in Feeds, ReceiveNotify(f) PROVE SeenInv'
  <2>1. Head(events[f]).ver \in 1 .. cache[f]
    BY <1>10, SeenHead DEF ReceiveNotify
  <2> QED
    BY <1>8, <1>10, <2>1 DEF ReceiveNotify, Hub
<1>11. ASSUME NEW c \in Conns, NotifyNext(c) PROVE SeenInv'
  BY <1>1, <1>11 DEF NotifyNext, Hub
<1>12. CASE NotifyDone
  BY <1>1, <1>12 DEF NotifyDone, IdleHub, Hub
<1>13. CASE HubSendUpdate
  BY <1>2, <1>13 DEF HubSendUpdate, Hub, SeenInv
<1>14. ASSUME NEW c \in Conns, Subscribe(c) PROVE SeenInv'
  <2>1. cache[request[c]] \in 1 .. cache[request[c]]
    BY <1>14 DEF Subscribe, TypeOK, Versions, Feeds
  <2> QED
    BY <1>14, <2>1 DEF Subscribe, SeenInv, Hub
<1>15. CASE HubSendPods
  BY <1>2, <1>15 DEF HubSendPods, IdleHub, Hub, SeenInv
<1>16. CASE HubSendError
  BY <1>2, <1>16 DEF HubSendError, Hub
<1>17. ASSUME NEW c \in Conns, ReaderUnregister(c) \/ WriterUnregister(c) PROVE SeenInv'
  BY <1>1, <1>17 DEF ReaderUnregister, WriterUnregister, Unregister, Hub
<1>18. ASSUME NEW c \in Conns, NEW j \in Jobs, JobUnregister(c, j) PROVE SeenInv'
  BY <1>1, <1>18 DEF JobUnregister, Unregister, Hub
<1>19. CASE CloseWriteChan
  BY <1>1, <1>19 DEF CloseWriteChan, IdleHub, Hub
<1>20. ASSUME NEW c \in Conns, writing' = [writing EXCEPT ![c] = NoMsg],
              UNCHANGED <<hub, cache, events, sender, snapshot>>
       PROVE  SeenInv'
  BY <1>20 DEF SeenInv, TypeOK
<1>21. ASSUME NEW c \in Conns, WriteOK(c) \/ WriteFail(c) PROVE SeenInv'
  BY <1>20, <1>21 DEF WriteOK, WriteFail
<1>22. ASSUME NEW c \in Conns,
              HandleWebsocket(c) \/ CloseSocket(c) \/ ReadClose(c) \/ ReadAbort(c)
       PROVE  SeenInv'
  BY <1>1, <1>22 DEF HandleWebsocket, CloseSocket, ReadClose, ReadAbort
<1>23. ASSUME NEW c \in Conns, NEW a, ReadSubscribe(c, a) \/ ReadRequest(c, a) PROVE SeenInv'
  BY <1>1, <1>23 DEF ReadSubscribe, ReadRequest
<1>24. ASSUME NEW c \in Conns, NEW j \in Jobs, JobSend(c, j) PROVE SeenInv'
  BY <1>2, <1>24 DEF JobSend
<1>25. ASSUME JobFrame PROVE SeenInv'
  BY <1>1, <1>25 DEF JobFrame
<1>26. ASSUME NEW c \in Conns,
              GetPod(c) \/ OpenLog(c) \/ FlushLog(c) \/ EndLog(c) \/ CancelLog(c) \/ CloseLog(c)
       PROVE  SeenInv'
  BY <1>25, <1>26 DEF GetPod, OpenLog, FlushLog, EndLog, CancelLog, CloseLog
<1>27. ASSUME NEW c \in Conns, NEW j \in Jobs, CallApi(c, j) PROVE SeenInv'
  BY <1>25, <1>27 DEF CallApi
<1>28. CASE UNCHANGED vars
  BY <1>1, <1>28 DEF vars
<1> QED
  BY <1>3, <1>4, <1>5, <1>6, <1>7, <1>9, <1>10, <1>11, <1>12, <1>13, <1>14, <1>15, <1>16,
     <1>17, <1>18, <1>19, <1>21, <1>22, <1>23, <1>24, <1>26, <1>27, <1>28 DEF Next

-------------------------------------------------------------------------------
(***************************************************************************)
(* The broadcast to the subscribers of an application.                     *)
(***************************************************************************)
LEMMA PruneInit == Init => PruneInv
BY DEF Init, PruneInv, IdleHub, Hub

LEMMA PruneStep == TypeOK /\ LifeInv /\ PruneInv /\ [Next]_vars => PruneInv'
<1> SUFFICES ASSUME TypeOK, LifeInv, PruneInv, [Next]_vars PROVE PruneInv'
  OBVIOUS
<1> USE DEF hubVars, sendVars, writeVars, readVars, jobVars, dataVars
<1>1. ASSUME hub'.pc \notin {"notify", "sendUpdate"} PROVE PruneInv'
  BY <1>1 DEF PruneInv
<1>2. ASSUME UNCHANGED <<hub, conns, subs>> PROVE PruneInv'
  BY <1>2 DEF PruneInv
<1>3. ASSUME NEW c \in Conns, HandleWebsocket(c) PROVE PruneInv'
  BY <1>2, <1>3 DEF HandleWebsocket
<1>4. ASSUME NEW c \in Conns, RegisterConn(c) PROVE PruneInv'
  BY <1>1, <1>4 DEF RegisterConn, Hub
<1>5. ASSUME NEW k \in Kinds, ListInitial(k) \/ InitialSend(k) PROVE PruneInv'
  BY <1>2, <1>5 DEF ListInitial, InitialSend
<1>6. CASE FinishRegister \/ NotifyDone \/ HubSendPods \/ HubSendError \/ CloseWriteChan
  BY <1>1, <1>6 DEF FinishRegister, NotifyDone, HubSendPods, HubSendError, CloseWriteChan, IdleHub, Hub
<1>7. ASSUME NEW f \in Feeds, CacheChange(f) \/ DropTombstone(f) PROVE PruneInv'
  BY <1>2, <1>7 DEF CacheChange, DropTombstone
<1>8. ASSUME NEW f \in Feeds, ReceiveNotify(f) PROVE PruneInv'
  BY <1>8 DEF ReceiveNotify, NotifyTargets, Hub, PruneInv
<1>9. ASSUME NEW c \in Conns, NotifyNext(c) PROVE PruneInv'
  <2>1. /\ hub.pc = "notify" /\ conns' = conns /\ hub'.todo = hub.todo \ {c} /\ hub'.msg = hub.msg
        /\ subs' = IF Stale(c) THEN [subs EXCEPT ![hub.msg.of] = @ \ {c}] ELSE subs
    BY <1>9 DEF NotifyNext, Hub
  <2>2. SUFFICES ASSUME hub.msg.of \in Apps PROVE subs'[hub.msg.of] \subseteq conns \cup (hub.todo \ {c})
    BY <2>1 DEF PruneInv
  <2>3. CASE Stale(c)
    BY <2>1, <2>2, <2>3 DEF PruneInv, TypeOK
  <2>4. CASE ~Stale(c)
    BY <2>1, <2>2, <2>4 DEF PruneInv, Stale
  <2> QED
    BY <2>3, <2>4
<1>10. CASE HubSendUpdate
  BY <1>10 DEF HubSendUpdate, Hub, PruneInv
<1>11. ASSUME NEW c \in Conns, Subscribe(c) PROVE PruneInv'
  BY <1>1, <1>11 DEF Subscribe, Hub
<1>12. ASSUME NEW c, Unregister(c) PROVE PruneInv'
  BY <1>1, <1>12 DEF Unregister, Hub
<1>13. ASSUME NEW c \in Conns, ReaderUnregister(c) \/ WriterUnregister(c) PROVE PruneInv'
  BY <1>12, <1>13 DEF ReaderUnregister, WriterUnregister
<1>14. ASSUME NEW c \in Conns, NEW j \in Jobs, JobUnregister(c, j) PROVE PruneInv'
  BY <1>12, <1>14 DEF JobUnregister
<1>15. ASSUME NEW c \in Conns, WriteOK(c) \/ WriteFail(c) \/ CloseSocket(c) \/ ReadClose(c) \/ ReadAbort(c)
       PROVE  PruneInv'
  BY <1>2, <1>15 DEF WriteOK, WriteFail, CloseSocket, ReadClose, ReadAbort
<1>16. ASSUME NEW c \in Conns, NEW a, ReadSubscribe(c, a) \/ ReadRequest(c, a) PROVE PruneInv'
  BY <1>2, <1>16 DEF ReadSubscribe, ReadRequest
<1>17. ASSUME NEW c \in Conns, NEW j \in Jobs, JobSend(c, j) \/ CallApi(c, j) PROVE PruneInv'
  BY <1>2, <1>17 DEF JobSend, CallApi, JobFrame
<1>18. ASSUME NEW c \in Conns,
              GetPod(c) \/ OpenLog(c) \/ FlushLog(c) \/ EndLog(c) \/ CancelLog(c) \/ CloseLog(c)
       PROVE  PruneInv'
  BY <1>2, <1>18 DEF GetPod, OpenLog, FlushLog, EndLog, CancelLog, CloseLog, JobFrame
<1>19. CASE UNCHANGED vars
  BY <1>2, <1>19 DEF vars
<1> QED
  BY <1>3, <1>4, <1>5, <1>6, <1>7, <1>8, <1>9, <1>10, <1>11, <1>13, <1>14, <1>15, <1>16, <1>17, <1>18, <1>19
     DEF Next

LEMMA RefineInvariant == Spec => []RefineInv
<1>1. Init => RefineInv
  BY TypeInit, LifeInit, SeenInit, PruneInit DEF RefineInv
<1>2. RefineInv /\ [Next]_vars => RefineInv'
  BY TypeStep, LifeStep, SeenStep, PruneStep DEF RefineInv
<1> QED
  BY <1>1, <1>2, PTL DEF Spec

\* A broadcast to the subscribers of an application ends with none among them that is
\* not registered, although unregisterConn leaves the subscriptions as they are
\* (notifyResourceSubscriptions removes those it meets).
THEOREM BroadcastPrunes == Spec => StaleSubscriptionsPruned
<1>1. RefineInv /\ [Next]_vars =>
        [hub.pc = "notify" /\ hub'.pc = "select" /\ hub.msg.of \in Apps
           => subs'[hub.msg.of] \subseteq conns']_vars
  <2> SUFFICES ASSUME RefineInv, [Next]_vars, hub.pc = "notify", hub'.pc = "select", hub.msg.of \in Apps
               PROVE  subs'[hub.msg.of] \subseteq conns'
    OBVIOUS
  <2> USE DEF hubVars, sendVars, writeVars, readVars, jobVars, dataVars
  <2>1. /\ ~\E c \in Conns : \/ RegisterConn(c) \/ NotifyNext(c) \/ Subscribe(c)
        /\ ~\E c \in Conns : Unregister(c)
        /\ ~\E f \in Feeds : ReceiveNotify(f)
        /\ ~\E k \in Kinds : ListInitial(k) \/ InitialSend(k)
        /\ ~(FinishRegister \/ HubSendUpdate \/ HubSendPods \/ HubSendError \/ CloseWriteChan)
    BY DEF RegisterConn, NotifyNext, Subscribe, ReceiveNotify, Unregister, FinishRegister, ListInitial,
           InitialSend, HubSendUpdate, HubSendPods, HubSendError, CloseWriteChan, Hub
  <2>2. hub' = hub => FALSE
    OBVIOUS
  <2>3. NotifyDone
    BY <2>1, <2>2 DEF Next, vars, HandleWebsocket, CacheChange, DropTombstone, ReaderUnregister,
       WriterUnregister, JobUnregister, WriteOK, WriteFail, CloseSocket, ReadClose, ReadAbort, ReadSubscribe,
       ReadRequest, JobSend, CallApi, GetPod, OpenLog, FlushLog, EndLog, CancelLog, CloseLog, JobFrame
  <2> QED
    BY <2>3 DEF NotifyDone, RefineInv, PruneInv
<1> QED
  BY <1>1, RefineInvariant, PTL DEF Spec, StaleSubscriptionsPruned

-------------------------------------------------------------------------------
(***************************************************************************)
(* The refinement.  Life reads writer, cancelled and conns only: a step    *)
(* that leaves alone what it asks of them leaves the connection where it   *)
(* is, and six actions take one connection one stage further.              *)
(***************************************************************************)
LEMMA LifeOf ==
  ASSUME NEW c
  PROVE  /\ writer[c] = "done" => Life(c) = "closed"
         /\ writer[c] # "done" /\ c \in cancelled => Life(c) = "closing"
         /\ writer[c] # "done" /\ c \in conns \ cancelled => Life(c) = "open"
         /\ writer[c] \notin {"none", "done"} /\ c \notin conns \cup cancelled => Life(c) = "connecting"
         /\ writer[c] = "none" /\ c \notin conns \cup cancelled => Life(c) = "absent"
BY Zenon DEF Life

LEMMA LifeOfNext ==
  ASSUME NEW c
  PROVE  /\ writer'[c] = "done" => Life(c)' = "closed"
         /\ writer'[c] # "done" /\ c \in cancelled' => Life(c)' = "closing"
         /\ writer'[c] # "done" /\ c \in conns' \ cancelled' => Life(c)' = "open"
         /\ writer'[c] \notin {"none", "done"} /\ c \notin conns' \cup cancelled' => Life(c)' = "connecting"
         /\ writer'[c] = "none" /\ c \notin conns' \cup cancelled' => Life(c)' = "absent"
BY Zenon DEF Life

Still(c) ==
  /\ writer'[c] = "none" <=> writer[c] = "none"
  /\ writer'[c] = "done" <=> writer[c] = "done"
  /\ c \in cancelled' <=> c \in cancelled
  /\ c \notin cancelled => (c \in conns' <=> c \in conns)

LEMMA StillLife ==
  ASSUME NEW c, Still(c)
  PROVE  Life(c)' = Life(c)
<1>1. CASE writer[c] = "done"
  BY <1>1, LifeOf, LifeOfNext DEF Still
<1>2. CASE writer[c] # "done" /\ c \in cancelled
  BY <1>2, LifeOf, LifeOfNext DEF Still
<1>3. CASE writer[c] # "done" /\ c \in conns \ cancelled
  BY <1>3, LifeOf, LifeOfNext DEF Still
<1>4. CASE writer[c] \notin {"none", "done"} /\ c \notin conns \cup cancelled
  BY <1>4, LifeOf, LifeOfNext DEF Still
<1>5. CASE writer[c] = "none" /\ c \notin conns \cup cancelled
  BY <1>5, LifeOf, LifeOfNext DEF Still
<1> QED
  BY <1>1, <1>2, <1>3, <1>4, <1>5

\* The three kinds of step of ConnLifecycle, and a stutter.
LEMMA Stutters ==
  ASSUME \A c \in Conns : Still(c), view' = view, cache' = cache
  PROVE  UNCHANGED Lifecycle!lifeVars
<1>1. \A c \in Conns : Life(c)' = Life(c)
  BY StillLife
<1>2. [c \in Conns |-> Life(c)'] = [c \in Conns |-> Life(c)]
  BY Zenon, <1>1
<1> QED
  BY <1>2 DEF Lifecycle!lifeVars

LEMMA Advances ==
  ASSUME NEW c \in Conns, <<Life(c), Life(c)'>> \in Lifecycle!Stages,
         \A d \in Conns \ {c} : Still(d), view' = view, cache' = cache
  PROVE  Lifecycle!LifeNext
<1>1. \A d \in Conns \ {c} : Life(d)' = Life(d)
  BY StillLife
<1>2. [d \in Conns |-> Life(d)'] = [[d \in Conns |-> Life(d)] EXCEPT ![c] = Life(c)']
  BY <1>1
<1>3. PICK s \in Lifecycle!Stages : Life(c) = s[1] /\ Life(c)' = s[2]
  BY DEF Lifecycle!Stages
<1>4. [d \in Conns |-> Life(d)][c] = s[1]
  BY <1>3
<1>5. [d \in Conns |-> Life(d)'] = [[d \in Conns |-> Life(d)] EXCEPT ![c] = s[2]]
  BY <1>2, <1>3
<1>6. Lifecycle!Advance(c)
  BY <1>4, <1>5 DEF Lifecycle!Advance
<1> QED
  BY <1>6 DEF Lifecycle!LifeNext

LEMMA Shows ==
  ASSUME NEW c \in Conns, NEW f \in Feeds, NEW v \in 1 .. cache[f], view' = [view EXCEPT ![c][f] = v],
         Life(c) \in {"connecting", "open", "closing"}, \A d \in Conns : Still(d), cache' = cache
  PROVE  Lifecycle!LifeNext
<1>1. \A d \in Conns : Life(d)' = Life(d)
  BY StillLife
<1>2. [d \in Conns |-> Life(d)'] = [d \in Conns |-> Life(d)]
  BY Zenon, <1>1
<1>3. [d \in Conns |-> Life(d)][c] \in {"connecting", "open", "closing"}
  OBVIOUS
<1>4. Lifecycle!Show(c, f)
  BY <1>2, <1>3 DEF Lifecycle!Show
<1> QED
  BY <1>4 DEF Lifecycle!LifeNext

LEMMA Changes ==
  ASSUME NEW f \in Feeds, cache' = [cache EXCEPT ![f] = @ + 1], view' = view, \A d \in Conns : Still(d)
  PROVE  Lifecycle!LifeNext
<1>1. \A d \in Conns : Life(d)' = Life(d)
  BY StillLife
<1>2. [d \in Conns |-> Life(d)'] = [d \in Conns |-> Life(d)]
  BY Zenon, <1>1
<1>3. Lifecycle!Change(f)
  BY <1>2 DEF Lifecycle!Change
<1> QED
  BY <1>3 DEF Lifecycle!LifeNext

LEMMA AbstractInit == Init => Lifecycle!LifeInit
<1> SUFFICES ASSUME Init PROVE Lifecycle!LifeInit
  OBVIOUS
<1>1. \A c \in Conns : writer[c] = "none" /\ c \notin conns \cup cancelled
  BY DEF Init
<1>2. \A c \in Conns : Life(c) = "absent"
  BY <1>1, LifeOf
<1>3. [c \in Conns |-> Life(c)] = [c \in Conns |-> "absent"]
  BY <1>2
<1> QED
  BY <1>3 DEF Init, Lifecycle!LifeInit

LEMMA SelectStill ==
  ASSUME TypeOK, LifeInv, NEW d, NEW m, Select(d, m), UNCHANGED <<conns, cancelled>>
  PROVE  (\A c \in Conns : Still(c)) /\ view' = view
<1>1. ASSUME NEW c \in Conns
      PROVE  (writer'[c] = "none" <=> writer[c] = "none") /\ (writer'[c] = "done" <=> writer[c] = "done")
  BY DEF Select, SelectOutcomes, TypeOK
<1> QED
  BY <1>1 DEF Select, Still

\* registerConn: a connection is absent until then.
LEMMA RegisterRefines ==
  ASSUME RefineInv, NEW c \in Conns, RegisterConn(c)
  PROVE  Lifecycle!LifeNext
<1> USE DEF RefineInv, TypeOK, hubVars, sendVars, writeVars, readVars, jobVars, dataVars
<1>1. handler[c] # "done" /\ writer[c] = "none" /\ c \notin conns \cup cancelled
  BY DEF RegisterConn, LifeInv, UnknownInv
<1>2. /\ writer' = [writer EXCEPT ![c] = "recv"] /\ UNCHANGED <<cancelled, view, cache>>
      /\ conns' = conns \/ conns' = conns \cup {c}
  BY DEF RegisterConn
<1>3. Life(c) = "absent"
  BY <1>1, LifeOf
<1>4. Life(c)' \in {"connecting", "open"}
  BY <1>1, <1>2, LifeOfNext
<1>5. \A d \in Conns \ {c} : Still(d)
  BY <1>2 DEF Still
<1>6. <<Life(c), Life(c)'>> \in Lifecycle!Stages
  BY <1>3, <1>4 DEF Lifecycle!Stages
<1> QED
  BY <1>2, <1>5, <1>6, Advances

LEMMA FinishRefines ==
  ASSUME RefineInv, FinishRegister
  PROVE  Lifecycle!LifeNext
<1> USE DEF RefineInv, TypeOK, hubVars, sendVars, writeVars, readVars, jobVars, dataVars
<1>0. PICK c \in Conns : c = hub.conn
  BY DEF FinishRegister, LifeInv, HubInv
<1>1. writer[c] \notin {"none", "done"} /\ c \notin conns \cup cancelled
  BY <1>0 DEF FinishRegister, LifeInv, HubInv, WriterAlive
<1>2. UNCHANGED <<writer, cancelled, view, cache>> /\ conns' = conns \cup {c}
  BY <1>0 DEF FinishRegister
<1>3. Life(c) = "connecting"
  BY <1>1, LifeOf
<1>4. Life(c)' = "open"
  BY <1>1, <1>2, LifeOfNext
<1>5. \A d \in Conns \ {c} : Still(d)
  BY <1>2 DEF Still
<1>6. <<Life(c), Life(c)'>> \in Lifecycle!Stages
  BY <1>3, <1>4 DEF Lifecycle!Stages
<1> QED
  BY <1>2, <1>5, <1>6, Advances

\* unregisterConn: an open connection is closing, and any other stays what it is.
LEMMA UnregisterRefines ==
  ASSUME RefineInv, NEW c \in Conns, Unregister(c), UNCHANGED <<view, cache>>,
         \A d \in Conns : /\ writer'[d] = "none" <=> writer[d] = "none"
                          /\ writer'[d] = "done" <=> writer[d] = "done"
  PROVE  [Lifecycle!LifeNext]_(Lifecycle!lifeVars)
<1> USE DEF RefineInv, TypeOK
<1>1. CASE cancelled' = cancelled
  <2>1. \A d \in Conns : Still(d)
    BY <1>1 DEF Still, Unregister
  <2> QED
    BY <2>1, Stutters
<1>2. CASE cancelled' # cancelled
  <2>1. c \in conns /\ conns' = conns /\ cancelled' = cancelled \cup {c} /\ c \notin cancelled
    BY <1>2 DEF Unregister, AlreadyUnregistered
  <2>2. writer[c] # "done" /\ writer'[c] # "done"
    BY <2>1 DEF LifeInv, StartedInv, WriterAlive
  <2>3. Life(c) = "open"
    BY <2>1, <2>2, LifeOf
  <2>4. Life(c)' = "closing"
    BY <2>1, <2>2, LifeOfNext
  <2>5. \A d \in Conns \ {c} : Still(d)
    BY <2>1 DEF Still
  <2>6. <<Life(c), Life(c)'>> \in Lifecycle!Stages
    BY <2>3, <2>4 DEF Lifecycle!Stages
  <2> QED
    BY <2>5, <2>6, Advances
<1> QED
  BY <1>1, <1>2

\* close(conn.writeChan) is not seen outside: the writer ends a connection's life.
LEMMA CloseRefines ==
  ASSUME RefineInv, CloseWriteChan
  PROVE  UNCHANGED Lifecycle!lifeVars
<1> USE DEF RefineInv, hubVars, sendVars, writeVars, readVars, jobVars, dataVars
<1>1. hub.conn \in cancelled
  BY DEF CloseWriteChan, LifeInv, HubInv
<1>2. \A d \in Conns : Still(d)
  BY <1>1 DEF CloseWriteChan, Still
<1> QED
  BY <1>2, Stutters DEF CloseWriteChan

LEMMA SocketRefines ==
  ASSUME RefineInv, NEW c \in Conns, CloseSocket(c)
  PROVE  Lifecycle!LifeNext
<1> USE DEF RefineInv, TypeOK, hubVars, sendVars, writeVars, readVars, jobVars, dataVars
<1>1. writer[c] = "recv" /\ c \in cancelled
  BY DEF CloseSocket, LifeInv, CloseInv
<1>2. writer' = [writer EXCEPT ![c] = "done"] /\ UNCHANGED <<conns, cancelled, view, cache>>
  BY DEF CloseSocket
<1>3. Life(c) = "closing"
  BY <1>1, LifeOf
<1>4. Life(c)' = "closed"
  BY <1>2, LifeOfNext
<1>5. \A d \in Conns \ {c} : Still(d)
  BY <1>2 DEF Still
<1>6. <<Life(c), Life(c)'>> \in Lifecycle!Stages
  BY <1>3, <1>4 DEF Lifecycle!Stages
<1> QED
  BY <1>2, <1>5, <1>6, Advances

\* What is written is a version the cache has had, and the client is still there.
LEMMA WriteRefines ==
  ASSUME RefineInv, NEW c \in Conns, WriteOK(c)
  PROVE  [Lifecycle!LifeNext]_(Lifecycle!lifeVars)
<1> USE DEF RefineInv, TypeOK, hubVars, sendVars, writeVars, readVars, jobVars, dataVars
<1>1. /\ writer[c] = "write" /\ writer' = [writer EXCEPT ![c] = "recv"]
      /\ UNCHANGED <<conns, cancelled, cache>>
  BY DEF WriteOK
<1>2. \A d \in Conns : Still(d)
  BY <1>1 DEF Still
<1>3. CASE writing[c].of = NoFeed
  BY <1>1, <1>2, <1>3, Stutters DEF WriteOK
<1>4. CASE writing[c].of # NoFeed
  <2>1. writing[c].of \in Feeds
    BY <1>4, MessageFields
  <2>2. PICK f \in Feeds : f = writing[c].of
    BY <2>1
  <2>3. PICK v \in 1 .. cache[f] : v = writing[c].ver
    BY <2>2 DEF SeenInv
  <2>4. view' = [view EXCEPT ![c][f] = v]
    BY <1>4, <2>2, <2>3 DEF WriteOK
  <2>5. Life(c) \in {"connecting", "open", "closing"}
    BY <1>1, LifeOf
  <2> QED
    BY <1>1, <1>2, <2>4, <2>5, Shows
<1> QED
  BY <1>3, <1>4

LEMMA NextRefines == RefineInv /\ [Next]_vars => [Lifecycle!LifeNext]_(Lifecycle!lifeVars)
<1> SUFFICES ASSUME RefineInv, [Next]_vars PROVE [Lifecycle!LifeNext]_(Lifecycle!lifeVars)
  OBVIOUS
<1> USE DEF hubVars, sendVars, writeVars, readVars, jobVars, dataVars
<1>1. ASSUME UNCHANGED <<conns, cancelled, writer, view, cache>> PROVE UNCHANGED Lifecycle!lifeVars
  <2>1. \A c \in Conns : Still(c)
    BY <1>1 DEF Still
  <2> QED
    BY <1>1, <2>1, Stutters
<1>2. ASSUME NEW c, NEW m, Select(c, m), UNCHANGED <<conns, cancelled, cache>>
      PROVE  UNCHANGED Lifecycle!lifeVars
  BY <1>2, SelectStill, Stutters DEF RefineInv
<1>3. ASSUME NEW c \in Conns, RegisterConn(c) PROVE Lifecycle!LifeNext
  BY <1>3, RegisterRefines
<1>4. ASSUME NEW k \in Kinds, ListInitial(k) PROVE UNCHANGED Lifecycle!lifeVars
  BY <1>1, <1>4 DEF ListInitial
<1>5. ASSUME NEW k \in Kinds, InitialSend(k) PROVE UNCHANGED Lifecycle!lifeVars
  BY <1>2, <1>5 DEF InitialSend
<1>6. ASSUME NEW f \in Feeds, CacheChange(f) PROVE Lifecycle!LifeNext
  <2>1. cache' = [cache EXCEPT ![f] = @ + 1] /\ UNCHANGED <<conns, cancelled, writer, view>>
    BY <1>6 DEF CacheChange
  <2>2. \A c \in Conns : Still(c)
    BY <2>1 DEF Still
  <2> QED
    BY <2>1, <2>2, Changes
<1>7. ASSUME NEW f \in Feeds, DropTombstone(f) \/ ReceiveNotify(f) PROVE UNCHANGED Lifecycle!lifeVars
  BY <1>1, <1>7 DEF DropTombstone, ReceiveNotify
<1>8. ASSUME NEW c \in Conns, HandleWebsocket(c) \/ NotifyNext(c) \/ Subscribe(c)
      PROVE  UNCHANGED Lifecycle!lifeVars
  BY <1>1, <1>8 DEF HandleWebsocket, NotifyNext, Subscribe
<1>9. CASE NotifyDone
  BY <1>1, <1>9 DEF NotifyDone
<1>10. CASE HubSendUpdate \/ HubSendPods \/ HubSendError
  BY <1>2, <1>10 DEF HubSendUpdate, HubSendPods, HubSendError
<1>11. ASSUME NEW c \in Conns, ReaderUnregister(c) PROVE [Lifecycle!LifeNext]_(Lifecycle!lifeVars)
  BY <1>11, UnregisterRefines DEF ReaderUnregister
<1>12. ASSUME NEW c \in Conns, WriterUnregister(c) PROVE [Lifecycle!LifeNext]_(Lifecycle!lifeVars)
  <2>1. writer[c] = "unregister" /\ writer' = [writer EXCEPT ![c] = "recv"] /\ UNCHANGED <<view, cache>>
    BY <1>12 DEF WriterUnregister
  <2>2. \A d \in Conns : /\ writer'[d] = "none" <=> writer[d] = "none"
                         /\ writer'[d] = "done" <=> writer[d] = "done"
    BY <2>1 DEF RefineInv, TypeOK
  <2> QED
    BY <1>12, <2>1, <2>2, UnregisterRefines DEF WriterUnregister
<1>13. ASSUME NEW c \in Conns, NEW j \in Jobs, JobUnregister(c, j)
       PROVE  [Lifecycle!LifeNext]_(Lifecycle!lifeVars)
  BY <1>13, UnregisterRefines DEF JobUnregister
<1>14. ASSUME NEW c \in Conns, WriteOK(c) PROVE [Lifecycle!LifeNext]_(Lifecycle!lifeVars)
  BY <1>14, WriteRefines
<1>15. ASSUME NEW c \in Conns, WriteFail(c) PROVE UNCHANGED Lifecycle!lifeVars
  <2>1. \A d \in Conns : Still(d)
    BY <1>15 DEF WriteFail, Still, RefineInv, TypeOK
  <2> QED
    BY <1>15, <2>1, Stutters DEF WriteFail
<1>16. ASSUME NEW c \in Conns, CloseSocket(c) PROVE Lifecycle!LifeNext
  BY <1>16, SocketRefines
<1>17. ASSUME NEW c \in Conns, ReadClose(c) \/ ReadAbort(c) PROVE UNCHANGED Lifecycle!lifeVars
  BY <1>1, <1>17 DEF ReadClose, ReadAbort
<1>18. ASSUME NEW c \in Conns, NEW a, ReadSubscribe(c, a) \/ ReadRequest(c, a)
       PROVE  UNCHANGED Lifecycle!lifeVars
  BY <1>1, <1>18 DEF ReadSubscribe, ReadRequest
<1>19. ASSUME NEW c \in Conns, NEW j \in Jobs, JobSend(c, j) PROVE UNCHANGED Lifecycle!lifeVars
  BY <1>2, <1>19 DEF JobSend
<1>20. ASSUME NEW c \in Conns, NEW j \in Jobs, CallApi(c, j) PROVE UNCHANGED Lifecycle!lifeVars
  BY <1>1, <1>20 DEF CallApi, JobFrame
<1>21. ASSUME NEW c \in Conns,
              GetPod(c) \/ OpenLog(c) \/ FlushLog(c) \/ EndLog(c) \/ CancelLog(c) \/ CloseLog(c)
       PROVE  UNCHANGED Lifecycle!lifeVars
  BY <1>1, <1>21 DEF GetPod, OpenLog, FlushLog, EndLog, CancelLog, CloseLog, JobFrame
<1>22. CASE UNCHANGED vars
  BY <1>1, <1>22 DEF vars
<1>23. CASE FinishRegister
  BY <1>23, FinishRefines
<1>24. CASE CloseWriteChan
  BY <1>24, CloseRefines
<1> QED
  BY <1>3, <1>4, <1>5, <1>6, <1>7, <1>8, <1>9, <1>10, <1>11, <1>12, <1>13, <1>14, <1>15, <1>16, <1>17, <1>18,
     <1>19, <1>20, <1>21, <1>22, <1>23, <1>24 DEF Next

\* The hub with its writers, readers, senders and jobs implements the life of a
\* connection that ConnLifecycle states: set up, serving, cancelled, closed, in this
\* order and once, whoever asks for it first; and the client is shown states that the
\* objects have been in, from registerConn to the close and at no other time.
THEOREM HubImplementsLifecycle == Spec => ImplementsLifecycle
BY AbstractInit, NextRefines, RefineInvariant, PTL DEF Spec, ImplementsLifecycle, Lifecycle!LifeSpec
===============================================================================
