-------------------------- MODULE FlowWatcher_proofs --------------------------
(***************************************************************************)
(* Theorems about the websocket hub, for any set of connections, kinds,    *)
(* applications, requests and faults.                                      *)
(***************************************************************************)
EXTENDS FlowWatcher, SequenceTheorems, TLAPS

(***************************************************************************)
(* Types of the expressions the actions are built from.                    *)
(***************************************************************************)
LEMMA MessageType ==
  /\ NoMsg \in Message
  /\ \A f \in Feeds \cup {NoFeed}, v \in 0 .. MaxVersion : [of |-> f, ver |-> v] \in Message
BY VersionAssumption DEF NoMsg, Message

LEMMA HubFields ==
  ASSUME hub \in HubStates
  PROVE  /\ hub.pc \in HubPcs /\ hub.conn \in Conns \cup {NoConn}
         /\ hub.todo \in SUBSET Conns /\ hub.msg \in Message
BY DEF HubStates

LEMMA MessageFields ==
  ASSUME NEW m \in Message
  PROVE  m.of \in Feeds \cup {NoFeed} /\ m.ver \in 0 .. MaxVersion
BY DEF Message

LEMMA SelectType ==
  ASSUME TypeOK, NEW c \in Conns \cup {NoConn}, NEW m \in Message, Select(c, m)
  PROVE  /\ writer' \in [Conns -> WriterPcs] /\ writing' \in [Conns -> Message]
         /\ crash' \in Panics /\ view' = view
BY DEF TypeOK, Select, WriterPcs, Panics

LEMMA UnregisterType ==
  ASSUME TypeOK, NEW c \in Conns, Unregister(c)
  PROVE  /\ hub' \in HubStates /\ (hub'.pc \in {"select", "notify"} \/ hub'.conn \in Conns)
         /\ cancelled' \subseteq Conns
         /\ UNCHANGED <<handler, conns, closed, subs>>
<1>1. CASE AlreadyUnregistered(c)
  BY <1>1 DEF TypeOK, Unregister
<1>2. CASE ~AlreadyUnregistered(c)
  BY <1>2, MessageType DEF TypeOK, Unregister, HubStates, Hub, HubPcs
<1> QED
  BY <1>1, <1>2

LEMMA JobType ==
  ASSUME TypeOK, NEW c \in Conns, NEW j \in Jobs
  PROVE  /\ \A pc \in JobPcs : [job EXCEPT ![c][j] = pc] \in [Conns -> [Jobs -> JobPcs]]
         /\ \A pc \in Continuations :
              [after EXCEPT ![c][j] = pc] \in [Conns -> [Jobs -> Continuations]]
BY DEF TypeOK

LEMMA BecomeType ==
  ASSUME TypeOK, NEW c \in Conns, NEW j \in Jobs, NEW pc \in Continuations, Become(c, j, pc)
  PROVE  job' \in [Conns -> [Jobs -> JobPcs]] /\ after' \in [Conns -> [Jobs -> Continuations]]
BY JobType DEF Become, TypeOK, JobPcs

LEMMA StartSendType ==
  ASSUME TypeOK, NEW c \in Conns, NEW j \in Jobs, NEW pc \in Continuations, StartSend(c, j, pc) 
  PROVE  job' \in [Conns -> [Jobs -> JobPcs]] /\ after' \in [Conns -> [Jobs -> Continuations]]
<1>1. pc \in JobPcs /\ "send" \in JobPcs
  BY DEF JobPcs
<1>2. CASE CtxDone(c)
  BY <1>1, <1>2, BecomeType DEF StartSend
<1>3. CASE ~CtxDone(c)
  <2>1. job' = [job EXCEPT ![c][j] = "send"] /\ after' = [after EXCEPT ![c][j] = pc]
    BY <1>3 DEF StartSend
  <2> QED
    BY <1>1, <2>1, JobType
<1> QED
  BY <1>2, <1>3

\* The fields of an event.
LEMMA EventFields ==
  ASSUME NEW e \in Event
  PROVE  e.ver \in Versions /\ e.ver \in 0 .. MaxVersion
BY VersionAssumption DEF Event, Versions

LEMMA QueueType ==
  ASSUME TypeOK, NEW f \in Feeds
  PROVE  /\ \A e \in Event :
              [events EXCEPT ![f] = Append(@, e)] \in [Feeds -> Seq(Event)]
         /\ events[f] # <<>> =>
              /\ [events EXCEPT ![f] = Tail(@)] \in [Feeds -> Seq(Event)]
              /\ Head(events[f]) \in Event
<1>1. events \in [Feeds -> Seq(Event)]
  BY DEF TypeOK
<1>2. \A e \in Event : Append(events[f], e) \in Seq(Event)
  BY <1>1
<1>3. events[f] # <<>> => Tail(events[f]) \in Seq(Event) /\ Head(events[f]) \in Event
  BY <1>1, HeadTailProperties
<1> QED
  BY <1>1, <1>2, <1>3

LEMMA TypeInit == Init => TypeOK
BY ConnAssumption, FeedAssumption, VersionAssumption, MessageType
   DEF Init, TypeOK, HubStates, IdleHub, Hub, HubPcs, SenderPcs, WriterPcs, ReaderPcs, JobPcs, Continuations, Panics, Versions

LEMMA TypeStep == TypeOK /\ [Next]_vars => TypeOK'
<1> SUFFICES ASSUME TypeOK, [Next]_vars PROVE TypeOK'
  OBVIOUS
<1> USE DEF TypeOK, hubVars, sendVars, writeVars, readVars, jobVars, dataVars
<1>1. ASSUME NEW c \in Conns, HandleWebsocket(c) PROVE TypeOK'
  BY <1>1 DEF HandleWebsocket
<1>2. ASSUME NEW c \in Conns, RegisterConn(c) PROVE TypeOK'
  <2>1. hub' \in HubStates /\ (hub'.pc \in {"select", "notify"} \/ hub'.conn \in Conns)
    BY <1>2, MessageType DEF RegisterConn, HubStates, Hub, HubPcs
  <2>2. /\ handler' \in [Conns -> {"idle", "register", "done"}]
        /\ writer' \in [Conns -> WriterPcs] /\ reader' \in [Conns -> ReaderPcs]
        /\ conns' \subseteq Conns
        /\ \A d \in Conns : reader'[d] = "subscribe" => request[d] \in Apps
    BY <1>2 DEF RegisterConn, WriterPcs, ReaderPcs
  <2>3. sender' \in [Kinds -> SenderPcs]
    BY <1>2 DEF RegisterConn, SenderPcs
  <2> QED
    BY <1>2, <2>1, <2>2, <2>3 DEF RegisterConn
<1>3. ASSUME NEW k \in Kinds, ListInitial(k) PROVE TypeOK'
  <2>1. cache[k] \in 0 .. MaxVersion
    BY VersionAssumption DEF Feeds, Versions
  <2>2. sender' \in [Kinds -> SenderPcs] /\ snapshot' \in [Kinds -> 0 .. MaxVersion]
    BY <1>3, <2>1 DEF ListInitial, SenderPcs
  <2> QED
    BY <1>3, <2>2 DEF ListInitial
<1>4. ASSUME NEW k \in Kinds, InitialSend(k) PROVE TypeOK'
  <2>1. [of |-> k, ver |-> snapshot[k]] \in Message /\ NoMsg \in Message /\ hub.conn \in Conns
    BY <1>4, MessageType DEF InitialSend, Feeds
  <2>2. /\ writer' \in [Conns -> WriterPcs] /\ writing' \in [Conns -> Message]
        /\ crash' \in Panics /\ view' = view
    BY <1>4, <2>1, SelectType DEF InitialSend
  <2>3. sender' \in [Kinds -> SenderPcs] /\ snapshot' \in [Kinds -> 0 .. MaxVersion]
    BY <1>4, VersionAssumption DEF InitialSend, SenderPcs
  <2> QED
    BY <1>4, <2>2, <2>3 DEF InitialSend
<1>5. ASSUME FinishRegister PROVE TypeOK'
  BY <1>5, MessageType DEF FinishRegister, HubStates, Hub, HubPcs, IdleHub, ReaderPcs, SenderPcs
<1>6. ASSUME NEW f \in Feeds, CacheChange(f) PROVE TypeOK'
  <2>1. cache[f] + 1 \in Versions
    BY <1>6, VersionAssumption DEF CacheChange, Versions
  <2>2. cache' = [cache EXCEPT ![f] = cache[f] + 1] /\ cache' \in [Feeds -> Versions]
    BY <1>6, <2>1 DEF CacheChange
  <2>3. cache'[f] = cache[f] + 1
    BY <2>2
  <2>4. PICK w \in BOOLEAN : events' = [events EXCEPT ![f] = Append(@, [ver |-> cache'[f], wrapped |-> w])]
    BY <1>6 DEF CacheChange
  <2>5. events' \in [Feeds -> Seq(Event)]
    <3>1. [ver |-> cache'[f], wrapped |-> w] \in Event
      BY <2>1, <2>3 DEF Event
    <3> QED
      BY <2>4, <3>1, QueueType
  <2> QED
    BY <1>6, <2>2, <2>5 DEF CacheChange
<1>7. ASSUME NEW f \in Feeds, DropTombstone(f) PROVE TypeOK'
  BY <1>7, QueueType DEF DropTombstone
<1>8. ASSUME NEW f \in Feeds, ReceiveNotify(f) PROVE TypeOK'
  <2>1. events' \in [Feeds -> Seq(Event)] /\ Head(events[f]).ver \in 0 .. MaxVersion
    <3>1. events[f] # <<>> /\ events' = [events EXCEPT ![f] = Tail(@)]
      BY <1>8 DEF ReceiveNotify
    <3> QED
      BY <3>1, QueueType, EventFields
  <2>2. NotifyTargets(f) \in SUBSET Conns
    BY DEF NotifyTargets
  <2>3. hub' \in HubStates /\ hub'.pc = "notify"
    BY <1>8, <2>1, <2>2, MessageType DEF ReceiveNotify, HubStates, Hub, HubPcs
  <2> QED
    BY <1>8, <2>1, <2>3 DEF ReceiveNotify
<1>9. ASSUME NEW c \in Conns, NotifyNext(c) PROVE TypeOK'
  BY <1>9, MessageType, HubFields, MessageFields DEF NotifyNext, HubStates, Hub, HubPcs, HubPcs, Stale
<1>10. ASSUME NotifyDone PROVE TypeOK'
  BY <1>10, MessageType DEF NotifyDone, HubStates, Hub, HubPcs, IdleHub
<1>11. ASSUME HubSendUpdate PROVE TypeOK'
  BY <1>11, SelectType, MessageType, HubFields, MessageFields DEF HubSendUpdate, HubStates, Hub, HubPcs, HubPcs
<1>12. ASSUME NEW c \in Conns, Subscribe(c) PROVE TypeOK'
  <2>1. request[c] \in Apps /\ request[c] \in Feeds /\ cache[request[c]] \in 0 .. MaxVersion
    BY <1>12, VersionAssumption DEF Subscribe, Feeds, Versions
  <2>2. hub' \in HubStates /\ (hub'.pc \in {"select", "notify"} \/ hub'.conn \in Conns)
    BY <1>12, <2>1, MessageType DEF Subscribe, HubStates, Hub, HubPcs
  <2>3. subs' \in [Apps -> SUBSET Conns]
    BY <1>12 DEF Subscribe, AddSub
  <2>4. /\ reader' \in [Conns -> ReaderPcs] /\ request' \in [Conns -> Apps \cup {NoFeed}]
        /\ \A d \in Conns : reader'[d] = "subscribe" => request'[d] \in Apps
    BY <1>12 DEF Subscribe, ReaderPcs
  <2> QED
    BY <1>12, <2>2, <2>3, <2>4 DEF Subscribe
<1>13. ASSUME HubSendPods PROVE TypeOK'
  BY <1>13, SelectType, MessageType, HubFields, MessageFields DEF HubSendPods, HubStates, Hub, HubPcs, IdleHub, AddSub
<1>14. ASSUME HubSendError PROVE TypeOK'
  BY <1>14, SelectType, MessageType, HubFields, MessageFields DEF HubSendError, HubStates, Hub, HubPcs, HubPcs
<1>15. ASSUME NEW c \in Conns, ReaderUnregister(c) PROVE TypeOK'
  BY <1>15, UnregisterType DEF ReaderUnregister, ReaderPcs, Panics
<1>16. ASSUME NEW c \in Conns, WriterUnregister(c) PROVE TypeOK'
  BY <1>16, UnregisterType DEF WriterUnregister, WriterPcs
<1>17. ASSUME NEW c \in Conns, NEW j \in Jobs, JobUnregister(c, j) PROVE TypeOK'
  BY <1>17, UnregisterType DEF JobUnregister, JobPcs, Continuations
<1>18. ASSUME CloseWriteChan PROVE TypeOK'
  BY <1>18, MessageType, HubFields, MessageFields DEF CloseWriteChan, HubStates, Hub, HubPcs, IdleHub, Panics
<1>19. ASSUME NEW c \in Conns, WriteOK(c) PROVE TypeOK'
  BY <1>19, MessageType, MessageFields DEF WriteOK, WriterPcs
<1>20. ASSUME NEW c \in Conns, WriteFail(c) PROVE TypeOK'
  BY <1>20, MessageType DEF WriteFail, WriterPcs
<1>21. ASSUME NEW c \in Conns, CloseSocket(c) PROVE TypeOK'
  BY <1>21 DEF CloseSocket, WriterPcs
<1>22. ASSUME NEW c \in Conns, ReadClose(c) PROVE TypeOK'
  BY <1>22 DEF ReadClose, ReaderPcs
<1>23. ASSUME NEW c \in Conns, ReadAbort(c) PROVE TypeOK'
  BY <1>23 DEF ReadAbort, ReaderPcs
<1>24. ASSUME NEW c \in Conns, NEW a \in Apps, ReadSubscribe(c, a) PROVE TypeOK'
  BY <1>24 DEF ReadSubscribe, ReaderPcs
<1>25. ASSUME NEW c \in Conns, NEW r \in Requests, ReadRequest(c, r) PROVE TypeOK'
  BY <1>25 DEF ReadRequest, JobPcs
<1>26. ASSUME NEW c \in Conns, NEW j \in Jobs, JobSend(c, j) PROVE TypeOK'
  <2>1. c \in Conns \cup {NoConn} /\ NoMsg \in Message
    BY MessageType
  <2>2. /\ writer' \in [Conns -> WriterPcs] /\ writing' \in [Conns -> Message]
        /\ crash' \in Panics /\ view' = view
    BY <1>26, <2>1, SelectType DEF JobSend
  <2>3. after[c][j] \in JobPcs /\ "done" \in Continuations
    BY DEF JobPcs, Continuations
  <2>4. /\ job' \in [Conns -> [Jobs -> JobPcs]]
        /\ after' \in [Conns -> [Jobs -> Continuations]]
    BY <1>26, <2>3, JobType DEF JobSend
  <2> QED
    BY <1>26, <2>2, <2>4 DEF JobSend
<1>27. ASSUME NEW c \in Conns, NEW j \in Jobs, CallApi(c, j) PROVE TypeOK'
  BY <1>27, StartSendType, BecomeType DEF CallApi, JobFrame, Continuations, Jobs
<1>28. ASSUME NEW c \in Conns, GetPod(c) PROVE TypeOK'
  BY <1>28, StartSendType, BecomeType DEF GetPod, JobFrame, Continuations, Jobs
<1>29. ASSUME NEW c \in Conns, OpenLog(c) PROVE TypeOK'
  BY <1>29, StartSendType, BecomeType DEF OpenLog, JobFrame, Continuations, Jobs
<1>30. ASSUME NEW c \in Conns, FlushLog(c) PROVE TypeOK'
  BY <1>30, StartSendType, BecomeType DEF FlushLog, JobFrame, Continuations, Jobs
<1>31. ASSUME NEW c \in Conns, EndLog(c) PROVE TypeOK'
  BY <1>31, StartSendType, BecomeType DEF EndLog, JobFrame, Continuations, Jobs
<1>32. ASSUME NEW c \in Conns, CancelLog(c) PROVE TypeOK'
  BY <1>32, StartSendType, BecomeType DEF CancelLog, JobFrame, Continuations, Jobs
<1>33. ASSUME NEW c \in Conns, CloseLog(c) PROVE TypeOK'
  BY <1>33, StartSendType, BecomeType DEF CloseLog, JobFrame, Continuations, Jobs
<1>34. CASE UNCHANGED vars
  BY <1>34 DEF vars
<1> QED
  BY <1>1, <1>2, <1>3, <1>4, <1>5, <1>6, <1>7, <1>8, <1>9, <1>10, <1>11, <1>12, <1>13, <1>14, <1>15, <1>16, <1>17, <1>18, <1>19, <1>20, <1>21, <1>22, <1>23, <1>24, <1>25, <1>26, <1>27, <1>28, <1>29, <1>30, <1>31, <1>32, <1>33, <1>34 DEF Next

\* Every variable keeps its type, in every behaviour of the hub.
THEOREM TypeCorrect == Spec => []TypeOK
BY TypeInit, TypeStep, PTL DEF Spec

--------------------------------------------------------------------------------
(***************************************************************************)
(* The life of a connection, as the inductive invariant sees it: unknown   *)
(* to the hub until its handler is done; then held by the hub at           *)
(* "initial", then in conns, then closed.  It is cancelled but not closed  *)
(* only while the hub is between the steps of unregisterConn.              *)
(***************************************************************************)
WriterAlive(c) == writer[c] \in {"recv", "write", "unregister"}

UnknownInv ==
  \A c \in Conns :
    handler[c] # "done" => /\ writer[c] = "none" /\ reader[c] = "none"
                           /\ c \notin conns \cup cancelled
                           /\ \A a \in Apps : c \notin subs[a]

StartedInv ==
  \A c \in Conns :
    /\ reader[c] # "none" => c \in conns \cup closed
    /\ \A j \in Jobs : job[c][j] # "idle" => reader[c] # "none"
    /\ writer[c] = "done" => c \in closed
    /\ c \in conns => WriterAlive(c)

CloseInv ==
  /\ closed \subseteq cancelled
  /\ conns \cap closed = {}
  /\ cancelled \subseteq conns \cup closed
  /\ \A c \in cancelled : c \in closed \/ (hub.pc = "unregister" /\ hub.conn = c)
  /\ crash # "closeOfClosed"

HubInv ==
  /\ hub.pc = "initial" => /\ hub.conn \in Conns \ (conns \cup cancelled)
                           /\ handler[hub.conn] = "done"
                           /\ WriterAlive(hub.conn)
                           /\ \A a \in Apps : hub.conn \notin subs[a]
  /\ hub.pc \in {"sendUpdate", "sendPods", "sendError", "unregister"} => hub.conn \in conns
  /\ hub.pc = "unregister" => hub.conn \in cancelled
  /\ hub.pc \in {"select", "notify"} => hub.conn = NoConn
  /\ hub.pc = "sendPods" => hub.msg.of \in Apps
  /\ hub.pc \in {"notify", "sendUpdate"} /\ hub.msg.of \notin Apps => hub.todo \subseteq conns

LifeInv == UnknownInv /\ StartedInv /\ CloseInv /\ HubInv

LEMMA LifeInit == Init => LifeInv
BY DEF Init, LifeInv, UnknownInv, StartedInv, CloseInv, HubInv, IdleHub, Hub

LEMMA JobKeepsLife ==
  ASSUME TypeOK, LifeInv, NEW c \in Conns, NEW j \in Jobs, job[c][j] # "idle",
         \E p : job' = [job EXCEPT ![c][j] = p], JobFrame
  PROVE  LifeInv'
<1>1. PICK p : job' = [job EXCEPT ![c][j] = p]
  OBVIOUS
<1>2. \A d \in Conns, i \in Jobs : job'[d][i] # "idle" => job[d][i] # "idle"
  BY <1>1 DEF TypeOK
<1> QED
  BY <1>2 DEF LifeInv, UnknownInv, StartedInv, CloseInv, HubInv, WriterAlive, JobFrame,
              hubVars, sendVars, writeVars, readVars, dataVars

\* A step of a job in progress leaves the life of its connection alone.
LEMMA JobLife ==
  ASSUME TypeOK, LifeInv, NEW c \in Conns
  PROVE  /\ \A j \in Jobs : CallApi(c, j) => LifeInv'
         /\ GetPod(c) \/ OpenLog(c) \/ FlushLog(c) \/ EndLog(c) \/ CancelLog(c) \/ CloseLog(c)
              => LifeInv'
<1>1. ASSUME NEW j \in Jobs, CallApi(c, j) PROVE LifeInv'
  <2>1. j \in Jobs /\ job[c][j] # "idle" /\ JobFrame
    BY <1>1 DEF CallApi, Jobs
  <2>2. \E p : job' = [job EXCEPT ![c][j] = p]
    BY <1>1, Zenon DEF CallApi, Become, StartSend
  <2> QED
    BY <2>1, <2>2, JobKeepsLife
<1>2. ASSUME GetPod(c) PROVE LifeInv'
  <2>1. "pod" \in Jobs /\ job[c]["pod"] # "idle" /\ JobFrame
    BY <1>2 DEF GetPod, Jobs
  <2>2. \E p : job' = [job EXCEPT ![c]["pod"] = p]
    BY <1>2, Zenon DEF GetPod, Become, StartSend
  <2> QED
    BY <2>1, <2>2, JobKeepsLife
<1>3. ASSUME OpenLog(c) PROVE LifeInv'
  <2>1. "log" \in Jobs /\ job[c]["log"] # "idle" /\ JobFrame
    BY <1>3 DEF OpenLog, Jobs
  <2>2. \E p : job' = [job EXCEPT ![c]["log"] = p]
    BY <1>3, Zenon DEF OpenLog, Become, StartSend
  <2> QED
    BY <2>1, <2>2, JobKeepsLife
<1>4. ASSUME FlushLog(c) PROVE LifeInv'
  <2>1. "log" \in Jobs /\ job[c]["log"] # "idle" /\ JobFrame
    BY <1>4 DEF FlushLog, Jobs
  <2>2. \E p : job' = [job EXCEPT ![c]["log"] = p]
    BY <1>4, Zenon DEF FlushLog, Become, StartSend
  <2> QED
    BY <2>1, <2>2, JobKeepsLife
<1>5. ASSUME EndLog(c) PROVE LifeInv'
  <2>1. "log" \in Jobs /\ job[c]["log"] # "idle" /\ JobFrame
    BY <1>5 DEF EndLog, Jobs
  <2>2. \E p : job' = [job EXCEPT ![c]["log"] = p]
    BY <1>5, Zenon DEF EndLog, Become, StartSend
  <2> QED
    BY <2>1, <2>2, JobKeepsLife
<1>6. ASSUME CancelLog(c) PROVE LifeInv'
  <2>1. "log" \in Jobs /\ job[c]["log"] # "idle" /\ JobFrame
    BY <1>6 DEF CancelLog, Jobs
  <2>2. \E p : job' = [job EXCEPT ![c]["log"] = p]
    BY <1>6, Zenon DEF CancelLog, Become, StartSend
  <2> QED
    BY <2>1, <2>2, JobKeepsLife
<1>7. ASSUME CloseLog(c) PROVE LifeInv'
  <2>1. "log" \in Jobs /\ job[c]["log"] # "idle" /\ JobFrame
    BY <1>7 DEF CloseLog, Jobs
  <2>2. \E p : job' = [job EXCEPT ![c]["log"] = p]
    BY <1>7, Zenon DEF CloseLog, Become, StartSend
  <2> QED
    BY <2>1, <2>2, JobKeepsLife
<1> QED
  BY <1>1, <1>2, <1>3, <1>4, <1>5, <1>6, <1>7

LEMMA LifeStep == TypeOK /\ LifeInv /\ [Next]_vars => LifeInv'
<1> SUFFICES ASSUME TypeOK, LifeInv, [Next]_vars PROVE LifeInv'
  OBVIOUS
<1> USE DEF TypeOK, LifeInv, UnknownInv, StartedInv, CloseInv, HubInv, WriterAlive,
            hubVars, sendVars, writeVars, readVars, jobVars, dataVars
<1>1. ASSUME NEW c \in Conns, HandleWebsocket(c) PROVE LifeInv'
  BY <1>1 DEF HandleWebsocket
<1>2. ASSUME NEW c \in Conns, RegisterConn(c) PROVE LifeInv'
  BY <1>2 DEF RegisterConn, Hub, IdleHub, NoMsg
<1>3. ASSUME NEW k \in Kinds, ListInitial(k) PROVE LifeInv'
  BY <1>3 DEF ListInitial
<1>4. ASSUME NEW k \in Kinds, InitialSend(k) PROVE LifeInv'
  BY <1>4 DEF InitialSend, Select, SelectOutcomes
<1>5. ASSUME FinishRegister PROVE LifeInv'
  BY <1>5 DEF FinishRegister, Hub, IdleHub, NoMsg
<1>6. ASSUME NEW f \in Feeds, CacheChange(f) PROVE LifeInv'
  BY <1>6 DEF CacheChange
<1>7. ASSUME NEW f \in Feeds, DropTombstone(f) PROVE LifeInv'
  BY <1>7 DEF DropTombstone
<1>8. ASSUME NEW f \in Feeds, ReceiveNotify(f) PROVE LifeInv'
  BY <1>8 DEF ReceiveNotify, NotifyTargets, Hub, IdleHub, NoMsg
<1>9. ASSUME NEW c \in Conns, NotifyNext(c) PROVE LifeInv'
  BY <1>9 DEF NotifyNext, Stale, Hub, IdleHub, NoMsg, CtxDone
<1>10. ASSUME NotifyDone PROVE LifeInv'
  BY <1>10 DEF NotifyDone, Hub, IdleHub, NoMsg
<1>11. ASSUME HubSendUpdate PROVE LifeInv'
  BY <1>11 DEF HubSendUpdate, Select, SelectOutcomes, Hub, IdleHub, NoMsg
<1>12. ASSUME NEW c \in Conns, Subscribe(c) PROVE LifeInv'
  <2>1. /\ c \in conns \cup closed /\ handler[c] = "done" /\ hub.pc = "select"
        /\ reader' = [reader EXCEPT ![c] = "read"] /\ request[c] \in Apps
        /\ UNCHANGED <<handler, conns, cancelled, closed, writer, job, crash>>
    BY <1>12 DEF Subscribe
  <2>2. \A d \in Conns, a \in Apps : d # c => (d \in subs'[a] <=> d \in subs[a])
    BY <1>12, <2>1 DEF Subscribe, AddSub
  <2>3. UnknownInv' /\ StartedInv'
    BY <2>1, <2>2
  <2>4. CloseInv'
    BY <1>12, <2>1 DEF Subscribe, Hub
  <2>5. HubInv'
    BY <1>12, <2>1 DEF Subscribe, Hub, NoMsg, CtxDone
  <2> QED
    BY <2>3, <2>4, <2>5
<1>13. ASSUME HubSendPods PROVE LifeInv'
  BY <1>13 DEF HubSendPods, Select, SelectOutcomes, AddSub, Hub, IdleHub, NoMsg
<1>14. ASSUME HubSendError PROVE LifeInv'
  BY <1>14 DEF HubSendError, Select, SelectOutcomes, Hub, IdleHub, NoMsg
<1>15. ASSUME NEW c \in Conns, ReaderUnregister(c) PROVE LifeInv'
  BY <1>15 DEF ReaderUnregister, Unregister, AlreadyUnregistered, Hub, IdleHub, NoMsg
<1>16. ASSUME NEW c \in Conns, WriterUnregister(c) PROVE LifeInv'
  BY <1>16 DEF WriterUnregister, Unregister, AlreadyUnregistered, Hub, IdleHub, NoMsg
<1>17. ASSUME NEW c \in Conns, NEW j \in Jobs, JobUnregister(c, j) PROVE LifeInv'
  BY <1>17 DEF JobUnregister, Unregister, AlreadyUnregistered, Hub, IdleHub, NoMsg
<1>18. ASSUME CloseWriteChan PROVE LifeInv'
  BY <1>18 DEF CloseWriteChan, Hub, IdleHub, NoMsg
<1>19. ASSUME NEW c \in Conns, WriteOK(c) PROVE LifeInv'
  BY <1>19 DEF WriteOK
<1>20. ASSUME NEW c \in Conns, WriteFail(c) PROVE LifeInv'
  BY <1>20 DEF WriteFail
<1>21. ASSUME NEW c \in Conns, CloseSocket(c) PROVE LifeInv'
  BY <1>21 DEF CloseSocket
<1>22. ASSUME NEW c \in Conns, ReadClose(c) PROVE LifeInv'
  BY <1>22 DEF ReadClose
<1>23. ASSUME NEW c \in Conns, ReadAbort(c) PROVE LifeInv'
  BY <1>23 DEF ReadAbort
<1>24. ASSUME NEW c \in Conns, NEW a \in Apps, ReadSubscribe(c, a) PROVE LifeInv'
  BY <1>24 DEF ReadSubscribe
<1>25. ASSUME NEW c \in Conns, NEW r \in Requests, ReadRequest(c, r) PROVE LifeInv'
  BY <1>25 DEF ReadRequest
<1>26. ASSUME NEW c \in Conns, NEW j \in Jobs, JobSend(c, j) PROVE LifeInv'
  BY <1>26 DEF JobSend, Select, SelectOutcomes
<1>27. ASSUME NEW c \in Conns, NEW j \in Jobs, CallApi(c, j) PROVE LifeInv'
  BY <1>27, JobLife
<1>28. ASSUME NEW c \in Conns, GetPod(c) PROVE LifeInv'
  BY <1>28, JobLife
<1>29. ASSUME NEW c \in Conns, OpenLog(c) PROVE LifeInv'
  BY <1>29, JobLife
<1>30. ASSUME NEW c \in Conns, FlushLog(c) PROVE LifeInv'
  BY <1>30, JobLife
<1>31. ASSUME NEW c \in Conns, EndLog(c) PROVE LifeInv'
  BY <1>31, JobLife
<1>32. ASSUME NEW c \in Conns, CancelLog(c) PROVE LifeInv'
  BY <1>32, JobLife
<1>33. ASSUME NEW c \in Conns, CloseLog(c) PROVE LifeInv'
  BY <1>33, JobLife
<1>34. CASE UNCHANGED vars
  BY <1>34 DEF vars, WriterAlive
<1> QED
  BY <1>1, <1>2, <1>3, <1>4, <1>5, <1>6, <1>7, <1>8, <1>9, <1>10, <1>11, <1>12, <1>13, <1>14, <1>15, <1>16, <1>17, <1>18, <1>19, <1>20, <1>21, <1>22, <1>23, <1>24, <1>25, <1>26, <1>27, <1>28, <1>29, <1>30, <1>31, <1>32, <1>33, <1>34 DEF Next

\* The invariant of a connection's life.
LEMMA LifeCorrect == Spec => [](TypeOK /\ LifeInv)
<1>1. Init => TypeOK /\ LifeInv
  BY TypeInit, LifeInit
<1>2. TypeOK /\ LifeInv /\ [Next]_vars => (TypeOK /\ LifeInv)'
  BY TypeStep, LifeStep
<1> QED
  BY <1>1, <1>2, PTL DEF Spec

\* unregisterConn never closes a writeChan that is already closed, whoever asks
\* to unregister the connection and however often.
THEOREM NoDoubleCloseTheorem == Spec => []NoDoubleClose
<1>1. LifeInv => NoDoubleClose
  BY DEF LifeInv, CloseInv, NoDoubleClose
<1> QED
  BY <1>1, LifeCorrect, PTL

\* Whenever the hub, or an initial sender it waits for, is in the select of
\* sendConn, the channel is open and the writer that drains it has not ended.
THEOREM HubSendsToOpenChannelTheorem == Spec => []HubSendsToOpenChannel
<1>1. TypeOK /\ LifeInv => HubSendsToOpenChannel
  BY DEF TypeOK, LifeInv, CloseInv, HubInv, StartedInv, HubSendsToOpenChannel, WriterAlive
<1> QED
  BY <1>1, LifeCorrect, PTL



--------------------------------------------------------------------------------
(***************************************************************************)
(* No lost update, when no informer misses a deletion.  The invariant: a   *)
(* queue that is not empty ends with the version in the cache; a writer    *)
(* that is not writing holds no message; while a connection is being       *)
(* registered, an initial sender whose kind has no event queued has listed *)
(* or sent the version in the cache; a message the hub holds is for the    *)
(* connections it has still to send it to.                                 *)
(***************************************************************************)
QueueInv ==
  \A f \in Feeds :
    /\ \A i \in 1 .. Len(events[f]) : events[f][i].wrapped = FALSE
    /\ events[f] # <<>> => events[f][Len(events[f])].ver = cache[f]

WriterInv == \A c \in Conns : writer[c] # "write" => writing[c] = NoMsg

SnapshotInv ==
  hub.pc = "initial" =>
    \A k \in Kinds :
      events[k] = <<>> =>
        /\ sender[k] = "send" => snapshot[k] = cache[k]
        /\ sender[k] = "done" /\ writer[hub.conn] # "unregister" => Newest(hub.conn, k) = cache[k]

HubMsgInv ==
  /\ hub.pc \notin {"notify", "sendUpdate", "sendPods"} => hub.msg = NoMsg
  /\ hub.pc \notin {"notify", "sendUpdate"} => hub.todo = {}
  /\ hub.pc = "sendPods" /\ events[hub.msg.of] = <<>> => hub.msg.ver = cache[hub.msg.of]

DataInv == QueueInv /\ WriterInv /\ SnapshotInv /\ HubMsgInv /\ NoLostUpdate

LEMMA DataInit == Init => DataInv
BY DEF Init, DataInv, QueueInv, WriterInv, SnapshotInv, HubMsgInv, NoLostUpdate, Healthy, IdleHub, Hub, Feeds

\* The head, the tail and the last element of a queue.
LEMMA TailFacts ==
  ASSUME NEW S, NEW s \in Seq(S), s # <<>>
  PROVE  /\ Head(s) = s[1]
         /\ Tail(s) = <<>> => Len(s) = 1
         /\ Tail(s) # <<>> => Tail(s)[Len(Tail(s))] = s[Len(s)]
<1>1. Len(s) \in Nat \ {0}
  BY EmptySeq
<1>2. Tail(s) \in Seq(S) /\ Len(Tail(s)) = Len(s) - 1
  BY HeadTailProperties
<1>3. \A i \in 1 .. Len(Tail(s)) : Tail(s)[i] = s[i + 1]
  BY HeadTailProperties
<1>4. Head(s) = s[1]
  OBVIOUS
<1>5. ASSUME Tail(s) = <<>> PROVE Len(s) = 1
  <2>1. Len(Tail(s)) = 0
    BY <1>5, EmptySeq
  <2>2. \A n \in Nat : n - 1 = 0 => n = 1
    OBVIOUS
  <2>3. Len(s) - 1 = 0
    BY Zenon, <1>2, <2>1
  <2> QED
    BY Zenon, <1>1, <2>2, <2>3
<1>6. ASSUME Tail(s) # <<>> PROVE Tail(s)[Len(Tail(s))] = s[Len(s)]
  <2>1. Len(Tail(s)) \in Nat \ {0}
    BY <1>2, <1>6, EmptySeq
  <2> QED
    BY <1>1, <1>2, <1>3, <2>1
<1> QED
  BY <1>4, <1>5, <1>6

\* A send to c, by whoever makes it, changes nothing for another connection that
\* is not cancelled, and gives an idle writer of c the message.
LEMMA SendKeeps ==
  ASSUME TypeOK, DataInv, NEW c \in Conns, NEW m \in Message, Select(c, m),
         UNCHANGED <<cancelled, closed, cache, events>>, closed \subseteq cancelled,
         NEW d \in Conns, d \notin cancelled, NEW g \in Feeds
  PROVE  \/ writer'[d] = writer[d] /\ writing'[d] = writing[d] /\ view' = view /\ d # c
         \/ d = c /\ writing[d] = NoMsg /\ writing'[d] = m /\ view' = view
            /\ writer[d] = "recv" /\ writer'[d] = "write"
BY DEF Select, SelectOutcomes, CtxDone, DataInv, WriterInv, TypeOK

LEMMA RegisterConnData ==
  ASSUME TypeOK, LifeInv, DataInv, NEW c \in Conns, RegisterConn(c)
  PROVE  DataInv'
<1> USE FeedAssumption DEF hubVars, sendVars, writeVars, readVars, jobVars, dataVars
<1>1. /\ writing' = writing /\ writer' = [writer EXCEPT ![c] = "recv"] /\ writer[c] = "none"
      /\ UNCHANGED <<cancelled, view, cache, events, subs>> /\ c \notin conns
      /\ \A a \in Apps : c \notin subs[a]
  BY DEF LifeInv, UnknownInv, RegisterConn
<1>2. WriterInv'
  BY <1>1 DEF TypeOK, DataInv, WriterInv
<1>5. ASSUME NEW d \in Conns, NEW g \in Feeds, Healthy(d)', Receives(d, g)'
     PROVE  Newest(d, g)' = cache'[g]
  <2>1. d # c
    BY <1>1, <1>5 DEF Healthy, Receives, RegisterConn, Feeds
  <2>2. Healthy(d) /\ Receives(d, g)
    BY <1>1, <1>5, <2>1 DEF Healthy, Receives, RegisterConn, CtxDone, TypeOK
  <2>3. Newest(d, g) = cache[g]
    BY <2>2 DEF DataInv, NoLostUpdate
  <2>4. hub.msg = NoMsg /\ hub'.msg = NoMsg /\ NoMsg.of = NoFeed
    BY DEF RegisterConn, DataInv, HubMsgInv, Hub, NoMsg
  <2> QED
    BY <1>1, <2>3, <2>4 DEF Newest, Feeds
<1>6. NoLostUpdate'
  BY <1>5 DEF NoLostUpdate
<1>7. QueueInv'
  BY FeedAssumption
     DEF TypeOK, DataInv, QueueInv,
         RegisterConn, dataVars
<1>8. SnapshotInv'
  BY FeedAssumption
     DEF TypeOK, DataInv, SnapshotInv, Newest, LifeInv, HubInv, Feeds,
         RegisterConn, Hub, IdleHub, NoMsg, hubVars, sendVars, writeVars, readVars, jobVars, dataVars
<1>9. HubMsgInv'
  BY FeedAssumption
     DEF TypeOK, DataInv, HubMsgInv, LifeInv, HubInv, Feeds, QueueInv,
         RegisterConn, Hub, IdleHub, NoMsg, hubVars, dataVars
<1> QED
  BY <1>2, <1>6, <1>7, <1>8, <1>9 DEF DataInv

LEMMA FinishRegisterData ==
  ASSUME TypeOK, LifeInv, DataInv, FinishRegister
  PROVE  DataInv'
<1> USE FeedAssumption DEF hubVars, sendVars, writeVars, readVars, jobVars, dataVars
<1>1. /\ UNCHANGED <<cancelled, writer, writing, view, cache, events, subs>>
      /\ conns' = conns \cup {hub.conn} /\ \A k \in Kinds : sender[k] = "done"
      /\ hub.msg = NoMsg /\ hub'.msg = NoMsg /\ NoMsg.of = NoFeed
  BY DEF FinishRegister, InitialSendersDone, DataInv, HubMsgInv, Hub, IdleHub, NoMsg
<1>2. ASSUME NEW d \in Conns, NEW g \in Feeds, Healthy(d)', Receives(d, g)'
     PROVE  Newest(d, g)' = cache'[g]
  <2>1. Receives(d, g) /\ ~CtxDone(d) /\ writer[d] # "unregister"
    BY <1>1, <1>2 DEF Receives, Healthy, CtxDone
  <2>2. CASE d \in conns
    <3>1. Newest(d, g) = cache[g]
      BY <2>1, <2>2 DEF DataInv, NoLostUpdate, Healthy
    <3> QED
      BY <1>1, <3>1 DEF Newest, Feeds
  <2>3. CASE d \notin conns
    <3>1. d = hub.conn
      BY <1>1, <1>2, <2>3 DEF Healthy
    <3>2. g \in Kinds
      BY <1>1, <2>1, <3>1 DEF FinishRegister, LifeInv, HubInv, Receives, Feeds
    <3>3. events[g] = <<>> => Newest(d, g) = cache[g]
      BY <1>1, <2>1, <3>1, <3>2 DEF FinishRegister, DataInv, SnapshotInv
    <3> QED
      BY <1>1, <3>3 DEF Newest, Feeds, DataInv, QueueInv
  <2> QED
    BY <2>2, <2>3
<1>3. NoLostUpdate'
  BY <1>2 DEF NoLostUpdate
<1>4. QueueInv'
  BY FeedAssumption
     DEF TypeOK, DataInv, QueueInv,
         FinishRegister, InitialSendersDone, dataVars
<1>5. WriterInv'
  BY FeedAssumption
     DEF TypeOK, DataInv, WriterInv,
         FinishRegister, writeVars
<1>6. SnapshotInv'
  BY FeedAssumption
     DEF TypeOK, DataInv, SnapshotInv, Newest, LifeInv, HubInv, Feeds,
         FinishRegister, Hub, IdleHub, NoMsg, InitialSendersDone, hubVars, sendVars, writeVars, readVars, jobVars, dataVars
<1>7. HubMsgInv'
  BY FeedAssumption
     DEF TypeOK, DataInv, HubMsgInv, LifeInv, HubInv, Feeds, QueueInv,
         FinishRegister, Hub, IdleHub, NoMsg, InitialSendersDone, hubVars, dataVars
<1> QED
  BY <1>3, <1>4, <1>5, <1>6, <1>7 DEF DataInv

LEMMA ReceiveNotifyData ==
  ASSUME TypeOK, LifeInv, DataInv, NEW f \in Feeds, ReceiveNotify(f)
  PROVE  DataInv'
<1> USE FeedAssumption DEF hubVars, sendVars, writeVars, readVars, jobVars
<1>1. /\ UNCHANGED <<conns, cancelled, subs, writer, writing, view, cache>>
      /\ events[f] # <<>> /\ events' = [events EXCEPT ![f] = Tail(events[f])]
      /\ hub.msg = NoMsg /\ NoMsg.of = NoFeed
      /\ hub'.todo = NotifyTargets(f) /\ hub'.msg.of = f /\ hub'.msg.ver = Head(events[f]).ver
  BY DEF ReceiveNotify, Hub, DataInv, HubMsgInv, NoMsg
<1>2. events[f] \in Seq(Event) /\ events'[f] = Tail(events[f])
  BY <1>1 DEF TypeOK
<1>3. /\ Head(events[f]) = events[f][1]
      /\ events'[f] = <<>> => Len(events[f]) = 1
      /\ events'[f] # <<>> => events'[f][Len(events'[f])] = events[f][Len(events[f])]
  BY <1>1, <1>2, TailFacts
<1>4. ASSUME NEW d \in Conns, NEW g \in Feeds, Healthy(d)', Receives(d, g)'
      PROVE  Newest(d, g)' = cache'[g]
  <2>0. g # NoFeed
    BY DEF Feeds
  <2>1. Healthy(d) /\ Receives(d, g)
    BY <1>1, <1>4 DEF Healthy, Receives, CtxDone
  <2>2. Newest(d, g) = cache[g]
    BY <2>1 DEF DataInv, NoLostUpdate
  <2>3. CASE g # f
    <3>1. events'[g] = events[g]
      BY <1>1, <2>3 DEF TypeOK
    <3> QED
      BY <1>1, <2>0, <2>2, <2>3, <3>1 DEF Newest
  <2>4. CASE g = f
    <3>1. CASE events'[f] # <<>>
      BY <1>1, <1>3, <2>2, <2>4, <3>1 DEF Newest
    <3>2. CASE events'[f] = <<>>
      <4>1. d \in NotifyTargets(f)
        BY <2>1, <2>4 DEF NotifyTargets, Receives, Healthy
      <4> QED
        BY <1>1, <1>3, <2>2, <2>4, <3>2, <4>1 DEF Newest
    <3> QED
      BY <3>1, <3>2
  <2> QED
    BY <2>3, <2>4
<1>5. NoLostUpdate'
  BY <1>4 DEF NoLostUpdate
<1>6. QueueInv'
  BY FeedAssumption
     DEF TypeOK, DataInv, QueueInv,
         ReceiveNotify, NotifyTargets, dataVars
<1>7. WriterInv'
  BY FeedAssumption
     DEF TypeOK, DataInv, WriterInv,
         ReceiveNotify, writeVars
<1>8. SnapshotInv'
  BY FeedAssumption
     DEF TypeOK, DataInv, SnapshotInv, Newest, LifeInv, HubInv, Feeds,
         ReceiveNotify, NotifyTargets, Hub, IdleHub, NoMsg, hubVars, sendVars, writeVars, readVars, jobVars, dataVars
<1>9. HubMsgInv'
  BY FeedAssumption
     DEF TypeOK, DataInv, HubMsgInv, LifeInv, HubInv, Feeds, QueueInv,
         ReceiveNotify, NotifyTargets, Hub, IdleHub, NoMsg, hubVars, dataVars
<1> QED
  BY <1>5, <1>6, <1>7, <1>8, <1>9 DEF DataInv

LEMMA NotifyNextData ==
  ASSUME TypeOK, LifeInv, DataInv, NEW c \in Conns, NotifyNext(c)
  PROVE  DataInv'
<1> USE FeedAssumption DEF hubVars, sendVars, writeVars, readVars, jobVars, dataVars
<1>1. /\ UNCHANGED <<conns, cancelled, writer, writing, view, cache, events>>
      /\ hub'.msg = hub.msg /\ hub'.todo = hub.todo \ {c} /\ c \in hub.todo
      /\ hub.conn = NoConn
  BY DEF NotifyNext, Hub, LifeInv, HubInv
<1>2. ASSUME NEW d \in Conns, NEW g \in Feeds, Healthy(d)', Receives(d, g)'
      PROVE  Newest(d, g)' = cache'[g]
  <2>0. g # NoFeed
    BY DEF Feeds
  <2>1. Healthy(d)
    BY <1>1, <1>2 DEF Healthy, CtxDone
  <2>2. Receives(d, g)
    BY <1>2 DEF Receives, NotifyNext, TypeOK
  <2>3. Newest(d, g) = cache[g]
    BY <2>1, <2>2 DEF DataInv, NoLostUpdate
  <2>4. d = c => hub'.conn = c
    BY <2>1 DEF NotifyNext, Hub, Stale, Healthy, CtxDone
  <2>5. hub'.conn \in {c, NoConn}
    BY DEF NotifyNext, Hub
  <2>6. d \in hub'.todo \cup {hub'.conn} <=> d \in hub.todo \cup {hub.conn}
    BY <1>1, <2>4, <2>5, ConnAssumption
  <2> QED
    BY <1>1, <2>3, <2>6 DEF Newest
<1>3. NoLostUpdate'
  BY <1>2 DEF NoLostUpdate
<1>4. QueueInv'
  BY FeedAssumption
     DEF TypeOK, DataInv, QueueInv,
         NotifyNext, Stale, dataVars
<1>5. WriterInv'
  BY FeedAssumption
     DEF TypeOK, DataInv, WriterInv,
         NotifyNext, writeVars
<1>6. SnapshotInv'
  BY FeedAssumption
     DEF TypeOK, DataInv, SnapshotInv, Newest, LifeInv, HubInv, Feeds,
         NotifyNext, Stale, Hub, IdleHub, NoMsg, hubVars, sendVars, writeVars, readVars, jobVars, dataVars
<1>7. HubMsgInv'
  BY FeedAssumption
     DEF TypeOK, DataInv, HubMsgInv, LifeInv, HubInv, Feeds, QueueInv,
         NotifyNext, Stale, Hub, IdleHub, NoMsg, hubVars, dataVars
<1> QED
  BY <1>3, <1>4, <1>5, <1>6, <1>7 DEF DataInv

LEMMA NotifyDoneData ==
  ASSUME TypeOK, LifeInv, DataInv, NotifyDone
  PROVE  DataInv'
<1>1. /\ UNCHANGED <<conns, cancelled, subs, writer, writing, view, cache, events>>
      /\ hub.todo = {} /\ hub.conn = NoConn /\ hub'.msg.of = NoFeed
  BY DEF NotifyDone, Hub, IdleHub, NoMsg, LifeInv, HubInv, hubVars, writeVars, dataVars
<1>2. NoLostUpdate'
  BY <1>1, ConnAssumption, FeedAssumption
     DEF DataInv, NoLostUpdate, Newest, Healthy, Receives, CtxDone, Feeds
<1>3. QueueInv'
  BY FeedAssumption
     DEF TypeOK, DataInv, QueueInv,
         NotifyDone, dataVars
<1>4. WriterInv'
  BY FeedAssumption
     DEF TypeOK, DataInv, WriterInv,
         NotifyDone, writeVars
<1>5. SnapshotInv'
  BY FeedAssumption
     DEF TypeOK, DataInv, SnapshotInv, Newest, LifeInv, HubInv, Feeds,
         NotifyDone, Hub, IdleHub, NoMsg, hubVars, sendVars, writeVars, readVars, jobVars, dataVars
<1>6. HubMsgInv'
  BY FeedAssumption
     DEF TypeOK, DataInv, HubMsgInv, LifeInv, HubInv, Feeds, QueueInv,
         NotifyDone, Hub, IdleHub, NoMsg, hubVars, dataVars
<1> QED
  BY <1>2, <1>3, <1>4, <1>5, <1>6 DEF DataInv

LEMMA HubSendUpdateData ==
  ASSUME TypeOK, LifeInv, DataInv, HubSendUpdate
  PROVE  DataInv'
<1>1. /\ UNCHANGED <<conns, cancelled, closed, subs, cache, events>>
      /\ hub'.msg = hub.msg /\ hub'.todo = hub.todo /\ hub'.conn = NoConn
      /\ hub.conn \in Conns /\ hub.msg \in Message /\ closed \subseteq cancelled
      /\ Select(hub.conn, hub.msg)
  BY HubFields DEF HubSendUpdate, Hub, TypeOK, LifeInv, CloseInv, hubVars, dataVars
<1>2. ASSUME NEW d \in Conns, NEW g \in Feeds, Healthy(d)', Receives(d, g)'
      PROVE  Newest(d, g)' = cache'[g]
  <2>1. g # NoFeed /\ NoMsg.of = NoFeed /\ d # NoConn /\ d \notin cancelled
    BY <1>1, <1>2, FeedAssumption, ConnAssumption DEF Feeds, NoMsg, Healthy, CtxDone
  <2>2. \/ writer'[d] = writer[d] /\ writing'[d] = writing[d] /\ view' = view /\ d # hub.conn
        \/ /\ d = hub.conn /\ writing[d] = NoMsg /\ writing'[d] = hub.msg
           /\ writer'[d] = "write" /\ view' = view
    BY <1>1, <2>1, SendKeeps
  <2>3. Receives(d, g) /\ d \in conns
    BY <1>1, <1>2 DEF Receives, Healthy
  <2>4. CASE writer[d] = "unregister"
    BY <1>1, <1>2, <2>2, <2>4 DEF Healthy, HubSendUpdate, Select, SelectOutcomes, CtxDone, TypeOK, LifeInv, CloseInv
  <2>5. CASE writer[d] # "unregister"
    <3>1. Newest(d, g) = cache[g]
      BY <2>1, <2>3, <2>5 DEF DataInv, NoLostUpdate, Healthy, CtxDone
    <3> QED
      BY <1>1, <2>1, <2>2, <3>1 DEF Newest
  <2> QED
    BY <2>4, <2>5
<1>3. NoLostUpdate'
  BY <1>2 DEF NoLostUpdate
<1>4. QueueInv'
  BY FeedAssumption
     DEF TypeOK, DataInv, QueueInv,
         HubSendUpdate, dataVars
<1>5. WriterInv'
  BY FeedAssumption
     DEF TypeOK, DataInv, WriterInv,
         HubSendUpdate, Select, SelectOutcomes, writeVars
<1>6. SnapshotInv'
  BY FeedAssumption
     DEF TypeOK, DataInv, SnapshotInv, Newest, LifeInv, HubInv, Feeds,
         HubSendUpdate, Select, SelectOutcomes, Hub, IdleHub, NoMsg, hubVars, sendVars, writeVars, readVars, jobVars, dataVars
<1>7. HubMsgInv'
  BY FeedAssumption
     DEF TypeOK, DataInv, HubMsgInv, LifeInv, HubInv, Feeds, QueueInv,
         HubSendUpdate, Hub, IdleHub, NoMsg, hubVars, dataVars
<1> QED
  BY <1>3, <1>4, <1>5, <1>6, <1>7 DEF DataInv

LEMMA SubscribeData ==
  ASSUME TypeOK, LifeInv, DataInv, NEW c \in Conns, Subscribe(c)
  PROVE  DataInv'
<1>1. /\ UNCHANGED <<conns, cancelled, writer, writing, view, cache, events>>
      /\ hub.conn = NoConn /\ hub.msg = NoMsg /\ request[c] \in Apps
      /\ \A d \in Conns, a \in Apps : d # c => (d \in subs'[a] <=> d \in subs[a])
      /\ subs' # subs => c \in cancelled
      /\ \/ hub' = hub
         \/ hub'.todo = {} /\ hub'.conn = c /\ hub'.msg = NoMsg
         \/ /\ hub'.todo = {} /\ hub'.conn = c /\ hub'.msg.of = request[c] /\ c \notin subs[request[c]]
            /\ hub'.msg.ver = cache[request[c]] 
  <2>1. /\ UNCHANGED <<conns, cancelled, writer, writing, view, cache, events>>
        /\ hub.pc = "select" /\ request[c] \in Apps
    BY DEF Subscribe, TypeOK, writeVars, dataVars, hubVars
  <2>2. hub.conn = NoConn /\ hub.msg = NoMsg
    BY <2>1 DEF LifeInv, HubInv, DataInv, HubMsgInv
  <2>3. subs' = subs \/ (c \in cancelled /\ subs' = [subs EXCEPT ![request[c]] = @ \cup {c}])
    <3>1. subs' = subs \/ (c \in cancelled /\ AddSub(request[c], c))
      BY Zenon DEF Subscribe, CtxDone
    <3> QED
      BY <3>1 DEF AddSub
  <2>4. \A d \in Conns, a \in Apps : d # c => (d \in subs'[a] <=> d \in subs[a])
    <3>1. subs \in [Apps -> SUBSET Conns] /\ request[c] \in Apps
      BY <2>1 DEF TypeOK
    <3> QED
      BY <2>3, <3>1
  <2>5. \/ hub' = hub
        \/ hub'.todo = {} /\ hub'.conn = c /\ hub'.msg = NoMsg
        \/ /\ hub'.todo = {} /\ hub'.conn = c /\ hub'.msg.of = request[c] /\ c \notin subs[request[c]]
              /\ hub'.msg.ver = cache[request[c]] 
    BY DEF Subscribe, Hub
  <2> QED
    BY <2>1, <2>2, <2>3, <2>4, <2>5
<1>2. ASSUME NEW d \in Conns, NEW g \in Feeds, Healthy(d)', Receives(d, g)'
      PROVE  Newest(d, g)' = cache'[g]
  <2>1. g # NoFeed /\ NoMsg.of = NoFeed /\ d # NoConn /\ d \notin cancelled
    BY <1>1, <1>2, FeedAssumption, ConnAssumption DEF Feeds, NoMsg, Healthy, CtxDone
  <2>2. Healthy(d) /\ Receives(d, g)
    BY <1>1, <1>2, <2>1 DEF Receives, Healthy, CtxDone
  <2>3. Newest(d, g) = cache[g]
    BY <2>2 DEF DataInv, NoLostUpdate
  <2> QED
    BY <1>1, <2>1, <2>3 DEF Newest, DataInv, QueueInv
<1>3. NoLostUpdate'
  BY <1>2 DEF NoLostUpdate
<1>4. QueueInv'
  BY FeedAssumption
     DEF TypeOK, DataInv, QueueInv,
         Subscribe, dataVars
<1>5. WriterInv'
  BY FeedAssumption
     DEF TypeOK, DataInv, WriterInv,
         Subscribe, writeVars
<1>6. SnapshotInv'
  BY FeedAssumption
     DEF TypeOK, DataInv, SnapshotInv, Newest, LifeInv, HubInv, Feeds,
         Subscribe, AddSub, Hub, IdleHub, NoMsg, hubVars, sendVars, writeVars, readVars, jobVars, dataVars
<1>7. HubMsgInv'
  BY FeedAssumption
     DEF TypeOK, DataInv, HubMsgInv, LifeInv, HubInv, Feeds, QueueInv,
         Subscribe, Hub, IdleHub, NoMsg, hubVars, dataVars
<1> QED
  BY <1>3, <1>4, <1>5, <1>6, <1>7 DEF DataInv

LEMMA HubSendPodsData ==
  ASSUME TypeOK, LifeInv, DataInv, HubSendPods
  PROVE  DataInv'
<1>1. /\ UNCHANGED <<conns, cancelled, closed, cache, events>>
      /\ hub'.msg = NoMsg /\ hub.msg.of \in Apps
      /\ subs' = [subs EXCEPT ![hub.msg.of] = @ \cup {hub.conn}]
      /\ hub.conn \in Conns /\ hub.msg \in Message /\ closed \subseteq cancelled
      /\ Select(hub.conn, hub.msg) /\ hub.todo = {}
      /\ events[hub.msg.of] = <<>> => hub.msg.ver = cache[hub.msg.of]
  <2>1. UNCHANGED <<conns, cancelled, closed, cache, events>> /\ hub' = IdleHub
        /\ Select(hub.conn, hub.msg) /\ hub.pc = "sendPods" /\ AddSub(hub.msg.of, hub.conn)
    BY DEF HubSendPods, hubVars, dataVars
  <2>2. hub'.msg = NoMsg
    BY <2>1 DEF IdleHub, Hub
  <2>3. hub.msg.of \in Apps /\ hub.conn \in conns /\ closed \subseteq cancelled
    BY <2>1 DEF LifeInv, HubInv, CloseInv
  <2>4. hub.conn \in Conns /\ hub.msg \in Message
    BY <2>1, <2>3, HubFields DEF TypeOK
  <2>5. events[hub.msg.of] = <<>> => hub.msg.ver = cache[hub.msg.of]
    BY <2>1 DEF DataInv, HubMsgInv
  <2>6. hub.todo = {}
    BY <2>1 DEF DataInv, HubMsgInv
  <2>7. subs' = [subs EXCEPT ![hub.msg.of] = @ \cup {hub.conn}]
    BY <2>1 DEF AddSub
  <2> QED
    BY <2>1, <2>2, <2>3, <2>4, <2>5, <2>6, <2>7
<1>2. ASSUME NEW d \in Conns, NEW g \in Feeds, Healthy(d)', Receives(d, g)'
      PROVE  Newest(d, g)' = cache'[g]
  <2>1. g # NoFeed /\ NoMsg.of = NoFeed /\ d # NoConn /\ d \notin cancelled
    BY <1>1, <1>2, FeedAssumption, ConnAssumption DEF Feeds, NoMsg, Healthy, CtxDone
  <2>2. \/ writer'[d] = writer[d] /\ writing'[d] = writing[d] /\ view' = view /\ d # hub.conn
        \/ /\ d = hub.conn /\ writing[d] = NoMsg /\ writing'[d] = hub.msg
           /\ writer'[d] = "write" /\ writer[d] = "recv" /\ view' = view
    BY <1>1, <2>1, SendKeeps
  <2>3. CASE d = hub.conn /\ g = hub.msg.of
    BY <1>1, <2>1, <2>2, <2>3 DEF Newest, DataInv, QueueInv
  <2>4. CASE ~(d = hub.conn /\ g = hub.msg.of)
    <3>1. Receives(d, g) /\ Healthy(d)
      BY <1>1, <1>2, <2>2, <2>4 DEF Receives, Healthy, TypeOK, CtxDone
    <3>2. Newest(d, g) = cache[g]
      BY <3>1 DEF DataInv, NoLostUpdate
    <3> QED
      BY <1>1, <2>1, <2>2, <2>4, <3>2 DEF Newest
  <2> QED
    BY <2>3, <2>4
<1>3. NoLostUpdate'
  BY <1>2 DEF NoLostUpdate
<1>4. QueueInv'
  BY FeedAssumption
     DEF TypeOK, DataInv, QueueInv,
         HubSendPods, dataVars
<1>5. WriterInv'
  BY FeedAssumption
     DEF TypeOK, DataInv, WriterInv,
         HubSendPods, Select, SelectOutcomes, writeVars
<1>6. SnapshotInv'
  BY FeedAssumption
     DEF TypeOK, DataInv, SnapshotInv, Newest, LifeInv, HubInv, Feeds,
         HubSendPods, Select, SelectOutcomes, AddSub, Hub, IdleHub, NoMsg, hubVars, sendVars, writeVars, readVars, jobVars, dataVars
<1>7. HubMsgInv'
  BY FeedAssumption
     DEF TypeOK, DataInv, HubMsgInv, LifeInv, HubInv, Feeds, QueueInv,
         HubSendPods, Hub, IdleHub, NoMsg, hubVars, dataVars
<1> QED
  BY <1>3, <1>4, <1>5, <1>6, <1>7 DEF DataInv

LEMMA HubSendErrorData ==
  ASSUME TypeOK, LifeInv, DataInv, HubSendError
  PROVE  DataInv'
<1>1. /\ UNCHANGED <<conns, cancelled, closed, subs, cache, events>>
      /\ hub'.msg = NoMsg /\ hub.msg = NoMsg /\ NoMsg \in Message
      /\ hub.conn \in Conns /\ closed \subseteq cancelled /\ Select(hub.conn, NoMsg)
  BY MessageType DEF HubSendError, Hub, TypeOK, LifeInv, CloseInv, DataInv, HubMsgInv, hubVars, dataVars
<1>2. ASSUME NEW d \in Conns, NEW g \in Feeds, Healthy(d)', Receives(d, g)'
      PROVE  Newest(d, g)' = cache'[g]
  <2>1. g # NoFeed /\ NoMsg.of = NoFeed /\ d \notin cancelled
    BY <1>1, <1>2, FeedAssumption DEF Feeds, NoMsg, Healthy, CtxDone
  <2>2. \/ writer'[d] = writer[d] /\ writing'[d] = writing[d] /\ view' = view /\ d # hub.conn
        \/ /\ d = hub.conn /\ writing[d] = NoMsg /\ writing'[d] = NoMsg
           /\ writer'[d] = "write" /\ writer[d] = "recv" /\ view' = view
    BY <1>1, <2>1, SendKeeps
  <2>3. Receives(d, g) /\ Healthy(d)
    BY <1>1, <1>2, <2>2 DEF Receives, Healthy, CtxDone
  <2>4. Newest(d, g) = cache[g]
    BY <2>3 DEF DataInv, NoLostUpdate
  <2> QED
    BY <1>1, <2>1, <2>2, <2>4 DEF Newest
<1>3. NoLostUpdate'
  BY <1>2 DEF NoLostUpdate
<1>4. QueueInv'
  BY FeedAssumption
     DEF TypeOK, DataInv, QueueInv,
         HubSendError, dataVars
<1>5. WriterInv'
  BY FeedAssumption
     DEF TypeOK, DataInv, WriterInv,
         HubSendError, Select, SelectOutcomes, writeVars
<1>6. SnapshotInv'
  BY FeedAssumption
     DEF TypeOK, DataInv, SnapshotInv, Newest, LifeInv, HubInv, Feeds,
         HubSendError, Select, SelectOutcomes, Hub, IdleHub, NoMsg, hubVars, sendVars, writeVars, readVars, jobVars, dataVars
<1>7. HubMsgInv'
  BY FeedAssumption
     DEF TypeOK, DataInv, HubMsgInv, LifeInv, HubInv, Feeds, QueueInv,
         HubSendError, Hub, IdleHub, NoMsg, hubVars, dataVars
<1> QED
  BY <1>3, <1>4, <1>5, <1>6, <1>7 DEF DataInv

LEMMA CacheChangeData ==
  ASSUME "relist" \notin Faults, TypeOK, LifeInv, DataInv, NEW f \in Feeds, CacheChange(f)
  PROVE  DataInv'
<1>1. /\ cache' = [cache EXCEPT ![f] = cache[f] + 1] /\ cache'[f] = cache[f] + 1
      /\ events' = [events EXCEPT ![f] = Append(events[f], [ver |-> cache'[f], wrapped |-> FALSE])]
      /\ [ver |-> cache'[f], wrapped |-> FALSE] \in Event
  <2>1. cache' = [cache EXCEPT ![f] = cache[f] + 1] /\ cache'[f] = cache[f] + 1 /\ cache'[f] \in Versions
    BY VersionAssumption DEF CacheChange, TypeOK, Versions
  <2>2. PICK w \in BOOLEAN :
          /\ w => "relist" \in Faults
          /\ events' = [events EXCEPT ![f] = Append(events[f], [ver |-> cache'[f], wrapped |-> w])]
    BY DEF CacheChange
  <2>3. w = FALSE
    BY <2>2
  <2> QED
    BY <2>1, <2>2, <2>3 DEF Event
<1>2. events[f] \in Seq(Event)
  BY DEF TypeOK
<1>3. /\ events'[f] = Append(events[f], [ver |-> cache'[f], wrapped |-> FALSE])
      /\ Len(events'[f]) = Len(events[f]) + 1
      /\ events'[f][Len(events'[f])] = [ver |-> cache'[f], wrapped |-> FALSE]
      /\ \A i \in 1 .. Len(events[f]) : events'[f][i] = events[f][i]
  BY <1>1, <1>2, AppendProperties DEF TypeOK
<1>4. \A i \in 1 .. Len(events'[f]) : events'[f][i].wrapped = FALSE
  <2>1. Len(events[f]) \in Nat
    BY <1>2
  <2>2. \A i \in 1 .. Len(events[f]) + 1 : i \in 1 .. Len(events[f]) \/ i = Len(events[f]) + 1
    BY <2>1
  <2> QED
    BY <1>1, <1>3, <2>1, <2>2 DEF DataInv, QueueInv
<1>5. ASSUME NEW g \in Feeds, g # f
      PROVE  events'[g] = events[g] /\ cache'[g] = cache[g]
  BY <1>1, <1>5 DEF TypeOK
<1>6. QueueInv'
  <2>1. events'[f][Len(events'[f])].ver = cache'[f]
    BY <1>3
  <2>2. ASSUME NEW g \in Feeds
        PROVE  /\ \A i \in 1 .. Len(events'[g]) : events'[g][i].wrapped = FALSE
               /\ events'[g] # <<>> => events'[g][Len(events'[g])].ver = cache'[g]
    BY <1>4, <1>5, <2>1 DEF DataInv, QueueInv
  <2> QED
    BY <2>2 DEF QueueInv
<1>7. /\ UNCHANGED <<hub, conns, cancelled, subs, sender, snapshot, writer, writing, view>>
      /\ events'[f] # <<>>
  <2>1. UNCHANGED <<hubVars, sendVars, writeVars>>
    BY DEF CacheChange
  <2> QED
    BY <1>1, <1>2, <1>3, <2>1, EmptySeq DEF hubVars, sendVars, writeVars
<1>8. WriterInv' /\ SnapshotInv'
  BY <1>5, <1>7, FeedAssumption DEF DataInv, WriterInv, SnapshotInv, Newest, Feeds
<1>9. HubMsgInv'
  BY <1>5, <1>7 DEF DataInv, HubMsgInv, LifeInv, HubInv, Feeds
<1>10. NoLostUpdate'
  BY <1>3, <1>5, <1>7 DEF DataInv, NoLostUpdate, Newest, Healthy, Receives, CtxDone
<1> QED
  BY <1>6, <1>8, <1>9, <1>10 DEF DataInv

LEMMA ListInitialData ==
  ASSUME TypeOK, LifeInv, DataInv, NEW k \in Kinds, ListInitial(k)
  PROVE  DataInv'
<1>1. /\ UNCHANGED <<hub, conns, cancelled, subs, writer, writing, view, cache, events>>
      /\ \A i \in Kinds \ {k} : sender'[i] = sender[i] /\ snapshot'[i] = snapshot[i]
      /\ sender'[k] \in {"send", "sendError"}
      /\ sender'[k] = "send" => snapshot'[k] = cache[k]
  BY DEF ListInitial, TypeOK, hubVars, writeVars, dataVars
<1>2. QueueInv' /\ WriterInv' /\ HubMsgInv'
  BY <1>1 DEF DataInv, QueueInv, WriterInv, HubMsgInv
<1>3. SnapshotInv'
  BY <1>1 DEF DataInv, SnapshotInv, Newest
<1>4. NoLostUpdate'
  BY <1>1 DEF DataInv, NoLostUpdate, Newest, Healthy, Receives, CtxDone
<1> QED
  BY <1>2, <1>3, <1>4 DEF DataInv

LEMMA JobSendData ==
  ASSUME TypeOK, LifeInv, DataInv, NEW c \in Conns, NEW j \in Jobs, JobSend(c, j)
  PROVE  DataInv'
<1>1. /\ UNCHANGED <<hub, conns, cancelled, closed, subs, sender, snapshot, cache, events>>
      /\ Select(c, NoMsg) /\ job[c][j] = "send" /\ NoMsg \in Message /\ closed \subseteq cancelled
  BY MessageType DEF JobSend, LifeInv, CloseInv, hubVars, sendVars, dataVars
<1>2. ASSUME NEW d \in Conns, NEW g \in Feeds, d \notin cancelled
      PROVE  /\ writer'[d] = "unregister" <=> writer[d] = "unregister"
             /\ Newest(d, g)' = Newest(d, g)
  <2>1. g # NoFeed /\ NoMsg.of = NoFeed
    BY FeedAssumption DEF Feeds, NoMsg
  <2>2. \/ writer'[d] = writer[d] /\ writing'[d] = writing[d] /\ view' = view /\ d # c
        \/ /\ d = c /\ writing[d] = NoMsg /\ writing'[d] = NoMsg
           /\ writer'[d] = "write" /\ writer[d] = "recv" /\ view' = view
    BY <1>1, <1>2, SendKeeps
  <2> QED
    BY <1>1, <2>1, <2>2 DEF Newest
<1>3. NoLostUpdate'
  BY <1>1, <1>2 DEF DataInv, NoLostUpdate, Healthy, Receives, CtxDone
<1>4. QueueInv' /\ HubMsgInv'
  BY <1>1 DEF DataInv, QueueInv, HubMsgInv
<1>5. WriterInv'
  BY <1>1 DEF TypeOK, DataInv, WriterInv, Select, SelectOutcomes
<1>6. SnapshotInv'
  <2>1. hub.pc = "initial" => hub.conn \in Conns \ cancelled
    BY DEF LifeInv, HubInv
  <2> QED
    BY <1>1, <1>2, <2>1 DEF DataInv, SnapshotInv, Feeds
<1> QED
  BY <1>3, <1>4, <1>5, <1>6 DEF DataInv

LEMMA DataStep ==
  "relist" \notin Faults /\ TypeOK /\ LifeInv /\ DataInv /\ [Next]_vars => DataInv'
<1> SUFFICES ASSUME "relist" \notin Faults, TypeOK, LifeInv, DataInv, [Next]_vars PROVE DataInv'
  OBVIOUS
<1> USE FeedAssumption DEF TypeOK, LifeInv, UnknownInv, StartedInv, CloseInv, HubInv, WriterAlive, DataInv, QueueInv,
            WriterInv, SnapshotInv, HubMsgInv, NoLostUpdate, Healthy, Receives, Newest, CtxDone,
            Feeds, hubVars, sendVars, writeVars, readVars, jobVars, dataVars
<1>1. ASSUME NEW c \in Conns, HandleWebsocket(c) PROVE DataInv'
  BY <1>1 DEF HandleWebsocket
<1>2. ASSUME NEW c \in Conns, RegisterConn(c) PROVE DataInv'
  BY <1>2, RegisterConnData
<1>3. ASSUME NEW k \in Kinds, ListInitial(k) PROVE DataInv'
  BY <1>3, ListInitialData
<1>4. ASSUME NEW k \in Kinds, InitialSend(k) PROVE DataInv'
  BY <1>4 DEF InitialSend, Select, SelectOutcomes, NoMsg
<1>5. ASSUME FinishRegister PROVE DataInv'
  BY <1>5, FinishRegisterData
<1>6. ASSUME NEW f \in Feeds, CacheChange(f) PROVE DataInv'
  BY <1>6, CacheChangeData
<1>7. ASSUME NEW f \in Feeds, DropTombstone(f) PROVE DataInv'
  BY <1>7 DEF DropTombstone
<1>8. ASSUME NEW f \in Feeds, ReceiveNotify(f) PROVE DataInv'
  BY <1>8, ReceiveNotifyData
<1>9. ASSUME NEW c \in Conns, NotifyNext(c) PROVE DataInv'
  BY <1>9, NotifyNextData
<1>10. ASSUME NotifyDone PROVE DataInv'
  BY <1>10, NotifyDoneData
<1>11. ASSUME HubSendUpdate PROVE DataInv'
  BY <1>11, HubSendUpdateData
<1>12. ASSUME NEW c \in Conns, Subscribe(c) PROVE DataInv'
  BY <1>12, SubscribeData
<1>13. ASSUME HubSendPods PROVE DataInv'
  BY <1>13, HubSendPodsData
<1>14. ASSUME HubSendError PROVE DataInv'
  BY <1>14, HubSendErrorData
<1>15. ASSUME NEW c \in Conns, ReaderUnregister(c) PROVE DataInv'
  BY <1>15 DEF ReaderUnregister, Unregister, AlreadyUnregistered, Hub, IdleHub, NoMsg
<1>16. ASSUME NEW c \in Conns, WriterUnregister(c) PROVE DataInv'
  BY <1>16 DEF WriterUnregister, Unregister, AlreadyUnregistered, Hub, IdleHub, NoMsg
<1>17. ASSUME NEW c \in Conns, NEW j \in Jobs, JobUnregister(c, j) PROVE DataInv'
  BY <1>17 DEF JobUnregister, Unregister, AlreadyUnregistered, Hub, IdleHub, NoMsg
<1>18. ASSUME CloseWriteChan PROVE DataInv'
  BY <1>18 DEF CloseWriteChan, Hub, IdleHub, NoMsg
<1>19. ASSUME NEW c \in Conns, WriteOK(c) PROVE DataInv'
  BY <1>19 DEF WriteOK, NoMsg
<1>20. ASSUME NEW c \in Conns, WriteFail(c) PROVE DataInv'
  BY <1>20 DEF WriteFail, NoMsg
<1>21. ASSUME NEW c \in Conns, CloseSocket(c) PROVE DataInv'
  BY <1>21 DEF CloseSocket
<1>22. ASSUME NEW c \in Conns, ReadClose(c) PROVE DataInv'
  BY <1>22 DEF ReadClose
<1>23. ASSUME NEW c \in Conns, ReadAbort(c) PROVE DataInv'
  BY <1>23 DEF ReadAbort
<1>24. ASSUME NEW c \in Conns, NEW a \in Apps, ReadSubscribe(c, a) PROVE DataInv'
  BY <1>24 DEF ReadSubscribe
<1>25. ASSUME NEW c \in Conns, NEW r \in Requests, ReadRequest(c, r) PROVE DataInv'
  BY <1>25 DEF ReadRequest
<1>26. ASSUME NEW c \in Conns, NEW j \in Jobs, JobSend(c, j) PROVE DataInv'
  BY <1>26, JobSendData
<1>27. ASSUME NEW c \in Conns, NEW j \in Jobs, CallApi(c, j) PROVE DataInv'
  BY <1>27 DEF CallApi, JobFrame
<1>28. ASSUME NEW c \in Conns, GetPod(c) PROVE DataInv'
  BY <1>28 DEF GetPod, JobFrame
<1>29. ASSUME NEW c \in Conns, OpenLog(c) PROVE DataInv'
  BY <1>29 DEF OpenLog, JobFrame
<1>30. ASSUME NEW c \in Conns, FlushLog(c) PROVE DataInv'
  BY <1>30 DEF FlushLog, JobFrame
<1>31. ASSUME NEW c \in Conns, EndLog(c) PROVE DataInv'
  BY <1>31 DEF EndLog, JobFrame
<1>32. ASSUME NEW c \in Conns, CancelLog(c) PROVE DataInv'
  BY <1>32 DEF CancelLog, JobFrame
<1>33. ASSUME NEW c \in Conns, CloseLog(c) PROVE DataInv'
  BY <1>33 DEF CloseLog, JobFrame
<1>34. CASE UNCHANGED vars
  BY <1>34 DEF vars
<1> QED
  BY <1>1, <1>2, <1>3, <1>4, <1>5, <1>6, <1>7, <1>8, <1>9, <1>10, <1>11, <1>12, <1>13, <1>14, <1>15, <1>16, <1>17, <1>18, <1>19, <1>20, <1>21, <1>22, <1>23, <1>24, <1>25, <1>26, <1>27, <1>28, <1>29, <1>30, <1>31, <1>32, <1>33, <1>34 DEF Next

\* Without missed deletions, a registered connection whose writes succeed never
\* misses a change of an object it receives: registerConn's list before the
\* connection is added to conns, the informers' queues, the hub's broadcasts and
\* the subscriptions leave no gap.
THEOREM NoLostUpdateTheorem == ASSUME "relist" \notin Faults PROVE Spec => []NoLostUpdate
<1>1. Init => TypeOK /\ LifeInv /\ DataInv
  BY TypeInit, LifeInit, DataInit
<1>2. TypeOK /\ LifeInv /\ DataInv /\ [Next]_vars => (TypeOK /\ LifeInv /\ DataInv)'
  BY TypeStep, LifeStep, DataStep
<1>3. DataInv => NoLostUpdate
  BY DEF DataInv
<1> QED
  BY <1>1, <1>2, <1>3, PTL DEF Spec

================================================================================
