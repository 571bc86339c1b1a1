------------------------------ MODULE FlowWatcher ------------------------------
(***************************************************************************)
(* The websocket hub of the flow webserver (internal/webserver): the one   *)
(* goroutine FlowWatcher.run that owns conns and connSubscriptions, and    *)
(* the goroutines that rendezvous with it and with each other over         *)
(* unbuffered channels.                                                    *)
(*                                                                         *)
(*   - handleWebsocket hands a new connection to the hub;                  *)
(*   - one writer per connection drains its writeChan to the socket;       *)
(*   - one reader per connection turns requests into hub messages or jobs; *)
(*   - one initial sender per kind of resource, while a connection is      *)
(*     being registered;                                                   *)
(*   - a job goroutine per container log stream, pod lookup, sync or retry;*)
(*   - one informer per feed that queues every change of the cache.        *)
(*                                                                         *)
(* Kept: every state change of these goroutines, their blocking points and *)
(* the checks before them.  Abstracted: an object is a version number (its *)
(* states in the cache are numbered from 1), a feed is one object of one   *)
(* kind or the pods of one application, a message is a feed and a version, *)
(* the text of an error is nothing.  Bounds: MaxVersion changes per feed,  *)
(* every connection connects once and starts a job of each kind once.      *)
(*                                                                         *)
(* An operator D_bug is the definition D with a plausible bug: no action   *)
(* uses it, and a property that D satisfies fails when it replaces D.      *)
(***************************************************************************)
EXTENDS Naturals, Sequences, FiniteSets

CONSTANTS Conns,       \* the websocket connections
          AuxConns,    \* those that skip the initial resources (isAuxWs)
          Kinds,       \* the kinds broadcast to all: flow, application, ...
          Apps,        \* the applications whose pods can be subscribed to
          Requests,    \* the requests clients make, of RequestTypes
          MaxVersion,  \* bound on the states an object goes through
          Faults,      \* what the environment may do, of FaultTypes
          NoConn,      \* not a connection
          NoFeed       \* not a feed: a message that carries no object

RequestTypes == {"containerLog", "syncApplication", "retryRollout"}

(***************************************************************************)
(* "leave": a client closes its socket normally.  "abort": it vanishes or  *)
(* sends what the reader cannot parse.  "write": a socket write fails.     *)
(* "list": a List of the cache fails.  "api": a request to the API server  *)
(* fails.  "relist": an informer misses a deletion and learns of it from a *)
(* later relist.                                                           *)
(***************************************************************************)
FaultTypes == {"leave", "abort", "write", "list", "api", "relist"}

ASSUME ConnAssumption == AuxConns \subseteq Conns /\ NoConn \notin Conns
ASSUME FeedAssumption == Kinds \cap Apps = {} /\ NoFeed \notin Kinds \cup Apps
ASSUME VersionAssumption == MaxVersion \in Nat \ {0}
ASSUME OptionAssumption == Requests \subseteq RequestTypes /\ Faults \subseteq FaultTypes

Feeds == Kinds \cup Apps
Jobs == {"log", "pod", "sync", "retry"}

(***************************************************************************)
(* A queued event or a message holds the version of the object it carries. *)
(* The event of a deletion that a relist finds is wrapped: client-go gives *)
(* the last known object to OnDelete in a DeletedFinalStateUnknown.        *)
(***************************************************************************)
Versions == 1 .. MaxVersion
Event == [ver : Versions, wrapped : BOOLEAN]
Message == [of : Feeds \cup {NoFeed}, ver : 0 .. MaxVersion]
NoMsg == [of |-> NoFeed, ver |-> 0]

VARIABLES
  handler,    \* handler[c]: the http handler, blocked on s.register at "register"
  hub,        \* the goroutine of run: where it is, for whom, with what message
  conns,      \* s.conns
  cancelled,  \* the connections whose ctx is done
  closed,     \* the connections whose writeChan is closed
  subs,       \* s.connSubscriptions[app]
  sender,     \* sender[k]: the initial sender of kind k, for hub.conn
  snapshot,   \* snapshot[k]: the version that sender has listed
  writer,     \* writer[c]: the goroutine of writeConn
  writing,    \* writing[c]: the message it is writing
  reader,     \* reader[c]: the goroutine of readConn
  request,    \* request[c]: the application it asks to subscribe to
  job,        \* job[c][j]: the goroutine of a request in progress
  after,      \* after[c][j]: where that goroutine goes after its send
  cache,      \* cache[f]: the version in the informer's cache
  events,     \* events[f]: the events its handler has still to deliver
  view,       \* view[c][f]: the last version written to the client, 0 if none
  crash       \* "none", or the panic that ended the process

hubVars == <<handler, hub, conns, cancelled, closed, subs>>
sendVars == <<sender, snapshot>>
writeVars == <<writer, writing, view>>
readVars == <<reader, request>>
jobVars == <<job, after>>
dataVars == <<cache, events>>
vars == <<hubVars, sendVars, writeVars, readVars, jobVars, dataVars, crash>>

HubPcs == {"select", "initial", "notify", "sendUpdate", "sendPods", "sendError",
           "selfUnregister", "unregister"}
SenderPcs == {"none", "list", "send", "sendError", "unregister", "done"}
WriterPcs == {"none", "recv", "write", "unregister", "done"}
ReaderPcs == {"none", "read", "subscribe", "exit", "panic", "done"}
Continuations == {"done", "stream", "closeStream", "fail", "failScan"}
JobPcs == {"idle", "work", "send"} \cup Continuations
Panics == {"none", "sendOnClosed", "closeOfClosed", "read"}

HubStates == [pc : HubPcs, conn : Conns \cup {NoConn}, todo : SUBSET Conns, msg : Message]

TypeOK ==
  /\ handler \in [Conns -> {"idle", "register", "done"}]
  /\ hub \in HubStates /\ (hub.pc \in {"select", "notify"} \/ hub.conn \in Conns)
  /\ conns \subseteq Conns
  /\ cancelled \subseteq Conns
  /\ closed \subseteq Conns
  /\ subs \in [Apps -> SUBSET Conns]
  /\ sender \in [Kinds -> SenderPcs]
  /\ snapshot \in [Kinds -> 0 .. MaxVersion]
  /\ writer \in [Conns -> WriterPcs]
  /\ writing \in [Conns -> Message]
  /\ reader \in [Conns -> ReaderPcs]
  /\ request \in [Conns -> Apps \cup {NoFeed}]
  /\ \A c \in Conns : reader[c] = "subscribe" => request[c] \in Apps
  /\ job \in [Conns -> [Jobs -> JobPcs]]
  /\ after \in [Conns -> [Jobs -> Continuations]]
  /\ cache \in [Feeds -> Versions]
  /\ events \in [Feeds -> Seq(Event)]
  /\ view \in [Conns -> [Feeds -> 0 .. MaxVersion]]
  /\ crash \in Panics

Hub(pc, c, todo, m) == [pc |-> pc, conn |-> c, todo |-> todo, msg |-> m]
IdleHub == Hub("select", NoConn, {}, NoMsg)

Init ==
  /\ handler = [c \in Conns |-> "idle"]
  /\ hub = IdleHub
  /\ conns = {}
  /\ cancelled = {}
  /\ closed = {}
  /\ subs = [a \in Apps |-> {}]
  /\ sender = [k \in Kinds |-> "none"]
  /\ snapshot = [k \in Kinds |-> 0]
  /\ writer = [c \in Conns |-> "none"]
  /\ writing = [c \in Conns |-> NoMsg]
  /\ reader = [c \in Conns |-> "none"]
  /\ request = [c \in Conns |-> NoFeed]
  /\ job = [c \in Conns |-> [j \in Jobs |-> "idle"]]
  /\ after = [c \in Conns |-> [j \in Jobs |-> "done"]]
  /\ cache = [f \in Feeds |-> 1]
  /\ events = [f \in Feeds |-> <<>>]
  /\ view = [c \in Conns |-> [f \in Feeds |-> 0]]
  /\ crash = "none"

Running == crash = "none"

--------------------------------------------------------------------------------
(* sendConn.  The check of conn.ctx.Err() and the select are two steps: the   *)
(* goroutine may be overtaken by unregisterConn between them.                 *)

CtxDone(c) == c \in cancelled

\* A select with a default case: a busy writer is skipped.
SelectOutcomes_default(c) ==
  {o \in {"sent", "skipped", "panicked"} :
     \/ o = "sent" /\ writer[c] = "recv" /\ c \notin closed
     \/ o = "skipped" /\ (CtxDone(c) \/ writer[c] # "recv")
     \/ o = "panicked" /\ c \in closed}

(***************************************************************************)
(* What the select of sendConn can do.  A goroutine that is parked in the  *)
(* select when ctx is cancelled takes ctx.Done; one that enters it once    *)
(* writeChan is closed finds both cases ready, and Go picks either.        *)
(***************************************************************************)
SelectOutcomes(c) ==
  {o \in {"sent", "skipped", "panicked"} :
     \/ o = "sent" /\ writer[c] = "recv" /\ c \notin closed
     \/ o = "skipped" /\ CtxDone(c)
     \/ o = "panicked" /\ c \in closed}

Select(c, m) ==
  \E o \in SelectOutcomes(c) :
    /\ writer' = IF o = "sent" THEN [writer EXCEPT ![c] = "write"] ELSE writer
    /\ writing' = IF o = "sent" THEN [writing EXCEPT ![c] = m] ELSE writing
    /\ crash' = IF o = "panicked" THEN "sendOnClosed" ELSE "none"
    /\ UNCHANGED view

--------------------------------------------------------------------------------
(* Registration: handleWebsocket, registerConn and the initial senders.       *)

HandleWebsocket(c) ==
  /\ Running /\ handler[c] = "idle"
  /\ handler' = [handler EXCEPT ![c] = "register"]
  /\ UNCHANGED <<hub, conns, cancelled, closed, subs, sendVars, writeVars, readVars,
                 jobVars, dataVars, crash>>

RegisterConn(c) ==
  /\ Running /\ hub.pc = "select" /\ handler[c] = "register"
  /\ handler' = [handler EXCEPT ![c] = "done"]
  /\ writer' = [writer EXCEPT ![c] = "recv"]
  /\ IF c \in AuxConns
       THEN /\ conns' = conns \cup {c}
            /\ reader' = [reader EXCEPT ![c] = "read"]
            /\ UNCHANGED <<hub, sender>>
       ELSE /\ hub' = Hub("initial", c, {}, NoMsg)
            /\ sender' = [k \in Kinds |-> "list"]
            /\ UNCHANGED <<conns, reader>>
  /\ UNCHANGED <<cancelled, closed, subs, snapshot, writing, view, request, jobVars,
                 dataVars, crash>>

\* The connection is not in conns yet, so its ctx cannot be done: sendConn's
\* check passes.
ListInitial(k) ==
  /\ Running /\ hub.pc = "initial" /\ sender[k] = "list"
  /\ \/ /\ sender' = [sender EXCEPT ![k] = "send"]
        /\ snapshot' = [snapshot EXCEPT ![k] = cache[k]]
     \/ /\ "list" \in Faults
        /\ sender' = [sender EXCEPT ![k] = "sendError"]
        /\ UNCHANGED snapshot
  /\ UNCHANGED <<hubVars, writeVars, readVars, jobVars, dataVars, crash>>

\* sendWebErrorAndClose leaves the sender at s.unregister, where the hub, which
\* waits for it in wg.Wait, never receives.
InitialSend(k) ==
  /\ Running /\ hub.pc = "initial" /\ sender[k] \in {"send", "sendError"}
  /\ Select(hub.conn, IF sender[k] = "send" THEN [of |-> k, ver |-> snapshot[k]] ELSE NoMsg)
  /\ sender' = [sender EXCEPT ![k] = IF @ = "send" THEN "done" ELSE "unregister"]
  /\ snapshot' = [snapshot EXCEPT ![k] = 0]
  /\ UNCHANGED <<hubVars, readVars, jobVars, dataVars>>

\* A sender that forgets wg.Done.
InitialSendersDone_stuck == FALSE
InitialSendersDone == \A k \in Kinds : sender[k] = "done"

\* readConn is not started.
FinishRegister_noReader ==
  /\ Running /\ hub.pc = "initial" /\ InitialSendersDone
  /\ conns' = conns \cup {hub.conn}
  /\ sender' = [k \in Kinds |-> "none"]
  /\ hub' = IdleHub
  /\ UNCHANGED <<handler, cancelled, closed, subs, snapshot, writeVars, readVars, jobVars,
                 dataVars, crash>>

FinishRegister ==
  /\ Running /\ hub.pc = "initial" /\ InitialSendersDone
  /\ conns' = conns \cup {hub.conn}
  /\ reader' = [reader EXCEPT ![hub.conn] = "read"]
  /\ sender' = [k \in Kinds |-> "none"]
  /\ hub' = IdleHub
  /\ UNCHANGED <<handler, cancelled, closed, subs, snapshot, writeVars, request, jobVars,
                 dataVars, crash>>

--------------------------------------------------------------------------------
(* The informers, and the hub's broadcasts: OnAdd, OnUpdate, OnDelete,        *)
(* onSubscriptionResource*, notifyAll and notifyResourceSubscriptions.        *)

\* The informer stores a new state of the object and queues its event.
CacheChange(f) ==
  /\ Running /\ cache[f] < MaxVersion
  /\ cache' = [cache EXCEPT ![f] = @ + 1]
  /\ \E w \in BOOLEAN :
       /\ w => "relist" \in Faults
       /\ events' = [events EXCEPT ![f] = Append(@, [ver |-> cache'[f], wrapped |-> w])]
  /\ UNCHANGED <<hubVars, sendVars, writeVars, readVars, jobVars, crash>>

\* The delete handlers do not know a DeletedFinalStateUnknown: they log its type.
DropTombstone(f) ==
  /\ Running /\ events[f] # <<>> /\ Head(events[f]).wrapped
  /\ events' = [events EXCEPT ![f] = Tail(@)]
  /\ UNCHANGED <<hubVars, sendVars, writeVars, readVars, jobVars, cache, crash>>

\* Subscribers of pods are not notified.
NotifyTargets_noPods(f) == IF f \in Apps THEN {} ELSE conns \ AuxConns
NotifyTargets(f) == IF f \in Apps THEN subs[f] ELSE conns \ AuxConns

ReceiveNotify(f) ==
  /\ Running /\ hub.pc = "select"
  /\ events[f] # <<>> /\ ~Head(events[f]).wrapped
  /\ events' = [events EXCEPT ![f] = Tail(@)]
  /\ hub' = Hub("notify", NoConn, NotifyTargets(f), [of |-> f, ver |-> Head(events[f]).ver])
  /\ UNCHANGED <<handler, conns, cancelled, closed, subs, sendVars, writeVars, readVars,
                 jobVars, cache, crash>>

\* Nothing is pruned.
Stale_never(c) == FALSE

\* A subscriber that is no longer registered is pruned, only here.
Stale(c) == hub.msg.of \in Apps /\ c \notin conns

NotifyNext(c) ==
  /\ Running /\ hub.pc = "notify" /\ c \in hub.todo
  /\ subs' = IF Stale(c) THEN [subs EXCEPT ![hub.msg.of] = @ \ {c}] ELSE subs
  /\ hub' = IF Stale(c) \/ CtxDone(c)
              THEN Hub("notify", NoConn, hub.todo \ {c}, hub.msg)
              ELSE Hub("sendUpdate", c, hub.todo \ {c}, hub.msg)
  /\ UNCHANGED <<handler, conns, cancelled, closed, sendVars, writeVars, readVars, jobVars,
                 dataVars, crash>>

NotifyDone ==
  /\ Running /\ hub.pc = "notify" /\ hub.todo = {}
  /\ hub' = IdleHub
  /\ UNCHANGED <<handler, conns, cancelled, closed, subs, sendVars, writeVars, readVars,
                 jobVars, dataVars, crash>>

HubSendUpdate ==
  /\ Running /\ hub.pc = "sendUpdate"
  /\ Select(hub.conn, hub.msg)
  /\ hub' = Hub("notify", NoConn, hub.todo, hub.msg)
  /\ UNCHANGED <<handler, conns, cancelled, closed, subs, sendVars, readVars, jobVars, dataVars>>

--------------------------------------------------------------------------------
(* registerResourceSubscription.                                              *)

AddSub(a, c) == subs' = [subs EXCEPT ![a] = @ \cup {c}]

Subscribe(c) ==
  /\ Running /\ hub.pc = "select" /\ reader[c] = "subscribe"
  /\ reader' = [reader EXCEPT ![c] = "read"]
  /\ request' = [request EXCEPT ![c] = NoFeed]
  /\ \/ \* already subscribed
        /\ c \in subs[request[c]]
        /\ UNCHANGED <<hub, subs>>
     \/ \* the pods are listed, and sendConn skips them if the connection is gone
        /\ c \notin subs[request[c]]
        /\ IF CtxDone(c)
             THEN AddSub(request[c], c) /\ UNCHANGED hub
             ELSE /\ hub' = Hub("sendPods", c, {}, [of |-> request[c], ver |-> cache[request[c]]])
                  /\ UNCHANGED subs
     \/ \* the List fails: sendWebErrorAndClose, in the hub's own goroutine
        /\ c \notin subs[request[c]] /\ "list" \in Faults
        /\ hub' = Hub(IF CtxDone(c) THEN "selfUnregister" ELSE "sendError", c, {}, NoMsg)
        /\ UNCHANGED subs
  /\ UNCHANGED <<handler, conns, cancelled, closed, sendVars, writeVars, jobVars, dataVars,
                 crash>>

HubSendPods ==
  /\ Running /\ hub.pc = "sendPods"
  /\ Select(hub.conn, hub.msg)
  /\ AddSub(hub.msg.of, hub.conn)
  /\ hub' = IdleHub
  /\ UNCHANGED <<handler, conns, cancelled, closed, sendVars, readVars, jobVars, dataVars>>

\* At "selfUnregister" the hub sends to s.unregister, which only the hub
\* receives from: it stays there.
HubSendError ==
  /\ Running /\ hub.pc = "sendError"
  /\ Select(hub.conn, NoMsg)
  /\ hub' = Hub("selfUnregister", hub.conn, {}, NoMsg)
  /\ UNCHANGED <<handler, conns, cancelled, closed, subs, sendVars, readVars, jobVars, dataVars>>

--------------------------------------------------------------------------------
(* unregisterConn, received from the reader, the writer or a job.             *)

\* The check at the head of unregisterConn is missing.
AlreadyUnregistered_unchecked(c) == FALSE
AlreadyUnregistered(c) == c \notin conns

Unregister(c) ==
  /\ hub.pc = "select"
  /\ IF AlreadyUnregistered(c)
       THEN UNCHANGED <<hub, cancelled>>
       ELSE /\ cancelled' = cancelled \cup {c}
            /\ hub' = Hub("unregister", c, {}, NoMsg)
  /\ UNCHANGED <<handler, conns, closed, subs>>

\* The deferred send of a reader that panics; then the panic ends the process.
ReaderUnregister(c) ==
  /\ Running /\ reader[c] \in {"exit", "panic"}
  /\ Unregister(c)
  /\ reader' = [reader EXCEPT ![c] = "done"]
  /\ crash' = IF reader[c] = "panic" THEN "read" ELSE "none"
  /\ UNCHANGED <<sendVars, writeVars, request, jobVars, dataVars>>

WriterUnregister(c) ==
  /\ Running /\ writer[c] = "unregister"
  /\ Unregister(c)
  /\ writer' = [writer EXCEPT ![c] = "recv"]
  /\ UNCHANGED <<sendVars, writing, view, readVars, jobVars, dataVars, crash>>

\* The error is sent and the connection kept.
JobUnregister_keep(c, j) ==
  /\ Running /\ hub.pc = "select" /\ job[c][j] \in {"fail", "failScan"}
  /\ job' = [job EXCEPT ![c][j] = IF @ = "failScan" THEN "closeStream" ELSE "done"]
  /\ UNCHANGED <<hubVars, sendVars, writeVars, readVars, after, dataVars, crash>>

\* A failed scan still has its stream to close.
JobUnregister(c, j) ==
  /\ Running /\ job[c][j] \in {"fail", "failScan"}
  /\ Unregister(c)
  /\ job' = [job EXCEPT ![c][j] = IF @ = "failScan" THEN "closeStream" ELSE "done"]
  /\ UNCHANGED <<sendVars, writeVars, readVars, after, dataVars, crash>>

\* delete(s.conns, conn), close(conn.writeChan)
CloseWriteChan ==
  /\ Running /\ hub.pc = "unregister"
  /\ conns' = conns \ {hub.conn}
  /\ closed' = closed \cup {hub.conn}
  /\ crash' = IF hub.conn \in closed THEN "closeOfClosed" ELSE "none"
  /\ hub' = IdleHub
  /\ UNCHANGED <<handler, cancelled, subs, sendVars, writeVars, readVars, jobVars, dataVars>>

--------------------------------------------------------------------------------
(* writeConn.                                                                 *)

WriteOK(c) ==
  /\ Running /\ writer[c] = "write"
  /\ view' = IF writing[c].of = NoFeed THEN view
             ELSE [view EXCEPT ![c][writing[c].of] = writing[c].ver]
  /\ writer' = [writer EXCEPT ![c] = "recv"]
  /\ writing' = [writing EXCEPT ![c] = NoMsg]
  /\ UNCHANGED <<hubVars, sendVars, readVars, jobVars, dataVars, crash>>

\* The writer returns when a write fails.
WriteFail_return(c) ==
  /\ Running /\ writer[c] = "write"
  /\ "write" \in Faults \/ reader[c] \in {"exit", "panic", "done"}
  /\ writer' = [writer EXCEPT ![c] = "done"]
  /\ writing' = [writing EXCEPT ![c] = NoMsg]
  /\ UNCHANGED <<hubVars, sendVars, view, readVars, jobVars, dataVars, crash>>

\* Once the closing handshake has been read, every later write fails.
WriteFail(c) ==
  /\ Running /\ writer[c] = "write"
  /\ "write" \in Faults \/ reader[c] \in {"exit", "panic", "done"}
  /\ writer' = [writer EXCEPT ![c] = "unregister"]
  /\ writing' = [writing EXCEPT ![c] = NoMsg]
  /\ UNCHANGED <<hubVars, sendVars, view, readVars, jobVars, dataVars, crash>>

CloseSocket(c) ==
  /\ Running /\ writer[c] = "recv" /\ c \in closed
  /\ writer' = [writer EXCEPT ![c] = "done"]
  /\ UNCHANGED <<hubVars, sendVars, writing, view, readVars, jobVars, dataVars, crash>>

--------------------------------------------------------------------------------
(* readConn, and the handlers it calls.                                       *)

\* The client closes the socket, or writeConn has.
ReadClose(c) ==
  /\ Running /\ reader[c] = "read"
  /\ "leave" \in Faults \/ writer[c] = "done"
  /\ reader' = [reader EXCEPT ![c] = "exit"]
  /\ UNCHANGED <<hubVars, sendVars, writeVars, request, jobVars, dataVars, crash>>

ReadAbort(c) ==
  /\ Running /\ reader[c] = "read" /\ "abort" \in Faults
  /\ reader' = [reader EXCEPT ![c] = "panic"]
  /\ UNCHANGED <<hubVars, sendVars, writeVars, request, jobVars, dataVars, crash>>

\* The application asked for is not passed on.
ReadSubscribe_noApp(c, a) ==
  /\ Running /\ reader[c] = "read"
  /\ reader' = [reader EXCEPT ![c] = "subscribe"]
  /\ UNCHANGED <<hubVars, sendVars, writeVars, request, jobVars, dataVars, crash>>

ReadSubscribe(c, a) ==
  /\ Running /\ reader[c] = "read"
  /\ reader' = [reader EXCEPT ![c] = "subscribe"]
  /\ request' = [request EXCEPT ![c] = a]
  /\ UNCHANGED <<hubVars, sendVars, writeVars, jobVars, dataVars, crash>>

JobsOf(r) == CASE r = "containerLog" -> {"log", "pod"}
               [] r = "syncApplication" -> {"sync"}
               [] r = "retryRollout" -> {"retry"}

ReadRequest(c, r) ==
  /\ Running /\ reader[c] = "read"
  /\ \A j \in JobsOf(r) : job[c][j] = "idle"
  /\ job' = [job EXCEPT ![c] = [j \in Jobs |-> IF j \in JobsOf(r) THEN "work" ELSE job[c][j]]]
  /\ UNCHANGED <<hubVars, sendVars, writeVars, readVars, after, dataVars, crash>>

--------------------------------------------------------------------------------
(* The jobs: streamLogLines, sendPod, syncApplication and retryRollout.       *)

ApiCanFail(c) == "api" \in Faults \/ CtxDone(c)

Become(c, j, pc) == job' = [job EXCEPT ![c][j] = pc] /\ UNCHANGED after

\* sendConn's check: the job skips the select if ctx is done, and then goes on
\* at next.  sendWebErrorAndClose is such a send, then s.unregister: "fail".
StartSend(c, j, next) ==
  IF CtxDone(c) THEN Become(c, j, next)
  ELSE /\ job' = [job EXCEPT ![c][j] = "send"]
       /\ after' = [after EXCEPT ![c][j] = next]

JobSend(c, j) ==
  /\ Running /\ job[c][j] = "send"
  /\ Select(c, NoMsg)
  /\ job' = [job EXCEPT ![c][j] = after[c][j]]
  /\ after' = [after EXCEPT ![c][j] = "done"]
  /\ UNCHANGED <<hubVars, sendVars, readVars, dataVars>>

JobFrame == UNCHANGED <<hubVars, sendVars, writeVars, readVars, dataVars, crash>>

\* syncClient.Sync or Status().Patch
CallApi(c, j) ==
  /\ Running /\ j \in {"sync", "retry"} /\ job[c][j] = "work"
  /\ \/ Become(c, j, "done")
     \/ ApiCanFail(c) /\ StartSend(c, j, "fail")
  /\ JobFrame

\* The pod, or the error that there is none, is one send.
GetPod(c) ==
  /\ Running /\ job[c]["pod"] = "work"
  /\ \/ StartSend(c, "pod", "done")
     \/ ApiCanFail(c) /\ StartSend(c, "pod", "fail")
  /\ JobFrame

OpenLog(c) ==
  /\ Running /\ job[c]["log"] = "work"
  /\ \/ Become(c, "log", "stream")
     \/ StartSend(c, "log", "done")
     \/ ApiCanFail(c) /\ StartSend(c, "log", "fail")
  /\ JobFrame

FlushLog(c) ==
  /\ Running /\ job[c]["log"] = "stream"
  /\ StartSend(c, "log", "stream")
  /\ JobFrame

\* The scan ends: with the end marker, or with an error.
EndLog(c) ==
  /\ Running /\ job[c]["log"] = "stream"
  /\ \/ StartSend(c, "log", "closeStream")
     \/ ApiCanFail(c) /\ StartSend(c, "log", "failScan")
  /\ JobFrame

\* The select of the scan has no case for ctx.Done.
CancelLog_never(c) == FALSE
CancelLog(c) ==
  /\ Running /\ job[c]["log"] = "stream" /\ CtxDone(c)
  /\ Become(c, "log", "closeStream")
  /\ JobFrame

CloseLog(c) ==
  /\ Running /\ job[c]["log"] = "closeStream"
  /\ \/ Become(c, "log", "done")
     \/ "api" \in Faults /\ StartSend(c, "log", "fail")
  /\ JobFrame

--------------------------------------------------------------------------------
Next ==
  \/ \E c \in Conns : HandleWebsocket(c) \/ RegisterConn(c)
  \/ \E k \in Kinds : ListInitial(k) \/ InitialSend(k)
  \/ FinishRegister
  \/ \E f \in Feeds : CacheChange(f) \/ DropTombstone(f) \/ ReceiveNotify(f)
  \/ \E c \in Conns : NotifyNext(c)
  \/ NotifyDone \/ HubSendUpdate
  \/ \E c \in Conns : Subscribe(c)
  \/ HubSendPods \/ HubSendError
  \/ \E c \in Conns : ReaderUnregister(c) \/ WriterUnregister(c)
  \/ \E c \in Conns, j \in Jobs : JobUnregister(c, j)
  \/ CloseWriteChan
  \/ \E c \in Conns : WriteOK(c) \/ WriteFail(c) \/ CloseSocket(c)
  \/ \E c \in Conns : ReadClose(c) \/ ReadAbort(c)
  \/ \E c \in Conns, a \in Apps : ReadSubscribe(c, a)
  \/ \E c \in Conns, r \in Requests : ReadRequest(c, r)
  \/ \E c \in Conns, j \in Jobs : JobSend(c, j) \/ CallApi(c, j)
  \/ \E c \in Conns : GetPod(c) \/ OpenLog(c) \/ FlushLog(c) \/ EndLog(c)
                      \/ CancelLog(c) \/ CloseLog(c)

Spec == Init /\ [][Next]_vars

(***************************************************************************)
(* Fairness.  A goroutine that can run does run, and a channel that stays  *)
(* ready is eventually chosen by a select: WF.  The hub's send to a writer *)
(* competes with a log stream that may send to the same writer forever; Go *)
(* queues blocked senders first in, first out: SF.  Clients and the        *)
(* cluster owe nothing: they need not connect, ask, leave or change.       *)
(***************************************************************************)
HubFairness ==
  /\ \A c \in Conns : WF_vars(RegisterConn(c)) /\ WF_vars(Subscribe(c))
  /\ \A c \in Conns : WF_vars(ReaderUnregister(c)) /\ WF_vars(WriterUnregister(c))
  /\ \A c \in Conns, j \in Jobs : WF_vars(JobUnregister(c, j))
  /\ \A f \in Feeds : WF_vars(ReceiveNotify(f)) /\ WF_vars(DropTombstone(f))
  /\ WF_vars(NotifyDone \/ \E c \in Conns : NotifyNext(c))
  /\ WF_vars(FinishRegister) /\ WF_vars(CloseWriteChan)
  /\ SF_vars(HubSendUpdate \/ HubSendPods \/ HubSendError)
  /\ \A k \in Kinds : WF_vars(ListInitial(k) \/ InitialSend(k))

ConnFairness ==
  \A c \in Conns :
    /\ WF_vars(WriteOK(c) \/ WriteFail(c)) /\ WF_vars(CloseSocket(c))
    /\ WF_vars(writer[c] = "done" /\ ReadClose(c))
    /\ \A j \in Jobs : WF_vars(JobSend(c, j))
    /\ \A j \in {"sync", "retry"} : WF_vars(CallApi(c, j))
    /\ WF_vars(GetPod(c)) /\ WF_vars(OpenLog(c)) /\ WF_vars(CancelLog(c))
    /\ WF_vars(CloseLog(c))

FairSpec == Spec /\ HubFairness /\ ConnFairness

--------------------------------------------------------------------------------
(* Properties.                                                                *)

\* The hub never closes a writeChan twice, however many of the reader, the
\* writer and the jobs of a connection ask to unregister it (unregisterConn).
NoDoubleClose == crash # "closeOfClosed"

\* While the hub or an initial sender is in the select of sendConn, the
\* connection's writeChan is open and its writer has not ended: only the hub
\* closes it, and not before it leaves the select.
HubSendsToOpenChannel ==
  hub.pc \in {"initial", "sendUpdate", "sendPods", "sendError"} =>
    hub.conn \notin closed /\ writer[hub.conn] \in {"recv", "write", "unregister"}

\* "All writes go through sendConn", and the ctx is cancelled before the
\* channel is closed: no goroutine sends on a closed writeChan.
NoSendOnClosed == crash # "sendOnClosed"

Receives(c, f) == IF f \in Apps THEN c \in subs[f] ELSE c \notin AuxConns

Healthy(c) == c \in conns /\ ~CtxDone(c) /\ writer[c] # "unregister"

\* The newest version of f on its way to c, or at c.
Newest(c, f) ==
  IF events[f] # <<>> THEN events[f][Len(events[f])].ver
  ELSE IF hub.msg.of = f /\ c \in hub.todo \cup {hub.conn} THEN hub.msg.ver
  ELSE IF writing[c].of = f THEN writing[c].ver
  ELSE view[c][f]

\* A registered connection misses no change: of every object it receives, the
\* newest version on its way to it (in the informer's queue, in the hub, in the
\* writer) or already written is the one in the cache, so neither the gap
\* between the initial List and the registration nor a stale event that follows
\* a newer snapshot loses a state.
NoLostUpdate ==
  \A c \in Conns, f \in Feeds :
    Healthy(c) /\ Receives(c, f) => Newest(c, f) = cache[f]

\* Subscriptions are not removed when a connection unregisters; the next
\* broadcast to the application's subscribers leaves none of them behind.
StaleSubscriptionsPruned ==
  [][hub.pc = "notify" /\ hub'.pc = "select" /\ hub.msg.of \in Apps
       => subs'[hub.msg.of] \subseteq conns']_vars

\* The hub always comes back to its select.
HubReturns == []<>(hub.pc = "select" \/ crash # "none")

\* A new websocket is eventually registered and read from.
RegisterCompletes ==
  \A c \in Conns : handler[c] = "register" ~> reader[c] # "none"

\* Once the cluster is quiet, every registered client has the current version
\* of every object it receives.
Converges ==
  <>[](\A c \in conns, f \in Feeds : Receives(c, f) => view[c][f] = cache[f])

\* When a client leaves, its socket is closed and none of its goroutines is
\* left: the writer, the log stream and every other job end.
NoGoroutineLeak ==
  \A c \in Conns :
    reader[c] = "exit" ~> \/ crash # "none"
                         \/ /\ writer[c] = "done"
                            /\ \A j \in Jobs : job[c][j] \in {"idle", "done"}

\* sendWebErrorAndClose closes the connection.
ErrorCloses ==
  \A c \in Conns, j \in Jobs :
    job[c][j] \in {"fail", "failScan"} ~> crash # "none" \/ writer[c] = "done"

\* A connection whose write failed is closed: "failed to notify conn. Closing...".
FailedWriteCloses ==
  \A c \in Conns : writer[c] = "unregister" ~> crash # "none" \/ c \in closed

--------------------------------------------------------------------------------
(* The refinement.  A connection is closed once its writer has ended, not     *)
(* when the hub closes its writeChan.                                         *)

Life(c) ==
  CASE writer[c] = "done" -> "closed"
    [] writer[c] # "done" /\ c \in cancelled -> "closing"
    [] writer[c] # "done" /\ c \in conns \ cancelled -> "open"
    [] writer[c] \notin {"none", "done"} /\ c \notin conns \cup cancelled -> "connecting"
    [] OTHER -> "absent"

Lifecycle == INSTANCE ConnLifecycle
               WITH life <- [c \in Conns |-> Life(c)], shown <- view, current <- cache

\* The hub, its writers, readers and jobs implement the life of a connection:
\* it is cancelled before its socket is closed, closed once and for good,
\* whoever asks for it first, and nothing is written before registerConn or
\* after the close (flow_watcher.go:102-201, weberror.go:84-96).
ImplementsLifecycle == Lifecycle!LifeSpec
================================================================================
