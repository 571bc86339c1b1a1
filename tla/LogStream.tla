------------------------------- MODULE LogStream -------------------------------
(***************************************************************************)
(* streamLogLines and readLogLines (internal/webserver,                    *)
(* container_log_message_handler.go): how the log of a container reaches   *)
(* one websocket client.                                                   *)
(*                                                                         *)
(*   - the container logs lines until it ends, or its stream breaks;       *)
(*   - the scanner goroutine offers each line on the unbuffered scanChan;  *)
(*   - the streamer collects them in logLines and hands them to the        *)
(*     writer when 50 ms have passed without a line, or at the end;        *)
(*   - the writer of the connection encodes what it was handed.            *)
(*                                                                         *)
(* A slice is an array of the heap and a length, as in Go: a message holds *)
(* the slice, not its lines, and the writer reads the array while it       *)
(* encodes.  Abstracted: a line is its number in the log; the writer       *)
(* serves this stream only; what a cancelled connection does elsewhere is  *)
(* the module FlowWatcher.  Bound: MaxLines lines in a log.                *)
(***************************************************************************)
EXTENDS Naturals, Sequences, SequencesExt

CONSTANT MaxLines    \* bound on the lines the container logs

ASSUME MaxLinesAssumption == MaxLines \in Nat \ {0}

VARIABLES
  container,   \* [lines, end]: the lines logged, and how the stream stands
  scanner,     \* the goroutine of readLogLines
  scanned,     \* the number of lines it has read
  streamer,    \* the goroutine of streamLogLines
  timer,       \* the debounce timer
  heap,        \* the arrays allocated for logLines, by address
  logLines,    \* the slice [array, len] the streamer appends to
  wire,        \* the writer: [slice, out] while it encodes a message, "recv" else
  delivered,   \* the messages written to the socket
  logCtx       \* "live", or "done" when the connection has been cancelled

LogVars == <<container, scanner, scanned, streamer, timer, heap, logLines, wire, delivered, logCtx>>

Lines == 1 .. MaxLines
Slices == [array : 0 .. MaxLines, len : 0 .. MaxLines]
NoSlice == [array |-> 0, len |-> 0]       \* []string{}
Idle == [pc |-> "recv", slice |-> NoSlice, out |-> <<>>]

LogTypeOK ==
  /\ container \in [lines : 0 .. MaxLines, end : {"open", "eof", "error"}]
  /\ scanner \in {"none", "scan", "offer", "closed"}
  /\ scanned \in 0 .. container.lines
  /\ streamer \in {"open", "select", "flush", "last", "marker", "done", "failed"}
  /\ timer \in {"off", "running", "expired"}
  /\ heap \in Seq(Seq(0 .. MaxLines))
  /\ logLines \in Slices /\ logLines.array <= Len(heap)
  /\ logLines.len <= IF logLines.array = 0 THEN 0 ELSE Len(heap[logLines.array])
  /\ wire.pc \in {"recv", "encode"} /\ wire.slice \in Slices
  /\ wire.out \in Seq(Lines) /\ Len(wire.out) <= wire.slice.len
  /\ delivered \in Seq(Seq(Lines))
  /\ logCtx \in {"live", "done"}

LogInit ==
  /\ container = [lines |-> 0, end |-> "open"]
  /\ scanner = "none"
  /\ scanned = 0
  /\ streamer = "open"
  /\ timer = "off"
  /\ heap = <<>>
  /\ logLines = NoSlice
  /\ wire = Idle
  /\ delivered = <<>>
  /\ logCtx = "live"

--------------------------------------------------------------------------------
(* The container and the connection, which this code does not control.        *)

ContainerLogs ==
  /\ container.end = "open" /\ container.lines < MaxLines
  /\ container' = [container EXCEPT !.lines = @ + 1]
  /\ UNCHANGED <<scanner, scanned, streamer, timer, heap, logLines, wire, delivered, logCtx>>

\* "error": the API server drops the stream, or a line is too long to scan.
ContainerEnds ==
  /\ container.end = "open"
  /\ \E e \in {"eof", "error"} : container' = [container EXCEPT !.end = e]
  /\ UNCHANGED <<scanner, scanned, streamer, timer, heap, logLines, wire, delivered, logCtx>>

CancelConn ==
  /\ logCtx = "live"
  /\ logCtx' = "done"
  /\ UNCHANGED <<container, scanner, scanned, streamer, timer, heap, logLines, wire, delivered>>

--------------------------------------------------------------------------------
(* readLogLines.                                                              *)

\* The stream was opened with ctx: reading it fails once ctx is done, and so it
\* does once the streamer has closed it.
StreamEnds ==
  \/ logCtx = "done" \/ streamer \in {"done", "failed"}
  \/ container.end = "error"
  \/ container.end = "eof" /\ scanned = container.lines

ScanLine ==
  /\ scanner = "scan" /\ logCtx = "live" /\ scanned < container.lines
  /\ streamer \notin {"done", "failed"}
  /\ scanned' = scanned + 1
  /\ scanner' = "offer"
  /\ UNCHANGED <<container, streamer, timer, heap, logLines, wire, delivered, logCtx>>

\* The offer is not abandoned with the connection.
ScanEnds_stuck ==
  /\ scanner = "scan" /\ StreamEnds
  /\ scanner' = "closed"
  /\ UNCHANGED <<container, scanned, streamer, timer, heap, logLines, wire, delivered, logCtx>>

\* close(scanChan): the scan is over, or ctx is done during the offer of a line.
ScanEnds ==
  /\ (scanner = "scan" /\ StreamEnds) \/ (scanner = "offer" /\ logCtx = "done")
  /\ scanner' = "closed"
  /\ UNCHANGED <<container, scanned, streamer, timer, heap, logLines, wire, delivered, logCtx>>

--------------------------------------------------------------------------------
(* streamLogLines.                                                            *)

OpenStream ==
  /\ streamer = "open"
  /\ \/ /\ logCtx = "live"
        /\ streamer' = "select" /\ scanner' = "scan" /\ timer' = "running"
     \/ \* GetLogs fails: an error is sent, and unless it is NotFound the connection closed
        streamer' = "failed" /\ UNCHANGED <<scanner, timer>>
  /\ UNCHANGED <<container, scanned, heap, logLines, wire, delivered, logCtx>>

TimerExpires ==
  /\ timer = "running" /\ streamer = "select"
  /\ timer' = "expired"
  /\ UNCHANGED <<container, scanner, scanned, streamer, heap, logLines, wire, delivered, logCtx>>

\* <-ctx.Done()
StopStream ==
  /\ streamer = "select" /\ logCtx = "done"
  /\ streamer' = "done"
  /\ timer' = "off"
  /\ UNCHANGED <<container, scanner, scanned, heap, logLines, wire, delivered, logCtx>>

\* An empty slice is sent as well.
TimerFlush_always ==
  /\ streamer = "select" /\ timer = "expired"
  /\ timer' = "off"
  /\ IF logCtx = "live"
       THEN streamer' = "flush" /\ UNCHANGED logLines
       ELSE logLines' = [logLines EXCEPT !.len = 0] /\ UNCHANGED streamer
  /\ UNCHANGED <<container, scanner, scanned, heap, wire, delivered, logCtx>>

\* <-timer.C.  In this and the next actions sendConn's check of ctx comes with the
\* step before it: "flush", "last" and "marker" are its select, after the check.
TimerFlush ==
  /\ streamer = "select" /\ timer = "expired"
  /\ timer' = "off"
  /\ IF logLines.len > 0 /\ logCtx = "live"
       THEN streamer' = "flush" /\ UNCHANGED logLines
       ELSE logLines' = [logLines EXCEPT !.len = 0] /\ UNCHANGED streamer
  /\ UNCHANGED <<container, scanner, scanned, heap, wire, delivered, logCtx>>

\* The room left in the array is not checked.
AppendLine_overrun(line) ==
  IF logLines.array = 0
    THEN /\ heap' = Append(heap, <<line>>)
         /\ logLines' = [array |-> Len(heap) + 1, len |-> 1]
    ELSE /\ heap' = [heap EXCEPT ![logLines.array][Len(heap[logLines.array])] = line]
         /\ logLines' = [logLines EXCEPT !.len = @ + 1]

\* append: in place while the array has room, else in a new one of twice the size.
AppendLine(line) ==
  LET full == logLines.array = 0 \/ logLines.len = Len(heap[logLines.array])
      old == SubSeq(IF logLines.array = 0 THEN <<>> ELSE heap[logLines.array], 1, logLines.len)
      free == IF old = <<>> THEN <<>> ELSE [i \in 1 .. Len(old) - 1 |-> 0]
  IN IF full
       THEN /\ heap' = Append(heap, Append(old, line) \o free)
            /\ logLines' = [array |-> Len(heap) + 1, len |-> logLines.len + 1]
       ELSE /\ heap' = [heap EXCEPT ![logLines.array][logLines.len + 1] = line]
            /\ logLines' = [logLines EXCEPT !.len = @ + 1]

\* The timer is left as it is.
ReceiveLine_noReset ==
  /\ streamer = "select" /\ scanner = "offer"
  /\ AppendLine(scanned)
  /\ scanner' = "scan"
  /\ UNCHANGED <<container, scanned, streamer, timer, wire, delivered, logCtx>>

\* logLine := <-scanChan.  Reset leaves no stale value in timer.C.
ReceiveLine ==
  /\ streamer = "select" /\ scanner = "offer"
  /\ AppendLine(scanned)
  /\ timer' = "running"
  /\ scanner' = "scan"
  /\ UNCHANGED <<container, scanned, streamer, wire, delivered, logCtx>>

\* What scanner.Err() reports once scanChan is closed: the error of the stream,
\* or of ctx, unless the goroutine saw ctx before it read the stream again.
ScanErrors ==
  CASE logCtx = "done" -> {TRUE, FALSE}
    [] OTHER -> {container.end = "error"}

ReceiveClosed ==
  /\ streamer = "select" /\ scanner = "closed"
  /\ \E failed \in ScanErrors :
       streamer' = CASE failed -> "failed"
                     [] ~failed /\ logCtx = "done" -> "done"
                     [] ~failed /\ logCtx = "live" -> IF logLines.len > 0 THEN "last" ELSE "marker"
  /\ timer' = "off"
  /\ UNCHANGED <<container, scanner, scanned, heap, logLines, wire, delivered, logCtx>>

(***************************************************************************)
(* sendLogLines: the slice is handed over, or skipped once ctx is done;    *)
(* then logLines is cut to length 0 and keeps its array.                   *)
(***************************************************************************)
SendLines ==
  /\ streamer \in {"flush", "last", "marker"}
  /\ \/ logCtx = "done" /\ UNCHANGED wire
     \/ wire.pc = "recv" /\ wire' = [pc |-> "encode", slice |-> logLines, out |-> <<>>]
  /\ streamer' = CASE streamer = "flush" -> "select"
                   [] streamer = "last" /\ logCtx = "live" -> "marker"
                   [] OTHER -> "done"
  /\ logLines' = [logLines EXCEPT !.len = 0]
  /\ UNCHANGED <<container, scanner, scanned, timer, heap, delivered, logCtx>>

--------------------------------------------------------------------------------
(* writeConn: one element of the slice at a time.                             *)

EncodeLine ==
  /\ wire.pc = "encode" /\ Len(wire.out) < wire.slice.len
  /\ wire' = [wire EXCEPT !.out = Append(@, heap[wire.slice.array][Len(@) + 1])]
  /\ UNCHANGED <<container, scanner, scanned, streamer, timer, heap, logLines, delivered, logCtx>>

WriteLines ==
  /\ wire.pc = "encode" /\ Len(wire.out) = wire.slice.len
  /\ delivered' = Append(delivered, wire.out)
  /\ wire' = Idle
  /\ UNCHANGED <<container, scanner, scanned, streamer, timer, heap, logLines, logCtx>>

--------------------------------------------------------------------------------
Streams == OpenStream \/ StopStream \/ TimerFlush \/ ReceiveLine \/ ReceiveClosed \/ SendLines
Scans == ScanLine \/ ScanEnds
Writes == EncodeLine \/ WriteLines

LogNext ==
  \/ ContainerLogs \/ ContainerEnds \/ CancelConn
  \/ Scans \/ TimerExpires \/ Streams \/ Writes

\* Each goroutine is scheduled, the timer runs, and a write of the socket returns.
\* Nothing obliges the container to log or to end, or the client to leave.
LogFairness ==
  WF_LogVars(Streams) /\ WF_LogVars(Scans) /\ WF_LogVars(Writes) /\ WF_LogVars(TimerExpires)

LogSpec == LogInit /\ [][LogNext]_LogVars
LogFairSpec == LogSpec /\ LogFairness

--------------------------------------------------------------------------------
(* Properties.                                                                *)

Sent == FlattenSeq(delivered)

\* An empty message, which tells the client that the log is complete
\* (container_log_message_handler.go:149), is the last one, comes only after the
\* container's end, and every line of the log was sent before it: the debounce
\* never sends an empty buffer and the end never overtakes a buffered line.
EndMarkerLast ==
  \A i \in DOMAIN delivered :
    delivered[i] = <<>> =>
      /\ i = Len(delivered)
      /\ container.end = "eof"
      /\ Len(Sent) = container.lines

\* A line the container has logged is sent within the debounce time, even if the
\* container neither logs again nor ends: no line waits in logLines for the next
\* (container_log_message_handler.go:115-124).
LinesFlushed ==
  \A n \in Lines :
    container.lines >= n ~>
      (Len(Sent) >= n \/ logCtx = "done" \/ container.end = "error" \/ streamer = "failed")

\* Both goroutines of a stream end when the connection does, wherever they are
\* blocked: in a receive, in the offer of a line or in a send
\* (container_log_message_handler.go:112,166-173).
StreamReleased ==
  logCtx = "done" ~> (streamer \in {"done", "failed"} /\ scanner \in {"none", "closed"})

\* "The log messages" (container_log_message_handler.go:270): the lines sent are
\* those of the log, in its order.
LinesAsLogged == Sent = [i \in 1 .. Len(Sent) |-> i]
================================================================================
