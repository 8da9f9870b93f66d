---------------------------- MODULE SocksTunnel ----------------------------
(***************************************************************************)
(* One call of Server.handleConnection (src/golib/socks5/server.go): the    *)
(* negotiation, then either a stream on a WebSocket shared with others      *)
(* (createTunnel) or a connection of its own (createDirectTunnel).          *)
(*                                                                         *)
(* Goroutines: main (pc), the message loop of the WebSocket (loop), the     *)
(* downstream writer, the upstream reader, and whoever runs cleanup, which  *)
(* a compare-and-swap lets happen once (cleaner).  Frames from the far end  *)
(* are numbered; a WebSocket and a TCP connection keep their order, so what *)
(* is on the wire is told by how much was sent and how much taken.          *)
(***************************************************************************)
EXTENDS Integers, Sequences

CONSTANTS
    QueueSize, \* downstreamQueueSize
    MaxData    \* bound: DATA frames that the far end sends

ASSUME BoundsAssumption == QueueSize \in Nat \ {0} /\ MaxData \in Nat

VARIABLES
    pc,         \* progress of handleConnection
    reply,      \* the answer to the client's SOCKS request
    client,     \* the client's socket: open, gone (closed by the peer), closed
    ws,         \* the connection: open, failed (a write failed), retired
    far,        \* the worker's (direct: the target's) side of the stream
    sent,       \* DATA frames that it sent
    taken,      \* DATA frames that the message loop (direct: io.Copy) has read
    ended,      \* its CLOSE frame (direct: its end of file) has been read
    loop,       \* what the message loop is doing for this stream
    connected,  \* the flag of that name
    signal,     \* connectedSignal is closed
    registered, \* the pool has a stream and a handler of this tunnel
    notify,     \* handleConnectionClose is about to call OnClose
    queue,      \* the channel downstream
    writer,     \* the downstream writer; n is the frame it holds
    up,         \* the upstream reader
    delivered,  \* DATA frames written to the client
    spawned,    \* "go cleanup()" was executed
    cleaner,    \* progress of cleanup
    lost,       \* enqueueDownstream gave up a frame
    late        \* DATA frames sent up after the stream was given back, up to 2

endpoints == <<reply, client, ws, far, sent>>
loopVars == <<taken, ended, loop, connected, signal>>
poolVars == <<registered, notify>>
downVars == <<queue, writer, delivered, lost>>
cleanVars == <<spawned, cleaner>>
vars == <<pc, endpoints, loopVars, poolVars, downVars, up, cleanVars, late>>

Idle == [at |-> "idle", n |-> 0]
closed == cleaner = "done"

\* cleanup is entered: the compare-and-swap on cleanupStarted.
EnterCleanup == cleaner' = IF cleaner = "none" THEN "started" ELSE cleaner
-----------------------------------------------------------------------------
Init ==
    /\ pc = "auth"
    /\ reply = "none" /\ client = "open" /\ ws = "open" /\ far = "none" /\ sent = 0
    /\ taken = 0 /\ ended = FALSE /\ loop = Idle /\ connected = FALSE /\ signal = FALSE
    /\ registered = FALSE /\ notify = FALSE
    /\ queue = <<>> /\ writer = [at |-> "off", n |-> 0] /\ delivered = <<>> /\ lost = FALSE
    /\ up = "off"
    /\ spawned = FALSE /\ cleaner = "none"
    /\ late = 0
-----------------------------------------------------------------------------
(* handleAuth, handleRequest and the choice of the route *)

\* handleConnection returns; its deferred Close shuts the client's socket.
Return == pc' = "returned" /\ client' = "closed"

\* The client's bytes are read within ten seconds and are a greeting, which is
\* answered, or handleConnection returns.
HandleAuth ==
    /\ pc = "auth"
    /\ \/ pc' = "request" /\ client' = client
       \/ Return
    /\ UNCHANGED <<reply, ws, far, sent, loopVars, poolVars, downVars, up, cleanVars, late>>

\* A command or address type that is not supported is answered with an error.
HandleRequest ==
    /\ pc = "request"
    /\ \/ pc' \in {"acquire", "dialing"} /\ UNCHANGED <<client, reply>>
       \/ Return /\ reply' \in {"none", "refused"}
    /\ UNCHANGED <<ws, far, sent, loopVars, poolVars, downVars, up, cleanVars, late>>
-----------------------------------------------------------------------------
(* createTunnel: the main goroutine *)

\* GetConnectionWithStream and RegisterStreamHandler.  A connection retired in
\* between gets a new manager without the stream: nothing is registered.
Acquire ==
    /\ pc = "acquire"
    /\ \/ pc' = "registered" /\ registered' = (ws # "retired") /\ client' = client
       \/ Return /\ registered' = registered
    /\ UNCHANGED <<reply, ws, far, sent, loopVars, notify, downVars, up, cleanVars, late>>

WriteConnect ==
    /\ pc = "registered"
    /\ ws = "open"
    /\ pc' = "reply"
    /\ far' = "asked"
    /\ UNCHANGED <<reply, client, ws, sent, loopVars, poolVars, downVars, up, cleanVars, late>>

BugSilentRetire == ws' = "retired" /\ notify' = notify

BugNotifyTwice == ws' = "retired" /\ notify' = (notify \/ registered)

\* handleConnectionClose detaches the connection; the goroutine that does it
\* first is the one that will call OnClose.
Retire == ws' = "retired" /\ notify' = (notify \/ (registered /\ ws # "retired"))

\* CONNECT cannot be written: the connection is retired, and createTunnel
\* returns without a cleanup of its own.
ConnectFails ==
    /\ pc = "registered"
    /\ ws # "open"
    /\ Retire
    /\ pc' = "leaving"
    /\ UNCHANGED <<reply, client, far, sent, loopVars, registered, downVars, up, cleanVars, late>>

BugWriterFirst ==
    /\ pc = "reply"
    /\ pc' = "waiting"
    /\ writer' = [writer EXCEPT !.at = "select"]
    /\ up' = "reading"
    /\ reply' = reply
    /\ UNCHANGED <<client, ws, far, sent, loopVars, poolVars, queue, delivered, lost, cleanVars, late>>

\* The SOCKS reply; only then the two goroutines of the tunnel start.
WriteReply ==
    /\ pc = "reply"
    /\ client # "closed"
    /\ pc' = "waiting"
    /\ reply' = "granted"
    /\ writer' = [writer EXCEPT !.at = "select"]
    /\ up' = "reading"
    /\ UNCHANGED <<client, ws, far, sent, loopVars, poolVars, queue, delivered, lost, cleanVars, late>>

ReplyFails ==
    /\ pc = "reply"
    /\ client # "open"
    /\ pc' = "leaving"
    /\ EnterCleanup
    /\ UNCHANGED <<endpoints, loopVars, poolVars, downVars, up, spawned, late>>

\* waitForTunnel, timer branch: connectedSignal is looked at once more.  The
\* select may choose the timer although the tunnel has been closed.
TimerFires ==
    /\ pc = "waiting"
    /\ ~signal
    /\ pc' = "retiring"
    /\ Retire
    /\ UNCHANGED <<reply, client, far, sent, loopVars, registered, downVars, up, cleanVars, late>>

\* RetireConnection has returned, and cleanup is called.
TimedOut ==
    /\ pc = "retiring" /\ ~notify
    /\ pc' = "leaving"
    /\ EnterCleanup
    /\ UNCHANGED <<endpoints, loopVars, poolVars, downVars, up, spawned, late>>

\* The other branches of waitForTunnel.
TunnelClosed ==
    /\ pc = "waiting"
    /\ closed
    /\ pc' = "leaving"
    /\ UNCHANGED <<endpoints, loopVars, poolVars, downVars, up, cleanVars, late>>

Leave ==
    /\ pc = "leaving" /\ ~notify
    /\ Return
    /\ UNCHANGED <<reply, ws, far, sent, loopVars, poolVars, downVars, up, cleanVars, late>>
-----------------------------------------------------------------------------
(* The message loop: DispatchMessage and OnMessage *)

\* The next frame of the stream is read, and its handler looked up; OnMessage
\* is called after sm.mu is released.
Dispatch(what, n) ==
    /\ loop.at = "idle"
    /\ ws = "open"
    /\ loop' = IF registered THEN [at |-> what, n |-> n] ELSE Idle
    /\ UNCHANGED <<pc, endpoints, connected, signal, poolVars, downVars, up, cleanVars, late>>

DispatchConnected ==
    /\ pc # "direct"
    /\ far \in {"connected", "closed"} /\ ~connected
    /\ Dispatch("connected", 0)
    /\ UNCHANGED <<taken, ended>>

DispatchData ==
    /\ pc # "direct"
    /\ connected \/ ~registered
    /\ taken < sent
    /\ Dispatch("data", taken + 1)
    /\ taken' = taken + 1
    /\ UNCHANGED ended

DispatchClose ==
    /\ pc # "direct"
    /\ ~ended /\ taken = sent
    /\ far = "refused" \/ (far = "closed" /\ (connected \/ ~registered))
    /\ Dispatch("close", 0)
    /\ ended' = TRUE
    /\ UNCHANGED taken

\* OnMessage(CONNECTED) in two steps: connected is set, and connectedSignal
\* closed after GetStream, which takes p.mu.
OnConnected ==
    /\ loop.at = "connected"
    /\ connected' = TRUE
    /\ loop' = [Idle EXCEPT !.at = "signal"]
    /\ UNCHANGED <<pc, endpoints, taken, ended, signal, poolVars, downVars, up, cleanVars, late>>

Signal ==
    /\ loop.at = "signal"
    /\ signal' = TRUE
    /\ loop' = Idle
    /\ UNCHANGED <<pc, endpoints, taken, ended, connected, poolVars, downVars, up, cleanVars, late>>

BugOneTooMany == Len(queue) <= QueueSize

HasRoom == Len(queue) < QueueSize

\* OnMessage(DATA) is enqueueDownstream: the frame is queued, ...
Enqueue ==
    /\ loop.at \in {"data", "full"}
    /\ HasRoom
    /\ queue' = Append(queue, loop.n)
    /\ loop' = Idle
    /\ UNCHANGED <<pc, endpoints, taken, ended, connected, signal, poolVars, writer,
                   delivered, lost, up, cleanVars, late>>

\* ... dropped because the tunnel is closed, ...
DropClosed ==
    /\ loop.at \in {"data", "full"}
    /\ closed
    /\ loop' = Idle
    /\ UNCHANGED <<pc, endpoints, taken, ended, connected, signal, poolVars, downVars,
                   up, cleanVars, late>>

\* ... or waits, with the message loop, for room ...
EnqueueBlocks ==
    /\ loop.at = "data"
    /\ ~HasRoom
    /\ loop' = [loop EXCEPT !.at = "full"]
    /\ UNCHANGED <<pc, endpoints, taken, ended, connected, signal, poolVars, downVars,
                   up, cleanVars, late>>

BugNoTimer ==
    /\ loop.at = "full"
    /\ closed
    /\ loop' = Idle
    /\ UNCHANGED <<pc, endpoints, taken, ended, connected, signal, poolVars, downVars,
                   up, cleanVars, late>>

\* ... until the timer fires; the select may choose it although there is room.
EnqueueTimesOut ==
    /\ loop.at = "full"
    /\ loop' = Idle
    /\ lost' = TRUE
    /\ spawned' = TRUE
    /\ UNCHANGED <<pc, endpoints, taken, ended, connected, signal, poolVars, queue, writer,
                   delivered, up, cleaner, late>>

\* OnMessage(CLOSE).
OnFarClose ==
    /\ loop.at = "close"
    /\ loop' = Idle
    /\ spawned' = TRUE
    /\ UNCHANGED <<pc, endpoints, taken, ended, connected, signal, poolVars, downVars,
                   up, cleaner, late>>
-----------------------------------------------------------------------------
(* The downstream writer and the upstream reader *)

\* The select of the writer: a frame, or closed, at random when both are there.
TakeFrame ==
    /\ writer.at = "select"
    /\ queue # <<>>
    /\ writer' = [at |-> "writing", n |-> Head(queue)]
    /\ queue' = Tail(queue)
    /\ UNCHANGED <<pc, endpoints, loopVars, poolVars, delivered, lost, up, cleanVars, late>>

WriterEnds ==
    /\ writer.at = "select"
    /\ closed
    /\ writer' = [writer EXCEPT !.at = "done"]
    /\ UNCHANGED <<pc, endpoints, loopVars, poolVars, queue, delivered, lost, up, cleanVars, late>>

\* A write to the client's socket may succeed.
Writable == client # "closed"

WriteClient ==
    /\ writer.at = "writing"
    /\ Writable
    /\ delivered' = Append(delivered, writer.n)
    /\ writer' = [writer EXCEPT !.at = "select"]
    /\ UNCHANGED <<pc, endpoints, loopVars, poolVars, queue, lost, up, cleanVars, late>>

\* The socket is closed, or the client does not read for the write deadline.
WriteClientFails ==
    /\ writer.at = "writing"
    /\ writer' = [writer EXCEPT !.at = "done"]
    /\ EnterCleanup
    /\ UNCHANGED <<pc, endpoints, loopVars, poolVars, queue, delivered, lost, up, spawned, late>>

ReadClient ==
    /\ up = "reading" /\ pc # "direct"
    /\ client = "open"
    /\ up' = "writing"
    /\ UNCHANGED <<pc, endpoints, loopVars, poolVars, downVars, cleanVars, late>>

ReadClientFails ==
    /\ up = "reading" /\ pc # "direct"
    /\ client # "open"
    /\ up' = "done"
    /\ EnterCleanup
    /\ UNCHANGED <<pc, endpoints, loopVars, poolVars, downVars, spawned, late>>

\* The stream was given back to the pool.
GivenBack == cleaner \in {"given", "done"}

WriteUp ==
    /\ up = "writing"
    /\ ws = "open"
    /\ up' = "reading"
    /\ late' = IF GivenBack /\ late < 2 THEN late + 1 ELSE late
    /\ UNCHANGED <<pc, endpoints, loopVars, poolVars, downVars, cleanVars>>

WriteUpFails ==
    /\ up = "writing"
    /\ ws # "open"
    /\ up' = "retiring"
    /\ Retire
    /\ UNCHANGED <<pc, reply, client, far, sent, loopVars, registered, downVars, cleanVars, late>>

UpRetired ==
    /\ up = "retiring" /\ ~notify
    /\ up' = "done"
    /\ EnterCleanup
    /\ UNCHANGED <<pc, endpoints, loopVars, poolVars, downVars, spawned, late>>
-----------------------------------------------------------------------------
(* cleanup *)

GoCleanup ==
    /\ spawned /\ cleaner = "none"
    /\ EnterCleanup
    /\ UNCHANGED <<pc, endpoints, loopVars, poolVars, downVars, up, spawned, late>>

OnClose ==
    /\ notify
    /\ notify' = FALSE
    /\ EnterCleanup
    /\ UNCHANGED <<pc, endpoints, loopVars, registered, downVars, up, spawned, late>>

\* The CLOSE frame is written, or cannot be.
CleanupSendsClose ==
    /\ cleaner = "started"
    /\ cleaner' = "told"
    /\ UNCHANGED <<pc, endpoints, loopVars, poolVars, downVars, up, spawned, late>>

BugKeepClient ==
    /\ cleaner = "told"
    /\ cleaner' = "cut"
    /\ UNCHANGED <<pc, endpoints, loopVars, poolVars, downVars, up, spawned, late>>

\* clientConn.Close().
CleanupCutsClient ==
    /\ cleaner = "told"
    /\ cleaner' = "cut"
    /\ client' = "closed"
    /\ UNCHANGED <<pc, reply, ws, far, sent, loopVars, poolVars, downVars, up, spawned, late>>

\* UnregisterStreamHandler and ReleaseConnection.
CleanupGivesBack ==
    /\ cleaner = "cut"
    /\ cleaner' = "given"
    /\ registered' = FALSE
    /\ UNCHANGED <<pc, endpoints, loopVars, notify, downVars, up, spawned, late>>

CleanupEnds ==
    /\ cleaner = "given"
    /\ cleaner' = "done"
    /\ UNCHANGED <<pc, endpoints, loopVars, poolVars, downVars, up, spawned, late>>
-----------------------------------------------------------------------------
(* createDirectTunnel: two io.Copy and the wait for both *)

DialTarget ==
    /\ pc = "dialing"
    /\ \/ client # "closed" /\ pc' = "direct" /\ reply' = "granted" /\ far' = "connected"
          /\ up' = "reading" /\ writer' = [writer EXCEPT !.at = "select"] /\ client' = client
       \/ Return /\ reply' \in {"none", "refused"} /\ UNCHANGED <<far, up, writer>>
    /\ UNCHANGED <<ws, sent, loopVars, poolVars, queue, delivered, lost, cleanVars, late>>

CopyDown ==
    /\ pc = "direct"
    /\ writer.at = "select"
    /\ taken < sent
    /\ taken' = taken + 1
    /\ \/ Writable /\ delivered' = Append(delivered, taken + 1) /\ writer' = writer
       \/ client # "open" /\ delivered' = delivered /\ writer' = [writer EXCEPT !.at = "done"]
    /\ UNCHANGED <<pc, endpoints, ended, loop, connected, signal, poolVars, queue, lost,
                   up, cleanVars, late>>

\* End of file from the target: the client's socket is closed for writing.
CopyDownEnds ==
    /\ pc = "direct"
    /\ writer.at = "select"
    /\ far = "closed" /\ taken = sent
    /\ ended' = TRUE
    /\ writer' = [writer EXCEPT !.at = "done"]
    /\ UNCHANGED <<pc, endpoints, taken, loop, connected, signal, poolVars, queue, delivered,
                   lost, up, cleanVars, late>>

\* End of file, or an error, from the client, or an error of a write to a target
\* that has gone: the target's socket is closed for writing, and the copy from
\* the target goes on.
CopyUpEnds ==
    /\ pc = "direct"
    /\ up = "reading"
    /\ client # "open" \/ far = "closed"
    /\ up' = "done"
    /\ UNCHANGED <<pc, endpoints, loopVars, poolVars, downVars, cleanVars, late>>

BugFirstCopy == writer.at = "done" \/ up = "done"

\* createDirectTunnel receives from completed twice.
BothCopied == writer.at = "done" /\ up = "done"

DirectReturns ==
    /\ pc = "direct"
    /\ BothCopied
    /\ Return
    /\ UNCHANGED <<reply, ws, far, sent, loopVars, poolVars, downVars, up, cleanVars, late>>
-----------------------------------------------------------------------------
(* The environment *)

\* The client closes its connection.
ClientLeaves ==
    /\ client = "open"
    /\ client' = "gone"
    /\ UNCHANGED <<pc, reply, ws, far, sent, loopVars, poolVars, downVars, up, cleanVars, late>>

FarConnects ==
    /\ far = "asked" /\ far' = "connected"
    /\ UNCHANGED <<pc, reply, client, ws, sent, loopVars, poolVars, downVars, up, cleanVars, late>>

FarSends ==
    /\ far = "connected" /\ sent < MaxData
    /\ sent' = sent + 1
    /\ UNCHANGED <<pc, reply, client, ws, far, loopVars, poolVars, downVars, up, cleanVars, late>>

\* The worker closes the stream, before CONNECTED if it cannot reach the
\* target; the target closes its connection.
FarCloses ==
    /\ \/ far = "asked" /\ far' = "refused"
       \/ far = "connected" /\ far' = "closed"
    /\ UNCHANGED <<pc, reply, client, ws, sent, loopVars, poolVars, downVars, up, cleanVars, late>>

\* A write of another tunnel on the connection fails: markClosed.
WsFails ==
    /\ ws = "open"
    /\ ws' = "failed"
    /\ UNCHANGED <<pc, reply, client, far, sent, loopVars, poolVars, downVars, up, cleanVars, late>>

\* Its message loop ends, or the heartbeat or another tunnel retires it.
WsRetired ==
    /\ ws # "retired"
    /\ Retire
    /\ UNCHANGED <<pc, reply, client, far, sent, loopVars, registered, downVars, up,
                   cleanVars, late>>
-----------------------------------------------------------------------------
Main ==
    \/ HandleAuth \/ HandleRequest \/ Acquire \/ WriteConnect \/ ConnectFails
    \/ WriteReply \/ ReplyFails \/ TimedOut \/ TunnelClosed \/ Leave
    \/ DialTarget \/ DirectReturns

OnMessage ==
    \/ OnConnected \/ Signal \/ Enqueue \/ DropClosed \/ EnqueueBlocks \/ OnFarClose

Loop == DispatchConnected \/ DispatchData \/ DispatchClose \/ OnMessage

WriteDown == WriteClient \/ WriteClientFails \/ CopyDown

Writer == TakeFrame \/ WriterEnds \/ CopyDownEnds

Reader ==
    \/ ReadClientFails \/ WriteUp \/ WriteUpFails \/ UpRetired
    \/ (client # "open" /\ CopyUpEnds)

Cleanup ==
    \/ GoCleanup \/ OnClose \/ CleanupSendsClose \/ CleanupCutsClient
    \/ CleanupGivesBack \/ CleanupEnds

Environment ==
    \/ ReadClient \/ ClientLeaves \/ (far = "closed" /\ CopyUpEnds)
    \/ FarConnects \/ FarSends \/ FarCloses \/ WsFails \/ WsRetired

Next == Main \/ TimerFires \/ Loop \/ EnqueueTimesOut \/ Writer \/ WriteDown \/ Reader \/ Cleanup \/ Environment

Spec == Init /\ [][Next]_vars

\* Each goroutine goes on, and both timers fire.  A write to the client ends at
\* the latest when its socket is closed by either side: no use is made of the
\* write deadline.  The message loop of a failed connection retires it.  Nothing
\* is assumed of the client or of the far end.
Fairness ==
    /\ WF_vars(Main)
    /\ WF_vars(TimerFires)
    /\ WF_vars(Loop)
    /\ WF_vars(EnqueueTimesOut)
    /\ WF_vars(Writer)
    /\ WF_vars(client # "open" /\ WriteDown)
    /\ WF_vars(Reader)
    /\ WF_vars(Cleanup)
    /\ WF_vars(ws = "failed" /\ WsRetired)

FairSpec == Spec /\ Fairness
-----------------------------------------------------------------------------
(* Properties *)

Steps == {"auth", "request", "acquire", "registered", "reply", "waiting", "retiring",
          "leaving", "dialing", "direct", "returned"}

\* Every variable has its type; the queue stays within its capacity.
TypeOK ==
    /\ pc \in Steps
    /\ reply \in {"none", "refused", "granted"}
    /\ client \in {"open", "gone", "closed"}
    /\ ws \in {"open", "failed", "retired"}
    /\ far \in {"none", "asked", "connected", "closed", "refused"}
    /\ sent \in Nat /\ taken \in Nat
    /\ ended \in BOOLEAN
    /\ loop \in [at : {"idle", "connected", "signal", "data", "full", "close"}, n : Nat]
    /\ connected \in BOOLEAN /\ signal \in BOOLEAN
    /\ registered \in BOOLEAN /\ notify \in BOOLEAN
    /\ queue \in Seq(Nat) /\ Len(queue) <= QueueSize
    /\ writer \in [at : {"off", "select", "writing", "done"}, n : Nat]
    /\ up \in {"off", "reading", "writing", "retiring", "done"}
    /\ delivered \in Seq(Nat)
    /\ spawned \in BOOLEAN
    /\ cleaner \in {"none", "started", "told", "cut", "given", "done"}
    /\ lost \in BOOLEAN
    /\ late \in 0 .. 2

Pipe == INSTANCE BytePipe WITH got <- delivered, open <- (reply = "granted"),
                               shut <- (client = "closed"), lossy <- lost

\* Whatever the order in which the loop, the writer, the timers and the cleanup
\* run, the client gets the frames in order and none twice, after the reply and
\* before its socket is closed; and without a hole, unless a frame was given up
\* because the client did not read.  It does so on both routes.
ImplementsPipe == Pipe!Spec

\* cleanup closes the client's socket before it gives the stream back, so that
\* the upstream reader, which nothing else stops, sends at most the frame it
\* holds on a stream ID that may belong to another tunnel by then.
LateDataBound == late <= 1

TunnelSteps == {"registered", "reply", "waiting", "retiring", "leaving"}

Ended == /\ pc = "returned" /\ client = "closed" /\ ~registered
         /\ writer.at \in {"off", "done"} /\ up \in {"off", "done"}

\* A tunnel one end of which is gone - the client, the worker's stream, the
\* WebSocket - or that has given up a frame ends: its handler is gone, both
\* goroutines have returned, and handleConnection too, even if the client never
\* reads.  A direct tunnel, which waits for both copies, ends once both ends are
\* gone.
ConnectionEnds ==
    /\ pc \in TunnelSteps /\ (client # "open" \/ ws # "open" \/ ended \/ lost) ~> Ended
    /\ pc = "direct" /\ client # "open" /\ far = "closed" ~> Ended

Fresh == pc \in {"auth", "request", "acquire", "dialing", "direct"}

Handler == INSTANCE StreamHandler WITH
    handler <- IF Fresh THEN "none" ELSE IF notify THEN "notify"
               ELSE IF registered /\ ws # "retired" THEN "registered" ELSE "gone"

\* The tunnel keeps its contract with the pool: it registers once, and gives its
\* handler back or has its OnClose called, once, by whichever goroutine is the first
\* to retire the connection.
ImplementsHandler == Handler!Spec

\* One end of the tunnel, or a frame, is known to be gone.
Broken == ended \/ lost \/ client = "closed" \/ writer.at = "done" \/ up = "done"

\* cleanup has been entered, or a goroutine is on its way to it.
CleanupDue == spawned \/ cleaner # "none" \/ loop.at = "close"

\* No event is left unattended.  A stream that the pool still has is with the main
\* goroutine, or cleanup or OnClose will unregister it; once the connection is
\* retired the waiting tunnel has its OnClose to come or is being cleaned up; and
\* so it is with every end that is lost.
Attended ==
    /\ registered => \/ pc \in TunnelSteps \ {"leaving"} \/ notify
                     \/ cleaner \in {"started", "told", "cut"}
    /\ pc \in {"reply", "waiting", "retiring"} /\ ws = "retired" =>
           notify \/ cleaner # "none"
    /\ pc \in TunnelSteps /\ Broken => CleanupDue

\* A client that does not read does not hold the message loop, which serves the
\* other streams of the WebSocket too: its timer frees it.
LoopNotBlocked == loop.at # "idle" ~> loop.at = "idle"
=============================================================================
