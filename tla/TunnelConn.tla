----------------------------- MODULE TunnelConn -----------------------------
(***************************************************************************)
(* The bytes of one ProxyTransport request (pool/proxy_transport.go): the   *)
(* handler of RoundTrip queues DATA frames, tunnelConn.Read hands them to    *)
(* crypto/tls or bufio, and a goroutine closes the tunnel when CLOSE comes.  *)
(*                                                                         *)
(* A frame is a sequence of numbered units; Read is given a buffer of one.   *)
(* Resolver models the same request with its stream and connection.          *)
(***************************************************************************)
EXTENDS Naturals, Sequences, SequencesExt

CONSTANTS
    QueueSize,   \* capacity of dataChan (100 in the code)
    FrameSize,   \* bound: units in a frame
    MaxUnits     \* bound: units that the worker sends

VARIABLES
    sent,       \* units sent by the worker
    wire,       \* frames that messageLoop has not read yet
    readChan,   \* dataChan of RoundTrip, readChan of the tunnel
    rest,       \* what Read is about to put back
    got,        \* units that Read has returned
    connected,  \* RoundTrip has received CONNECTED and made the tunnel
    token,      \* closeChan of RoundTrip holds a token
    closed,     \* tunnelConn.closed, and its closeChan
    ended,      \* Read has returned EOF
    lossy       \* a unit was dropped because the queue was full

vars == <<sent, wire, readChan, rest, got, connected, token, closed, ended, lossy>>

Init ==
    /\ sent = 0 /\ wire = <<>> /\ readChan = <<>> /\ rest = <<>> /\ got = <<>>
    /\ connected = FALSE /\ token = FALSE
    /\ closed = FALSE /\ ended = FALSE /\ lossy = FALSE

\* CONNECTED within five seconds.
Connected ==
    /\ ~connected /\ ~token
    /\ connected' = TRUE
    /\ UNCHANGED <<sent, wire, readChan, rest, got, token, closed, ended, lossy>>

\* The worker sends another unit, in a frame of its own or in the last one.
WorkerSends ==
    /\ connected /\ ~token /\ sent < MaxUnits
    /\ sent' = sent + 1
    /\ \/ wire' = Append(wire, <<sent + 1>>)
       \/ /\ wire # <<>> /\ Len(Last(wire)) < FrameSize
          /\ wire' = Append(Front(wire), Append(Last(wire), sent + 1))
    /\ UNCHANGED <<readChan, rest, got, connected, token, closed, ended, lossy>>

\* OnMessage, DATA: a full queue drops the frame.
OnData ==
    /\ wire # <<>>
    /\ wire' = Tail(wire)
    /\ IF Len(readChan) < QueueSize
       THEN readChan' = Append(readChan, Head(wire)) /\ lossy' = lossy
       ELSE readChan' = readChan /\ lossy' = TRUE
    /\ UNCHANGED <<sent, rest, got, connected, token, closed, ended>>

\* OnMessage, CLOSE, after all DATA; or OnClose, at any time.
OnClose ==
    /\ ~token
    /\ token' = TRUE
    /\ UNCHANGED <<sent, wire, readChan, rest, got, connected, closed, ended, lossy>>

\* Close, by the goroutine that waits for closeChan, or by RoundTrip's deferred
\* function, also when it has read a response and the body is still to come.
Close ==
    /\ connected /\ ~closed
    /\ token \/ got # <<>>
    /\ closed' = TRUE
    /\ UNCHANGED <<sent, wire, readChan, rest, got, connected, token, ended, lossy>>

\* Read takes the first frame of the queue.
Read ==
    /\ connected /\ ~ended /\ rest = <<>>
    /\ readChan # <<>>
    /\ readChan' = Tail(readChan)
    /\ got' = Append(got, Head(Head(readChan)))
    /\ rest' = Tail(Head(readChan))
    /\ UNCHANGED <<sent, wire, connected, token, closed, ended, lossy>>

\* It puts the rest back, at the tail, or drops it if the queue is full again.
PutBack ==
    /\ rest # <<>>
    /\ rest' = <<>>
    /\ IF Len(readChan) < QueueSize
       THEN readChan' = Append(readChan, rest) /\ lossy' = lossy
       ELSE readChan' = readChan /\ lossy' = TRUE
    /\ UNCHANGED <<sent, wire, got, connected, token, closed, ended>>

\* Once closed, Read may return EOF, whether or not frames are queued.
ReadEnds ==
    /\ closed /\ ~ended /\ rest = <<>>
    /\ ended' = TRUE
    /\ UNCHANGED <<sent, wire, readChan, rest, got, connected, token, closed, lossy>>

Next == Connected \/ WorkerSends \/ OnData \/ OnClose \/ Close \/ Read \/ PutBack \/ ReadEnds

Spec == Init /\ [][Next]_vars
-----------------------------------------------------------------------------
\* tunnelConn "implements net.Conn", for TLS and HTTP: a byte stream, in order.
\* The code violates it: the rest of a frame longer than the caller's buffer goes
\* behind the frames that have arrived meanwhile.
Pipe == INSTANCE BytePipe WITH open <- connected, shut <- ended

ImplementsPipe == Pipe!Spec
=============================================================================
