--------------------------- MODULE ConnectionPool ---------------------------
(***************************************************************************)
(* pool.ConnectionPool (src/golib/pool/connection.go) and the goroutines   *)
(* that share it: one creator and one message loop per WebSocket, one SOCKS *)
(* tunnel per client (socks5/server.go createTunnel), the heartbeat and    *)
(* reconnect goroutine (the janitor), the culler, and Close.               *)
(*                                                                         *)
(* An action is one critical section of p.mu, or one step without it.      *)
(* Stream IDs are left to StreamManager: a stream is named by its tunnel.  *)
(* A conn is one call of createConnection*, with the ConnItem it makes.    *)
(***************************************************************************)
EXTENDS Integers, Sequences, FiniteSets, SequencesExt

CONSTANTS
    Conns, Tunnels, Targets,
    NoConn, NoTunnel, Janitor, Closer,
    TargetOf,        \* the target address of each tunnel
    MaxPoolSize,     \* cfg.MaxPoolSize
    MaxStreams,      \* cfg.MaxStreamsPerConnection
    KeepMin,         \* idle connections that cullOldConnections keeps
    EnableMultiplex, \* cfg.EnableMultiplex
    Faults           \* what may end a connection, besides its tunnels

ASSUME SetsAssumption ==
    /\ IsFiniteSet(Conns) /\ IsFiniteSet(Tunnels)
    /\ NoConn \notin Conns /\ NoTunnel \notin Tunnels
    /\ Conns \intersect Tunnels = {}
    /\ Janitor \notin Conns \union Tunnels /\ Closer \notin Conns \union Tunnels
    /\ Janitor # Closer
ASSUME TargetAssumption == TargetOf \in [Tunnels -> Targets]
ASSUME LimitsAssumption == MaxPoolSize \in Nat /\ MaxStreams \in Nat /\ KeepMin \in Nat
ASSUME SwitchAssumption ==
    /\ EnableMultiplex \in BOOLEAN
    /\ Faults \subseteq {"read", "write", "heartbeat", "cull", "close"}

VARIABLES
    create,   \* create[c]: progress of the createConnection* call
    pending,  \* p.pendingConnections
    pool,     \* p.pool, the idle connections
    index,    \* the keys of p.managerByConn
    streams,  \* streams[c]: tunnels with a stream in managerByConn[c]
    handlers, \* handlers[c]: those of them whose StreamHandler is registered
    affinity, \* p.targetToConn
    active,   \* active[c]: ConnItem.active
    activeConnections,
    closed,   \* closed[c]: ConnItem.closed
    socket,   \* socket[c]: the WebSocket itself
    mu,       \* who holds p.mu from one step to the next, if anybody
    pc,       \* pc[t]: progress of createTunnel
    conn,     \* conn[t]: the connection that serves t
    closer,   \* closer[a]: progress of handleConnectionClose run by a
    doomed,   \* connections culled whose WS.Close is still to come
    stopped,  \* Close has run its critical section: managerByConn is nil
    todo,     \* todo[c]: what Close still has to do for c
    crashed   \* a goroutine panicked: the process is gone

poolVars == <<pool, index, streams, handlers, affinity>>
connVars == <<create, pending, closed, socket, active, activeConnections>>
tunnelVars == <<mu, pc, conn>>
closeVars == <<closer, doomed, stopped, todo, crashed>>
vars == <<poolVars, connVars, tunnelVars, closeVars>>

Actors == Conns \union Tunnels \union {Janitor, Closer}
Idle == [phase |-> "none", conn |-> NoConn, notify |-> {}, calling |-> NoTunnel]

-----------------------------------------------------------------------------
(* Helpers.  Definitions named Bug... are seeded faults that nothing uses.   *)

\* The n-th smallest number of the finite set K.
Nth(K, n) == CHOOSE i \in K : Cardinality({j \in K : j <= i}) = n

\* The subsequence of s at the positions in K.
KeepAt(s, K) == [n \in 1 .. Cardinality(K) |-> s[Nth(K, n)]]

InPool == Range(pool)
Open(c) == ~closed[c]
Load(c) == Cardinality(streams[c])
Room(c) == Load(c) < MaxStreams

\* liveConnectionCountLocked counts these.
LiveConns == {c \in index \union InPool : Open(c)}

\* Calls that hold a slot, from reserveConnectionSlot to releaseConnectionSlot.
SlotHolders == {c \in Conns : create[c] \in {"dialing", "indexed", "pooled"}}

\* The message loop of c has been started.
Reading(c) == create[c] \in {"indexed", "pooled", "done"}

CleanupStarted(t) == pc[t] \in {"unregister", "release", "done"}
-----------------------------------------------------------------------------
Init ==
    /\ create = [c \in Conns |-> "none"]
    /\ pending = 0
    /\ pool = <<>>
    /\ index = {}
    /\ streams = [c \in Conns |-> {}]
    /\ handlers = [c \in Conns |-> {}]
    /\ affinity = [x \in Targets |-> NoConn]
    /\ active = [c \in Conns |-> FALSE]
    /\ activeConnections = 0
    /\ closed = [c \in Conns |-> FALSE]
    /\ socket = [c \in Conns |-> "none"]
    /\ mu = NoTunnel
    /\ pc = [t \in Tunnels |-> "seeking"]
    /\ conn = [t \in Tunnels |-> NoConn]
    /\ closer = [a \in Actors |-> Idle]
    /\ doomed = {}
    /\ stopped = FALSE
    /\ todo = [c \in Conns |-> "no"]
    /\ crashed = FALSE

-----------------------------------------------------------------------------
(* createConnection, createConnectionSync, createConnectionWithRelay         *)

BugNoPending == Cardinality(LiveConns) < MaxPoolSize

\* reserveConnectionSlot admits another connection.
SlotFree == Cardinality(LiveConns) + pending < MaxPoolSize

Reserve(c) ==
    /\ mu = NoTunnel
    /\ create[c] = "none"
    /\ SlotFree
    /\ create' = [create EXCEPT ![c] = "dialing"]
    /\ pending' = pending + 1
    /\ UNCHANGED <<poolVars, closed, socket, active, activeConnections,
                   tunnelVars, closeVars>>

\* The dial fails or exceeds the outer timeout, whose late result is closed
\* unused; the deferred releaseConnectionSlot runs.
DialFails(c) ==
    /\ create[c] = "dialing"
    /\ create' = [create EXCEPT ![c] = "failed"]
    /\ pending' = pending - 1
    /\ UNCHANGED <<poolVars, closed, socket, active, activeConnections,
                   tunnelVars, closeVars>>

\* First critical section after a successful dial; then messageLoop starts.
DialSucceeds(c) ==
    /\ mu = NoTunnel
    /\ ~stopped
    /\ create[c] = "dialing"
    /\ create' = [create EXCEPT ![c] = "indexed"]
    /\ socket' = [socket EXCEPT ![c] = "open"]
    /\ index' = index \union {c}
    /\ UNCHANGED <<pool, streams, handlers, affinity, pending, closed, active,
                   activeConnections, tunnelVars, closeVars>>

\* Second critical section: the connection joins the idle pool.  requestQueue
\* is always empty, as nothing calls GetConnection.
AddToPool(c) ==
    /\ mu = NoTunnel
    /\ create[c] = "indexed"
    /\ create' = [create EXCEPT ![c] = "pooled"]
    /\ pool' = Append(pool, c)
    /\ UNCHANGED <<index, streams, handlers, affinity, pending, closed, socket,
                   active, activeConnections, tunnelVars, closeVars>>

ReleaseSlot(c) ==
    /\ create[c] = "pooled"
    /\ create' = [create EXCEPT ![c] = "done"]
    /\ pending' = pending - 1
    /\ UNCHANGED <<poolVars, closed, socket, active, activeConnections,
                   tunnelVars, closeVars>>
-----------------------------------------------------------------------------
(* GetConnectionWithStream: one iteration of its loop under p.mu             *)

Seeks(t) == pc[t] \in {"seeking", "spinning"} /\ mu \in {NoTunnel, t}

\* The idle connection that step 1 stops at: it pops from the tail, drops dead
\* items and puts full ones at the head.
PickAt(k) ==
    /\ k \in DOMAIN pool
    /\ Open(pool[k]) /\ Room(pool[k])
    /\ \A j \in DOMAIN pool : j > k => ~(Open(pool[j]) /\ Room(pool[j]))

\* tryAllocateStream gives t a stream of c, and the call returns.
Allocate(t, c) ==
    /\ streams' = [streams EXCEPT ![c] = @ \union {t}]
    /\ conn' = [conn EXCEPT ![t] = c]
    /\ pc' = [pc EXCEPT ![t] = "allocated"]
    /\ mu' = NoTunnel
    /\ UNCHANGED <<handlers, affinity, create, pending, closed, socket,
                   closeVars>>

MarkActive(c) ==
    /\ active' = [active EXCEPT ![c] = TRUE]
    /\ activeConnections' = IF active[c] THEN activeConnections ELSE activeConnections + 1

BugUncountTwice(c) ==
    /\ active' = [active EXCEPT ![c] = FALSE]
    /\ activeConnections' = activeConnections - 1

MarkIdle(c) ==
    /\ active' = [active EXCEPT ![c] = FALSE]
    /\ activeConnections' = IF active[c] THEN activeConnections - 1 ELSE activeConnections

\* Step 1: an idle connection.
TakeIdle(t) ==
    /\ Seeks(t)
    /\ ~stopped
    /\ \E k \in DOMAIN pool :
          /\ PickAt(k)
          /\ pool' = KeepAt(pool, {j \in DOMAIN pool : j > k /\ Open(pool[j])})
                        \o SubSeq(pool, 1, k - 1)
          /\ index' = index \union {pool[k]}
          /\ MarkActive(pool[k])
          /\ Allocate(t, pool[k])

\* Step 1 never ends, with p.mu held, when every live idle connection is full:
\* each one put back at the head is popped again.
Spin(t) ==
    /\ Seeks(t)
    /\ ~stopped
    /\ pc[t] = "seeking"
    /\ \E i \in DOMAIN pool : Open(pool[i])
    /\ \A i \in DOMAIN pool : ~(Open(pool[i]) /\ Room(pool[i]))
    /\ pc' = [pc EXCEPT ![t] = "spinning"]
    /\ mu' = t
    /\ UNCHANGED <<poolVars, connVars, conn, closeVars>>

\* Step 1 has popped every idle connection, all of them dead.
Drained == \A i \in DOMAIN pool : ~Open(pool[i])

BugAlwaysShare == {c \in index : Open(c) /\ Room(c)}

\* Connections in use that may take another stream: only with EnableMultiplex.
Sharing == {c \in index : EnableMultiplex /\ Open(c) /\ Room(c)}

\* Steps 2 and 3: the connection that last served the target, or else one of
\* those with the fewest streams.
Affine(t) == Sharing \intersect {affinity[TargetOf[t]]}
LeastLoaded == {c \in Sharing : \A d \in Sharing : Load(c) <= Load(d)}
Shareable(t) == IF Affine(t) # {} THEN Affine(t) ELSE LeastLoaded

ShareBusy(t) ==
    /\ Seeks(t)
    /\ Drained
    /\ \E c \in Shareable(t) : Allocate(t, c)
    /\ pool' = <<>>
    /\ UNCHANGED <<index, active, activeConnections>>

\* Step 4: the pool is full, or a new connection is asked for and the loop goes
\* round again after 50 ms.
Refuse(t) ==
    /\ Seeks(t)
    /\ Drained /\ Shareable(t) = {}
    /\ ~SlotFree
    /\ pc' = [pc EXCEPT ![t] = "refused"]
    /\ pool' = <<>>
    /\ mu' = NoTunnel
    /\ UNCHANGED <<index, streams, handlers, affinity, connVars, conn,
                   closeVars>>

Retry(t) ==
    /\ Seeks(t)
    /\ Drained /\ Shareable(t) = {}
    /\ SlotFree
    /\ pc' = [pc EXCEPT ![t] = "seeking"]
    /\ pool' = <<>>
    /\ mu' = NoTunnel
    /\ UNCHANGED <<index, streams, handlers, affinity, connVars, conn,
                   closeVars>>

\* ctx is done while the tunnel waits before another iteration.
AcquireTimeout(t) ==
    /\ pc[t] = "seeking"
    /\ pc' = [pc EXCEPT ![t] = "refused"]
    /\ UNCHANGED <<poolVars, connVars, mu, conn, closeVars>>

GetConnectionWithStream(t) ==
    TakeIdle(t) \/ Spin(t) \/ ShareBusy(t) \/ Refuse(t) \/ Retry(t)
-----------------------------------------------------------------------------
(* createTunnel, once it has a stream *)

\* RegisterStreamHandler.  A connection that was closed meanwhile gets a new,
\* empty manager, in which the stream does not exist.
RegisterStreamHandler(t) ==
    /\ mu = NoTunnel
    /\ ~stopped
    /\ pc[t] = "allocated"
    /\ pc' = [pc EXCEPT ![t] = "registered"]
    /\ index' = index \union {conn[t]}
    /\ handlers' = [handlers EXCEPT ![conn[t]] = @ \union ({t} \intersect streams[conn[t]])]
    /\ affinity' = IF EnableMultiplex THEN [affinity EXCEPT ![TargetOf[t]] = conn[t]]
                                      ELSE affinity
    /\ UNCHANGED <<pool, streams, connVars, mu, conn, closeVars>>

\* The CONNECT frame and the SOCKS reply are written; createTunnel waits.
WriteConnect(t) ==
    /\ pc[t] = "registered" /\ closer[t].phase = "none"
    /\ Open(conn[t])
    /\ pc' = [pc EXCEPT ![t] = "waiting"]
    /\ UNCHANGED <<poolVars, connVars, mu, conn, closeVars>>

\* The message loop finds the handler by connection and stream, and tells it
\* CONNECTED.
Connected(t) ==
    /\ pc[t] = "waiting"
    /\ conn[t] \in index /\ t \in handlers[conn[t]]
    /\ closer[conn[t]].phase = "none"
    /\ pc' = [pc EXCEPT ![t] = "up"]
    /\ UNCHANGED <<poolVars, connVars, mu, conn, closeVars>>

\* cleanup starts: the client is gone, the worker sent CLOSE, or the client
\* does not take its data in time.
BeginCleanup(t) ==
    /\ pc[t] \in {"waiting", "up"}
    /\ pc' = [pc EXCEPT ![t] = "unregister"]
    /\ UNCHANGED <<poolVars, connVars, mu, conn, closeVars>>

BugKeepStream(t) == streams

\* The stream of t leaves the manager of its connection.
StreamsWithout(t) == [streams EXCEPT ![conn[t]] = @ \ {t}]

\* cleanup calls UnregisterStreamHandler ...
UnregisterStreamHandler(t) ==
    /\ mu = NoTunnel
    /\ pc[t] = "unregister"
    /\ pc' = [pc EXCEPT ![t] = "release"]
    /\ \/ /\ conn[t] \in index /\ t \in streams[conn[t]]
          /\ streams' = StreamsWithout(t)
          /\ handlers' = [handlers EXCEPT ![conn[t]] = @ \ {t}]
          /\ affinity' = IF streams[conn[t]] = {t}
                         THEN [affinity EXCEPT ![TargetOf[t]] = NoConn] ELSE affinity
       \/ /\ ~(conn[t] \in index /\ t \in streams[conn[t]])
          /\ UNCHANGED <<streams, handlers, affinity>>
    /\ UNCHANGED <<pool, index, connVars, mu, conn, closeVars>>

BugCountSelf(c) == c \in index => Load(c) = 1

\* No stream is left in the manager of c, if it still has one.
Unused(c) == c \in index => Load(c) = 0

\* ReleaseConnection returns an unused connection to the pool.
Returnable(c) == Open(c) /\ c \notin InPool

\* ... and ReleaseConnection.  The position depends on the quality scores.
ReleaseConnection(t) ==
    /\ mu = NoTunnel
    /\ pc[t] = "release"
    /\ pc' = [pc EXCEPT ![t] = "done"]
    /\ IF Unused(conn[t])
       THEN /\ MarkIdle(conn[t])
            /\ IF Returnable(conn[t])
               THEN \E i \in 1 .. Len(pool) + 1 : pool' = InsertAt(pool, i, conn[t])
               ELSE pool' = pool
       ELSE UNCHANGED <<active, activeConnections, pool>>
    /\ UNCHANGED <<index, streams, handlers, affinity, create, pending, closed,
                   socket, mu, conn, closeVars>>
-----------------------------------------------------------------------------
(* handleConnectionClose, by the message loop, by RetireConnection or Close  *)

Start(a, c) == closer' = [closer EXCEPT ![a] = [Idle EXCEPT !.phase = "detach", !.conn = c]]

\* A write fails: markClosed by WriteMessage, whoever was writing.
WriteFails(c) ==
    /\ "write" \in Faults
    /\ socket[c] = "open"
    /\ closed' = [closed EXCEPT ![c] = TRUE]
    /\ socket' = [socket EXCEPT ![c] = "closed"]
    /\ UNCHANGED <<poolVars, create, pending, active, activeConnections,
                   tunnelVars, closeVars>>

\* ReadMessage fails: messageLoop ends through its deferred function.
ReadFails(c) ==
    /\ socket[c] = "closed" \/ "read" \in Faults
    /\ Reading(c)
    /\ closer[c].phase = "none"
    /\ Start(c, c)
    /\ closed' = [closed EXCEPT ![c] = TRUE]
    /\ UNCHANGED <<poolVars, create, pending, socket, active, activeConnections,
                   tunnelVars, doomed, stopped, todo, crashed>>

\* The tunnel retires its connection: CONNECTED did not come in time, or CONNECT
\* or DATA could not be written.  A goroutine of the tunnel may still do so
\* while another one has begun the cleanup.
RetireByTunnel(t) ==
    /\ closer[t].phase = "none"
    /\ \/ pc[t] = "waiting"
       \/ pc[t] \in {"registered", "up", "unregister", "release"} /\ ~Open(conn[t])
    /\ Start(t, conn[t])
    /\ closed' = [closed EXCEPT ![conn[t]] = TRUE]
    /\ UNCHANGED <<poolVars, create, pending, socket, active, activeConnections,
                   tunnelVars, doomed, stopped, todo, crashed>>

\* A heartbeat is overdue, or Reconnect replaces all connections.
RetireByJanitor(c) ==
    /\ "heartbeat" \in Faults
    /\ c \in index
    /\ closer[Janitor].phase = "none"
    /\ Start(Janitor, c)
    /\ closed' = [closed EXCEPT ![c] = TRUE]
    /\ UNCHANGED <<poolVars, create, pending, socket, active, activeConnections,
                   tunnelVars, doomed, stopped, todo, crashed>>

BugFromPoolOnly(c) == index

\* The keys of managerByConn after c is deleted.
IndexWithout(c) == index \ {c}

BugNotifyPending(c) == {t \in handlers[c] : pc[t] # "up"}

\* The tunnels whose OnClose is called.
ToNotify(c) == handlers[c]

\* Critical section: c leaves every index, and the stream handlers of its
\* manager are the ones to notify.  Then c is no longer counted as active; the
\* two steps are one here, as nobody marks a connection active that is closed.
Detach(a) ==
    /\ mu = NoTunnel
    /\ closer[a].phase = "detach"
    /\ LET c == closer[a].conn IN
           /\ \/ \E i \in DOMAIN pool :
                    /\ pool[i] = c /\ \A j \in 1 .. i - 1 : pool[j] # c
                    /\ pool' = RemoveAt(pool, i)
              \/ c \notin InPool /\ pool' = pool
           /\ index' = IndexWithout(c)
           /\ closer' = [closer EXCEPT ![a] =
                  [@ EXCEPT !.phase = "callbacks",
                            !.notify = IF c \in index THEN ToNotify(c) ELSE {}]]
           /\ streams' = IF c \in index THEN [streams EXCEPT ![c] = {}] ELSE streams
           /\ handlers' = IF c \in index THEN [handlers EXCEPT ![c] = {}] ELSE handlers
           /\ affinity' = [x \in Targets |-> IF affinity[x] = c THEN NoConn ELSE affinity[x]]
           /\ MarkIdle(c)
    /\ UNCHANGED <<create, pending, closed, socket, tunnelVars, doomed, stopped,
                   todo, crashed>>

\* The OnClose call in progress has returned: it waits for the cleanup that it
\* started, but not for one that another goroutine started.
Returned(a) == closer[a].calling \in Tunnels => pc[closer[a].calling] = "done"

\* HandleConnectionClose calls the next OnClose, which is cleanup.
OnClose(a, t) ==
    /\ closer[a].phase = "callbacks"
    /\ Returned(a)
    /\ t \in closer[a].notify
    /\ closer' = [closer EXCEPT ![a] =
           [@ EXCEPT !.notify = closer[a].notify \ {t},
                     !.calling = IF CleanupStarted(t) THEN NoTunnel ELSE t]]
    /\ pc' = IF CleanupStarted(t) THEN pc ELSE [pc EXCEPT ![t] = "unregister"]
    /\ UNCHANGED <<poolVars, connVars, mu, conn, doomed, stopped, todo, crashed>>

\* Where the tunnel goes after RetireConnection: createTunnel just returns when
\* it could not write CONNECT, and cleans up otherwise.
AfterRetire(t) == IF CleanupStarted(t) THEN pc[t]
                  ELSE IF pc[t] = "registered" THEN "returned" ELSE "unregister"

\* The last statement of messageLoop, RetireConnection and Close: WS.Close.
FinishClose(a) ==
    /\ closer[a].phase = "callbacks"
    /\ Returned(a) /\ closer[a].notify = {}
    /\ socket' = [socket EXCEPT ![closer[a].conn] = "closed"]
    /\ closer' = [closer EXCEPT ![a] =
                     IF a \in {Janitor, Closer} THEN Idle ELSE [Idle EXCEPT !.phase = "done"]]
    /\ pc' = IF a \in Tunnels THEN [pc EXCEPT ![a] = AfterRetire(a)] ELSE pc
    /\ UNCHANGED <<poolVars, create, pending, closed, active, activeConnections,
                   mu, conn, doomed, stopped, todo, crashed>>
-----------------------------------------------------------------------------
(* cullOldConnections *)

\* Connections past their TTL leave the pool, as long as KeepMin items stay.
Cull(S) ==
    /\ "cull" \in Faults
    /\ mu = NoTunnel
    /\ S # {} /\ S \subseteq InPool
    /\ LET kept == {i \in DOMAIN pool : pool[i] \notin S}
       IN  /\ Cardinality(kept) >= KeepMin
           /\ pool' = KeepAt(pool, kept)
    /\ closed' = [c \in Conns |-> closed[c] \/ c \in S]
    /\ doomed' = doomed \union S
    /\ UNCHANGED <<index, streams, handlers, affinity, create, pending, socket,
                   active, activeConnections, tunnelVars, closer, stopped, todo, crashed>>

\* Their sockets are closed without p.mu.
CullClose(c) ==
    /\ c \in doomed
    /\ doomed' = doomed \ {c}
    /\ socket' = [socket EXCEPT ![c] = "closed"]
    /\ UNCHANGED <<poolVars, create, pending, closed, active, activeConnections,
                   tunnelVars, closer, stopped, todo, crashed>>
-----------------------------------------------------------------------------
(* Close *)

BugCloseManaged(c) == IF c \in index \ InPool THEN "managed" ELSE "no"

\* What Close does about c after its critical section.
CloseKind(c) == IF c \in InPool THEN "idle" ELSE IF c \in index THEN "managed" ELSE "no"

\* The critical section: everything is dropped at once.
Close ==
    /\ "close" \in Faults /\ ~stopped
    /\ mu = NoTunnel
    /\ stopped' = TRUE
    /\ pool' = <<>>
    /\ index' = {}
    /\ todo' = [c \in Conns |-> CloseKind(c)]
    /\ UNCHANGED <<streams, handlers, affinity, connVars, tunnelVars, closer,
                   doomed, crashed>>

\* Then the connections one by one: OnClose is called only for those that were
\* not in the pool.
CloseItem(c) ==
    /\ todo[c] # "no"
    /\ closer[Closer].phase = "none"
    /\ todo' = [todo EXCEPT ![c] = "no"]
    /\ closed' = [closed EXCEPT ![c] = TRUE]
    /\ closer' = [closer EXCEPT ![Closer] =
                     [phase |-> "callbacks", conn |-> c, calling |-> NoTunnel,
                      notify |-> IF todo[c] = "managed" THEN handlers[c] ELSE {}]]
    /\ UNCHANGED <<poolVars, create, pending, socket, active, activeConnections,
                   tunnelVars, doomed, stopped, crashed>>

\* An assignment to an entry of the nil map managerByConn panics: by a creator,
\* by RegisterStreamHandler, or by GetConnectionWithStream.
Panic ==
    /\ stopped /\ mu = NoTunnel
    /\ \/ \E c \in Conns : create[c] = "dialing"
       \/ \E t \in Tunnels : pc[t] = "allocated"
       \/ \E t \in Tunnels, k \in DOMAIN pool : Seeks(t) /\ Open(pool[k])
    /\ crashed' = TRUE
    /\ UNCHANGED <<poolVars, connVars, tunnelVars, closer, doomed, stopped, todo>>
-----------------------------------------------------------------------------
CreateStep == \E c \in Conns :
    Reserve(c) \/ DialFails(c) \/ DialSucceeds(c) \/ AddToPool(c) \/ ReleaseSlot(c)

TunnelStep == \E t \in Tunnels :
    \/ GetConnectionWithStream(t)
    \/ AcquireTimeout(t)
    \/ RegisterStreamHandler(t)
    \/ WriteConnect(t)
    \/ Connected(t)
    \/ BeginCleanup(t)
    \/ UnregisterStreamHandler(t)
    \/ ReleaseConnection(t)
    \/ RetireByTunnel(t)

CloseStep ==
    \/ \E c \in Conns : WriteFails(c) \/ ReadFails(c) \/ RetireByJanitor(c)
    \/ \E a \in Actors : Detach(a) \/ FinishClose(a)
    \/ \E a \in Actors, t \in Tunnels : OnClose(a, t)
    \/ \E S \in SUBSET InPool : Cull(S)
    \/ \E c \in Conns : CullClose(c) \/ CloseItem(c)
    \/ Close
    \/ Panic

Next == ~crashed /\ (CreateStep \/ TunnelStep \/ CloseStep)

Spec == Init /\ [][Next]_vars

\* The tunnel's own goroutine retires the connection: its CONNECT fails, or its
\* timer fires.
GiveUp(t) == RetireByTunnel(t) /\ pc[t] \in {"registered", "waiting"}

\* A read from a closed socket fails.
ReadClosed(c) == socket[c] = "closed" /\ ReadFails(c)

\* Every goroutine that can take a step of its own takes it: p.mu is held for
\* bounded times (but see Spin), dials and writes have timeouts, and so has the
\* wait for CONNECTED.  Nothing is assumed of the network, of the clients, of
\* the heartbeat or of the culler's and Close's timing.
Fairness ==
    /\ \A c \in Conns :
          /\ WF_vars(~crashed /\ (DialFails(c) \/ DialSucceeds(c)))
          /\ WF_vars(~crashed /\ AddToPool(c))
          /\ WF_vars(~crashed /\ ReleaseSlot(c))
          /\ WF_vars(~crashed /\ ReadClosed(c))
          /\ WF_vars(~crashed /\ CullClose(c))
          /\ WF_vars(~crashed /\ CloseItem(c))
    /\ \A t \in Tunnels :
          /\ WF_vars(~crashed /\ GetConnectionWithStream(t))
          /\ WF_vars(~crashed /\ AcquireTimeout(t))
          /\ WF_vars(~crashed /\ RegisterStreamHandler(t))
          /\ WF_vars(~crashed /\ (WriteConnect(t) \/ GiveUp(t)))
          /\ WF_vars(~crashed /\ UnregisterStreamHandler(t))
          /\ WF_vars(~crashed /\ ReleaseConnection(t))
    /\ \A a \in Actors :
          /\ WF_vars(~crashed /\ Detach(a))
          /\ WF_vars(~crashed /\ \E t \in Tunnels : OnClose(a, t))
          /\ WF_vars(~crashed /\ FinishClose(a))
    /\ WF_vars(~crashed /\ Panic)

FairSpec == Spec /\ Fairness
-----------------------------------------------------------------------------
(* Properties *)

CloserRecord == [phase : {"none", "detach", "callbacks", "done"},
            conn : Conns \union {NoConn}, notify : SUBSET Tunnels,
            calling : Tunnels \union {NoTunnel}]

\* Every variable has its type; in particular neither of the two atomic
\* counters, pendingConnections and activeConnections, goes below zero.
TypeOK ==
    /\ create \in [Conns -> {"none", "dialing", "failed", "indexed", "pooled", "done"}]
    /\ pending \in Nat
    /\ pool \in Seq(Conns)
    /\ index \subseteq Conns
    /\ streams \in [Conns -> SUBSET Tunnels]
    /\ handlers \in [Conns -> SUBSET Tunnels]
    /\ affinity \in [Targets -> Conns \union {NoConn}]
    /\ active \in [Conns -> BOOLEAN]
    /\ activeConnections \in Nat
    /\ closed \in [Conns -> BOOLEAN]
    /\ socket \in [Conns -> {"none", "open", "closed"}]
    /\ mu \in Tunnels \union {NoTunnel}
    /\ pc \in [Tunnels -> {"seeking", "spinning", "refused", "allocated", "registered",
                           "waiting", "up", "returned", "unregister", "release", "done"}]
    /\ conn \in [Tunnels -> Conns \union {NoConn}]
    /\ closer \in [Actors -> CloserRecord]
    /\ doomed \subseteq Conns
    /\ stopped \in BOOLEAN
    /\ todo \in [Conns -> {"no", "idle", "managed"}]
    /\ crashed \in BOOLEAN

\* reserveConnectionSlot keeps the pool within MaxPoolSize, whatever the order
\* in which concurrent creators reserve, index, pool and release: connections
\* that are live and calls that hold a slot never exceed it together.
Capacity == ~stopped => Cardinality(LiveConns \union SlotHolders) <= MaxPoolSize

\* A stream in a manager of the pool belongs to a tunnel that will unregister
\* it: createTunnel's many exits (failed CONNECT, timeout, client gone, OnClose)
\* leak no stream of a connection that may serve other tunnels.
NoStreamLeak ==
    \A c \in index : \A t \in streams[c] :
        conn[t] = c /\ pc[t] \in {"allocated", "registered", "waiting", "up", "unregister"}

\* t was given c and is still to return it.
Uses(t, c) == conn[t] = c /\ pc[t] \in {"allocated", "registered", "waiting",
                                        "up", "unregister", "release"}

\* An open connection is in the idle pool, or a tunnel will return it there, and
\* it counts as active only while a tunnel uses it: the last one to leave marks
\* it idle, however the tunnels on it, and those that arrive, interleave.
NoStrandedConnection ==
    \A c \in Conns :
        /\ create[c] = "done" /\ Open(c) /\ ~stopped =>
               c \in InPool \/ \E t \in Tunnels : Uses(t, c)
        /\ active[c] =>
               \/ \E t \in Tunnels : Uses(t, c)
               \/ \E a \in Actors : closer[a].conn = c /\ closer[a].phase = "detach"

\* Without multiplexing a connection serves one tunnel at a time, and what is in
\* the idle pool is there once and unused.
ExclusiveUse ==
    ~EnableMultiplex =>
        /\ \A t, u \in Tunnels, c \in Conns : Uses(t, c) /\ Uses(u, c) /\ Open(c) => t = u
        /\ \A i \in DOMAIN pool : ~stopped => ~active[pool[i]] /\ streams[pool[i]] = {}
        /\ IsInjective(pool)

\* Until Close, no tunnel waits for a peer that nobody watches: the message loop
\* of its connection has not yet taken its handlers to notify, and will find its
\* handler there; or a goroutine that took it has still to call its OnClose.
NobodyForgotten ==
    ~stopped => \A t \in Tunnels : pc[t] \in {"waiting", "up"} =>
        \/ /\ conn[t] \in index /\ t \in handlers[conn[t]]
           /\ closer[conn[t]].phase \in {"none", "detach"}
        \/ \E a \in Actors : closer[a].phase = "callbacks" /\ t \in closer[a].notify

\* A tunnel whose connection has died ends, whoever noticed first: the message
\* loop, another tunnel, the heartbeat or the culler.  This is what closing the
\* stream's handlers exactly once has to achieve.  (Not so with Close among the faults:
\* it does not notify the managers of the connections it finds in the idle pool.)
TunnelsEnd ==
    \A t \in Tunnels :
        pc[t] \in {"allocated", "registered", "waiting", "up"} /\ closed[conn[t]]
            ~> pc[t] \in {"done", "returned"}

\* A dead connection leaves managerByConn and the active count for good, although
\* RegisterStreamHandler may put it back for a tunnel that came too late.
DeadIsForgotten ==
    \A c \in Conns : Reading(c) /\ closed[c] ~> [](c \notin index /\ ~active[c])

\* Close forgets no WebSocket: one that is still open when the pool has dropped
\* its indexes has somebody who is about to close it, also when Close ran between
\* the two critical sections of createConnection, of Retire or of the culler.
CloseClosesAll ==
    stopped => \A c \in Conns : socket[c] = "open" =>
        \/ todo[c] # "no" \/ c \in doomed
        \/ \E a \in Actors : closer[a].conn = c /\ closer[a].phase \in {"detach", "callbacks"}

\* GetConnectionWithStream never blocks for ever: it returns a stream or an
\* error (its own comment).  The code violates it when EnableMultiplex is set.
RequestEnds == \A t \in Tunnels : pc[t] = "spinning" ~> pc[t] # "spinning"

\* Stopping the client ends its goroutines and does not panic.  The code
\* violates it: Close leaves nil maps behind.
NoPanic == ~crashed
=============================================================================
