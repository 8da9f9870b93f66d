---------------------------- MODULE StreamManager ----------------------------
(***************************************************************************)
(* One pool.StreamManager: the table of multiplexed streams of one         *)
(* WebSocket connection (src/golib/pool/stream_manager.go).                *)
(*                                                                         *)
(* Stream IDs are a byte; NumIds stands for 256.  An owner is a goroutine  *)
(* that tunnels one client (socks5 createTunnel, proxy transport           *)
(* RoundTrip).  It knows its stream by the bare ID: RegisterHandler and    *)
(* UnregisterStream act on whatever stream has that ID.                    *)
(*                                                                         *)
(* Every operation below is one critical section of sm.mu;                 *)
(* HandleConnectionClose has three of them (snapshot, wipe, counters) with *)
(* the OnClose callbacks between the first two, outside the lock.          *)
(***************************************************************************)
EXTENDS Integers, FiniteSets

CONSTANTS
    NumIds,      \* size of the stream ID space: 256 in the code
    MaxStreams,  \* sm.max, config maxStreamsPerConnection
    Owners,      \* goroutines that use streams of this connection
    Requests,    \* those of them that run RoundTrip
    Nobody

ASSUME NumIdsAssumption == NumIds \in Nat \ {0}
ASSUME MaxStreamsAssumption == MaxStreams \in Nat
ASSUME OwnersAssumption == IsFiniteSet(Owners) /\ Requests \subseteq Owners /\ Nobody \notin Owners

VARIABLES
    streams,       \* sm.streams: stream ID -> [owner, whose handler is registered]
    allocBitmap,   \* sm.allocBitmap, as the set of IDs whose bit is set
    nextHint,      \* sm.nextHint
    connStreams,   \* sm.conn.Streams
    activeStreams, \* sm.conn.Traffic.activeStreams
    lease,         \* lease[o]: the stream ID that o is still to unregister, or NoId
    step,          \* step[o]: what o has done with it
    closing,       \* progress of HandleConnectionClose
    toNotify,      \* owners whose OnClose is still to be called
    notified,      \* owners whose OnClose has been called
    remaining,     \* local variable of HandleConnectionClose
    robbed         \* history, for properties only: owners whose stream somebody
                   \* else has freed

ownerVars == <<lease, step, robbed>>
closeVars == <<closing, toNotify, notified, remaining>>
vars == <<streams, allocBitmap, nextHint, connStreams, activeStreams, ownerVars, closeVars>>

Ids == 0 .. NumIds - 1
NoId == NumIds
ClosePhases == {"open", "callbacks", "counters", "closed"}
Steps == {"none", "allocated", "registered", "again"}

Stream == [owner : Owners, handler : Owners \union {Nobody}]
Table == UNION {[S -> Stream] : S \in SUBSET Ids}
NoStreams == [id \in {} |-> id]

-----------------------------------------------------------------------------
(* The ID allocator.  Definitions named Bug... are seeded faults: no         *)
(* operation uses them; each is the wrong version of the one that follows.   *)

BugFirstFit(i) == i

\* The i-th ID that findFreeBit looks at.
Scan(i) == (nextHint + i) % NumIds

BugIgnoreBitmap(id) == id = Scan(0)

\* The ID findFreeBit returns: the first clear bit from nextHint on, cyclically.
IsFreeBit(id) ==
    \E k \in Ids : /\ id = Scan(k)
                   /\ id \notin allocBitmap
                   /\ \A j \in 0 .. k - 1 : Scan(j) \in allocBitmap

BugNoWrap(id) == id + 1

\* Where the next search starts; a byte wraps around.
HintAfter(id) == (id + 1) % NumIds

BugKeepBit(id) == allocBitmap

\* clearBit
ClearBit(id) == allocBitmap \ {id}

BugOneTooMany == Cardinality(DOMAIN streams) > MaxStreams

\* The table has no room, whatever the bitmap says.
Full == Cardinality(DOMAIN streams) >= MaxStreams

BugNoFloor(n, k) == n

\* n - k, but never below zero: conn.Streams has a floor.
Floored(n, k) == IF n < k THEN 0 ELSE n - k

-----------------------------------------------------------------------------
Init ==
    /\ streams = NoStreams
    /\ allocBitmap = {}
    /\ nextHint = 0
    /\ connStreams = 0
    /\ activeStreams = 0
    /\ lease = [o \in Owners |-> NoId]
    /\ step = [o \in Owners |-> "none"]
    /\ closing = "open"
    /\ toNotify = {}
    /\ notified = {}
    /\ remaining = 0
    /\ robbed = {}

\* The pool allocates and registers only on managers it still indexes, and it
\* drops the manager from its index before it closes it (handleConnectionClose).
Indexed == closing = "open"

\* tryAllocateStream succeeds.  When the table is full, or no bit is clear, it
\* returns false and changes nothing.
TryAllocateStream(o) ==
    /\ Indexed
    /\ step[o] = "none"
    /\ ~Full
    /\ \E id \in Ids :
          /\ IsFreeBit(id)
          /\ nextHint' = HintAfter(id)
          /\ allocBitmap' = allocBitmap \union {id}
          /\ streams' = [i \in DOMAIN streams \union {id} |->
                            IF i = id THEN [owner |-> o, handler |-> Nobody]
                                      ELSE streams[i]]
          /\ lease' = [lease EXCEPT ![o] = id]
    /\ step' = [step EXCEPT ![o] = "allocated"]
    /\ connStreams' = connStreams + 1
    /\ activeStreams' = activeStreams + 1
    /\ UNCHANGED <<closeVars, robbed>>

\* RegisterHandler: does nothing when no stream has the ID any more.
RegisterHandler(o) ==
    /\ Indexed
    /\ step[o] = "allocated"
    /\ lease[o] \in DOMAIN streams
    /\ streams' = [streams EXCEPT ![lease[o]].handler = o]
    /\ step' = [step EXCEPT ![o] = "registered"]
    /\ UNCHANGED <<allocBitmap, nextHint, connStreams, activeStreams, lease, closeVars, robbed>>

\* An owner is through with its ID.  After a bad status RoundTrip unregisters it
\* in its body, and once more in its deferred function.
GivesUp(o) ==
    \/ /\ lease' = [lease EXCEPT ![o] = NoId]
       /\ step' = [step EXCEPT ![o] = "none"]
    \/ /\ o \in Requests /\ step[o] = "registered"
       /\ step' = [step EXCEPT ![o] = "again"]
       /\ lease' = lease

\* The ID that o unregisters is not, or no longer, that of its own stream.
Stale(o) == step[o] = "again" \/ o \in robbed

\* UnregisterStream: owners call it from their cleanup, which may also run as
\* the OnClose callback of a closing manager.  Nothing is asked about the owner
\* of the stream that has the ID.
UnregisterStream(o) ==
    /\ step[o] # "none"
    /\ GivesUp(o)
    /\ \/ /\ lease[o] \in DOMAIN streams
          /\ streams' = [i \in DOMAIN streams \ {lease[o]} |-> streams[i]]
          /\ allocBitmap' = ClearBit(lease[o])
          /\ connStreams' = Floored(connStreams, 1)
          /\ activeStreams' = activeStreams - 1
          /\ robbed' = (robbed \union (IF Stale(o) THEN {streams[lease[o]].owner} ELSE {})) \ {o}
       \/ /\ lease[o] \notin DOMAIN streams
          /\ robbed' = robbed \ {o}
          /\ UNCHANGED <<streams, allocBitmap, connStreams, activeStreams>>
    /\ UNCHANGED <<nextHint, closeVars>>

\* The same cleanup through the pool, which no longer finds the manager: the
\* stream stays in the table, to be wiped.
UnregisterDetached(o) ==
    /\ ~Indexed
    /\ step[o] # "none"
    /\ GivesUp(o)
    /\ robbed' = robbed \ {o}
    /\ UNCHANGED <<streams, allocBitmap, nextHint, connStreams, activeStreams, closeVars>>

\* HandleConnectionClose, first critical section: the handlers to call.
CloseSnapshot ==
    /\ closing = "open"
    /\ closing' = "callbacks"
    /\ toNotify' = {streams[i].handler : i \in DOMAIN streams} \ {Nobody}
    /\ UNCHANGED <<streams, allocBitmap, nextHint, connStreams, activeStreams,
                   ownerVars, notified, remaining>>

BugAsyncCallbacks == closing = "callbacks"

\* Every OnClose of the snapshot has returned.
CallbacksDone == closing = "callbacks" /\ toNotify = {}

BugCountHandlers == Cardinality({i \in DOMAIN streams : streams[i].handler # Nobody})

\* The streams that neither their owners nor the callbacks have unregistered.
StreamsLeft == Cardinality(DOMAIN streams)

\* One OnClose callback, called without sm.mu.
CloseCallback(o) ==
    /\ closing = "callbacks"
    /\ o \in toNotify
    /\ toNotify' = toNotify \ {o}
    /\ notified' = notified \union {o}
    /\ UNCHANGED <<streams, allocBitmap, nextHint, connStreams, activeStreams,
                   ownerVars, closing, remaining>>

\* Second critical section: count and wipe what the callbacks left behind.
CloseWipe ==
    /\ CallbacksDone
    /\ closing' = "counters"
    /\ remaining' = StreamsLeft
    /\ streams' = NoStreams
    /\ allocBitmap' = {}
    /\ nextHint' = 0
    /\ UNCHANGED <<connStreams, activeStreams, ownerVars, toNotify, notified>>

\* The counters are corrected after sm.mu is released.
CloseCounters ==
    /\ closing = "counters"
    /\ closing' = "closed"
    /\ connStreams' = Floored(connStreams, remaining)
    /\ activeStreams' = activeStreams - remaining
    /\ remaining' = 0
    /\ UNCHANGED <<streams, allocBitmap, nextHint, ownerVars, toNotify, notified>>

HandleConnectionClose ==
    \/ CloseSnapshot
    \/ \E o \in Owners : CloseCallback(o)
    \/ CloseWipe
    \/ CloseCounters

Next ==
    \/ \E o \in Owners : TryAllocateStream(o)
    \/ \E o \in Owners : RegisterHandler(o)
    \/ \E o \in Owners : UnregisterStream(o) \/ UnregisterDetached(o)
    \/ HandleConnectionClose

\* A goroutine that runs HandleConnectionClose, or an owner's cleanup, is never
\* blocked for ever: sm.mu is held for a bounded time only.
Fairness ==
    /\ WF_vars(\E o \in Owners : CloseCallback(o))
    /\ WF_vars(CloseWipe)
    /\ WF_vars(CloseCounters)

Spec == Init /\ [][Next]_vars
FairSpec == Spec /\ Fairness

-----------------------------------------------------------------------------
(* Properties *)

\* Every variable has its type.
TypeOK ==
    /\ streams \in Table
    /\ allocBitmap \subseteq Ids
    /\ nextHint \in Ids
    /\ connStreams \in Nat
    /\ activeStreams \in Int
    /\ lease \in [Owners -> Ids \union {NoId}]
    /\ step \in [Owners -> Steps]
    /\ \A o \in Owners : step[o] = "none" <=> lease[o] = NoId
    /\ closing \in ClosePhases
    /\ toNotify \subseteq Owners
    /\ notified \subseteq Owners
    /\ remaining \in Nat
    /\ robbed \subseteq Owners

\* The bitmap and the stream table, updated by separate statements of every
\* operation, always describe the same set of stream IDs: an ID cannot leak
\* (bit set, no stream) nor be handed out twice (stream, bit clear).
BitmapMatchesTable == allocBitmap = DOMAIN streams

Wiped == closing \in {"counters", "closed"}

Holds(o) == step[o] \in {"allocated", "registered"}

\* A stream ID belongs to one owner, the one the table records, and until the
\* connection wipes its table an owner's stream is in it, but for one kind of
\* cleanup: a second call of UnregisterStream for an ID that was given up, or the
\* call of an owner that has lost its own stream in this way.  No other sequence
\* of allocations, cleanups and closes takes a stream from its owner.
ExclusiveLease ==
    /\ \A id \in DOMAIN streams, o \in Owners : streams[id].owner = o =>
          \/ Holds(o) /\ o \notin robbed /\ lease[o] = id
          \/ ~Indexed /\ ~Holds(o)
    /\ \A o, p \in Owners \ robbed : Holds(o) /\ Holds(p) /\ lease[o] = lease[p] => o = p
    /\ ~Wiped => \A o \in Owners \ robbed :
          Holds(o) => lease[o] \in DOMAIN streams /\ streams[lease[o]].owner = o

\* ConnItem.Streams and the traffic counter of active streams agree with the
\* table at every instant, but for the streams that HandleConnectionClose has
\* wiped and not yet subtracted; no stream is subtracted twice, by its own
\* cleanup and by the close.
CountersExact ==
    /\ connStreams = Cardinality(DOMAIN streams) + remaining
    /\ activeStreams = connStreams

\* HandleConnectionClose never wipes a stream that has a handler without having
\* called that handler's OnClose: the goroutine behind it would hang until its
\* client goes.
WipeOnlyNotified ==
    [][closing = "callbacks" /\ closing' = "counters" =>
          \A id \in DOMAIN streams :
              streams[id].handler # Nobody => streams[id].handler \in notified]_vars

\* A close that has begun ends, with every counter of the connection at zero.
CloseCompletes == closing # "open" ~> closing = "closed" /\ connStreams = 0

\* StreamManager implements the abstract lease service: an owner holds an ID
\* as long as the table has its stream.
Held == [o \in Owners |-> IF Holds(o) /\ lease[o] \in DOMAIN streams /\ streams[lease[o]].owner = o
                          THEN lease[o] ELSE NoId]
Lease == INSTANCE StreamLease WITH held <- Held, open <- (closing = "open")
ImplementsLease == Lease!Spec
=============================================================================
