------------------------------ MODULE Resolver ------------------------------
(***************************************************************************)
(* Name resolution: the DNS cache and its warm-up (dns/cache.go), the DoH   *)
(* client with its servers, attempts and two formats (dns/doh.go), and, when *)
(* EnableDoHProxy is set, each of its requests as ProxyTransport.RoundTrip   *)
(* over a stream of the connection pool (pool/proxy_transport.go).          *)
(*                                                                         *)
(* One domain and its A and AAAA entries are modelled, and one WebSocket at *)
(* a time; TunnelConn models the bytes of a request.  A stream has the name *)
(* of its request: a second unregister finds it gone.  In the code it finds  *)
(* it by its ID, which StreamManager gives to another one no sooner than    *)
(* after MCStreamManager!ReuseDistance others; StreamManager says what it   *)
(* does then (ExclusiveLease).                                              *)
(***************************************************************************)
EXTENDS Integers, FiniteSets

CONSTANTS
    Resolvers,   \* goroutines that resolve
    NoResolver,
    Settings,    \* see SettingAssumption
    Sem          \* tasks that DNSCache.Warmup runs at a time

Ops == {"any", "ips", "warm", "ech"}
Types == {"A", "AAAA"}

\* proxied: EnableDoHProxy.  multiplex: EnableMultiplex.  limit:
\* MaxStreamsPerConnection.  servers: how many DoH servers there are, one when
\* DoHUrl is given.  ops: what is called.  domains: how many Warmup resolves.
ASSUME SettingAssumption ==
    Settings \subseteq [proxied : BOOLEAN, multiplex : BOOLEAN, limit : Nat \ {0},
                        servers : Nat \ {0}, ops : SUBSET Ops, domains : Nat]
ASSUME SizeAssumption ==
    NoResolver \notin Resolvers /\ IsFiniteSet(Resolvers) /\ Sem \in Nat \ {0}

VARIABLES
    setting,
    working,       \* DoH servers that answer every direct request
    lastServerIdx,
    cache,         \* the types with an entry that has not expired
    call,          \* call[r]: what r is doing
    open,          \* the WebSocket is open and in managerByConn
    pooling,       \* its dial is about to append it to p.pool
    idle,          \* its entries in p.pool
    early,         \* a request took a stream of it while it was pooling (history)
    mu,            \* who goes round a full pool with p.mu held, or NoResolver
    streams,       \* resolvers with a stream of it
    on,            \* on[r]: the connection of r is still that one
    token,         \* token[r]: closeChan holds a token
    stranded,      \* RoundTrip has left the connection without ReleaseConnection
    warm           \* progress of Warmup

dohVars == <<working, lastServerIdx, cache>>
poolVars == <<open, pooling, idle, early, mu>>
connVars == <<poolVars, streams, on, token, stranded>>
vars == <<setting, dohVars, call, connVars, warm>>

Rest == [at |-> "idle", op |-> "any", type |-> "A", found |-> FALSE,
         start |-> 0, offset |-> 0, try |-> 0, whole |-> FALSE]

Init ==
    /\ setting \in Settings
    /\ working \in IF setting.proxied THEN {{}} ELSE SUBSET (0 .. setting.servers - 1)
    /\ lastServerIdx = 0
    /\ cache = {}
    /\ call = [r \in Resolvers |-> Rest]
    /\ open = setting.proxied /\ idle = IF setting.proxied THEN 1 ELSE 0
    /\ pooling = FALSE /\ early = FALSE /\ mu = NoResolver
    /\ streams = {}
    /\ on = [r \in Resolvers |-> FALSE] /\ token = [r \in Resolvers |-> FALSE]
    /\ stranded = FALSE
    /\ warm = [at |-> "on", left |-> setting.domains, used |-> 0]

At(r, step) == call[r].at = step
Become(r, c) == call' = [call EXCEPT ![r] = c]
Goto(r, step) == call' = [call EXCEPT ![r].at = step]
-----------------------------------------------------------------------------
(* ResolveAny, LookupIPs, the tasks of Warmup, and DoHClient.GetECHConfig,    *)
(* which the ECH manager calls past the cache                               *)

Begin(r, op) == Become(r, [Rest EXCEPT !.at = "lookup", !.op = op,
                                       !.type = IF op = "ech" THEN "HTTPS" ELSE "A"])

Resolve(r) ==
    /\ At(r, "idle")
    /\ \E op \in setting.ops \ {"warm"} : Begin(r, op)
    /\ UNCHANGED <<setting, dohVars, connVars, warm>>

\* A lookup of one type is over: the next type, the system's resolver, or the end.
Continue(r, success) ==
    LET c == call[r]
        found == c.found \/ success
        second == [Rest EXCEPT !.at = "lookup", !.op = c.op, !.type = "AAAA",
                               !.found = success /\ c.op = "ips"]
    IN IF c.op = "ech" \/ (c.op = "any" /\ success) THEN Rest
       ELSE IF c.type = "A" THEN second
       ELSE [Rest EXCEPT !.at = IF c.op = "warm" \/ found THEN "idle" ELSE "system",
                         !.op = c.op]

BugKeepSlot(r, c) ==
    /\ Become(r, IF c.at = "idle" THEN Rest ELSE c)
    /\ warm' = IF c.at = "idle" /\ call[r].op = "warm" /\ call[r].at # "failed"
               THEN [warm EXCEPT !.used = @ - 1] ELSE warm

\* The semaphore of Warmup.
Leave(r, c) ==
    /\ Become(r, IF c.at = "idle" THEN Rest ELSE c)
    /\ warm' = IF c.at = "idle" /\ call[r].op = "warm" THEN [warm EXCEPT !.used = @ - 1] ELSE warm

\* ResolveCached: the cache, or else the servers from the last good one on.
Hit(r) ==
    /\ At(r, "lookup") /\ call[r].type \in cache
    /\ Leave(r, Continue(r, TRUE))
    /\ UNCHANGED <<setting, dohVars, connVars>>

Miss(r) ==
    /\ At(r, "lookup") /\ call[r].type \notin cache
    /\ Become(r, [call[r] EXCEPT !.at = "request", !.start = lastServerIdx])
    /\ UNCHANGED <<setting, dohVars, connVars, warm>>

Store(r) ==
    /\ At(r, "answered")
    /\ cache' = cache \union ({call[r].type} \intersect Types)
    /\ Leave(r, Continue(r, TRUE))
    /\ UNCHANGED <<setting, working, lastServerIdx, connVars>>

GiveUp(r) ==
    /\ At(r, "failed")
    /\ Leave(r, Continue(r, FALSE))
    /\ UNCHANGED <<setting, dohVars, connVars>>

\* LookupIP succeeds or fails.  Only ResolveAny caches what it returns.
AskSystem(r) ==
    /\ At(r, "system")
    /\ \/ cache' = cache
       \/ call[r].op = "any" /\ \E x \in Types : cache' = cache \union {x}
    /\ Become(r, Rest)
    /\ UNCHANGED <<setting, working, lastServerIdx, connVars, warm>>

\* An entry's TTL ends: Get and cleanup delete it, whichever sees it first.
Expire ==
    /\ \E x \in cache : cache' = cache \ {x}
    /\ UNCHANGED <<setting, working, lastServerIdx, call, connVars, warm>>

\* Warmup waits for a slot, and for all tasks at the end.
Dispatch(r) ==
    /\ warm.at = "on" /\ warm.left > 0 /\ warm.used < Sem
    /\ At(r, "idle")
    /\ warm' = [warm EXCEPT !.left = @ - 1, !.used = @ + 1]
    /\ Begin(r, "warm")
    /\ UNCHANGED <<setting, dohVars, connVars>>

\* Its 15 seconds are over: no task is added, and one that runs stops before its
\* next lookup.
WarmupLate ==
    /\ warm.at = "on"
    /\ warm' = [warm EXCEPT !.at = "late"]
    /\ UNCHANGED <<setting, dohVars, call, connVars>>

StopEarly(r) ==
    /\ warm.at = "late" /\ At(r, "lookup") /\ call[r].op = "warm"
    /\ Leave(r, Rest)
    /\ UNCHANGED <<setting, dohVars, connVars>>

WarmupEnd ==
    /\ warm.at = "late" \/ (warm.at = "on" /\ warm.left = 0)
    /\ warm.used = 0
    /\ warm' = [warm EXCEPT !.at = "done"]
    /\ UNCHANGED <<setting, dohVars, call, connVars>>
-----------------------------------------------------------------------------
(* DoHClient.Resolve: servers in turn, two attempts each, two formats each   *)

Over(c, step) == [Rest EXCEPT !.at = step, !.op = c.op, !.type = c.type, !.found = c.found]

BugNoModulo(r) == call[r].start + call[r].offset

Server(r) == (call[r].start + call[r].offset) % setting.servers

BugNoWrap(c) ==
    IF c.start + c.offset + 1 < setting.servers
    THEN [c EXCEPT !.at = "request", !.offset = @ + 1, !.try = 0]
    ELSE Over(c, "failed")

NextServer(c) ==
    IF c.offset + 1 < setting.servers
    THEN [c EXCEPT !.at = "request", !.offset = @ + 1, !.try = 0]
    ELSE Over(c, "failed")

BugRetryForever(c, result) ==
    IF result = "late" THEN NextServer(c)
    ELSE CASE c.try \in {0, 2} -> [c EXCEPT !.at = "request", !.try = @ + 1]
           [] c.try \notin {0, 2} /\ result = "retry" -> [c EXCEPT !.at = "request", !.try = 2]
           [] OTHER -> NextServer(c)

\* try 0: RFC 8484, 1: JSON, 2 and 3: the same again, if the error of JSON looks
\* like one of the connection.  late: the server's time is over.
AfterError(c, result) ==
    IF result = "late" THEN NextServer(c)
    ELSE CASE c.try \in {0, 2} -> [c EXCEPT !.at = "request", !.try = @ + 1]
           [] c.try = 1 /\ result = "retry" -> [c EXCEPT !.at = "request", !.try = 2]
           [] OTHER -> NextServer(c)

\* resolveAttempt returns.
Returned(r, result) ==
    IF result = "ok"
    THEN /\ Become(r, Over(call[r], "answered"))
         /\ lastServerIdx' = IF call[r].offset = 0 THEN lastServerIdx ELSE Server(r)
    ELSE /\ Become(r, AfterError(call[r], result))
         /\ lastServerIdx' = lastServerIdx

Errors == {"retry", "other", "late"}

\* Without the proxy a request ends by itself: the client has a timeout.
DirectRequest(r) ==
    /\ ~setting.proxied
    /\ At(r, "request")
    /\ \E result \in IF Server(r) \in working THEN {"ok"} ELSE {"ok"} \union Errors :
          Returned(r, result)
    /\ UNCHANGED <<setting, working, cache, connVars, warm>>
\* Bound: servers come and go while nobody is asking them or acts on their
\* failure.
ServersChange ==
    /\ \A r \in Resolvers : call[r].at \notin {"request", "failed", "system"}
    /\ ~setting.proxied
    /\ working' \in SUBSET (0 .. setting.servers - 1) \ {working}
    /\ UNCHANGED <<setting, lastServerIdx, cache, call, connVars, warm>>
-----------------------------------------------------------------------------
(* ProxyTransport.RoundTrip *)

Fail(r) == \E result \in Errors : Returned(r, result)

MuFree == mu = NoResolver

\* GetConnectionWithStream: the idle connection, or a busy one.
Acquire(r) ==
    /\ setting.proxied
    /\ At(r, "request")
    /\ MuFree
    /\ open /\ Cardinality(streams) < setting.limit
    /\ \/ idle > 0 /\ idle' = idle - 1 /\ early' = early
       \/ idle = 0 /\ setting.multiplex /\ idle' = idle /\ early' = (early \/ pooling)
    /\ stranded' = FALSE
    /\ streams' = streams \union {r}
    /\ on' = [on EXCEPT ![r] = TRUE] /\ token' = [token EXCEPT ![r] = FALSE]
    /\ Goto(r, "acquired")
    /\ UNCHANGED <<setting, dohVars, open, pooling, mu, warm>>

\* The idle connection is full: the loop pops it and puts it back, for ever.
Spin(r) ==
    /\ setting.proxied
    /\ At(r, "request")
    /\ MuFree
    /\ idle > 0 /\ Cardinality(streams) >= setting.limit
    /\ mu' = r
    /\ UNCHANGED <<setting, dohVars, call, open, pooling, idle, early, streams, on, token, stranded, warm>>

\* The pool is full, or ten seconds are over, which the loop looks at while it
\* waits for a connection.
AcquireFails(r) ==
    /\ setting.proxied
    /\ At(r, "request")
    /\ mu # r
    /\ Fail(r)
    /\ UNCHANGED <<setting, working, cache, connVars, warm>>

Register(r) ==
    /\ At(r, "acquired")
    /\ MuFree
    /\ Goto(r, "registered")
    /\ UNCHANGED <<setting, dohVars, connVars, warm>>

WriteConnect(r) ==
    /\ At(r, "registered") /\ on[r]
    /\ Goto(r, "waiting")
    /\ UNCHANGED <<setting, dohVars, connVars, warm>>

\* RetireConnection, by whoever: the streams go, and OnClose puts a token in the
\* closeChan of each registered one but r, which no longer reads its own.  A loop
\* that spins sees the closed flag, which is set without p.mu, and ends; so does,
\* later, the next one for which a dead connection was appended.
Dead(r) ==
    /\ open' = FALSE /\ pooling' = FALSE /\ idle' = 0 /\ early' = FALSE /\ mu' = NoResolver
    /\ streams' = {}
    /\ on' = [q \in Resolvers |-> FALSE]
    /\ token' = [q \in Resolvers |->
          q # r /\ (token[q] \/ (q \in streams /\ call[q].at \in {"registered", "waiting", "exchange"}))]
    /\ stranded' = FALSE

\* CONNECT cannot be written, or CONNECTED does not come in five seconds.
Retire(r) ==
    /\ At(r, "registered") \/ At(r, "waiting")
    /\ IF on[r] THEN Dead(r)
       ELSE /\ MuFree
            /\ token' = [token EXCEPT ![r] = FALSE]
            /\ UNCHANGED <<poolVars, streams, on, stranded>>
    /\ Fail(r)
    /\ UNCHANGED <<setting, working, cache, warm>>

\* The message loop passes a message on under p.mu.
Connected(r) ==
    /\ At(r, "waiting") /\ on[r]
    /\ MuFree
    /\ Goto(r, "exchange")
    /\ UNCHANGED <<setting, dohVars, connVars, warm>>

\* The worker sends CLOSE.
WorkerCloses(r) ==
    /\ r \in streams /\ call[r].at \in {"waiting", "exchange"}
    /\ ~token[r]
    /\ MuFree
    /\ token' = [token EXCEPT ![r] = TRUE]
    /\ UNCHANGED <<setting, dohVars, call, poolVars, streams, on, stranded, warm>>

\* CLOSE instead of CONNECTED: the stream is unregistered, but nobody calls
\* ReleaseConnection.
ClosedEarly(r) ==
    /\ At(r, "waiting") /\ token[r]
    /\ MuFree
    /\ streams' = streams \ {r}
    /\ stranded' = (stranded \/ (on[r] /\ streams = {r}))
    /\ on' = [on EXCEPT ![r] = FALSE] /\ token' = [token EXCEPT ![r] = FALSE]
    /\ Fail(r)
    /\ UNCHANGED <<setting, working, cache, poolVars, warm>>

\* From here on nobody reads closeChan, except the watcher, whose Close has no
\* more effect.
LeaveExchange(r, step) ==
    /\ Goto(r, step)
    /\ token' = [token EXCEPT ![r] = FALSE]
    /\ UNCHANGED <<setting, dohVars, poolVars, streams, on, stranded, warm>>

\* TLS or HTTP fails, at the latest when the watcher has closed the tunnel.  The
\* tunnel has no deadlines: as long as the worker is silent, it goes on.
ExchangeFails(r) ==
    /\ At(r, "exchange")
    /\ LeaveExchange(r, "unregister")

\* A status of 400 or more: RoundTrip returns the stream and the connection at
\* once, and its deferred function does so again.
BadStatus(r) ==
    /\ At(r, "exchange") /\ on[r]
    /\ LeaveExchange(r, "badUnregister")

GoodStatus(r) ==
    /\ At(r, "exchange") /\ on[r]
    /\ LeaveExchange(r, "body")

\* The deferred function has closed the tunnel already, so that the body may be
\* cut short.  Body.Close then returns stream and connection.
ReadBody(r) ==
    /\ At(r, "body")
    /\ \E whole \in BOOLEAN : Become(r, [call[r] EXCEPT !.at = "unregister", !.whole = whole])
    /\ UNCHANGED <<setting, dohVars, connVars, warm>>

UnregisterStream(r) ==
    /\ At(r, "unregister") \/ At(r, "badUnregister")
    /\ MuFree
    /\ streams' = streams \ {r}
    /\ Goto(r, IF At(r, "unregister") THEN "release" ELSE "badRelease")
    /\ UNCHANGED <<setting, dohVars, poolVars, on, token, stranded, warm>>

BugReleaseAlways == TRUE

NoStreams == streams = {}

BugReturnEarly(r) ==
    /\ MuFree
    /\ idle' = IF idle = 0 /\ on[r] /\ streams = {r} THEN 1 ELSE idle
    /\ UNCHANGED <<open, pooling, early, mu>>

\* The connection goes back to the pool if its streams are all gone, unless it is
\* there.
ReturnConnection(r) ==
    /\ MuFree
    /\ idle' = IF idle = 0 /\ on[r] /\ NoStreams THEN 1 ELSE idle
    /\ UNCHANGED <<open, pooling, early, mu>>

ReleaseInner(r) ==
    /\ At(r, "badRelease")
    /\ ReturnConnection(r)
    /\ Goto(r, "unregister")
    /\ UNCHANGED <<setting, dohVars, streams, on, token, stranded, warm>>

ReleaseConnection(r) ==
    /\ At(r, "release")
    /\ ReturnConnection(r)
    /\ on' = [on EXCEPT ![r] = FALSE]
    /\ IF call[r].whole THEN Returned(r, "ok") ELSE Fail(r)
    /\ UNCHANGED <<setting, working, cache, streams, token, stranded, warm>>

ConnectionDies ==
    /\ open /\ Dead(NoResolver)
    /\ UNCHANGED <<setting, dohVars, call, warm>>

\* createConnection and createConnectionSync: a dial indexes its connection, and
\* appends it to p.pool in a second critical section, without looking for it there.
Redial ==
    /\ setting.proxied /\ ~open
    /\ open' = TRUE /\ pooling' = TRUE
    /\ UNCHANGED <<setting, dohVars, call, idle, early, mu, streams, on, token, stranded, warm>>

AddToPool ==
    /\ pooling /\ MuFree
    /\ pooling' = FALSE /\ idle' = idle + 1
    /\ UNCHANGED <<setting, dohVars, call, open, early, mu, streams, on, token, stranded, warm>>
-----------------------------------------------------------------------------
\* The steps that r takes by itself, whatever the worker does.
OwnStep(r) ==
    \/ Hit(r) \/ Miss(r) \/ Store(r) \/ GiveUp(r) \/ AskSystem(r) \/ StopEarly(r)
    \/ DirectRequest(r) \/ AcquireFails(r) \/ Register(r) \/ WriteConnect(r) \/ Retire(r)
    \/ ClosedEarly(r) \/ ReadBody(r)
    \/ UnregisterStream(r) \/ ReleaseInner(r) \/ ReleaseConnection(r)

Step(r) ==
    \/ OwnStep(r) \/ Resolve(r) \/ Dispatch(r) \/ Acquire(r) \/ Spin(r) \/ Connected(r)
    \/ WorkerCloses(r) \/ ExchangeFails(r) \/ BadStatus(r) \/ GoodStatus(r)

Next ==
    \/ \E r \in Resolvers : Step(r)
    \/ Expire \/ ServersChange \/ WarmupLate \/ WarmupEnd
    \/ ConnectionDies \/ Redial \/ AddToPool

Spec == Init /\ [][Next]_vars

\* A goroutine goes on, unless p.mu is held for ever; a read from a closed tunnel
\* ends.  Nothing is assumed of the worker, the servers or the pool, nor that
\* Warmup's time ever ends.
Fairness ==
    /\ \A r \in Resolvers :
          /\ WF_vars(MuFree /\ OwnStep(r))
          /\ WF_vars((token[r] \/ ~on[r]) /\ ExchangeFails(r))
    /\ SF_vars(\E r \in Resolvers : Dispatch(r))
    /\ WF_vars(WarmupEnd)

FairSpec == Spec /\ Fairness
-----------------------------------------------------------------------------
(* Properties *)

InPool == {"acquired", "registered", "waiting", "exchange", "body", "badUnregister",
           "badRelease", "unregister", "release"}

\* Every variable has its type: the slots of Warmup's semaphore are counted
\* exactly, a stream is held by a request in progress, and a connection has two
\* entries in p.pool at most, the dial's own and one that a request returned.
TypeOK ==
    /\ setting \in Settings
    /\ working \subseteq 0 .. setting.servers - 1
    /\ lastServerIdx \in 0 .. setting.servers - 1
    /\ cache \subseteq Types
    /\ call \in [Resolvers ->
          [at : InPool \union {"idle", "lookup", "request", "answered", "failed", "system"},
           op : Ops, type : Types \union {"HTTPS"}, found : BOOLEAN, start : 0 .. setting.servers - 1,
           offset : 0 .. setting.servers - 1, try : 0 .. 3, whole : BOOLEAN]]
    /\ {open, pooling, early, stranded} \subseteq BOOLEAN
    /\ idle \in 0 .. 2 /\ mu \in Resolvers \union {NoResolver}
    /\ streams \subseteq {r \in Resolvers : call[r].at \in InPool}
    /\ {on, token} \subseteq [Resolvers -> BOOLEAN]
    /\ warm \in [at : {"on", "late", "done"}, left : Nat, used : 0 .. Sem]

\* Resolve fails only after it has asked every server: with one that answers, and
\* no tunnel to break, nothing else is needed, wherever the last good server left
\* the starting point and however concurrent resolutions move it.
AnyServerServes ==
    ~setting.proxied /\ working # {} => \A r \in Resolvers : call[r].at \notin {"failed", "system"}

\* The connection that carries DoH requests is in the idle pool once, and only when
\* unused, although RoundTrip returns it twice after a bad status, while others take
\* it.  With multiplexing there is one way around this, from which Spin starts: a
\* request took a stream before the dial appended the connection.
IdleUnused == idle > 0 /\ ~(setting.multiplex /\ early) => idle = 1 /\ streams = {}

\* An open connection is idle or about to be, or a request will return it, except
\* after a CLOSE instead of CONNECTED, which RoundTrip answers without
\* ReleaseConnection.
ReturnedOrStranded ==
    open => idle > 0 \/ pooling \/ stranded \/ \E r \in Resolvers : on[r] /\ call[r].at \in InPool

\* An exchange whose peer says nothing.
Silent(r) == At(r, "exchange") /\ on[r] /\ ~token[r]

\* A resolution stays for ever in two places only: in an exchange on a live stream
\* whose peer is silent, which has no timeout of its own, and, with multiplexing,
\* behind a pool that spins, which needs a stream taken early.  Without the proxy
\* Warmup ends too: no exit of a task keeps its slot of the semaphore, on which the
\* loop that adds tasks waits.
KnownHangs ==
    /\ \A r \in Resolvers :
          []<>(At(r, "idle") \/ Silent(r) \/ (setting.multiplex /\ early /\ ~MuFree))
    /\ ~setting.proxied => <>(warm.at = "done")
=============================================================================
