------------------------------ MODULE Dialing ------------------------------
(***************************************************************************)
(* How a WebSocket is dialed: the choice of a relay node and its load       *)
(* (relay/manager.go), the TLS configuration with or without ECH            *)
(* (ech/manager.go, getTLSConfig), what a failure does (handleDialError),   *)
(* and Warmup, which dials in batches (pool/connection.go).                 *)
(*                                                                         *)
(* A member of Dials is a goroutine that runs createConnection again and    *)
(* again, one of Warmers runs createConnectionSync for Warmup.  What        *)
(* becomes of the connection is left to ConnectionPool, and how the pool     *)
(* carries a DoH query to Resolver.                                         *)
(***************************************************************************)
EXTENDS Integers, FiniteSets, Functions

CONSTANTS
    Dials, Warmers,
    Nodes,           \* the addresses of relay nodes that DNS and the settings give
    NoNode, Automatic, Error,
    Settings,        \* see SettingAssumption
    MaxPoolSize,     \* cfg.MaxPoolSize
    Concurrency,     \* cfg.WarmupConcurrency
    MaxKey           \* bound: ECH keys that the worker has, one after the other

Callers == Dials \union Warmers
Refreshers == {Automatic, Error}

ASSUME NodeAssumption == NoNode \notin Nodes /\ Automatic # Error
ASSUME CallerAssumption ==
    Dials \intersect Warmers = {} /\ Callers \intersect Refreshers = {} /\ IsFiniteSet(Callers)

\* ech, relays: whether they are configured.  proxied: EnableDoHProxy, DoH goes
\* through the pool.  multiplex: EnableMultiplex.  dials: those at work.  target:
\* how many connections Warmup is to make.
ASSUME SettingAssumption ==
    Settings \subseteq [ech : BOOLEAN, relays : BOOLEAN, proxied : BOOLEAN, multiplex : BOOLEAN,
                        dials : SUBSET Dials, target : Nat]
ASSUME SizeAssumption ==
    MaxPoolSize \in Nat /\ MaxKey \in Nat \ {0}
    /\ Concurrency \in 1 .. Cardinality(Warmers)

VARIABLES
    setting,     \* the configuration
    dial,        \* dial[d]: progress, the node, and the ECH key (0: plain TLS)
    live,        \* open connections
    spinning,    \* GetConnectionWithStream goes round a full pool, with p.mu held
    load,        \* ActiveConnections of the nodes in allNodes
    optimal,     \* optimalRelays
    snapshot,    \* the copies that rescoreAll is testing
    rescoring,   \* rescoreAll is in batchTestLatency
    forcing,     \* ForceRescore is in batchTestLatency
    forceAsked,  \* go handleConnectionFailure() was executed
    cooling,     \* the cooldown of ForceRescore runs
    warmed,      \* warmed[a]: connections that Warmup made through a
    torn,        \* nodes that lost an update; their load is not followed (kept at 0)
    cache,       \* the ECH key in the cache, or 0
    key,         \* the worker's current key
    echFailureCount,
    echFallbackEnabled,
    window,      \* now against echDisabledUntil
    refresh,     \* refresh[r]: a call of EchManager.Refresh
    warmup       \* progress and locals of Warmup

relayVars == <<load, optimal, snapshot, rescoring, forcing, forceAsked, cooling, torn>>
echVars == <<cache, key, echFailureCount, echFallbackEnabled, window, refresh>>
poolVars == <<live, spinning>>
vars == <<setting, dial, poolVars, warmed, relayVars, echVars, warmup>>

Quiet == {"idle", "asked", "won", "lost"}
NoDial == [at |-> "idle", node |-> NoNode, key |-> 0]
-----------------------------------------------------------------------------
\* RelayManager.Init tests the nodes and keeps the fast ones; the ECH key is
\* prefetched, or the fetch fails.
Init ==
    /\ setting \in Settings
    /\ dial = [d \in Callers |-> NoDial]
    /\ live = 0 /\ spinning = FALSE
    /\ load \in IF setting.relays THEN {[a \in S |-> 0] : S \in SUBSET Nodes} ELSE {<<>>}
    /\ optimal \in SUBSET DOMAIN load
    /\ snapshot = <<>> /\ rescoring = FALSE
    /\ forcing = FALSE /\ forceAsked = FALSE /\ cooling = FALSE
    /\ warmed = [a \in Nodes |-> 0] /\ torn = {}
    /\ cache \in IF setting.ech THEN {0, 1} ELSE {0}
    /\ key = 1
    /\ echFailureCount = 0 /\ echFallbackEnabled = FALSE /\ window = "closed"
    /\ refresh = [r \in Refreshers |-> [at |-> "idle", key |-> 0]]
    /\ warmup = [at |-> "ready", created |-> 0, streak |-> 0, batch |-> {}, size |-> 0, failed |-> 0]
-----------------------------------------------------------------------------
(* UpdateNodeLoad and the scores *)

\* The dials that have counted themselves on a, and the connections that keep
\* their count.
Counted(a) ==
    Cardinality({d \in Callers : dial[d].node = a /\ dial[d].at \notin Quiet \union {"chosen"}})
    + warmed[a]

\* The update of a's load: lost when a is not in optimalRelays, and about to be
\* lost when rescoreAll has already copied the node.
UpdateNodeLoad(a, delta) ==
    /\ torn' = IF rescoring \/ a \notin optimal THEN torn \union {a} ELSE torn
    /\ load' = [b \in DOMAIN load |-> IF b \in torn' THEN 0
                                     ELSE IF b = a THEN load[b] + delta ELSE load[b]]

BugResetLoads == [a \in DOMAIN load |-> 0]

\* batchTestLatency copies each node with its load.
Copies == load

RescoreAll ==
    /\ ~rescoring /\ DOMAIN load # {}
    /\ rescoring' = TRUE
    /\ snapshot' = Copies
    /\ UNCHANGED <<setting, dial, poolVars, warmed, load, optimal, forcing, forceAsked, cooling,
                   torn, echVars, warmup>>

BugKeepList == load

\* rescoreAll stores its copies as the list of nodes.
Rescored == [a \in DOMAIN snapshot |-> IF a \in torn THEN 0 ELSE snapshot[a]]

\* Any of the nodes may have become fast or slow.
RescoreEnds ==
    /\ rescoring
    /\ rescoring' = FALSE
    /\ load' = Rescored
    /\ optimal' \in SUBSET DOMAIN snapshot
    /\ snapshot' = <<>>
    /\ UNCHANGED <<setting, dial, poolVars, warmed, forcing, forceAsked, cooling, torn, echVars, warmup>>

\* handleConnectionFailure calls ForceRescore, which does nothing while it cools
\* down.  Bound: one ForceRescore at a time.
ForceRescore ==
    /\ forceAsked /\ ~forcing
    /\ forceAsked' = FALSE
    /\ cooling' = TRUE
    /\ forcing' = ~cooling
    /\ UNCHANGED <<setting, dial, poolVars, warmed, load, optimal, snapshot, rescoring, torn,
                   echVars, warmup>>

\* The list is resolved anew: all nodes are new objects, without load.  Those
\* that nothing counts on are exact again, unless rescoreAll puts the old ones
\* back.
ForceEnds ==
    /\ forcing
    /\ forcing' = FALSE
    /\ \E S \in SUBSET Nodes :
          load' = [a \in S |-> 0] /\ optimal' \in SUBSET S
    /\ torn' = {a \in Nodes : Counted(a) > 0} \union (IF rescoring THEN torn ELSE {})
    /\ UNCHANGED <<setting, dial, poolVars, warmed, snapshot, rescoring, forceAsked, cooling,
                   echVars, warmup>>

CooldownEnds ==
    /\ cooling /\ cooling' = FALSE
    /\ UNCHANGED <<setting, dial, poolVars, warmed, load, optimal, snapshot, rescoring, forcing,
                   forceAsked, torn, echVars, warmup>>
-----------------------------------------------------------------------------
(* createConnection and createConnectionSync *)

Goto(d, step) == dial' = [dial EXCEPT ![d].at = step]

Ended(d) == [NoDial EXCEPT !.at = IF d \in Warmers THEN "lost" ELSE "idle"]

\* The dial is over: the deferred functions take its load back.
Leave(d) == dial' = [dial EXCEPT ![d] = IF dial[d].node = NoNode THEN Ended(d)
                                        ELSE [dial[d] EXCEPT !.at = "unload"]]

\* reserveConnectionSlot.
SlotFree == live + Cardinality({d \in Callers : dial[d].at \notin Quiet}) < MaxPoolSize

Asks(d) == IF d \in Warmers THEN dial[d].at = "asked"
           ELSE d \in setting.dials /\ dial[d].at = "idle"

\* GetNextRelayWithLoadBalance: by weight, and every weight is positive.  No
\* node: the worker is dialed directly.
Choose(d) ==
    /\ Asks(d)
    /\ ~spinning
    /\ SlotFree
    /\ \/ \E a \in optimal : dial' = [dial EXCEPT ![d] = [NoDial EXCEPT !.at = "chosen", !.node = a]]
       \/ optimal = {} /\ Goto(d, "tls")
    /\ UNCHANGED <<setting, poolVars, warmed, relayVars, echVars, warmup>>

Refused(d) ==
    /\ d \in Warmers /\ Asks(d)
    /\ ~spinning
    /\ ~SlotFree
    /\ Goto(d, "lost")
    /\ UNCHANGED <<setting, poolVars, warmed, relayVars, echVars, warmup>>

AddLoad(d) ==
    /\ dial[d].at = "chosen"
    /\ UpdateNodeLoad(dial[d].node, 1)
    /\ Goto(d, "tls")
    /\ UNCHANGED <<setting, poolVars, warmed, optimal, snapshot, rescoring, forcing, forceAsked,
                   cooling, echVars, warmup>>

\* getTLSConfig: plain TLS, the cached key, or a fetch.
GetTLSConfig(d) ==
    /\ dial[d].at = "tls"
    /\ LET useECH == setting.ech /\ window # "open"
       IN dial' = [dial EXCEPT ![d].at = IF useECH /\ cache = 0 THEN "asking" ELSE "dialing",
                               ![d].key = IF useECH THEN cache ELSE 0]
    /\ UNCHANGED <<setting, poolVars, warmed, relayVars, echVars, warmup>>

\* RoundTrip takes and returns its stream under p.mu.
PoolFree == setting.proxied => ~spinning

\* Over the pool a query first gets a stream, and is told CONNECTED.
Acquires(at) == setting.proxied /\ ~spinning /\ live > 0 /\ at = "asking"

FetchAcquires(d) ==
    /\ Acquires(dial[d].at)
    /\ Goto(d, "exchange")
    /\ UNCHANGED <<setting, poolVars, warmed, relayVars, echVars, warmup>>

\* The query is answered.
Answered(at) == PoolFree /\ at = IF setting.proxied THEN "exchange" ELSE "asking"

FetchAnswered(d) ==
    /\ Answered(dial[d].at)
    /\ dial' = [dial EXCEPT ![d].at = "answered", ![d].key = key]
    /\ UNCHANGED <<setting, poolVars, warmed, relayVars, echVars, warmup>>

FetchCached(d) ==
    /\ dial[d].at = "answered"
    /\ cache' = dial[d].key
    /\ Goto(d, "dialing")
    /\ UNCHANGED <<setting, poolVars, warmed, relayVars, key, echFailureCount, echFallbackEnabled,
                   window, refresh, warmup>>

BugNoDeadline(at) == PoolFree /\ at = IF setting.proxied THEN "exchange" ELSE "asking"

\* The query fails: a direct one within its timeout, one over the pool when it has
\* got no stream in ten seconds or no CONNECTED in five, or in the exchange that
\* follows, which has no timeout.
Fails(at) == PoolFree /\ at \in {"asking", "exchange"}

\* Plain TLS.
FetchFails(d) ==
    /\ Fails(dial[d].at)
    /\ Goto(d, "dialing")
    /\ UNCHANGED <<setting, poolVars, warmed, relayVars, echVars, warmup>>

\* The connection joins the pool; createConnectionSync keeps its load.
Joins(d) ==
    /\ ~spinning
    /\ live' = live + 1 /\ spinning' = spinning
    /\ IF d \in Warmers
       THEN /\ dial' = [dial EXCEPT ![d] = [NoDial EXCEPT !.at = "won"]]
            /\ warmed' = [a \in Nodes |-> IF a = dial[d].node THEN warmed[a] + 1 ELSE warmed[a]]
       ELSE Leave(d) /\ warmed' = warmed

\* The worker accepts plain TLS and its current key.
DialSucceeds(d) ==
    /\ dial[d].at = "dialing"
    /\ dial[d].key \in {0, key}
    /\ IF setting.ech /\ echFailureCount > 0
       THEN Goto(d, "resetting") /\ UNCHANGED <<poolVars, warmed>>
       ELSE Joins(d)
    /\ UNCHANGED <<setting, relayVars, echVars, warmup>>

ResetFailures(d) ==
    /\ dial[d].at = "resetting"
    /\ echFailureCount' = 0
    /\ Joins(d)
    /\ UNCHANGED <<setting, relayVars, cache, key, echFallbackEnabled, window,
                   refresh, warmup>>

\* handleDialError, an error that names ECH or the handshake: counted.  Below
\* three the key is refreshed by a goroutine.  Bound: the errors have one refresh
\* at a time; counts beyond three are the same.
EchError(d) ==
    /\ dial[d].at = "dialing"
    /\ setting.ech
    /\ refresh[Error].at = "idle"
    /\ echFailureCount' = IF echFailureCount < 3 THEN echFailureCount + 1 ELSE 3
    /\ IF echFailureCount + 1 >= 3
       THEN Goto(d, "third") /\ refresh' = refresh
       ELSE Leave(d) /\ refresh' = [refresh EXCEPT ![Error].at = "started"]
    /\ UNCHANGED <<setting, poolVars, warmed, relayVars, cache, key, echFallbackEnabled, window, warmup>>

\* The third failure in a row, under p.mu: the window opens, once.
EnableFallback(d) ==
    /\ dial[d].at = "third"
    /\ ~spinning
    /\ echFallbackEnabled' = TRUE
    /\ window' = IF echFallbackEnabled THEN window ELSE "open"
    /\ Leave(d)
    /\ UNCHANGED <<setting, poolVars, warmed, relayVars, cache, key, echFailureCount, refresh, warmup>>

\* The relay refuses, resets or times out.
RelayError(d) ==
    /\ dial[d].at = "dialing"
    /\ dial[d].node # NoNode
    /\ forceAsked' = TRUE
    /\ Leave(d)
    /\ UNCHANGED <<setting, poolVars, warmed, load, optimal, snapshot, rescoring, forcing, cooling,
                   torn, echVars, warmup>>

\* Any other error, and the outer timeout of createConnection.
OtherError(d) ==
    /\ dial[d].at = "dialing"
    /\ Leave(d)
    /\ UNCHANGED <<setting, poolVars, warmed, relayVars, echVars, warmup>>

Unload(d) ==
    /\ dial[d].at = "unload"
    /\ dial' = [dial EXCEPT ![d] = Ended(d)]
    /\ UpdateNodeLoad(dial[d].node, -1)
    /\ UNCHANGED <<setting, poolVars, warmed, optimal, snapshot, rescoring, forcing, forceAsked,
                   cooling, echVars, warmup>>

DialStep(d) ==
    \/ AddLoad(d) \/ GetTLSConfig(d)
    \/ FetchAcquires(d) \/ FetchAnswered(d) \/ FetchCached(d) \/ FetchFails(d)
    \/ DialSucceeds(d) \/ ResetFailures(d)
    \/ EchError(d) \/ EnableFallback(d) \/ RelayError(d) \/ OtherError(d) \/ Unload(d)
-----------------------------------------------------------------------------
(* The ECH cache *)

SetRefresh(r, step, k) == refresh' = [refresh EXCEPT ![r] = [at |-> step, key |-> k]]

\* Refresh deletes the entry before it asks.  The ticker of autoRefreshLoop
\* calls it as well.
RefreshDeletes(r) ==
    /\ IF r = Automatic THEN setting.ech /\ refresh[r].at = "idle" ELSE refresh[r].at = "started"
    /\ cache' = 0
    /\ SetRefresh(r, "asking", 0)
    /\ UNCHANGED <<setting, dial, poolVars, warmed, relayVars, key, echFailureCount,
                   echFallbackEnabled, window, warmup>>

RefreshAsks(r) ==
    /\ \/ Acquires(refresh[r].at) /\ SetRefresh(r, "exchange", 0)
       \/ Answered(refresh[r].at) /\ SetRefresh(r, "answered", key)
       \/ Fails(refresh[r].at) /\ SetRefresh(r, "idle", 0)
    /\ UNCHANGED <<setting, dial, poolVars, warmed, relayVars, cache, key, echFailureCount,
                   echFallbackEnabled, window, warmup>>

RefreshCaches(r) ==
    /\ refresh[r].at = "answered"
    /\ cache' = refresh[r].key
    /\ SetRefresh(r, "idle", 0)
    /\ UNCHANGED <<setting, dial, poolVars, warmed, relayVars, key, echFailureCount,
                   echFallbackEnabled, window, warmup>>

BugNoExpiry == FALSE

\* There is an entry, and its TTL will end.
Expiring == cache # 0

Expire ==
    /\ Expiring
    /\ cache' = 0
    /\ UNCHANGED <<setting, dial, poolVars, warmed, relayVars, key, echFailureCount,
                   echFallbackEnabled, window, refresh, warmup>>

\* Five minutes have passed since echDisabledUntil was set.
WindowEnds ==
    /\ window = "open" /\ window' = "over"
    /\ UNCHANGED <<setting, dial, poolVars, warmed, relayVars, cache, key, echFailureCount,
                   echFallbackEnabled, refresh, warmup>>

\* The worker changes its key.
RotateKey ==
    /\ setting.ech /\ key < MaxKey
    /\ key' = key + 1
    /\ UNCHANGED <<setting, dial, poolVars, warmed, relayVars, cache, echFailureCount,
                   echFallbackEnabled, window, refresh, warmup>>

-----------------------------------------------------------------------------
(* The pool *)

AgainIn(B, c, at) == IF c \in B THEN "asking" ELSE at

\* A connection is lost, with the exchanges B that it carries: their attempts have
\* failed, and Resolve makes another one, or fails.
ConnectionLost ==
    /\ live > 0 /\ live' = live - 1
    /\ \E B \in SUBSET ({d \in Callers : dial[d].at = "exchange"}
                       \union {r \in Refreshers : refresh[r].at = "exchange"}) :
          /\ live' > 0 \/ \A c \in (Callers \union Refreshers) \ B :
                IF c \in Callers THEN dial[c].at # "exchange" ELSE refresh[c].at # "exchange"
          /\ dial' = [d \in Callers |-> [dial[d] EXCEPT !.at = AgainIn(B, d, @)]]
          /\ refresh' = [r \in Refreshers |-> [refresh[r] EXCEPT !.at = AgainIn(B, r, @)]]
    /\ spinning' \in {FALSE, spinning /\ live' > 0}
    /\ UNCHANGED <<setting, warmed, relayVars, cache, key, echFailureCount, echFallbackEnabled,
                   window, warmup>>

\* ConnectionPool!Spin, by whoever asks for a stream.
PoolSpins ==
    /\ setting.multiplex /\ live > 0
    /\ ~spinning /\ spinning' = TRUE
    /\ UNCHANGED <<setting, dial, live, warmed, relayVars, echVars, warmup>>
-----------------------------------------------------------------------------
(* Warmup *)

StartBatch ==
    /\ warmup.at = "ready"
    /\ LET rest == setting.target - warmup.created
           size == IF rest < Concurrency THEN rest ELSE Concurrency
       IN IF rest = 0
          THEN /\ warmup' = [warmup EXCEPT !.at = "done"] /\ dial' = dial
          ELSE \E B \in SUBSET Warmers :
                  /\ Cardinality(B) = size
                  /\ warmup' = [warmup EXCEPT !.at = "waiting", !.batch = B, !.size = size,
                                              !.failed = 0]
                  /\ dial' = [d \in Callers |-> IF d \in B THEN [NoDial EXCEPT !.at = "asked"]
                                                           ELSE dial[d]]
    /\ UNCHANGED <<setting, poolVars, warmed, relayVars, echVars>>

Collect(d) ==
    /\ d \in warmup.batch
    /\ dial[d].at \in {"won", "lost"}
    /\ Goto(d, "idle")
    /\ warmup' = IF dial[d].at = "won"
                 THEN [warmup EXCEPT !.batch = @ \ {d}, !.created = @ + 1, !.streak = 0]
                 ELSE [warmup EXCEPT !.batch = @ \ {d}, !.failed = @ + 1]
    /\ UNCHANGED <<setting, poolVars, warmed, relayVars, echVars>>

BugNoStreak == 0

\* Consecutive batches that failed altogether.
Streak == IF warmup.failed >= warmup.size THEN warmup.streak + 1 ELSE 0

\* The warm-up timeout, success, or more than three failed batches end it.
EndBatch ==
    /\ warmup.at = "waiting" /\ warmup.batch = {}
    /\ \/ warmup' = [warmup EXCEPT !.at = "done"]
       \/ /\ warmup.created < setting.target /\ Streak <= 3
          /\ warmup' = [warmup EXCEPT !.at = "ready", !.streak = Streak]
    /\ UNCHANGED <<setting, dial, poolVars, warmed, relayVars, echVars>>
-----------------------------------------------------------------------------
Next ==
    \/ \E d \in Callers : Choose(d) \/ Refused(d) \/ DialStep(d) \/ Collect(d)
    \/ \E r \in Refreshers : RefreshDeletes(r) \/ RefreshAsks(r) \/ RefreshCaches(r)
    \/ RescoreAll \/ RescoreEnds \/ ForceRescore \/ ForceEnds \/ CooldownEnds
    \/ Expire \/ WindowEnds \/ RotateKey \/ ConnectionLost \/ PoolSpins
    \/ StartBatch \/ EndBatch

Spec == Init /\ [][Next]_vars

\* The warm-up timeout is not counted on.
Continue == StartBatch \/ (EndBatch /\ (warmup'.at = "ready" \/ warmup.created = setting.target \/ Streak > 3))

\* A goroutine goes on, and what has a timeout ends: a dial, a DoH query up to its
\* exchange, the life of a cache entry.  Nothing is assumed of an exchange over a
\* connection that lives, nor of a connection, a dial's success or a DoH answer.
Fairness ==
    /\ \A d \in Dials : WF_vars(dial[d].at # "exchange" /\ DialStep(d))
    /\ \A d \in Warmers :
          WF_vars(\/ Choose(d) \/ Refused(d) \/ Collect(d)
                  \/ dial[d].at # "exchange" /\ DialStep(d))
    /\ \A r \in Refreshers :
          WF_vars(\/ RefreshDeletes(r) \/ RefreshCaches(r)
                  \/ refresh[r].at # "exchange" /\ RefreshAsks(r))
    /\ WF_vars(Expire)
    /\ WF_vars(Continue)

FairSpec == Spec /\ Fairness
-----------------------------------------------------------------------------
(* Properties *)

QuerySteps == {"asking", "exchange", "answered"}
DialSteps == Quiet \union QuerySteps
             \union {"chosen", "tls", "dialing", "resetting", "third", "unload"}

\* Every variable has its type.  A load may be negative: an update can be lost
\* between its increment and its decrement.
TypeOK ==
    /\ setting \in Settings
    /\ dial \in [Callers -> [at : DialSteps, node : Nodes \union {NoNode}, key : 0 .. MaxKey]]
    /\ live \in Nat /\ spinning \in BOOLEAN
    /\ DOMAIN load \subseteq Nodes /\ \A a \in DOMAIN load : load[a] \in Int
    /\ optimal \subseteq DOMAIN load
    /\ DOMAIN snapshot \subseteq Nodes /\ \A a \in DOMAIN snapshot : snapshot[a] \in Int
    /\ {rescoring, forcing, forceAsked, cooling, echFallbackEnabled} \subseteq BOOLEAN
    /\ torn \subseteq Nodes
    /\ warmed \in [Nodes -> Nat]
    /\ cache \in 0 .. MaxKey /\ key \in 1 .. MaxKey
    /\ echFailureCount \in 0 .. 3
    /\ window \in {"closed", "open", "over"}
    /\ refresh \in [Refreshers -> [at : {"idle", "started"} \union QuerySteps, key : 0 .. MaxKey]]
    /\ warmup \in [at : {"ready", "waiting", "done"}, created : 0 .. setting.target, streak : 0 .. 3,
                   batch : SUBSET Warmers, size : 0 .. Concurrency, failed : 0 .. Concurrency]

\* A node's load is the dials in progress through it and the connections that
\* Warmup made through it: every exit of a dial takes back what it added, and
\* rescoreAll keeps the count, unless an update fell into a rescore or missed a
\* node that was not among the optimal ones.
LoadAccounting ==
    \A a \in DOMAIN load \ torn : load[a] = Counted(a)

\* A query in an exchange whose peer may stay silent for ever.
Silent(d) == setting.proxied /\ dial[d].at = "exchange"

\* A dial hangs in two places only: in a DoH exchange over a live connection, which
\* is asked for ECH outside the dial's own timeout and has none itself, and when the
\* pool spins.  In particular a dial that needs the ECH key ends, with DoH going
\* through the very pool that has no connection yet; and so does Warmup, without its
\* timeout and however its dials end.
DialsEnd ==
    /\ \A d \in Callers : []<>(dial[d].at \in Quiet \/ Silent(d) \/ spinning)
    /\ []<>(warmup.at = "done" \/ spinning \/ \E d \in warmup.batch : Silent(d))

\* A key that the worker no longer has leaves the cache for good, although late
\* answers to earlier queries may put it back over a newer one, and the refresh
\* that would overwrite it may hang: then it leaves when its TTL ends.
OldKeyForgotten == (setting.ech /\ key = MaxKey) ~> [](cache \in {0, key})
=============================================================================
