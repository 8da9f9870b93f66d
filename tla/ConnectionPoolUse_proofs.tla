---------------------- MODULE ConnectionPoolUse_proofs ----------------------
(***************************************************************************)
(* Who uses a connection of ConnectionPool: none is lost to the pool, none   *)
(* serves two tunnels without multiplexing, and Close forgets no WebSocket.  *)
(***************************************************************************)
EXTENDS ConnectionPool_proofs

Used(c) == \E t \in Tunnels : Uses(t, c)
Detaching(c) == \E a \in Actors : closer[a].conn = c /\ closer[a].phase = "detach"

\* Somebody is still to call OnClose of t.
Notified(t) == \E a \in Actors : closer[a].phase = "callbacks" /\ t \in closer[a].notify

\* A tunnel that retires its connection has closed it first, and its connection
\* does not count as active once it is detached.  A tunnel that has returned, and
\* may still be called back, has done so.
RetireInv ==
    \A t \in Tunnels :
        /\ closer[t].phase # "none" => closed[conn[t]]
        /\ closer[t].phase \in {"callbacks", "done"} => ~active[conn[t]]
        /\ pc[t] = "returned" => closer[t].phase = "done"

\* From the moment in which it is pooled, an open connection is in the pool or
\* with a tunnel.
PlaceInv ==
    ~stopped => \A c \in Conns :
        create[c] \in {"pooled", "done"} /\ Open(c) => c \in InPool \/ Used(c)

ActiveInv == \A c \in Conns : active[c] => Reading(c) /\ (Used(c) \/ Detaching(c))

\* Without multiplexing: a connection that is pooled, or has never been, is
\* unused, an open one has at most one tunnel, and the pool has it at most once.
AloneInv ==
    ~EnableMultiplex =>
        /\ IsInjective(pool)
        /\ \A t, u \in Tunnels, c \in Conns : Uses(t, c) /\ Uses(u, c) /\ Open(c) => t = u
        /\ \A c \in InPool : ~stopped => ~active[c] /\ streams[c] = {}
        /\ \A c \in InPool : Open(c) => ~Used(c)
        /\ \A c \in Conns : create[c] = "indexed" =>
               /\ c \notin InPool /\ ~active[c]
               /\ ~stopped => streams[c] = {}
               /\ \A t \in Tunnels : ~Asking(t) => conn[t] # c

\* Whoever is about to close the WebSocket of c, besides Close.
Closing(c) ==
    \/ c \in doomed
    \/ \E a \in Actors : closer[a].conn = c /\ closer[a].phase \in {"detach", "callbacks"}

\* A WebSocket whose item is closed is about to be closed; and Close has noted
\* all those whose item is not.
SocketInv ==
    \A c \in Conns :
        /\ socket[c] = "open" \/ closed[c] \/ todo[c] # "no" => Reading(c)
        /\ socket[c] = "open" => /\ Open(c) \/ Closing(c)
                                 /\ stopped /\ Open(c) => todo[c] # "no"

\* Until Close: handlers are those of streams, the message loop of c that has
\* taken its streams away finds no new one there, and a tunnel has a stream and
\* then a handler, unless its connection is closed or somebody will notify it.
HandlerInv ==
    ~stopped =>
        /\ \A c \in Conns :
              /\ handlers[c] \subseteq streams[c]
              /\ closer[c].phase = "detach" => closer[c].conn = c
              /\ closer[c].phase # "none" => closed[c]
              /\ closer[c].phase \in {"callbacks", "done"} => streams[c] = {}
        /\ \A t \in Tunnels :
              /\ pc[t] = "allocated" /\ Open(conn[t]) => t \in streams[conn[t]]
              /\ pc[t] = "registered" /\ Open(conn[t]) => t \in handlers[conn[t]]
              /\ pc[t] \in {"waiting", "up"} => t \in handlers[conn[t]] \/ Notified(t)

\* The inductive invariant, on top of IInv.
UseInv == RetireInv /\ PlaceInv /\ ActiveInv /\ AloneInv /\ SocketInv /\ HandlerInv

-----------------------------------------------------------------------------
(* Sequences: nothing is lost and nothing is doubled in p.pool *)

\* KeepAt keeps what is at the positions K, once each.
LEMMA KeepAtAll ==
    ASSUME NEW S, NEW s \in Seq(S), NEW K \in SUBSET (DOMAIN s)
    PROVE  /\ \A i \in K : s[i] \in Range(KeepAt(s, K))
           /\ \A x \in Range(KeepAt(s, K)) : \E i \in K : x = s[i]
           /\ IsInjective(s) => IsInjective(KeepAt(s, K))
  <1> DEFINE kept == KeepAt(s, K)
  <1>1. K \in SUBSET Nat /\ IsFiniteSet(K) /\ Cardinality(K) \in Nat
    <2>1. DOMAIN s \in SUBSET Nat /\ IsFiniteSet(DOMAIN s)
      BY FS_Interval
    <2> QED
      BY <2>1, FS_Subset, FS_CardinalityType
  <1>2. DOMAIN kept = 1 .. Cardinality(K)
    BY DEF KeepAt
  <1>3. \A n \in DOMAIN kept : /\ kept[n] = s[Nth(K, n)]
                               /\ Nth(K, n) \in K /\ Rank(K, Nth(K, n)) = n
    BY <1>1, <1>2, NthInSet DEF KeepAt
  <1>4. ASSUME NEW i \in K PROVE s[i] \in Range(kept)
    <2>1. Rank(K, i) \in DOMAIN kept
      BY <1>1, <1>2, RankFacts
    <2> DEFINE n == Rank(K, i)
    <2>2. Nth(K, n) \in K /\ Rank(K, Nth(K, n)) = Rank(K, i)
      BY <1>3, <2>1
    <2>3. Nth(K, n) \in Nat /\ i \in Nat
      BY <1>1, <2>2
    <2>4. Nth(K, n) = i
      BY <1>1, <2>2, <2>3, RankFacts
    <2> QED
      BY <1>3, <2>1, <2>4 DEF Range
  <1>5. ASSUME NEW x \in Range(kept) PROVE \E i \in K : x = s[i]
    BY <1>3 DEF Range
  <1>6. ASSUME IsInjective(s), NEW m \in DOMAIN kept, NEW n \in DOMAIN kept, kept[m] = kept[n]
        PROVE  m = n
    <2>1. Nth(K, m) = Nth(K, n)
      BY <1>3, <1>6 DEF IsInjective
    <2> QED
      BY <1>3, <2>1
  <1> QED
    BY <1>4, <1>5, <1>6 DEF IsInjective

\* A slice has what is at its positions.
LEMMA SliceAll ==
    ASSUME NEW S, NEW s \in Seq(S), NEW i \in Nat, NEW j \in Nat, 1 <= i, j <= Len(s)
    PROVE  /\ \A k \in i .. j : s[k] \in Range(SubSeq(s, i, j))
           /\ \A x \in Range(SubSeq(s, i, j)) : \E k \in i .. j : x = s[k]
           /\ IsInjective(s) => IsInjective(SubSeq(s, i, j))
  <1> DEFINE sub == SubSeq(s, i, j)
  <1>1. \A n \in DOMAIN sub : n \in Nat /\ sub[n] = s[i + n - 1] /\ i + n - 1 \in i .. j
                              /\ i + n - 1 \in DOMAIN s
    OBVIOUS
  <1>2. \A k \in i .. j : k - i + 1 \in DOMAIN sub /\ sub[k - i + 1] = s[k]
    OBVIOUS
  <1> HIDE DEF sub
  <1>3. ASSUME IsInjective(s), NEW m \in DOMAIN sub, NEW n \in DOMAIN sub, sub[m] = sub[n]
        PROVE  m = n
    <2>1. i + m - 1 = i + n - 1
      BY <1>1, <1>3 DEF IsInjective
    <2> QED
      BY <1>1, <2>1
  <1>4. \A k \in i .. j : s[k] \in Range(sub)
    BY <1>2 DEF Range
  <1>5. \A x \in Range(sub) : \E k \in i .. j : x = s[k]
    BY <1>1 DEF Range
  <1>6. IsInjective(s) => IsInjective(sub)
    BY <1>3 DEF IsInjective
  <1> QED
    BY <1>4, <1>5, <1>6 DEF sub

\* Joining loses nothing, and doubles only what both have.
LEMMA JoinAll ==
    ASSUME NEW S, NEW s \in Seq(S), NEW u \in Seq(S)
    PROVE  /\ Range(s) \subseteq Range(s \o u)
           /\ Range(u) \subseteq Range(s \o u)
           /\ IsInjective(s) /\ IsInjective(u) /\ Range(s) \intersect Range(u) = {} =>
                  IsInjective(s \o u)
  <1> DEFINE both == s \o u
  <1>1. /\ DOMAIN both = 1 .. Len(s) + Len(u) /\ Len(s) \in Nat /\ Len(u) \in Nat
        /\ DOMAIN s = 1 .. Len(s) /\ DOMAIN u = 1 .. Len(u)
        /\ \A k \in DOMAIN s : both[k] = s[k]
        /\ \A k \in DOMAIN u : both[Len(s) + k] = u[k]
    OBVIOUS
  <1>2. \A k \in DOMAIN both : \/ k \in DOMAIN s /\ both[k] = s[k]
                               \/ /\ k - Len(s) \in DOMAIN u
                                  /\ both[k] = u[k - Len(s)] /\ k \in Nat
    OBVIOUS
  <1> HIDE DEF both
  <1>3. Range(s) \subseteq Range(both)
    BY <1>1 DEF Range
  <1>4. Range(u) \subseteq Range(both)
    <2>1. \A k \in DOMAIN u : Len(s) + k \in DOMAIN both
      BY <1>1
    <2> QED
      BY <1>1, <2>1 DEF Range
  <1>5. ASSUME IsInjective(s), IsInjective(u), Range(s) \intersect Range(u) = {},
               NEW m \in DOMAIN both, NEW n \in DOMAIN both, both[m] = both[n]
        PROVE  m = n
    <2>1. CASE m \in DOMAIN s /\ both[m] = s[m] /\ n \in DOMAIN s /\ both[n] = s[n]
      BY <1>5, <2>1 DEF IsInjective
    <2>2. CASE /\ m - Len(s) \in DOMAIN u /\ both[m] = u[m - Len(s)] /\ m \in Nat
               /\ n - Len(s) \in DOMAIN u /\ both[n] = u[n - Len(s)] /\ n \in Nat
      <3>1. m - Len(s) = n - Len(s)
        BY <1>5, <2>2 DEF IsInjective
      <3> QED
        BY <1>1, <2>2, <3>1
    <2>3. CASE /\ m \in DOMAIN s /\ both[m] = s[m]
               /\ n - Len(s) \in DOMAIN u /\ both[n] = u[n - Len(s)]
      BY <1>5, <2>3 DEF Range
    <2>4. CASE /\ n \in DOMAIN s /\ both[n] = s[n]
               /\ m - Len(s) \in DOMAIN u /\ both[m] = u[m - Len(s)]
      BY <1>5, <2>4 DEF Range
    <2> QED
      BY <1>2, <2>1, <2>2, <2>3, <2>4
  <1> QED
    BY <1>3, <1>4, <1>5 DEF IsInjective, both

\* createConnection appends.
LEMMA AppendAll ==
    ASSUME NEW S, NEW s \in Seq(S), NEW e \in S
    PROVE  /\ Range(Append(s, e)) = Range(s) \union {e}
           /\ IsInjective(s) /\ e \notin Range(s) => IsInjective(Append(s, e))
  <1> DEFINE all == Append(s, e)
  <1>1. /\ DOMAIN all = 1 .. Len(s) + 1 /\ Len(s) \in Nat /\ DOMAIN s = 1 .. Len(s)
        /\ \A k \in DOMAIN s : all[k] = s[k] /\ k \in DOMAIN all
        /\ all[Len(s) + 1] = e /\ Len(s) + 1 \in DOMAIN all
    OBVIOUS
  <1>2. \A k \in DOMAIN all : k \in DOMAIN s \/ k = Len(s) + 1
    BY <1>1
  <1> HIDE DEF all
  <1> QED
    BY <1>1, <1>2 DEF Range, IsInjective, all

\* ReleaseConnection inserts.
LEMMA InsertAll ==
    ASSUME NEW S, NEW s \in Seq(S), NEW e \in S, NEW i \in 1 .. Len(s) + 1
    PROVE  /\ Range(s) \union {e} \subseteq Range(InsertAt(s, i, e))
           /\ IsInjective(s) /\ e \notin Range(s) => IsInjective(InsertAt(s, i, e))
  <1> DEFINE left == SubSeq(s, 1, i - 1)
             middle == <<e>>
             right == SubSeq(s, i, Len(s))
             both == left \o middle
  <1>1. i \in Nat /\ i - 1 \in Nat /\ Len(s) \in Nat /\ 1 <= i /\ 1 <= 1 /\ 1 \in Nat
        /\ i - 1 <= Len(s) /\ Len(s) <= Len(s) /\ DOMAIN s = 1 .. Len(s)
    OBVIOUS
  <1>2. /\ left \in Seq(S) /\ middle \in Seq(S) /\ right \in Seq(S)
        /\ Range(left) \subseteq Range(s) /\ Range(right) \subseteq Range(s)
    BY <1>1, SliceFacts
  <1>3. Range(middle) = {e} /\ IsInjective(middle)
    BY DEF Range, IsInjective
  <1>4. InsertAt(s, i, e) = both \o right
    BY DEF InsertAt
  <1>5. /\ \A k \in 1 .. i - 1 : s[k] \in Range(left)
        /\ \A x \in Range(left) : \E k \in 1 .. i - 1 : x = s[k]
        /\ IsInjective(s) => IsInjective(left)
    BY <1>1, SliceAll
  <1>6. /\ \A k \in i .. Len(s) : s[k] \in Range(right)
        /\ \A x \in Range(right) : \E k \in i .. Len(s) : x = s[k]
        /\ IsInjective(s) => IsInjective(right)
    BY <1>1, SliceAll
  <1> HIDE DEF left, middle, right
  <1>7. /\ both \in Seq(S) /\ Range(both) \subseteq Range(left) \union Range(middle)
        /\ Range(left) \subseteq Range(both) /\ Range(middle) \subseteq Range(both)
        /\ IsInjective(left) /\ IsInjective(middle) /\ Range(left) \intersect Range(middle) = {} =>
               IsInjective(both)
    BY <1>2, JoinFacts, JoinAll
  <1> HIDE DEF both
  <1>8. /\ Range(both) \subseteq Range(both \o right) /\ Range(right) \subseteq Range(both \o right)
        /\ IsInjective(both) /\ IsInjective(right) /\ Range(both) \intersect Range(right) = {} =>
               IsInjective(both \o right)
    BY <1>2, <1>7, JoinAll
  <1>9. Range(s) \subseteq Range(left) \union Range(right)
    <2>1. \A k \in DOMAIN s : k \in 1 .. i - 1 \/ k \in i .. Len(s)
      BY <1>1
    <2> QED
      BY <1>5, <1>6, <2>1 DEF Range
  <1>10. IsInjective(s) => Range(left) \intersect Range(right) = {}
    <2>1. \A k \in 1 .. i - 1, l \in i .. Len(s) : k # l /\ k \in DOMAIN s /\ l \in DOMAIN s
      BY <1>1
    <2>2. SUFFICES ASSUME IsInjective(s), NEW x \in Range(left), x \in Range(right) PROVE FALSE
      OBVIOUS
    <2>3. PICK k \in 1 .. i - 1 : x = s[k]
      BY <1>5
    <2>4. PICK l \in i .. Len(s) : x = s[l]
      BY <1>6, <2>2
    <2> QED
      BY <2>1, <2>2, <2>3, <2>4 DEF IsInjective
  <1>11. e \notin Range(s) => Range(left) \intersect {e} = {} /\ Range(right) \intersect {e} = {}
    BY <1>2
  <1> QED
    BY <1>3, <1>4, <1>5, <1>6, <1>7, <1>8, <1>9, <1>10, <1>11

\* handleConnectionClose removes one.
LEMMA RemoveAll ==
    ASSUME NEW S, NEW s \in Seq(S), NEW i \in DOMAIN s
    PROVE  /\ \A x \in Range(s) : x # s[i] => x \in Range(RemoveAt(s, i))
           /\ IsInjective(s) => IsInjective(RemoveAt(s, i))
  <1> DEFINE left == SubSeq(s, 1, i - 1)
             right == SubSeq(s, i + 1, Len(s))
  <1>1. i \in Nat /\ i - 1 \in Nat /\ i + 1 \in Nat /\ Len(s) \in Nat /\ 1 <= i /\ 1 <= i + 1
        /\ 1 <= 1 /\ 1 \in Nat /\ i - 1 <= Len(s) /\ Len(s) <= Len(s) /\ DOMAIN s = 1 .. Len(s)
    OBVIOUS
  <1>2. left \in Seq(S) /\ right \in Seq(S)
    BY <1>1, SliceFacts
  <1>3. RemoveAt(s, i) = left \o right
    BY DEF RemoveAt
  <1>4. /\ \A k \in 1 .. i - 1 : s[k] \in Range(left)
        /\ \A x \in Range(left) : \E k \in 1 .. i - 1 : x = s[k]
        /\ IsInjective(s) => IsInjective(left)
    BY <1>1, SliceAll
  <1>5. /\ \A k \in i + 1 .. Len(s) : s[k] \in Range(right)
        /\ \A x \in Range(right) : \E k \in i + 1 .. Len(s) : x = s[k]
        /\ IsInjective(s) => IsInjective(right)
    BY <1>1, SliceAll
  <1> HIDE DEF left, right
  <1>6. /\ Range(left) \subseteq Range(left \o right) /\ Range(right) \subseteq Range(left \o right)
        /\ IsInjective(left) /\ IsInjective(right) /\ Range(left) \intersect Range(right) = {} =>
               IsInjective(left \o right)
    BY <1>2, JoinAll
  <1>7. \A x \in Range(s) : x # s[i] => x \in Range(left) \union Range(right)
    <2>1. \A k \in DOMAIN s : k = i \/ k \in 1 .. i - 1 \/ k \in i + 1 .. Len(s)
      BY <1>1
    <2> QED
      BY <1>4, <1>5, <2>1 DEF Range
  <1>8. IsInjective(s) => Range(left) \intersect Range(right) = {}
    <2>1. \A k \in 1 .. i - 1, l \in i + 1 .. Len(s) : k # l /\ k \in DOMAIN s /\ l \in DOMAIN s
      BY <1>1
    <2>2. SUFFICES ASSUME IsInjective(s), NEW x \in Range(left), x \in Range(right) PROVE FALSE
      OBVIOUS
    <2>3. PICK k \in 1 .. i - 1 : x = s[k]
      BY <1>4
    <2>4. PICK l \in i + 1 .. Len(s) : x = s[l]
      BY <1>5, <2>2
    <2> QED
      BY <2>1, <2>2, <2>3, <2>4 DEF IsInjective
  <1> QED
    BY <1>3, <1>4, <1>5, <1>6, <1>7, <1>8
-----------------------------------------------------------------------------
(* What enters and leaves the idle pool *)

\* The pool that step 1 of GetConnectionWithStream leaves behind lacks the item
\* it stopped at, and dead ones.
LEMMA TakenAll ==
    ASSUME pool \in Seq(Conns), NEW k \in DOMAIN pool,
           pool' = KeepAt(pool, {j \in DOMAIN pool : j > k /\ Open(pool[j])})
                       \o SubSeq(pool, 1, k - 1)
    PROVE  /\ \A j \in DOMAIN pool : Open(pool[j]) /\ j # k => pool[j] \in Range(pool')
           /\ IsInjective(pool) => IsInjective(pool') /\ pool[k] \notin Range(pool')
  <1> DEFINE K == {j \in DOMAIN pool : j > k /\ Open(pool[j])}
             left == KeepAt(pool, K)
             right == SubSeq(pool, 1, k - 1)
  <1>1. /\ \A i \in K : pool[i] \in Range(left)
        /\ \A x \in Range(left) : \E i \in K : x = pool[i]
        /\ IsInjective(pool) => IsInjective(left)
        /\ left \in Seq(Conns)
    BY KeepAtAll, KeepAtFacts
  <1>2. 1 \in Nat /\ k - 1 \in Nat /\ 1 <= 1 /\ k - 1 <= Len(pool)
    OBVIOUS
  <1>3. /\ \A i \in 1 .. k - 1 : pool[i] \in Range(right)
        /\ \A x \in Range(right) : \E i \in 1 .. k - 1 : x = pool[i]
        /\ IsInjective(pool) => IsInjective(right)
        /\ right \in Seq(Conns)
    BY <1>2, SliceAll, SliceFacts
  <1>4. pool' = left \o right
    OBVIOUS
  <1>5. \A j \in DOMAIN pool : j \in Nat /\ k \in Nat
    OBVIOUS
  <1>6. \A i \in 1 .. k - 1 : i \in DOMAIN pool /\ i # k
    OBVIOUS
  <1>7. \A i \in K : i \in DOMAIN pool /\ i # k /\ i \notin 1 .. k - 1
    BY <1>5
  <1>8. \A j \in DOMAIN pool : Open(pool[j]) /\ j # k => j \in K \/ j \in 1 .. k - 1
    BY <1>5
  <1> HIDE DEF left, right, K
  <1>s. left \in Seq(Conns) /\ right \in Seq(Conns)
    BY <1>1, <1>3
  <1>j. /\ Range(left) \subseteq Range(left \o right) /\ Range(right) \subseteq Range(left \o right)
        /\ IsInjective(left) /\ IsInjective(right) /\ Range(left) \intersect Range(right) = {} =>
               IsInjective(left \o right)
    BY <1>s, JoinAll
  <1>r. Range(left \o right) \subseteq Range(left) \union Range(right)
    BY <1>s, JoinFacts
  <1>9. /\ Range(left) \subseteq Range(pool') /\ Range(right) \subseteq Range(pool')
        /\ Range(pool') \subseteq Range(left) \union Range(right)
        /\ IsInjective(left) /\ IsInjective(right) /\ Range(left) \intersect Range(right) = {} =>
               IsInjective(pool')
    BY <1>4, <1>j, <1>r
  <1>10. \A j \in DOMAIN pool : Open(pool[j]) /\ j # k => pool[j] \in Range(pool')
    BY <1>1, <1>3, <1>8, <1>9
  <1>11. ASSUME IsInjective(pool) PROVE Range(left) \intersect Range(right) = {}
    <2> SUFFICES ASSUME NEW x \in Range(left), x \in Range(right) PROVE FALSE
      OBVIOUS
    <2>1. PICK i \in K : x = pool[i]
      BY <1>1
    <2>2. PICK j \in 1 .. k - 1 : x = pool[j]
      BY <1>3
    <2> QED
      BY <1>6, <1>7, <1>11, <2>1, <2>2 DEF IsInjective
  <1>12. ASSUME IsInjective(pool) PROVE pool[k] \notin Range(left) \union Range(right)
    <2>1. \A i \in K : pool[i] # pool[k]
      BY <1>7, <1>12 DEF IsInjective
    <2>2. \A i \in 1 .. k - 1 : pool[i] # pool[k]
      BY <1>6, <1>12 DEF IsInjective
    <2> QED
      BY <1>1, <1>3, <2>1, <2>2
  <1> QED
    BY <1>1, <1>3, <1>9, <1>10, <1>11, <1>12

\* The actions that change the pool.
LEMMA PoolFrame ==
    ASSUME Next
    PROVE  \/ pool' = pool
           \/ \E c \in Conns : AddToPool(c)
           \/ \E t \in Tunnels : \/ TakeIdle(t) \/ ShareBusy(t) \/ Refuse(t) \/ Retry(t)
                                 \/ ReleaseConnection(t)
           \/ \E a \in Actors : Detach(a)
           \/ \E S \in SUBSET InPool : Cull(S)
           \/ Close
  <1> USE DEF poolVars
  <1>1. CASE CreateStep
    BY <1>1 DEF CreateStep, Reserve, DialFails, DialSucceeds, ReleaseSlot
  <1>2. CASE TunnelStep
    BY <1>2 DEF TunnelStep, GetConnectionWithStream, Spin, AcquireTimeout,
       RegisterStreamHandler, WriteConnect, Connected, BeginCleanup,
       UnregisterStreamHandler, RetireByTunnel
  <1>3. CASE CloseStep
    BY <1>3 DEF CloseStep, WriteFails, ReadFails, RetireByJanitor, FinishClose, OnClose,
       CullClose, CloseItem, Panic
  <1> QED
    BY <1>1, <1>2, <1>3 DEF Next

\* A connection leaves the pool for a tunnel, or because it is closed.
LEMMA PoolLeaves ==
    ASSUME IInv, Next, NEW c \in InPool, c \notin InPool'
    PROVE  \/ closed'[c] \/ stopped'
           \/ \E t \in Tunnels : TakeIdle(t) /\ conn'[t] = c /\ pc'[t] = "allocated"
  <1> USE DEF InPool
  <1>t. pool \in Seq(Conns) /\ closed \in [Conns -> BOOLEAN] /\ conn \in [Tunnels -> Conns \union {NoConn}]
        /\ DOMAIN pc = Tunnels /\ c \in Conns
    BY DEF IInv, TypeOK, Range
  <1>p. PICK j \in DOMAIN pool : c = pool[j]
    BY DEF Range
  <1>1. ASSUME NEW d \in Conns, AddToPool(d) PROVE FALSE
    BY <1>1, <1>t, AppendAll DEF AddToPool
  <1>2. ASSUME NEW t \in Tunnels, TakeIdle(t)
        PROVE  \/ closed'[c]
               \/ TakeIdle(t) /\ conn'[t] = c /\ pc'[t] = "allocated"
    <2>1. PICK k \in DOMAIN pool :
              /\ pool' = KeepAt(pool, {i \in DOMAIN pool : i > k /\ Open(pool[i])})
                             \o SubSeq(pool, 1, k - 1)
              /\ Allocate(t, pool[k])
      BY <1>2 DEF TakeIdle
    <2>2. closed' = closed /\ conn'[t] = pool[k] /\ pc'[t] = "allocated"
      BY <1>t, <2>1 DEF Allocate
    <2>3. CASE j = k
      BY <1>2, <1>p, <2>2, <2>3
    <2>4. CASE j # k
      BY <1>t, <1>p, <2>1, <2>2, <2>4, TakenAll DEF Open
    <2> QED
      BY <2>3, <2>4
  <1>3. ASSUME NEW t \in Tunnels, ShareBusy(t) \/ Refuse(t) \/ Retry(t)
        PROVE  closed'[c]
    <2>1. closed[c]
      BY <1>3, <1>p DEF ShareBusy, Refuse, Retry, Drained, Open
    <2> QED
      BY <1>3, <2>1 DEF ShareBusy, Refuse, Retry, Allocate, connVars
  <1>4. ASSUME NEW t \in Tunnels, ReleaseConnection(t) PROVE FALSE
    <2>1. \/ pool' = pool
          \/ \E i \in 1 .. Len(pool) + 1 : conn[t] \in Conns /\ pool' = InsertAt(pool, i, conn[t])
      BY <1>4 DEF ReleaseConnection, Asking, IInv, MadeInv
    <2> QED
      BY <1>t, <2>1, InsertAll
  <1>5. ASSUME NEW a \in Actors, Detach(a) PROVE closed'[c]
    <2>1. closed' = closed /\ closed[closer[a].conn]
      BY <1>5 DEF Detach, IInv, IndexInv
    <2>2. \/ pool' = pool
          \/ \E i \in DOMAIN pool : pool[i] = closer[a].conn /\ pool' = RemoveAt(pool, i)
      BY <1>5 DEF Detach
    <2> QED
      BY <1>t, <2>1, <2>2, RemoveAll
  <1>6. ASSUME NEW S \in SUBSET InPool, Cull(S) PROVE closed'[c]
    <2>1. pool' = KeepAt(pool, {i \in DOMAIN pool : pool[i] \notin S})
      BY <1>6 DEF Cull
    <2>2. j \notin {i \in DOMAIN pool : pool[i] \notin S}
      BY <1>t, <1>p, <2>1, KeepAtAll
    <2>3. c \in S
      BY <1>p, <2>2
    <2> QED
      BY <1>6, <1>t, <2>3 DEF Cull
  <1>7. ASSUME Close PROVE stopped'
    BY <1>7 DEF Close
  <1> QED
    BY <1>1, <1>2, <1>3, <1>4, <1>5, <1>6, <1>7, PoolFrame

\* A connection enters the pool when it is made, or when its last tunnel leaves.
LEMMA PoolEnters ==
    ASSUME IInv, Next, NEW c \in InPool', c \notin InPool
    PROVE  /\ c \in Conns
           /\ \/ AddToPool(c)
              \/ \E t \in Tunnels : ReleaseConnection(t) /\ conn[t] = c /\ Unused(c) /\ Open(c)
  <1> USE DEF InPool
  <1>t. pool \in Seq(Conns)
    BY DEF IInv, TypeOK
  <1>1. ASSUME NEW d \in Conns, AddToPool(d) PROVE c = d
    BY <1>1, <1>t, AppendAll DEF AddToPool
  <1>2. ASSUME NEW t \in Tunnels, TakeIdle(t) PROVE FALSE
    BY <1>2, <1>t, TakenPool DEF TakeIdle
  <1>3. ASSUME NEW t \in Tunnels, ShareBusy(t) \/ Refuse(t) \/ Retry(t) PROVE FALSE
    BY <1>3 DEF ShareBusy, Refuse, Retry, Range
  <1>4. ASSUME NEW t \in Tunnels, ReleaseConnection(t)
        PROVE  c \in Conns /\ conn[t] = c /\ Unused(c) /\ Open(c)
    <2>1. /\ conn[t] \in Conns /\ Unused(conn[t]) /\ Returnable(conn[t])
          /\ \E i \in 1 .. Len(pool) + 1 : pool' = InsertAt(pool, i, conn[t])
      BY <1>4 DEF ReleaseConnection, Asking, IInv, MadeInv
    <2> QED
      BY <1>t, <2>1, InsertFacts DEF Returnable
  <1>5. ASSUME NEW a \in Actors, Detach(a) PROVE FALSE
    BY <1>5, <1>t, RemoveFacts DEF Detach
  <1>6. ASSUME NEW S \in SUBSET InPool, Cull(S) PROVE FALSE
    <2>1. pool' = KeepAt(pool, {i \in DOMAIN pool : pool[i] \notin S})
      BY <1>6 DEF Cull
    <2> QED
      BY <1>t, <2>1, KeepAtFacts
  <1>7. ASSUME Close PROVE FALSE
    BY <1>7 DEF Close, Range
  <1> QED
    BY <1>1, <1>2, <1>3, <1>4, <1>5, <1>6, <1>7, PoolFrame

\* Nothing is pooled twice.
LEMMA PoolInjective ==
    ASSUME IInv, Next, IsInjective(pool),
           \A c \in Conns : create[c] = "indexed" => c \notin InPool
    PROVE  IsInjective(pool')
  <1>t. pool \in Seq(Conns)
    BY DEF IInv, TypeOK
  <1>1. ASSUME NEW d \in Conns, AddToPool(d) PROVE IsInjective(pool')
    BY <1>1, <1>t, AppendAll DEF AddToPool, InPool
  <1>2. ASSUME NEW t \in Tunnels, TakeIdle(t) PROVE IsInjective(pool')
    BY <1>2, <1>t, TakenAll DEF TakeIdle
  <1>3. ASSUME NEW t \in Tunnels, ShareBusy(t) \/ Refuse(t) \/ Retry(t)
        PROVE  IsInjective(pool')
    BY <1>3 DEF ShareBusy, Refuse, Retry, IsInjective
  <1>4. ASSUME NEW t \in Tunnels, ReleaseConnection(t) PROVE IsInjective(pool')
    <2>1. \/ pool' = pool
          \/ /\ conn[t] \in Conns /\ Returnable(conn[t])
             /\ \E i \in 1 .. Len(pool) + 1 : pool' = InsertAt(pool, i, conn[t])
      BY <1>4 DEF ReleaseConnection, Asking, IInv, MadeInv
    <2> QED
      BY <1>t, <2>1, InsertAll DEF Returnable, InPool
  <1>5. ASSUME NEW a \in Actors, Detach(a) PROVE IsInjective(pool')
    BY <1>5, <1>t, RemoveAll DEF Detach
  <1>6. ASSUME NEW S \in SUBSET InPool, Cull(S) PROVE IsInjective(pool')
    <2>1. pool' = KeepAt(pool, {i \in DOMAIN pool : pool[i] \notin S})
      BY <1>6 DEF Cull
    <2> QED
      BY <1>t, <2>1, KeepAtAll
  <1>7. ASSUME Close PROVE IsInjective(pool')
    BY <1>7 DEF Close, IsInjective
  <1> QED
    BY <1>1, <1>2, <1>3, <1>4, <1>5, <1>6, <1>7, PoolFrame

\* What step 1 gives to a tunnel was in the pool, once, and is open.
LEMMA TakenGone ==
    ASSUME IInv, NEW t \in Tunnels, TakeIdle(t)
    PROVE  /\ conn'[t] \in InPool /\ Open(conn'[t])
           /\ IsInjective(pool) => conn'[t] \notin InPool'
  <1>t. pool \in Seq(Conns) /\ conn \in [Tunnels -> Conns \union {NoConn}]
    BY DEF IInv, TypeOK
  <1>1. PICK k \in DOMAIN pool :
            /\ PickAt(k)
            /\ pool' = KeepAt(pool, {i \in DOMAIN pool : i > k /\ Open(pool[i])})
                           \o SubSeq(pool, 1, k - 1)
            /\ Allocate(t, pool[k])
    BY DEF TakeIdle
  <1>2. conn'[t] = pool[k] /\ pool[k] \in InPool
    BY <1>t, <1>1 DEF Allocate, InPool, Range
  <1>3. IsInjective(pool) => pool[k] \notin Range(pool')
    BY <1>t, <1>1, TakenAll
  <1> QED
    BY <1>1, <1>2, <1>3 DEF PickAt, InPool
-----------------------------------------------------------------------------
(* Who changes what *)

\* The progress of a tunnel.
LEMMA PcFrame ==
    ASSUME TypeOK, Next, NEW t \in Tunnels, pc'[t] # pc[t]
    PROVE  \/ TakeIdle(t) \/ Spin(t) \/ ShareBusy(t) \/ Refuse(t) \/ Retry(t)
           \/ AcquireTimeout(t) \/ RegisterStreamHandler(t) \/ WriteConnect(t)
           \/ Connected(t) \/ BeginCleanup(t) \/ UnregisterStreamHandler(t)
           \/ ReleaseConnection(t) \/ FinishClose(t)
           \/ \E a \in Actors : OnClose(a, t)
  <1> USE DEF TypeOK
  <1>1. CASE CreateStep
    BY <1>1 DEF CreateStep, Reserve, DialFails, DialSucceeds, AddToPool, ReleaseSlot,
       tunnelVars
  <1>2. CASE TunnelStep
    <2>1. PICK u \in Tunnels :
              \/ GetConnectionWithStream(u) \/ AcquireTimeout(u) \/ RegisterStreamHandler(u)
              \/ WriteConnect(u) \/ Connected(u) \/ BeginCleanup(u)
              \/ UnregisterStreamHandler(u) \/ ReleaseConnection(u) \/ RetireByTunnel(u)
      BY <1>2 DEF TunnelStep
    <2>2. CASE u = t
      BY <2>1, <2>2 DEF GetConnectionWithStream, RetireByTunnel, tunnelVars
    <2>3. CASE u # t /\ (GetConnectionWithStream(u) \/ AcquireTimeout(u))
      BY <2>3 DEF GetConnectionWithStream, TakeIdle, Allocate, Spin, ShareBusy, Refuse,
         Retry, AcquireTimeout
    <2>4. CASE /\ u # t
               /\ \/ RegisterStreamHandler(u) \/ WriteConnect(u) \/ Connected(u)
                  \/ BeginCleanup(u) \/ UnregisterStreamHandler(u) \/ ReleaseConnection(u)
                  \/ RetireByTunnel(u)
      BY <2>4 DEF RegisterStreamHandler, WriteConnect, Connected, BeginCleanup,
         UnregisterStreamHandler, ReleaseConnection, RetireByTunnel, tunnelVars
    <2> QED
      BY <2>1, <2>2, <2>3, <2>4
  <1>3. CASE CloseStep
    <2>1. ASSUME NEW a \in Actors, FinishClose(a), ~FinishClose(t) PROVE FALSE
      <3>1. a # t
        BY <2>1
      <3> QED
        BY <2>1, <3>1 DEF FinishClose
    <2>2. ASSUME NEW a \in Actors, NEW u \in Tunnels, OnClose(a, u) PROVE u = t
      BY <2>2 DEF OnClose
    <2> QED
      BY <1>3, <2>1, <2>2 DEF CloseStep, WriteFails, ReadFails, RetireByJanitor, Detach,
         Cull, CullClose, CloseItem, Close, Panic, tunnelVars
  <1> QED
    BY <1>1, <1>2, <1>3 DEF Next

\* From where to where each of these takes the tunnel.
LEMMA PcMoves ==
    ASSUME TypeOK, Next, NEW t \in Tunnels, pc'[t] # pc[t]
    PROVE  \/ /\ TakeIdle(t) \/ ShareBusy(t)
              /\ pc[t] \in {"seeking", "spinning"} /\ pc'[t] = "allocated"
           \/ /\ pc[t] \in {"seeking", "spinning"}
              /\ pc'[t] \in {"seeking", "spinning", "refused"}
           \/ RegisterStreamHandler(t) /\ pc[t] = "allocated" /\ pc'[t] = "registered"
           \/ WriteConnect(t) /\ pc[t] = "registered" /\ pc'[t] = "waiting"
           \/ pc[t] = "waiting" /\ pc'[t] = "up"
           \/ pc[t] \in {"waiting", "up"} /\ pc'[t] = "unregister"
           \/ UnregisterStreamHandler(t) /\ pc[t] = "unregister" /\ pc'[t] = "release"
           \/ ReleaseConnection(t) /\ pc[t] = "release" /\ pc'[t] = "done"
           \/ /\ FinishClose(t) /\ closer[t].phase = "callbacks"
              /\ ~CleanupStarted(t) /\ pc'[t] \in {"returned", "unregister"}
           \/ /\ \E a \in Actors : OnClose(a, t)
              /\ ~CleanupStarted(t) /\ pc'[t] = "unregister"
  <1> USE DEF TypeOK
  <1>1. ASSUME TakeIdle(t) \/ ShareBusy(t)
        PROVE  pc[t] \in {"seeking", "spinning"} /\ pc'[t] = "allocated"
    BY <1>1 DEF TakeIdle, ShareBusy, Seeks, Allocate
  <1>2. ASSUME Spin(t) \/ Refuse(t) \/ Retry(t) \/ AcquireTimeout(t)
        PROVE  /\ pc[t] \in {"seeking", "spinning"}
               /\ pc'[t] \in {"seeking", "spinning", "refused"}
    BY <1>2 DEF Spin, Refuse, Retry, AcquireTimeout, Seeks
  <1>3. RegisterStreamHandler(t) => pc[t] = "allocated" /\ pc'[t] = "registered"
    BY DEF RegisterStreamHandler
  <1>4. WriteConnect(t) => pc[t] = "registered" /\ pc'[t] = "waiting"
    BY DEF WriteConnect
  <1>5. Connected(t) => pc[t] = "waiting" /\ pc'[t] = "up"
    BY DEF Connected
  <1>6. BeginCleanup(t) => pc[t] \in {"waiting", "up"} /\ pc'[t] = "unregister"
    BY DEF BeginCleanup
  <1>7. UnregisterStreamHandler(t) => pc[t] = "unregister" /\ pc'[t] = "release"
    BY DEF UnregisterStreamHandler
  <1>8. ReleaseConnection(t) => pc[t] = "release" /\ pc'[t] = "done"
    BY DEF ReleaseConnection
  <1>9. FinishClose(t) => /\ closer[t].phase = "callbacks" /\ ~CleanupStarted(t)
                          /\ pc'[t] \in {"returned", "unregister"}
    BY DEF FinishClose, AfterRetire
  <1>10. ASSUME NEW a \in Actors, OnClose(a, t)
         PROVE  ~CleanupStarted(t) /\ pc'[t] = "unregister"
    BY <1>10 DEF OnClose
  <1> QED
    BY PcFrame, <1>1, <1>2, <1>3, <1>4, <1>5, <1>6, <1>7, <1>8, <1>9, <1>10

\* The progress of handleConnectionClose.
LEMMA CloserFrame ==
    ASSUME TypeOK, Next, NEW a \in Actors, closer'[a] # closer[a]
    PROVE  \/ a \in Conns /\ ReadFails(a)
           \/ a \in Tunnels /\ RetireByTunnel(a)
           \/ a = Janitor /\ \E c \in Conns : RetireByJanitor(c)
           \/ Detach(a) \/ FinishClose(a) \/ \E t \in Tunnels : OnClose(a, t)
           \/ a = Closer /\ \E c \in Conns : CloseItem(c)
  <1> USE DEF TypeOK
  <1>1. CASE CreateStep
    BY <1>1 DEF CreateStep, Reserve, DialFails, DialSucceeds, AddToPool, ReleaseSlot,
       closeVars
  <1>2. CASE TunnelStep
    <2>1. ASSUME NEW t \in Tunnels, RetireByTunnel(t) PROVE a = t
      BY <2>1 DEF RetireByTunnel, Start
    <2>2. ASSUME NEW t \in Tunnels, GetConnectionWithStream(t) \/ AcquireTimeout(t)
          PROVE  closer' = closer
      BY <2>2 DEF GetConnectionWithStream, TakeIdle, Allocate, Spin, ShareBusy, Refuse, Retry,
         AcquireTimeout, closeVars
    <2>3. ASSUME NEW t \in Tunnels,
                 \/ RegisterStreamHandler(t) \/ WriteConnect(t) \/ Connected(t)
                 \/ BeginCleanup(t) \/ UnregisterStreamHandler(t) \/ ReleaseConnection(t)
          PROVE  closer' = closer
      BY <2>3 DEF RegisterStreamHandler, WriteConnect, Connected, BeginCleanup,
         UnregisterStreamHandler, ReleaseConnection, closeVars
    <2> QED
      BY <1>2, <2>1, <2>2, <2>3 DEF TunnelStep
  <1>3. CASE CloseStep
    <2>1. ASSUME NEW c \in Conns, ReadFails(c) PROVE a = c
      BY <2>1 DEF ReadFails, Start
    <2>2. ASSUME NEW c \in Conns, RetireByJanitor(c) PROVE a = Janitor
      BY <2>2 DEF RetireByJanitor, Start
    <2>3. ASSUME NEW c \in Conns, CloseItem(c) PROVE a = Closer
      BY <2>3 DEF CloseItem
    <2>4. ASSUME NEW b \in Actors, Detach(b) \/ FinishClose(b) PROVE a = b
      BY <2>4 DEF Detach, FinishClose
    <2>5. ASSUME NEW b \in Actors, NEW t \in Tunnels, OnClose(b, t) PROVE a = b
      BY <2>5 DEF OnClose
    <2> QED
      BY <1>3, <2>1, <2>2, <2>3, <2>4, <2>5 DEF CloseStep, WriteFails, Cull, CullClose,
         Close, Panic, closeVars
  <1> QED
    BY <1>1, <1>2, <1>3 DEF Next

\* A tunnel is given a connection in steps 1 to 3 of GetConnectionWithStream.
LEMMA Served ==
    ASSUME IInv, Next, NEW t \in Tunnels, Asking(t), ~Asking(t)'
    PROVE  (TakeIdle(t) \/ ShareBusy(t)) /\ pc'[t] = "allocated"
  <1>1. pc'[t] # pc[t] /\ pc'[t] \notin {"seeking", "spinning", "refused"}
    BY DEF Asking
  <1>2. ~FinishClose(t) /\ ~\E a \in Actors : OnClose(a, t)
    BY DEF FinishClose, OnClose, Asking, IInv, MadeInv, TypeOK
  <1> QED
    BY <1>1, <1>2, PcMoves DEF Asking, IInv

\* A connection gets a tunnel that asked for one, or one that had left it after a
\* failed CONNECT and is called back.
LEMMA UserArrives ==
    ASSUME IInv, Next, NEW t \in Tunnels, NEW c \in Conns, Uses(t, c)', ~Uses(t, c)
    PROVE  \/ Asking(t) /\ (TakeIdle(t) \/ ShareBusy(t)) /\ conn'[t] = c
           \/ pc[t] = "returned" /\ conn[t] = c
  <1> USE DEF Uses, Asking
  <1>1. CASE Asking(t)
    BY <1>1, Served
  <1>2. CASE ~Asking(t)
    <2>1. conn[t] = c /\ pc'[t] # pc[t] /\ pc[t] \in {"returned", "done"}
      BY <1>2, ServedStays DEF IInv, TypeOK
    <2>2. pc[t] # "done"
      BY <2>1, PcMoves DEF IInv, CleanupStarted
    <2> QED
      BY <2>1, <2>2
  <1> QED
    BY <1>1, <1>2

\* A tunnel leaves its connection by ReleaseConnection, or when it has retired it.
LEMMA UserLeaves ==
    ASSUME IInv, Next, NEW t \in Tunnels, NEW c \in Conns, Uses(t, c), ~Uses(t, c)'
    PROVE  \/ ReleaseConnection(t)
           \/ FinishClose(t) /\ closer[t].phase = "callbacks"
  <1> USE DEF Uses, Asking, IInv, TypeOK
  <1>1. /\ conn'[t] = c /\ pc'[t] # pc[t]
        /\ pc'[t] \notin {"allocated", "registered", "waiting", "up", "unregister", "release"}
    BY ServedStays
  <1> QED
    BY <1>1, PcMoves

\* Only step 1 of GetConnectionWithStream marks a connection active.
LEMMA ActiveNew ==
    ASSUME IInv, Next, NEW c \in Conns, active'[c], ~active[c]
    PROVE  \E t \in Tunnels : TakeIdle(t) /\ conn'[t] = c /\ pc'[t] = "allocated"
  <1> USE DEF IInv, TypeOK
  <1>1. ASSUME NEW t \in Tunnels, TakeIdle(t) PROVE conn'[t] = c /\ pc'[t] = "allocated"
    <2>1. PICK k \in DOMAIN pool : MarkActive(pool[k]) /\ Allocate(t, pool[k])
      BY <1>1 DEF TakeIdle
    <2>2. pool[k] = c
      BY <2>1 DEF MarkActive
    <2> QED
      BY <2>1, <2>2 DEF Allocate
  <1>2. CASE \E t \in Tunnels : ReleaseConnection(t)
    BY <1>2 DEF ReleaseConnection, MarkIdle
  <1>3. CASE \E a \in Actors : Detach(a)
    BY <1>3 DEF Detach, MarkIdle
  <1> QED
    BY <1>1, <1>2, <1>3, ActiveFrame

\* Whoever closes a ConnItem also sees to its WebSocket.
LEMMA ClosedNew ==
    ASSUME IInv, Next, NEW c \in Conns, Open(c), closed'[c]
    PROVE  \/ WriteFails(c) \/ ReadFails(c) \/ RetireByJanitor(c) \/ CloseItem(c)
           \/ \E t \in Tunnels : RetireByTunnel(t) /\ conn[t] = c
           \/ \E S \in SUBSET InPool : Cull(S) /\ c \in S
  <1> USE DEF IInv, TypeOK, Open
  <1>1. CASE CreateStep
    BY <1>1 DEF CreateStep, Reserve, DialFails, DialSucceeds, AddToPool, ReleaseSlot
  <1>2. CASE TunnelStep
    <2>1. ASSUME NEW t \in Tunnels, RetireByTunnel(t) PROVE conn[t] = c
      BY <2>1 DEF RetireByTunnel
    <2> QED
      BY <1>2, <2>1 DEF TunnelStep, GetConnectionWithStream, TakeIdle, Allocate, Spin,
         ShareBusy, Refuse, Retry, AcquireTimeout, RegisterStreamHandler, WriteConnect,
         Connected, BeginCleanup, UnregisterStreamHandler, ReleaseConnection, connVars
  <1>3. CASE CloseStep
    <2>1. CASE \E d \in Conns : WriteFails(d) \/ ReadFails(d) \/ RetireByJanitor(d)
                               \/ CloseItem(d)
      BY <2>1 DEF WriteFails, ReadFails, RetireByJanitor, CloseItem
    <2>2. CASE \E S \in SUBSET InPool : Cull(S)
      BY <2>2 DEF Cull
    <2> QED
      BY <1>3, <2>1, <2>2 DEF CloseStep, Detach, FinishClose, OnClose, CullClose, Close,
         Panic, connVars
  <1> QED
    BY <1>1, <1>2, <1>3 DEF Next
-----------------------------------------------------------------------------
(* Init *)

\* The invariant holds initially.
LEMMA InitUse == Init => UseInv
  <1> SUFFICES ASSUME Init PROVE UseInv
    OBVIOUS
  <1> USE DEF Init
  <1>1. RetireInv
    BY DEF RetireInv, Idle, Actors
  <1>2. PlaceInv /\ ActiveInv /\ SocketInv
    BY DEF PlaceInv, ActiveInv, SocketInv, Reading
  <1>3. AloneInv
    BY DEF AloneInv, IsInjective, Uses, InPool, Range
  <1>4. HandlerInv
    BY DEF HandlerInv, Idle, Actors
  <1> QED
    BY <1>1, <1>2, <1>3, <1>4 DEF UseInv

-----------------------------------------------------------------------------
(* RetireInv *)

\* Once detached, a connection that a tunnel has retired is not active.
LEMMA RetiredIdle ==
    ASSUME IInv, RetireInv, Next, NEW t \in Tunnels,
           closer'[t].phase \in {"callbacks", "done"}
    PROVE  ~active'[conn'[t]]
  <1> USE DEF IInv, TypeOK
  <1>1. t \in Actors /\ t \notin Conns /\ t # Janitor /\ t # Closer
    BY SetsAssumption DEF Actors
  <1>2. CASE closer[t].phase = "none"
    <2>1. RetireByTunnel(t)
      BY <1>1, <1>2, CloserFrame DEF Detach, FinishClose, OnClose
    <2>2. closer'[t].phase = "detach"
      BY <1>1, <2>1 DEF RetireByTunnel, Start, Idle
    <2> QED
      BY <2>2
  <1>3. CASE closer[t].phase # "none"
    <2>1. ~Asking(t) /\ conn'[t] = conn[t] /\ conn[t] \in Conns /\ closed[conn[t]]
      BY <1>3, ServedStays DEF MadeInv, RetireInv
    <2>2. CASE closer[t].phase = "detach"
      <3>1. Detach(t)
        BY <1>1, <2>2, CloserFrame DEF RetireByTunnel, FinishClose, OnClose
      <3>2. closer[t].conn = conn[t]
        BY <2>2 DEF StreamInv
      <3> QED
        BY <2>1, <3>1, <3>2 DEF Detach, MarkIdle
    <2>3. CASE closer[t].phase \in {"callbacks", "done"}
      <3>1. ~active[conn[t]]
        BY <2>3 DEF RetireInv
      <3>2. active'[conn[t]] => \E u \in Tunnels : TakeIdle(u) /\ conn'[u] = conn[t]
        BY <2>1, <3>1, ActiveNew
      <3> QED
        BY <2>1, <3>2, TakenGone DEF Open
    <2>4. closer[t].phase \in {"detach", "callbacks", "done"}
      BY <1>1, <1>3 DEF CloserRecord
    <2> QED
      BY <2>2, <2>3, <2>4
  <1> QED
    BY <1>2, <1>3

\* RetireInv is preserved.
LEMMA RetireStep ==
    ASSUME IInv, RetireInv, Next
    PROVE  RetireInv'
  <1> USE DEF IInv, TypeOK
  <1> SUFFICES ASSUME NEW t \in Tunnels
               PROVE  /\ closer'[t].phase # "none" => closed'[conn'[t]]
                      /\ closer'[t].phase \in {"callbacks", "done"} => ~active'[conn'[t]]
                      /\ pc'[t] = "returned" => closer'[t].phase = "done"
    BY DEF RetireInv
  <1>1. t \in Actors /\ t \notin Conns /\ t # Janitor /\ t # Closer
    BY SetsAssumption DEF Actors
  <1>2. ASSUME closer'[t].phase # "none" PROVE closed'[conn'[t]]
    <2>1. CASE closer[t].phase # "none"
      <3>1. conn'[t] = conn[t] /\ conn[t] \in Conns /\ closed[conn[t]]
        BY <2>1, ServedStays DEF MadeInv, RetireInv
      <3> QED
        BY <3>1, ClosedStays
    <2>2. CASE closer[t].phase = "none"
      <3>1. RetireByTunnel(t)
        BY <1>1, <1>2, <2>2, CloserFrame DEF Detach, FinishClose, OnClose
      <3>2. conn[t] \in Conns
        BY <3>1 DEF RetireByTunnel, MadeInv, Asking
      <3> QED
        BY <3>1, <3>2 DEF RetireByTunnel, tunnelVars
    <2> QED
      BY <2>1, <2>2
  <1>3. ASSUME pc'[t] = "returned" PROVE closer'[t].phase = "done"
    <2>1. CASE pc[t] = "returned"
      <3>1. closer[t].phase = "done"
        BY <2>1 DEF RetireInv
      <3> QED
        BY <1>1, <3>1, CloserFrame DEF RetireByTunnel, Detach, FinishClose, OnClose
    <2>2. CASE pc[t] # "returned"
      <3>1. FinishClose(t)
        BY <1>3, <2>2, PcMoves
      <3> QED
        BY <1>1, <3>1 DEF FinishClose
    <2> QED
      BY <2>1, <2>2
  <1> QED
    BY <1>2, <1>3, RetiredIdle
-----------------------------------------------------------------------------
(* PlaceInv and ActiveInv *)

\* A manager without streams.
LEMMA NoLoad ==
    ASSUME TypeOK, NEW c \in Conns
    PROVE  Load(c) = 0 <=> streams[c] = {}
  <1>1. streams[c] \in SUBSET Tunnels /\ IsFiniteSet(Tunnels)
    BY SetsAssumption DEF TypeOK
  <1>2. IsFiniteSet(streams[c])
    BY <1>1, FS_Subset
  <1> QED
    BY <1>2, FS_EmptySet DEF Load

\* The last tunnel leaves a connection by ReleaseConnection, which finds it
\* unused, unless the connection has been closed and detached.
LEMMA LastLeaves ==
    ASSUME IInv, RetireInv, Next, NEW c \in Conns, Used(c), ~Used(c)'
    PROVE  \/ closed[c] /\ ~active[c]
           \/ \E t \in Tunnels : ReleaseConnection(t) /\ conn[t] = c /\ Unused(c)
  <1> USE DEF IInv, TypeOK
  <1>1. PICK t \in Tunnels : Uses(t, c)
    BY DEF Used
  <1>2. ~Uses(t, c)' /\ conn[t] = c
    BY <1>1 DEF Used, Uses
  <1>3. CASE FinishClose(t) /\ closer[t].phase = "callbacks"
    BY <1>2, <1>3 DEF RetireInv
  <1>4. CASE ReleaseConnection(t)
    <2> SUFFICES ASSUME ~Unused(c) PROVE FALSE
      BY <1>2, <1>4
    <2>1. c \in index /\ streams[c] # {} /\ ~stopped
      BY NoLoad DEF Unused, StreamInv
    <2>2. PICK u \in streams[c] : u \in Tunnels /\ conn[u] = c /\ Holding(u)
      BY <2>1 DEF StreamInv
    <2>3. u # t /\ pc'[u] = pc[u] /\ conn'[u] = conn[u]
      BY <1>4, <2>2 DEF ReleaseConnection, Holding
    <2>4. Uses(u, c)'
      BY <2>2, <2>3 DEF Uses, Holding
    <2> QED
      BY <2>2, <2>4 DEF Used
  <1> QED
    BY <1>1, <1>2, <1>3, <1>4, UserLeaves

\* PlaceInv is preserved.
LEMMA PlaceStep ==
    ASSUME IInv, RetireInv, PlaceInv, Next
    PROVE  PlaceInv'
  <1> USE DEF IInv, TypeOK
  <1> SUFFICES ASSUME ~stopped', NEW c \in Conns, create'[c] \in {"pooled", "done"},
                      ~closed'[c], c \notin InPool', ~Used(c)'
               PROVE  FALSE
    BY DEF PlaceInv, Open
  <1>1. ~stopped /\ Open(c)
    BY StoppedStays, ClosedStays DEF Open
  <1>2. CASE create[c] \in {"pooled", "done"}
    <2>1. CASE c \in InPool
      <3>1. PICK t \in Tunnels : conn'[t] = c /\ pc'[t] = "allocated"
        BY <2>1, PoolLeaves
      <3> QED
        BY <3>1 DEF Used, Uses
    <2>2. CASE Used(c)
      <3>1. PICK t \in Tunnels : ReleaseConnection(t) /\ conn[t] = c /\ Unused(c)
        BY <1>1, <2>2, LastLeaves DEF Open
      <3>2. c \in InPool \/ \E i \in 1 .. Len(pool) + 1 : pool' = InsertAt(pool, i, c)
        BY <1>1, <3>1 DEF ReleaseConnection, Returnable
      <3>3. CASE c \in InPool
        BY <3>1, <3>3, PoolLeaves DEF ReleaseConnection, Returnable, InPool
      <3>4. CASE \E i \in 1 .. Len(pool) + 1 : pool' = InsertAt(pool, i, c)
        BY <3>4, InsertAll DEF InPool
      <3> QED
        BY <3>2, <3>3, <3>4
    <2> QED
      BY <1>1, <1>2, <2>1, <2>2 DEF PlaceInv
  <1>3. CASE create[c] \notin {"pooled", "done"}
    <2>1. AddToPool(c)
      BY <1>3, CreateFrame DEF Reserve, DialFails, DialSucceeds, AddToPool, ReleaseSlot
    <2> QED
      BY <2>1, AppendAll DEF AddToPool, InPool
  <1> QED
    BY <1>2, <1>3

\* ActiveInv is preserved.
LEMMA ActiveStep ==
    ASSUME IInv, RetireInv, ActiveInv, Next
    PROVE  ActiveInv'
  <1> USE DEF IInv, TypeOK
  <1> SUFFICES ASSUME NEW c \in Conns, active'[c]
               PROVE  Reading(c)' /\ (Used(c)' \/ Detaching(c)')
    BY DEF ActiveInv
  <1>1. CASE ~active[c]
    <2>1. PICK t \in Tunnels : TakeIdle(t) /\ conn'[t] = c /\ pc'[t] = "allocated"
      BY <1>1, ActiveNew
    <2>2. Used(c)'
      BY <2>1 DEF Used, Uses
    <2>3. Reading(c)
      BY <2>1, TakenGone DEF MadeInv
    <2> QED
      BY <2>2, <2>3, ReadingStays
  <1>2. CASE active[c]
    <2>1. Reading(c)' /\ (Used(c) \/ Detaching(c))
      BY <1>2, ReadingStays DEF ActiveInv
    <2>2. CASE Used(c)
      <3>1. ASSUME NEW t \in Tunnels, ReleaseConnection(t), conn[t] = c, Unused(c)
            PROVE  FALSE
        BY <3>1 DEF ReleaseConnection, MarkIdle
      <3> QED
        BY <1>2, <2>1, <2>2, <3>1, LastLeaves
    <2>3. CASE Detaching(c)
      <3>1. PICK a \in Actors : closer[a].conn = c /\ closer[a].phase = "detach"
        BY <2>3 DEF Detaching
      <3>2. ~Detach(a)
        BY <3>1 DEF Detach, MarkIdle
      <3>3. closer'[a] = closer[a]
        BY <3>1, <3>2, CloserFrame DEF ReadFails, RetireByTunnel, RetireByJanitor,
           FinishClose, OnClose, CloseItem
      <3> QED
        BY <2>1, <3>1, <3>3 DEF Detaching
    <2> QED
      BY <2>1, <2>2, <2>3
  <1> QED
    BY <1>1, <1>2
-----------------------------------------------------------------------------
(* AloneInv *)

\* Without multiplexing a tunnel is given a connection only from the pool.
LEMMA OnlyIdle ==
    ASSUME ~EnableMultiplex, NEW t \in Tunnels, ShareBusy(t)
    PROVE  FALSE
  BY DEF ShareBusy, Shareable, Affine, LeastLoaded, Sharing

\* ... and an open connection is given to nobody else.
LEMMA AloneNew ==
    ASSUME IInv, RetireInv, ~EnableMultiplex, Next, NEW c \in Conns,
           NEW t \in Tunnels, Uses(t, c)', ~Uses(t, c)
    PROVE  \/ closed[c] /\ ~Asking(t)
           \/ /\ TakeIdle(t) /\ conn'[t] = c /\ c \in InPool /\ Open(c)
              /\ \A u \in Tunnels : u # t => (Uses(u, c)' <=> Uses(u, c))
              /\ IsInjective(pool) => c \notin InPool'
  <1> USE DEF IInv, TypeOK
  <1>1. CASE pc[t] = "returned" /\ conn[t] = c
    BY <1>1 DEF RetireInv, Asking
  <1>2. CASE TakeIdle(t) /\ conn'[t] = c
    <2>1. \A u \in Tunnels : u # t => conn'[u] = conn[u] /\ pc'[u] = pc[u]
      BY <1>2 DEF TakeIdle, Allocate
    <2> QED
      BY <1>2, <2>1, TakenGone DEF Uses
  <1> QED
    BY <1>1, <1>2, UserArrives, OnlyIdle

\* An open connection still serves one tunnel.
LEMMA AloneUsers ==
    ASSUME IInv, RetireInv, AloneInv, ~EnableMultiplex, Next,
           NEW c \in Conns, NEW t \in Tunnels, NEW u \in Tunnels,
           Uses(t, c)', Uses(u, c)', Open(c)'
    PROVE  t = u
  <1>1. Open(c)
    BY ClosedStays DEF IInv, Open
  <1>2. c \in InPool => ~Uses(t, c) /\ ~Uses(u, c)
    BY <1>1 DEF AloneInv, Used
  <1>3. CASE Uses(t, c) /\ Uses(u, c)
    BY <1>1, <1>3 DEF AloneInv
  <1>4. CASE ~Uses(t, c)
    BY <1>1, <1>2, <1>4, AloneNew DEF Open
  <1>5. CASE ~Uses(u, c)
    BY <1>1, <1>2, <1>5, AloneNew DEF Open
  <1> QED
    BY <1>3, <1>4, <1>5

\* What is given to a tunnel without multiplexing comes from the pool, and leaves it.
LEMMA GivenGone ==
    ASSUME IInv, ~EnableMultiplex, IsInjective(pool), Next,
           NEW t \in Tunnels, Asking(t), ~Asking(t)'
    PROVE  conn'[t] \in InPool /\ conn'[t] \notin InPool'
  BY Served, OnlyIdle, TakenGone

\* What the pool has stays, or is, unused.
LEMMA AlonePooled ==
    ASSUME IInv, RetireInv, AloneInv, ~EnableMultiplex, Next, NEW c \in InPool', c \in Conns
    PROVE  /\ ~stopped' => ~active'[c] /\ streams'[c] = {}
           /\ Open(c)' => ~Used(c)'
  <1> USE DEF IInv, TypeOK
  <1>1. IsInjective(pool)
    BY DEF AloneInv
  <1>2. ASSUME NEW t \in Tunnels, Asking(t), ~Asking(t)', conn'[t] = c PROVE FALSE
    BY <1>1, <1>2, GivenGone
  <1>3. ~stopped' => ~stopped
    BY StoppedStays
  <1>4. ASSUME ~stopped, c \in InPool \/ (create[c] = "indexed" /\ AddToPool(c))
        PROVE  ~active'[c] /\ streams'[c] = {}
    <2>1. ~active[c] /\ streams[c] = {}
      BY <1>4 DEF AloneInv
    <2>2. ~active'[c]
      <3>1. ASSUME NEW t \in Tunnels, TakeIdle(t), conn'[t] = c PROVE FALSE
        BY <1>1, <3>1, TakenGone
      <3> QED
        BY <2>1, <3>1, ActiveNew
    <2>3. ASSUME NEW t \in streams'[c] PROVE FALSE
      <3>1. t \in Tunnels /\ Asking(t) /\ conn'[t] = c /\ pc'[t] = "allocated"
        BY <2>1, StreamNew
      <3> QED
        BY <1>2, <3>1 DEF Asking
    <2> QED
      BY <2>2, <2>3
  <1>5. ASSUME ~stopped, NEW t \in Tunnels, ReleaseConnection(t), conn[t] = c, Unused(c)
        PROVE  ~active'[c] /\ streams'[c] = {}
    <2>1. streams[c] = {}
      BY <1>5, NoLoad DEF Unused, StreamInv
    <2> QED
      BY <1>5, <2>1 DEF ReleaseConnection, MarkIdle
  <1>6. ASSUME Open(c)', NEW t \in Tunnels, Uses(t, c)' PROVE FALSE
    <2>1. Open(c)
      BY <1>6, ClosedStays DEF Open
    <2>2. Uses(t, c)
      BY <1>1, <1>6, <2>1, AloneNew DEF Open
    <2>3. c \notin InPool
      BY <2>1, <2>2 DEF AloneInv, Used
    <2>4. ~AddToPool(c)
      <3>1. ~Asking(t) /\ conn[t] = c
        BY <2>2 DEF Uses, Asking
      <3> QED
        BY <3>1 DEF AddToPool, AloneInv
    <2>5. PICK u \in Tunnels : ReleaseConnection(u) /\ conn[u] = c
      BY <2>3, <2>4, PoolEnters
    <2>6. Uses(u, c)
      BY <2>5 DEF ReleaseConnection, Uses
    <2>7. u = t
      BY <2>1, <2>2, <2>6 DEF AloneInv
    <2> QED
      BY <1>6, <2>5, <2>7 DEF ReleaseConnection, Uses
  <1>7. \/ c \in InPool
        \/ create[c] = "indexed" /\ AddToPool(c)
        \/ \E t \in Tunnels : ReleaseConnection(t) /\ conn[t] = c /\ Unused(c)
    <2>1. CASE c \notin InPool
      <3>1. \/ AddToPool(c)
            \/ \E t \in Tunnels : ReleaseConnection(t) /\ conn[t] = c /\ Unused(c)
        BY <2>1, PoolEnters
      <3>2. AddToPool(c) => create[c] = "indexed"
        BY DEF AddToPool
      <3> QED
        BY <3>1, <3>2
    <2>2. CASE c \in InPool
      BY <2>2
    <2> QED
      BY <2>1, <2>2
  <1> QED
    BY <1>3, <1>4, <1>5, <1>6, <1>7 DEF Used

\* A connection on its way to the pool is not known to any tunnel.
LEMMA AloneIndexed ==
    ASSUME IInv, ActiveInv, AloneInv, ~EnableMultiplex, Next,
           NEW c \in Conns, create'[c] = "indexed"
    PROVE  /\ c \notin InPool' /\ ~active'[c]
           /\ ~stopped' => streams'[c] = {}
           /\ \A t \in Tunnels : ~Asking(t)' => conn'[t] # c
  <1> USE DEF IInv, TypeOK
  <1>1. IsInjective(pool) /\ (~stopped' => ~stopped)
    BY StoppedStays DEF AloneInv
  <1>2. CASE create[c] = "indexed"
    <2>1. /\ c \notin InPool /\ ~active[c] /\ (~stopped => streams[c] = {})
          /\ \A t \in Tunnels : ~Asking(t) => conn[t] # c
      BY <1>2 DEF AloneInv
    <2>2. c \notin InPool'
      <3>1. ~AddToPool(c)
        BY DEF AddToPool
      <3>2. \A t \in Tunnels : ReleaseConnection(t) => conn[t] # c
        BY <2>1 DEF ReleaseConnection, Asking
      <3> QED
        BY <2>1, <3>1, <3>2, PoolEnters
    <2>3. ~active'[c]
      BY <2>1, ActiveNew, TakenGone
    <2>4. \A t \in Tunnels : ~Asking(t)' => conn'[t] # c
      <3> TAKE t \in Tunnels
      <3>1. CASE ~Asking(t)
        BY <2>1, <3>1, ServedStays
      <3>2. CASE Asking(t)
        BY <1>1, <2>1, <3>2, GivenGone
      <3> QED
        BY <3>1, <3>2
    <2>5. ASSUME ~stopped', NEW t \in streams'[c] PROVE FALSE
      <3>1. t \in Tunnels /\ conn'[t] = c /\ pc'[t] = "allocated"
        BY <1>1, <2>1, <2>5, StreamNew
      <3> QED
        BY <2>4, <3>1 DEF Asking
    <2> QED
      BY <2>2, <2>3, <2>4, <2>5
  <1>3. CASE create[c] # "indexed"
    <2>1. DialSucceeds(c)
      BY <1>3, CreateFrame DEF Reserve, DialFails, DialSucceeds, AddToPool, ReleaseSlot
    <2>2. ~Reading(c)
      BY <2>1 DEF DialSucceeds, Reading
    <2>3. c \notin InPool /\ c \notin index /\ ~active[c]
      BY <2>2 DEF MadeInv, ActiveInv
    <2>4. streams[c] = {}
      BY <2>1, <2>3 DEF DialSucceeds, StreamInv
    <2>5. \A t \in Tunnels : ~Asking(t) => conn[t] # c
      BY <2>2 DEF MadeInv
    <2> QED
      BY <2>1, <2>3, <2>4, <2>5 DEF DialSucceeds, tunnelVars, InPool, Asking
  <1> QED
    BY <1>2, <1>3

\* AloneInv is preserved.
LEMMA AloneStep ==
    ASSUME IInv, RetireInv, ActiveInv, AloneInv, Next
    PROVE  AloneInv'
  <1> SUFFICES ASSUME ~EnableMultiplex
               PROVE  /\ IsInjective(pool)'
                      /\ \A t, u \in Tunnels, c \in Conns :
                             Uses(t, c)' /\ Uses(u, c)' /\ Open(c)' => t = u
                      /\ \A c \in InPool' : ~stopped' => ~active'[c] /\ streams'[c] = {}
                      /\ \A c \in InPool' : Open(c)' => ~Used(c)'
                      /\ \A c \in Conns : create'[c] = "indexed" =>
                             /\ c \notin InPool' /\ ~active'[c]
                             /\ ~stopped' => streams'[c] = {}
                             /\ \A t \in Tunnels : ~Asking(t)' => conn'[t] # c
    BY DEF AloneInv
  <1>1. IsInjective(pool)'
    <2>1. IsInjective(pool) /\ \A c \in Conns : create[c] = "indexed" => c \notin InPool
      BY DEF AloneInv
    <2> QED
      BY <2>1, PoolInjective
  <1>2. \A c \in InPool' : c \in Conns
    BY TypeStep DEF IInv, TypeOK, InPool, Range
  <1>3. \A t, u \in Tunnels, c \in Conns : Uses(t, c)' /\ Uses(u, c)' /\ Open(c)' => t = u
    BY AloneUsers
  <1>4. \A c \in InPool' : /\ ~stopped' => ~active'[c] /\ streams'[c] = {}
                           /\ Open(c)' => ~Used(c)'
    BY <1>2, AlonePooled
  <1>5. \A c \in Conns : create'[c] = "indexed" =>
            /\ c \notin InPool' /\ ~active'[c]
            /\ ~stopped' => streams'[c] = {}
            /\ \A t \in Tunnels : ~Asking(t)' => conn'[t] # c
    BY AloneIndexed
  <1> QED
    BY <1>1, <1>3, <1>4, <1>5
-----------------------------------------------------------------------------
(* SocketInv *)

\* What Close has to do, the open WebSockets, and the culled connections.
LEMMA SocketFrame ==
    ASSUME TypeOK, Next, NEW c \in Conns
    PROVE  /\ socket'[c] = "open" => socket[c] = "open" \/ DialSucceeds(c)
           /\ todo'[c] # todo[c] => Close \/ CloseItem(c)
           /\ c \in doomed /\ c \notin doomed' => CullClose(c)
           /\ stopped' /\ ~stopped => Close
  <1> USE DEF TypeOK
  <1>1. CASE CreateStep
    BY <1>1 DEF CreateStep, Reserve, DialFails, DialSucceeds, AddToPool, ReleaseSlot,
       closeVars
  <1>2. CASE TunnelStep
    <2>1. UNCHANGED <<socket, todo, doomed, stopped>>
      BY <1>2 DEF TunnelStep, GetConnectionWithStream, TakeIdle, Allocate, Spin,
         ShareBusy, Refuse, Retry, AcquireTimeout, RegisterStreamHandler, WriteConnect,
         Connected, BeginCleanup, UnregisterStreamHandler, ReleaseConnection, RetireByTunnel,
         connVars, closeVars
    <2> QED
      BY <2>1
  <1>3. CASE CloseStep
    <2>1. CASE \E d \in Conns : WriteFails(d) \/ ReadFails(d) \/ RetireByJanitor(d)
      BY <2>1 DEF WriteFails, ReadFails, RetireByJanitor, closeVars
    <2>2. CASE \E a \in Actors : FinishClose(a)
      BY <2>2 DEF FinishClose
    <2>3. CASE \E d \in Conns : CullClose(d) \/ CloseItem(d)
      BY <2>3 DEF CullClose, CloseItem
    <2>4. CASE \E S \in SUBSET InPool : Cull(S)
      BY <2>4 DEF Cull
    <2>5. CASE \E a \in Actors : Detach(a) \/ \E t \in Tunnels : OnClose(a, t)
      <3>1. UNCHANGED <<socket, todo, doomed, stopped>>
        BY <2>5 DEF Detach, OnClose, connVars
      <3> QED
        BY <3>1
    <2>6. CASE Close \/ Panic
      BY <2>6 DEF Close, Panic, connVars
    <2> QED
      BY <1>3, <2>1, <2>2, <2>3, <2>4, <2>5, <2>6 DEF CloseStep
  <1> QED
    BY <1>1, <1>2, <1>3 DEF Next

\* Whoever is about to close a WebSocket does so before forgetting it.
LEMMA ClosingStays ==
    ASSUME IInv, Next, NEW c \in Conns, Closing(c), socket'[c] = "open"
    PROVE  Closing(c)'
  <1> USE DEF IInv, TypeOK
  <1>1. CASE c \in doomed
    BY <1>1, SocketFrame DEF CullClose, Closing
  <1>2. ASSUME NEW a \in Actors, closer[a].conn = c, closer[a].phase \in {"detach", "callbacks"}
        PROVE  Closing(c)'
    <2>1. CASE closer'[a] = closer[a]
      BY <1>2, <2>1 DEF Closing
    <2>2. CASE FinishClose(a)
      BY <1>2, <2>2 DEF FinishClose
    <2>3. CASE Detach(a) \/ \E t \in Tunnels : OnClose(a, t)
      <3>1. closer'[a].conn = closer[a].conn /\ closer'[a].phase = "callbacks"
        <4>1. CASE Detach(a)
          BY <4>1 DEF Detach, CloserRecord
        <4>2. CASE \E t \in Tunnels : OnClose(a, t)
          BY <4>2 DEF OnClose, CloserRecord
        <4> QED
          BY <2>3, <4>1, <4>2
      <3> QED
        BY <1>2, <3>1 DEF Closing
    <2> QED
      BY <1>2, <2>1, <2>2, <2>3, CloserFrame DEF ReadFails, RetireByTunnel,
         RetireByJanitor, CloseItem
  <1> QED
    BY <1>1, <1>2 DEF Closing

\* A ConnItem that is closed now has somebody to close its WebSocket.
LEMMA ClosingNew ==
    ASSUME IInv, Next, NEW c \in Conns, Open(c), closed'[c], socket'[c] = "open"
    PROVE  Closing(c)'
  <1> USE DEF IInv, TypeOK
  <1>1. CASE WriteFails(c)
    BY <1>1 DEF WriteFails
  <1>2. ASSUME NEW a \in Actors, Start(a, c) PROVE Closing(c)'
    <2>1. closer'[a].conn = c /\ closer'[a].phase = "detach"
      BY <1>2 DEF Start, Idle
    <2> QED
      BY <2>1 DEF Closing
  <1>3. CASE \/ ReadFails(c) \/ RetireByJanitor(c)
             \/ \E t \in Tunnels : RetireByTunnel(t) /\ conn[t] = c
    BY <1>2, <1>3 DEF ReadFails, RetireByJanitor, RetireByTunnel, Actors
  <1>4. CASE \E S \in SUBSET InPool : Cull(S) /\ c \in S
    BY <1>4 DEF Cull, Closing
  <1>5. CASE CloseItem(c)
    <2>1. closer'[Closer].conn = c /\ closer'[Closer].phase = "callbacks" /\ Closer \in Actors
      BY <1>5 DEF CloseItem, Actors
    <2> QED
      BY <2>1 DEF Closing
  <1> QED
    BY <1>1, <1>3, <1>4, <1>5, ClosedNew

\* Only what has been made is closed.
LEMMA SocketMade ==
    ASSUME IInv, SocketInv, Next, NEW c \in Conns,
           socket'[c] = "open" \/ closed'[c] \/ todo'[c] # "no"
    PROVE  Reading(c)'
  <1> USE DEF IInv, TypeOK
  <1>1. CASE Reading(c)
    BY <1>1, ReadingStays
  <1>2. CASE ~Reading(c)
    <2>1. socket[c] # "open" /\ Open(c) /\ todo[c] = "no"
      BY <1>2 DEF SocketInv, Open
    <2>2. CASE socket'[c] = "open"
      BY <2>1, <2>2, SocketFrame DEF DialSucceeds, Reading
    <2>3. CASE closed'[c]
      <3>1. c \notin index /\ c \notin InPool
        BY <1>2 DEF MadeInv
      <3>2. \A t \in Tunnels : RetireByTunnel(t) => conn[t] # c
        BY <1>2 DEF RetireByTunnel, MadeInv, Asking
      <3> QED
        BY <1>2, <2>1, <2>3, <3>1, <3>2, ClosedNew DEF WriteFails, ReadFails,
           RetireByJanitor, CloseItem
    <2>4. CASE todo'[c] # "no"
      <3>1. Close
        BY <2>1, <2>4, SocketFrame DEF CloseItem
      <3> QED
        BY <1>2, <2>4, <3>1 DEF Close, CloseKind, MadeInv
    <2> QED
      BY <2>2, <2>3, <2>4
  <1> QED
    BY <1>1, <1>2

\* SocketInv is preserved.
LEMMA SocketStep ==
    ASSUME IInv, SocketInv, Next
    PROVE  SocketInv'
  <1> USE DEF IInv, TypeOK
  <1> SUFFICES ASSUME NEW c \in Conns, socket'[c] = "open"
               PROVE  /\ Open(c)' \/ Closing(c)'
                      /\ stopped' /\ Open(c)' => todo'[c] # "no"
    BY SocketMade DEF SocketInv
  <1>1. CASE DialSucceeds(c)
    <2>1. ~Reading(c) /\ ~stopped' /\ closed' = closed
      BY <1>1 DEF DialSucceeds, Reading, closeVars
    <2> QED
      BY <2>1 DEF SocketInv, Open
  <1>2. CASE socket[c] = "open"
    <2>1. /\ Reading(c) /\ (Open(c) \/ Closing(c))
          /\ stopped /\ Open(c) => todo[c] # "no"
      BY <1>2 DEF SocketInv
    <2>2. Open(c)' \/ Closing(c)'
      BY <2>1, ClosingStays, ClosingNew DEF Open
    <2>3. ASSUME stopped', Open(c)' PROVE todo'[c] # "no"
      <3>1. Open(c)
        BY <2>3, ClosedStays DEF Open
      <3>2. CASE Close
        <4>1. c \in index
          BY <1>2, <3>1, <3>2 DEF Close, IndexInv, SocketInv
        <4> QED
          BY <3>2, <4>1 DEF Close, CloseKind
      <3>3. CASE ~Close
        <4>1. stopped /\ todo[c] # "no"
          BY <2>1, <2>3, <3>1, <3>3, SocketFrame
        <4>2. ~CloseItem(c)
          BY <2>3 DEF CloseItem, Open
        <4> QED
          BY <3>3, <4>1, <4>2, SocketFrame
      <3> QED
        BY <3>2, <3>3
    <2> QED
      BY <2>2, <2>3
  <1> QED
    BY <1>1, <1>2, SocketFrame
-----------------------------------------------------------------------------
(* HandlerInv *)

\* tryAllocateStream gives out streams of open connections only.
LEMMA StreamOpen ==
    ASSUME IInv, Next, NEW c \in Conns, NEW t \in streams'[c], t \notin streams[c]
    PROVE  Open(c)
  <1> USE DEF IInv, TypeOK
  <1>1. t \in Tunnels /\ Asking(t) /\ conn'[t] = c /\ pc'[t] = "allocated"
    BY StreamNew
  <1>2. TakeIdle(t) \/ ShareBusy(t)
    BY <1>1, Served DEF Asking
  <1>3. CASE TakeIdle(t)
    <2>1. PICK k \in DOMAIN pool : PickAt(k) /\ Allocate(t, pool[k])
      BY <1>3 DEF TakeIdle
    <2> QED
      BY <1>1, <2>1 DEF PickAt, Allocate
  <1>4. CASE ShareBusy(t)
    <2>1. PICK d \in Shareable(t) : Allocate(t, d)
      BY <1>4 DEF ShareBusy
    <2> QED
      BY <1>1, <2>1 DEF Allocate, Shareable, Affine, LeastLoaded, Sharing
  <1> QED
    BY <1>2, <1>3, <1>4

\* A stream leaves its manager with its handler, unregistered by its tunnel or
\* detached with its connection.
LEMMA StreamGone ==
    ASSUME IInv, Next, ~stopped', NEW c \in Conns,
           NEW t \in streams[c], t \notin streams'[c]
    PROVE  /\ t \notin handlers'[c]
           /\ \/ UnregisterStreamHandler(t)
              \/ \E a \in Actors : Detach(a) /\ closer[a].conn = c /\ c \in index
  <1> USE DEF IInv, TypeOK
  <1>1. t \in Tunnels /\ conn[t] = c
    BY StoppedStays DEF StreamInv
  <1>2. CASE CreateStep
    BY <1>2 DEF CreateStep, Reserve, DialFails, DialSucceeds, AddToPool, ReleaseSlot,
       poolVars
  <1>3. CASE TunnelStep
    <2>1. ASSUME NEW u \in Tunnels, UnregisterStreamHandler(u)
          PROVE  u = t /\ t \notin handlers'[c]
      BY <1>1, <2>1 DEF UnregisterStreamHandler, StreamsWithout
    <2>2. ASSUME NEW u \in Tunnels, NEW d, Allocate(u, d) PROVE FALSE
      BY <2>2 DEF Allocate
    <2>3. ASSUME NEW u \in Tunnels, TakeIdle(u) \/ ShareBusy(u) PROVE FALSE
      BY <2>2, <2>3 DEF TakeIdle, ShareBusy
    <2> QED
      BY <1>3, <2>1, <2>3 DEF TunnelStep, GetConnectionWithStream, Spin, Refuse,
         Retry, AcquireTimeout, RegisterStreamHandler, WriteConnect, Connected,
         BeginCleanup, ReleaseConnection, RetireByTunnel, poolVars
  <1>4. CASE CloseStep
    <2>1. ASSUME NEW a \in Actors, Detach(a)
          PROVE  closer[a].conn = c /\ c \in index /\ t \notin handlers'[c]
      BY <2>1 DEF Detach
    <2> QED
      BY <1>4, <2>1 DEF CloseStep, WriteFails, ReadFails, RetireByJanitor, FinishClose,
         OnClose, Cull, CullClose, CloseItem, Close, Panic, poolVars
  <1> QED
    BY <1>2, <1>3, <1>4 DEF Next

\* A handler disappears only when its stream is unregistered or its connection
\* detached.
LEMMA HandlerGone ==
    ASSUME IInv, Next, NEW c \in Conns, NEW t \in handlers[c], t \notin handlers'[c]
    PROVE  \/ UnregisterStreamHandler(t)
           \/ \E a \in Actors : Detach(a) /\ closer[a].conn = c /\ c \in index
  <1> USE DEF IInv, TypeOK
  <1>1. CASE CreateStep
    BY <1>1 DEF CreateStep, Reserve, DialFails, DialSucceeds, AddToPool, ReleaseSlot,
       poolVars
  <1>2. CASE TunnelStep
    <2>1. ASSUME NEW u \in Tunnels, UnregisterStreamHandler(u) PROVE u = t
      BY <2>1 DEF UnregisterStreamHandler
    <2>2. ASSUME NEW u \in Tunnels, RegisterStreamHandler(u) PROVE FALSE
      BY <2>2 DEF RegisterStreamHandler
    <2> QED
      BY <1>2, <2>1, <2>2 DEF TunnelStep, GetConnectionWithStream, TakeIdle, Allocate, Spin,
         ShareBusy, Refuse, Retry, AcquireTimeout, WriteConnect, Connected, BeginCleanup,
         ReleaseConnection, RetireByTunnel, poolVars
  <1>3. CASE CloseStep
    <2>1. ASSUME NEW a \in Actors, Detach(a) PROVE closer[a].conn = c /\ c \in index
      BY <2>1 DEF Detach
    <2> QED
      BY <1>3, <2>1 DEF CloseStep, WriteFails, ReadFails, RetireByJanitor, FinishClose,
         OnClose, Cull, CullClose, CloseItem, Close, Panic, poolVars
  <1> QED
    BY <1>1, <1>2, <1>3 DEF Next

\* A handler is registered for a stream that exists.
LEMMA HandlerNew ==
    ASSUME IInv, Next, NEW c \in Conns, NEW t \in handlers'[c], t \notin handlers[c]
    PROVE  /\ t \in streams[c] /\ streams' = streams
           /\ t \in Tunnels /\ RegisterStreamHandler(t) /\ conn[t] = c
  <1> USE DEF IInv, TypeOK
  <1>1. CASE CreateStep
    BY <1>1 DEF CreateStep, Reserve, DialFails, DialSucceeds, AddToPool, ReleaseSlot,
       poolVars
  <1>2. CASE TunnelStep
    <2>1. ASSUME NEW u \in Tunnels, RegisterStreamHandler(u)
          PROVE  t = u /\ t \in streams[c] /\ streams' = streams /\ conn[t] = c
      BY <2>1 DEF RegisterStreamHandler
    <2>2. ASSUME NEW u \in Tunnels, UnregisterStreamHandler(u) PROVE FALSE
      BY <2>2 DEF UnregisterStreamHandler
    <2> QED
      BY <1>2, <2>1, <2>2 DEF TunnelStep, GetConnectionWithStream, TakeIdle, Allocate, Spin,
         ShareBusy, Refuse, Retry, AcquireTimeout, WriteConnect, Connected, BeginCleanup,
         ReleaseConnection, RetireByTunnel, poolVars
  <1>3. CASE CloseStep
    <2>1. ASSUME NEW a \in Actors, Detach(a) PROVE FALSE
      BY <2>1 DEF Detach
    <2> QED
      BY <1>3, <2>1 DEF CloseStep, WriteFails, ReadFails, RetireByJanitor, FinishClose,
         OnClose, Cull, CullClose, CloseItem, Close, Panic, poolVars
  <1> QED
    BY <1>1, <1>2, <1>3 DEF Next

\* Who is to be notified is notified, and starts to clean up, before it is
\* forgotten.
LEMMA NotifiedStays ==
    ASSUME IInv, Next, NEW t \in Tunnels, Notified(t), pc'[t] \in {"waiting", "up"}
    PROVE  Notified(t)'
  <1> USE DEF IInv, TypeOK
  <1>1. PICK a \in Actors : closer[a].phase = "callbacks" /\ t \in closer[a].notify
    BY DEF Notified
  <1>2. CASE closer'[a] = closer[a]
    BY <1>1, <1>2 DEF Notified
  <1>3. ASSUME NEW u \in Tunnels, OnClose(a, u) PROVE Notified(t)'
    <2>1. u # t
      BY <1>3 DEF OnClose, CleanupStarted
    <2>2. closer'[a].phase = "callbacks" /\ t \in closer'[a].notify
      BY <1>1, <1>3, <2>1 DEF OnClose, CloserRecord
    <2> QED
      BY <2>2 DEF Notified
  <1> QED
    BY <1>1, <1>2, <1>3, CloserFrame DEF ReadFails, RetireByTunnel, RetireByJanitor,
       Detach, FinishClose, CloseItem

\* What the message loop of a connection relies on stays true.
LEMMA LoopStep ==
    ASSUME IInv, HandlerInv, Next, ~stopped', NEW c \in Conns
    PROVE  /\ closer'[c].phase = "detach" => closer'[c].conn = c
           /\ closer'[c].phase # "none" => closed'[c]
           /\ closer'[c].phase \in {"callbacks", "done"} => streams'[c] = {}
  <1> USE DEF IInv, TypeOK
  <1>1. c \in Actors /\ c \notin Tunnels /\ c # Janitor /\ c # Closer /\ ~stopped
    BY SetsAssumption, StoppedStays DEF Actors
  <1>2. /\ closer[c].phase = "detach" => closer[c].conn = c
        /\ closer[c].phase # "none" => closed[c]
        /\ closer[c].phase \in {"callbacks", "done"} => streams[c] = {}
    BY <1>1 DEF HandlerInv
  <1>3. closed[c] => closed'[c] /\ (streams[c] = {} => streams'[c] = {})
    BY ClosedStays, StreamOpen DEF Open
  <1>4. CASE closer'[c] = closer[c]
    BY <1>2, <1>3, <1>4
  <1>5. CASE ReadFails(c)
    BY <1>1, <1>5 DEF ReadFails, Start, Idle
  <1>6. CASE Detach(c)
    <2>1. streams'[c] = {}
      BY <1>1, <1>2, <1>6 DEF Detach, StreamInv
    <2>2. closer'[c].phase = "callbacks" /\ closed[c]
      BY <1>1, <1>2, <1>6 DEF Detach, CloserRecord
    <2> QED
      BY <1>3, <2>1, <2>2
  <1>7. CASE FinishClose(c)
    BY <1>1, <1>2, <1>3, <1>7 DEF FinishClose, Idle
  <1>8. CASE \E t \in Tunnels : OnClose(c, t)
    <2>1. closer[c].phase = "callbacks" /\ closer'[c].phase = "callbacks"
      BY <1>1, <1>8 DEF OnClose, CloserRecord
    <2> QED
      BY <1>2, <1>3, <2>1
  <1> QED
    BY <1>1, <1>4, <1>5, <1>6, <1>7, <1>8, CloserFrame

\* A tunnel keeps its stream, and then its handler, until its connection is
\* closed; and it does not wait without a handler or a notification.
LEMMA AttendedStep ==
    ASSUME IInv, HandlerInv, Next, ~stopped', NEW t \in Tunnels
    PROVE  /\ pc'[t] = "allocated" /\ Open(conn[t])' => t \in streams'[conn'[t]]
           /\ pc'[t] = "registered" /\ Open(conn[t])' => t \in handlers'[conn'[t]]
           /\ pc'[t] \in {"waiting", "up"} => t \in handlers'[conn'[t]] \/ Notified(t)'
  <1> USE DEF IInv, TypeOK
  <1>1. ~stopped
    BY StoppedStays
  <1>2. CASE Asking(t)
    <2>1. CASE Asking(t)'
      BY <2>1 DEF Asking
    <2>2. CASE ~Asking(t)'
      <3>1. (TakeIdle(t) \/ ShareBusy(t)) /\ pc'[t] = "allocated"
        BY <1>2, <2>2, Served
      <3>2. CASE TakeIdle(t)
        <4>1. PICK k \in DOMAIN pool : Allocate(t, pool[k])
          BY <3>2 DEF TakeIdle
        <4> QED
          BY <4>1 DEF Allocate
      <3>3. CASE ShareBusy(t)
        <4>1. PICK d \in Shareable(t) : Allocate(t, d)
          BY <3>3 DEF ShareBusy
        <4>2. d \in Conns
          BY DEF Shareable, Affine, LeastLoaded, Sharing
        <4> QED
          BY <4>1, <4>2 DEF Allocate
      <3> QED
        BY <3>1, <3>2, <3>3
    <2> QED
      BY <2>1, <2>2
  <1>3. CASE ~Asking(t)
    <2>1. conn'[t] = conn[t] /\ conn[t] \in Conns
      BY <1>3, ServedStays DEF MadeInv
    <2>2. Open(conn[t])' => Open(conn[t])
      BY <2>1, ClosedStays DEF Open
    <2>3. Open(conn[t]) => \A a \in Actors : Detach(a) => closer[a].conn # conn[t]
      BY DEF Detach, IndexInv, Open
    <2>4. ASSUME pc'[t] = "allocated", Open(conn[t])' PROVE t \in streams'[conn'[t]]
      <3>1. pc[t] = "allocated"
        BY <1>3, <2>4, PcMoves DEF Asking
      <3>2. t \in streams[conn[t]]
        BY <1>1, <2>2, <2>4, <3>1 DEF HandlerInv
      <3> QED
        BY <2>1, <2>2, <2>3, <2>4, <3>1, <3>2, StreamGone DEF UnregisterStreamHandler
    <2>5. ASSUME pc'[t] = "registered", Open(conn[t])' PROVE t \in handlers'[conn'[t]]
      <3>1. RegisterStreamHandler(t) \/ pc[t] = "registered"
        BY <1>3, <2>5, PcMoves
      <3>2. CASE RegisterStreamHandler(t)
        <4>1. t \in streams[conn[t]]
          BY <1>1, <2>2, <2>5, <3>2 DEF HandlerInv, RegisterStreamHandler
        <4> QED
          BY <2>1, <3>2, <4>1 DEF RegisterStreamHandler
      <3>3. CASE pc[t] = "registered"
        <4>1. t \in handlers[conn[t]]
          BY <1>1, <2>2, <2>5, <3>3 DEF HandlerInv
        <4> QED
          BY <2>1, <2>2, <2>3, <2>5, <3>3, <4>1, HandlerGone DEF UnregisterStreamHandler
      <3> QED
        BY <3>1, <3>2, <3>3
    <2>6. ASSUME pc'[t] \in {"waiting", "up"}
          PROVE  t \in handlers'[conn'[t]] \/ Notified(t)'
      <3>1. \/ WriteConnect(t) \/ pc[t] \in {"waiting", "up"}
        BY <1>3, <2>6, PcMoves
      <3>2. t \in handlers[conn[t]] \/ Notified(t)
        BY <1>1, <2>6, <3>1 DEF HandlerInv, WriteConnect
      <3>3. CASE t \in handlers[conn[t]] /\ t \notin handlers'[conn[t]]
        <4>1. PICK a \in Actors : Detach(a) /\ closer[a].conn = conn[t] /\ conn[t] \in index
          <5>1. ~UnregisterStreamHandler(t)
            BY <2>6 DEF UnregisterStreamHandler
          <5> QED
            BY <2>1, <3>3, <5>1, HandlerGone
        <4>2. closer'[a].phase = "callbacks" /\ t \in closer'[a].notify
          BY <3>3, <4>1 DEF Detach, ToNotify, CloserRecord
        <4> QED
          BY <4>2 DEF Notified
      <3> QED
        BY <2>1, <2>6, <3>2, <3>3, NotifiedStays
    <2> QED
      BY <2>4, <2>5, <2>6
  <1> QED
    BY <1>2, <1>3

\* HandlerInv is preserved.
LEMMA HandlerStep ==
    ASSUME IInv, HandlerInv, Next
    PROVE  HandlerInv'
  <1> USE DEF IInv
  <1> SUFFICES ASSUME ~stopped' PROVE HandlerInv'
    BY DEF HandlerInv
  <1>1. ~stopped
    BY StoppedStays
  <1>2. ASSUME NEW c \in Conns PROVE handlers'[c] \subseteq streams'[c]
    <2> SUFFICES ASSUME NEW t \in handlers'[c] PROVE t \in streams'[c]
      OBVIOUS
    <2>1. t \in streams[c]
      BY <1>1, HandlerNew DEF HandlerInv
    <2> QED
      BY <2>1, StreamGone
  <1> QED
    BY <1>2, LoopStep, AttendedStep DEF HandlerInv
-----------------------------------------------------------------------------
(* The theorems *)

\* Every step preserves the invariant.
LEMMA NextUse == IInv /\ UseInv /\ [Next]_vars => UseInv'
  <1> SUFFICES ASSUME IInv, UseInv, [Next]_vars PROVE UseInv'
    OBVIOUS
  <1>1. CASE Next
    BY <1>1, RetireStep, PlaceStep, ActiveStep, AloneStep, SocketStep, HandlerStep DEF UseInv
  <1>2. CASE UNCHANGED vars
    BY <1>2 DEF vars, poolVars, connVars, tunnelVars, closeVars, UseInv, RetireInv,
       PlaceInv, ActiveInv, AloneInv, SocketInv, HandlerInv, Notified, Used, Uses, Detaching, Closing, Reading,
       Open, InPool, Asking
  <1> QED
    BY <1>1, <1>2

\* UseInv is an invariant of the specification.
THEOREM UseInvariance == Spec => []UseInv
  <1>1. Spec => [](IInv /\ UseInv)
    BY InitIInv, NextIInv, InitUse, NextUse, PTL DEF Spec
  <1> QED
    BY <1>1, PTL

\* GetConnectionWithStream, ReleaseConnection and handleConnectionClose lose no
\* connection: an open one is in the idle pool or with a tunnel that will return
\* it, and none counts as active for good.
THEOREM NothingStranded == Spec => []NoStrandedConnection
  <1>1. UseInv => NoStrandedConnection
    BY DEF UseInv, PlaceInv, ActiveInv, NoStrandedConnection, Used, Detaching
  <1> QED
    BY <1>1, UseInvariance, PTL

\* Without multiplexing no connection serves two tunnels, and ReleaseConnection
\* puts none into the pool twice or while it is in use.
THEOREM Exclusive == Spec => []ExclusiveUse
  <1>1. UseInv => ExclusiveUse
    BY DEF UseInv, AloneInv, ExclusiveUse, InPool, Range
  <1> QED
    BY <1>1, UseInvariance, PTL

\* Close leaves no WebSocket open that nobody is about to close, at whatever
\* moment of a creation, a retirement or a cull it ran.
THEOREM ClosesAll == Spec => []CloseClosesAll
  <1>1. UseInv => CloseClosesAll
    BY DEF UseInv, SocketInv, CloseClosesAll, Closing
  <1> QED
    BY <1>1, UseInvariance, PTL

\* handleConnectionClose takes every handler exactly once and calls it: until
\* Close no tunnel waits on a connection whose message loop has already taken its
\* handlers, unless one of those who took them has still to call its OnClose.
THEOREM NobodyLost == Spec => []NobodyForgotten
  <1>1. IInv /\ UseInv => NobodyForgotten
    <2> SUFFICES ASSUME IInv, UseInv, ~stopped, NEW t \in Tunnels,
                        pc[t] \in {"waiting", "up"}, ~Notified(t)
                 PROVE  /\ conn[t] \in index /\ t \in handlers[conn[t]]
                        /\ closer[conn[t]].phase \in {"none", "detach"}
      BY DEF NobodyForgotten, Notified
    <2> USE DEF IInv, UseInv, TypeOK
    <2>1. conn[t] \in Conns /\ conn[t] \in Actors
      BY DEF MadeInv, Asking, Actors
    <2>2. t \in handlers[conn[t]] /\ t \in streams[conn[t]]
      BY <2>1 DEF HandlerInv
    <2>3. conn[t] \in index
      BY <2>1, <2>2 DEF StreamInv
    <2>4. closer[conn[t]].phase \in {"none", "detach", "callbacks", "done"}
      BY <2>1 DEF CloserRecord
    <2> QED
      BY <2>1, <2>2, <2>3, <2>4 DEF HandlerInv
  <1>2. Spec => [](IInv /\ UseInv)
    BY Invariance, UseInvariance, PTL
  <1> QED
    BY <1>1, <1>2, PTL

\* Without multiplexing, a request never finds the idle pool full of full
\* connections.
NoneSpins == \A t \in Tunnels : pc[t] # "spinning"

LEMMA SpinStep ==
    ASSUME IInv, UseInv, NoneSpins, [Next]_vars, ~EnableMultiplex, MaxStreams > 0
    PROVE  NoneSpins'
  <1> USE DEF IInv
  <1> SUFFICES ASSUME NEW t \in Tunnels, pc'[t] = "spinning"
               PROVE  FALSE
    BY DEF NoneSpins
  <1>1. pc[t] # "spinning"
    BY DEF NoneSpins
  <1>2. Next
    BY <1>1 DEF vars, tunnelVars
  <1>3. Spin(t)
    <2> USE DEF TypeOK
    <2>1. ~\E a \in Actors : OnClose(a, t)
      BY <1>1 DEF OnClose
    <2>2. ~FinishClose(t)
      BY <1>1 DEF FinishClose, AfterRetire
    <2> QED
      BY <1>1, <1>2, <2>1, <2>2, PcFrame DEF TakeIdle, ShareBusy, Refuse, Retry, Allocate,
         AcquireTimeout, RegisterStreamHandler, WriteConnect, Connected, BeginCleanup,
         UnregisterStreamHandler, ReleaseConnection
  <1>4. PICK i \in DOMAIN pool : ~stopped /\ ~Room(pool[i])
    BY <1>3 DEF Spin
  <1>5. streams[pool[i]] = {}
    BY <1>4 DEF UseInv, AloneInv, InPool, Range
  <1> QED
    BY <1>4, <1>5, FS_EmptySet DEF Room, Load

\* Without multiplexing GetConnectionWithStream never blocks for ever (its own
\* comment), as every idle connection is unused.  The property that the code
\* violates is lost to multiplexing alone.
THEOREM RequestsEndAlone ==
    ASSUME ~EnableMultiplex, MaxStreams > 0
    PROVE  Spec => RequestEnds
  <1>1. Init => NoneSpins
    BY DEF Init, NoneSpins
  <1>2. IInv /\ UseInv /\ NoneSpins /\ [Next]_vars => NoneSpins'
    BY SpinStep
  <1>3. Spec => [](IInv /\ UseInv)
    BY Invariance, UseInvariance, PTL
  <1>4. Spec => []NoneSpins
    BY <1>1, <1>2, <1>3, PTL DEF Spec
  <1>5. ASSUME NEW t \in Tunnels
        PROVE  Spec => (pc[t] = "spinning" ~> pc[t] # "spinning")
    <2>1. NoneSpins => pc[t] # "spinning"
      BY DEF NoneSpins
    <2> QED
      BY <1>4, <2>1, PTL
  <1> QED
    BY <1>5 DEF RequestEnds
-----------------------------------------------------------------------------
(* The contract with the tunnels *)

Fresh(t) == pc[t] \in {"seeking", "spinning", "allocated"}

HandlerOf(t) ==
    IF Fresh(t) THEN "none"
    ELSE IF Notified(t) THEN "notify"
    ELSE IF conn[t] \in Conns /\ t \in handlers[conn[t]] THEN "registered"
    ELSE "gone"

Handler(t) == INSTANCE StreamHandler WITH handler <- HandlerOf(t)

\* Until Close: a handler belongs to a tunnel that has been given its connection, and
\* whoever takes it takes it alone.
OnceInv ==
    ~stopped =>
        /\ \A c \in Conns : todo[c] = "no"
        /\ \A t \in Tunnels : closer[t].phase # "none" => ~Fresh(t)
        /\ \A c \in Conns : \A t \in handlers[c] : conn[t] = c /\ ~Fresh(t)
        /\ \A a \in Actors : closer[a].phase = "callbacks" => \A t \in closer[a].notify :
              /\ ~Fresh(t)
              /\ \A c \in Conns : t \notin handlers[c]
              /\ \A b \in Actors : closer[b].phase = "callbacks" /\ t \in closer[b].notify => a = b

LEMMA FreshStays ==
    ASSUME IInv, Next, NEW t \in Tunnels, ~Fresh(t)
    PROVE  ~Fresh(t)'
  <1>1. CASE pc'[t] = pc[t]
    BY <1>1 DEF Fresh
  <1>2. CASE pc'[t] # pc[t]
    BY <1>2, PcMoves DEF Fresh, IInv
  <1> QED
    BY <1>1, <1>2

\* A tunnel that is to be notified now and was not before had its handler in the
\* manager of the connection that is being detached.
LEMMA NotifyNew ==
    ASSUME IInv, OnceInv, Next, ~stopped, NEW a \in Actors, NEW t \in Tunnels,
           closer'[a].phase = "callbacks", t \in closer'[a].notify,
           ~(closer[a].phase = "callbacks" /\ t \in closer[a].notify)
    PROVE  /\ Detach(a) /\ closer[a].conn \in index /\ t \in handlers[closer[a].conn]
           /\ handlers' = [handlers EXCEPT ![closer[a].conn] = {}]
  <1> USE DEF IInv, TypeOK
  <1>1. closer'[a] # closer[a]
    OBVIOUS
  <1>2. ASSUME NEW u \in Tunnels, OnClose(a, u) PROVE FALSE
    BY <1>2 DEF OnClose, CloserRecord
  <1>3. ~FinishClose(a) /\ ~\E c \in Conns : CloseItem(c)
    BY DEF FinishClose, Idle, CloseItem, OnceInv
  <1>4. ASSUME NEW c, Start(a, c) PROVE FALSE
    BY <1>4 DEF Start, Idle
  <1>5. Detach(a)
    <2>1. ~(a \in Conns /\ ReadFails(a)) /\ ~(a \in Tunnels /\ RetireByTunnel(a))
      BY <1>4 DEF ReadFails, RetireByTunnel
    <2>2. ~(a = Janitor /\ \E c \in Conns : RetireByJanitor(c))
      BY <1>4 DEF RetireByJanitor
    <2> QED
      BY <1>1, <1>2, <1>3, <2>1, <2>2, CloserFrame
  <1> QED
    BY <1>5 DEF Detach, ToNotify, CloserRecord

LEMMA NothingToDo ==
    ASSUME IInv, OnceInv, Next, ~stopped', NEW c \in Conns
    PROVE  todo'[c] = "no"
  <1>1. ~stopped
    BY StoppedStays
  <1>2. CASE CreateStep
    BY <1>1, <1>2 DEF CreateStep, Reserve, DialFails, DialSucceeds, AddToPool, ReleaseSlot,
       closeVars, OnceInv
  <1>3. CASE TunnelStep
    BY <1>1, <1>3 DEF TunnelStep, GetConnectionWithStream, TakeIdle, Allocate, Spin, ShareBusy,
       Refuse, Retry, AcquireTimeout, RegisterStreamHandler, WriteConnect, Connected,
       BeginCleanup, UnregisterStreamHandler, ReleaseConnection, RetireByTunnel, closeVars, OnceInv
  <1>4. CASE CloseStep
    BY <1>1, <1>4 DEF CloseStep, WriteFails, ReadFails, RetireByJanitor, Detach, FinishClose,
       OnClose, Cull, CullClose, CloseItem, Close, Panic, closeVars, OnceInv
  <1> QED
    BY <1>2, <1>3, <1>4 DEF Next

LEMMA OnceStep ==
    ASSUME IInv, OnceInv, Next
    PROVE  OnceInv'
  <1> USE DEF IInv, TypeOK
  <1> SUFFICES ASSUME ~stopped' PROVE OnceInv'
    BY DEF OnceInv
  <1>0. ~stopped
    BY StoppedStays
  <1> USE <1>0
  <1>1. ASSUME NEW t \in Tunnels, closer'[t].phase # "none"
        PROVE  ~Fresh(t)'
    <2>1. t \in Actors /\ t \notin Conns /\ t # Janitor /\ t # Closer
      BY SetsAssumption DEF Actors
    <2>2. CASE closer[t].phase # "none"
      BY <2>2, FreshStays DEF OnceInv
    <2>3. CASE closer[t].phase = "none"
      <3>1. RetireByTunnel(t)
        BY <1>1, <2>1, <2>3, CloserFrame DEF Detach, FinishClose, OnClose
      <3>2. ~Fresh(t)
        BY <3>1 DEF RetireByTunnel, Fresh
      <3> QED
        BY <3>2, FreshStays
    <2> QED
      BY <2>2, <2>3
  <1>2. ASSUME NEW c \in Conns, NEW t \in handlers'[c]
        PROVE  conn'[t] = c /\ ~Fresh(t)'
    <2>1. CASE t \in handlers[c]
      <3>1. conn[t] = c /\ ~Fresh(t) /\ ~Asking(t) /\ t \in Tunnels
        BY <2>1 DEF OnceInv, MadeInv
      <3> QED
        BY <3>1, ServedStays, FreshStays
    <2>2. CASE t \notin handlers[c]
      <3>1. t \in Tunnels /\ RegisterStreamHandler(t) /\ conn[t] = c
        BY <2>2, HandlerNew
      <3> QED
        BY <3>1 DEF RegisterStreamHandler, Fresh
    <2> QED
      BY <2>1, <2>2
  <1>3. ASSUME NEW a \in Actors, closer'[a].phase = "callbacks", NEW t \in closer'[a].notify
        PROVE  /\ ~Fresh(t)'
               /\ \A c \in Conns : t \notin handlers'[c]
               /\ \A b \in Actors :
                     closer'[b].phase = "callbacks" /\ t \in closer'[b].notify => a = b
    <2>t. t \in Tunnels
      <3>1. closer' \in [Actors -> CloserRecord]
        BY NextIInv
      <3> QED
        BY <1>3, <3>1 DEF CloserRecord
    <2>1. CASE closer[a].phase = "callbacks" /\ t \in closer[a].notify
      <3>1. ~Fresh(t) /\ \A c \in Conns : t \notin handlers[c]
        BY <2>1 DEF OnceInv
      <3>2. \A c \in Conns : t \notin handlers'[c]
        BY <3>1, HandlerNew DEF RegisterStreamHandler, Fresh
      <3>3. ASSUME NEW b \in Actors, closer'[b].phase = "callbacks", t \in closer'[b].notify
            PROVE  a = b
        <4>1. closer[b].phase = "callbacks" /\ t \in closer[b].notify
          <5>1. SUFFICES ASSUME ~(closer[b].phase = "callbacks" /\ t \in closer[b].notify)
                         PROVE  FALSE
            OBVIOUS
          <5>2. closer[b].conn \in index /\ t \in handlers[closer[b].conn]
            BY <2>t, <3>3, <5>1, NotifyNew
          <5> QED
            BY <3>1, <5>2
        <4> QED
          BY <2>1, <4>1 DEF OnceInv
      <3> QED
        BY <2>t, <3>1, <3>2, <3>3, FreshStays
    <2>2. CASE ~(closer[a].phase = "callbacks" /\ t \in closer[a].notify)
      <3> DEFINE c == closer[a].conn
      <3>1. Detach(a) /\ c \in index /\ t \in handlers[c]
            /\ handlers' = [handlers EXCEPT ![c] = {}]
        BY <1>3, <2>t, <2>2, NotifyNew
      <3>2. conn[t] = c /\ ~Fresh(t)
        BY <3>1 DEF OnceInv
      <3>3. \A d \in Conns : t \notin handlers'[d]
        BY <3>1, <3>2 DEF OnceInv
      <3>4. ASSUME NEW b \in Actors, closer'[b].phase = "callbacks", t \in closer'[b].notify,
                   a # b
            PROVE  FALSE
        <4>1. closer'[b] = closer[b]
          BY <3>1, <3>4 DEF Detach
        <4> QED
          BY <3>1, <3>4, <4>1 DEF OnceInv
      <3> QED
        BY <2>t, <3>2, <3>3, <3>4, FreshStays
    <2> QED
      BY <2>1, <2>2
  <1> QED
    BY <1>1, <1>2, <1>3, NothingToDo DEF OnceInv

\* What a step does to the handler of one tunnel.
LEMMA HandlerNext ==
    ASSUME IInv, OnceInv, ~stopped, Next, NEW t \in Tunnels
    PROVE  Handler(t)!Next \/ UNCHANGED HandlerOf(t)
  <1> USE DEF IInv, TypeOK
  <1>1. ASSUME Notified(t)', ~Notified(t)
        PROVE  ~Fresh(t) /\ conn[t] \in Conns /\ t \in handlers[conn[t]]
    <2>1. PICK a \in Actors : closer'[a].phase = "callbacks" /\ t \in closer'[a].notify
      BY <1>1 DEF Notified
    <2>2. closer[a].conn \in index /\ t \in handlers[closer[a].conn]
      BY <1>1, <2>1, NotifyNew DEF Notified
    <2> QED
      BY <2>2 DEF OnceInv
  <1>2. ASSUME conn'[t] \in Conns, t \in handlers'[conn'[t]], ~Fresh(t)
        PROVE  conn[t] \in Conns /\ t \in handlers[conn[t]]
    <2>1. t \in handlers[conn'[t]]
      BY <1>2, HandlerNew DEF RegisterStreamHandler, Fresh
    <2> QED
      BY <1>2, <2>1 DEF OnceInv
  <1>3. Notified(t) => ~Fresh(t) /\ \A c \in Conns : t \notin handlers[c]
    BY DEF Notified, OnceInv
  <1>4. HandlerOf(t) = "none" => (HandlerOf(t)' \in {"none", "registered", "gone"})
    BY <1>1, <1>3 DEF HandlerOf
  <1>5. HandlerOf(t) # "none" => (HandlerOf(t)' # "none")
    BY FreshStays DEF HandlerOf
  <1>6. HandlerOf(t) = "notify" => (HandlerOf(t)' \in {"notify", "gone"})
    BY <1>2, <1>3, <1>5 DEF HandlerOf
  <1>7. HandlerOf(t) = "gone" => (HandlerOf(t)' = "gone")
    BY <1>1, <1>2, <1>5 DEF HandlerOf
  <1>8. /\ HandlerOf(t) \in {"none", "registered", "notify", "gone"}
        /\ HandlerOf(t)' \in {"none", "registered", "notify", "gone"}
    BY DEF HandlerOf
  <1> QED
    BY <1>4, <1>5, <1>6, <1>7, <1>8
       DEF Handler!Next, Handler!Register, Handler!Refuse, Handler!Unregister, Handler!Detach, Handler!OnClose

\* OnceInv is an invariant of the specification.
LEMMA OnceInvariance == Spec => []OnceInv
  <1>1. Init => OnceInv
    BY DEF Init, OnceInv, Fresh, Idle, Actors
  <1>2. IInv /\ OnceInv /\ [Next]_vars => OnceInv'
    <2>1. OnceInv /\ UNCHANGED vars => OnceInv'
      BY DEF vars, poolVars, tunnelVars, closeVars, OnceInv, Fresh
    <2> QED
      BY <2>1, OnceStep
  <1> QED
    BY <1>1, <1>2, Invariance, PTL DEF Spec

LEMMA NeverStops ==
    ASSUME Next, ~stopped, "close" \notin Faults
    PROVE  ~stopped'
  <1>1. CASE CreateStep
    BY <1>1 DEF CreateStep, Reserve, DialFails, DialSucceeds, AddToPool, ReleaseSlot, closeVars
  <1>2. CASE TunnelStep
    BY <1>2 DEF TunnelStep, GetConnectionWithStream, TakeIdle, Allocate, Spin, ShareBusy,
       Refuse, Retry, AcquireTimeout, RegisterStreamHandler, WriteConnect, Connected,
       BeginCleanup, UnregisterStreamHandler, ReleaseConnection, RetireByTunnel, closeVars
  <1>3. CASE CloseStep
    BY <1>3 DEF CloseStep, WriteFails, ReadFails, RetireByJanitor, Detach, FinishClose, OnClose,
       Cull, CullClose, CloseItem, Close, Panic, closeVars
  <1> QED
    BY <1>1, <1>2, <1>3 DEF Next

\* Until Close the pool keeps the contract with every tunnel: OnClose is called only
\* for a handler that is registered, and at most once, whoever retires, reads or
\* culls its connection, and nothing registers a handler after that.
THEOREM KeepsContract ==
    ASSUME "close" \notin Faults, NEW t \in Tunnels
    PROVE  Spec => Handler(t)!Spec
  <1>1. Init => ~stopped /\ HandlerOf(t) = "none"
    BY DEF Init, Fresh, HandlerOf
  <1>2. ~stopped /\ [Next]_vars => ~stopped'
    <2>1. ~stopped /\ Next => ~stopped'
      BY NeverStops
    <2> QED
      BY <2>1 DEF vars, closeVars
  <1>3. IInv /\ OnceInv /\ ~stopped /\ [Next]_vars => [Handler(t)!Next]_(HandlerOf(t))
    <2>1. UNCHANGED vars => UNCHANGED HandlerOf(t)
      BY DEF vars, poolVars, tunnelVars, closeVars, HandlerOf, Fresh, Notified
    <2> QED
      BY <2>1, HandlerNext
  <1> QED
    BY <1>1, <1>2, <1>3, Invariance, OnceInvariance, PTL DEF Spec, Handler!Spec, Handler!Init
-----------------------------------------------------------------------------
(* Dead connections *)

\* A connection enters managerByConn when it is made, when it is open and taken from
\* the idle pool, or when a tunnel registers on it.
LEMMA IndexNew ==
    ASSUME IInv, Next, NEW c \in Conns, c \in index', c \notin index
    PROVE  \/ DialSucceeds(c)
           \/ Open(c) /\ closed' = closed
           \/ \E t \in Tunnels : RegisterStreamHandler(t) /\ conn[t] = c
  <1> USE DEF IInv, TypeOK
  <1>1. CASE CreateStep
    BY <1>1 DEF CreateStep, Reserve, DialFails, DialSucceeds, AddToPool, ReleaseSlot,
       poolVars
  <1>2. CASE TunnelStep
    <2>1. ASSUME NEW t \in Tunnels, TakeIdle(t) PROVE Open(c) /\ closed' = closed
      <3>1. PICK k \in DOMAIN pool : PickAt(k) /\ index' = index \union {pool[k]}
        BY <2>1 DEF TakeIdle
      <3>2. pool[k] = c
        BY <3>1
      <3> QED
        BY <2>1, <3>1, <3>2 DEF PickAt, TakeIdle, Allocate
    <2>2. ASSUME NEW t \in Tunnels, RegisterStreamHandler(t) PROVE conn[t] = c
      BY <2>2 DEF RegisterStreamHandler
    <2> QED
      BY <1>2, <2>1, <2>2 DEF TunnelStep, GetConnectionWithStream, Spin, ShareBusy,
         Refuse, Retry, AcquireTimeout, WriteConnect, Connected, BeginCleanup,
         UnregisterStreamHandler, ReleaseConnection, RetireByTunnel, poolVars
  <1>3. CASE CloseStep
    BY <1>3 DEF CloseStep, WriteFails, ReadFails, RetireByJanitor, Detach, IndexWithout,
       FinishClose, OnClose, Cull, CullClose, CloseItem, Close, Panic, poolVars
  <1> QED
    BY <1>1, <1>2, <1>3 DEF Next

\* GetConnectionWithStream gives no connection that it has found closed.
LEMMA GivenOpen ==
    ASSUME IInv, Next, NEW t \in Tunnels, pc'[t] = "allocated", pc[t] # "allocated"
    PROVE  Open(conn'[t])
  <1> USE DEF IInv, TypeOK
  <1>1. TakeIdle(t) \/ ShareBusy(t)
    BY PcMoves
  <1>2. CASE TakeIdle(t)
    BY <1>2 DEF TakeIdle, PickAt, Allocate
  <1>3. CASE ShareBusy(t)
    BY <1>3 DEF ShareBusy, Shareable, Affine, LeastLoaded, Sharing, Allocate
  <1> QED
    BY <1>1, <1>2, <1>3

\* c is dead and in none of the books, and nobody who was given it is still to
\* register on it.
Forgotten(c) ==
    /\ Reading(c) /\ closed[c]
    /\ c \notin index /\ ~active[c]
    /\ \A t \in Tunnels : pc[t] = "allocated" => conn[t] # c

LEMMA ForgottenStays ==
    ASSUME IInv, [Next]_vars, NEW c \in Conns, Forgotten(c)
    PROVE  Forgotten(c)'
  <1> USE DEF IInv, TypeOK
  <1>1. CASE UNCHANGED vars
    BY <1>1 DEF vars, poolVars, connVars, tunnelVars, Forgotten, Reading
  <1>2. CASE Next
    <2>1. Reading(c)' /\ closed'[c]
      BY <1>2, ReadingStays, ClosedStays DEF Forgotten
    <2>2. c \notin index'
      <3>1. ~DialSucceeds(c)
        BY DEF Forgotten, DialSucceeds, Reading
      <3>2. ~\E t \in Tunnels : RegisterStreamHandler(t) /\ conn[t] = c
        BY DEF Forgotten, RegisterStreamHandler
      <3> QED
        BY <1>2, <3>1, <3>2, IndexNew DEF Forgotten, Open
    <2>3. ASSUME NEW t \in Tunnels, pc'[t] = "allocated" PROVE conn'[t] # c
      <3>1. CASE pc[t] = "allocated"
        BY <1>2, <3>1, ServedStays DEF Forgotten, Asking
      <3>2. CASE pc[t] # "allocated"
        BY <1>2, <2>3, <3>2, GivenOpen DEF Forgotten, Open
      <3> QED
        BY <3>1, <3>2
    <2>4. ~active'[c]
      BY <1>2, <2>3, ActiveNew DEF Forgotten
    <2> QED
      BY <2>1, <2>2, <2>3, <2>4 DEF Forgotten
  <1> QED
    BY <1>1, <1>2

\* A dead connection that has left managerByConn and the active count, with nobody
\* about to register on it, stays out of both: what DeadIsForgotten promises for
\* good, once it has come to that.
THEOREM ForgottenForGood ==
    ASSUME NEW c \in Conns
    PROVE  Spec => [](Forgotten(c) => []Forgotten(c))
  <1>1. IInv /\ Forgotten(c) /\ [Next]_vars => Forgotten(c)'
    BY ForgottenStays
  <1> QED
    BY <1>1, Invariance, PTL DEF Spec

\* a is going to take c out of managerByConn: it is the message loop of c and has not
\* come to its end, it is about to do so, or it is a tunnel that will find that it
\* cannot write CONNECT and retires c.
Remover(a, c) ==
    \/ a = c /\ closer[c].phase = "none"
    \/ closer[a].conn = c /\ closer[a].phase = "detach"
    \/ /\ a \in Tunnels /\ conn[a] = c /\ pc[a] = "registered"
       /\ closer[a].phase = "none" /\ ~Notified(a)

DeadIsAttended ==
    ~stopped => \A c \in index : closed[c] => \E a \in Actors : Remover(a, c)

LEMMA NotifiedNew ==
    ASSUME IInv, OnceInv, Next, ~stopped, NEW t \in Tunnels, Notified(t)', ~Notified(t)
    PROVE  \E a \in Actors : Detach(a) /\ closer[a].conn = conn[t]
  <1>1. PICK a \in Actors : closer'[a].phase = "callbacks" /\ t \in closer'[a].notify
    BY DEF Notified
  <1>2. Detach(a) /\ closer[a].conn \in index /\ t \in handlers[closer[a].conn]
    BY <1>1, NotifyNew DEF Notified
  <1> QED
    BY <1>2 DEF OnceInv, IInv, TypeOK

\* Detach takes c away.
LEMMA DetachRemoves ==
    ASSUME NEW a \in Actors, Detach(a), NEW c, closer[a].conn = c
    PROVE  c \notin index'
  BY DEF Detach, IndexWithout

\* As long as c is in the index, whoever is going to take it out is going to.
LEMMA RemoverStays ==
    ASSUME IInv, UseInv, OnceInv, Next, ~stopped', NEW c \in Conns, c \in index', closed[c],
           NEW a \in Actors, Remover(a, c)
    PROVE  Remover(a, c)'
  <1> USE DEF IInv, TypeOK
  <1>1. ~stopped
    BY StoppedStays
  <1>2. \A b \in Actors : closer[b].conn = c => ~Detach(b)
    BY DetachRemoves
  <1>3. CASE a = c /\ closer[c].phase = "none"
    <2>1. c \in Actors /\ c \notin Tunnels /\ c # Janitor /\ c # Closer
      BY SetsAssumption DEF Actors
    <2>2. closer'[c] = closer[c] \/ ReadFails(c)
      BY <1>3, <2>1, CloserFrame DEF Detach, FinishClose, OnClose
    <2>3. ASSUME ReadFails(c) PROVE closer'[c].conn = c /\ closer'[c].phase = "detach"
      BY <2>1, <2>3 DEF ReadFails, Start, Idle
    <2> QED
      BY <1>3, <2>2, <2>3 DEF Remover
  <1>4. CASE closer[a].conn = c /\ closer[a].phase = "detach"
    <2>1. closer'[a] = closer[a]
      <3>1. \A d \in Conns : ~CloseItem(d)
        BY <1>1 DEF OnceInv, CloseItem
      <3> QED
        BY <1>2, <1>4, <3>1, CloserFrame DEF ReadFails, RetireByTunnel, RetireByJanitor,
           FinishClose, OnClose
    <2> QED
      BY <1>4, <2>1 DEF Remover
  <1>5. CASE /\ a \in Tunnels /\ conn[a] = c /\ pc[a] = "registered"
             /\ closer[a].phase = "none" /\ ~Notified(a)
    <2>1. a \notin Conns /\ a # Janitor /\ a # Closer
      BY <1>5, SetsAssumption
    <2>2. conn'[a] = c
      BY <1>5, ServedStays DEF Asking
    <2>3. ~Notified(a)'
      BY <1>1, <1>2, <1>5, NotifiedNew
    <2>4. pc'[a] = "registered"
      <3>1. ~\E b \in Actors : OnClose(b, a)
        BY <1>5 DEF OnClose, Notified
      <3>2. ~FinishClose(a)
        BY <1>5 DEF FinishClose
      <3> QED
        BY <1>5, <3>1, <3>2, PcFrame DEF TakeIdle, Spin, ShareBusy, Refuse, Retry, Seeks,
           AcquireTimeout, RegisterStreamHandler, WriteConnect, Connected, BeginCleanup,
           UnregisterStreamHandler, ReleaseConnection, Open
    <2>5. closer'[a] = closer[a] \/ RetireByTunnel(a)
      BY <1>5, <2>1, CloserFrame DEF Detach, FinishClose, OnClose
    <2>6. ASSUME RetireByTunnel(a) PROVE closer'[a].conn = c /\ closer'[a].phase = "detach"
      BY <1>5, <2>6 DEF RetireByTunnel, Start, Idle
    <2> QED
      BY <1>5, <2>2, <2>3, <2>4, <2>5, <2>6 DEF Remover
  <1> QED
    BY <1>3, <1>4, <1>5 DEF Remover

LEMMA DeadStep ==
    ASSUME IInv, UseInv, OnceInv, DeadIsAttended, Next
    PROVE  DeadIsAttended'
  <1> USE DEF IInv, TypeOK
  <1> SUFFICES ASSUME ~stopped', NEW c \in index', closed'[c]
               PROVE  \E a \in Actors : Remover(a, c)'
    BY DEF DeadIsAttended
  <1>0. ~stopped /\ c \in Conns /\ c \in Actors
    BY StoppedStays, NextIInv DEF Actors
  <1>1. CASE c \in index /\ closed[c]
    <2>1. PICK a \in Actors : Remover(a, c)
      BY <1>0, <1>1 DEF DeadIsAttended
    <2> QED
      BY <1>0, <1>1, <2>1, RemoverStays
  <1>2. CASE c \in index /\ ~closed[c]
    <2>1. closer[c].phase = "none"
      BY <1>0, <1>2 DEF UseInv, HandlerInv
    <2>2. c \notin Tunnels /\ c # Janitor /\ c # Closer
      BY <1>0, SetsAssumption
    <2>3. closer'[c] = closer[c] \/ ReadFails(c)
      BY <1>0, <2>1, <2>2, CloserFrame DEF Detach, FinishClose, OnClose
    <2>4. ASSUME ReadFails(c) PROVE closer'[c].conn = c /\ closer'[c].phase = "detach"
      BY <1>0, <2>4 DEF ReadFails, Start, Idle
    <2> QED
      BY <1>0, <2>1, <2>3, <2>4 DEF Remover
  <1>3. CASE c \notin index
    <2>1. ~DialSucceeds(c)
      <3>1. DialSucceeds(c) => closed' = closed /\ ~Reading(c)
        BY DEF DialSucceeds, Reading
      <3> QED
        BY <1>0, <3>1 DEF UseInv, SocketInv
    <2>2. PICK t \in Tunnels : RegisterStreamHandler(t) /\ conn[t] = c
      BY <1>0, <1>3, <2>1, IndexNew DEF Open
    <2>3. closer'[t].phase = "none" /\ pc'[t] = "registered" /\ conn'[t] = c
      BY <1>0, <2>2 DEF RegisterStreamHandler, closeVars, OnceInv, Fresh
    <2>4. ~Notified(t)'
      BY <1>0, <2>2 DEF RegisterStreamHandler, closeVars, OnceInv, Fresh, Notified
    <2> QED
      BY <2>2, <2>3, <2>4 DEF Remover, Actors
  <1> QED
    BY <1>1, <1>2, <1>3

\* And it comes to that: until Close, a dead connection that is still in managerByConn,
\* or is there again because a tunnel registered too late, has somebody who is going to
\* take it out.
THEOREM DeadAttended == Spec => []DeadIsAttended
  <1>1. Init => DeadIsAttended
    BY DEF Init, DeadIsAttended
  <1>2. IInv /\ UseInv /\ OnceInv /\ DeadIsAttended /\ [Next]_vars => DeadIsAttended'
    <2>1. DeadIsAttended /\ UNCHANGED vars => DeadIsAttended'
      BY DEF vars, poolVars, connVars, tunnelVars, closeVars, DeadIsAttended, Remover, Notified
    <2> QED
      BY <2>1, DeadStep
  <1> QED
    BY <1>1, <1>2, Invariance, UseInvariance, OnceInvariance, PTL DEF Spec
=============================================================================
