----------------------- MODULE ConnectionPool_proofs -----------------------
(***************************************************************************)
(* Machine-checked facts about ConnectionPool, for all finite sets of      *)
(* connections and tunnels and all limits.                                 *)
(***************************************************************************)
EXTENDS ConnectionPool, FiniteSetTheorems, TLAPS

\* A tunnel that has not been given a connection yet, or never will be.
Asking(t) == pc[t] \in {"seeking", "spinning", "refused"}

\* Both counters are exact, so neither goes below zero.
CountInv ==
    /\ pending = Cardinality(SlotHolders)
    /\ activeConnections = Cardinality({c \in Conns : active[c]})

\* What is indexed, pooled or used has been made, and only tunnels that use a
\* connection are ever called back or retire it.
MadeInv ==
    /\ \A c \in index \union InPool : Reading(c)
    /\ \A t \in Tunnels : ~Asking(t) => conn[t] \in Conns /\ Reading(conn[t])
    /\ \A c \in Conns : \A t \in handlers[c] : ~Asking(t)
    /\ \A a \in Actors : \A t \in closer[a].notify : ~Asking(t)
    /\ \A t \in Tunnels : closer[t].phase # "none" => ~Asking(t)

\* What is being detached is closed; what is open is indexed.
IndexInv ==
    /\ \A a \in Actors : closer[a].phase = "detach" =>
            closer[a].conn \in Conns /\ closed[closer[a].conn]
    /\ ~stopped => \A c \in Conns : Reading(c) /\ Open(c) => c \in index

\* What counts against the limit: calls with a slot, and open connections.
Claimed == SlotHolders \union {c \in Conns : Reading(c) /\ Open(c)}

LimitInv == ~stopped => Cardinality(Claimed) <= MaxPoolSize

\* A tunnel that is still to unregister its stream.
Holding(t) == pc[t] \in {"allocated", "registered", "waiting", "up", "unregister"}

\* Streams are found only through the index, and a tunnel has one until it has
\* unregistered it or has itself detached its connection.
StreamInv ==
    /\ stopped => index = {}
    /\ \A t \in Tunnels : closer[t].phase = "detach" => closer[t].conn = conn[t]
    /\ ~stopped => \A c \in Conns :
            /\ c \notin index => streams[c] = {}
            /\ \A t \in streams[c] :
                  conn[t] = c /\ Holding(t) /\ closer[t].phase \in {"none", "detach"}

\* The inductive invariant.
IInv ==
    /\ TypeOK
    /\ CountInv
    /\ MadeInv
    /\ IndexInv
    /\ LimitInv
    /\ StreamInv

-----------------------------------------------------------------------------
(* Sequences: what stays in p.pool *)

\* The rank of an element in a set of numbers.
Rank(K, i) == Cardinality({j \in K : j <= i})

\* Ranking the elements of a set of numbers numbers them from 1 on, each one
\* differently.
LEMMA RankFacts ==
    ASSUME NEW K \in SUBSET Nat, IsFiniteSet(K)
    PROVE  /\ \A i \in K : Rank(K, i) \in 1 .. Cardinality(K)
           /\ \A i, j \in K : i < j => Rank(K, i) # Rank(K, j)
  <1> DEFINE below(i) == {j \in K : j <= i}
             N == 1 .. Cardinality(K)
  <1>1. \A i \in K : IsFiniteSet(below(i)) /\ Cardinality(below(i)) \in N
    <2> TAKE i \in K
    <2>1. below(i) \in SUBSET K /\ i \in below(i)
      OBVIOUS
    <2>2. /\ IsFiniteSet(below(i)) /\ Cardinality(below(i)) \in Nat
          /\ Cardinality(below(i)) <= Cardinality(K) /\ Cardinality(K) \in Nat
      BY <2>1, FS_Subset, FS_CardinalityType
    <2>3. Cardinality(below(i)) # 0
      BY <2>1, <2>2, FS_EmptySet
    <2> QED
      BY <2>2, <2>3
  <1>2. \A i, j \in K : i < j => Cardinality(below(i)) # Cardinality(below(j))
    <2> SUFFICES ASSUME NEW i \in K, NEW j \in K, i < j
                 PROVE  Cardinality(below(i)) # Cardinality(below(j))
      OBVIOUS
    <2>1. i \in Nat /\ j \in Nat
      OBVIOUS
    <2>2. below(i) \in SUBSET below(j)
      <3>1. \A k \in K : k \in Nat
        OBVIOUS
      <3>2. \A k \in K : k <= i => k <= j
        BY <2>1, <3>1
      <3> QED
        BY <3>2
    <2>3. j \in below(j) /\ j \notin below(i)
      BY <2>1
    <2> QED
      BY <1>1, <2>2, <2>3, FS_Subset
  <1> QED
    BY <1>1, <1>2 DEF Rank

\* So the n-th smallest element exists.
LEMMA NthInSet ==
    ASSUME NEW K \in SUBSET Nat, IsFiniteSet(K), NEW n \in 1 .. Cardinality(K)
    PROVE  Nth(K, n) \in K /\ Rank(K, Nth(K, n)) = n
  <1> DEFINE rank == [i \in K |-> Rank(K, i)]
             N == 1 .. Cardinality(K)
  <1>3. rank \in Injection(K, N)
    <2>1. rank \in [K -> N]
      BY RankFacts
    <2>2. \A i, j \in K : i \in Nat /\ j \in Nat
      OBVIOUS
    <2>3. \A i, j \in K : rank[i] = rank[j] => i = j
      BY <2>2, RankFacts
    <2> QED
      BY <2>1, <2>3 DEF Injection, IsInjective
  <1>4. IsFiniteSet(N) /\ Cardinality(N) = Cardinality(K)
    BY FS_CardinalityType, FS_Interval
  <1>5. rank \in Surjection(K, N)
    BY <1>3, <1>4, FS_Injection
  <1>6. \E i \in K : Rank(K, i) = n
    BY <1>5 DEF Surjection
  <1> QED
    BY <1>6 DEF Nth, Rank

\* KeepAt yields a sequence of elements of s.
LEMMA KeepAtFacts ==
    ASSUME NEW S, NEW s \in Seq(S), NEW K \in SUBSET (DOMAIN s)
    PROVE  KeepAt(s, K) \in Seq(S) /\ Range(KeepAt(s, K)) \subseteq Range(s)
  <1>1. DOMAIN s \in SUBSET Nat /\ IsFiniteSet(DOMAIN s)
    BY FS_Interval
  <1>2. K \in SUBSET Nat /\ IsFiniteSet(K) /\ Cardinality(K) \in Nat
    BY <1>1, FS_Subset, FS_CardinalityType
  <1>3. \A n \in 1 .. Cardinality(K) : Nth(K, n) \in DOMAIN s
    BY <1>2, NthInSet
  <1> QED
    BY <1>2, <1>3 DEF KeepAt, Range

\* A slice of a sequence has elements of the sequence.
LEMMA SliceFacts ==
    ASSUME NEW S, NEW s \in Seq(S), NEW i \in Nat, NEW j \in Nat, 1 <= i, j <= Len(s)
    PROVE  SubSeq(s, i, j) \in Seq(S) /\ Range(SubSeq(s, i, j)) \subseteq Range(s)
  BY DEF Range

\* Joining two sequences.
LEMMA JoinFacts ==
    ASSUME NEW S, NEW s \in Seq(S), NEW u \in Seq(S)
    PROVE  s \o u \in Seq(S) /\ Range(s \o u) \subseteq Range(s) \union Range(u)
  <1>1. s \o u \in Seq(S)
    OBVIOUS
  <1>2. \A k \in DOMAIN (s \o u) : (s \o u)[k] \in Range(s) \union Range(u)
    <2> TAKE k \in DOMAIN (s \o u)
    <2>1. k \in 1 .. Len(s) + Len(u)
      OBVIOUS
    <2>2. CASE k <= Len(s)
      BY <2>1, <2>2 DEF Range
    <2>3. CASE k > Len(s)
      <3>1. (s \o u)[k] = u[k - Len(s)] /\ k - Len(s) \in DOMAIN u
        BY <2>1, <2>3
      <3> QED
        BY <3>1 DEF Range
    <2> QED
      BY <2>1, <2>2, <2>3
  <1> QED
    BY <1>1, <1>2 DEF Range

\* createConnection appends.
LEMMA AppendFacts ==
    ASSUME NEW S, NEW s \in Seq(S), NEW e \in S
    PROVE  Append(s, e) \in Seq(S) /\ Range(Append(s, e)) \subseteq Range(s) \union {e}
  BY DEF Range

\* ReleaseConnection inserts.
LEMMA InsertFacts ==
    ASSUME NEW S, NEW s \in Seq(S), NEW e \in S, NEW i \in 1 .. Len(s) + 1
    PROVE  /\ InsertAt(s, i, e) \in Seq(S)
           /\ Range(InsertAt(s, i, e)) \subseteq Range(s) \union {e}
  <1> DEFINE left == SubSeq(s, 1, i - 1)
             middle == <<e>>
             right == SubSeq(s, i, Len(s))
             both == left \o middle
  <1>1. i \in Nat /\ i - 1 \in Nat /\ Len(s) \in Nat
    OBVIOUS
  <1>2. left \in Seq(S) /\ Range(left) \subseteq Range(s)
    BY <1>1, SliceFacts
  <1>3. right \in Seq(S) /\ Range(right) \subseteq Range(s)
    BY <1>1, SliceFacts
  <1>4. middle \in Seq(S) /\ Range(middle) \subseteq {e}
    BY DEF Range
  <1>5. InsertAt(s, i, e) = both \o right
    BY DEF InsertAt
  <1> HIDE DEF left, middle, right
  <1>6. both \in Seq(S) /\ Range(both) \subseteq Range(left) \union Range(middle)
    BY <1>2, <1>4, JoinFacts
  <1> HIDE DEF both
  <1>7. both \o right \in Seq(S) /\ Range(both \o right) \subseteq Range(both) \union Range(right)
    BY <1>3, <1>6, JoinFacts
  <1> QED
    BY <1>2, <1>3, <1>4, <1>5, <1>6, <1>7

\* handleConnectionClose removes.
LEMMA RemoveFacts ==
    ASSUME NEW S, NEW s \in Seq(S), NEW i \in DOMAIN s
    PROVE  RemoveAt(s, i) \in Seq(S) /\ Range(RemoveAt(s, i)) \subseteq Range(s)
  <1> DEFINE left == SubSeq(s, 1, i - 1)
             right == SubSeq(s, i + 1, Len(s))
  <1>1. i \in Nat /\ i - 1 \in Nat /\ Len(s) \in Nat /\ i <= Len(s) /\ 1 <= i
    OBVIOUS
  <1>2. left \in Seq(S) /\ Range(left) \subseteq Range(s)
    BY <1>1, SliceFacts
  <1>3. right \in Seq(S) /\ Range(right) \subseteq Range(s)
    BY <1>1, SliceFacts
  <1>4. RemoveAt(s, i) = left \o right
    BY DEF RemoveAt
  <1> HIDE DEF left, right
  <1>5. left \o right \in Seq(S) /\ Range(left \o right) \subseteq Range(left) \union Range(right)
    BY <1>2, <1>3, JoinFacts
  <1> QED
    BY <1>2, <1>3, <1>4, <1>5
-----------------------------------------------------------------------------
(* Which actions change what *)

\* The progress of a creation, and the number of slots.
LEMMA CreateFrame ==
    ASSUME Next
    PROVE  \/ UNCHANGED <<create, pending>>
           \/ \E c \in Conns : Reserve(c) \/ DialFails(c) \/ DialSucceeds(c)
                                \/ AddToPool(c) \/ ReleaseSlot(c)
  <1>1. CASE CreateStep
    BY <1>1 DEF CreateStep
  <1>2. CASE TunnelStep
    <2>1. PICK t \in Tunnels :
              \/ GetConnectionWithStream(t) \/ AcquireTimeout(t) \/ RegisterStreamHandler(t)
              \/ WriteConnect(t) \/ Connected(t) \/ BeginCleanup(t)
              \/ UnregisterStreamHandler(t) \/ ReleaseConnection(t) \/ RetireByTunnel(t)
      BY <1>2 DEF TunnelStep
    <2>2. CASE GetConnectionWithStream(t) \/ AcquireTimeout(t)
      BY <2>2 DEF GetConnectionWithStream, TakeIdle, Allocate, Spin, ShareBusy, Refuse,
         Retry, AcquireTimeout, connVars
    <2>3. CASE ~(GetConnectionWithStream(t) \/ AcquireTimeout(t))
      BY <2>1, <2>3 DEF RegisterStreamHandler, WriteConnect, Connected, BeginCleanup,
         UnregisterStreamHandler, ReleaseConnection, RetireByTunnel, connVars
    <2> QED
      BY <2>2, <2>3
  <1>3. CASE CloseStep
    BY <1>3 DEF CloseStep, WriteFails, ReadFails, RetireByJanitor, Detach, FinishClose,
       OnClose, Cull, CullClose, CloseItem, Close, Panic, connVars
  <1> QED
    BY <1>1, <1>2, <1>3 DEF Next

\* The marks of active connections, and their number.
LEMMA ActiveFrame ==
    ASSUME Next
    PROVE  \/ UNCHANGED <<active, activeConnections>>
           \/ \E t \in Tunnels : TakeIdle(t) \/ ReleaseConnection(t)
           \/ \E a \in Actors : Detach(a)
  <1>1. CASE CreateStep
    BY <1>1 DEF CreateStep, Reserve, DialFails, DialSucceeds, AddToPool, ReleaseSlot
  <1>2. CASE TunnelStep
    BY <1>2 DEF TunnelStep, GetConnectionWithStream, Spin, ShareBusy, Refuse, Retry,
       AcquireTimeout, RegisterStreamHandler, WriteConnect, Connected, BeginCleanup,
       UnregisterStreamHandler, RetireByTunnel, connVars
  <1>3. CASE CloseStep
    BY <1>3 DEF CloseStep, WriteFails, ReadFails, RetireByJanitor, FinishClose, OnClose,
       Cull, CullClose, CloseItem, Close, Panic, connVars
  <1> QED
    BY <1>1, <1>2, <1>3 DEF Next

\* A connection that has been closed stays closed.
LEMMA ClosedStays ==
    ASSUME TypeOK, Next, NEW c \in Conns, closed[c]
    PROVE  closed[c]'
  <1> USE DEF TypeOK
  <1>1. CASE CreateStep
    BY <1>1 DEF CreateStep, Reserve, DialFails, DialSucceeds, AddToPool, ReleaseSlot
  <1>2. CASE TunnelStep
    <2>1. CASE \E t \in Tunnels : RetireByTunnel(t)
      BY <2>1 DEF RetireByTunnel
    <2>2. CASE \E t \in Tunnels : GetConnectionWithStream(t) \/ AcquireTimeout(t)
      BY <2>2 DEF GetConnectionWithStream, TakeIdle, Allocate, Spin, ShareBusy, Refuse,
         Retry, AcquireTimeout, connVars
    <2>3. CASE \E t \in Tunnels :
                  \/ RegisterStreamHandler(t) \/ WriteConnect(t) \/ Connected(t)
                  \/ BeginCleanup(t) \/ UnregisterStreamHandler(t) \/ ReleaseConnection(t)
      BY <2>3 DEF RegisterStreamHandler, WriteConnect, Connected, BeginCleanup,
         UnregisterStreamHandler, ReleaseConnection, connVars
    <2> QED
      BY <1>2, <2>1, <2>2, <2>3 DEF TunnelStep
  <1>3. CASE CloseStep
    <2>1. CASE \E d \in Conns : WriteFails(d) \/ ReadFails(d) \/ RetireByJanitor(d)
                               \/ CullClose(d) \/ CloseItem(d)
      BY <2>1 DEF WriteFails, ReadFails, RetireByJanitor, CullClose, CloseItem
    <2>2. CASE \E S \in SUBSET InPool : Cull(S)
      BY <2>2 DEF Cull
    <2>3. CASE \E a \in Actors : \/ Detach(a) \/ FinishClose(a)
                                 \/ \E t \in Tunnels : OnClose(a, t)
      BY <2>3 DEF Detach, FinishClose, OnClose, connVars
    <2>4. CASE Close \/ Panic
      BY <2>4 DEF Close, Panic, connVars
    <2> QED
      BY <1>3, <2>1, <2>2, <2>3, <2>4 DEF CloseStep
  <1> QED
    BY <1>1, <1>2, <1>3 DEF Next

\* A connection that has been made stays made.
LEMMA ReadingStays ==
    ASSUME TypeOK, Next, NEW c \in Conns, Reading(c)
    PROVE  Reading(c)'
  BY CreateFrame DEF TypeOK, Reading, Reserve, DialFails, DialSucceeds, AddToPool, ReleaseSlot

-----------------------------------------------------------------------------
\* A counter of the elements of a set is positive when there is one.
LEMMA SlotTaken ==
    ASSUME NEW S \in SUBSET Conns, NEW c \in S
    PROVE  Cardinality(S) \in Nat \ {0}
  BY FS_Subset, FS_CardinalityType, FS_EmptySet, SetsAssumption

\* MarkIdle never takes the number of active connections below zero.
LEMMA IdleCount ==
    ASSUME TypeOK, CountInv, NEW c \in Conns, MarkIdle(c)
    PROVE  active' \in [Conns -> BOOLEAN] /\ activeConnections' \in Nat
  <1> USE DEF TypeOK
  <1>1. active' \in [Conns -> BOOLEAN]
    BY DEF MarkIdle
  <1>2. CASE active[c]
    <2>1. activeConnections \in Nat \ {0}
      BY <1>2, SlotTaken DEF CountInv
    <2> QED
      BY <1>1, <1>2, <2>1 DEF MarkIdle
  <1>3. CASE ~active[c]
    BY <1>1, <1>3 DEF MarkIdle
  <1> QED
    BY <1>2, <1>3

\* The pool that step 1 of GetConnectionWithStream leaves behind.
LEMMA TakenPool ==
    ASSUME pool \in Seq(Conns), NEW k \in DOMAIN pool,
           pool' = KeepAt(pool, {j \in DOMAIN pool : j > k /\ Open(pool[j])})
                       \o SubSeq(pool, 1, k - 1)
    PROVE  pool' \in Seq(Conns) /\ Range(pool') \subseteq Range(pool)
  <1> DEFINE K == {j \in DOMAIN pool : j > k /\ Open(pool[j])}
             left == KeepAt(pool, K)
             right == SubSeq(pool, 1, k - 1)
  <1>1. left \in Seq(Conns) /\ Range(left) \subseteq Range(pool)
    BY KeepAtFacts
  <1>2. 1 \in Nat /\ k - 1 \in Nat /\ 1 <= 1 /\ k - 1 <= Len(pool)
    OBVIOUS
  <1>3. right \in Seq(Conns) /\ Range(right) \subseteq Range(pool)
    BY <1>2, SliceFacts
  <1>4. pool' = left \o right
    OBVIOUS
  <1> HIDE DEF left, right, K
  <1>5. left \o right \in Seq(Conns) /\ Range(left \o right) \subseteq Range(left) \union Range(right)
    BY <1>1, <1>3, JoinFacts
  <1> QED
    BY <1>1, <1>3, <1>4, <1>5

-----------------------------------------------------------------------------
(* Types *)

\* Creators preserve the types.
LEMMA TypeCreate ==
    ASSUME IInv, CreateStep
    PROVE  TypeOK'
  <1> USE DEF IInv, TypeOK, poolVars, connVars, tunnelVars, closeVars
  <1> SUFFICES ASSUME NEW c \in Conns,
                      Reserve(c) \/ DialFails(c) \/ DialSucceeds(c) \/ AddToPool(c) \/ ReleaseSlot(c)
               PROVE  TypeOK'
    BY DEF CreateStep
  <1>1. CASE Reserve(c)
    BY <1>1 DEF Reserve
  <1>2. CASE DialFails(c)
    <2>1. c \in SlotHolders
      BY <1>2 DEF DialFails, SlotHolders
    <2>2. pending \in Nat \ {0}
      BY <2>1, SlotTaken DEF CountInv, SlotHolders
    <2> QED
      BY <1>2, <2>2 DEF DialFails
  <1>3. CASE DialSucceeds(c)
    BY <1>3 DEF DialSucceeds
  <1>4. CASE AddToPool(c)
    <2>1. pool' \in Seq(Conns)
      BY <1>4, AppendFacts DEF AddToPool
    <2> QED
      BY <1>4, <2>1 DEF AddToPool
  <1>5. CASE ReleaseSlot(c)
    <2>1. c \in SlotHolders
      BY <1>5 DEF ReleaseSlot, SlotHolders
    <2>2. pending \in Nat \ {0}
      BY <2>1, SlotTaken DEF CountInv, SlotHolders
    <2> QED
      BY <1>5, <2>2 DEF ReleaseSlot
  <1> QED
    BY <1>1, <1>2, <1>3, <1>4, <1>5

\* Tunnels preserve the types.
LEMMA TypeTunnel ==
    ASSUME IInv, TunnelStep
    PROVE  TypeOK'
  <1> USE DEF IInv, TypeOK, poolVars, connVars, tunnelVars, closeVars
  <1> PICK t \in Tunnels :
          \/ GetConnectionWithStream(t) \/ AcquireTimeout(t) \/ RegisterStreamHandler(t)
          \/ WriteConnect(t) \/ Connected(t) \/ BeginCleanup(t)
          \/ UnregisterStreamHandler(t) \/ ReleaseConnection(t) \/ RetireByTunnel(t)
    BY DEF TunnelStep
  <1>1. CASE TakeIdle(t)
    <2>1. PICK k \in DOMAIN pool :
              /\ PickAt(k)
              /\ pool' = KeepAt(pool, {j \in DOMAIN pool : j > k /\ Open(pool[j])})
                            \o SubSeq(pool, 1, k - 1)
              /\ index' = index \union {pool[k]}
              /\ MarkActive(pool[k])
              /\ Allocate(t, pool[k])
      BY <1>1 DEF TakeIdle
    <2>2. pool' \in Seq(Conns)
      BY <2>1, TakenPool
    <2>3. pool[k] \in Conns
      OBVIOUS
    <2>4. active' \in [Conns -> BOOLEAN] /\ activeConnections' \in Nat
      BY <2>1, <2>3 DEF MarkActive
    <2>5. /\ streams' \in [Conns -> SUBSET Tunnels]
          /\ conn' \in [Tunnels -> Conns \union {NoConn}]
          /\ index' \subseteq Conns
      BY <2>1, <2>3 DEF Allocate
    <2>6. /\ pc' \in [Tunnels -> {"seeking", "spinning", "refused", "allocated", "registered",
                           "waiting", "up", "returned", "unregister", "release", "done"}]
          /\ mu' = NoTunnel
          /\ UNCHANGED <<handlers, affinity, create, pending, closed, socket, closeVars>>
      BY <2>1 DEF Allocate
    <2> QED
      BY <2>2, <2>3, <2>4, <2>5, <2>6
  <1>2. CASE Spin(t)
    BY <1>2 DEF Spin
  <1>3. CASE ShareBusy(t)
    <2>1. Shareable(t) \subseteq Conns
      BY DEF Shareable, Affine, LeastLoaded, Sharing
    <2> QED
      BY <1>3, <2>1 DEF ShareBusy, Allocate
  <1>4. CASE Refuse(t) \/ Retry(t) \/ AcquireTimeout(t)
    <2>1. CASE AcquireTimeout(t)
      BY <2>1 DEF AcquireTimeout
    <2>2. CASE Refuse(t) \/ Retry(t)
      <3>1. pool' \in Seq(Conns)
        BY <2>2, <<>> \in Seq(Conns) DEF Refuse, Retry
      <3> QED
        BY <2>2, <3>1 DEF Refuse, Retry
    <2> QED
      BY <1>4, <2>1, <2>2
  <1>5. CASE RegisterStreamHandler(t)
    <2>1. conn[t] \in Conns
      BY <1>5 DEF RegisterStreamHandler, MadeInv, Asking
    <2> QED
      BY <1>5, <2>1, TargetAssumption DEF RegisterStreamHandler
  <1>6. CASE WriteConnect(t) \/ Connected(t) \/ BeginCleanup(t)
    BY <1>6 DEF WriteConnect, Connected, BeginCleanup
  <1>7. CASE UnregisterStreamHandler(t)
    <2>1. /\ streams' \in [Conns -> SUBSET Tunnels] /\ handlers' \in [Conns -> SUBSET Tunnels]
          /\ affinity' \in [Targets -> Conns \union {NoConn}]
      <3>1. CASE UNCHANGED <<streams, handlers, affinity>>
        BY <3>1
      <3>2. CASE /\ streams' = StreamsWithout(t)
                 /\ handlers' = [handlers EXCEPT ![conn[t]] = @ \ {t}]
                 /\ affinity' = IF streams[conn[t]] = {t}
                                THEN [affinity EXCEPT ![TargetOf[t]] = NoConn] ELSE affinity
        BY <3>2, TargetAssumption DEF StreamsWithout
      <3> QED
        BY <1>7, <3>1, <3>2 DEF UnregisterStreamHandler
    <2> QED
      BY <1>7, <2>1 DEF UnregisterStreamHandler
  <1>8. CASE ReleaseConnection(t)
    <2>1. conn[t] \in Conns
      BY <1>8 DEF ReleaseConnection, MadeInv, Asking
    <2>2. pool' \in Seq(Conns)
      BY <1>8, <2>1, InsertFacts DEF ReleaseConnection
    <2>3. active' \in [Conns -> BOOLEAN] /\ activeConnections' \in Nat
      BY <1>8, <2>1, IdleCount DEF ReleaseConnection
    <2> QED
      BY <1>8, <2>2, <2>3 DEF ReleaseConnection
  <1>9. CASE RetireByTunnel(t)
    <2>1. conn[t] \in Conns /\ t \in Actors
      BY <1>9 DEF RetireByTunnel, MadeInv, Asking, Actors
    <2>2. closer' \in [Actors -> CloserRecord]
      BY <1>9, <2>1 DEF RetireByTunnel, Start, Idle, CloserRecord
    <2> QED
      BY <1>9, <2>1, <2>2 DEF RetireByTunnel
  <1> QED
    BY <1>1, <1>2, <1>3, <1>4, <1>5, <1>6, <1>7, <1>8, <1>9 DEF GetConnectionWithStream

\* handleConnectionClose, the culler and Close preserve the types.
LEMMA TypeClose ==
    ASSUME IInv, CloseStep
    PROVE  TypeOK'
  <1> USE DEF IInv, TypeOK, poolVars, connVars, tunnelVars, closeVars
  <1>1. CASE \E c \in Conns : WriteFails(c)
    BY <1>1 DEF WriteFails
  <1>2. CASE \E c \in Conns : ReadFails(c) \/ RetireByJanitor(c)
    <2>1. PICK c \in Conns : ReadFails(c) \/ RetireByJanitor(c)
      BY <1>2
    <2>2. PICK a \in Actors : Start(a, c)
      BY <2>1 DEF ReadFails, RetireByJanitor, Actors
    <2>3. closer' \in [Actors -> CloserRecord]
      BY <2>2 DEF Start, Idle, CloserRecord
    <2> QED
      BY <2>1, <2>3 DEF ReadFails, RetireByJanitor
  <1>3. CASE \E a \in Actors : Detach(a)
    <2>1. PICK a \in Actors : Detach(a)
      BY <1>3
    <2> DEFINE c == closer[a].conn
    <2>2. c \in Conns
      BY <2>1 DEF Detach, IndexInv
    <2>3. pool' \in Seq(Conns)
      BY <2>1, RemoveFacts DEF Detach
    <2>4. active' \in [Conns -> BOOLEAN] /\ activeConnections' \in Nat
      BY <2>1, <2>2, IdleCount DEF Detach
    <2>5. closer' \in [Actors -> CloserRecord]
      <3>1. PICK N \in SUBSET Tunnels :
               closer' = [closer EXCEPT ![a] = [@ EXCEPT !.phase = "callbacks", !.notify = N]]
        BY <2>1, <2>2 DEF Detach, ToNotify
      <3>2. closer[a] \in CloserRecord
        OBVIOUS
      <3>3. [closer[a] EXCEPT !.phase = "callbacks", !.notify = N] \in CloserRecord
        BY <3>2 DEF CloserRecord
      <3> QED
        BY <3>1, <3>3
    <2>6. /\ streams' \in [Conns -> SUBSET Tunnels] /\ handlers' \in [Conns -> SUBSET Tunnels]
          /\ affinity' \in [Targets -> Conns \union {NoConn}] /\ index' \subseteq Conns
      BY <2>1, <2>2 DEF Detach, IndexWithout
    <2> QED
      BY <2>1, <2>3, <2>4, <2>5, <2>6 DEF Detach
  <1>4. CASE \E a \in Actors : FinishClose(a)
    <2>1. PICK a \in Actors : FinishClose(a)
      BY <1>4
    <2>2. closer' \in [Actors -> CloserRecord]
      BY <2>1 DEF FinishClose, Idle, CloserRecord
    <2>3. pc' \in [Tunnels -> {"seeking", "spinning", "refused", "allocated", "registered",
                           "waiting", "up", "returned", "unregister", "release", "done"}]
      BY <2>1 DEF FinishClose, AfterRetire
    <2> QED
      BY <2>1, <2>2, <2>3 DEF FinishClose
  <1>5. CASE \E a \in Actors, t \in Tunnels : OnClose(a, t)
    <2>1. PICK a \in Actors, t \in Tunnels : OnClose(a, t)
      BY <1>5
    <2>2. closer' \in [Actors -> CloserRecord]
      <3> DEFINE N == closer[a].notify \ {t}
                 u == IF CleanupStarted(t) THEN NoTunnel ELSE t
      <3>1. /\ closer' = [closer EXCEPT ![a] = [@ EXCEPT !.notify = N, !.calling = u]]
            /\ N \in SUBSET Tunnels /\ u \in Tunnels \union {NoTunnel}
        <4>1. closer[a].notify \in SUBSET Tunnels
          BY DEF CloserRecord
        <4>2. N \in SUBSET Tunnels /\ u \in Tunnels \union {NoTunnel}
          BY <4>1
        <4>3. closer' = [closer EXCEPT ![a] = [@ EXCEPT !.notify = N, !.calling = u]]
          BY <2>1 DEF OnClose
        <4> QED
          BY <4>2, <4>3
      <3> HIDE DEF N, u
      <3>2. closer[a] \in CloserRecord
        OBVIOUS
      <3>3. [closer[a] EXCEPT !.notify = N, !.calling = u] \in CloserRecord
        BY <3>1, <3>2 DEF CloserRecord
      <3> QED
        BY <3>1, <3>3
    <2> QED
      BY <2>1, <2>2 DEF OnClose
  <1>6. CASE \E S \in SUBSET InPool : Cull(S)
    <2>1. PICK S \in SUBSET InPool : Cull(S)
      BY <1>6
    <2>2. S \subseteq Conns
      BY <2>1 DEF InPool, Range
    <2>3. pool' \in Seq(Conns)
      BY <2>1, KeepAtFacts DEF Cull
    <2> QED
      BY <2>1, <2>2, <2>3 DEF Cull
  <1>7. CASE \E c \in Conns : CullClose(c)
    BY <1>7 DEF CullClose
  <1>8. CASE \E c \in Conns : CloseItem(c)
    <2>1. PICK c \in Conns : CloseItem(c)
      BY <1>8
    <2> DEFINE called == IF todo[c] = "managed" THEN handlers[c] ELSE {}
    <2>2. [phase |-> "callbacks", conn |-> c, calling |-> NoTunnel, notify |-> called]
              \in CloserRecord
      BY DEF CloserRecord
    <2>3. closer' \in [Actors -> CloserRecord]
      BY <2>1, <2>2 DEF CloseItem
    <2> QED
      BY <2>1, <2>3 DEF CloseItem
  <1>9. CASE Close \/ Panic
    <2>1. <<>> \in Seq(Conns) /\ [c \in Conns |-> CloseKind(c)] \in [Conns -> {"no", "idle", "managed"}]
      BY DEF CloseKind
    <2>2. CASE Close
      BY <2>1, <2>2 DEF Close
    <2>3. CASE Panic
      BY <2>3 DEF Panic
    <2> QED
      BY <1>9, <2>2, <2>3
  <1> QED
    BY <1>1, <1>2, <1>3, <1>4, <1>5, <1>6, <1>7, <1>8, <1>9 DEF CloseStep

\* Every step preserves the types.
LEMMA TypeStep ==
    ASSUME IInv, Next
    PROVE  TypeOK'
  BY TypeCreate, TypeTunnel, TypeClose DEF Next

-----------------------------------------------------------------------------
(* Counters *)

\* Each creation takes a slot once and gives it back once.
LEMMA PendingStep ==
    ASSUME IInv, Next
    PROVE  pending' = Cardinality(SlotHolders')
  <1> USE DEF IInv, TypeOK
  <1>1. IsFiniteSet(SlotHolders) /\ pending = Cardinality(SlotHolders)
    <2>1. SlotHolders \in SUBSET Conns
      BY DEF SlotHolders
    <2> QED
      BY <2>1, FS_Subset, SetsAssumption DEF CountInv
  <1>2. CASE UNCHANGED <<create, pending>>
    BY <1>1, <1>2 DEF SlotHolders
  <1>3. ASSUME NEW c \in Conns, Reserve(c) PROVE pending' = Cardinality(SlotHolders')
    <2>1. SlotHolders' = SlotHolders \union {c} /\ c \notin SlotHolders /\ pending' = pending + 1
      BY <1>3 DEF Reserve, SlotHolders
    <2> QED
      BY <1>1, <2>1, FS_AddElement
  <1>4. ASSUME NEW c \in Conns, DialFails(c) \/ ReleaseSlot(c)
        PROVE  pending' = Cardinality(SlotHolders')
    <2>1. SlotHolders' = SlotHolders \ {c} /\ c \in SlotHolders /\ pending' = pending - 1
      BY <1>4 DEF DialFails, ReleaseSlot, SlotHolders
    <2> QED
      BY <1>1, <2>1, FS_RemoveElement
  <1>5. ASSUME NEW c \in Conns, DialSucceeds(c) \/ AddToPool(c)
        PROVE  pending' = Cardinality(SlotHolders')
    <2>1. SlotHolders' = SlotHolders /\ pending' = pending
      BY <1>5 DEF DialSucceeds, AddToPool, SlotHolders
    <2> QED
      BY <1>1, <2>1
  <1> QED
    BY <1>2, <1>3, <1>4, <1>5, CreateFrame

\* markActive and markIdle count a change of the mark, and nothing else.
LEMMA MarkCount ==
    ASSUME IInv, NEW c \in Conns, MarkActive(c) \/ MarkIdle(c)
    PROVE  activeConnections' = Cardinality({d \in Conns : active'[d]})
  <1> USE DEF IInv, TypeOK
  <1> DEFINE A == {d \in Conns : active[d]}
             B == {d \in Conns : active'[d]}
  <1>1. IsFiniteSet(A) /\ activeConnections = Cardinality(A)
    BY FS_Subset, SetsAssumption DEF CountInv
  <1>2. CASE MarkActive(c)
    <2>1. B = A \union {c}
      BY <1>2 DEF MarkActive
    <2>2. activeConnections' = IF c \in A THEN activeConnections ELSE activeConnections + 1
      BY <1>2 DEF MarkActive
    <2> HIDE DEF A, B
    <2>3. Cardinality(B) = IF c \in A THEN Cardinality(A) ELSE Cardinality(A) + 1
      BY <1>1, <2>1, FS_AddElement
    <2> QED
      BY <1>1, <2>2, <2>3 DEF B
  <1>3. CASE MarkIdle(c)
    <2>1. B = A \ {c}
      BY <1>3 DEF MarkIdle
    <2>2. activeConnections' = IF c \in A THEN activeConnections - 1 ELSE activeConnections
      BY <1>3 DEF MarkIdle
    <2> HIDE DEF A, B
    <2>3. Cardinality(B) = IF c \in A THEN Cardinality(A) - 1 ELSE Cardinality(A)
      BY <1>1, <2>1, FS_RemoveElement
    <2> QED
      BY <1>1, <2>2, <2>3 DEF B
  <1> QED
    BY <1>2, <1>3

\* Both counters stay exact.
LEMMA CountStep ==
    ASSUME IInv, Next
    PROVE  CountInv'
  <1> USE DEF IInv, TypeOK
  <1>1. activeConnections' = Cardinality({d \in Conns : active'[d]})
    <2>1. CASE UNCHANGED <<active, activeConnections>>
      BY <2>1 DEF CountInv
    <2>2. ASSUME NEW t \in Tunnels, TakeIdle(t)
          PROVE  \E c \in Conns : MarkActive(c)
      BY <2>2 DEF TakeIdle
    <2>3. ASSUME NEW t \in Tunnels, ReleaseConnection(t)
          PROVE  UNCHANGED <<active, activeConnections>> \/ \E c \in Conns : MarkIdle(c)
      BY <2>3 DEF ReleaseConnection, MadeInv, Asking
    <2>4. ASSUME NEW a \in Actors, Detach(a)
          PROVE  \E c \in Conns : MarkIdle(c)
      BY <2>4 DEF Detach, IndexInv
    <2> QED
      BY <2>1, <2>2, <2>3, <2>4, ActiveFrame, MarkCount
  <1> QED
    BY <1>1, PendingStep DEF CountInv

-----------------------------------------------------------------------------
(* Tunnels and their connections *)

\* Once a tunnel has a connection it keeps it.
LEMMA ServedStays ==
    ASSUME IInv, Next, NEW t \in Tunnels, ~Asking(t)
    PROVE  ~Asking(t)' /\ conn'[t] = conn[t]
  <1> USE DEF IInv, TypeOK, Asking
  <1>1. CASE CreateStep
    BY <1>1 DEF CreateStep, Reserve, DialFails, DialSucceeds, AddToPool, ReleaseSlot,
       tunnelVars
  <1>2. CASE TunnelStep
    <2>1. CASE \E u \in Tunnels : GetConnectionWithStream(u) \/ AcquireTimeout(u)
      <3>1. PICK u \in Tunnels : GetConnectionWithStream(u) \/ AcquireTimeout(u)
        BY <2>1
      <3>2. u # t
        BY <3>1 DEF GetConnectionWithStream, TakeIdle, Spin, ShareBusy, Refuse, Retry,
           AcquireTimeout, Seeks
      <3>3. CASE TakeIdle(u) \/ ShareBusy(u)
        <4>1. PICK c : Allocate(u, c)
          BY <3>3 DEF TakeIdle, ShareBusy
        <4> QED
          BY <3>2, <4>1 DEF Allocate
      <3>4. CASE Spin(u) \/ Refuse(u) \/ Retry(u) \/ AcquireTimeout(u)
        BY <3>2, <3>4 DEF Spin, Refuse, Retry, AcquireTimeout
      <3> QED
        BY <3>1, <3>3, <3>4 DEF GetConnectionWithStream
    <2>2. CASE \E u \in Tunnels :
                  \/ RegisterStreamHandler(u) \/ WriteConnect(u) \/ Connected(u)
                  \/ BeginCleanup(u) \/ UnregisterStreamHandler(u) \/ ReleaseConnection(u)
                  \/ RetireByTunnel(u)
      BY <2>2 DEF RegisterStreamHandler, WriteConnect, Connected, BeginCleanup,
         UnregisterStreamHandler, ReleaseConnection, RetireByTunnel, tunnelVars
    <2> QED
      BY <1>2, <2>1, <2>2 DEF TunnelStep
  <1>3. CASE CloseStep
    <2>1. CASE \E a \in Actors : FinishClose(a)
      BY <2>1 DEF FinishClose, AfterRetire
    <2>2. CASE \E a \in Actors, u \in Tunnels : OnClose(a, u)
      BY <2>2 DEF OnClose
    <2> QED
      BY <1>3, <2>1, <2>2 DEF CloseStep, WriteFails, ReadFails, RetireByJanitor, Detach,
         Cull, CullClose, CloseItem, Close, Panic, tunnelVars
  <1> QED
    BY <1>1, <1>2, <1>3 DEF Next

\* A tunnel gets its connection from the pool or from managerByConn.
LEMMA ServedNew ==
    ASSUME IInv, Next, NEW t \in Tunnels, Asking(t), ~Asking(t)'
    PROVE  conn'[t] \in index \union InPool
  <1> USE DEF IInv, TypeOK, Asking
  <1>1. CASE CreateStep
    BY <1>1 DEF CreateStep, Reserve, DialFails, DialSucceeds, AddToPool, ReleaseSlot,
       tunnelVars
  <1>2. CASE TunnelStep
    <2>1. ASSUME NEW u \in Tunnels, TakeIdle(u)
          PROVE  conn'[t] \in index \union InPool
      BY <2>1 DEF TakeIdle, Allocate, InPool, Range
    <2>2. ASSUME NEW u \in Tunnels, ShareBusy(u)
          PROVE  conn'[t] \in index \union InPool
      BY <2>2 DEF ShareBusy, Allocate, Shareable, Affine, LeastLoaded, Sharing
    <2>3. CASE \E u \in Tunnels :
                  \/ Spin(u) \/ Refuse(u) \/ Retry(u) \/ AcquireTimeout(u)
                  \/ RegisterStreamHandler(u) \/ WriteConnect(u) \/ Connected(u)
                  \/ BeginCleanup(u) \/ UnregisterStreamHandler(u) \/ ReleaseConnection(u)
                  \/ RetireByTunnel(u)
      BY <2>3 DEF Spin, Refuse, Retry, AcquireTimeout, RegisterStreamHandler, WriteConnect,
         Connected, BeginCleanup, UnregisterStreamHandler, ReleaseConnection,
         RetireByTunnel, tunnelVars
    <2> QED
      BY <1>2, <2>1, <2>2, <2>3 DEF TunnelStep, GetConnectionWithStream
  <1>3. CASE CloseStep
    <2>1. CASE \E a \in Actors : FinishClose(a)
      BY <2>1 DEF FinishClose, MadeInv
    <2>2. CASE \E a \in Actors, u \in Tunnels : OnClose(a, u)
      BY <2>2 DEF OnClose, MadeInv
    <2> QED
      BY <1>3, <2>1, <2>2 DEF CloseStep, WriteFails, ReadFails, RetireByJanitor, Detach,
         Cull, CullClose, CloseItem, Close, Panic, tunnelVars
  <1> QED
    BY <1>1, <1>2, <1>3 DEF Next

\* What enters managerByConn or the pool has been made.
LEMMA PlacedStep ==
    ASSUME IInv, Next
    PROVE  \A c \in index' \union InPool' : Reading(c)'
  <1> USE DEF IInv, TypeOK
  <1>1. index \union InPool \subseteq Conns
    BY DEF InPool, Range
  <1>2. \A c \in index \union InPool : Reading(c)'
    BY <1>1, ReadingStays DEF MadeInv
  <1>3. CASE CreateStep
    <2> PICK c \in Conns :
            Reserve(c) \/ DialFails(c) \/ DialSucceeds(c) \/ AddToPool(c) \/ ReleaseSlot(c)
      BY <1>3 DEF CreateStep
    <2>1. CASE DialSucceeds(c)
      <3>1. index' = index \union {c} /\ pool' = pool /\ Reading(c)'
        BY <2>1 DEF DialSucceeds, Reading
      <3> QED
        BY <1>2, <3>1 DEF InPool
    <2>2. CASE AddToPool(c)
      <3>1. index' = index /\ pool' = Append(pool, c) /\ Reading(c)'
        BY <2>2 DEF AddToPool, Reading
      <3>2. InPool' \subseteq InPool \union {c}
        BY <3>1, AppendFacts DEF InPool
      <3> QED
        BY <1>2, <3>1, <3>2
    <2>3. CASE Reserve(c) \/ DialFails(c) \/ ReleaseSlot(c)
      BY <1>2, <2>3 DEF Reserve, DialFails, ReleaseSlot, poolVars, InPool
    <2> QED
      BY <2>1, <2>2, <2>3
  <1>4. CASE TunnelStep
    <2> PICK t \in Tunnels :
            \/ GetConnectionWithStream(t) \/ AcquireTimeout(t) \/ RegisterStreamHandler(t)
            \/ WriteConnect(t) \/ Connected(t) \/ BeginCleanup(t)
            \/ UnregisterStreamHandler(t) \/ ReleaseConnection(t) \/ RetireByTunnel(t)
      BY <1>4 DEF TunnelStep
    <2>1. CASE TakeIdle(t)
      <3>1. PICK k \in DOMAIN pool :
                /\ pool' = KeepAt(pool, {j \in DOMAIN pool : j > k /\ Open(pool[j])})
                              \o SubSeq(pool, 1, k - 1)
                /\ index' = index \union {pool[k]}
        BY <2>1 DEF TakeIdle
      <3>2. InPool' \subseteq InPool
        BY <3>1, TakenPool DEF InPool
      <3>3. pool[k] \in InPool
        BY DEF InPool, Range
      <3> QED
        BY <1>2, <3>1, <3>2, <3>3
    <2>2. CASE ShareBusy(t) \/ Refuse(t) \/ Retry(t)
      <3>1. index' = index /\ pool' = <<>>
        BY <2>2 DEF ShareBusy, Refuse, Retry
      <3>2. InPool' = {}
        BY <3>1 DEF InPool, Range
      <3> QED
        BY <1>2, <3>1, <3>2
    <2>3. CASE RegisterStreamHandler(t)
      <3>1. index' = index \union {conn[t]} /\ pool' = pool
        BY <2>3 DEF RegisterStreamHandler
      <3>2. conn[t] \in Conns /\ Reading(conn[t])
        BY <2>3 DEF RegisterStreamHandler, MadeInv, Asking
      <3> QED
        BY <1>2, <3>1, <3>2, ReadingStays DEF InPool
    <2>4. CASE ReleaseConnection(t)
      <3>1. conn[t] \in Conns /\ Reading(conn[t]) /\ index' = index
        BY <2>4 DEF ReleaseConnection, MadeInv, Asking
      <3>2. pool' = pool \/ \E i \in 1 .. Len(pool) + 1 : pool' = InsertAt(pool, i, conn[t])
        BY <2>4 DEF ReleaseConnection
      <3>3. InPool' \subseteq InPool \union {conn[t]}
        BY <3>1, <3>2, InsertFacts DEF InPool
      <3> QED
        BY <1>2, <3>1, <3>3, ReadingStays
    <2>5. CASE \/ Spin(t) \/ AcquireTimeout(t) \/ WriteConnect(t) \/ Connected(t)
               \/ BeginCleanup(t) \/ UnregisterStreamHandler(t) \/ RetireByTunnel(t)
      BY <1>2, <2>5 DEF Spin, AcquireTimeout, WriteConnect, Connected, BeginCleanup,
         UnregisterStreamHandler, RetireByTunnel, poolVars, InPool
    <2> QED
      BY <2>1, <2>2, <2>3, <2>4, <2>5 DEF GetConnectionWithStream
  <1>5. CASE CloseStep
    <2>1. ASSUME NEW a \in Actors, Detach(a)
          PROVE  index' \union InPool' \subseteq index \union InPool
      <3>1. index' \subseteq index
        BY <2>1 DEF Detach, IndexWithout
      <3>2. pool' = pool \/ \E i \in DOMAIN pool : pool' = RemoveAt(pool, i)
        BY <2>1 DEF Detach
      <3>3. InPool' \subseteq InPool
        BY <3>2, RemoveFacts DEF InPool
      <3> QED
        BY <3>1, <3>3
    <2>2. ASSUME NEW S \in SUBSET InPool, Cull(S)
          PROVE  index' \union InPool' \subseteq index \union InPool
      <3>1. index' = index /\ pool' = KeepAt(pool, {i \in DOMAIN pool : pool[i] \notin S})
        BY <2>2 DEF Cull
      <3>2. InPool' \subseteq InPool
        BY <3>1, KeepAtFacts DEF InPool
      <3> QED
        BY <3>1, <3>2
    <2>3. ASSUME Close PROVE index' \union InPool' \subseteq index \union InPool
      BY <2>3 DEF Close, InPool, Range
    <2>4. CASE UNCHANGED <<index, pool>>
      BY <1>2, <2>4 DEF InPool
    <2> QED
      BY <1>2, <1>5, <2>1, <2>2, <2>3, <2>4 DEF CloseStep, WriteFails, ReadFails,
         RetireByJanitor, FinishClose, OnClose, CullClose, CloseItem, Panic, poolVars
  <1> QED
    BY <1>3, <1>4, <1>5 DEF Next

\* Handlers are registered by tunnels that have a connection, and only such
\* tunnels are notified.
LEMMA HandlersStep ==
    ASSUME IInv, Next
    PROVE  /\ \A c \in Conns : \A t \in handlers'[c] : ~Asking(t)'
           /\ \A a \in Actors : \A t \in closer'[a].notify : ~Asking(t)'
  <1> USE DEF IInv, TypeOK
  <1>1. /\ \A c \in Conns : handlers[c] \subseteq Tunnels
        /\ \A a \in Actors : closer[a].notify \subseteq Tunnels
    BY DEF CloserRecord
  <1>2. /\ \A c \in Conns : \A t \in handlers[c] : ~Asking(t)'
        /\ \A a \in Actors : \A t \in closer[a].notify : ~Asking(t)'
    BY <1>1, ServedStays DEF MadeInv
  <1>3. CASE UNCHANGED <<handlers, closer>>
    BY <1>2, <1>3
  <1>4. CASE TunnelStep
    <2>1. ASSUME NEW t \in Tunnels, RegisterStreamHandler(t)
          PROVE  /\ \A c \in Conns : handlers'[c] \subseteq handlers[c] \union {t}
                 /\ ~Asking(t)' /\ closer' = closer
      BY <2>1 DEF RegisterStreamHandler, Asking, closeVars
    <2>2. ASSUME NEW t \in Tunnels, UnregisterStreamHandler(t)
          PROVE  /\ \A c \in Conns : handlers'[c] \subseteq handlers[c]
                 /\ closer' = closer
      BY <2>2 DEF UnregisterStreamHandler, closeVars
    <2>3. ASSUME NEW t \in Tunnels, RetireByTunnel(t)
          PROVE  /\ handlers' = handlers
                 /\ \A a \in Actors : closer'[a].notify \subseteq closer[a].notify
      BY <2>3 DEF RetireByTunnel, Start, Idle, poolVars
    <2>4. CASE \E t \in Tunnels : RegisterStreamHandler(t)
      BY <1>2, <2>1, <2>4
    <2>5. CASE \E t \in Tunnels : UnregisterStreamHandler(t)
      BY <1>2, <2>2, <2>5
    <2>6. CASE \E t \in Tunnels : RetireByTunnel(t)
      BY <1>2, <2>3, <2>6
    <2> QED
      BY <1>3, <1>4, <2>4, <2>5, <2>6 DEF TunnelStep, GetConnectionWithStream, TakeIdle,
         Allocate, Spin, ShareBusy, Refuse, Retry, AcquireTimeout, WriteConnect, Connected,
         BeginCleanup, ReleaseConnection, poolVars, closeVars
  <1>5. CASE CreateStep
    BY <1>3, <1>5 DEF CreateStep, Reserve, DialFails, DialSucceeds, AddToPool, ReleaseSlot,
       poolVars, closeVars
  <1>6. CASE CloseStep
    <2>1. ASSUME NEW c \in Conns, ReadFails(c) \/ RetireByJanitor(c)
          PROVE  /\ handlers' = handlers
                 /\ \A a \in Actors : closer'[a].notify \subseteq closer[a].notify
      <3>1. PICK a \in Actors : Start(a, c)
        BY <2>1 DEF ReadFails, RetireByJanitor, Actors
      <3>2. closer'[a].notify = {} /\ \A b \in Actors : b # a => closer'[b] = closer[b]
        BY <3>1 DEF Start, Idle
      <3> QED
        BY <2>1, <3>2 DEF ReadFails, RetireByJanitor, poolVars
    <2>2. ASSUME NEW a \in Actors, Detach(a)
          PROVE  /\ \A c \in Conns : handlers'[c] \subseteq handlers[c]
                 /\ \A b \in Actors : \/ closer'[b].notify \subseteq closer[b].notify
                                      \/ \E c \in Conns : closer'[b].notify \subseteq handlers[c]
      <3>1. closer[a].conn \in Conns
        BY <2>2 DEF Detach, IndexInv
      <3>2. \A c \in Conns : handlers'[c] \subseteq handlers[c]
        BY <2>2, <3>1 DEF Detach
      <3>3. closer'[a].notify \subseteq handlers[closer[a].conn]
        BY <2>2, <3>1 DEF Detach, ToNotify, CloserRecord
      <3>4. \A b \in Actors : b # a => closer'[b] = closer[b]
        BY <2>2 DEF Detach
      <3> QED
        BY <3>1, <3>2, <3>3, <3>4
    <2>3. ASSUME NEW a \in Actors, FinishClose(a)
          PROVE  /\ handlers' = handlers
                 /\ \A b \in Actors : closer'[b].notify \subseteq closer[b].notify
      BY <2>3 DEF FinishClose, Idle, poolVars
    <2>4. ASSUME NEW a \in Actors, NEW t \in Tunnels, OnClose(a, t)
          PROVE  /\ handlers' = handlers
                 /\ \A b \in Actors : closer'[b].notify \subseteq closer[b].notify
      <3>1. closer'[a].notify = closer[a].notify \ {t}
        BY <2>4 DEF OnClose, CloserRecord
      <3>2. \A b \in Actors : b # a => closer'[b] = closer[b]
        BY <2>4 DEF OnClose
      <3> QED
        BY <2>4, <3>1, <3>2 DEF OnClose, poolVars
    <2>5. ASSUME NEW c \in Conns, CloseItem(c)
          PROVE  /\ handlers' = handlers
                 /\ \A b \in Actors : \/ closer'[b].notify \subseteq closer[b].notify
                                      \/ closer'[b].notify \subseteq handlers[c]
      BY <2>5 DEF CloseItem, poolVars
    <2>6. CASE \E c \in Conns : ReadFails(c) \/ RetireByJanitor(c)
      BY <1>2, <2>1, <2>6
    <2>7. CASE \E a \in Actors : Detach(a)
      BY <1>2, <2>2, <2>7
    <2>8. CASE \E a \in Actors : FinishClose(a) \/ \E t \in Tunnels : OnClose(a, t)
      BY <1>2, <2>3, <2>4, <2>8
    <2>9. CASE \E c \in Conns : CloseItem(c)
      BY <1>2, <2>5, <2>9
    <2> QED
      BY <1>3, <1>6, <2>6, <2>7, <2>8, <2>9 DEF CloseStep, WriteFails, Cull, CullClose,
         Close, Panic, poolVars, closeVars
  <1> QED
    BY <1>4, <1>5, <1>6 DEF Next

\* Only a tunnel that has a connection retires one.
LEMMA RetirerStep ==
    ASSUME IInv, Next, NEW t \in Tunnels, closer'[t].phase # "none"
    PROVE  ~Asking(t)'
  <1> USE DEF IInv, TypeOK
  <1>1. t \in Actors /\ t \notin Conns /\ t # Janitor /\ t # Closer
    BY SetsAssumption DEF Actors
  <1>2. SUFFICES closer[t].phase # "none" \/ ~Asking(t)
    BY ServedStays DEF MadeInv
  <1>3. CASE CreateStep
    BY <1>3 DEF CreateStep, Reserve, DialFails, DialSucceeds, AddToPool, ReleaseSlot,
       closeVars
  <1>4. CASE TunnelStep
    <2>1. CASE \E u \in Tunnels : RetireByTunnel(u)
      <3>1. PICK u \in Tunnels : RetireByTunnel(u)
        BY <2>1
      <3>2. CASE u = t
        BY <3>1, <3>2 DEF RetireByTunnel, Asking
      <3>3. CASE u # t
        BY <1>1, <3>1, <3>3 DEF RetireByTunnel, Start
      <3> QED
        BY <3>2, <3>3
    <2> QED
      BY <1>4, <2>1 DEF TunnelStep, GetConnectionWithStream, TakeIdle, Allocate, Spin,
         ShareBusy, Refuse, Retry, AcquireTimeout, RegisterStreamHandler, WriteConnect,
         Connected, BeginCleanup, UnregisterStreamHandler, ReleaseConnection, closeVars
  <1>5. CASE CloseStep
    <2>1. ASSUME NEW c \in Conns, ReadFails(c) \/ RetireByJanitor(c) \/ CloseItem(c)
          PROVE  closer'[t] = closer[t]
      BY <1>1, <2>1 DEF ReadFails, RetireByJanitor, CloseItem, Start
    <2>2. ASSUME NEW a \in Actors, Detach(a) \/ FinishClose(a)
          PROVE  closer[t].phase # "none"
      <3>1. CASE a = t
        BY <2>2, <3>1 DEF Detach, FinishClose
      <3>2. CASE a # t
        BY <1>1, <2>2, <3>2 DEF Detach, FinishClose
      <3> QED
        BY <3>1, <3>2
    <2>3. ASSUME NEW a \in Actors, NEW u \in Tunnels, OnClose(a, u)
          PROVE  closer[t].phase # "none"
      <3>1. CASE a = t
        BY <2>3, <3>1 DEF OnClose
      <3>2. CASE a # t
        BY <1>1, <2>3, <3>2 DEF OnClose
      <3> QED
        BY <3>1, <3>2
    <2> QED
      BY <1>5, <2>1, <2>2, <2>3 DEF CloseStep, WriteFails, Cull, CullClose, Close, Panic,
         closeVars
  <1> QED
    BY <1>3, <1>4, <1>5 DEF Next

\* Every step preserves MadeInv.
LEMMA MadeStep ==
    ASSUME IInv, Next
    PROVE  MadeInv'
  <1> USE DEF IInv
  <1>1. \A t \in Tunnels : ~Asking(t)' => conn'[t] \in Conns /\ Reading(conn[t])'
    <2> SUFFICES ASSUME NEW t \in Tunnels, ~Asking(t)'
                 PROVE  conn'[t] \in Conns /\ Reading(conn[t])'
      OBVIOUS
    <2>1. CASE Asking(t)
      <3>1. conn'[t] \in index \union InPool
        BY <2>1, ServedNew
      <3>2. conn'[t] \in Conns /\ Reading(conn'[t])
        BY <3>1 DEF MadeInv, TypeOK, InPool, Range
      <3> QED
        BY <3>2, ReadingStays DEF Reading
    <2>2. CASE ~Asking(t)
      BY <2>2, ServedStays, ReadingStays DEF MadeInv, Reading
    <2> QED
      BY <2>1, <2>2
  <1>2. \A t \in Tunnels : closer'[t].phase # "none" => ~Asking(t)'
    BY RetirerStep
  <1> QED
    BY <1>1, <1>2, PlacedStep, HandlersStep DEF MadeInv

-----------------------------------------------------------------------------
(* The index *)

\* Close is for good.
LEMMA StoppedStays ==
    ASSUME Next, ~stopped'
    PROVE  ~stopped
  <1>1. CASE CreateStep
    BY <1>1 DEF CreateStep, Reserve, DialFails, DialSucceeds, AddToPool, ReleaseSlot,
       closeVars
  <1>2. CASE TunnelStep
    BY <1>2 DEF TunnelStep, GetConnectionWithStream, TakeIdle, Allocate, Spin, ShareBusy,
       Refuse, Retry, AcquireTimeout, RegisterStreamHandler, WriteConnect, Connected,
       BeginCleanup, UnregisterStreamHandler, ReleaseConnection, RetireByTunnel, closeVars
  <1>3. CASE CloseStep
    BY <1>3 DEF CloseStep, WriteFails, ReadFails, RetireByJanitor, Detach, FinishClose,
       OnClose, Cull, CullClose, CloseItem, Close, Panic, closeVars
  <1> QED
    BY <1>1, <1>2, <1>3 DEF Next

\* Only handleConnectionClose and Close take a connection out of the index.
LEMMA IndexedStays ==
    ASSUME Next, ~stopped', NEW c \in index
    PROVE  c \in index' \/ \E a \in Actors : Detach(a) /\ closer[a].conn = c
  <1>1. CASE CreateStep
    BY <1>1 DEF CreateStep, Reserve, DialFails, DialSucceeds, AddToPool, ReleaseSlot,
       poolVars
  <1>2. CASE TunnelStep
    BY <1>2 DEF TunnelStep, GetConnectionWithStream, TakeIdle, Allocate, Spin, ShareBusy,
       Refuse, Retry, AcquireTimeout, RegisterStreamHandler, WriteConnect, Connected,
       BeginCleanup, UnregisterStreamHandler, ReleaseConnection, RetireByTunnel, poolVars
  <1>3. CASE CloseStep
    <2>1. CASE \E a \in Actors : Detach(a)
      BY <2>1 DEF Detach, IndexWithout
    <2> QED
      BY <1>3, <2>1 DEF CloseStep, WriteFails, ReadFails, RetireByJanitor, FinishClose,
         OnClose, Cull, CullClose, CloseItem, Close, Panic, poolVars
  <1> QED
    BY <1>1, <1>2, <1>3 DEF Next

\* Every step preserves IndexInv.
LEMMA IndexStep ==
    ASSUME IInv, Next
    PROVE  IndexInv'
  <1> USE DEF IInv, TypeOK
  <1>1. ASSUME NEW a \in Actors, closer'[a].phase = "detach"
        PROVE  closer'[a].conn \in Conns /\ closed'[closer'[a].conn]
    <2>1. CASE closer'[a] = closer[a]
      BY <1>1, <2>1, ClosedStays DEF IndexInv
    <2>2. ASSUME NEW b \in Actors, NEW c \in Conns, Start(b, c), closed'[c]
          PROVE  closer'[a].conn \in Conns /\ closed'[closer'[a].conn]
      BY <2>1, <2>2 DEF Start, Idle
    <2>3. CASE CreateStep
      BY <2>1, <2>3 DEF CreateStep, Reserve, DialFails, DialSucceeds, AddToPool, ReleaseSlot,
         closeVars
    <2>4. CASE TunnelStep
      <3>1. ASSUME NEW t \in Tunnels, RetireByTunnel(t)
            PROVE  t \in Actors /\ conn[t] \in Conns /\ Start(t, conn[t]) /\ closed'[conn[t]]
        BY <3>1 DEF RetireByTunnel, MadeInv, Asking, Actors
      <3> QED
        BY <2>1, <2>2, <2>4, <3>1 DEF TunnelStep, GetConnectionWithStream, TakeIdle,
           Allocate, Spin, ShareBusy, Refuse, Retry, AcquireTimeout, RegisterStreamHandler,
           WriteConnect, Connected, BeginCleanup, UnregisterStreamHandler,
           ReleaseConnection, closeVars
    <2>5. CASE CloseStep
      <3>1. ASSUME NEW c \in Conns, ReadFails(c) \/ RetireByJanitor(c)
            PROVE  \E b \in Actors : Start(b, c) /\ closed'[c]
        BY <3>1 DEF ReadFails, RetireByJanitor, Actors
      <3>2. ASSUME NEW b \in Actors, Detach(b) \/ FinishClose(b)
            PROVE  closer'[a] = closer[a]
        <4>1. closer'[b].phase # "detach"
          <5>1. CASE Detach(b)
            BY <5>1 DEF Detach, CloserRecord
          <5>2. CASE FinishClose(b)
            BY <5>2 DEF FinishClose, Idle
          <5> QED
            BY <3>2, <5>1, <5>2
        <4> QED
          BY <1>1, <3>2, <4>1 DEF Detach, FinishClose
      <3>3. ASSUME NEW b \in Actors, NEW t \in Tunnels, OnClose(b, t)
            PROVE  closer'[a] = closer[a]
        <4>1. closer'[b].phase # "detach"
          BY <3>3 DEF OnClose, CloserRecord
        <4> QED
          BY <1>1, <3>3, <4>1 DEF OnClose
      <3>4. ASSUME NEW c \in Conns, CloseItem(c)
            PROVE  closer'[a] = closer[a]
        BY <1>1, <3>4 DEF CloseItem, Actors
      <3> QED
        BY <2>1, <2>2, <2>5, <3>1, <3>2, <3>3, <3>4 DEF CloseStep, WriteFails, Cull,
           CullClose, Close, Panic, closeVars
    <2> QED
      BY <2>3, <2>4, <2>5 DEF Next
  <1>2. ASSUME ~stopped', NEW c \in Conns, Reading(c)', Open(c)'
        PROVE  c \in index'
    <2>1. Open(c)
      BY <1>2, ClosedStays DEF Open
    <2>2. CASE Reading(c)
      <3>1. ~stopped
        BY <1>2, StoppedStays
      <3>2. c \in index
        BY <2>1, <2>2, <3>1 DEF IndexInv
      <3>3. \A a \in Actors : Detach(a) => closer[a].conn # c
        BY <2>1 DEF Detach, IndexInv, Open
      <3> QED
        BY <1>2, <3>2, <3>3, IndexedStays
    <2>3. CASE ~Reading(c)
      BY <1>2, <2>3, CreateFrame DEF Reading, Reserve, DialFails, DialSucceeds, AddToPool,
         ReleaseSlot
    <2> QED
      BY <2>2, <2>3
  <1> QED
    BY <1>1, <1>2 DEF IndexInv

-----------------------------------------------------------------------------
(* Capacity *)

\* reserveConnectionSlot's count covers all that is claimed.
LEMMA ReserveRoom ==
    ASSUME IInv, ~stopped, SlotFree
    PROVE  Cardinality(Claimed) < MaxPoolSize
  <1> USE DEF IInv, TypeOK
  <1>1. SlotHolders \in SUBSET Conns /\ LiveConns \in SUBSET Conns
    BY DEF SlotHolders, LiveConns, InPool, Range
  <1>2. IsFiniteSet(SlotHolders) /\ IsFiniteSet(LiveConns)
    BY <1>1, FS_Subset, SetsAssumption
  <1>3. Claimed \in SUBSET (LiveConns \union SlotHolders)
    BY DEF Claimed, LiveConns, IndexInv
  <1>4. /\ IsFiniteSet(LiveConns \union SlotHolders)
        /\ Cardinality(LiveConns \union SlotHolders) =
              Cardinality(LiveConns) + Cardinality(SlotHolders)
                - Cardinality(LiveConns \intersect SlotHolders)
    BY <1>2, FS_Union
  <1>5. /\ Cardinality(LiveConns) \in Nat /\ Cardinality(SlotHolders) \in Nat
        /\ Cardinality(LiveConns \intersect SlotHolders) \in Nat
    BY <1>2, FS_CardinalityType, FS_Intersection
  <1>6. /\ Cardinality(Claimed) <= Cardinality(LiveConns \union SlotHolders)
        /\ Cardinality(Claimed) \in Nat
    BY <1>3, <1>4, FS_Subset, FS_CardinalityType
  <1>7. Cardinality(LiveConns) + Cardinality(SlotHolders) < MaxPoolSize
    BY DEF SlotFree, CountInv
  <1> QED
    BY <1>4, <1>5, <1>6, <1>7, LimitsAssumption

\* Nothing but reserveConnectionSlot claims more.
LEMMA ClaimedStep ==
    ASSUME IInv, Next, NEW d \in Claimed', d \notin Claimed
    PROVE  d \in Conns /\ Reserve(d)
  <1> USE DEF IInv, TypeOK
  <1>1. d \in Conns
    BY DEF Claimed, SlotHolders
  <1>2. Open(d)' => Open(d)
    BY <1>1, ClosedStays DEF Open
  <1> QED
    BY <1>1, <1>2, CreateFrame DEF Claimed, SlotHolders, Reading, Reserve, DialFails,
       DialSucceeds, AddToPool, ReleaseSlot

\* Every step preserves the limit.
LEMMA LimitStep ==
    ASSUME IInv, Next
    PROVE  LimitInv'
  <1> USE DEF IInv
  <1> SUFFICES ASSUME ~stopped' PROVE Cardinality(Claimed') <= MaxPoolSize
    BY DEF LimitInv
  <1>1. ~stopped
    BY StoppedStays
  <1>2. IsFiniteSet(Claimed) /\ Cardinality(Claimed) \in Nat
    <2>1. Claimed \in SUBSET Conns
      BY DEF Claimed, SlotHolders
    <2> QED
      BY <2>1, FS_Subset, FS_CardinalityType, SetsAssumption
  <1>3. CASE Claimed' \subseteq Claimed
    BY <1>1, <1>2, <1>3, FS_Subset, FS_CardinalityType, LimitsAssumption DEF LimitInv
  <1>4. CASE ~(Claimed' \subseteq Claimed)
    <2>1. PICK d \in Conns : d \notin Claimed /\ Reserve(d)
      BY <1>4, ClaimedStep
    <2>2. Claimed' \subseteq Claimed \union {d}
      BY <2>1 DEF Reserve, Claimed, SlotHolders, Reading, Open, TypeOK
    <2>3. Cardinality(Claimed) < MaxPoolSize
      BY <1>1, <2>1, ReserveRoom DEF Reserve
    <2>4. /\ IsFiniteSet(Claimed \union {d})
          /\ Cardinality(Claimed \union {d}) <= MaxPoolSize
          /\ Cardinality(Claimed \union {d}) \in Nat
      <3>1. /\ IsFiniteSet(Claimed \union {d})
            /\ Cardinality(Claimed \union {d}) = Cardinality(Claimed) + 1
        BY <1>2, <2>1, FS_AddElement
      <3> QED
        BY <1>2, <2>3, <3>1, LimitsAssumption
    <2> QED
      BY <2>2, <2>4, FS_Subset, FS_CardinalityType, LimitsAssumption
  <1> QED
    BY <1>3, <1>4

-----------------------------------------------------------------------------
(* Streams *)

\* After Close nothing is indexed again.
LEMMA StoppedStep ==
    ASSUME IInv, Next, stopped'
    PROVE  index' = {}
  <1> USE DEF IInv, StreamInv
  <1>1. CASE CreateStep
    BY <1>1 DEF CreateStep, Reserve, DialFails, DialSucceeds, AddToPool, ReleaseSlot,
       poolVars, closeVars
  <1>2. CASE TunnelStep
    <2>1. CASE \E t \in Tunnels : ShareBusy(t)
      BY <2>1 DEF ShareBusy, Allocate, closeVars
    <2> QED
      BY <1>2, <2>1 DEF TunnelStep, GetConnectionWithStream, TakeIdle, Allocate, Spin,
         Refuse, Retry, AcquireTimeout, RegisterStreamHandler, WriteConnect, Connected,
         BeginCleanup, UnregisterStreamHandler, ReleaseConnection, RetireByTunnel,
         poolVars, closeVars
  <1>3. CASE CloseStep
    <2>1. CASE \E a \in Actors : Detach(a)
      BY <2>1 DEF Detach, IndexWithout
    <2> QED
      BY <1>3, <2>1 DEF CloseStep, WriteFails, ReadFails, RetireByJanitor, FinishClose,
         OnClose, Cull, CullClose, CloseItem, Close, Panic, poolVars, closeVars
  <1> QED
    BY <1>1, <1>2, <1>3 DEF Next

\* A tunnel detaches the connection that serves it.
LEMMA DetachOwn ==
    ASSUME IInv, Next, NEW t \in Tunnels, closer'[t].phase = "detach"
    PROVE  closer'[t].conn = conn'[t]
  <1> USE DEF IInv, TypeOK
  <1>1. t \in Actors /\ t \notin Conns /\ t # Janitor /\ t # Closer
    BY SetsAssumption DEF Actors
  <1>2. CASE closer'[t] = closer[t]
    BY <1>2, ServedStays DEF MadeInv, StreamInv
  <1>3. CASE CreateStep
    BY <1>2, <1>3 DEF CreateStep, Reserve, DialFails, DialSucceeds, AddToPool, ReleaseSlot,
       closeVars
  <1>4. CASE TunnelStep
    <2>1. ASSUME NEW u \in Tunnels, RetireByTunnel(u), u # t
          PROVE  closer'[t] = closer[t]
      BY <1>1, <2>1 DEF RetireByTunnel, Start
    <2>2. ASSUME RetireByTunnel(t)
          PROVE  closer'[t].conn = conn'[t]
      BY <1>1, <2>2 DEF RetireByTunnel, Start, Idle, tunnelVars
    <2> QED
      BY <1>2, <1>4, <2>1, <2>2 DEF TunnelStep, GetConnectionWithStream, TakeIdle, Allocate,
         Spin, ShareBusy, Refuse, Retry, AcquireTimeout, RegisterStreamHandler,
         WriteConnect, Connected, BeginCleanup, UnregisterStreamHandler, ReleaseConnection,
         closeVars
  <1>5. CASE CloseStep
    <2>1. ASSUME NEW c \in Conns, ReadFails(c) \/ RetireByJanitor(c) \/ CloseItem(c)
          PROVE  closer'[t] = closer[t]
      BY <1>1, <2>1 DEF ReadFails, RetireByJanitor, CloseItem, Start
    <2>2. ASSUME NEW a \in Actors, Detach(a) \/ FinishClose(a)
          PROVE  closer'[t] = closer[t]
      <3>1. closer'[a].phase # "detach"
        <4>1. CASE Detach(a)
          BY <4>1 DEF Detach, CloserRecord
        <4>2. CASE FinishClose(a)
          BY <4>2 DEF FinishClose, Idle
        <4> QED
          BY <2>2, <4>1, <4>2
      <3> QED
        BY <1>1, <2>2, <3>1 DEF Detach, FinishClose
    <2>3. ASSUME NEW a \in Actors, NEW u \in Tunnels, OnClose(a, u)
          PROVE  closer'[t] = closer[t]
      <3>1. closer'[a].phase # "detach"
        BY <2>3 DEF OnClose, CloserRecord
      <3> QED
        BY <1>1, <2>3, <3>1 DEF OnClose
    <2> QED
      BY <1>2, <1>5, <2>1, <2>2, <2>3 DEF CloseStep, WriteFails, Cull, CullClose, Close,
         Panic, closeVars
  <1> QED
    BY <1>3, <1>4, <1>5 DEF Next

\* Streams are added by tryAllocateStream only, to a connection that is indexed.
LEMMA StreamNew ==
    ASSUME IInv, Next, NEW c \in Conns, NEW t \in streams'[c], t \notin streams[c]
    PROVE  /\ t \in Tunnels /\ Asking(t) /\ closer' = closer
           /\ c \in index' /\ conn'[t] = c /\ pc'[t] = "allocated"
  <1> USE DEF IInv, TypeOK
  <1>1. CASE CreateStep
    BY <1>1 DEF CreateStep, Reserve, DialFails, DialSucceeds, AddToPool, ReleaseSlot,
       poolVars
  <1>2. CASE TunnelStep
    <2>1. ASSUME NEW u \in Tunnels, NEW d \in Conns, Allocate(u, d), Seeks(u),
                 d \in index'
          PROVE  /\ t \in Tunnels /\ Asking(t) /\ closer' = closer
                 /\ c \in index' /\ conn'[t] = c /\ pc'[t] = "allocated"
      <3>1. t = u /\ c = d
        BY <2>1 DEF Allocate
      <3> QED
        BY <2>1, <3>1 DEF Allocate, Seeks, Asking, closeVars
    <2>2. ASSUME NEW u \in Tunnels, TakeIdle(u)
          PROVE  \E d \in Conns : Allocate(u, d) /\ Seeks(u) /\ d \in index'
      BY <2>2 DEF TakeIdle
    <2>3. ASSUME NEW u \in Tunnels, ShareBusy(u)
          PROVE  \E d \in Conns : Allocate(u, d) /\ Seeks(u) /\ d \in index'
      BY <2>3 DEF ShareBusy, Shareable, Affine, LeastLoaded, Sharing
    <2>4. ASSUME NEW u \in Tunnels, UnregisterStreamHandler(u) PROVE FALSE
      BY <2>4 DEF UnregisterStreamHandler, StreamsWithout
    <2> QED
      BY <1>2, <2>1, <2>2, <2>3, <2>4 DEF TunnelStep, GetConnectionWithStream, Spin, Refuse,
         Retry, AcquireTimeout, RegisterStreamHandler, WriteConnect, Connected,
         BeginCleanup, ReleaseConnection, RetireByTunnel, poolVars
  <1>3. CASE CloseStep
    <2>1. ASSUME NEW a \in Actors, Detach(a) PROVE FALSE
      BY <2>1 DEF Detach, IndexInv
    <2> QED
      BY <1>3, <2>1 DEF CloseStep, WriteFails, ReadFails, RetireByJanitor, FinishClose,
         OnClose, Cull, CullClose, CloseItem, Close, Panic, poolVars
  <1> QED
    BY <1>1, <1>2, <1>3 DEF Next

\* A stream that stays in its manager has a tunnel that is still to unregister it.
LEMMA StreamOld ==
    ASSUME IInv, Next, ~stopped,
           NEW c \in Conns, NEW t \in streams[c], t \in streams'[c]
    PROVE  Holding(t)' /\ closer'[t].phase \in {"none", "detach"}
  <1> USE DEF IInv, TypeOK, Holding
  <1>1. /\ t \in Tunnels /\ conn[t] = c /\ Holding(t) /\ c \in index
        /\ closer[t].phase \in {"none", "detach"}
    BY DEF StreamInv
  <1>2. t \in Actors /\ t \notin Conns /\ t # Janitor /\ t # Closer
    BY <1>1, SetsAssumption DEF Actors
  <1>3. CASE CreateStep
    BY <1>1, <1>3 DEF CreateStep, Reserve, DialFails, DialSucceeds, AddToPool, ReleaseSlot,
       tunnelVars, closeVars
  <1>4. CASE TunnelStep
    <2>1. CASE \E u \in Tunnels : GetConnectionWithStream(u) \/ AcquireTimeout(u)
      <3>1. PICK u \in Tunnels : GetConnectionWithStream(u) \/ AcquireTimeout(u)
        BY <2>1
      <3>2. u # t
        BY <1>1, <3>1 DEF GetConnectionWithStream, TakeIdle, Spin, ShareBusy, Refuse, Retry,
           AcquireTimeout, Seeks
      <3> QED
        BY <1>1, <3>1, <3>2 DEF GetConnectionWithStream, TakeIdle, Allocate, Spin, ShareBusy,
           Refuse, Retry, AcquireTimeout, closeVars
    <2>2. CASE \E u \in Tunnels :
                  \/ RegisterStreamHandler(u) \/ WriteConnect(u) \/ Connected(u)
                  \/ BeginCleanup(u) \/ ReleaseConnection(u)
      BY <1>1, <2>2 DEF RegisterStreamHandler, WriteConnect, Connected, BeginCleanup,
         ReleaseConnection, closeVars
    <2>3. CASE \E u \in Tunnels : UnregisterStreamHandler(u)
      <3>1. PICK u \in Tunnels : UnregisterStreamHandler(u)
        BY <2>3
      <3>2. u # t
        BY <1>1, <3>1 DEF UnregisterStreamHandler, StreamsWithout
      <3> QED
        BY <1>1, <3>1, <3>2 DEF UnregisterStreamHandler, closeVars
    <2>4. CASE \E u \in Tunnels : RetireByTunnel(u)
      BY <1>1, <1>2, <2>4 DEF RetireByTunnel, Start, Idle, Actors, tunnelVars
    <2> QED
      BY <1>4, <2>1, <2>2, <2>3, <2>4 DEF TunnelStep
  <1>5. CASE CloseStep
    <2>1. ASSUME NEW d \in Conns, ReadFails(d) \/ RetireByJanitor(d) \/ CloseItem(d)
          PROVE  closer'[t] = closer[t] /\ pc' = pc
      BY <1>2, <2>1 DEF ReadFails, RetireByJanitor, CloseItem, Start, tunnelVars
    <2>2. ASSUME NEW a \in Actors, Detach(a)
          PROVE  closer'[t] = closer[t] /\ pc' = pc
      <3>1. a # t
        <4>1. closer[a].conn \in Conns
          BY <2>2 DEF Detach, IndexInv
        <4> QED
          BY <1>1, <2>2, <4>1 DEF Detach, StreamInv
      <3> QED
        BY <1>2, <2>2, <3>1 DEF Detach, tunnelVars
    <2>3. ASSUME NEW a \in Actors, FinishClose(a)
          PROVE  closer'[t] = closer[t] /\ pc'[t] = pc[t]
      BY <1>1, <1>2, <2>3 DEF FinishClose
    <2>4. ASSUME NEW a \in Actors, NEW u \in Tunnels, OnClose(a, u)
          PROVE  closer'[t] = closer[t] /\ pc'[t] \in {pc[t], "unregister"}
      BY <1>1, <1>2, <2>4 DEF OnClose
    <2>5. CASE closer' = closer /\ pc' = pc
      BY <1>1, <2>5
    <2> QED
      BY <1>1, <1>5, <2>1, <2>2, <2>3, <2>4, <2>5 DEF CloseStep, WriteFails, Cull, CullClose,
         Close, Panic, tunnelVars, closeVars
  <1> QED
    BY <1>3, <1>4, <1>5 DEF Next

\* Every step preserves StreamInv.
LEMMA StreamStep ==
    ASSUME IInv, Next
    PROVE  StreamInv'
  <1> USE DEF IInv
  <1>1. ASSUME ~stopped', NEW c \in Conns, c \notin index'
        PROVE  streams'[c] = {}
    <2>1. ~stopped
      BY <1>1, StoppedStays
    <2>2. streams'[c] \subseteq streams[c]
      BY <1>1, StreamNew
    <2>3. CASE c \notin index
      BY <2>1, <2>2, <2>3 DEF StreamInv
    <2>4. CASE c \in index
      <3>1. PICK a \in Actors : Detach(a) /\ closer[a].conn = c
        BY <1>1, <2>4, IndexedStays
      <3> QED
        BY <2>4, <3>1 DEF Detach, TypeOK
    <2> QED
      BY <2>3, <2>4
  <1>2. ASSUME ~stopped', NEW c \in Conns, NEW t \in streams'[c]
        PROVE  conn'[t] = c /\ Holding(t)' /\ closer'[t].phase \in {"none", "detach"}
    <2>1. ~stopped
      BY <1>2, StoppedStays
    <2>2. CASE t \in streams[c]
      <3>1. t \in Tunnels /\ conn[t] = c /\ ~Asking(t)
        BY <2>1, <2>2 DEF StreamInv, Holding, Asking, TypeOK
      <3> QED
        BY <2>1, <2>2, <3>1, ServedStays, StreamOld
    <2>3. CASE t \notin streams[c]
      <3>1. /\ t \in Tunnels /\ Asking(t) /\ closer' = closer
            /\ conn'[t] = c /\ pc'[t] = "allocated"
        BY <2>3, StreamNew
      <3> QED
        BY <3>1 DEF Holding, MadeInv
    <2> QED
      BY <2>2, <2>3
  <1> QED
    BY <1>1, <1>2, StoppedStep, DetachOwn DEF StreamInv

-----------------------------------------------------------------------------
(* Theorems *)

\* The empty pool satisfies the invariant.
LEMMA InitIInv == Init => IInv
  <1> SUFFICES ASSUME Init PROVE IInv
    OBVIOUS
  <1> USE DEF Init
  <1>1. TypeOK
    <2>1. <<>> \in Seq(Conns) /\ Idle \in CloserRecord
      BY DEF Idle, CloserRecord
    <2> QED
      BY <2>1 DEF TypeOK
  <1>2. SlotHolders = {} /\ {c \in Conns : active[c]} = {} /\ Claimed = {}
    BY DEF SlotHolders, Claimed, Reading
  <1>3. Cardinality({}) = 0 /\ 0 <= MaxPoolSize
    BY FS_EmptySet, LimitsAssumption
  <1>4. CountInv
    <2>1. pending = 0 /\ activeConnections = 0
      OBVIOUS
    <2> QED
      BY <1>2, <1>3, <2>1 DEF CountInv
  <1>5. LimitInv
    BY <1>2, <1>3 DEF LimitInv
  <1>6. MadeInv
    BY DEF MadeInv, Asking, Idle, Actors, InPool, Range
  <1>7. IndexInv
    BY DEF IndexInv, Reading, Idle
  <1>8. StreamInv
    BY DEF StreamInv, Idle, Actors
  <1> QED
    BY <1>1, <1>4, <1>5, <1>6, <1>7, <1>8 DEF IInv

\* Every step preserves the invariant.
LEMMA NextIInv == IInv /\ [Next]_vars => IInv'
  <1> SUFFICES ASSUME IInv, [Next]_vars PROVE IInv'
    OBVIOUS
  <1>1. CASE Next
    BY <1>1, TypeStep, CountStep, MadeStep, IndexStep, LimitStep, StreamStep DEF IInv
  <1>2. CASE UNCHANGED vars
    BY <1>2 DEF vars, poolVars, connVars, tunnelVars, closeVars, IInv, TypeOK, CountInv,
       MadeInv, IndexInv, LimitInv, StreamInv, Claimed, SlotHolders, Reading, Open, InPool,
       Asking, Holding
  <1> QED
    BY <1>1, <1>2

\* IInv is an invariant of the specification.
THEOREM Invariance == Spec => []IInv
  BY InitIInv, NextIInv, PTL DEF Spec

\* Every variable keeps its type.  In particular pendingConnections and
\* activeConnections, which the code changes by atomic additions outside p.mu,
\* never go below zero.
THEOREM TypeCorrect == Spec => []TypeOK
  <1>1. IInv => TypeOK
    BY DEF IInv
  <1> QED
    BY <1>1, Invariance, PTL

\* reserveConnectionSlot keeps connections that are live and calls that hold a
\* slot within MaxPoolSize together, until Close.
THEOREM CapacityCorrect == Spec => []Capacity
  <1>1. IInv => Capacity
    <2> SUFFICES ASSUME IInv, ~stopped
                 PROVE  Cardinality(LiveConns \union SlotHolders) <= MaxPoolSize
      BY DEF Capacity
    <2> USE DEF IInv, TypeOK
    <2>1. Claimed \in SUBSET Conns /\ LiveConns \union SlotHolders \in SUBSET Claimed
      BY DEF Claimed, SlotHolders, LiveConns, MadeInv, InPool, Range
    <2>2. IsFiniteSet(Claimed) /\ Cardinality(Claimed) \in Nat
      BY <2>1, FS_Subset, FS_CardinalityType, SetsAssumption
    <2> QED
      BY <2>1, <2>2, FS_Subset, FS_CardinalityType, LimitsAssumption DEF LimitInv
  <1> QED
    BY <1>1, Invariance, PTL

\* No stream of an indexed connection is without a tunnel that will unregister
\* it, whichever way createTunnel ends and whoever closes the connection.
THEOREM NoLeak == Spec => []NoStreamLeak
  <1>1. IInv => NoStreamLeak
    BY DEF IInv, TypeOK, StreamInv, NoStreamLeak, Holding
  <1> QED
    BY <1>1, Invariance, PTL
=============================================================================
