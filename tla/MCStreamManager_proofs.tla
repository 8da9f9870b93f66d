------------------------ MODULE MCStreamManager_proofs ------------------------
(***************************************************************************)
(* The reuse distance of stream IDs, for every size of the ID space and    *)
(* every stream limit.  The argument counts what round-robin allocation    *)
(* still has to hand out before it comes back to an ID: since[id], plus    *)
(* the free IDs that the search meets before id, never falls below         *)
(* NumIds - MaxStreams.                                                    *)
(***************************************************************************)
EXTENDS MCStreamManager, StreamManager_proofs

\* How far id is from where the next search starts.
Pos(id) == IF nextHint <= id THEN id - nextHint ELSE id - nextHint + NumIds

\* The free IDs that the next search meets before id.
FreeBefore(id) == {x \in Ids \ DOMAIN streams : Pos(x) < Pos(id)}

\* The table never exceeds the limit that tryAllocateStream checks.
WithinMax == Cardinality(DOMAIN streams) <= MaxStreams

\* The ID that gets its turn after all those free ones is old enough.
OldEnough(id) == since[id] + Cardinality(FreeBefore(id)) >= NumIds - MaxStreams

\* The inductive invariant.
DistanceInv ==
    /\ IInv
    /\ WithinMax
    /\ since \in [Ids -> 0 .. NumIds]
    /\ Indexed => \A id \in Ids : OldEnough(id)

-----------------------------------------------------------------------------
(* Positions *)

\* The search wraps around once at most.
LEMMA ScanIs ==
    ASSUME NEW k \in Ids, nextHint \in Ids
    PROVE  Scan(k) = IF nextHint + k < NumIds THEN nextHint + k
                                              ELSE nextHint + k - NumIds
  <1>1. NumIds \in Nat /\ NumIds > 0 /\ nextHint + k \in 0 .. 2 * NumIds - 1
    BY NumIdsAssumption DEF Ids
  <1>2. CASE nextHint + k < NumIds
    BY <1>1, <1>2, SMTT(30) DEF Scan
  <1>3. CASE ~(nextHint + k < NumIds)
    <2>1. /\ nextHint + k = (nextHint + k - NumIds) + NumIds
          /\ nextHint + k - NumIds \in 0 .. NumIds - 1
      BY <1>1, <1>3 DEF Ids
    <2>2. (nextHint + k) % NumIds = nextHint + k - NumIds
      BY <1>1, <2>1, SMTT(30)
    <2> QED
      BY <1>3, <2>2 DEF Scan
  <1> QED
    BY <1>2, <1>3

\* An ID is looked at as the one of its position.
LEMMA PosFacts ==
    ASSUME nextHint \in Ids
    PROVE  /\ \A id \in Ids : Pos(id) \in Ids /\ Scan(Pos(id)) = id
           /\ \A k \in Ids : Scan(k) \in Ids /\ Pos(Scan(k)) = k
           /\ \A x, y \in Ids : Pos(x) = Pos(y) => x = y
  <1>n. NumIds \in Nat /\ NumIds > 0
    BY NumIdsAssumption
  <1>1. \A id \in Ids : Pos(id) \in Ids
    BY <1>n DEF Pos, Ids
  <1>2. \A id \in Ids : Scan(Pos(id)) = id
    BY <1>1, <1>n, ScanIs DEF Pos, Ids
  <1>3. \A k \in Ids : Scan(k) \in Ids /\ Pos(Scan(k)) = k
    BY <1>n, ScanIs DEF Pos, Ids
  <1> QED
    BY <1>1, <1>2, <1>3

\* Positions after x was handed out: those behind x move up by its position
\* plus one, those before it go to the back, and x is last.
LEMMA PosAfter ==
    ASSUME nextHint \in Ids, NEW x \in Ids, nextHint' = HintAfter(x)
    PROVE  /\ nextHint' \in Ids
           /\ \A y \in Ids : Pos(y)' = IF Pos(x) < Pos(y)
                                       THEN Pos(y) - Pos(x) - 1
                                       ELSE Pos(y) - Pos(x) - 1 + NumIds
  <1>n. NumIds \in Nat /\ NumIds > 0
    BY NumIdsAssumption
  <1>1. HintAfter(x) = IF x + 1 < NumIds THEN x + 1 ELSE 0
    <2>1. CASE x + 1 < NumIds
      BY <2>1, <1>n, SMTT(30) DEF HintAfter, Ids
    <2>2. CASE ~(x + 1 < NumIds)
      <3>1. x + 1 = NumIds
        BY <2>2, <1>n DEF Ids
      <3> QED
        BY <3>1, <2>2, <1>n, SMTT(30) DEF HintAfter
    <2> QED
      BY <2>1, <2>2
  <1> QED
    BY <1>1, <1>n DEF Pos, Ids

\* A set of IDs is finite.
LEMMA FiniteIds ==
    ASSUME NEW S \in SUBSET Ids
    PROVE  IsFiniteSet(S) /\ Cardinality(S) \in Nat
  <1>1. IsFiniteSet(Ids)
    BY FS_Interval, NumIdsAssumption DEF Ids
  <1> QED
    BY <1>1, FS_Subset, FS_CardinalityType

\* There are NumIds of them.
LEMMA CardIds == Cardinality(Ids) = NumIds
  BY FS_Interval, NumIdsAssumption DEF Ids

\* What tryAllocateStream found is the first free ID in the search order.
LEMMA FirstFree ==
    ASSUME nextHint \in Ids, BitmapMatchesTable, NEW x \in Ids, IsFreeBit(x)
    PROVE  /\ x \notin DOMAIN streams
           /\ \A y \in Ids : Pos(y) < Pos(x) => y \in DOMAIN streams
  <1>1. PICK k \in Ids : /\ x = Scan(k)
                         /\ x \notin allocBitmap
                         /\ \A j \in 0 .. k - 1 : Scan(j) \in allocBitmap
    BY DEF IsFreeBit
  <1>2. Pos(x) = k
    BY <1>1, PosFacts
  <1>3. ASSUME NEW y \in Ids, Pos(y) < k PROVE y \in allocBitmap
    <2>1. Pos(y) \in 0 .. k - 1 /\ Scan(Pos(y)) = y
      BY <1>3, PosFacts, NumIdsAssumption DEF Ids
    <2> QED
      BY <2>1, <1>1
  <1> QED
    BY <1>1, <1>2, <1>3 DEF BitmapMatchesTable
-----------------------------------------------------------------------------
LEMMA InitDistance == MCInit => DistanceInv
  <1> SUFFICES ASSUME MCInit PROVE DistanceInv
    OBVIOUS
  <1>1. IInv
    BY InitIInv DEF MCInit
  <1>2. DOMAIN streams = {}
    BY DEF MCInit, Init, NoStreams
  <1>3. WithinMax
    BY <1>2, FS_EmptySet, MaxStreamsAssumption DEF WithinMax
  <1>4. since \in [Ids -> 0 .. NumIds]
    BY NumIdsAssumption DEF MCInit
  <1>5. ASSUME NEW id \in Ids PROVE OldEnough(id)
    <2>1. Cardinality(FreeBefore(id)) \in Nat
      BY FiniteIds DEF FreeBefore
    <2> QED
      BY <2>1, NumIdsAssumption, MaxStreamsAssumption DEF OldEnough, MCInit
  <1> QED
    BY <1>1, <1>3, <1>4, <1>5 DEF DistanceInv

\* Allocation: the IDs before the new one are in use, so their turn has come
\* and gone; those behind it lose one free predecessor and age by one; the new
\* one is last in the search order, behind all that is free.
LEMMA AllocateDistance ==
    ASSUME DistanceInv, IInv', NEW o \in Owners, TryAllocateStream(o), MCNext
    PROVE  /\ DistanceInv'
           /\ \A id \in Fresh : since[id] >= NumIds - MaxStreams
  <1>n. NumIds \in Nat /\ NumIds > 0 /\ MaxStreams \in Nat
    BY NumIdsAssumption, MaxStreamsAssumption
  <1>t. nextHint \in Ids /\ DOMAIN streams \in SUBSET Ids
    BY TableFacts DEF DistanceInv, IInv, TypeOK
  <1>1. PICK x \in Ids : /\ IsFreeBit(x)
                         /\ nextHint' = HintAfter(x)
                         /\ DOMAIN streams' = DOMAIN streams \union {x}
    BY DEF TryAllocateStream
  <1>2. /\ Indexed
        /\ ~(Cardinality(DOMAIN streams) >= MaxStreams)
    BY DEF TryAllocateStream, Full
  <1>3. /\ x \notin DOMAIN streams
        /\ \A y \in Ids : Pos(y) < Pos(x) => y \in DOMAIN streams
    BY <1>1, <1>t, FirstFree DEF DistanceInv, IInv
  <1>4. Fresh = {x}
    BY <1>1, <1>3 DEF Fresh
  <1>5. \A id \in Ids : since'[id] = IF id = x THEN 0 ELSE Older(since[id])
    BY <1>4 DEF MCNext
  <1>6. since' \in [Ids -> 0 .. NumIds]
    <2>1. \A id \in Ids : since[id] \in 0 .. NumIds
      BY DEF DistanceInv
    <2>2. \A id \in Ids : since'[id] \in 0 .. NumIds
      BY <2>1, <1>5, <1>n DEF Older
    <2>3. since' = [id \in Ids |-> since'[id]]
      BY DEF MCNext
    <2> QED
      BY <2>2, <2>3
  <1>7. WithinMax'
    <2>1. Cardinality(DOMAIN streams') = Cardinality(DOMAIN streams) + 1
      BY <1>1, <1>3, <1>t, FiniteIds, FS_AddElement
    <2> QED
      BY <2>1, <1>2, <1>t, <1>n, FiniteIds DEF WithinMax
  <1>8. \A y \in Ids : since[y] >= NumIds - MaxStreams \/ FreeBefore(y) # {}
    <2> SUFFICES ASSUME NEW y \in Ids, FreeBefore(y) = {}
                 PROVE  since[y] >= NumIds - MaxStreams
      OBVIOUS
    <2>1. OldEnough(y) /\ since[y] \in 0 .. NumIds
      BY <1>2 DEF DistanceInv
    <2>2. Cardinality(FreeBefore(y)) = 0
      BY FS_EmptySet
    <2> QED
      BY <2>1, <2>2, <1>n DEF OldEnough
  <1>p. \A y \in Ids : Pos(y) \in Ids
    BY <1>t, PosFacts
  <1>9. \A y \in Ids : ~(Pos(x) < Pos(y)) => FreeBefore(y) = {}
    <2> SUFFICES ASSUME NEW y \in Ids, ~(Pos(x) < Pos(y)),
                        NEW z \in Ids \ DOMAIN streams, Pos(z) < Pos(y)
                 PROVE  FALSE
      BY DEF FreeBefore
    <2>1. Pos(z) < Pos(x)
      BY <1>p DEF Ids
    <2> QED
      BY <2>1, <1>3
  <1>10. since[x] >= NumIds - MaxStreams
    BY <1>8, <1>9, <1>p DEF Ids
  <1>11. \A y \in Ids : Pos(y)' = IF Pos(x) < Pos(y)
                                  THEN Pos(y) - Pos(x) - 1
                                  ELSE Pos(y) - Pos(x) - 1 + NumIds
    BY <1>t, <1>1, PosAfter
  <1>12. ASSUME NEW y \in Ids PROVE OldEnough(y)'
    <2>s. since[y] \in 0 .. NumIds
      BY DEF DistanceInv
    <2>c. FreeBefore(y)' \in SUBSET Ids
      BY DEF FreeBefore
    <2>d. Cardinality(FreeBefore(y)') \in Nat
      BY <2>c, FiniteIds
    <2>1. CASE y = x
      <3>1. FreeBefore(x)' = Ids \ DOMAIN streams'
        <4>1. ASSUME NEW z \in Ids \ DOMAIN streams' PROVE Pos(z)' < Pos(x)'
          <5>1. z \in Ids /\ z # x
            BY <4>1, <1>1
          <5>2. Pos(z) # Pos(x)
            BY <5>1, <1>t, PosFacts
          <5> QED
            BY <5>1, <5>2, <1>11, <1>p, <1>n DEF Ids
        <4> QED
          BY <4>1 DEF FreeBefore
      <3>2. DOMAIN streams' \in SUBSET Ids
        BY <1>1, <1>t
      <3>3. Cardinality(Ids \ DOMAIN streams') = NumIds - Cardinality(DOMAIN streams')
        <4>1. Ids \intersect DOMAIN streams' = DOMAIN streams' /\ IsFiniteSet(Ids)
          BY <3>2, FiniteIds
        <4> QED
          BY <4>1, CardIds, FS_Difference
      <3>4. since'[x] = 0
        BY <1>5
      <3>5. Cardinality(DOMAIN streams') \in Nat
        BY <3>2, FiniteIds
      <3>6. Cardinality(FreeBefore(x)') >= NumIds - MaxStreams
        BY <3>1, <3>3, <3>5, <1>7, <1>n DEF WithinMax
      <3> QED
        BY <3>4, <3>6, <2>1, <2>d, <1>n DEF OldEnough
    <2>2. CASE y # x /\ ~(Pos(x) < Pos(y))
      <3>1. since[y] >= NumIds - MaxStreams
        BY <2>2, <1>8, <1>9
      <3>2. since'[y] \in 0 .. NumIds /\ since'[y] >= since[y]
        BY <2>2, <2>s, <1>5, <1>n DEF Older
      <3> QED
        BY <3>1, <3>2, <2>s, <2>d, <1>n DEF OldEnough
    <2>3. CASE Pos(x) < Pos(y)
      <3>1. y # x
        BY <2>3, <1>p DEF Ids
      <3>2. FreeBefore(y)' = FreeBefore(y) \ {x}
        <4>1. ASSUME NEW z \in Ids \ DOMAIN streams, z # x
              PROVE  Pos(z)' < Pos(y)' <=> Pos(z) < Pos(y)
          <5>1. ~(Pos(z) < Pos(x)) /\ Pos(z) # Pos(x)
            BY <4>1, <1>3, <1>t, PosFacts
          <5>2. Pos(x) < Pos(z)
            BY <5>1, <4>1, <1>p DEF Ids
          <5> QED
            BY <5>2, <4>1, <2>3, <1>11, <1>p DEF Ids
        <4>2. Ids \ DOMAIN streams' = (Ids \ DOMAIN streams) \ {x}
          BY <1>1
        <4> QED
          BY <4>1, <4>2 DEF FreeBefore
      <3>3. x \in FreeBefore(y)
        BY <2>3, <1>3 DEF FreeBefore
      <3>4. FreeBefore(y) \in SUBSET Ids
        BY DEF FreeBefore
      <3>5. Cardinality(FreeBefore(y)') = Cardinality(FreeBefore(y)) - 1
        BY <3>2, <3>3, <3>4, FiniteIds, FS_RemoveElement
      <3>6. Cardinality(FreeBefore(y)) \in Nat
        BY <3>4, FiniteIds
      <3>7. OldEnough(y)
        BY <1>2 DEF DistanceInv
      <3>8. since'[y] = IF since[y] < NumIds THEN since[y] + 1 ELSE since[y]
        BY <3>1, <1>5 DEF Older
      <3>9. since'[y] + Cardinality(FreeBefore(y)') >= NumIds - MaxStreams
        BY <3>5, <3>6, <3>7, <3>8, <2>s, <2>d, <1>n DEF OldEnough
      <3> QED
        BY <3>9 DEF OldEnough
    <2> QED
      BY <2>1, <2>2, <2>3
  <1> QED
    BY <1>4, <1>6, <1>7, <1>10, <1>12 DEF DistanceInv

\* A step that allocates nothing and leaves the hint alone can only free IDs,
\* and so only add to the free ones before another.
LEMMA FreeingDistance ==
    ASSUME DistanceInv, IInv', MCNext, DOMAIN streams' \subseteq DOMAIN streams,
           Indexed' => Indexed /\ nextHint' = nextHint
    PROVE  DistanceInv' /\ Fresh = {}
  <1>n. NumIds \in Nat /\ NumIds > 0 /\ MaxStreams \in Nat
    BY NumIdsAssumption, MaxStreamsAssumption
  <1>1. Fresh = {}
    BY DEF Fresh
  <1>2. since' = since
    BY <1>1 DEF MCNext, DistanceInv
  <1>3. WithinMax'
    <2>1. DOMAIN streams \in SUBSET Ids
      BY TableFacts DEF DistanceInv, IInv, TypeOK
    <2>2. /\ Cardinality(DOMAIN streams') <= Cardinality(DOMAIN streams)
          /\ Cardinality(DOMAIN streams') \in Nat /\ Cardinality(DOMAIN streams) \in Nat
      BY <2>1, FiniteIds, FS_Subset
    <2> QED
      BY <2>2, <1>n DEF DistanceInv, WithinMax
  <1>4. ASSUME Indexed', NEW id \in Ids PROVE OldEnough(id)'
    <2>1. OldEnough(id) /\ since[id] \in 0 .. NumIds
      BY <1>4 DEF DistanceInv
    <2>2. \A y \in Ids : Pos(y)' = Pos(y)
      BY <1>4 DEF Pos
    <2>3. FreeBefore(id) \in SUBSET FreeBefore(id)'
      BY <2>2 DEF FreeBefore
    <2>4. FreeBefore(id)' \in SUBSET Ids /\ FreeBefore(id) \in SUBSET Ids
      BY DEF FreeBefore
    <2>5. /\ Cardinality(FreeBefore(id)) <= Cardinality(FreeBefore(id)')
          /\ Cardinality(FreeBefore(id)) \in Nat /\ Cardinality(FreeBefore(id)') \in Nat
      BY <2>3, <2>4, FiniteIds, FS_Subset
    <2> QED
      BY <2>1, <2>5, <1>2, <1>n DEF OldEnough
  <1> QED
    BY <1>1, <1>2, <1>3, <1>4 DEF DistanceInv

\* Every step keeps the invariant, and hands out only an ID that is old enough.
LEMMA NextDistance ==
    ASSUME DistanceInv, [MCNext]_<<vars, since>>
    PROVE  /\ DistanceInv'
           /\ [\A id \in Fresh : since[id] >= NumIds - MaxStreams]_<<vars, since>>
  <1>1. CASE UNCHANGED <<vars, since>>
    <2>1. IInv'
      BY <1>1, NextIInv DEF DistanceInv
    <2> QED
      BY <1>1, <2>1 DEF vars, closeVars, DistanceInv, WithinMax, Indexed, OldEnough, FreeBefore, Pos
  <1>2. CASE MCNext
    <2>1. IInv' /\ Next
      BY <1>2, NextIInv DEF DistanceInv, MCNext
    <2>2. CASE \E o \in Owners : TryAllocateStream(o)
      BY <2>1, <2>2, <1>2, AllocateDistance
    <2>3. CASE ~\E o \in Owners : TryAllocateStream(o)
      <3>1. ASSUME NEW o \in Owners, RegisterHandler(o)
            PROVE  DOMAIN streams' = DOMAIN streams /\ UNCHANGED <<closing, nextHint>>
        BY <3>1 DEF RegisterHandler, closeVars
      <3>2. ASSUME NEW o \in Owners, UnregisterStream(o)
            PROVE  DOMAIN streams' \subseteq DOMAIN streams /\ UNCHANGED <<closing, nextHint>>
        BY <3>2 DEF UnregisterStream, closeVars
      <3>3. ASSUME NEW o \in Owners, UnregisterDetached(o) \/ CloseCallback(o)
            PROVE  UNCHANGED <<streams, closing, nextHint>>
        BY <3>3 DEF UnregisterDetached, CloseCallback, closeVars
      <3>4. ASSUME CloseSnapshot \/ CloseWipe \/ CloseCounters
            PROVE  DOMAIN streams' \subseteq DOMAIN streams /\ closing' # "open"
        BY <3>4 DEF CloseSnapshot, CloseWipe, CallbacksDone, CloseCounters, NoStreams
      <3>5. /\ DOMAIN streams' \subseteq DOMAIN streams
            /\ Indexed' => Indexed /\ nextHint' = nextHint
        BY <2>1, <2>3, <3>1, <3>2, <3>3, <3>4 DEF Next, HandleConnectionClose, Indexed
      <3> QED
        BY <2>1, <1>2, <3>5, FreeingDistance
    <2> QED
      BY <2>2, <2>3
  <1> QED
    BY <1>1, <1>2

\* The round robin of findFreeBit and nextHint keeps a freed stream ID out of use
\* until NumIds - MaxStreams other streams were opened: 251 with the defaults.
THEOREM ReusedLate == MCSpec => ReuseDistance
  <1> QED
    BY InitDistance, NextDistance, PTL DEF MCSpec, ReuseDistance
=============================================================================
