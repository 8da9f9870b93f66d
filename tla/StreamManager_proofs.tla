------------------------ MODULE StreamManager_proofs ------------------------
(***************************************************************************)
(* Machine-checked facts about StreamManager, for every size of the ID     *)
(* space, every stream limit and every finite set of owners.               *)
(***************************************************************************)
EXTENDS StreamManager, FiniteSetTheorems, TLAPS

\* While the callbacks run, every stream that has a handler is either still to
\* be notified or already notified.
NotifyInv ==
    closing = "callbacks" =>
        \A id \in DOMAIN streams :
            streams[id].handler # Nobody => streams[id].handler \in toNotify \union notified

\* Once wiped the table stays empty, and streams wait to be subtracted from the
\* counters only in between the last two critical sections.
WipeInv ==
    /\ Wiped => DOMAIN streams = {}
    /\ closing # "counters" => remaining = 0

\* While streams are handed out, who has been robbed does not know it yet.
RobbedInv == Indexed => \A o \in robbed : Holds(o)

\* The inductive invariant.
IInv ==
    /\ TypeOK
    /\ BitmapMatchesTable
    /\ ExclusiveLease
    /\ CountersExact
    /\ NotifyInv
    /\ WipeInv
    /\ RobbedInv

-----------------------------------------------------------------------------
(* Facts about the definitions *)

\* NoId is not an ID, zero is one, and the successor of an ID wraps into Ids.
LEMMA IdFacts ==
    /\ NoId \notin Ids
    /\ 0 \in Ids
    /\ \A id \in Ids : HintAfter(id) \in Ids
  BY NumIdsAssumption, SMTT(30) DEF NoId, Ids, HintAfter

\* A table is a function from some IDs to streams.
LEMMA TableFacts ==
    ASSUME NEW t
    PROVE  t \in Table <=> /\ DOMAIN t \subseteq Ids
                           /\ t \in [DOMAIN t -> Stream]
  BY DEF Table

\* The set of used IDs is finite, so its cardinality is a number.
LEMMA FiniteTable ==
    ASSUME TypeOK
    PROVE  /\ IsFiniteSet(DOMAIN streams)
           /\ Cardinality(DOMAIN streams) \in Nat
  <1>1. IsFiniteSet(Ids)
    BY FS_Interval, NumIdsAssumption DEF Ids
  <1>2. DOMAIN streams \in SUBSET Ids
    BY TableFacts DEF TypeOK
  <1> QED
    BY <1>1, <1>2, FS_Subset, FS_CardinalityType
-----------------------------------------------------------------------------
\* The new manager satisfies the invariant.
LEMMA InitIInv == Init => IInv
  <1> SUFFICES ASSUME Init PROVE IInv
    OBVIOUS
  <1> USE DEF Init
  <1>0. DOMAIN streams = {} /\ streams \in [{} -> Stream]
    BY DEF NoStreams
  <1>a. streams \in Table
    BY <1>0, TableFacts
  <1>1. TypeOK
    BY <1>a, IdFacts DEF TypeOK, ClosePhases, Steps
  <1>2. BitmapMatchesTable /\ ExclusiveLease /\ NotifyInv /\ WipeInv /\ RobbedInv
    BY <1>0 DEF BitmapMatchesTable, ExclusiveLease, Holds, NotifyInv, WipeInv, Wiped, RobbedInv
  <1>3. CountersExact
    BY <1>0, FS_EmptySet DEF CountersExact
  <1> QED
    BY <1>1, <1>2, <1>3 DEF IInv

\* Allocation: the new ID was free, so nobody held it.
LEMMA AllocateIInv ==
    ASSUME IInv, NEW o \in Owners, TryAllocateStream(o)
    PROVE  IInv'
  <1> USE DEF IInv
  <1>1. PICK id \in Ids :
            /\ IsFreeBit(id)
            /\ nextHint' = HintAfter(id)
            /\ allocBitmap' = allocBitmap \union {id}
            /\ streams' = [i \in DOMAIN streams \union {id} |->
                              IF i = id THEN [owner |-> o, handler |-> Nobody]
                                        ELSE streams[i]]
            /\ lease' = [lease EXCEPT ![o] = id]
    BY DEF TryAllocateStream
  <1>2. /\ step[o] = "none" /\ closing = "open" /\ closing' = "open"
        /\ step' = [step EXCEPT ![o] = "allocated"]
        /\ connStreams' = connStreams + 1 /\ activeStreams' = activeStreams + 1
        /\ UNCHANGED <<toNotify, notified, remaining, robbed>>
    BY DEF TryAllocateStream, Indexed, closeVars
  <1>3. id \notin DOMAIN streams
    BY <1>1 DEF IsFreeBit, BitmapMatchesTable
  <1>4. DOMAIN streams' = DOMAIN streams \union {id}
    BY <1>1
  <1>5. \A p \in Owners \ robbed : Holds(p) => lease[p] # id
    BY <1>2, <1>3 DEF ExclusiveLease, Wiped
  <1>6. streams' \in Table
    <2>1. streams \in [DOMAIN streams -> Stream] /\ DOMAIN streams \subseteq Ids
      BY TableFacts DEF TypeOK
    <2>2. streams' \in [DOMAIN streams' -> Stream]
      BY <2>1, <1>1, <1>4 DEF Stream
    <2>3. DOMAIN streams' \subseteq Ids
      BY <2>1, <1>4
    <2> QED
      BY <2>2, <2>3, TableFacts
  <1>7. TypeOK'
    <2>1. /\ lease' \in [Owners -> Ids \union {NoId}]
          /\ step' \in [Owners -> Steps]
          /\ \A p \in Owners : step'[p] = "none" <=> lease'[p] = NoId
      BY <1>1, <1>2, IdFacts DEF TypeOK, Steps
    <2> QED
      BY <2>1, <1>1, <1>2, <1>6, IdFacts DEF TypeOK, ClosePhases
  <1>8. BitmapMatchesTable'
    BY <1>1, <1>4 DEF BitmapMatchesTable
  <1>9. ExclusiveLease'
    <2>h. /\ Holds(o)' /\ lease'[o] = id
          /\ \A p \in Owners \ {o} : (Holds(p)' <=> Holds(p)) /\ lease'[p] = lease[p]
      BY <1>1, <1>2 DEF TypeOK, Holds
    <2>o. \A i \in DOMAIN streams : streams[i].owner \in Owners
      BY TableFacts DEF TypeOK, Stream
    <2>1. ~Holds(o) /\ \A i \in DOMAIN streams : i # id /\ streams[i].owner # o
      BY <2>o, <1>2, <1>3 DEF ExclusiveLease, Holds, Indexed
    <2>r. o \notin robbed'
      BY <1>2, <2>1 DEF RobbedInv, Indexed
    <2>2. ASSUME NEW i \in DOMAIN streams', NEW p \in Owners, streams'[i].owner = p
          PROVE  Holds(p)' /\ p \notin robbed' /\ lease'[p] = i
      <3>1. CASE i = id
        BY <3>1, <2>2, <2>h, <2>r, <1>1, <1>4
      <3>2. CASE i # id
        <4>1. i \in DOMAIN streams /\ streams[i].owner = p /\ p # o
          BY <3>2, <2>2, <2>1, <1>1, <1>4
        <4>2. Holds(p) /\ p \notin robbed /\ lease[p] = i
          BY <4>1, <2>2, <1>2 DEF ExclusiveLease, Indexed
        <4> QED
          BY <4>1, <4>2, <2>2, <2>h, <1>2
      <3> QED
        BY <3>1, <3>2
    <2>3. \A p, q \in Owners \ robbed' :
              Holds(p)' /\ Holds(q)' /\ lease'[p] = lease'[q] => p = q
      <3> SUFFICES ASSUME NEW p \in Owners \ robbed, NEW q \in Owners \ robbed,
                          Holds(p)', Holds(q)', lease'[p] = lease'[q]
                   PROVE  p = q
        BY <1>2
      <3>1. CASE p # o /\ q # o
        BY <3>1, <2>h DEF ExclusiveLease
      <3>2. CASE (p = o) # (q = o)
        BY <3>2, <2>h, <1>5
      <3> QED
        BY <3>1, <3>2
    <2>4. \A p \in Owners \ robbed' : Holds(p)' =>
              lease'[p] \in DOMAIN streams' /\ streams'[lease'[p]].owner = p
      <3>1. streams'[id].owner = o
        BY <1>1, <1>4
      <3>2. ASSUME NEW p \in Owners \ robbed, p # o, Holds(p)
            PROVE  lease[p] \in DOMAIN streams' /\ streams'[lease[p]].owner = p
        BY <3>2, <1>1, <1>2, <1>3, <1>4 DEF ExclusiveLease, Wiped
      <3> QED
        BY <3>1, <3>2, <2>h, <1>2, <1>4
    <2> QED
      BY <2>2, <2>3, <2>4 DEF ExclusiveLease
  <1>10. CountersExact'
    <2>1. Cardinality(DOMAIN streams') = Cardinality(DOMAIN streams) + 1
      BY <1>3, <1>4, FiniteTable, FS_AddElement
    <2> QED
      BY <2>1, <1>2, FiniteTable DEF CountersExact, TypeOK
  <1>11. NotifyInv' /\ WipeInv'
    BY <1>2 DEF NotifyInv, WipeInv, Wiped
  <1>12. RobbedInv'
    BY <1>1, <1>2 DEF RobbedInv, Indexed, Holds, TypeOK
  <1> QED
    BY <1>7, <1>8, <1>9, <1>10, <1>11, <1>12

\* Registering a handler changes neither the IDs nor their owners.
LEMMA RegisterIInv ==
    ASSUME IInv, NEW o \in Owners, RegisterHandler(o)
    PROVE  IInv'
  <1> USE DEF IInv
  <1>1. /\ closing = "open" /\ lease[o] \in DOMAIN streams /\ step[o] = "allocated"
        /\ streams' = [streams EXCEPT ![lease[o]].handler = o]
        /\ step' = [step EXCEPT ![o] = "registered"]
        /\ UNCHANGED <<allocBitmap, nextHint, connStreams, activeStreams, lease,
                       closing, toNotify, notified, remaining, robbed>>
    BY DEF RegisterHandler, Indexed, closeVars
  <1>2. streams \in [DOMAIN streams -> Stream] /\ DOMAIN streams \subseteq Ids
    BY TableFacts DEF TypeOK
  <1>3. /\ DOMAIN streams' = DOMAIN streams
        /\ \A i \in DOMAIN streams : streams'[i].owner = streams[i].owner
    BY <1>1, <1>2 DEF Stream
  <1>4. streams' \in Table
    <2>1. streams' \in [DOMAIN streams' -> Stream]
      <3>1. [streams[lease[o]] EXCEPT !.handler = o] \in Stream
        BY <1>1, <1>2 DEF Stream
      <3> QED
        BY <1>1, <1>2, <1>3, <3>1
    <2> QED
      BY <2>1, <1>2, <1>3, TableFacts
  <1>h. \A p \in Owners : Holds(p)' <=> Holds(p)
    BY <1>1 DEF Holds, TypeOK
  <1>5. TypeOK'
    <2>1. /\ step' \in [Owners -> Steps]
          /\ \A p \in Owners : step'[p] = "none" <=> lease'[p] = NoId
      BY <1>1 DEF TypeOK, Steps
    <2> QED
      BY <2>1, <1>1, <1>4 DEF TypeOK
  <1>6. BitmapMatchesTable' /\ CountersExact'
    BY <1>1, <1>3 DEF BitmapMatchesTable, CountersExact
  <1>7. ExclusiveLease'
    <2>1. \A i \in DOMAIN streams' :
              streams'[i].owner = streams[i].owner /\ streams[i].owner \in Owners
      BY <1>2, <1>3 DEF Stream
    <2> QED
      BY <2>1, <1>1, <1>3, <1>h DEF ExclusiveLease, Wiped, Indexed
  <1>8. NotifyInv' /\ WipeInv'
    BY <1>1, <1>3 DEF NotifyInv, WipeInv, Wiped
  <1>9. RobbedInv'
    BY <1>1, <1>h DEF RobbedInv, Indexed, TypeOK
  <1> QED
    BY <1>5, <1>6, <1>7, <1>8, <1>9

\* What giving up an ID changes for its owner, and for nobody else.
LEMMA GivesUpFacts ==
    ASSUME TypeOK, NEW o \in Owners, step[o] # "none", GivesUp(o)
    PROVE  /\ lease' \in [Owners -> Ids \union {NoId}]
           /\ step' \in [Owners -> Steps]
           /\ \A p \in Owners : step'[p] = "none" <=> lease'[p] = NoId
           /\ ~Holds(o)'
           /\ \A p \in Owners \ {o} : (Holds(p)' <=> Holds(p)) /\ lease'[p] = lease[p]
  <1>1. CASE /\ lease' = [lease EXCEPT ![o] = NoId]
             /\ step' = [step EXCEPT ![o] = "none"]
    BY <1>1 DEF TypeOK, Steps, Holds
  <1>2. CASE /\ step[o] = "registered" /\ lease' = lease
             /\ step' = [step EXCEPT ![o] = "again"]
    BY <1>2 DEF TypeOK, Steps, Holds
  <1> QED
    BY <1>1, <1>2 DEF GivesUp

\* An owner's cleanup frees its own stream, finds it gone, or, when its ID is
\* stale, frees the stream of another, who is robbed.
LEMMA UnregisterIInv ==
    ASSUME IInv, NEW o \in Owners, UnregisterStream(o)
    PROVE  IInv'
  <1> USE DEF IInv
  <1>1. /\ step[o] # "none" /\ GivesUp(o)
        /\ UNCHANGED <<nextHint, closing, toNotify, notified, remaining>>
    BY DEF UnregisterStream, closeVars
  <1>2. streams \in [DOMAIN streams -> Stream] /\ DOMAIN streams \subseteq Ids
    BY TableFacts DEF TypeOK
  <1>g. /\ lease' \in [Owners -> Ids \union {NoId}]
        /\ step' \in [Owners -> Steps]
        /\ \A p \in Owners : step'[p] = "none" <=> lease'[p] = NoId
    BY <1>1, GivesUpFacts
  <1>h. /\ ~Holds(o)'
        /\ \A p \in Owners \ {o} : (Holds(p)' <=> Holds(p)) /\ lease'[p] = lease[p]
    BY <1>1, GivesUpFacts
  <1>o. \A i \in DOMAIN streams : streams[i].owner \in Owners
    BY <1>2 DEF Stream
  <1>3. /\ DOMAIN streams' = DOMAIN streams \ {lease[o]}
        /\ \A i \in DOMAIN streams' : streams'[i] = streams[i]
    BY DEF UnregisterStream
  <1>4. /\ \A p \in robbed \ {o} : p \in robbed'
        /\ \A p \in robbed' : p # o
        /\ \A p \in robbed' : \/ p \in robbed
                              \/ lease[o] \in DOMAIN streams /\ p = streams[lease[o]].owner
        /\ lease[o] \in DOMAIN streams /\ Stale(o) /\ streams[lease[o]].owner # o
              => streams[lease[o]].owner \in robbed'
    <2>1. CASE lease[o] \in DOMAIN streams
      <3>1. robbed' = (robbed \union (IF Stale(o) THEN {streams[lease[o]].owner} ELSE {})) \ {o}
        BY <2>1 DEF UnregisterStream
      <3>2. CASE Stale(o)
        BY <3>1, <3>2, <2>1
      <3>3. CASE ~Stale(o)
        BY <3>1, <3>3, <2>1
      <3> QED
        BY <3>2, <3>3
    <2>2. CASE lease[o] \notin DOMAIN streams
      <3>1. robbed' = robbed \ {o}
        BY <2>2 DEF UnregisterStream
      <3> QED
        BY <3>1, <2>2
    <2> QED
      BY <2>1, <2>2
  <1>5. /\ streams' \in Table /\ allocBitmap' = allocBitmap \ {lease[o]}
        /\ connStreams' \in Nat /\ activeStreams' \in Int /\ CountersExact'
    <2>t. streams' \in Table
      <3>1. streams' = [i \in DOMAIN streams' |-> streams'[i]]
        BY <1>2 DEF UnregisterStream
      <3>2. streams' \in [DOMAIN streams' -> Stream]
        BY <3>1, <1>2, <1>3
      <3> QED
        BY <3>2, <1>2, <1>3, TableFacts
    <2>1. CASE lease[o] \in DOMAIN streams
      <3>1. /\ allocBitmap' = allocBitmap \ {lease[o]}
            /\ connStreams' = Floored(connStreams, 1)
            /\ activeStreams' = activeStreams - 1
        BY <2>1 DEF UnregisterStream, ClearBit
      <3>2. /\ Cardinality(DOMAIN streams') = Cardinality(DOMAIN streams) - 1
            /\ Cardinality(DOMAIN streams') \in Nat
        BY <1>3, <2>1, FiniteTable, FS_RemoveElement, FS_CardinalityType
      <3>3. CountersExact' /\ connStreams' \in Nat /\ activeStreams' \in Int
        BY <3>1, <3>2, <1>1, FiniteTable DEF CountersExact, TypeOK, Floored
      <3> QED
        BY <2>t, <3>1, <3>3
    <2>2. CASE lease[o] \notin DOMAIN streams
      <3>1. UNCHANGED <<streams, allocBitmap, connStreams, activeStreams>>
        BY <2>2 DEF UnregisterStream
      <3>2. allocBitmap' = allocBitmap \ {lease[o]}
        BY <3>1, <2>2 DEF BitmapMatchesTable
      <3> QED
        BY <2>t, <3>1, <3>2, <1>1 DEF CountersExact, TypeOK
    <2> QED
      BY <2>1, <2>2
  <1>6. TypeOK'
    <2>1. robbed' \subseteq Owners
      BY <1>4, <1>o DEF TypeOK
    <2> QED
      BY <2>1, <1>1, <1>5, <1>g DEF TypeOK
  <1>7. BitmapMatchesTable'
    BY <1>3, <1>5 DEF BitmapMatchesTable
  <1>8. ExclusiveLease'
    <2>1. ASSUME NEW i \in DOMAIN streams', NEW p \in Owners, streams'[i].owner = p
          PROVE  \/ Holds(p)' /\ p \notin robbed' /\ lease'[p] = i
                 \/ ~Indexed' /\ ~Holds(p)'
      <3>1. i \in DOMAIN streams /\ i # lease[o] /\ streams[i].owner = p
        BY <2>1, <1>3
      <3>2. CASE Holds(p) /\ p \notin robbed /\ lease[p] = i
        <4>1. p # o
          BY <3>1, <3>2
        <4>2. p \notin robbed'
          <5>1. ~(lease[o] \in DOMAIN streams /\ p = streams[lease[o]].owner)
            BY <3>1, <3>2 DEF ExclusiveLease
          <5> QED
            BY <5>1, <3>2, <1>4
        <4> QED
          BY <4>1, <4>2, <2>1, <3>1, <3>2, <1>h
      <3>3. CASE ~Indexed /\ ~Holds(p)
        BY <2>1, <3>1, <3>3, <1>1, <1>h DEF Indexed
      <3> QED
        BY <2>1, <3>1, <3>2, <3>3 DEF ExclusiveLease
    <2>2. ASSUME NEW p \in Owners \ robbed', NEW q \in Owners \ robbed',
                 Holds(p)', Holds(q)', lease'[p] = lease'[q]
          PROVE  p = q
      <3>1. p # o /\ q # o /\ p \notin robbed /\ q \notin robbed
        BY <2>2, <1>h, <1>4
      <3> QED
        BY <3>1, <2>2, <1>h DEF ExclusiveLease
    <2>3. ASSUME ~Wiped', NEW p \in Owners \ robbed', Holds(p)'
          PROVE  lease'[p] \in DOMAIN streams' /\ streams'[lease'[p]].owner = p
      <3>1. p # o /\ p \notin robbed /\ Holds(p) /\ lease'[p] = lease[p] /\ ~Wiped
        BY <2>3, <1>1, <1>h, <1>4 DEF Wiped
      <3>2. lease[p] \in DOMAIN streams /\ streams[lease[p]].owner = p
        BY <3>1 DEF ExclusiveLease
      <3>3. lease[p] # lease[o]
        <4> SUFFICES ASSUME lease[p] = lease[o] PROVE FALSE
          OBVIOUS
        <4>1. ~Stale(o)
          BY <3>1, <3>2, <1>4
        <4>2. Holds(o) /\ o \notin robbed
          BY <4>1, <1>1 DEF Stale, Holds, TypeOK, Steps
        <4> QED
          BY <4>2, <3>1, <3>2 DEF ExclusiveLease
      <3> QED
        BY <3>1, <3>2, <3>3, <1>3
    <2> QED
      BY <2>1, <2>2, <2>3 DEF ExclusiveLease
  <1>9. NotifyInv' /\ WipeInv'
    BY <1>1, <1>3 DEF NotifyInv, WipeInv, Wiped
  <1>10. RobbedInv'
    <2> SUFFICES ASSUME Indexed', NEW p \in robbed' PROVE Holds(p)'
      BY DEF RobbedInv
    <2>1. Indexed /\ p # o /\ p \in Owners
      BY <1>1, <1>4, <1>o DEF Indexed, TypeOK
    <2>2. Holds(p)
      BY <2>1, <1>4 DEF RobbedInv, ExclusiveLease
    <2> QED
      BY <2>1, <2>2, <1>h
  <1> QED
    BY <1>5, <1>6, <1>7, <1>8, <1>9, <1>10

\* A cleanup that no longer reaches the manager leaves the table alone.
LEMMA DetachedIInv ==
    ASSUME IInv, NEW o \in Owners, UnregisterDetached(o)
    PROVE  IInv'
  <1> USE DEF IInv
  <1>1. /\ closing # "open" /\ step[o] # "none" /\ GivesUp(o)
        /\ robbed' = robbed \ {o}
        /\ UNCHANGED <<streams, allocBitmap, nextHint, connStreams, activeStreams,
                       closing, toNotify, notified, remaining>>
    BY DEF UnregisterDetached, Indexed, closeVars
  <1>2. \A i \in DOMAIN streams : streams[i].owner \in Owners
    BY TableFacts DEF TypeOK, Stream
  <1>3. TypeOK'
    <2>1. /\ lease' \in [Owners -> Ids \union {NoId}]
          /\ step' \in [Owners -> Steps]
          /\ \A p \in Owners : step'[p] = "none" <=> lease'[p] = NoId
      BY <1>1, GivesUpFacts
    <2> QED
      BY <2>1, <1>1 DEF TypeOK
  <1>h. /\ ~Holds(o)'
        /\ \A p \in Owners \ {o} : (Holds(p)' <=> Holds(p)) /\ lease'[p] = lease[p]
    BY <1>1, GivesUpFacts
  <1>4. BitmapMatchesTable' /\ CountersExact' /\ NotifyInv' /\ WipeInv' /\ RobbedInv'
    BY <1>1 DEF BitmapMatchesTable, CountersExact, NotifyInv, WipeInv, Wiped, RobbedInv, Indexed
  <1>5. ExclusiveLease'
    <2>1. ASSUME NEW i \in DOMAIN streams, NEW p \in Owners, streams[i].owner = p
          PROVE  \/ Holds(p)' /\ p \notin robbed' /\ lease'[p] = i
                 \/ ~Holds(p)'
      BY <2>1, <1>1, <1>2, <1>h DEF ExclusiveLease
    <2>2. ~Indexed'
      BY <1>1 DEF Indexed
    <2>3. \A p, q \in Owners \ robbed' :
              Holds(p)' /\ Holds(q)' /\ lease'[p] = lease'[q] => p = q
      BY <1>1, <1>h DEF ExclusiveLease
    <2>4. ~Wiped' => \A p \in Owners \ robbed' :
              Holds(p)' => lease'[p] \in DOMAIN streams' /\ streams'[lease'[p]].owner = p
      BY <1>1, <1>h DEF ExclusiveLease, Wiped
    <2> QED
      BY <2>1, <2>2, <2>3, <2>4, <1>1 DEF ExclusiveLease
  <1> QED
    BY <1>3, <1>4, <1>5

\* The critical sections of HandleConnectionClose and the callbacks between.
LEMMA CloseIInv ==
    ASSUME IInv, HandleConnectionClose
    PROVE  IInv'
  <1> USE DEF IInv
  <1> USE DEF ownerVars, closeVars
  <1>t. streams \in [DOMAIN streams -> Stream]
    BY TableFacts DEF TypeOK
  <1>h. \A p : step' = step => (Holds(p)' <=> Holds(p))
    BY DEF Holds
  <1>1. CASE CloseSnapshot
    <2> USE <1>1 DEF CloseSnapshot
    <2>1. toNotify' \subseteq Owners
      BY <1>t DEF Stream
    <2>2. TypeOK'
      BY <2>1 DEF TypeOK, ClosePhases
    <2>3. BitmapMatchesTable' /\ CountersExact' /\ WipeInv' /\ RobbedInv'
      BY DEF BitmapMatchesTable, CountersExact, WipeInv, Wiped, RobbedInv, Indexed
    <2>4. ExclusiveLease'
      BY <1>h DEF ExclusiveLease, Wiped, Indexed
    <2>5. NotifyInv'
      BY DEF NotifyInv
    <2> QED
      BY <2>2, <2>3, <2>4, <2>5
  <1>2. ASSUME NEW o \in Owners, CloseCallback(o) PROVE IInv'
    <2> USE <1>2 DEF CloseCallback
    <2>1. TypeOK'
      BY DEF TypeOK
    <2>2. BitmapMatchesTable' /\ CountersExact' /\ WipeInv' /\ RobbedInv'
      BY <1>h DEF BitmapMatchesTable, CountersExact, WipeInv, Wiped, RobbedInv, Indexed
    <2>3. ExclusiveLease'
      BY <1>h DEF ExclusiveLease, Wiped, Indexed
    <2>4. NotifyInv'
      BY DEF NotifyInv
    <2> QED
      BY <2>1, <2>2, <2>3, <2>4
  <1>3. CASE CloseWipe
    <2> USE <1>3 DEF CloseWipe, CallbacksDone, StreamsLeft
    <2>1. streams' \in [{} -> Stream] /\ DOMAIN streams' = {}
      BY DEF NoStreams
    <2>2. streams' \in Table
      BY <2>1, TableFacts
    <2>3. TypeOK'
      BY <2>2, FiniteTable, IdFacts DEF TypeOK, ClosePhases
    <2>4. BitmapMatchesTable' /\ WipeInv' /\ NotifyInv' /\ RobbedInv'
      BY <2>1 DEF BitmapMatchesTable, WipeInv, NotifyInv, Wiped, RobbedInv, Indexed
    <2>5. ExclusiveLease'
      BY <2>1, <1>h DEF ExclusiveLease, Wiped, Indexed
    <2>6. CountersExact'
      <3>1. Cardinality(DOMAIN streams') = 0
        BY <2>1, FS_EmptySet
      <3>2. remaining = 0
        BY DEF WipeInv
      <3> QED
        BY <3>1, <3>2, FiniteTable DEF CountersExact, TypeOK
    <2> QED
      BY <2>3, <2>4, <2>5, <2>6
  <1>4. CASE CloseCounters
    <2> USE <1>4 DEF CloseCounters
    <2>1. Cardinality(DOMAIN streams) = 0
      BY FS_EmptySet DEF WipeInv, Wiped
    <2>2. /\ connStreams' = 0 /\ activeStreams' = 0 /\ remaining' = 0
      BY <2>1 DEF CountersExact, TypeOK, Floored
    <2>3. TypeOK'
      BY <2>2 DEF TypeOK, ClosePhases
    <2>4. BitmapMatchesTable' /\ WipeInv' /\ NotifyInv' /\ RobbedInv'
      BY <2>2 DEF BitmapMatchesTable, WipeInv, NotifyInv, Wiped, RobbedInv, Indexed
    <2>6. ExclusiveLease'
      BY <2>2, <1>h DEF ExclusiveLease, Wiped, Indexed
    <2>5. CountersExact'
      BY <2>1, <2>2 DEF CountersExact
    <2> QED
      BY <2>3, <2>4, <2>5, <2>6
  <1> QED
    BY <1>1, <1>2, <1>3, <1>4 DEF HandleConnectionClose

\* Every step preserves the invariant.
LEMMA NextIInv ==
    ASSUME IInv, [Next]_vars
    PROVE  IInv'
  <1>1. CASE UNCHANGED vars
    <2>1. \A p : Holds(p)' <=> Holds(p)
      BY <1>1 DEF vars, ownerVars, Holds
    <2> QED
      BY <1>1, <2>1 DEF vars, ownerVars, closeVars, IInv, TypeOK, BitmapMatchesTable,
                        ExclusiveLease, CountersExact, NotifyInv, WipeInv, RobbedInv,
                        Wiped, Indexed
  <1>2. CASE Next
    BY <1>2, AllocateIInv, RegisterIInv, UnregisterIInv, DetachedIInv, CloseIInv DEF Next
  <1> QED
    BY <1>1, <1>2

\* IInv is an invariant of the specification.
THEOREM Invariance == Spec => []IInv
  <1> QED
    BY InitIInv, NextIInv, PTL DEF Spec

\* Every variable keeps its type: sm.conn.Streams never goes negative, so its
\* floor never hides a miscount.
THEOREM TypeCorrect == Spec => []TypeOK
  <1>1. IInv => TypeOK
    BY DEF IInv
  <1> QED
    BY <1>1, Invariance, PTL

\* tryAllocateStream and UnregisterStream keep the bitmap and the table in step.
THEOREM BitmapCorrect == Spec => []BitmapMatchesTable
  <1>1. IInv => BitmapMatchesTable
    BY DEF IInv
  <1> QED
    BY <1>1, Invariance, PTL

\* No stream ID is shared by two owners, and only its owner frees it, until a
\* request unregisters an ID that it has given up, or one that has lost its stream
\* in this way unregisters it.
THEOREM LeaseCorrect == Spec => []ExclusiveLease
  <1>1. IInv => ExclusiveLease
    BY DEF IInv
  <1> QED
    BY <1>1, Invariance, PTL

\* The stream counters of the connection are exact, also when an owner's
\* cleanup overlaps HandleConnectionClose.
THEOREM CountersCorrect == Spec => []CountersExact
  <1>1. IInv => CountersExact
    BY DEF IInv
  <1> QED
    BY <1>1, Invariance, PTL

\* Whatever the owners do meanwhile, a close that has ended leaves no stream and
\* no count behind: the safety half of CloseCompletes.
THEOREM ClosedIsClean ==
    Spec => [](closing = "closed" => DOMAIN streams = {} /\ connStreams = 0
                                       /\ activeStreams = 0)
  <1>1. IInv /\ closing = "closed" =>
            DOMAIN streams = {} /\ connStreams = 0 /\ activeStreams = 0
    BY FS_EmptySet DEF IInv, TypeOK, WipeInv, Wiped, CountersExact
  <1> QED
    BY <1>1, Invariance, PTL

\* HandleConnectionClose calls OnClose of every registered stream it wipes.
THEOREM NotifyCorrect == Spec => WipeOnlyNotified
  <1>1. ASSUME IInv, [Next]_vars
        PROVE  [closing = "callbacks" /\ closing' = "counters" =>
                  \A id \in DOMAIN streams :
                      streams[id].handler # Nobody => streams[id].handler \in notified]_vars
    <2> SUFFICES ASSUME closing = "callbacks", closing' = "counters",
                        NEW id \in DOMAIN streams, streams[id].handler # Nobody
                 PROVE  streams[id].handler \in notified
      OBVIOUS
    <2>1. toNotify = {}
      BY <1>1 DEF Next, vars, HandleConnectionClose, TryAllocateStream, RegisterHandler,
                  UnregisterStream, UnregisterDetached, CloseSnapshot,
                  CloseCallback, CloseWipe,
                  CallbacksDone, CloseCounters, closeVars
    <2> QED
      BY <2>1, <1>1 DEF IInv, NotifyInv
  <1> QED
    BY <1>1, Invariance, PTL DEF Spec, WipeOnlyNotified

-----------------------------------------------------------------------------
(* Refinement *)

\* The instance brings its own copy of FiniteSets.
LEMMA SameCardinality ==
    ASSUME NEW S
    PROVE  Lease!Cardinality(S) = Cardinality(S)
  BY DEF Lease!Cardinality, Cardinality

\* As many IDs are used as the abstract service counts holders, or more.
LEMMA HoldersFit ==
    ASSUME IInv
    PROVE  /\ IsFiniteSet(Lease!Holders)
           /\ Cardinality(Lease!Holders) <= Cardinality(DOMAIN streams)
  <1> DEFINE f == [o \in Lease!Holders |-> lease[o]]
  <1>1. \A o \in Lease!Holders :
            o \in Owners /\ lease[o] \in DOMAIN streams /\ streams[lease[o]].owner = o
    BY DEF Lease!Holders, Held
  <1>2. f \in Injection(Lease!Holders, DOMAIN streams)
    <2>1. f \in [Lease!Holders -> DOMAIN streams]
      BY <1>1
    <2>2. \A o, p \in Lease!Holders : f[o] = f[p] => o = p
      BY <1>1
    <2> QED
      BY <2>1, <2>2 DEF Injection, IsInjective
  <1>3. IsFiniteSet(DOMAIN streams)
    BY FiniteTable DEF IInv
  <1> QED
    BY <1>2, <1>3, FS_Injection

\* Initially nothing is held.
LEMMA LeaseInit == Init => Lease!Init
  <1> SUFFICES ASSUME Init PROVE Lease!Init
    OBVIOUS
  <1>1. Held = [o \in Owners |-> NoId]
    BY DEF Init, Held, NoStreams
  <1> QED
    BY <1>1 DEF Init, Lease!Init

\* Every step of the manager is a step of the lease service, or none.
LEMMA LeaseNext ==
    ASSUME IInv, IInv', [Next]_vars
    PROVE  [Lease!Next]_<<Held, (closing = "open")>>
  <1> USE DEF IInv
  <1>h. NoId \notin DOMAIN streams /\ NoId \notin DOMAIN streams'
    BY TableFacts, IdFacts DEF TypeOK
  <1>1. ASSUME NEW o \in Owners, TryAllocateStream(o) PROVE Lease!Acquire(o)
    <2>1. PICK id \in Ids :
              /\ IsFreeBit(id)
              /\ streams' = [i \in DOMAIN streams \union {id} |->
                                IF i = id THEN [owner |-> o, handler |-> Nobody]
                                          ELSE streams[i]]
              /\ lease' = [lease EXCEPT ![o] = id]
      BY <1>1 DEF TryAllocateStream
    <2>2. /\ closing = "open" /\ closing' = "open" /\ step[o] = "none"
          /\ step' = [step EXCEPT ![o] = "allocated"]
          /\ ~(Cardinality(DOMAIN streams) >= MaxStreams)
      BY <1>1 DEF TryAllocateStream, Indexed, Full, closeVars
    <2>3. id \notin DOMAIN streams /\ DOMAIN streams' = DOMAIN streams \union {id}
      BY <2>1 DEF IsFreeBit, BitmapMatchesTable
    <2>4. Held[o] = NoId
      BY <2>2 DEF Held, Holds
    <2>5. \A p \in Owners : Held[p] # id
      BY <2>3, IdFacts DEF Held
    <2>6. Held' = [Held EXCEPT ![o] = id]
      <3>1. /\ Holds(o)' /\ lease'[o] = id /\ streams'[id].owner = o
            /\ \A p \in Owners \ {o} : (Holds(p)' <=> Holds(p)) /\ lease'[p] = lease[p]
        BY <2>1, <2>2 DEF Holds, TypeOK
      <3>2. Held'[o] = id
        BY <3>1, <2>3 DEF Held
      <3>3. ASSUME NEW p \in Owners \ {o} PROVE Held'[p] = Held[p]
        <4>1. \A i \in DOMAIN streams : streams'[i] = streams[i]
          BY <2>1, <2>3
        <4>2. CASE lease[p] = id
          BY <4>2, <3>1, <2>1, <2>3 DEF Held
        <4>3. CASE lease[p] # id
          BY <4>1, <4>3, <3>1, <2>3 DEF Held
        <4> QED
          BY <4>2, <4>3
      <3>4. Held' = [p \in Owners |-> Held'[p]] /\ DOMAIN Held = Owners
        BY DEF Held
      <3> QED
        BY <3>2, <3>3, <3>4
    <2>7. Lease!Cardinality(Lease!Holders) < MaxStreams
      <3>1. Cardinality(Lease!Holders) \in Nat
        BY HoldersFit, FS_CardinalityType
      <3>2. Cardinality(Lease!Holders) < MaxStreams
        BY <3>1, <2>2, HoldersFit, FiniteTable, MaxStreamsAssumption
      <3> QED
        BY <3>2, SameCardinality
    <2> QED
      BY <2>2, <2>4, <2>5, <2>6, <2>7 DEF Lease!Acquire
  <1>2. ASSUME NEW o \in Owners, RegisterHandler(o)
        PROVE  Held' = Held /\ (closing' = "open") = (closing = "open")
    <2>1. /\ DOMAIN streams' = DOMAIN streams /\ lease' = lease /\ closing' = closing
          /\ \A i \in DOMAIN streams : streams'[i].owner = streams[i].owner
      <3>1. streams \in [DOMAIN streams -> Stream]
        BY TableFacts DEF TypeOK
      <3> QED
        BY <1>2, <3>1 DEF RegisterHandler, closeVars, Stream
    <2>2. \A p \in Owners : Holds(p)' <=> Holds(p)
      BY <1>2 DEF RegisterHandler, Holds, TypeOK
    <2> QED
      BY <2>1, <2>2 DEF Held
  <1>9. ASSUME NEW o \in Owners, UnregisterDetached(o)
        PROVE  \/ Lease!Release(o)
               \/ Held' = Held /\ (closing' = "open") = (closing = "open")
    <2>1. closing' = closing /\ streams' = streams /\ step[o] # "none" /\ GivesUp(o)
      BY <1>9 DEF UnregisterDetached, closeVars
    <2>2. /\ ~Holds(o)'
          /\ \A p \in Owners \ {o} : (Holds(p)' <=> Holds(p)) /\ lease'[p] = lease[p]
      BY <2>1, GivesUpFacts
    <2>3. Held' = [Held EXCEPT ![o] = NoId]
      BY <2>1, <2>2 DEF Held
    <2> QED
      BY <2>1, <2>3 DEF Lease!Release, Held
  <1>3. ASSUME NEW o \in Owners, UnregisterStream(o)
        PROVE  \/ \E q \in Owners : Lease!Release(q)
               \/ Held' = Held /\ (closing' = "open") = (closing = "open")
    <2>1. closing' = closing /\ step[o] # "none" /\ GivesUp(o)
      BY <1>3 DEF UnregisterStream, closeVars
    <2>2. /\ ~Holds(o)'
          /\ \A p \in Owners \ {o} : (Holds(p)' <=> Holds(p)) /\ lease'[p] = lease[p]
      BY <2>1, GivesUpFacts
    <2>3. /\ DOMAIN streams' = DOMAIN streams \ {lease[o]}
          /\ \A i \in DOMAIN streams' : streams'[i] = streams[i]
      BY <1>3 DEF UnregisterStream
    <2>4. CASE \A q \in Owners : Held[q] = NoId \/ Held[q] # lease[o]
      <3>1. ASSUME NEW p \in Owners PROVE Held'[p] = Held[p]
        <4>1. CASE p = o
          BY <4>1, <2>2, <2>4 DEF Held
        <4>2. CASE p # o
          BY <4>2, <2>2, <2>3, <2>4, <1>h DEF Held
        <4> QED
          BY <4>1, <4>2
      <3>2. Held' = Held
        BY <3>1 DEF Held
      <3> QED
        BY <3>2, <2>1
    <2>5. ASSUME NEW q \in Owners, Held[q] # NoId, Held[q] = lease[o]
          PROVE  Lease!Release(q)
      <3>1. Holds(q) /\ lease[q] = lease[o] /\ lease[o] \in DOMAIN streams /\ streams[lease[o]].owner = q
        BY <2>5 DEF Held
      <3>2. Held'[q] = NoId
        BY <3>1, <2>2, <2>3 DEF Held
      <3>3. ASSUME NEW p \in Owners \ {q} PROVE Held'[p] = Held[p]
        <4>1. CASE p = o
          BY <4>1, <3>1, <2>2 DEF Held
        <4>2. CASE p # o /\ lease[p] = lease[o]
          BY <4>2, <3>1, <2>2, <2>3 DEF Held
        <4>3. CASE p # o /\ lease[p] # lease[o]
          BY <4>3, <2>2, <2>3 DEF Held
        <4> QED
          BY <4>1, <4>2, <4>3
      <3>4. Held' = [Held EXCEPT ![q] = NoId]
        <4>1. Held' = [p \in Owners |-> Held'[p]] /\ DOMAIN Held = Owners
          BY DEF Held
        <4> QED
          BY <4>1, <3>2, <3>3
      <3> QED
        BY <3>4, <2>1, <2>5 DEF Lease!Release
    <2> QED
      BY <2>4, <2>5
  <1>s. ASSUME streams' = streams /\ UNCHANGED ownerVars PROVE Held' = Held
    BY <1>s DEF ownerVars, Held, Holds
  <1>4. CloseSnapshot => Lease!Shut
    BY <1>s DEF CloseSnapshot, Lease!Shut
  <1>5. ASSUME NEW o \in Owners, CloseCallback(o)
        PROVE  Held' = Held /\ (closing' = "open") = (closing = "open")
    BY <1>5, <1>s DEF CloseCallback
  <1>6. ASSUME CloseWipe PROVE Lease!Revoke
    <2>1. Held' = [o \in Owners |-> NoId]
      BY <1>6 DEF CloseWipe, Held, NoStreams
    <2> QED
      BY <1>6, <2>1 DEF CloseWipe, CallbacksDone, Lease!Revoke
  <1>7. CloseCounters => Held' = Held /\ (closing' = "open") = (closing = "open")
    BY <1>s DEF CloseCounters
  <1>8. UNCHANGED vars => Held' = Held /\ (closing' = "open") = (closing = "open")
    BY <1>s DEF vars, closeVars
  <1> QED
    BY <1>1, <1>2, <1>3, <1>4, <1>5, <1>6, <1>7, <1>8, <1>9
       DEF Next, HandleConnectionClose, Lease!Next

\* The manager implements the lease service: tryAllocateStream, UnregisterStream
\* and HandleConnectionClose are its Acquire, Release, Shut and Revoke.
THEOREM Implements == Spec => ImplementsLease
  <1> QED
    BY LeaseInit, LeaseNext, Invariance, PTL DEF Spec, ImplementsLease, Lease!Spec
=============================================================================
