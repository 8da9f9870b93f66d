--------------------------- MODULE Dialing_proofs ----------------------------
(***************************************************************************)
(* Machine-checked facts about Dialing, for any number of dials, nodes and  *)
(* keys, and with ECH and relays together.                                  *)
(***************************************************************************)
EXTENDS Dialing, FiniteSetTheorems, TLAPS

\* A call that rests has no node; one that counts itself or no longer does has one.
DialSet ==
    {c \in [at : DialSteps, node : Nodes \union {NoNode}, key : 0 .. MaxKey] :
        /\ c.at \in Quiet => c.node = NoNode
        /\ c.at \in {"chosen", "unload"} => c.node # NoNode}

WarmupSet == [at : {"ready", "waiting", "done"}, created : Nat, streak : 0 .. 3,
              batch : SUBSET Warmers, size : 0 .. Concurrency, failed : Nat]

RefreshSteps == {"idle", "started"} \union QuerySteps

\* What TypeOK says of the variables that neither count nor are counted.
OtherTypes ==
    /\ live \in Nat /\ spinning \in BOOLEAN
    /\ forcing \in BOOLEAN /\ forceAsked \in BOOLEAN /\ cooling \in BOOLEAN
    /\ echFallbackEnabled \in BOOLEAN
    /\ cache \in 0 .. MaxKey /\ key \in 1 .. MaxKey
    /\ echFailureCount \in 0 .. 3
    /\ window \in {"closed", "open", "over"}
    /\ refresh \in [Refreshers -> [at : RefreshSteps, key : 0 .. MaxKey]]

\* A dial that has counted itself on its node.
Counts(c) == c.at \notin Quiet \union {"chosen"}
Users(a) == {d \in Callers : dial[d].node = a /\ Counts(dial[d])}

\* Warmup has a goroutine for each connection that is still missing in its batch,
\* and the other ones do not dial.
WarmupInv ==
    /\ warmup \in WarmupSet
    /\ \A d \in Warmers \ warmup.batch : dial[d].at = "idle"
    /\ warmup.at # "waiting" => warmup.batch = {}
    /\ warmup.created + Cardinality(warmup.batch) <= setting.target
    /\ warmup.failed + Cardinality(warmup.batch) <= warmup.size

\* The list of nodes, and the copy that rescoreAll will put in its place, count
\* the same uses.
LoadInv ==
    /\ rescoring \in BOOLEAN
    /\ DOMAIN load \subseteq Nodes /\ \A a \in DOMAIN load : load[a] \in Int
    /\ optimal \subseteq DOMAIN load
    /\ DOMAIN snapshot \subseteq Nodes /\ \A a \in DOMAIN snapshot : snapshot[a] \in Int
    /\ torn \subseteq Nodes
    /\ warmed \in [Nodes -> Nat]
    /\ LoadAccounting
    /\ rescoring => \A a \in DOMAIN snapshot \ torn : snapshot[a] = Counted(a)

IInv ==
    /\ setting \in Settings
    /\ dial \in [Callers -> DialSet]
    /\ OtherTypes
    /\ WarmupInv
    /\ LoadInv
-----------------------------------------------------------------------------
(* Counting *)

LEMMA SettingType ==
    ASSUME setting \in Settings
    PROVE  setting.ech \in BOOLEAN /\ setting.relays \in BOOLEAN
           /\ setting.dials \subseteq Dials /\ setting.target \in Nat
  BY SettingAssumption

LEMMA UsersCount ==
    ASSUME NEW a
    PROVE  /\ Counted(a) = Cardinality(Users(a)) + warmed[a]
           /\ IsFiniteSet(Users(a)) /\ Cardinality(Users(a)) \in Nat
  <1>1. Users(a) = {d \in Callers : dial[d].node = a /\ dial[d].at \notin Quiet \union {"chosen"}}
    BY DEF Users, Counts
  <1>2. Users(a) \subseteq Callers
    BY DEF Users
  <1>3. IsFiniteSet(Users(a))
    BY <1>2, CallerAssumption, FS_Subset
  <1> QED
    BY <1>1, <1>3, FS_CardinalityType DEF Counted

\* The call c of one goroutine becomes e.
Move(d, e) == dial' = [dial EXCEPT ![d] = e]

SameUse(c, e) == \A a \in Nodes : (e.node = a /\ Counts(e)) <=> (c.node = a /\ Counts(c))

LEMMA SameUsers ==
    ASSUME dial \in [Callers -> DialSet], NEW d \in Callers, NEW e \in DialSet, Move(d, e),
           SameUse(dial[d], e), NEW a \in Nodes
    PROVE  Users(a)' = Users(a)
  <1>1. dial' \in [Callers -> DialSet] /\ dial'[d] = e /\ \A x \in Callers \ {d} : dial'[x] = dial[x]
    BY DEF Move
  <1>2. \A x \in Callers : (dial'[x].node = a /\ Counts(dial'[x])) <=> (dial[x].node = a /\ Counts(dial[x]))
    BY <1>1 DEF SameUse
  <1>3. \A x \in Callers : Counts(dial[x])' <=> Counts(dial'[x])
    BY DEF Counts
  <1> QED
    BY <1>2, <1>3 DEF Users

LEMMA SameCount ==
    ASSUME NEW a, Users(a)' = Users(a), warmed'[a] = warmed[a]
    PROVE  Counted(a)' = Counted(a)
  <1>1. Users(a) = {d \in Callers : dial[d].node = a /\ dial[d].at \notin Quiet \union {"chosen"}}
    BY DEF Users, Counts
  <1>2. Users(a)' = {d \in Callers : dial'[d].node = a /\ dial'[d].at \notin Quiet \union {"chosen"}}
    BY DEF Users, Counts
  <1> QED
    BY <1>1, <1>2 DEF Counted

\* No node counts other uses, so that the loads remain right.
LEMMA LoadKept ==
    ASSUME LoadInv, \A a \in Nodes : Counted(a)' = Counted(a), warmed' \in [Nodes -> Nat],
           UNCHANGED <<load, optimal, snapshot, rescoring, torn>>
    PROVE  LoadInv'
  BY DEF LoadInv, LoadAccounting

LEMMA BatchFinite ==
    ASSUME WarmupInv
    PROVE  /\ warmup.batch \subseteq Warmers
           /\ IsFiniteSet(warmup.batch) /\ Cardinality(warmup.batch) \in Nat
  <1>1. warmup.batch \subseteq Warmers
    BY DEF WarmupInv, WarmupSet
  <1>2. IsFiniteSet(warmup.batch)
    BY <1>1, CallerAssumption, FS_Subset DEF Callers
  <1> QED
    BY <1>1, <1>2, FS_CardinalityType

\* What the cardinalities of Warmup have to do with its bounds.
LEMMA ConcurrencyType == Concurrency \in Nat \ {0}
  <1>1. IsFiniteSet(Warmers)
    BY CallerAssumption, FS_Subset DEF Callers
  <1>2. Cardinality(Warmers) \in Nat
    BY <1>1, FS_CardinalityType
  <1> QED
    BY <1>2, SizeAssumption

LEMMA TypeInvariant == IInv => TypeOK
  <1> SUFFICES ASSUME IInv
               PROVE  TypeOK
    OBVIOUS
  <1>1. warmup \in [at : {"ready", "waiting", "done"}, created : 0 .. setting.target, streak : 0 .. 3,
                    batch : SUBSET Warmers, size : 0 .. Concurrency, failed : 0 .. Concurrency]
    <2>1. /\ warmup \in WarmupSet /\ Cardinality(warmup.batch) \in Nat /\ setting.target \in Nat
          /\ warmup.created + Cardinality(warmup.batch) <= setting.target
          /\ warmup.failed + Cardinality(warmup.batch) <= warmup.size
      BY BatchFinite, SettingType DEF IInv, WarmupInv
    <2>2. warmup.created \in 0 .. setting.target /\ warmup.failed \in 0 .. Concurrency
      BY <2>1, ConcurrencyType DEF WarmupSet
    <2> QED
      BY <2>1, <2>2 DEF WarmupSet
  <1>2. {rescoring, forcing, forceAsked, cooling, echFallbackEnabled} \subseteq BOOLEAN
    BY DEF IInv, LoadInv, OtherTypes
  <1> QED
    BY <1>1, <1>2 DEF IInv, DialSet, OtherTypes, RefreshSteps, LoadInv, TypeOK

LEMMA InitInvariant == Init => IInv
  <1> SUFFICES ASSUME Init
               PROVE  IInv
    OBVIOUS
  <1>1. NoDial \in DialSet /\ ~Counts(NoDial) /\ NoDial.at = "idle" /\ dial = [d \in Callers |-> NoDial]
    BY SizeAssumption DEF Init, NoDial, DialSet, DialSteps, Quiet, Counts
  <1>2. OtherTypes
    <2>1. 0 \in 0 .. MaxKey /\ 1 \in 0 .. MaxKey /\ 1 \in 1 .. MaxKey
      BY SizeAssumption
    <2> QED
      <3>1. cache \in {0, 1} /\ key = 1 /\ live = 0 /\ echFailureCount = 0 /\ window = "closed"
        BY DEF Init
      <3>2. refresh \in [Refreshers -> [at : RefreshSteps, key : 0 .. MaxKey]]
        BY <2>1 DEF Init, RefreshSteps
      <3>3. spinning \in BOOLEAN /\ forcing \in BOOLEAN /\ forceAsked \in BOOLEAN /\ cooling \in BOOLEAN /\ echFallbackEnabled \in BOOLEAN
        BY DEF Init
      <3> HIDE DEF Init
      <3> QED
        BY <2>1, <3>1, <3>2, <3>3 DEF OtherTypes
  <1>3. WarmupInv
    <2>1. warmup = [at |-> "ready", created |-> 0, streak |-> 0, batch |-> {}, size |-> 0, failed |-> 0]
      BY DEF Init
    <2>2. setting.target \in Nat
      BY SettingType DEF Init
    <2>3. warmup \in WarmupSet /\ warmup.batch = {} /\ warmup.created = 0 /\ warmup.failed = 0 /\ warmup.size = 0
      BY <2>1, ConcurrencyType DEF WarmupSet
    <2>4. Cardinality(warmup.batch) = 0
      BY <2>3, FS_EmptySet
    <2>5. \A d \in Warmers : dial[d].at = "idle"
      BY <1>1 DEF Callers
    <2> HIDE DEF Init
    <2> QED
      BY <2>2, <2>3, <2>4, <2>5 DEF WarmupInv
  <1>4. LoadInv
    <2>1. \A a \in Nodes : Counted(a) = 0
      <3>1. ASSUME NEW a \in Nodes
            PROVE  Counted(a) = 0
        <4>1. Users(a) = {}
          BY <1>1 DEF Users
        <4>2. warmed[a] = 0
          BY DEF Init
        <4> QED
          BY <4>1, <4>2, UsersCount, FS_EmptySet
      <3> QED
        BY <3>1
    <2>2. /\ DOMAIN load \subseteq Nodes /\ \A a \in DOMAIN load : load[a] = 0
          /\ optimal \subseteq DOMAIN load /\ ~rescoring /\ rescoring \in BOOLEAN
      <3>1. load \in {[a \in S |-> 0] : S \in SUBSET Nodes} \/ load = <<>>
        BY DEF Init
      <3>2. DOMAIN load \subseteq Nodes /\ \A a \in DOMAIN load : load[a] = 0
        <4>1. CASE load = <<>>
          BY <4>1
        <4>2. CASE load \in {[a \in S |-> 0] : S \in SUBSET Nodes}
          BY <4>2
        <4> QED
          BY <3>1, <4>1, <4>2
      <3> QED
        BY <3>2 DEF Init
    <2>3. DOMAIN snapshot = {} /\ torn = {} /\ warmed \in [Nodes -> Nat]
      BY DEF Init
    <2> HIDE DEF Init
    <2> QED
      BY <2>1, <2>2, <2>3 DEF LoadInv, LoadAccounting
  <1> QED
    BY <1>1, <1>2, <1>3, <1>4 DEF IInv, Init
-----------------------------------------------------------------------------
(* One goroutine goes on *)

LEMMA MoveType ==
    ASSUME dial \in [Callers -> DialSet], NEW d \in Callers, NEW e \in DialSet, Move(d, e)
    PROVE  dial' \in [Callers -> DialSet] /\ dial'[d] = e /\ \A x \in Callers \ {d} : dial'[x] = dial[x]
  BY DEF Move

LEMMA WarmupKept ==
    ASSUME dial \in [Callers -> DialSet], WarmupInv, NEW d \in Callers, NEW e \in DialSet, Move(d, e),
           dial[d].at # "idle" \/ d \notin Warmers, UNCHANGED <<setting, warmup>>
    PROVE  WarmupInv'
  <1>1. d \in Warmers => d \in warmup.batch
    BY DEF WarmupInv
  <1>2. \A x \in Callers \ {d} : dial'[x] = dial[x]
    BY MoveType
  <1>3. \A x \in Warmers \ warmup.batch : dial'[x].at = "idle"
    BY <1>1, <1>2 DEF WarmupInv, Callers
  <1>4. warmup' = warmup /\ WarmupSet' = WarmupSet
    BY DEF WarmupSet
  <1> QED
    BY <1>3, <1>4 DEF WarmupInv

\* A step that counts or discounts nothing.
LEMMA MoveStep ==
    ASSUME IInv, NEW d \in Callers, NEW e \in DialSet, Move(d, e), SameUse(dial[d], e),
           dial[d].at # "idle" \/ d \notin Warmers,
           UNCHANGED <<setting, warmup, load, optimal, snapshot, rescoring, torn, warmed>>,
           OtherTypes'
    PROVE  IInv'
  <1>1. dial \in [Callers -> DialSet] /\ WarmupInv /\ LoadInv /\ setting \in Settings
    BY DEF IInv
  <1>2. WarmupInv'
    <2>1. UNCHANGED <<setting, warmup>>
      OBVIOUS
    <2> QED
      BY <1>1, <2>1, WarmupKept
  <1>3. \A a \in Nodes : Counted(a)' = Counted(a)
    <2>1. ASSUME NEW a \in Nodes
          PROVE  Counted(a)' = Counted(a)
      <3>1. Users(a)' = Users(a)
        BY <1>1, SameUsers
      <3>2. warmed'[a] = warmed[a]
        OBVIOUS
      <3> QED
        BY <3>1, <3>2, SameCount
    <2> QED
      BY <2>1
  <1>4. LoadInv'
    <2>1. warmed' \in [Nodes -> Nat] /\ UNCHANGED <<load, optimal, snapshot, rescoring, torn>>
      BY <1>1 DEF LoadInv
    <2> QED
      BY <1>1, <1>3, <2>1, LoadKept
  <1>5. dial' \in [Callers -> DialSet] /\ DialSet' = DialSet
    BY <1>1, MoveType DEF DialSet
  <1> QED
    BY <1>1, <1>2, <1>4, <1>5 DEF IInv

\* A step of a call to another one of the same node, with a key.
LEMMA StepFacts ==
    ASSUME NEW c \in DialSet, NEW step \in DialSteps, NEW k \in 0 .. MaxKey,
           NEW e, e = [c EXCEPT !.at = step, !.key = k] \/ (e = [c EXCEPT !.at = step]),
           step \in Quiet => c.node = NoNode,
           step \in {"chosen", "unload"} => c.node # NoNode
    PROVE  e \in DialSet /\ e.at = step /\ e.node = c.node
  BY DEF DialSet

\* The call stays on its node, counted or not as before.
LEMMA Goes ==
    ASSUME NEW c \in DialSet, NEW step \in DialSteps, NEW k \in 0 .. MaxKey,
           NEW e, e = [c EXCEPT !.at = step, !.key = k] \/ (e = [c EXCEPT !.at = step]),
           \/ c.at \notin Quiet \union {"chosen"} /\ step \notin Quiet \union {"chosen", "unload"}
           \/ c.at \in Quiet
    PROVE  /\ step \notin {"chosen", "unload"} => e \in DialSet /\ SameUse(c, e)
  <1>1. CASE c.at \notin Quiet \union {"chosen"} /\ step \notin Quiet \union {"chosen", "unload"}
    <2>1. e \in DialSet /\ e.at = step /\ e.node = c.node
      BY <1>1, StepFacts
    <2> QED
      BY <1>1, <2>1 DEF SameUse, Counts
  <1>2. CASE c.at \in Quiet /\ step \notin {"chosen", "unload"}
    <2>1. c.node = NoNode
      BY <1>2 DEF DialSet
    <2>2. e \in DialSet /\ e.at = step /\ e.node = c.node
      <3>1. CASE e = [c EXCEPT !.at = step, !.key = k]
        BY <1>2, <2>1, <3>1 DEF DialSet
      <3>2. CASE e = [c EXCEPT !.at = step]
        BY <1>2, <2>1, <3>2 DEF DialSet
      <3> QED
        BY <3>1, <3>2
    <2>3. \A a \in Nodes : c.node # a /\ e.node # a
      BY <2>1, <2>2, NodeAssumption
    <2> QED
      BY <2>2, <2>3 DEF SameUse
  <1> QED
    BY <1>1, <1>2

\* The dial is over, but counts until Unload.
LEMMA LeaveFacts ==
    ASSUME dial \in [Callers -> DialSet], NEW d \in Callers, Leave(d), Counts(dial[d])
    PROVE  \E e \in DialSet : Move(d, e) /\ SameUse(dial[d], e)
  <1> DEFINE c == dial[d]
  <1>1. c \in DialSet
    OBVIOUS
  <1>2. CASE c.node = NoNode
    <2> DEFINE e == Ended(d)
    <2>1. Move(d, e)
      BY <1>2 DEF Leave, Move
    <2>2. e \in DialSet /\ e.node = NoNode
      BY SizeAssumption DEF Ended, NoDial, DialSet, DialSteps, Quiet
    <2> HIDE DEF e
    <2>3. SameUse(c, e)
      BY <1>2, <2>2, NodeAssumption DEF SameUse
    <2> QED
      BY <2>1, <2>2, <2>3
  <1>3. CASE c.node # NoNode
    <2> DEFINE e == [c EXCEPT !.at = "unload"]
    <2>1. Move(d, e)
      BY <1>3 DEF Leave, Move
    <2>2. "unload" \in DialSteps /\ "unload" \notin Quiet \union {"chosen"}
      BY DEF DialSteps, Quiet
    <2>3. e \in DialSet /\ e.at = "unload" /\ e.node = c.node
      BY <1>1, <1>3, <2>2 DEF DialSet
    <2> HIDE DEF e
    <2>4. SameUse(c, e)
      BY <2>2, <2>3 DEF SameUse, Counts
    <2> QED
      BY <2>1, <2>3, <2>4
  <1> QED
    BY <1>2, <1>3
-----------------------------------------------------------------------------
(* createConnection and createConnectionSync *)

LEMMA ChosenType ==
    ASSUME NEW a \in Nodes, NEW e, e = [NoDial EXCEPT !.at = "chosen", !.node = a]
    PROVE  e \in DialSet /\ e.at = "chosen"
  <1>1. e = [at |-> "chosen", node |-> a, key |-> 0]
    BY DEF NoDial
  <1>2. "chosen" \in DialSteps /\ "chosen" \notin Quiet /\ 0 \in 0 .. MaxKey /\ a # NoNode
    BY NodeAssumption, SizeAssumption DEF DialSteps, Quiet
  <1> QED
    BY <1>1, <1>2 DEF DialSet

LEMMA ChooseStep ==
    ASSUME IInv, NEW d \in Callers, Choose(d)
    PROVE  IInv'
  <1>1. /\ UNCHANGED <<setting, warmup, load, optimal, snapshot, rescoring, torn, warmed>>
        /\ OtherTypes'
    BY DEF IInv, Choose, OtherTypes, relayVars, poolVars, echVars
  <1>2. dial[d] \in DialSet /\ dial[d].at \in {"idle", "asked"} /\ (dial[d].at # "idle" \/ d \notin Warmers)
    BY CallerAssumption DEF IInv, Choose, Asks
  <1>3. \E e \in DialSet : Move(d, e) /\ SameUse(dial[d], e)
    <2>1. ~Counts(dial[d]) /\ dial[d].node = NoNode
      BY <1>2 DEF Counts, Quiet, DialSet
    <2>2. ASSUME NEW a \in optimal, dial' = [dial EXCEPT ![d] = [NoDial EXCEPT !.at = "chosen", !.node = a]]
          PROVE  \E e \in DialSet : Move(d, e) /\ SameUse(dial[d], e)
      <3> DEFINE e == [NoDial EXCEPT !.at = "chosen", !.node = a]
      <3>1. a \in Nodes
        BY DEF IInv, LoadInv
      <3>2. e \in DialSet /\ e.at = "chosen"
        BY <3>1, ChosenType
      <3>3. Move(d, e)
        BY <2>2 DEF Move
      <3> HIDE DEF e
      <3> QED
        BY <2>1, <3>2, <3>3 DEF SameUse, Counts
    <2>3. ASSUME Goto(d, "tls")
          PROVE  \E e \in DialSet : Move(d, e) /\ SameUse(dial[d], e)
      <3> DEFINE e == [dial[d] EXCEPT !.at = "tls"]
      <3>1. Move(d, e)
        BY <2>3 DEF Goto, Move, IInv
      <3>2. "tls" \in DialSteps /\ dial[d].key \in 0 .. MaxKey /\ dial[d].at \in Quiet
        BY <1>2 DEF DialSteps, DialSet, Quiet
      <3>3. e = [dial[d] EXCEPT !.at = "tls"]
        OBVIOUS
      <3> HIDE DEF e
      <3> QED
        BY <1>2, <3>1, <3>2, <3>3, Goes
    <2> QED
      BY <2>2, <2>3 DEF Choose
  <1> QED
    BY <1>1, <1>2, <1>3, MoveStep

LEMMA RefusedStep ==
    ASSUME IInv, NEW d \in Callers, Refused(d)
    PROVE  IInv'
  <1> DEFINE c == dial[d]
             e == [c EXCEPT !.at = "lost"]
  <1>1. /\ UNCHANGED <<setting, warmup, load, optimal, snapshot, rescoring, torn, warmed>>
        /\ OtherTypes' /\ c \in DialSet /\ c.at = "asked" /\ Move(d, e)
    BY DEF IInv, Refused, Asks, Goto, Move, OtherTypes, relayVars, poolVars, echVars
  <1>2. "lost" \in DialSteps /\ c.key \in 0 .. MaxKey /\ c.at \in Quiet
    BY <1>1 DEF DialSteps, DialSet, Quiet
  <1>3. e = [c EXCEPT !.at = "lost"]
    OBVIOUS
  <1> HIDE DEF e
  <1>4. e \in DialSet /\ SameUse(c, e)
    BY <1>1, <1>2, <1>3, Goes
  <1> QED
    BY <1>1, <1>4, MoveStep

LEMMA GetTLSConfigStep ==
    ASSUME IInv, NEW d \in Callers, GetTLSConfig(d)
    PROVE  IInv'
  <1> DEFINE c == dial[d]
             useECH == setting.ech /\ window # "open"
             step == IF useECH /\ cache = 0 THEN "asking" ELSE "dialing"
             k == IF useECH THEN cache ELSE 0
             e == [c EXCEPT !.at = step, !.key = k]
  <1>1. /\ UNCHANGED <<setting, warmup, load, optimal, snapshot, rescoring, torn, warmed>>
        /\ OtherTypes' /\ c \in DialSet /\ c.at = "tls"
    BY DEF IInv, GetTLSConfig, OtherTypes, relayVars, poolVars, echVars
  <1>2. Move(d, e)
    BY DEF GetTLSConfig, Move, IInv
  <1>3. /\ step \in {"asking", "dialing"} /\ step \in DialSteps /\ k \in 0 .. MaxKey
        /\ c.at \notin Quiet \union {"chosen"} /\ step \notin Quiet \union {"chosen", "unload"}
    BY <1>1, SizeAssumption DEF DialSteps, QuerySteps, Quiet, IInv, OtherTypes
  <1>4. e = [c EXCEPT !.at = step, !.key = k]
    OBVIOUS
  <1> HIDE DEF e, step, k
  <1>5. e \in DialSet /\ SameUse(c, e)
    BY <1>1, <1>3, <1>4, Goes
  <1> QED
    BY <1>1, <1>2, <1>5, MoveStep

LEMMA FetchAnsweredStep ==
    ASSUME IInv, NEW d \in Callers, FetchAnswered(d)
    PROVE  IInv'
  <1> DEFINE c == dial[d]
             e == [c EXCEPT !.at = "answered", !.key = key]
  <1>1. /\ UNCHANGED <<setting, warmup, load, optimal, snapshot, rescoring, torn, warmed>>
        /\ OtherTypes' /\ c \in DialSet /\ c.at \in {"asking", "exchange"} /\ Move(d, e)
    BY DEF IInv, FetchAnswered, Answered, Move, OtherTypes, relayVars, poolVars, echVars
  <1>2. /\ "answered" \in DialSteps /\ key \in 0 .. MaxKey
        /\ c.at \notin Quiet \union {"chosen"} /\ "answered" \notin Quiet \union {"chosen", "unload"}
    BY <1>1, SizeAssumption DEF DialSteps, QuerySteps, Quiet, IInv, OtherTypes
  <1>3. e = [c EXCEPT !.at = "answered", !.key = key]
    OBVIOUS
  <1> HIDE DEF e
  <1>4. e \in DialSet /\ SameUse(c, e)
    BY <1>1, <1>2, <1>3, Goes
  <1> QED
    BY <1>1, <1>4, MoveStep

LEMMA FetchAcquiresStep ==
    ASSUME IInv, NEW d \in Callers, FetchAcquires(d)
    PROVE  IInv'
  <1> DEFINE c == dial[d]
             e == [c EXCEPT !.at = "exchange"]
  <1>1. /\ UNCHANGED <<setting, warmup, load, optimal, snapshot, rescoring, torn, warmed>>
        /\ OtherTypes' /\ c \in DialSet /\ c.at = "asking" /\ Move(d, e)
    BY DEF IInv, FetchAcquires, Acquires, Goto, Move, OtherTypes, relayVars, poolVars, echVars
  <1>2. /\ "exchange" \in DialSteps /\ c.key \in 0 .. MaxKey
        /\ c.at \notin Quiet \union {"chosen"} /\ "exchange" \notin Quiet \union {"chosen", "unload"}
    BY <1>1 DEF DialSteps, QuerySteps, DialSet, Quiet
  <1>3. e = [c EXCEPT !.at = "exchange"]
    OBVIOUS
  <1> HIDE DEF e
  <1>4. e \in DialSet /\ SameUse(c, e)
    BY <1>1, <1>2, <1>3, Goes
  <1> QED
    BY <1>1, <1>4, MoveStep

\* FetchCached, FetchFails: the dial begins.
LEMMA FetchEndsStep ==
    ASSUME IInv, NEW d \in Callers, FetchCached(d) \/ FetchFails(d)
    PROVE  IInv'
  <1> DEFINE c == dial[d]
             e == [c EXCEPT !.at = "dialing"]
  <1>1. /\ UNCHANGED <<setting, warmup, load, optimal, snapshot, rescoring, torn, warmed>>
        /\ c \in DialSet /\ c.at \in QuerySteps /\ Move(d, e)
    BY DEF IInv, FetchCached, FetchFails, Fails, QuerySteps, Goto, Move, relayVars, poolVars
  <1>2. /\ "dialing" \in DialSteps /\ c.key \in 0 .. MaxKey
        /\ c.at \notin Quiet \union {"chosen"} /\ "dialing" \notin Quiet \union {"chosen", "unload"}
    BY <1>1 DEF DialSteps, DialSet, Quiet, QuerySteps
  <1>3. OtherTypes'
    <2>1. cache' \in 0 .. MaxKey
      BY <1>2 DEF IInv, OtherTypes, FetchCached, FetchFails, poolVars, echVars
    <2>2. UNCHANGED <<live, spinning, forcing, forceAsked, cooling, echFallbackEnabled, key,
                      echFailureCount, window, refresh>>
      BY DEF FetchCached, FetchFails, relayVars, poolVars, echVars
    <2> QED
      BY <2>1, <2>2 DEF IInv, OtherTypes
  <1>4. e = [c EXCEPT !.at = "dialing"]
    OBVIOUS
  <1> HIDE DEF e
  <1>5. e \in DialSet /\ SameUse(c, e)
    BY <1>1, <1>2, <1>4, Goes
  <1>6. c.at # "idle"
    BY <1>1 DEF QuerySteps
  <1> QED
    BY <1>1, <1>3, <1>5, <1>6, MoveStep

LEMMA SetRefreshType ==
    ASSUME IInv, NEW x \in Refreshers, NEW step \in RefreshSteps,
           NEW k \in 0 .. MaxKey
    PROVE  [refresh EXCEPT ![x] = [at |-> step, key |-> k]]
              \in [Refreshers -> [at : RefreshSteps, key : 0 .. MaxKey]]
  BY DEF IInv, OtherTypes

\* The failures of a dial.
LEMMA EchErrorStep ==
    ASSUME IInv, NEW d \in Callers, EchError(d)
    PROVE  IInv'
  <1> DEFINE c == dial[d]
  <1>1. /\ UNCHANGED <<setting, warmup, load, optimal, snapshot, rescoring, torn, warmed>>
        /\ dial \in [Callers -> DialSet] /\ c \in DialSet /\ c.at = "dialing"
    BY DEF IInv, EchError, relayVars, poolVars
  <1>2. OtherTypes'
    <2>1. refresh' \in [Refreshers -> [at : RefreshSteps, key : 0 .. MaxKey]]
      BY DEF EchError, Refreshers, RefreshSteps, IInv, OtherTypes
    <2>2. echFailureCount' \in 0 .. 3
      BY DEF EchError, IInv, OtherTypes
    <2>3. UNCHANGED <<live, spinning, forcing, forceAsked, cooling, echFallbackEnabled, cache, key,
                      window>>
      BY DEF EchError, relayVars, poolVars
    <2> QED
      BY <2>1, <2>2, <2>3 DEF IInv, OtherTypes
  <1>3. Counts(c)
    BY <1>1 DEF Counts, Quiet
  <1>4. CASE Leave(d)
    BY <1>1, <1>2, <1>3, <1>4, LeaveFacts, MoveStep
  <1>5. CASE Goto(d, "third")
    <2> DEFINE e == [c EXCEPT !.at = "third"]
    <2>1. Move(d, e)
      BY <1>5 DEF Goto, Move
    <2>2. /\ "third" \in DialSteps /\ c.key \in 0 .. MaxKey
          /\ c.at \notin Quiet \union {"chosen"} /\ "third" \notin Quiet \union {"chosen", "unload"}
      BY <1>1 DEF DialSteps, DialSet, Quiet
    <2>3. e = [c EXCEPT !.at = "third"]
      OBVIOUS
    <2> HIDE DEF e
    <2>4. e \in DialSet /\ SameUse(c, e)
      BY <1>1, <2>2, <2>3, Goes
    <2> QED
      BY <1>1, <1>2, <2>1, <2>4, MoveStep
  <1> QED
    BY <1>4, <1>5 DEF EchError

\* EnableFallback, RelayError, OtherError.
LEMMA FailureStep ==
    ASSUME IInv, NEW d \in Callers, EnableFallback(d) \/ RelayError(d) \/ OtherError(d)
    PROVE  IInv'
  <1>1. /\ UNCHANGED <<setting, warmup, load, optimal, snapshot, rescoring, torn, warmed>>
        /\ Leave(d) /\ dial[d].at \in {"dialing", "third"} /\ dial \in [Callers -> DialSet]
    BY DEF IInv, EnableFallback, RelayError, OtherError, relayVars, poolVars
  <1>2. OtherTypes'
    <2>1. echFallbackEnabled' \in BOOLEAN /\ forceAsked' \in BOOLEAN
      BY DEF IInv, OtherTypes, EnableFallback, RelayError, OtherError, relayVars, poolVars, echVars
    <2>2. window' \in {"closed", "open", "over"}
      BY DEF IInv, OtherTypes, EnableFallback, RelayError, OtherError, poolVars, echVars
    <2>3. UNCHANGED <<live, spinning, forcing, cooling, cache, key, echFailureCount, refresh>>
      BY DEF EnableFallback, RelayError, OtherError, relayVars, poolVars, echVars
    <2> QED
      BY <2>1, <2>2, <2>3 DEF IInv, OtherTypes
  <1>3. Counts(dial[d]) /\ dial[d].at # "idle"
    BY <1>1 DEF Counts, Quiet
  <1> QED
    BY <1>1, <1>2, <1>3, LeaveFacts, MoveStep
-----------------------------------------------------------------------------
(* Counting a use, or discounting it *)

LEMMA UpdateKept ==
    ASSUME LoadInv, NEW a \in Nodes, NEW delta \in Int, UpdateNodeLoad(a, delta),
           UNCHANGED <<optimal, snapshot, rescoring, warmed>>,
           Counted(a)' = Counted(a) + delta, \A b \in Nodes \ {a} : Counted(b)' = Counted(b)
    PROVE  LoadInv'
  <1>1. /\ torn' = IF rescoring \/ a \notin optimal THEN torn \union {a} ELSE torn
        /\ load' = [b \in DOMAIN load |-> IF b \in torn' THEN 0
                                         ELSE IF b = a THEN load[b] + delta ELSE load[b]]
    BY DEF UpdateNodeLoad
  <1>2. /\ DOMAIN load \subseteq Nodes /\ DOMAIN snapshot \subseteq Nodes
        /\ \A b \in DOMAIN load : load[b] \in Int
        /\ \A b \in DOMAIN load \ torn : load[b] = Counted(b)
        /\ torn \subseteq Nodes
    BY DEF LoadInv, LoadAccounting
  <1>3. torn \subseteq torn' /\ torn' \subseteq Nodes /\ (rescoring => a \in torn')
    BY <1>1, <1>2
  <1>4. DOMAIN load' = DOMAIN load /\ \A b \in DOMAIN load' : load'[b] \in Int
    BY <1>1, <1>2
  <1>5. \A b \in DOMAIN load' \ torn' : load'[b] = Counted(b)'
    BY <1>1, <1>2, <1>3
  <1>6. rescoring' => \A b \in DOMAIN snapshot' \ torn' : snapshot'[b] = Counted(b)'
    BY <1>2, <1>3 DEF LoadInv
  <1> QED
    BY <1>3, <1>4, <1>5, <1>6 DEF LoadInv, LoadAccounting

LEMMA OtherUsers ==
    ASSUME dial \in [Callers -> DialSet], NEW d \in Callers, NEW e \in DialSet, Move(d, e),
           NEW a \in Nodes, dial[d].node \in {a, NoNode}, e.node \in {a, NoNode},
           UNCHANGED warmed
    PROVE  \A b \in Nodes \ {a} : Counted(b)' = Counted(b)
  <1>1. ASSUME NEW b \in Nodes \ {a}
        PROVE  Counted(b)' = Counted(b)
    <2>1. dial'[d] = e /\ \A x \in Callers \ {d} : dial'[x] = dial[x]
      BY MoveType
    <2>2. \A x \in Callers : (dial'[x].node = b /\ Counts(dial'[x])) <=> (dial[x].node = b /\ Counts(dial[x]))
      BY <2>1, NodeAssumption
    <2>3. Users(b)' = Users(b)
      <3>1. \A x \in Callers : Counts(dial[x])' <=> Counts(dial'[x])
        BY DEF Counts
      <3> QED
        BY <2>2, <3>1 DEF Users
    <2> QED
      BY <2>3, SameCount
  <1> QED
    BY <1>1

\* The cardinality of what a counts, after a step.
LEMMA CountedNext ==
    ASSUME NEW a
    PROVE  Counted(a)' = Cardinality(Users(a)') + warmed'[a]
  <1>1. Users(a)' = {d \in Callers : dial'[d].node = a /\ dial'[d].at \notin Quiet \union {"chosen"}}
    BY DEF Users, Counts
  <1> QED
    BY <1>1 DEF Counted

LEMMA AddLoadStep ==
    ASSUME IInv, NEW d \in Callers, AddLoad(d)
    PROVE  IInv'
  <1> DEFINE c == dial[d]
             e == [c EXCEPT !.at = "tls"]
  <1>1. /\ dial \in [Callers -> DialSet] /\ c \in DialSet /\ LoadInv /\ WarmupInv /\ setting \in Settings
        /\ c.at = "chosen" /\ UpdateNodeLoad(c.node, 1) /\ Move(d, e)
        /\ UNCHANGED <<setting, optimal, snapshot, rescoring, warmed, warmup>>
    BY DEF IInv, AddLoad, Goto, Move
  <1>2. OtherTypes'
    BY DEF IInv, OtherTypes, AddLoad, poolVars, echVars
  <1>3. PICK a \in Nodes : a = c.node
    BY <1>1 DEF DialSet
  <1>4. e \in DialSet /\ e.node = c.node /\ e.at = "tls"
    <2>1. "tls" \in DialSteps /\ "tls" \notin Quiet
      BY DEF DialSteps, Quiet
    <2> QED
      BY <1>1, <2>1 DEF DialSet
  <1> HIDE DEF e
  <1>5. Counted(a)' = Counted(a) + 1
    <2>1. dial'[d] = e /\ \A x \in Callers \ {d} : dial'[x] = dial[x]
      BY <1>1, <1>4, MoveType
    <2>2. d \notin Users(a) /\ Counts(e)
      BY <1>1, <1>3, <1>4 DEF Users, Counts, Quiet
    <2>3. Users(a)' = Users(a) \union {d}
      <3>1. \A x \in Callers : Counts(dial[x])' <=> Counts(dial'[x])
        BY DEF Counts
      <3> QED
        BY <1>3, <1>4, <2>1, <2>2, <3>1 DEF Users
    <2>4. Cardinality(Users(a) \union {d}) = Cardinality(Users(a)) + 1
      BY <2>2, UsersCount, FS_AddElement
    <2>5. warmed[a] \in Nat /\ warmed' = warmed
      BY <1>1, <1>3 DEF LoadInv
    <2>6. Counted(a) = Cardinality(Users(a)) + warmed[a] /\ Cardinality(Users(a)) \in Nat
      BY UsersCount
    <2>7. Counted(a)' = Cardinality(Users(a)') + warmed'[a]
      BY CountedNext
    <2> QED
      BY <2>3, <2>4, <2>5, <2>6, <2>7
  <1>6. \A b \in Nodes \ {a} : Counted(b)' = Counted(b)
    BY <1>1, <1>3, <1>4, OtherUsers
  <1>7. LoadInv'
    BY <1>1, <1>3, <1>5, <1>6, UpdateKept
  <1>8. WarmupInv'
    <2>1. c.at # "idle" /\ UNCHANGED <<setting, warmup>>
      BY <1>1
    <2> QED
      BY <1>1, <1>4, <2>1, WarmupKept
  <1>9. dial' \in [Callers -> DialSet] /\ DialSet' = DialSet
    BY <1>1, <1>4, MoveType DEF DialSet
  <1> QED
    BY <1>1, <1>2, <1>7, <1>8, <1>9 DEF IInv

LEMMA EndedType ==
    ASSUME NEW d
    PROVE  Ended(d) \in DialSet /\ Ended(d).node = NoNode /\ Ended(d).at \in {"idle", "lost"}
  BY SizeAssumption DEF Ended, NoDial, DialSet, DialSteps, Quiet

LEMMA UnloadStep ==
    ASSUME IInv, NEW d \in Callers, Unload(d)
    PROVE  IInv'
  <1> DEFINE c == dial[d]
             e == Ended(d)
  <1>1. /\ dial \in [Callers -> DialSet] /\ c \in DialSet /\ LoadInv /\ WarmupInv /\ setting \in Settings
        /\ c.at = "unload" /\ UpdateNodeLoad(c.node, -1) /\ Move(d, e)
        /\ UNCHANGED <<setting, optimal, snapshot, rescoring, warmed, warmup>>
    BY DEF IInv, Unload, Move
  <1>2. OtherTypes'
    BY DEF IInv, OtherTypes, Unload, poolVars, echVars
  <1>3. PICK a \in Nodes : a = c.node
    BY <1>1 DEF DialSet
  <1>4. e \in DialSet /\ e.node = NoNode
    BY EndedType
  <1> HIDE DEF e
  <1>5. Counted(a)' = Counted(a) + (-1)
    <2>1. dial'[d] = e /\ \A x \in Callers \ {d} : dial'[x] = dial[x]
      BY <1>1, <1>4, MoveType
    <2>2. d \in Users(a)
      BY <1>1, <1>3 DEF Users, Counts, Quiet
    <2>3. Users(a)' = Users(a) \ {d}
      <3>1. \A x \in Callers : Counts(dial[x])' <=> Counts(dial'[x])
        BY DEF Counts
      <3> QED
        BY <1>3, <1>4, <2>1, <2>2, <3>1, NodeAssumption DEF Users
    <2>4. Cardinality(Users(a) \ {d}) = Cardinality(Users(a)) - 1
      BY <2>2, UsersCount, FS_RemoveElement
    <2>5. warmed[a] \in Nat /\ warmed' = warmed
      BY <1>1, <1>3 DEF LoadInv
    <2>6. Counted(a) = Cardinality(Users(a)) + warmed[a] /\ Cardinality(Users(a)) \in Nat
      BY UsersCount
    <2>7. Counted(a)' = Cardinality(Users(a)') + warmed'[a]
      BY CountedNext
    <2> QED
      BY <2>3, <2>4, <2>5, <2>6, <2>7
  <1>6. \A b \in Nodes \ {a} : Counted(b)' = Counted(b)
    BY <1>1, <1>3, <1>4, OtherUsers
  <1>7. LoadInv'
    <2>1. -1 \in Int
      OBVIOUS
    <2> QED
      BY <1>1, <1>3, <1>5, <1>6, <2>1, UpdateKept
  <1>8. WarmupInv'
    <2>1. c.at # "idle" /\ UNCHANGED <<setting, warmup>>
      BY <1>1
    <2> QED
      BY <1>1, <1>4, <2>1, WarmupKept
  <1>9. dial' \in [Callers -> DialSet] /\ DialSet' = DialSet
    BY <1>1, <1>4, MoveType DEF DialSet
  <1> QED
    BY <1>1, <1>2, <1>7, <1>8, <1>9 DEF IInv

\* A connection that Warmup made keeps the use that its dial has counted.
LEMMA JoinsStep ==
    ASSUME IInv, NEW d \in Callers, Joins(d), Counts(dial[d]),
           UNCHANGED <<setting, warmup, load, optimal, snapshot, rescoring, torn>>, OtherTypes'
    PROVE  IInv'
  <1> DEFINE c == dial[d]
  <1>1. /\ dial \in [Callers -> DialSet] /\ c \in DialSet /\ LoadInv /\ WarmupInv /\ setting \in Settings
        /\ c.at # "idle"
    BY DEF IInv, Counts, Quiet
  <1>2. CASE d \notin Warmers
    <2>1. Leave(d) /\ warmed' = warmed
      BY <1>2 DEF Joins
    <2> QED
      BY <1>1, <1>2, <2>1, LeaveFacts, MoveStep
  <1>3. CASE d \in Warmers
    <2> DEFINE e == [NoDial EXCEPT !.at = "won"]
    <2>1. /\ Move(d, e)
          /\ warmed' = [b \in Nodes |-> IF b = c.node THEN warmed[b] + 1 ELSE warmed[b]]
      BY <1>3 DEF Joins, Move
    <2>2. e \in DialSet /\ e.node = NoNode /\ e.at = "won"
      BY SizeAssumption DEF NoDial, DialSet, DialSteps, Quiet
    <2> HIDE DEF e
    <2>3. warmed \in [Nodes -> Nat] /\ warmed' \in [Nodes -> Nat]
      BY <1>1, <2>1 DEF LoadInv
    <2>4. dial'[d] = e /\ \A x \in Callers \ {d} : dial'[x] = dial[x]
      BY <1>1, <2>1, <2>2, MoveType
    <2>5. \A x \in Callers : Counts(dial[x])' <=> Counts(dial'[x])
      BY DEF Counts
    <2>6. ASSUME NEW a \in Nodes
          PROVE  Counted(a)' = Counted(a)
      <3>1. Counted(a) = Cardinality(Users(a)) + warmed[a] /\ Cardinality(Users(a)) \in Nat
            /\ IsFiniteSet(Users(a))
        BY UsersCount
      <3>2. Counted(a)' = Cardinality(Users(a)') + warmed'[a]
        BY CountedNext
      <3>3. CASE a = c.node
        <4>1. d \in Users(a)
          BY <3>3 DEF Users
        <4>2. Users(a)' = Users(a) \ {d}
          BY <2>2, <2>4, <2>5, <3>3, NodeAssumption DEF Users
        <4>3. Cardinality(Users(a) \ {d}) = Cardinality(Users(a)) - 1
          BY <3>1, <4>1, FS_RemoveElement
        <4>4. warmed'[a] = warmed[a] + 1 /\ warmed[a] \in Nat
          BY <2>1, <2>3, <3>3
        <4> QED
          BY <3>1, <3>2, <4>2, <4>3, <4>4
      <3>4. CASE a # c.node
        <4>1. Users(a)' = Users(a)
          BY <2>2, <2>4, <2>5, <3>4, NodeAssumption DEF Users
        <4>2. warmed'[a] = warmed[a]
          BY <2>1, <3>4
        <4> QED
          BY <3>1, <3>2, <4>1, <4>2
      <3> QED
        BY <3>3, <3>4
    <2>7. LoadInv'
      <3>1. UNCHANGED <<load, optimal, snapshot, rescoring, torn>>
        OBVIOUS
      <3> QED
        BY <1>1, <2>3, <2>6, <3>1, LoadKept
    <2>8. WarmupInv'
      <3>1. UNCHANGED <<setting, warmup>>
        OBVIOUS
      <3> QED
        BY <1>1, <2>1, <2>2, <3>1, WarmupKept
    <2>9. dial' \in [Callers -> DialSet] /\ DialSet' = DialSet
      BY <1>1, <2>1, <2>2, MoveType DEF DialSet
    <2> QED
      BY <1>1, <2>7, <2>8, <2>9 DEF IInv
  <1> QED
    BY <1>2, <1>3

LEMMA DialSucceedsStep ==
    ASSUME IInv, NEW d \in Callers, DialSucceeds(d)
    PROVE  IInv'
  <1> DEFINE c == dial[d]
  <1>1. /\ UNCHANGED <<setting, warmup, load, optimal, snapshot, rescoring, torn>>
        /\ c.at = "dialing" /\ c \in DialSet /\ dial \in [Callers -> DialSet]
        /\ UNCHANGED <<forcing, forceAsked, cooling, echFallbackEnabled, cache, key, echFailureCount,
                       window, refresh>>
    BY DEF IInv, DialSucceeds, relayVars, poolVars, echVars
  <1>2. CASE Goto(d, "resetting") /\ UNCHANGED <<poolVars, warmed>>
    <2> DEFINE e == [c EXCEPT !.at = "resetting"]
    <2>1. Move(d, e)
      BY <1>2 DEF Goto, Move
    <2>2. /\ "resetting" \in DialSteps /\ c.key \in 0 .. MaxKey
          /\ c.at \notin Quiet \union {"chosen"} /\ "resetting" \notin Quiet \union {"chosen", "unload"}
      BY <1>1 DEF DialSteps, DialSet, Quiet
    <2>3. e = [c EXCEPT !.at = "resetting"]
      OBVIOUS
    <2> HIDE DEF e
    <2>4. e \in DialSet /\ SameUse(c, e)
      BY <1>1, <2>2, <2>3, Goes
    <2>5. OtherTypes'
      BY <1>1, <1>2 DEF IInv, OtherTypes, poolVars
    <2> QED
      BY <1>1, <1>2, <2>1, <2>4, <2>5, MoveStep
  <1>3. CASE Joins(d)
    <2>1. OtherTypes'
      BY <1>1, <1>3 DEF IInv, OtherTypes, Joins
    <2>2. Counts(c)
      BY <1>1 DEF Counts, Quiet
    <2> QED
      BY <1>1, <1>3, <2>1, <2>2, JoinsStep
  <1> QED
    BY <1>2, <1>3 DEF DialSucceeds

LEMMA ResetFailuresStep ==
    ASSUME IInv, NEW d \in Callers, ResetFailures(d)
    PROVE  IInv'
  <1>1. /\ UNCHANGED <<setting, warmup, load, optimal, snapshot, rescoring, torn>>
        /\ dial[d].at = "resetting" /\ Joins(d) /\ echFailureCount' = 0
        /\ UNCHANGED <<forcing, forceAsked, cooling, echFallbackEnabled, cache, key, window, refresh>>
    BY DEF IInv, ResetFailures, relayVars, poolVars
  <1>2. OtherTypes'
    BY <1>1 DEF IInv, OtherTypes, Joins
  <1>3. Counts(dial[d])
    BY <1>1 DEF Counts, Quiet
  <1> QED
    BY <1>1, <1>2, <1>3, JoinsStep

LEMMA CollectStep ==
    ASSUME IInv, NEW d \in Callers, Collect(d)
    PROVE  IInv'
  <1> DEFINE c == dial[d]
             e == [c EXCEPT !.at = "idle"]
  <1>1. /\ UNCHANGED <<setting, load, optimal, snapshot, rescoring, torn, warmed>>
        /\ dial \in [Callers -> DialSet] /\ c \in DialSet /\ LoadInv /\ WarmupInv /\ setting \in Settings
        /\ c.at \in {"won", "lost"} /\ Move(d, e) /\ d \in warmup.batch
    BY DEF IInv, Collect, Goto, Move, relayVars, poolVars
  <1>2. OtherTypes'
    BY DEF IInv, OtherTypes, Collect, relayVars, poolVars, echVars
  <1>3. "idle" \in DialSteps /\ c.key \in 0 .. MaxKey /\ c.at \in Quiet
    BY <1>1 DEF DialSteps, DialSet, Quiet
  <1>4. e = [c EXCEPT !.at = "idle"] /\ e.at = "idle"
    BY <1>1 DEF DialSet
  <1> HIDE DEF e
  <1>5. e \in DialSet /\ SameUse(c, e)
    BY <1>1, <1>3, <1>4, Goes
  <1>6. LoadInv'
    <2>1. \A a \in Nodes : Counted(a)' = Counted(a)
      <3>1. ASSUME NEW a \in Nodes
            PROVE  Counted(a)' = Counted(a)
        <4>1. Users(a)' = Users(a) /\ warmed'[a] = warmed[a]
          BY <1>1, <1>5, SameUsers
        <4> QED
          BY <4>1, SameCount
      <3> QED
        BY <3>1
    <2>2. warmed' \in [Nodes -> Nat] /\ UNCHANGED <<load, optimal, snapshot, rescoring, torn>>
      BY <1>1 DEF LoadInv
    <2> QED
      BY <1>1, <2>1, <2>2, LoadKept
  <1>7. WarmupInv'
    <2> DEFINE B == warmup.batch
    <2>1. /\ B \subseteq Warmers /\ IsFiniteSet(B) /\ Cardinality(B) \in Nat
          /\ warmup \in WarmupSet /\ setting.target \in Nat
          /\ warmup.created + Cardinality(B) <= setting.target
          /\ warmup.failed + Cardinality(B) <= warmup.size
          /\ warmup.at # "waiting" => B = {}
      BY <1>1, BatchFinite, SettingType DEF WarmupInv
    <2>2. Cardinality(B \ {d}) = Cardinality(B) - 1
      BY <1>1, <2>1, FS_RemoveElement
    <2> DEFINE rest == B \ {d}
    <2>3. /\ rest \in SUBSET Warmers /\ warmup.created + 1 \in Nat /\ warmup.failed + 1 \in Nat
          /\ 0 \in 0 .. 3
      BY <2>1 DEF WarmupSet
    <2>4. /\ warmup' \in WarmupSet /\ warmup'.batch = B \ {d} /\ warmup'.at = warmup.at
          /\ warmup'.size = warmup.size
          /\ warmup'.created \in {warmup.created, warmup.created + 1}
          /\ warmup'.failed \in {warmup.failed, warmup.failed + 1}
      <3>1. CASE c.at = "won"
        <4>1. warmup' = [warmup EXCEPT !.batch = rest, !.created = warmup.created + 1, !.streak = 0]
          BY <3>1 DEF Collect
        <4>2. rest = B \ {d}
          OBVIOUS
        <4> HIDE DEF rest, B
        <4> QED
          BY <2>1, <2>3, <4>1, <4>2 DEF WarmupSet
      <3>2. CASE c.at # "won"
        <4>1. warmup' = [warmup EXCEPT !.batch = rest, !.failed = warmup.failed + 1]
          BY <3>2 DEF Collect
        <4>2. rest = B \ {d}
          OBVIOUS
        <4> HIDE DEF rest, B
        <4> QED
          BY <2>1, <2>3, <4>1, <4>2 DEF WarmupSet
      <3> QED
        BY <3>1, <3>2
    <2>5. \A x \in Warmers \ warmup'.batch : dial'[x].at = "idle"
      <3>1. dial'[d] = e /\ \A x \in Callers \ {d} : dial'[x] = dial[x]
        BY <1>1, <1>5, MoveType
      <3> QED
        BY <1>1, <1>4, <2>4, <3>1 DEF WarmupInv, Callers
    <2>6. /\ warmup'.created + Cardinality(B \ {d}) <= setting.target
          /\ warmup'.failed + Cardinality(B \ {d}) <= warmup.size
      BY <2>1, <2>2, <2>4 DEF WarmupSet
    <2>7. setting' = setting /\ WarmupSet' = WarmupSet /\ (warmup'.at # "waiting" => warmup'.batch = {})
      BY <1>1, <2>1, <2>4 DEF WarmupSet
    <2> QED
      BY <2>4, <2>5, <2>6, <2>7 DEF WarmupInv
  <1>8. dial' \in [Callers -> DialSet] /\ DialSet' = DialSet
    BY <1>1, <1>5, MoveType DEF DialSet
  <1> QED
    BY <1>1, <1>2, <1>6, <1>7, <1>8 DEF IInv
-----------------------------------------------------------------------------
(* The list of nodes and the ECH cache *)

\* Nobody's call or connection changes.
LEMMA Uncounted ==
    ASSUME IInv, UNCHANGED <<setting, dial, warmed, warmup>>
    PROVE  /\ \A a \in Nodes : Counted(a)' = Counted(a)
           /\ WarmupInv' /\ dial' \in [Callers -> DialSet] /\ DialSet' = DialSet /\ setting' \in Settings
           /\ LoadInv /\ (UNCHANGED <<load, optimal, snapshot, rescoring, torn>> => LoadInv')
  <1>1. \A a \in Nodes : Counted(a)' = Counted(a)
    BY DEF Counted
  <1>2. WarmupInv' /\ dial' \in [Callers -> DialSet] /\ DialSet' = DialSet /\ setting' \in Settings
    BY DEF IInv, WarmupInv, WarmupSet, DialSet
  <1>3. LoadInv /\ warmed' \in [Nodes -> Nat]
    BY DEF IInv, LoadInv
  <1> QED
    BY <1>1, <1>2, <1>3, LoadKept

LEMMA RescoreAllStep ==
    ASSUME IInv, RescoreAll
    PROVE  IInv'
  <1>1. /\ ~rescoring /\ rescoring' /\ rescoring' \in BOOLEAN /\ snapshot' = load
        /\ UNCHANGED <<setting, dial, warmed, warmup, load, optimal, torn>> /\ OtherTypes'
    BY DEF IInv, RescoreAll, Copies, OtherTypes, poolVars, echVars
  <1>2. /\ \A a \in Nodes : Counted(a)' = Counted(a)
        /\ WarmupInv' /\ dial' \in [Callers -> DialSet] /\ DialSet' = DialSet /\ setting' \in Settings
        /\ LoadInv
    BY <1>1, Uncounted
  <1>3. LoadInv'
    BY <1>1, <1>2 DEF LoadInv, LoadAccounting
  <1> QED
    BY <1>1, <1>2, <1>3 DEF IInv

LEMMA RescoreEndsStep ==
    ASSUME IInv, RescoreEnds
    PROVE  IInv'
  <1>1. /\ rescoring /\ ~rescoring' /\ rescoring' \in BOOLEAN
        /\ load' = [a \in DOMAIN snapshot |-> IF a \in torn THEN 0 ELSE snapshot[a]]
        /\ optimal' \subseteq DOMAIN snapshot /\ snapshot' = <<>>
        /\ UNCHANGED <<setting, dial, warmed, warmup, torn>> /\ OtherTypes'
    BY DEF IInv, RescoreEnds, Rescored, OtherTypes, poolVars, echVars
  <1>2. /\ \A a \in Nodes : Counted(a)' = Counted(a)
        /\ WarmupInv' /\ dial' \in [Callers -> DialSet] /\ DialSet' = DialSet /\ setting' \in Settings
        /\ LoadInv
    BY <1>1, Uncounted
  <1>3. DOMAIN snapshot' = {}
    BY <1>1
  <1>4. /\ DOMAIN load' = DOMAIN snapshot /\ DOMAIN snapshot \subseteq Nodes
        /\ \A a \in DOMAIN load' : load'[a] \in Int
        /\ \A a \in DOMAIN load' \ torn : load'[a] = Counted(a)
    BY <1>1, <1>2 DEF LoadInv
  <1>5. LoadInv'
    BY <1>1, <1>2, <1>3, <1>4 DEF LoadInv, LoadAccounting
  <1> QED
    BY <1>1, <1>2, <1>5 DEF IInv

LEMMA ForceEndsStep ==
    ASSUME IInv, ForceEnds
    PROVE  IInv'
  <1>1. /\ torn' = {a \in Nodes : Counted(a) > 0} \union (IF rescoring THEN torn ELSE {})
        /\ UNCHANGED <<setting, dial, warmed, warmup, snapshot, rescoring>> /\ OtherTypes'
    BY DEF IInv, ForceEnds, OtherTypes, poolVars, echVars
  <1>2. PICK S \in SUBSET Nodes : load' = [a \in S |-> 0] /\ optimal' \in SUBSET S
    BY DEF ForceEnds
  <1>3. /\ \A a \in Nodes : Counted(a)' = Counted(a)
        /\ WarmupInv' /\ dial' \in [Callers -> DialSet] /\ DialSet' = DialSet /\ setting' \in Settings
        /\ LoadInv
    BY <1>1, Uncounted
  <1>4. \A a \in Nodes \ torn' : Counted(a) = 0
    <2>1. ASSUME NEW a \in Nodes
          PROVE  Counted(a) \in Nat
      <3>1. warmed[a] \in Nat
        BY <1>3 DEF LoadInv
      <3> QED
        BY <3>1, UsersCount
    <2> QED
      BY <1>1, <2>1
  <1>5. torn' \subseteq Nodes /\ (rescoring => torn \subseteq torn')
    BY <1>1, <1>3 DEF LoadInv
  <1>6. DOMAIN load' = S /\ \A a \in DOMAIN load' : load'[a] = 0
    BY <1>2
  <1>7. \A a \in DOMAIN load' \ torn' : load'[a] = Counted(a)'
    BY <1>3, <1>4, <1>6
  <1>8. rescoring' => \A a \in DOMAIN snapshot' \ torn' : snapshot'[a] = Counted(a)'
    BY <1>1, <1>3, <1>5 DEF LoadInv
  <1>9. LoadInv'
    BY <1>1, <1>2, <1>3, <1>5, <1>6, <1>7, <1>8 DEF LoadInv, LoadAccounting
  <1> QED
    BY <1>1, <1>3, <1>9 DEF IInv

\* Neither loads nor Warmup are concerned.
ApartStep ==
    \/ ForceRescore
    \/ CooldownEnds
    \/ Expire
    \/ WindowEnds
    \/ RotateKey
    \/ PoolSpins

LEMMA ApartKeeps ==
    ASSUME IInv, ApartStep
    PROVE  IInv'
  <1>1. UNCHANGED <<setting, dial, warmed, warmup, load, optimal, snapshot, rescoring, torn,
                    echFailureCount,
                    echFallbackEnabled, refresh>>
    BY DEF ApartStep, ForceRescore, CooldownEnds, Expire, WindowEnds, RotateKey, PoolSpins, relayVars,
       poolVars, echVars
  <1>2. OtherTypes'
    <2>1. forcing' \in BOOLEAN /\ forceAsked' \in BOOLEAN /\ cooling' \in BOOLEAN
      BY DEF IInv, OtherTypes, ApartStep, ForceRescore, CooldownEnds, Expire, WindowEnds, RotateKey,
             PoolSpins, relayVars, poolVars
    <2>2. live' \in Nat /\ spinning' \in BOOLEAN /\ window' \in {"closed", "open", "over"}
      BY DEF IInv, OtherTypes, ApartStep, ForceRescore, CooldownEnds, Expire, WindowEnds, RotateKey,
             PoolSpins, poolVars, echVars
    <2>3. cache' \in 0 .. MaxKey /\ key' \in 1 .. MaxKey
      BY SizeAssumption DEF IInv, OtherTypes, ApartStep, ForceRescore, CooldownEnds, Expire,
         WindowEnds, RotateKey,
             PoolSpins, poolVars, echVars
    <2> QED
      BY <1>1, <2>1, <2>2, <2>3 DEF IInv, OtherTypes
  <1>3. /\ WarmupInv' /\ dial' \in [Callers -> DialSet] /\ DialSet' = DialSet /\ setting' \in Settings /\ LoadInv'
    BY <1>1, Uncounted
  <1> QED
    BY <1>2, <1>3 DEF IInv

\* The queries that a lost connection carried are asked again: their dials count as
\* before.
LEMMA ConnectionLostStep ==
    ASSUME IInv, ConnectionLost
    PROVE  IInv'
  <1>1. /\ UNCHANGED <<setting, warmed, warmup, load, optimal, snapshot, rescoring, torn, forcing,
                       forceAsked,
                       cooling, cache, key, echFailureCount, echFallbackEnabled, window>>
        /\ dial \in [Callers -> DialSet] /\ LoadInv /\ WarmupInv /\ setting \in Settings /\ OtherTypes
    BY DEF IInv, ConnectionLost, relayVars
  <1>2. PICK B \in SUBSET ({d \in Callers : dial[d].at = "exchange"}
                          \union {r \in Refreshers : refresh[r].at = "exchange"}) :
           /\ dial' = [d \in Callers |-> [dial[d] EXCEPT !.at = AgainIn(B, d, dial[d].at)]]
           /\ refresh' = [r \in Refreshers |-> [refresh[r] EXCEPT !.at = AgainIn(B, r, refresh[r].at)]]
    BY Zenon DEF ConnectionLost
  <1>3. ASSUME NEW d \in Callers
        PROVE  /\ dial'[d] \in DialSet /\ dial'[d].node = dial[d].node
               /\ Counts(dial'[d]) <=> Counts(dial[d])
               /\ dial[d].at = "idle" => dial'[d].at = "idle"
    <2>1. dial[d] \in DialSet /\ "asking" \in DialSteps \ (Quiet \union {"chosen", "unload"})
      BY <1>1 DEF DialSteps, QuerySteps, Quiet
    <2>2. CASE d \in B /\ dial[d].at = "exchange"
      <3>1. dial'[d] = [dial[d] EXCEPT !.at = "asking"]
        BY <1>2, <2>2 DEF AgainIn
      <3> QED
        BY <2>1, <2>2, <3>1 DEF DialSet, Counts, Quiet
    <2>3. CASE d \notin B
      <3>1. dial'[d] = [dial[d] EXCEPT !.at = dial[d].at]
        BY <1>2, <2>3 DEF AgainIn
      <3>2. dial'[d] = dial[d]
        BY <2>1, <3>1 DEF DialSet
      <3> QED
        BY <2>1, <3>2
    <2>4. d \in B => dial[d].at = "exchange"
      BY <1>2, CallerAssumption
    <2> QED
      BY <2>2, <2>3, <2>4
  <1>4. dial' \in [Callers -> DialSet] /\ DialSet' = DialSet
    BY <1>2, <1>3 DEF DialSet
  <1>5. OtherTypes'
    <2>1. refresh' \in [Refreshers -> [at : RefreshSteps, key : 0 .. MaxKey]]
      BY <1>1, <1>2 DEF AgainIn, OtherTypes, RefreshSteps, QuerySteps
    <2>2. live' \in Nat
      BY <1>1 DEF OtherTypes, ConnectionLost
    <2>3. spinning' \in BOOLEAN
      BY Zenon DEF ConnectionLost
    <2> QED
      BY <1>1, <2>1, <2>2, <2>3 DEF OtherTypes
  <1>6. LoadInv'
    <2>1. ASSUME NEW a \in Nodes PROVE Counted(a)' = Counted(a)
      <3>1. \A d \in Callers : Counts(dial[d])' <=> Counts(dial'[d])
        BY DEF Counts
      <3>2. Users(a)' = Users(a)
        BY <1>3, <3>1 DEF Users
      <3> QED
        BY <1>1, <3>2, SameCount
    <2>2. warmed' \in [Nodes -> Nat] /\ UNCHANGED <<load, optimal, snapshot, rescoring, torn>>
      BY <1>1 DEF LoadInv
    <2> QED
      BY <1>1, <2>1, <2>2, LoadKept
  <1>7. WarmupInv'
    BY <1>1, <1>3 DEF WarmupInv, WarmupSet, Callers
  <1> QED
    BY <1>1, <1>4, <1>5, <1>6, <1>7 DEF IInv

LEMMA RefreshStep ==
    ASSUME IInv, NEW x \in Refreshers, RefreshDeletes(x) \/ RefreshAsks(x) \/ RefreshCaches(x)
    PROVE  IInv'
  <1>1. UNCHANGED <<setting, dial, live, spinning, warmed, warmup, load, optimal, snapshot, rescoring,
                    torn, forcing,
                    forceAsked, cooling, key, echFailureCount, echFallbackEnabled, window>>
    BY DEF RefreshDeletes, RefreshAsks, RefreshCaches, relayVars, poolVars
  <1>2. 0 \in 0 .. MaxKey /\ key \in 0 .. MaxKey
    BY SizeAssumption DEF IInv, OtherTypes
  <1>3. \E step \in RefreshSteps, k \in 0 .. MaxKey : SetRefresh(x, step, k)
    BY <1>2 DEF RefreshDeletes, RefreshAsks, RefreshCaches, RefreshSteps, QuerySteps
  <1>4. refresh' \in [Refreshers -> [at : RefreshSteps, key : 0 .. MaxKey]]
    BY <1>3, SetRefreshType DEF SetRefresh
  <1>5. cache' \in 0 .. MaxKey
    <2>1. cache' \in {cache, 0, refresh[x].key}
      BY DEF RefreshDeletes, RefreshAsks, RefreshCaches
    <2> QED
      BY <1>2, <2>1 DEF IInv, OtherTypes
  <1>6. OtherTypes'
    BY <1>1, <1>4, <1>5 DEF IInv, OtherTypes
  <1>7. /\ WarmupInv' /\ dial' \in [Callers -> DialSet] /\ DialSet' = DialSet /\ setting' \in Settings /\ LoadInv'
    BY <1>1, Uncounted
  <1> QED
    BY <1>6, <1>7 DEF IInv
-----------------------------------------------------------------------------
(* Warmup *)

\* No goroutine of Warmup is left when a batch starts.
LEMMA StartBatchStep ==
    ASSUME IInv, StartBatch
    PROVE  IInv'
  <1> DEFINE rest == setting.target - warmup.created
             size == IF rest < Concurrency THEN rest ELSE Concurrency
             asked == [NoDial EXCEPT !.at = "asked"]
  <1>1. /\ UNCHANGED <<setting, live, spinning, warmed, load, optimal, snapshot, rescoring,
                       torn>> /\ OtherTypes'
        /\ dial \in [Callers -> DialSet] /\ LoadInv /\ WarmupInv /\ setting \in Settings
    BY DEF IInv, StartBatch, OtherTypes, relayVars, poolVars, echVars
  <1>2. /\ warmup \in WarmupSet /\ warmup.batch = {} /\ \A d \in Warmers : dial[d].at = "idle"
        /\ warmup.created + Cardinality(warmup.batch) <= setting.target
        /\ warmup.failed + Cardinality(warmup.batch) <= warmup.size
    BY <1>1 DEF StartBatch, WarmupInv
  <1>3. Cardinality({}) = 0 /\ setting.target \in Nat /\ warmup.created \in Nat /\ Concurrency \in Nat \ {0}
    BY <1>1, <1>2, FS_EmptySet, SettingType, ConcurrencyType DEF WarmupSet
  <1>4. rest \in Nat /\ size \in 0 .. Concurrency /\ size <= rest
    BY <1>2, <1>3
  <1>5. CASE rest = 0
    <2>1. warmup' = [warmup EXCEPT !.at = "done"] /\ dial' = dial
      BY <1>5 DEF StartBatch
    <2>2. /\ warmup' \in WarmupSet /\ warmup'.batch = {} /\ warmup'.created = warmup.created
          /\ warmup'.failed = warmup.failed /\ warmup'.size = warmup.size
      BY <1>2, <2>1 DEF WarmupSet
    <2>3. WarmupInv'
      BY <1>1, <1>2, <2>1, <2>2 DEF WarmupInv, WarmupSet
    <2>4. \A a \in Nodes : Counted(a)' = Counted(a)
      BY <1>1, <2>1 DEF Counted
    <2>5. LoadInv'
      <3>1. warmed' \in [Nodes -> Nat] /\ UNCHANGED <<load, optimal, snapshot, rescoring, torn>>
        BY <1>1 DEF LoadInv
      <3> QED
        BY <1>1, <2>4, <3>1, LoadKept
    <2>6. dial' \in [Callers -> DialSet] /\ DialSet' = DialSet
      BY <1>1, <2>1 DEF DialSet
    <2> QED
      BY <1>1, <2>3, <2>5, <2>6 DEF IInv
  <1>6. CASE rest # 0
    <2>1. PICK B \in SUBSET Warmers :
             /\ Cardinality(B) = size
             /\ warmup' = [warmup EXCEPT !.at = "waiting", !.batch = B, !.size = size, !.failed = 0]
             /\ dial' = [d \in Callers |-> IF d \in B THEN asked ELSE dial[d]]
      BY <1>6 DEF StartBatch
    <2>2. asked \in DialSet /\ ~Counts(asked)
      BY SizeAssumption DEF NoDial, DialSet, DialSteps, Quiet, Counts
    <2> HIDE DEF asked
    <2>3. dial' \in [Callers -> DialSet] /\ DialSet' = DialSet
      BY <1>1, <2>1, <2>2 DEF DialSet
    <2>4. \A a \in Nodes : Counted(a)' = Counted(a)
      <3>1. ASSUME NEW a \in Nodes
            PROVE  Counted(a)' = Counted(a)
        <4>1. \A d \in Callers : Counts(dial[d])' <=> Counts(dial'[d])
          BY DEF Counts
        <4>2. \A d \in B : ~Counts(dial[d]) /\ ~Counts(dial'[d])
          BY <1>2, <2>1, <2>2 DEF Counts, Quiet, Callers
        <4>3. \A d \in Callers \ B : dial'[d] = dial[d]
          BY <2>1
        <4>4. Users(a)' = Users(a)
          BY <4>1, <4>2, <4>3 DEF Users
        <4> QED
          BY <1>1, <4>4, SameCount
      <3> QED
        BY <3>1
    <2>5. LoadInv'
      <3>1. warmed' \in [Nodes -> Nat] /\ UNCHANGED <<load, optimal, snapshot, rescoring, torn>>
        BY <1>1 DEF LoadInv
      <3> QED
        BY <1>1, <2>4, <3>1, LoadKept
    <2>6. WarmupInv'
      <3> HIDE DEF size
      <3>1. /\ warmup' \in WarmupSet /\ warmup'.batch = B /\ warmup'.created = warmup.created
            /\ warmup'.failed = 0 /\ warmup'.size = size /\ warmup'.at = "waiting"
        BY <1>2, <1>4, <2>1 DEF WarmupSet
      <3>2. /\ warmup'.created + Cardinality(B) <= setting.target
            /\ warmup'.failed + Cardinality(B) <= warmup'.size
        BY <1>3, <1>4, <2>1, <3>1
      <3>3. \A d \in Warmers \ B : dial'[d].at = "idle"
        BY <1>2, <2>1 DEF Callers
      <3>4. setting' = setting /\ WarmupSet' = WarmupSet
        BY <1>1 DEF WarmupSet
      <3> QED
        BY <3>1, <3>2, <3>3, <3>4 DEF WarmupInv
    <2> QED
      BY <1>1, <2>3, <2>5, <2>6 DEF IInv
  <1> QED
    BY <1>5, <1>6

LEMMA EndBatchStep ==
    ASSUME IInv, EndBatch
    PROVE  IInv'
  <1>1. /\ UNCHANGED <<setting, dial, live, spinning, warmed, load, optimal, snapshot, rescoring,
                       torn>> /\ OtherTypes'
        /\ dial \in [Callers -> DialSet] /\ LoadInv /\ WarmupInv /\ setting \in Settings /\ warmup.batch = {}
    BY DEF IInv, EndBatch, OtherTypes, relayVars, poolVars, echVars
  <1>2. /\ warmup' \in WarmupSet /\ warmup'.batch = warmup.batch /\ warmup'.created = warmup.created
        /\ warmup'.failed = warmup.failed /\ warmup'.size = warmup.size
    <2>1. warmup \in WarmupSet
      BY <1>1 DEF WarmupInv
    <2>2. CASE warmup' = [warmup EXCEPT !.at = "done"]
      BY <2>1, <2>2 DEF WarmupSet
    <2>3. CASE Streak <= 3 /\ warmup' = [warmup EXCEPT !.at = "ready", !.streak = Streak]
      <3>1. Streak \in 0 .. 3
        BY <2>1, <2>3 DEF Streak, WarmupSet
      <3> QED
        BY <2>1, <2>3, <3>1 DEF WarmupSet
    <2> QED
      BY <2>2, <2>3 DEF EndBatch
  <1>3. WarmupInv'
    BY <1>1, <1>2 DEF WarmupInv, WarmupSet
  <1>4. \A a \in Nodes : Counted(a)' = Counted(a)
    BY <1>1 DEF Counted
  <1>5. LoadInv'
    <2>1. warmed' \in [Nodes -> Nat] /\ UNCHANGED <<load, optimal, snapshot, rescoring, torn>>
      BY <1>1 DEF LoadInv
    <2> QED
      BY <1>1, <1>4, <2>1, LoadKept
  <1>6. dial' \in [Callers -> DialSet] /\ DialSet' = DialSet
    BY <1>1 DEF DialSet
  <1> QED
    BY <1>1, <1>3, <1>5, <1>6 DEF IInv
-----------------------------------------------------------------------------
(* The specification *)

\* Every step keeps the invariant.
THEOREM Invariance == Spec => []IInv
  <1>1. Init => IInv
    BY InitInvariant
  <1>2. IInv /\ [Next]_vars => IInv'
    <2> SUFFICES ASSUME IInv, [Next]_vars
                 PROVE  IInv'
      OBVIOUS
    <2>1. ASSUME NEW d \in Callers, Choose(d) \/ Refused(d) \/ DialStep(d) \/ Collect(d)
          PROVE  IInv'
      <3>1. CASE Choose(d) \/ Refused(d) \/ Collect(d)
        BY <3>1, ChooseStep, RefusedStep, CollectStep
      <3>2. CASE DialStep(d)
        BY <3>2, AddLoadStep, GetTLSConfigStep, FetchAcquiresStep, FetchAnsweredStep, FetchEndsStep,
           DialSucceedsStep,
           ResetFailuresStep, EchErrorStep, FailureStep, UnloadStep DEF DialStep
      <3> QED
        BY <2>1, <3>1, <3>2
    <2>2. ASSUME NEW x \in Refreshers, RefreshDeletes(x) \/ RefreshAsks(x) \/ RefreshCaches(x)
          PROVE  IInv'
      BY <2>2, RefreshStep
    <2>3. CASE RescoreAll \/ RescoreEnds \/ ForceEnds
      BY <2>3, RescoreAllStep, RescoreEndsStep, ForceEndsStep
    <2>4. CASE ApartStep
      BY <2>4, ApartKeeps
    <2>5. CASE StartBatch \/ EndBatch \/ ConnectionLost
      BY <2>5, StartBatchStep, EndBatchStep, ConnectionLostStep
    <2>6. CASE UNCHANGED vars
      <3>1. /\ UNCHANGED <<setting, dial, warmed, warmup, load, optimal, snapshot, rescoring, torn>>
            /\ OtherTypes'
        BY <2>6 DEF vars, relayVars, poolVars, echVars, IInv, OtherTypes
      <3> QED
        BY <3>1, Uncounted DEF IInv
    <2> QED
      BY <2>1, <2>2, <2>3, <2>4, <2>5, <2>6 DEF Next, ApartStep
  <1> QED
    BY <1>1, <1>2, PTL DEF Spec

\* Every variable has its type: in particular Warmup never makes more connections
\* than it is asked to, whatever the batches of goroutines return in whatever order.
THEOREM TypeCorrect == Spec => []TypeOK
  BY Invariance, TypeInvariant, PTL

\* The load of a relay node counts its dials and the connections of Warmup, on
\* every path through createConnection, and rescoreAll keeps the count, for the
\* nodes whose updates all found them in optimalRelays and no rescore under way.
THEOREM LoadsCounted == Spec => []LoadAccounting
  <1>1. IInv => LoadAccounting
    BY DEF IInv, LoadInv
  <1> QED
    BY <1>1, Invariance, PTL
-----------------------------------------------------------------------------
(* Old ECH keys *)

\* An answer to a query that is still to be stored carries the key k.
Underway(k) ==
    \/ \E d \in Callers : dial[d].at = "answered" /\ dial[d].key = k
    \/ \E x \in Refreshers : refresh[x].at = "answered" /\ refresh[x].key = k

\* The worker has gone on from the key k, which the cache does not hold, and no
\* answer brings it any more.
Gone(k) == k < key /\ cache # k /\ ~Underway(k)

\* The worker never goes back to a key.
LEMMA KeysGrow ==
    ASSUME OtherTypes, Next
    PROVE  key' \in Nat /\ key <= key'
  <1>1. key' = key \/ key' = key + 1
    BY DEF Next, Choose, Refused, DialStep, AddLoad, GetTLSConfig, FetchAcquires, FetchAnswered,
       FetchCached,
       FetchFails, DialSucceeds, ResetFailures, EchError, EnableFallback, RelayError, OtherError,
       Unload, Collect, RefreshDeletes, RefreshAsks, RefreshCaches, RescoreAll, RescoreEnds,
       ForceRescore, ForceEnds, CooldownEnds, Expire, WindowEnds, RotateKey, PoolSpins, ConnectionLost,
       StartBatch, EndBatch, poolVars, echVars
  <1> QED
    BY <1>1, SizeAssumption DEF OtherTypes

\* A step of a dial that goes elsewhere than "answered".
LEMMA NoAnswer ==
    ASSUME dial \in [Callers -> DialSet], NEW e \in Callers, NEW d \in Callers,
           dial'[d].at = "answered",
           \/ \E step \in DialSteps \ {"answered"} : Goto(e, step)
           \/ Leave(e) \/ dial' = [dial EXCEPT ![e] = Ended(e)]
           \/ \E c \in DialSet : c.at # "answered" /\ dial' = [dial EXCEPT ![e] = c]
    PROVE  dial'[d] = dial[d]
  <1> SUFFICES ASSUME e = d PROVE FALSE
    BY DEF Goto, Leave
  <1>1. dial[e] \in [at : DialSteps, node : Nodes \union {NoNode}, key : 0 .. MaxKey]
    BY DEF DialSet
  <1>2. ~\E step \in DialSteps \ {"answered"} : Goto(e, step)
    BY <1>1 DEF Goto
  <1>3. Ended(e).at # "answered"
    BY DEF Ended, NoDial
  <1>4. ~Leave(e)
    BY <1>1, <1>3 DEF Leave
  <1> QED
    BY <1>2, <1>3, <1>4

\* A dial that has an answer has had it, or has just got the current key.
LEMMA AnswersNew ==
    ASSUME IInv, Next, NEW d \in Callers, dial'[d].at = "answered"
    PROVE  dial'[d] = dial[d] \/ dial'[d].key = key
  <1>0. dial \in [Callers -> DialSet]
    BY DEF IInv
  <1> DEFINE Elsewhere(e) ==
               \/ \E step \in DialSteps \ {"answered"} : Goto(e, step)
               \/ Leave(e) \/ dial' = [dial EXCEPT ![e] = Ended(e)]
               \/ \E c \in DialSet : c.at # "answered" /\ dial' = [dial EXCEPT ![e] = c]
  <1>1. ASSUME NEW e \in Callers, Elsewhere(e)
        PROVE  dial'[d] = dial[d]
    BY <1>0, <1>1, NoAnswer
  <1>2. ASSUME NEW e \in Callers, Choose(e) \/ Refused(e) \/ Collect(e)
        PROVE  dial'[d] = dial[d]
    <2>1. ASSUME NEW a \in optimal, dial' = [dial EXCEPT ![e] = [NoDial EXCEPT !.at = "chosen", !.node = a]]
          PROVE  dial'[d] = dial[d]
      <3>1. [NoDial EXCEPT !.at = "chosen", !.node = a].at # "answered"
        BY DEF NoDial
      <3> QED
        BY <1>0, <2>1, <3>1
    <2>2. ASSUME Goto(e, "tls") \/ Goto(e, "lost") \/ Goto(e, "idle") PROVE Elsewhere(e)
      BY <2>2 DEF DialSteps, Quiet
    <2> HIDE DEF Elsewhere
    <2> QED
      BY <1>1, <1>2, <2>1, <2>2 DEF Choose, Refused, Collect
  <1>3. ASSUME NEW e \in Callers, DialStep(e)
        PROVE  dial'[d] = dial[d] \/ dial'[d].key = key
    <2>1. CASE AddLoad(e) \/ FetchAcquires(e) \/ FetchCached(e) \/ FetchFails(e)
      <3>1. Goto(e, "tls") \/ Goto(e, "exchange") \/ Goto(e, "dialing")
        BY <2>1 DEF AddLoad, FetchAcquires, FetchCached, FetchFails
      <3>2. Elsewhere(e)
        BY <3>1 DEF DialSteps, QuerySteps
      <3> QED
        BY <1>1, <3>2
    <2>2. CASE Unload(e)
      BY <1>1, <2>2 DEF Unload
    <2>3. CASE GetTLSConfig(e)
      <3>1. dial[e] \in [at : DialSteps, node : Nodes \union {NoNode}, key : 0 .. MaxKey]
        BY <1>0 DEF DialSet
      <3>2. d = e => dial'[d].at \in {"asking", "dialing"}
        BY <1>0, <2>3, <3>1 DEF GetTLSConfig
      <3>3. d # e
        BY <3>2
      <3> QED
        BY <1>0, <2>3, <3>3 DEF GetTLSConfig
    <2>4. CASE FetchAnswered(e)
      <3>1. dial[e] \in [at : DialSteps, node : Nodes \union {NoNode}, key : 0 .. MaxKey]
        BY <1>0 DEF DialSet
      <3>2. d = e => dial'[d].key = key
        BY <1>0, <2>4, <3>1 DEF FetchAnswered
      <3>3. d # e => dial'[d] = dial[d]
        BY <1>0, <2>4 DEF FetchAnswered
      <3> QED
        BY <3>2, <3>3
    <2>5. CASE DialSucceeds(e) \/ ResetFailures(e)
      <3>1. ASSUME Goto(e, "resetting") PROVE Elsewhere(e)
        BY <3>1 DEF DialSteps
      <3>2. ASSUME dial' = [dial EXCEPT ![e] = [NoDial EXCEPT !.at = "won"]]
            PROVE  dial'[d] = dial[d]
        <4>1. [NoDial EXCEPT !.at = "won"].at # "answered"
          BY DEF NoDial
        <4> QED
          BY <1>0, <3>2, <4>1
      <3>3. ASSUME Joins(e) PROVE dial'[d] = dial[d]
        BY <1>1, <3>2, <3>3 DEF Joins
      <3> HIDE DEF Elsewhere
      <3> QED
        BY <1>1, <2>5, <3>1, <3>3 DEF DialSucceeds, ResetFailures
    <2>6. CASE EchError(e) \/ EnableFallback(e) \/ RelayError(e) \/ OtherError(e)
      <3>1. ASSUME Goto(e, "third") PROVE Elsewhere(e)
        BY <3>1 DEF DialSteps
      <3>2. Goto(e, "third") \/ Leave(e)
        BY <2>6 DEF EchError, EnableFallback, RelayError, OtherError
      <3> QED
        BY <1>1, <3>1, <3>2
    <2> QED
      BY <1>3, <2>1, <2>2, <2>3, <2>4, <2>5, <2>6 DEF DialStep
  <1>4. CASE StartBatch
    BY <1>4 DEF StartBatch, NoDial
  <1>5. ASSUME UNCHANGED dial PROVE dial'[d] = dial[d]
    BY <1>5
  <1>6. CASE \E x \in Refreshers : RefreshDeletes(x) \/ RefreshAsks(x) \/ RefreshCaches(x)
    BY <1>5, <1>6 DEF RefreshDeletes, RefreshAsks, RefreshCaches
  <1>7. CASE \/ RescoreAll \/ RescoreEnds \/ ForceRescore \/ ForceEnds \/ CooldownEnds
             \/ Expire \/ WindowEnds \/ RotateKey \/ PoolSpins \/ EndBatch
    BY <1>5, <1>7 DEF RescoreAll, RescoreEnds, ForceRescore, ForceEnds, CooldownEnds, Expire,
       WindowEnds, RotateKey, PoolSpins, EndBatch
  <1>8. CASE ConnectionLost
    <2>1. PICK B : dial' = [c \in Callers |-> [dial[c] EXCEPT !.at = AgainIn(B, c, dial[c].at)]]
      BY <1>8 DEF ConnectionLost
    <2>2. dial[d] \in [at : DialSteps, node : Nodes \union {NoNode}, key : 0 .. MaxKey]
      BY <1>0 DEF DialSet
    <2>3. dial'[d] = [dial[d] EXCEPT !.at = AgainIn(B, d, dial[d].at)]
      BY <2>1
    <2> QED
      BY <2>2, <2>3 DEF AgainIn
  <1> QED
    BY <1>2, <1>3, <1>4, <1>6, <1>7, <1>8 DEF Next

\* So has a refresh.
LEMMA RefreshesNew ==
    ASSUME IInv, Next, NEW x \in Refreshers, refresh'[x].at = "answered"
    PROVE  refresh'[x] = refresh[x] \/ refresh'[x].key = key
  <1> USE DEF IInv, OtherTypes
  <1>1. ASSUME NEW y \in Refreshers, RefreshDeletes(y) \/ RefreshAsks(y) \/ RefreshCaches(y)
        PROVE  refresh'[x] = refresh[x] \/ refresh'[x].key = key
    BY <1>1 DEF RefreshDeletes, RefreshAsks, RefreshCaches, SetRefresh
  <1>2. ASSUME NEW d \in Callers, EchError(d) PROVE refresh'[x] = refresh[x]
    BY <1>2 DEF EchError
  <1>3. ASSUME UNCHANGED refresh PROVE refresh'[x] = refresh[x]
    BY <1>3
  <1>4. ASSUME ConnectionLost PROVE refresh'[x] = refresh[x]
    <2>1. PICK B : refresh' = [r \in Refreshers |-> [refresh[r] EXCEPT !.at = AgainIn(B, r, refresh[r].at)]]
      BY <1>4 DEF ConnectionLost
    <2>2. refresh'[x] = [refresh[x] EXCEPT !.at = AgainIn(B, x, refresh[x].at)]
      BY <2>1
    <2> QED
      BY <2>2 DEF AgainIn
  <1> QED
    BY <1>1, <1>2, <1>3, <1>4 DEF Next, Choose, Refused, DialStep, AddLoad, GetTLSConfig, FetchAcquires,
       FetchAnswered, FetchCached, FetchFails, DialSucceeds, ResetFailures, EnableFallback, RelayError, OtherError,
       Unload, Collect, RescoreAll, RescoreEnds, ForceRescore, ForceEnds, CooldownEnds, Expire,
       WindowEnds, RotateKey, PoolSpins, StartBatch, EndBatch, poolVars, echVars

\* The cache gets what an answer brings, or is emptied.
LEMMA CacheNew ==
    ASSUME IInv, Next
    PROVE  cache' \in {0, cache} \/ Underway(cache')
  <1>1. ASSUME NEW d \in Callers, FetchCached(d) PROVE Underway(cache')
    BY <1>1 DEF FetchCached, Underway
  <1>2. ASSUME NEW x \in Refreshers, RefreshCaches(x) PROVE Underway(cache')
    BY <1>2 DEF RefreshCaches, Underway
  <1>3. ASSUME NEW x \in Refreshers, RefreshDeletes(x) PROVE cache' = 0
    BY <1>3 DEF RefreshDeletes
  <1>4. Expire => cache' = 0
    BY DEF Expire
  <1> QED
    BY <1>1, <1>2, <1>3, <1>4 DEF Next, Choose, Refused, DialStep, AddLoad, GetTLSConfig, FetchAcquires,
       FetchAnswered, FetchFails, DialSucceeds, ResetFailures, EchError, EnableFallback, RelayError, OtherError,
       Unload, Collect, RefreshAsks, RescoreAll, RescoreEnds, ForceRescore, ForceEnds,
       CooldownEnds, WindowEnds, RotateKey, PoolSpins, ConnectionLost, StartBatch, EndBatch, poolVars, echVars

\* An old key that has left the cache, with no answer under way that could bring it
\* back, never returns to it: what OldKeyForgotten promises for good, once it has
\* come to that.  A dial that has read it from the cache may still use it.
THEOREM GoneForGood ==
    ASSUME NEW k \in 1 .. MaxKey
    PROVE  Spec => [](Gone(k) => []Gone(k))
  <1>1. IInv /\ Gone(k) /\ [Next]_vars => Gone(k)'
    <2> SUFFICES ASSUME IInv, Gone(k), [Next]_vars PROVE Gone(k)'
      OBVIOUS
    <2>1. CASE UNCHANGED vars
      BY <2>1 DEF vars, poolVars, echVars, Gone, Underway
    <2>2. CASE Next
      <3>1. k < key' /\ k # key
        BY <2>2, KeysGrow, SizeAssumption DEF Gone, IInv, OtherTypes
      <3>2. cache' # k
        BY <2>2, CacheNew DEF Gone
      <3>3. ~Underway(k)'
        BY <2>2, <3>1, AnswersNew, RefreshesNew DEF Gone, Underway
      <3> QED
        BY <3>1, <3>2, <3>3 DEF Gone
    <2> QED
      BY <2>1, <2>2
  <1> QED
    BY <1>1, Invariance, PTL DEF Spec
=============================================================================
