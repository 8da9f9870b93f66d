------------------------- MODULE SocksTunnel_proofs -------------------------
(***************************************************************************)
(* Machine-checked facts about SocksTunnel, for every capacity of the       *)
(* downstream queue and any number of frames: the types, the bound on late   *)
(* frames, and that what the client is given is an ordered pipe.            *)
(***************************************************************************)
EXTENDS SocksTunnel, TLAPS

Writing == writer.at = "writing"
Holding == loop.at \in {"data", "full"}

\* Where each variable may be while handleConnection is at pc.  A tunnel has its
\* handler, or its connection was retired, as long as the socket is open.
Phases ==
    /\ cleaner \in {"cut", "given", "done"} => client = "closed"
    /\ pc = "returned" => client = "closed"
    /\ reply = "granted" => pc \in {"waiting", "retiring", "leaving", "direct", "returned"}
    /\ pc = "direct" \/ writer.at # "off" => reply = "granted"
    /\ far \in {"none", "asked"} => sent = 0
    /\ pc \in {"auth", "request", "acquire", "dialing", "registered"} => far = "none"
    /\ pc \in {"auth", "request", "acquire", "dialing", "direct"} =>
           ~Holding /\ queue = <<>> /\ ~Writing
    /\ pc \in TunnelSteps /\ client # "closed" => registered \/ ws = "retired"

\* Frames pass the message loop, the queue and the writer in their order.
Order ==
    /\ taken <= sent
    /\ \A i \in DOMAIN delivered : delivered[i] <= taken
    /\ Writing =>
           /\ 1 <= writer.n /\ writer.n <= taken
           /\ \A i \in DOMAIN delivered : delivered[i] < writer.n
    /\ \A j \in DOMAIN queue :
           /\ 1 <= queue[j] /\ queue[j] <= taken
           /\ \A i \in DOMAIN delivered : delivered[i] < queue[j]
           /\ Writing => writer.n < queue[j]
           /\ \A k \in DOMAIN queue : j < k => queue[j] < queue[k]
    /\ Holding =>
           /\ 1 <= loop.n /\ loop.n <= taken
           /\ \A i \in DOMAIN delivered : delivered[i] < loop.n
           /\ Writing => writer.n < loop.n
           /\ \A j \in DOMAIN queue : queue[j] < loop.n

\* A tunnel that still delivers and has given up nothing.
Whole == ~lost /\ client # "closed" /\ writer.at # "done"

InWriter == IF Writing THEN 1 ELSE 0
InLoop == IF Holding THEN 1 ELSE 0

\* It has no hole between the first frame and the last one taken from the wire.
Contig ==
    Whole =>
        /\ Writing => writer.n = Len(delivered) + 1
        /\ \A j \in DOMAIN queue : queue[j] = Len(delivered) + InWriter + j
        /\ Holding => loop.n = Len(delivered) + InWriter + Len(queue) + 1
        /\ taken = Len(delivered) + InWriter + Len(queue) + InLoop

\* After a late frame the upstream reader has no second one.
Late == late <= 1 /\ (late > 0 => GivenBack /\ up # "writing")

\* The inductive invariant.
IInv == TypeOK /\ Phases /\ Order /\ Contig /\ Late

\* Before there is a stream there is nothing to clean up, and a direct tunnel
\* has no stream.
Early ==
    /\ pc \in {"auth", "request", "acquire", "dialing", "direct"} =>
           /\ ~registered /\ ~notify /\ ~spawned /\ cleaner = "none"
           /\ loop.at = "idle" /\ up \in {"off", "reading", "done"}
    /\ pc \in {"auth", "request", "acquire", "dialing"} =>
           up = "off" /\ ~ended /\ ~lost /\ client # "closed"

\* What the tunnel has registered is found when its connection is retired, and is
\* given back by cleanup only.
Owned ==
    /\ registered /\ ws = "retired" => notify \/ cleaner # "none"
    /\ GivenBack => ~registered
    /\ pc = "registered" => registered \/ ws = "retired" \/ GivenBack
    /\ pc \in {"reply", "waiting", "retiring"} => registered \/ GivenBack
    /\ pc = "leaving" => ws = "retired" \/ cleaner # "none"
    /\ pc = "returned" /\ registered => notify \/ cleaner # "none"

\* The inductive invariant, on top of IInv.
AttendInv == Early /\ Owned /\ (pc \in TunnelSteps /\ Broken => CleanupDue)

-----------------------------------------------------------------------------
(* Types *)

\* The initial state satisfies the invariant.
LEMMA InitIInv == Init => IInv
  <1> SUFFICES ASSUME Init PROVE IInv
    OBVIOUS
  <1>1. TypeOK
    <2>1. queue \in Seq(Nat) /\ delivered \in Seq(Nat) /\ Len(queue) <= QueueSize
      BY BoundsAssumption DEF Init
    <2>2. late \in 0 .. 2 /\ sent \in Nat /\ taken \in Nat
      BY DEF Init
    <2>3. loop \in [at : {"idle", "connected", "signal", "data", "full", "close"}, n : Nat]
      BY DEF Init, Idle
    <2>4. writer \in [at : {"off", "select", "writing", "done"}, n : Nat]
      BY DEF Init
    <2> QED
      BY <2>1, <2>2, <2>3, <2>4 DEF Init, TypeOK, Steps
  <1>2. Phases
    BY DEF Init, Phases, Holding, Writing, TunnelSteps, Idle
  <1>3. Order
    BY DEF Init, Order, Holding, Writing, Idle
  <1>4. Contig
    BY DEF Init, Contig, Whole, InWriter, InLoop, Holding, Writing, Idle
  <1>5. Late
    BY DEF Init, Late
  <1> QED
    BY <1>1, <1>2, <1>3, <1>4, <1>5 DEF IInv

\* Main, the timers and the cleanup keep the types.
LEMMA MainTypes ==
    ASSUME TypeOK, Main \/ TimerFires \/ Cleanup
    PROVE  TypeOK'
  <1> USE DEF TypeOK, Steps, endpoints, loopVars, poolVars, downVars, cleanVars
  <1>1. HandleAuth \/ HandleRequest \/ Acquire => TypeOK'
    BY DEF HandleAuth, HandleRequest, Acquire, Return
  <1>2. WriteConnect \/ ConnectFails \/ WriteReply \/ ReplyFails => TypeOK'
    BY DEF WriteConnect, ConnectFails, WriteReply, ReplyFails, Retire, EnterCleanup
  <1>3. TimerFires \/ TimedOut \/ TunnelClosed \/ Leave => TypeOK'
    BY DEF TimerFires, TimedOut, TunnelClosed, Leave, Return, Retire, EnterCleanup
  <1>4. DialTarget \/ DirectReturns => TypeOK'
    BY DEF DialTarget, DirectReturns, Return
  <1>5. GoCleanup \/ OnClose \/ CleanupSendsClose => TypeOK'
    BY DEF GoCleanup, OnClose, CleanupSendsClose, EnterCleanup
  <1>6. CleanupCutsClient \/ CleanupGivesBack \/ CleanupEnds => TypeOK'
    BY DEF CleanupCutsClient, CleanupGivesBack, CleanupEnds
  <1> QED
    BY <1>1, <1>2, <1>3, <1>4, <1>5, <1>6 DEF Main, Cleanup

\* The message loop and its timer keep them.
LEMMA LoopTypes ==
    ASSUME TypeOK, Loop \/ EnqueueTimesOut
    PROVE  TypeOK'
  <1> USE DEF TypeOK, Steps, endpoints, loopVars, poolVars, downVars, cleanVars, Idle
  <1> DEFINE LoopType == [at : {"idle", "connected", "signal", "data", "full", "close"}, n : Nat]
  <1>a. Idle \in LoopType /\ loop.n \in Nat /\ taken + 1 \in Nat
    OBVIOUS
  <1>b. \A l \in LoopType : [l EXCEPT !.at = "full"] \in LoopType
    OBVIOUS
  <1>1. DispatchConnected \/ DispatchData \/ DispatchClose => TypeOK'
    <2>1. DispatchConnected \/ DispatchData \/ DispatchClose => loop' \in LoopType
      BY <1>a DEF DispatchConnected, DispatchData, DispatchClose, Dispatch
    <2> HIDE DEF LoopType, Idle
    <2> QED
      BY <1>a, <2>1 DEF DispatchConnected, DispatchData, DispatchClose, Dispatch, LoopType
  <1>2. OnConnected \/ Signal \/ OnFarClose => TypeOK'
    <2>1. OnConnected \/ Signal \/ OnFarClose => loop' \in LoopType
      BY <1>a DEF OnConnected, Signal, OnFarClose
    <2> HIDE DEF LoopType, Idle
    <2> QED
      BY <2>1 DEF OnConnected, Signal, OnFarClose, LoopType
  <1>3. Enqueue => TypeOK'
    BY BoundsAssumption DEF Enqueue, HasRoom
  <1>4. DropClosed \/ EnqueueBlocks \/ EnqueueTimesOut => TypeOK'
    <2>1. DropClosed \/ EnqueueBlocks \/ EnqueueTimesOut => loop' \in LoopType
      BY <1>a, <1>b DEF DropClosed, EnqueueBlocks, EnqueueTimesOut
    <2> HIDE DEF LoopType, Idle
    <2> QED
      BY <2>1 DEF DropClosed, EnqueueBlocks, EnqueueTimesOut, LoopType
  <1> QED
    BY <1>1, <1>2, <1>3, <1>4 DEF Loop, OnMessage

\* Both copying directions and the environment keep them.
LEMMA CopyTypes ==
    ASSUME TypeOK, Writer \/ WriteDown \/ Reader \/ Environment
    PROVE  TypeOK'
  <1> USE DEF TypeOK, Steps, endpoints, loopVars, poolVars, downVars, cleanVars
  <1>1. TakeFrame => TypeOK'
    BY BoundsAssumption DEF TakeFrame
  <1>2. WriterEnds \/ CopyDownEnds \/ WriteClientFails => TypeOK'
    BY DEF WriterEnds, CopyDownEnds, WriteClientFails, EnterCleanup
  <1>3. WriteClient \/ CopyDown => TypeOK'
    <2>1. writer.n \in Nat /\ taken + 1 \in Nat
      OBVIOUS
    <2>2. \A n \in Nat : Append(delivered, n) \in Seq(Nat)
      OBVIOUS
    <2>3. WriteClient \/ CopyDown =>
              writer' \in [at : {"off", "select", "writing", "done"}, n : Nat]
      BY DEF WriteClient, CopyDown
    <2> QED
      BY <2>1, <2>2, <2>3 DEF WriteClient, CopyDown
  <1>4. ReadClient \/ ReadClientFails \/ UpRetired \/ CopyUpEnds => TypeOK'
    BY DEF ReadClient, ReadClientFails, UpRetired, CopyUpEnds, EnterCleanup
  <1>5. WriteUp => TypeOK'
    BY DEF WriteUp
  <1>6. WriteUpFails \/ WsFails \/ WsRetired => TypeOK'
    BY DEF WriteUpFails, WsFails, WsRetired, Retire
  <1>7. ClientLeaves \/ FarConnects \/ FarSends \/ FarCloses => TypeOK'
    BY DEF ClientLeaves, FarConnects, FarSends, FarCloses
  <1> QED
    BY <1>1, <1>2, <1>3, <1>4, <1>5, <1>6, <1>7 DEF Writer, WriteDown, Reader, Environment

LEMMA TypesKept ==
    ASSUME TypeOK, [Next]_vars
    PROVE  TypeOK'
  <1>1. CASE UNCHANGED vars
    BY <1>1 DEF TypeOK, vars, endpoints, loopVars, poolVars, downVars, cleanVars
  <1> QED
    BY <1>1, MainTypes, LoopTypes, CopyTypes DEF Next
-----------------------------------------------------------------------------
(* Which actions move frames *)

flow == <<sent, taken, delivered, queue, writer, loop>>

Moves ==
    \/ WriteReply \/ DialTarget \/ FarSends
    \/ DispatchConnected \/ DispatchData \/ DispatchClose \/ OnConnected \/ Signal
    \/ Enqueue \/ DropClosed \/ EnqueueBlocks \/ EnqueueTimesOut \/ OnFarClose
    \/ TakeFrame \/ WriterEnds \/ WriteClient \/ WriteClientFails \/ CopyDown \/ CopyDownEnds

\* All others leave the frames where they are.
LEMMA OthersKeepFlow ==
    ASSUME [Next]_vars
    PROVE  flow' = flow \/ Moves
  <1> USE DEF flow, endpoints, loopVars, poolVars, downVars, cleanVars
  <1>1. Main => flow' = flow \/ Moves
    BY DEF Main, Moves, HandleAuth, HandleRequest, Acquire, WriteConnect, ConnectFails,
           ReplyFails, TimedOut, TunnelClosed, Leave, DirectReturns
  <1>2. TimerFires \/ Cleanup => flow' = flow
    BY DEF TimerFires, Cleanup, GoCleanup, OnClose, CleanupSendsClose, CleanupCutsClient,
           CleanupGivesBack, CleanupEnds
  <1>3. Reader \/ Environment => flow' = flow \/ Moves
    BY DEF Reader, Environment, Moves, ReadClient, ReadClientFails, WriteUp, WriteUpFails,
           UpRetired, CopyUpEnds, ClientLeaves, FarConnects, FarCloses, WsFails, WsRetired
  <1>4. Loop \/ EnqueueTimesOut \/ Writer \/ WriteDown => Moves
    BY DEF Loop, OnMessage, Writer, WriteDown, Moves
  <1>5. UNCHANGED vars => flow' = flow
    BY DEF vars
  <1> QED
    BY <1>1, <1>2, <1>3, <1>4, <1>5 DEF Next

\* The client's socket stays closed, a lost frame stays lost, and both are left
\* alone by the actions that move frames, but for the two that say otherwise.
LEMMA OnlyWorse ==
    ASSUME [Next]_vars
    PROVE  /\ client = "closed" => client' = "closed"
           /\ lost => lost'
  <1> USE DEF endpoints, loopVars, poolVars, downVars, cleanVars
  <1> DEFINE Worse == (client = "closed" => client' = "closed") /\ (lost => lost')
  <1>1. Main \/ TimerFires => Worse
    BY DEF Main, HandleAuth, HandleRequest, Acquire, WriteConnect, ConnectFails, WriteReply,
           ReplyFails, TimerFires, TimedOut, TunnelClosed, Leave, DialTarget, DirectReturns,
           Return
  <1>2. Cleanup => Worse
    BY DEF Cleanup, GoCleanup, OnClose, CleanupSendsClose, CleanupCutsClient,
           CleanupGivesBack, CleanupEnds
  <1>3. Loop \/ EnqueueTimesOut => Worse
    BY DEF Loop, OnMessage, DispatchConnected, DispatchData, DispatchClose, Dispatch,
           OnConnected, Signal, Enqueue, DropClosed, EnqueueBlocks, EnqueueTimesOut, OnFarClose
  <1>4. Writer \/ WriteDown => Worse
    BY DEF Writer, WriteDown, TakeFrame, WriterEnds, WriteClient, WriteClientFails,
           CopyDown, CopyDownEnds
  <1>5. Reader \/ Environment => Worse
    BY DEF Reader, Environment, ReadClient, ReadClientFails, WriteUp, WriteUpFails,
           UpRetired, CopyUpEnds, ClientLeaves, FarConnects, FarSends, FarCloses, WsFails,
           WsRetired
  <1>6. UNCHANGED vars => Worse
    BY DEF vars
  <1> QED
    BY <1>1, <1>2, <1>3, <1>4, <1>5, <1>6 DEF Next
-----------------------------------------------------------------------------
(* Phases *)

\* The main goroutine, its timer and the cleanup.
LEMMA MainPhases ==
    ASSUME IInv, Main \/ TimerFires \/ Cleanup
    PROVE  Phases'
  <1> USE DEF Phases, Holding, Writing, TunnelSteps, endpoints, loopVars, poolVars,
              downVars, cleanVars
  <1>t. /\ Phases
        /\ client \in {"open", "gone", "closed"}
        /\ writer.at \in {"off", "select", "writing", "done"}
    BY DEF IInv, TypeOK
  <1>1. HandleAuth \/ HandleRequest \/ Acquire => Phases'
    BY <1>t DEF HandleAuth, HandleRequest, Acquire, Return
  <1>2. WriteConnect \/ ConnectFails => Phases'
    BY <1>t DEF WriteConnect, ConnectFails, Retire
  <1>3. WriteReply => Phases'
    <2>1. WriteReply => writer'.at = "select"
      BY DEF WriteReply, IInv, TypeOK
    <2> QED
      BY <1>t, <2>1 DEF WriteReply
  <1>4. ReplyFails \/ TimerFires \/ TimedOut \/ TunnelClosed \/ Leave => Phases'
    BY <1>t DEF ReplyFails, TimerFires, TimedOut, TunnelClosed, Leave, Return, Retire,
                EnterCleanup
  <1>5. DialTarget \/ DirectReturns => Phases'
    <2>1. DialTarget => writer' = writer \/ writer'.at = "select"
      BY DEF DialTarget, IInv, TypeOK
    <2> QED
      BY <1>t, <2>1 DEF DialTarget, DirectReturns, Return
  <1>6. GoCleanup \/ OnClose \/ CleanupSendsClose => Phases'
    BY <1>t DEF GoCleanup, OnClose, CleanupSendsClose, EnterCleanup
  <1>7. CleanupCutsClient \/ CleanupGivesBack \/ CleanupEnds => Phases'
    BY <1>t DEF CleanupCutsClient, CleanupGivesBack, CleanupEnds
  <1> QED
    BY <1>1, <1>2, <1>3, <1>4, <1>5, <1>6, <1>7 DEF Main, Cleanup

\* The message loop and its timer.
LEMMA LoopPhases ==
    ASSUME IInv, Loop \/ EnqueueTimesOut
    PROVE  Phases'
  <1> USE DEF Phases, Holding, Writing, TunnelSteps, endpoints, loopVars, poolVars,
              downVars, cleanVars
  <1>t. Phases /\ TypeOK /\ sent \in Nat /\ taken \in Nat
    BY DEF IInv, TypeOK
  <1>1. DispatchConnected \/ DispatchClose => Phases'
    <2>1. DispatchConnected \/ DispatchClose => loop'.at \in {"connected", "close", "idle"}
      BY DEF DispatchConnected, DispatchClose, Dispatch, Idle
    <2> QED
      BY <1>t, <2>1 DEF DispatchConnected, DispatchClose, Dispatch
  <1>2. DispatchData => Phases'
    <2>1. DispatchData => sent # 0
      BY <1>t DEF DispatchData
    <2> QED
      BY <1>t, <2>1 DEF DispatchData, Dispatch
  <1>3. OnConnected \/ Signal \/ OnFarClose \/ DropClosed \/ EnqueueTimesOut => Phases'
    <2>1. OnConnected \/ Signal \/ OnFarClose \/ DropClosed \/ EnqueueTimesOut =>
              loop'.at \in {"signal", "idle"}
      BY DEF OnConnected, Signal, OnFarClose, DropClosed, EnqueueTimesOut, Idle
    <2> QED
      BY <1>t, <2>1 DEF OnConnected, Signal, OnFarClose, DropClosed, EnqueueTimesOut
  <1>4. Enqueue \/ EnqueueBlocks => Phases'
    BY <1>t DEF Enqueue, EnqueueBlocks
  <1> QED
    BY <1>1, <1>2, <1>3, <1>4 DEF Loop, OnMessage

\* Both copying directions and the environment.
LEMMA CopyPhases ==
    ASSUME IInv, Writer \/ WriteDown \/ Reader \/ Environment
    PROVE  Phases'
  <1> USE DEF Phases, Holding, Writing, TunnelSteps, endpoints, loopVars, poolVars,
              downVars, cleanVars
  <1>t. Phases /\ writer \in [at : {"off", "select", "writing", "done"}, n : Nat]
    BY DEF IInv, TypeOK
  <1>1. TakeFrame => Phases'
    BY <1>t DEF TakeFrame
  <1>2. WriterEnds \/ CopyDownEnds \/ WriteClientFails => Phases'
    BY <1>t DEF WriterEnds, CopyDownEnds, WriteClientFails, EnterCleanup
  <1>3. WriteClient \/ CopyDown => Phases'
    BY <1>t DEF WriteClient, CopyDown
  <1>4. ReadClient \/ ReadClientFails \/ WriteUp \/ UpRetired \/ CopyUpEnds => Phases'
    BY <1>t DEF ReadClient, ReadClientFails, WriteUp, UpRetired, CopyUpEnds, EnterCleanup
  <1>5. WriteUpFails \/ WsFails \/ WsRetired => Phases'
    BY <1>t DEF WriteUpFails, WsFails, WsRetired, Retire
  <1>6. ClientLeaves \/ FarConnects \/ FarSends \/ FarCloses => Phases'
    BY <1>t DEF ClientLeaves, FarConnects, FarSends, FarCloses
  <1> QED
    BY <1>1, <1>2, <1>3, <1>4, <1>5, <1>6 DEF Writer, WriteDown, Reader, Environment

LEMMA PhasesKept ==
    ASSUME IInv, [Next]_vars
    PROVE  Phases'
  <1>1. CASE UNCHANGED vars
    BY <1>1 DEF IInv, Phases, Holding, Writing, vars, endpoints, loopVars, poolVars,
                downVars, cleanVars
  <1> QED
    BY <1>1, MainPhases, LoopPhases, CopyPhases DEF Next
-----------------------------------------------------------------------------
(* The upstream reader *)

\* The reader is started before the stream is given back, and after that it
\* reads nothing, because the socket is closed.
LEMMA LateKept ==
    ASSUME IInv, [Next]_vars
    PROVE  Late'
  <1> USE DEF Late, GivenBack, endpoints, loopVars, poolVars, downVars, cleanVars
  <1>t. /\ Late /\ Phases
        /\ late \in Nat
        /\ up \in {"off", "reading", "writing", "retiring", "done"}
    BY DEF IInv, TypeOK
  <1>0. GivenBack => client = "closed"
    BY <1>t DEF Phases
  <1>1. Main \/ TimerFires => Late'
    BY <1>t DEF Main, HandleAuth, HandleRequest, Acquire, WriteConnect, ConnectFails,
           WriteReply, ReplyFails, TimerFires, TimedOut, TunnelClosed, Leave, DialTarget,
           DirectReturns, EnterCleanup
  <1>2. Cleanup => Late'
    BY <1>t DEF Cleanup, GoCleanup, OnClose, CleanupSendsClose, CleanupCutsClient,
           CleanupGivesBack, CleanupEnds, EnterCleanup
  <1>3. Loop \/ EnqueueTimesOut => Late'
    BY <1>t DEF Loop, OnMessage, DispatchConnected, DispatchData, DispatchClose, Dispatch,
           OnConnected, Signal, Enqueue, DropClosed, EnqueueBlocks, EnqueueTimesOut, OnFarClose
  <1>4. Writer \/ WriteDown => Late'
    BY <1>t DEF Writer, WriteDown, TakeFrame, WriterEnds, WriteClient, WriteClientFails,
           CopyDown, CopyDownEnds, EnterCleanup
  <1>5. WriteUp => Late'
    BY <1>t DEF WriteUp
  <1>6. ReadClient => Late'
    BY <1>t, <1>0 DEF ReadClient
  <1>7. ReadClientFails \/ WriteUpFails \/ UpRetired \/ CopyUpEnds => Late'
    BY <1>t DEF ReadClientFails, WriteUpFails, UpRetired, CopyUpEnds, EnterCleanup
  <1>8. ClientLeaves \/ FarConnects \/ FarSends \/ FarCloses \/ WsFails \/ WsRetired => Late'
    BY <1>t DEF ClientLeaves, FarConnects, FarSends, FarCloses, WsFails, WsRetired
  <1>9. UNCHANGED vars => Late'
    BY <1>t DEF vars
  <1> QED
    BY <1>1, <1>2, <1>3, <1>4, <1>5, <1>6, <1>7, <1>8, <1>9 DEF Next, Reader, Environment
-----------------------------------------------------------------------------
(* The order of the frames *)

\* A frame is appended to what is delivered, or to the queue.
LEMMA AppendFacts ==
    ASSUME NEW s \in Seq(Nat), NEW n \in Nat
    PROVE  /\ Len(Append(s, n)) = Len(s) + 1
           /\ DOMAIN Append(s, n) = 1 .. Len(s) + 1
           /\ \A i \in DOMAIN s : Append(s, n)[i] = s[i]
           /\ \A i \in DOMAIN Append(s, n) :
                  i \in DOMAIN s \/ (i = Len(s) + 1 /\ Append(s, n)[i] = n)
  OBVIOUS

\* The writer takes the first frame of the queue.
LEMMA TailFacts ==
    ASSUME NEW s \in Seq(Nat), s # <<>>
    PROVE  /\ Head(s) = s[1] /\ 1 \in DOMAIN s
           /\ Len(Tail(s)) = Len(s) - 1
           /\ DOMAIN Tail(s) = 1 .. Len(s) - 1
           /\ \A i \in DOMAIN Tail(s) : i \in Nat /\ Tail(s)[i] = s[i + 1] /\ i + 1 \in DOMAIN s
  OBVIOUS

\* Nothing moves, or the loop is left without a frame, or the writer without one.
LEMMA SameOrder ==
    ASSUME IInv, sent' \in Nat, sent <= sent', taken' = taken, delivered' = delivered,
           queue' = queue,
           writer' = writer \/ ~Writing', loop'.n = loop.n \/ ~Holding', Holding' => Holding
    PROVE  Order'
  <1> USE DEF IInv, TypeOK, Order
  <1> QED
    BY DEF Writing, Holding

\* The steps of the message loop.
LEMMA LoopOrder ==
    ASSUME IInv, Loop \/ EnqueueTimesOut
    PROVE  Order'
  <1> USE DEF endpoints, loopVars, poolVars, downVars
  <1>t. /\ Order /\ sent \in Nat /\ taken \in Nat /\ loop.n \in Nat
        /\ queue \in Seq(Nat) /\ delivered \in Seq(Nat)
        /\ loop \in [at : {"idle", "connected", "signal", "data", "full", "close"}, n : Nat]
        /\ writer.n \in Nat
    BY DEF IInv, TypeOK
  <1>1. DispatchConnected \/ DispatchClose \/ OnConnected \/ Signal \/ OnFarClose
            \/ DropClosed \/ EnqueueBlocks \/ EnqueueTimesOut => Order'
    <2>1. DispatchConnected \/ DispatchClose \/ OnConnected \/ Signal \/ OnFarClose
              \/ DropClosed \/ EnqueueTimesOut => ~Holding'
      BY DEF DispatchConnected, DispatchClose, Dispatch, OnConnected, Signal, OnFarClose,
             DropClosed, EnqueueTimesOut, Idle, Holding
    <2>2. EnqueueBlocks => loop'.n = loop.n /\ Holding
      BY <1>t DEF EnqueueBlocks, Holding
    <2>3. DispatchConnected \/ DispatchClose \/ OnConnected \/ Signal \/ OnFarClose
              \/ DropClosed \/ EnqueueBlocks \/ EnqueueTimesOut =>
              UNCHANGED <<sent, taken, delivered, queue, writer>>
      BY DEF DispatchConnected, DispatchClose, Dispatch, OnConnected, Signal, OnFarClose,
             DropClosed, EnqueueBlocks, EnqueueTimesOut
    <2>4. sent <= sent
      BY <1>t
    <2> QED
      BY <1>t, <2>1, <2>2, <2>3, <2>4, SameOrder
  <1>2. DispatchData => Order'
    <2> SUFFICES ASSUME DispatchData PROVE Order'
      OBVIOUS
    <2>1. /\ taken' = taken + 1 /\ taken < sent /\ ~Holding
          /\ UNCHANGED <<sent, delivered, queue, writer>>
          /\ Holding' => loop'.n = taken + 1
      BY DEF DispatchData, Dispatch, Holding, Idle
    <2>2. \A i \in DOMAIN delivered : delivered[i] \in Nat /\ delivered[i] <= taken
      BY <1>t DEF Order
    <2>3. \A j \in DOMAIN queue : queue[j] \in Nat /\ queue[j] <= taken
      BY <1>t DEF Order
    <2>4. Writing => writer.n <= taken
      BY <1>t DEF Order
    <2>5. taken' <= sent' /\ taken < taken'
      BY <1>t, <2>1
    <2> QED
      BY <1>t, <2>1, <2>2, <2>3, <2>4, <2>5 DEF Order, Writing
  <1>3. Enqueue => Order'
    <2> SUFFICES ASSUME Enqueue PROVE Order'
      OBVIOUS
    <2>1. /\ queue' = Append(queue, loop.n) /\ Holding /\ ~Holding'
          /\ UNCHANGED <<sent, taken, delivered, writer>>
      BY DEF Enqueue, Holding, Idle
    <2>2. DOMAIN queue \in SUBSET Nat /\ Len(queue) \in Nat /\ DOMAIN queue = 1 .. Len(queue)
      BY <1>t
    <2>3. \A j \in DOMAIN queue' : \/ j \in DOMAIN queue /\ queue'[j] = queue[j]
                                   \/ j = Len(queue) + 1 /\ queue'[j] = loop.n
      <3>1. queue \in Seq(Nat) /\ loop.n \in Nat
        BY <1>t
      <3> QED
        BY <3>1, <2>1, AppendFacts
    <2>4. \A j \in DOMAIN queue' :
              /\ 1 <= queue'[j] /\ queue'[j] <= taken
              /\ \A i \in DOMAIN delivered : delivered[i] < queue'[j]
              /\ Writing => writer.n < queue'[j]
      BY <1>t, <2>1, <2>3 DEF Order
    <2>5. \A j, k \in DOMAIN queue' : j < k => queue'[j] < queue'[k]
      <3> TAKE j, k \in DOMAIN queue'
      <3>1. CASE k \in DOMAIN queue /\ queue'[k] = queue[k]
        BY <1>t, <2>1, <2>2, <2>3, <3>1 DEF Order
      <3>2. CASE k = Len(queue) + 1 /\ queue'[k] = loop.n
        BY <1>t, <2>1, <2>2, <2>3, <3>2 DEF Order
      <3> QED
        BY <2>3, <3>1, <3>2
    <2> QED
      BY <1>t, <2>1, <2>4, <2>5 DEF Order, Writing
  <1> QED
    BY <1>1, <1>2, <1>3 DEF Loop, OnMessage

\* The steps of both writers.
LEMMA WriterOrder ==
    ASSUME IInv, Writer \/ WriteDown
    PROVE  Order'
  <1> USE DEF endpoints, loopVars, poolVars, downVars
  <1>t. /\ Order /\ Phases /\ sent \in Nat /\ taken \in Nat
        /\ queue \in Seq(Nat) /\ delivered \in Seq(Nat)
        /\ writer \in [at : {"off", "select", "writing", "done"}, n : Nat]
    BY DEF IInv, TypeOK
  <1>1. WriterEnds \/ WriteClientFails \/ CopyDownEnds => Order'
    <2>1. WriterEnds \/ WriteClientFails \/ CopyDownEnds =>
              UNCHANGED <<sent, taken, delivered, queue, loop>> /\ ~Writing'
      BY <1>t DEF WriterEnds, WriteClientFails, CopyDownEnds, Writing
    <2> QED
      BY <1>t, <2>1, SameOrder DEF Holding
  <1>2. TakeFrame => Order'
    <2> SUFFICES ASSUME TakeFrame PROVE Order'
      OBVIOUS
    <2>1. /\ queue' = Tail(queue) /\ queue # <<>> /\ writer'.n = queue[1] /\ 1 \in DOMAIN queue
          /\ UNCHANGED <<sent, taken, delivered, loop>>
      BY <1>t, TailFacts DEF TakeFrame
    <2>2. \A j \in DOMAIN queue' :
              /\ j \in Nat /\ 1 <= j
              /\ queue'[j] = queue[j + 1] /\ j + 1 \in DOMAIN queue
      BY <1>t, <2>1, TailFacts
    <2>3. \A j \in DOMAIN queue' : queue[1] < queue'[j]
      BY <1>t, <2>1, <2>2 DEF Order
    <2>4. \A j, k \in DOMAIN queue' : j < k => queue'[j] < queue'[k]
      BY <1>t, <2>1, <2>2 DEF Order
    <2> QED
      BY <1>t, <2>1, <2>2, <2>3, <2>4 DEF Order, Writing, Holding
  <1>3. WriteClient => Order'
    <2> SUFFICES ASSUME WriteClient PROVE Order'
      OBVIOUS
    <2>1. /\ delivered' = Append(delivered, writer.n) /\ Writing /\ ~Writing'
          /\ UNCHANGED <<sent, taken, queue, loop>>
      BY <1>t DEF WriteClient, Writing
    <2>2. \A i \in DOMAIN delivered' :
              (i \in DOMAIN delivered /\ delivered'[i] = delivered[i]) \/ delivered'[i] = writer.n
      BY <1>t, <2>1, AppendFacts
    <2>3. \A i \in DOMAIN delivered' :
              /\ delivered'[i] <= taken
              /\ \A j \in DOMAIN queue : delivered'[i] < queue[j]
              /\ Holding => delivered'[i] < loop.n
      BY <1>t, <2>1, <2>2 DEF Order
    <2> QED
      BY <1>t, <2>1, <2>3 DEF Order, Holding
  <1>4. CopyDown => Order'
    <2> SUFFICES ASSUME CopyDown PROVE Order'
      OBVIOUS
    <2>1. /\ taken' = taken + 1 /\ taken < sent /\ ~Holding /\ queue = <<>>
          /\ UNCHANGED <<sent, queue, loop>> /\ ~Writing'
          /\ delivered' = delivered \/ delivered' = Append(delivered, taken + 1)
      BY <1>t DEF CopyDown, Phases, Writing, Holding
    <2>2. \A i \in DOMAIN delivered' :
              \/ i \in DOMAIN delivered /\ delivered'[i] = delivered[i]
              \/ delivered'[i] = taken + 1
      <3>1. delivered \in Seq(Nat) /\ taken + 1 \in Nat
        BY <1>t
      <3> QED
        BY <3>1, <2>1, AppendFacts
    <2>3. \A i \in DOMAIN delivered : delivered[i] \in Nat
      BY <1>t
    <2> QED
      BY <1>t, <2>1, <2>2, <2>3 DEF Order, Holding
  <1> QED
    BY <1>1, <1>2, <1>3, <1>4 DEF Writer, WriteDown

LEMMA OrderKept ==
    ASSUME IInv, [Next]_vars
    PROVE  Order'
  <1> USE DEF endpoints, loopVars, poolVars, downVars
  <1>t. Order /\ TypeOK /\ sent \in Nat /\ sent <= sent
    BY DEF IInv, TypeOK
  <1>1. flow' = flow => Order'
    BY <1>t DEF flow, Order, Holding, Writing
  <1>2. WriteReply \/ DialTarget => Order'
    <2>1. WriteReply \/ DialTarget =>
              UNCHANGED <<sent, taken, delivered, queue, loop>> /\ (writer' = writer \/ ~Writing')
      BY <1>t DEF WriteReply, DialTarget, Writing, TypeOK
    <2> QED
      BY <1>t, <2>1, SameOrder DEF Holding
  <1>3. FarSends => Order'
    <2>1. FarSends => /\ UNCHANGED <<taken, delivered, queue, loop, writer>>
                      /\ sent' \in Nat /\ sent <= sent'
      BY <1>t DEF FarSends
    <2> QED
      BY <1>t, <2>1, SameOrder DEF Holding
  <1> QED
    BY <1>1, <1>2, <1>3, LoopOrder, WriterOrder, OthersKeepFlow
       DEF Moves, Loop, OnMessage, Writer, WriteDown
-----------------------------------------------------------------------------
(* No hole *)

\* A frame is only taken from the wire while its handler is there.
LEMMA TakenIsHeld ==
    ASSUME IInv, DispatchData, client # "closed"
    PROVE  registered
  <1>1. Phases /\ pc \in Steps /\ sent \in Nat /\ taken \in Nat
    BY DEF IInv, TypeOK
  <1>2. pc # "direct" /\ ws = "open" /\ sent # 0
    BY <1>1 DEF DispatchData, Dispatch
  <1>3. pc \in TunnelSteps
    BY <1>1, <1>2 DEF Phases, TunnelSteps, Steps
  <1> QED
    BY <1>1, <1>2, <1>3 DEF Phases

\* The steps of the message loop.
LEMMA LoopContig ==
    ASSUME IInv, Loop \/ EnqueueTimesOut
    PROVE  Contig'
  <1> USE DEF endpoints, loopVars, poolVars, downVars
  <1>t. /\ Contig /\ Phases /\ taken \in Nat /\ loop.n \in Nat
        /\ loop \in [at : {"idle", "connected", "signal", "data", "full", "close"}, n : Nat]
        /\ Len(delivered) \in Nat /\ Len(queue) \in Nat
    BY DEF IInv, TypeOK
  <1>s. queue \in Seq(Nat) /\ loop.n \in Nat
    BY DEF IInv, TypeOK
  <1>1. DispatchConnected \/ DispatchClose \/ OnConnected \/ Signal \/ OnFarClose
            \/ EnqueueBlocks => Contig'
    <2> SUFFICES ASSUME DispatchConnected \/ DispatchClose \/ OnConnected \/ Signal
                            \/ OnFarClose \/ EnqueueBlocks
                 PROVE  Contig'
      OBVIOUS
    <2>1. UNCHANGED <<client, lost, taken, delivered, queue, writer>>
      BY DEF DispatchConnected, DispatchClose, Dispatch, OnConnected, Signal, OnFarClose,
             EnqueueBlocks
    <2>2. \/ ~Holding /\ ~Holding'
          \/ Holding /\ Holding' /\ loop'.n = loop.n
      BY <1>t DEF DispatchConnected, DispatchClose, Dispatch, OnConnected, Signal, OnFarClose,
                  EnqueueBlocks, Idle, Holding
    <2> QED
      BY <1>t, <2>1, <2>2 DEF Contig, Whole, InWriter, InLoop, Writing
  <1>2. DropClosed \/ EnqueueTimesOut => Contig'
    <2>1. DropClosed => client' = "closed"
      BY <1>t DEF DropClosed, closed, Phases
    <2>2. EnqueueTimesOut => lost'
      BY DEF EnqueueTimesOut
    <2> QED
      BY <2>1, <2>2 DEF Contig, Whole
  <1>3. DispatchData => Contig'
    <2> SUFFICES ASSUME DispatchData, Whole' PROVE Contig'
      BY DEF Contig
    <2>1. /\ taken' = taken + 1 /\ ~Holding
          /\ UNCHANGED <<client, lost, delivered, queue, writer>>
      BY DEF DispatchData, Dispatch, Holding
    <2>2. Whole
      BY <2>1 DEF Whole
    <2>3. registered
      BY <2>2, TakenIsHeld DEF Whole
    <2>4. Holding' /\ loop'.n = taken + 1
      BY <2>3 DEF DispatchData, Dispatch, Holding
    <2> QED
      BY <1>t, <2>1, <2>2, <2>4 DEF Contig, InWriter, InLoop, Writing
  <1>4. Enqueue => Contig'
    <2> SUFFICES ASSUME Enqueue, Whole' PROVE Contig'
      BY DEF Contig
    <2>1. /\ queue' = Append(queue, loop.n) /\ Holding /\ ~Holding'
          /\ UNCHANGED <<client, lost, taken, delivered, writer>>
      BY DEF Enqueue, Holding, Idle
    <2>2. Whole
      BY <2>1 DEF Whole
    <2>3. \A j \in DOMAIN queue' : \/ j \in DOMAIN queue /\ queue'[j] = queue[j]
                                   \/ j = Len(queue) + 1 /\ queue'[j] = loop.n
      BY <1>s, <2>1, AppendFacts
    <2>4. Len(queue') = Len(queue) + 1
      BY <1>s, <2>1, AppendFacts
    <2>5. InWriter' = InWriter /\ InWriter \in Nat /\ Writing' = Writing
      BY <2>1 DEF InWriter, Writing
    <2>6. loop.n = Len(delivered) + InWriter + Len(queue) + 1
      BY <1>t, <2>1, <2>2 DEF Contig
    <2>7. \A j \in DOMAIN queue' : queue'[j] = Len(delivered) + InWriter + j
      BY <1>t, <2>2, <2>3, <2>5, <2>6 DEF Contig
    <2>8. taken' = Len(delivered') + InWriter' + Len(queue') + InLoop'
      BY <1>t, <2>1, <2>2, <2>4, <2>5 DEF Contig, InLoop
    <2> QED
      BY <1>t, <2>1, <2>2, <2>5, <2>7, <2>8 DEF Contig, Writing
  <1> QED
    BY <1>1, <1>2, <1>3, <1>4 DEF Loop, OnMessage

\* The steps of both writers.
LEMMA WriterContig ==
    ASSUME IInv, Writer \/ WriteDown
    PROVE  Contig'
  <1> USE DEF endpoints, loopVars, poolVars, downVars
  <1>t. /\ Contig /\ Phases /\ taken \in Nat
        /\ writer \in [at : {"off", "select", "writing", "done"}, n : Nat]
        /\ Len(delivered) \in Nat /\ Len(queue) \in Nat
    BY DEF IInv, TypeOK
  <1>s. queue \in Seq(Nat) /\ delivered \in Seq(Nat) /\ writer.n \in Nat /\ taken + 1 \in Nat
    BY DEF IInv, TypeOK
  <1>1. WriterEnds \/ WriteClientFails \/ CopyDownEnds => Contig'
    <2>1. WriterEnds \/ WriteClientFails \/ CopyDownEnds => writer'.at = "done"
      BY <1>t DEF WriterEnds, WriteClientFails, CopyDownEnds
    <2> QED
      BY <2>1 DEF Contig, Whole
  <1>2. TakeFrame => Contig'
    <2> SUFFICES ASSUME TakeFrame, Whole' PROVE Contig'
      BY DEF Contig
    <2>1. /\ queue' = Tail(queue) /\ queue # <<>> /\ writer'.n = Head(queue)
          /\ Writing' /\ ~Writing /\ Whole
          /\ UNCHANGED <<taken, delivered, loop>>
      BY DEF TakeFrame, Writing, Whole
    <2>2. /\ Len(queue') = Len(queue) - 1 /\ Head(queue) = queue[1] /\ 1 \in DOMAIN queue
          /\ \A j \in DOMAIN queue' : j \in Nat /\ queue'[j] = queue[j + 1] /\ j + 1 \in DOMAIN queue
      BY <1>s, <2>1, TailFacts
    <2>3. InWriter = 0 /\ InWriter' = 1 /\ InLoop' = InLoop /\ Holding' = Holding /\ InLoop \in Nat
      BY <2>1 DEF InWriter, InLoop, Holding
    <2>4. writer'.n = Len(delivered) + 1
      BY <1>t, <2>1, <2>2, <2>3 DEF Contig
    <2>5. \A j \in DOMAIN queue' : queue'[j] = Len(delivered) + 1 + j
      BY <1>t, <2>1, <2>2, <2>3 DEF Contig
    <2>6. Holding => loop.n = Len(delivered) + 1 + Len(queue') + 1
      BY <1>t, <2>1, <2>2, <2>3 DEF Contig
    <2>7. taken = Len(delivered) + 1 + Len(queue') + InLoop
      BY <1>t, <2>1, <2>2, <2>3 DEF Contig
    <2> QED
      BY <1>t, <2>1, <2>3, <2>4, <2>5, <2>6, <2>7 DEF Contig
  <1>3. WriteClient => Contig'
    <2> SUFFICES ASSUME WriteClient, Whole' PROVE Contig'
      BY DEF Contig
    <2>1. /\ delivered' = Append(delivered, writer.n) /\ Writing /\ ~Writing'
          /\ UNCHANGED <<taken, queue, loop>> /\ Whole
      BY <1>t DEF WriteClient, Writing, Whole
    <2>2. Len(delivered') = Len(delivered) + 1
      BY <1>s, <2>1, AppendFacts
    <2>3. InWriter = 1 /\ InWriter' = 0 /\ InLoop' = InLoop /\ Holding' = Holding /\ InLoop \in Nat
      BY <2>1 DEF InWriter, InLoop, Holding
    <2>4. \A j \in DOMAIN queue : j \in Nat
      BY <1>s
    <2> QED
      BY <1>t, <2>1, <2>2, <2>3, <2>4 DEF Contig
  <1>4. CopyDown => Contig'
    <2> SUFFICES ASSUME CopyDown, Whole' PROVE Contig'
      BY DEF Contig
    <2>1. /\ taken' = taken + 1 /\ ~Holding /\ ~Holding' /\ queue = <<>> /\ queue' = <<>>
          /\ ~Writing /\ ~Writing' /\ Whole
          /\ delivered' = Append(delivered, taken + 1)
      BY <1>t DEF CopyDown, Phases, Writing, Holding, Whole
    <2>2. Len(delivered') = Len(delivered) + 1
      BY <1>s, <2>1, AppendFacts
    <2>3. InWriter = 0 /\ InWriter' = 0 /\ InLoop = 0 /\ InLoop' = 0
      BY <2>1 DEF InWriter, InLoop
    <2> QED
      BY <1>t, <2>1, <2>2, <2>3 DEF Contig
  <1> QED
    BY <1>1, <1>2, <1>3, <1>4 DEF Writer, WriteDown

LEMMA ContigKept ==
    ASSUME IInv, [Next]_vars
    PROVE  Contig'
  <1> USE DEF endpoints, loopVars, poolVars, downVars
  <1>t. Contig /\ Phases /\ writer \in [at : {"off", "select", "writing", "done"}, n : Nat]
    BY DEF IInv, TypeOK
  <1>1. flow' = flow => Contig'
    <2> SUFFICES ASSUME flow' = flow, Whole' PROVE Contig'
      BY DEF Contig
    <2>1. Whole
      BY OnlyWorse DEF Whole, flow
    <2> QED
      BY <1>t, <2>1 DEF Contig, flow, InWriter, InLoop, Writing, Holding
  <1>2. WriteReply \/ DialTarget => Contig'
    <2> SUFFICES ASSUME WriteReply \/ DialTarget, Whole' PROVE Contig'
      BY DEF Contig
    <2>1. /\ UNCHANGED <<taken, delivered, queue, loop>>
          /\ writer.at = "off" /\ ~Writing' /\ ~Writing
      BY <1>t DEF WriteReply, DialTarget, Writing, Phases
    <2>2. Whole
      BY <2>1, OnlyWorse DEF Whole
    <2> QED
      BY <1>t, <2>1, <2>2 DEF Contig, InWriter, InLoop, Holding
  <1>3. FarSends => Contig'
    BY <1>t DEF FarSends, Contig, Whole, InWriter, InLoop, Writing, Holding
  <1> QED
    BY <1>1, <1>2, <1>3, LoopContig, WriterContig, OthersKeepFlow
       DEF Moves, Loop, OnMessage, Writer, WriteDown
-----------------------------------------------------------------------------
(* AttendInv *)

\* The main goroutine, its timer and the cleanup.
LEMMA MainAttend ==
    ASSUME IInv, AttendInv, Main \/ TimerFires \/ Cleanup
    PROVE  AttendInv'
  <1> USE DEF AttendInv, Early, Owned, Broken, CleanupDue, GivenBack, TunnelSteps, endpoints,
              loopVars, poolVars, downVars, cleanVars
  <1>t. /\ Phases /\ AttendInv
        /\ pc \in Steps /\ ws \in {"open", "failed", "retired"}
        /\ registered \in BOOLEAN /\ notify \in BOOLEAN /\ spawned \in BOOLEAN
        /\ cleaner \in {"none", "started", "told", "cut", "given", "done"}
        /\ writer \in [at : {"off", "select", "writing", "done"}, n : Nat]
    BY DEF IInv, TypeOK
  <1>1. HandleAuth \/ HandleRequest => AttendInv'
    BY <1>t DEF HandleAuth, HandleRequest, Return
  <1>2. Acquire => AttendInv'
    <2> SUFFICES ASSUME Acquire PROVE AttendInv'
      OBVIOUS
    <2>1. /\ writer.at = "off" /\ up = "off" /\ ~ended /\ ~lost /\ client # "closed"
          /\ ~registered /\ cleaner = "none" /\ ~notify
      BY <1>t DEF Acquire, Phases
    <2>2. UNCHANGED <<ws, notify, spawned, cleaner, loop, writer, up, ended, lost>>
      BY DEF Acquire
    <2>3. CASE pc' = "registered" /\ registered' = (ws # "retired") /\ client' = client
      <3>1. registered' <=> ws # "retired"
        BY <2>3
      <3> QED
        BY <2>1, <2>2, <2>3, <3>1
    <2>4. CASE Return /\ registered' = registered
      BY <2>1, <2>2, <2>4 DEF Return
    <2> QED
      BY <2>3, <2>4 DEF Acquire
  <1>3. WriteConnect \/ ConnectFails => AttendInv'
    BY <1>t DEF WriteConnect, ConnectFails, Retire
  <1>4. WriteReply => AttendInv'
    <2>1. WriteReply => writer'.at = "select"
      BY <1>t DEF WriteReply
    <2> QED
      BY <1>t, <2>1 DEF WriteReply
  <1>5. ReplyFails \/ TimedOut => AttendInv'
    BY <1>t DEF ReplyFails, TimedOut, EnterCleanup
  <1>6. TimerFires => AttendInv'
    BY <1>t DEF TimerFires, Retire
  <1>7. TunnelClosed \/ Leave => AttendInv'
    BY <1>t DEF TunnelClosed, Leave, Return, closed
  <1>8. DialTarget \/ DirectReturns => AttendInv'
    BY <1>t DEF DialTarget, DirectReturns, Return
  <1>9. GoCleanup \/ OnClose \/ CleanupSendsClose => AttendInv'
    BY <1>t DEF GoCleanup, OnClose, CleanupSendsClose, EnterCleanup
  <1>10. CleanupCutsClient \/ CleanupGivesBack \/ CleanupEnds => AttendInv'
    BY <1>t DEF CleanupCutsClient, CleanupGivesBack, CleanupEnds
  <1> QED
    BY <1>1, <1>2, <1>3, <1>4, <1>5, <1>6, <1>7, <1>8, <1>9, <1>10 DEF Main, Cleanup

\* The message loop and its timer.
LEMMA LoopAttend ==
    ASSUME IInv, AttendInv, Loop \/ EnqueueTimesOut
    PROVE  AttendInv'
  <1> USE DEF AttendInv, Early, Owned, Broken, CleanupDue, GivenBack, TunnelSteps, endpoints,
              loopVars, poolVars, downVars, cleanVars
  <1>t. /\ Phases /\ AttendInv
        /\ pc \in Steps /\ sent \in Nat /\ taken \in Nat
        /\ registered \in BOOLEAN /\ spawned \in BOOLEAN
        /\ loop \in [at : {"idle", "connected", "signal", "data", "full", "close"}, n : Nat]
    BY DEF IInv, TypeOK
  <1>1. DispatchConnected \/ DispatchData => AttendInv'
    <2>1. DispatchConnected \/ DispatchData =>
              /\ pc \notin {"auth", "request", "acquire", "dialing", "direct"}
              /\ loop.at = "idle"
      BY <1>t DEF DispatchConnected, DispatchData, Dispatch, Phases
    <2> QED
      BY <1>t, <2>1 DEF DispatchConnected, DispatchData, Dispatch
  <1>2. DispatchClose => AttendInv'
    <2>1. DispatchClose =>
              /\ pc \notin {"auth", "request", "acquire", "dialing", "direct"}
              /\ ws = "open" /\ loop' = IF registered THEN [at |-> "close", n |-> 0] ELSE Idle
      BY <1>t DEF DispatchClose, Dispatch, Phases
    <2>2. DispatchClose /\ pc \in TunnelSteps => CleanupDue'
      BY <1>t, <2>1 DEF DispatchClose, Dispatch
    <2> QED
      BY <1>t, <2>1, <2>2 DEF DispatchClose, Dispatch
  <1>3. OnConnected \/ Signal \/ Enqueue \/ DropClosed => AttendInv'
    BY <1>t DEF OnConnected, Signal, Enqueue, DropClosed, Idle
  <1>4. EnqueueBlocks => AttendInv'
    BY <1>t DEF EnqueueBlocks
  <1>5. EnqueueTimesOut \/ OnFarClose => AttendInv'
    BY <1>t DEF EnqueueTimesOut, OnFarClose
  <1> QED
    BY <1>1, <1>2, <1>3, <1>4, <1>5 DEF Loop, OnMessage

\* Both copying directions and the environment.
LEMMA CopyAttend ==
    ASSUME IInv, AttendInv, Writer \/ WriteDown \/ Reader \/ Environment
    PROVE  AttendInv'
  <1> USE DEF AttendInv, Early, Owned, Broken, CleanupDue, GivenBack, TunnelSteps, endpoints,
              loopVars, poolVars, downVars, cleanVars
  <1>t. /\ Phases /\ AttendInv
        /\ pc \in Steps /\ ws \in {"open", "failed", "retired"}
        /\ registered \in BOOLEAN /\ notify \in BOOLEAN /\ spawned \in BOOLEAN
        /\ client \in {"open", "gone", "closed"}
        /\ up \in {"off", "reading", "writing", "retiring", "done"}
        /\ cleaner \in {"none", "started", "told", "cut", "given", "done"}
        /\ writer \in [at : {"off", "select", "writing", "done"}, n : Nat]
    BY DEF IInv, TypeOK
  <1>1. TakeFrame \/ WriteClient \/ WriterEnds => AttendInv'
    BY <1>t DEF TakeFrame, WriteClient, WriterEnds, closed
  <1>2. WriteClientFails => AttendInv'
    <2>1. WriteClientFails => pc \notin {"auth", "request", "acquire", "dialing", "direct"}
      BY <1>t DEF WriteClientFails, Phases, Writing
    <2> QED
      BY <1>t, <2>1 DEF WriteClientFails, EnterCleanup
  <1>3. CopyDown \/ CopyDownEnds \/ CopyUpEnds => AttendInv'
    BY <1>t DEF CopyDown, CopyDownEnds, CopyUpEnds
  <1>4. ReadClient \/ WriteUp => AttendInv'
    BY <1>t DEF ReadClient, WriteUp
  <1>5. ReadClientFails \/ UpRetired => AttendInv'
    BY <1>t DEF ReadClientFails, UpRetired, EnterCleanup
  <1>6. WriteUpFails \/ WsRetired => AttendInv'
    BY <1>t DEF WriteUpFails, WsRetired, Retire
  <1>7. WsFails \/ ClientLeaves \/ FarConnects \/ FarSends \/ FarCloses => AttendInv'
    BY <1>t DEF WsFails, ClientLeaves, FarConnects, FarSends, FarCloses
  <1> QED
    BY <1>1, <1>2, <1>3, <1>4, <1>5, <1>6, <1>7 DEF Writer, WriteDown, Reader, Environment

\* Every step keeps AttendInv.
LEMMA AttendKept ==
    ASSUME IInv, AttendInv, [Next]_vars
    PROVE  AttendInv'
  <1>1. CASE UNCHANGED vars
    BY <1>1 DEF AttendInv, Early, Owned, Broken, CleanupDue, GivenBack, TunnelSteps, vars,
       endpoints, loopVars, poolVars, downVars, cleanVars
  <1> QED
    BY <1>1, MainAttend, LoopAttend, CopyAttend DEF Next
-----------------------------------------------------------------------------
(* Theorems *)

\* Every step keeps the invariant.
LEMMA NextIInv ==
    ASSUME IInv, [Next]_vars
    PROVE  IInv'
  <1>1. TypeOK'
    BY TypesKept DEF IInv
  <1> QED
    BY <1>1, PhasesKept, OrderKept, ContigKept, LateKept DEF IInv

LEMMA Invariance == Spec => []IInv
  <1>1. IInv /\ [Next]_vars => IInv'
    BY NextIInv
  <1> QED
    BY <1>1, InitIInv, PTL DEF Spec

\* Types; in particular the downstream queue stays within its capacity.
THEOREM TypeCorrect == Spec => []TypeOK
  <1>1. IInv => TypeOK
    BY DEF IInv
  <1> QED
    BY <1>1, Invariance, PTL

\* At most one DATA frame is sent up on a stream that was given back.
THEOREM LateBounded == Spec => []LateDataBound
  <1>1. IInv => LateDataBound
    BY DEF IInv, Late, LateDataBound
  <1> QED
    BY <1>1, Invariance, PTL

\* Whatever the order of the two timers, the message loop, both copies and the
\* goroutine that retires the connection: no stream is kept that nobody will
\* unregister, and no loss of an end goes unnoticed.  This is why the
\* compare-and-swap on cleanupStarted may let every caller but one go.
THEOREM NothingUnattended == Spec => []Attended
  <1>1. Init => AttendInv
    BY DEF Init, AttendInv, Early, Owned, GivenBack, TunnelSteps, Idle
  <1>2. IInv /\ AttendInv /\ [Next]_vars => IInv' /\ AttendInv'
    BY NextIInv, AttendKept
  <1>3. IInv /\ AttendInv => Attended
    BY DEF IInv, TypeOK, Steps, AttendInv, Early, Owned, Attended, TunnelSteps, GivenBack
  <1> QED
    BY <1>1, <1>2, <1>3, InitIInv, PTL DEF Spec
-----------------------------------------------------------------------------
(* Refinement *)

LEMMA PipeInit == Init => Pipe!Init
  BY DEF Init, Pipe!Init

abstract == <<sent, delivered, reply = "granted", client = "closed", lost>>

\* What a step of the main goroutine or the cleanup means for the pipe: it is
\* opened once, by the reply, or shut.
LEMMA MainPipe ==
    ASSUME IInv, Main \/ TimerFires \/ Cleanup
    PROVE  Pipe!Open \/ Pipe!Shut \/ abstract' = abstract
  <1> USE DEF endpoints, loopVars, poolVars, downVars, cleanVars, abstract
  <1>t. Phases /\ lost \in BOOLEAN
    BY DEF IInv, TypeOK
  <1>1. HandleAuth \/ HandleRequest \/ Acquire => Pipe!Shut \/ abstract' = abstract
    BY <1>t DEF HandleAuth, HandleRequest, Acquire, Return, Phases, Pipe!Shut
  <1>2. WriteConnect \/ ConnectFails \/ ReplyFails => abstract' = abstract
    BY DEF WriteConnect, ConnectFails, ReplyFails
  <1>3. WriteReply => Pipe!Open
    BY <1>t DEF WriteReply, Phases, Pipe!Open
  <1>4. TimerFires \/ TimedOut \/ TunnelClosed => abstract' = abstract
    BY DEF TimerFires, TimedOut, TunnelClosed
  <1>5. Leave \/ DirectReturns \/ CleanupCutsClient => Pipe!Shut \/ abstract' = abstract
    BY DEF Leave, DirectReturns, Return, CleanupCutsClient, Pipe!Shut
  <1>6. DialTarget => Pipe!Open \/ Pipe!Shut \/ abstract' = abstract
    BY <1>t DEF DialTarget, Return, Phases, Pipe!Open, Pipe!Shut
  <1>7. GoCleanup \/ OnClose \/ CleanupSendsClose \/ CleanupGivesBack \/ CleanupEnds
            => abstract' = abstract
    BY DEF GoCleanup, OnClose, CleanupSendsClose, CleanupGivesBack, CleanupEnds
  <1> QED
    BY <1>1, <1>2, <1>3, <1>4, <1>5, <1>6, <1>7 DEF Main, Cleanup

\* A frame is given to the client after the reply and before the socket is
\* closed, in order, and without a hole unless one was declared.
LEMMA DeliverPipe ==
    ASSUME IInv, WriteClient \/ CopyDown
    PROVE  Pipe!Deliver \/ abstract' = abstract
  <1> USE DEF endpoints, loopVars, poolVars, downVars, cleanVars, abstract
  <1>t. /\ Phases /\ Order /\ Contig
        /\ taken \in Nat /\ sent \in Nat /\ writer.n \in Nat
        /\ delivered \in Seq(Nat) /\ Len(delivered) \in Nat
        /\ lost \in BOOLEAN
    BY DEF IInv, TypeOK
  <1>1. WriteClient => Pipe!Deliver
    <2> SUFFICES ASSUME WriteClient PROVE Pipe!Deliver
      OBVIOUS
    <2>1. /\ Writing /\ reply = "granted" /\ client # "closed"
          /\ UNCHANGED <<sent, reply, client, lost>>
          /\ delivered' = Append(delivered, writer.n)
      BY <1>t DEF WriteClient, Writable, Writing, Phases
    <2>2. writer.n \in 1 .. sent /\ \A i \in DOMAIN delivered : delivered[i] < writer.n
      BY <1>t, <2>1 DEF Order
    <2>3. lost \/ writer.n = Len(delivered) + 1
      BY <1>t, <2>1 DEF Contig, Whole, Writing
    <2> QED
      BY <2>1, <2>2, <2>3 DEF Pipe!Deliver
  <1>2. CopyDown => Pipe!Deliver \/ abstract' = abstract
    <2> SUFFICES ASSUME CopyDown, delivered' # delivered PROVE Pipe!Deliver
      BY DEF CopyDown
    <2>1. /\ pc = "direct" /\ reply = "granted" /\ client # "closed" /\ taken < sent
          /\ UNCHANGED <<sent, reply, client, lost>> /\ writer.at = "select"
          /\ delivered' = Append(delivered, taken + 1)
      BY <1>t DEF CopyDown, Writable, Phases
    <2>2. /\ taken + 1 \in 1 .. sent
          /\ \A i \in DOMAIN delivered : delivered[i] < taken + 1
      <3>1. \A i \in DOMAIN delivered : delivered[i] \in Nat
        BY <1>t
      <3> QED
        BY <1>t, <2>1, <3>1 DEF Order
    <2>3. lost \/ taken + 1 = Len(delivered) + 1
      <3>1. ~Holding /\ queue = <<>> /\ ~Writing
        BY <1>t, <2>1 DEF Phases
      <3>2. InWriter = 0 /\ InLoop = 0 /\ Len(queue) = 0
        BY <3>1 DEF InWriter, InLoop
      <3> QED
        BY <1>t, <2>1, <3>2 DEF Contig, Whole
    <2> QED
      BY <2>1, <2>2, <2>3 DEF Pipe!Deliver
  <1> QED
    BY <1>1, <1>2

\* Every step is a step of the pipe, or leaves it alone.
LEMMA PipeNext ==
    ASSUME IInv, [Next]_vars
    PROVE  Pipe!Next \/ abstract' = abstract
  <1> USE DEF endpoints, loopVars, poolVars, downVars, cleanVars, abstract
  <1>1. Main \/ TimerFires \/ Cleanup => Pipe!Next \/ abstract' = abstract
    BY MainPipe DEF Pipe!Next
  <1>2. WriteClient \/ CopyDown => Pipe!Next \/ abstract' = abstract
    BY DeliverPipe DEF Pipe!Next
  <1>3. WriteClientFails \/ Writer => abstract' = abstract
    BY DEF WriteClientFails, Writer, TakeFrame, WriterEnds, CopyDownEnds
  <1>4. Loop => abstract' = abstract
    BY DEF Loop, OnMessage, DispatchConnected, DispatchData, DispatchClose, Dispatch,
           OnConnected, Signal, Enqueue, DropClosed, EnqueueBlocks, OnFarClose
  <1>5. EnqueueTimesOut => Pipe!Next \/ abstract' = abstract
    <2>1. lost \in BOOLEAN
      BY DEF IInv, TypeOK
    <2>2. EnqueueTimesOut => Pipe!Lose \/ abstract' = abstract
      BY <2>1 DEF EnqueueTimesOut, Pipe!Lose
    <2> QED
      BY <2>2 DEF Pipe!Next
  <1>6. FarSends => Pipe!Next
    BY DEF FarSends, Pipe!Send, Pipe!Next
  <1>7. Reader \/ ReadClient \/ CopyUpEnds => abstract' = abstract
    BY DEF Reader, ReadClient, ReadClientFails, WriteUp, WriteUpFails, UpRetired, CopyUpEnds
  <1>8. ClientLeaves \/ FarConnects \/ FarCloses \/ WsFails \/ WsRetired => abstract' = abstract
    BY DEF ClientLeaves, FarConnects, FarCloses, WsFails, WsRetired
  <1>9. UNCHANGED vars => abstract' = abstract
    BY DEF vars
  <1> QED
    BY <1>1, <1>2, <1>3, <1>4, <1>5, <1>6, <1>7, <1>8, <1>9
       DEF Next, WriteDown, Environment

\* Both routes implement the pipe: the client is given the frames in order, none
\* twice, after the reply, before its socket is closed, and without a hole that
\* was not declared.
THEOREM Implements == Spec => ImplementsPipe
  <1>1. IInv /\ [Next]_vars => [Pipe!Next]_<<sent, delivered, (reply = "granted"),
                                             (client = "closed"), lost>>
    BY PipeNext DEF abstract
  <1> QED
    BY <1>1, PipeInit, Invariance, PTL DEF Spec, ImplementsPipe, Pipe!Spec, Pipe!pipe
-----------------------------------------------------------------------------
(* The contract with the pool *)

HandlerState ==
    IF Fresh THEN "none" ELSE IF notify THEN "notify"
    ELSE IF registered /\ ws # "retired" THEN "registered" ELSE "gone"

\* OnClose is due only for a connection that was retired.
OnceInv == AttendInv /\ (notify => ws = "retired")

\* What the steps of this model do to what the pool knows of the tunnel.
LEMMA PoolSteps ==
    ASSUME IInv, OnceInv, [Next]_vars
    PROVE  /\ ~Fresh => ~Fresh'
           /\ ws = "retired" => ws' = "retired"
           /\ notify' /\ ~notify => registered /\ ws # "retired" /\ ws' = "retired"
           /\ registered' /\ ~registered => Fresh
  <1> USE DEF endpoints, loopVars, poolVars, downVars, cleanVars, Fresh
  <1>t. notify \in BOOLEAN /\ registered \in BOOLEAN
    BY DEF IInv, TypeOK
  <1> DEFINE Goal == /\ ~Fresh => ~Fresh'
                     /\ ws = "retired" => ws' = "retired"
                     /\ notify' /\ ~notify => registered /\ ws # "retired" /\ ws' = "retired"
                     /\ registered' /\ ~registered => Fresh
  <1>1. Main => Goal
    BY <1>t DEF Main, HandleAuth, HandleRequest, Acquire, WriteConnect, ConnectFails, WriteReply,
       ReplyFails, TimedOut, TunnelClosed, Leave, DialTarget, DirectReturns, Return, Retire
  <1>2. TimerFires \/ WsRetired \/ WriteUpFails => Goal
    BY <1>t DEF TimerFires, WsRetired, WriteUpFails, Retire
  <1>3. Loop \/ EnqueueTimesOut => Goal
    BY <1>t DEF Loop, OnMessage, DispatchConnected, DispatchData, DispatchClose, Dispatch,
       OnConnected, Signal, Enqueue, DropClosed, EnqueueBlocks, OnFarClose, EnqueueTimesOut
  <1>4. Writer \/ WriteDown => Goal
    BY <1>t DEF Writer, WriteDown, TakeFrame, WriterEnds, CopyDownEnds, WriteClient,
       WriteClientFails, CopyDown
  <1>5. ReadClient \/ ReadClientFails \/ WriteUp \/ UpRetired \/ CopyUpEnds => Goal
    BY <1>t DEF ReadClient, ReadClientFails, WriteUp, UpRetired, CopyUpEnds
  <1>6. Cleanup => Goal
    BY <1>t DEF Cleanup, GoCleanup, OnClose, CleanupSendsClose, CleanupCutsClient,
       CleanupGivesBack, CleanupEnds
  <1>7. ClientLeaves \/ FarConnects \/ FarSends \/ FarCloses \/ WsFails => Goal
    BY <1>t DEF ClientLeaves, FarConnects, FarSends, FarCloses, WsFails
  <1>8. UNCHANGED vars => Goal
    BY <1>t DEF vars
  <1> QED
    BY <1>1, <1>2, <1>3, <1>4, <1>5, <1>6, <1>7, <1>8 DEF Next, Reader, Environment

\* The tunnel keeps the same contract from its side: it registers once, and gives its
\* handler back or is told by OnClose, once.
THEOREM KeepsContract == Spec => ImplementsHandler
  <1>1. Init => OnceInv /\ HandlerState = "none"
    BY DEF Init, OnceInv, AttendInv, Early, Owned, GivenBack, TunnelSteps, Idle, HandlerState, Fresh
  <1>2. IInv /\ OnceInv /\ [Next]_vars => IInv' /\ OnceInv'
    BY NextIInv, AttendKept, PoolSteps DEF OnceInv
  <1>3. IInv /\ OnceInv /\ [Next]_vars => [Handler!Next]_HandlerState
    <2> SUFFICES ASSUME IInv, OnceInv, [Next]_vars
                 PROVE  [Handler!Next]_HandlerState
      OBVIOUS
    <2>1. /\ Fresh => ~registered /\ ~notify
          /\ notify => ws = "retired"
      BY DEF OnceInv, AttendInv, Early, Fresh
    <2>2. HandlerState = "none" => (HandlerState' \in {"none", "registered", "gone"})
      BY <2>1, PoolSteps DEF HandlerState
    <2>3. HandlerState = "registered" => HandlerState' # "none"
      BY PoolSteps DEF HandlerState
    <2>4. HandlerState = "notify" => (HandlerState' \in {"notify", "gone"})
      BY <2>1, PoolSteps DEF HandlerState
    <2>5. HandlerState = "gone" => HandlerState' = "gone"
      BY <2>1, PoolSteps DEF HandlerState
    <2>6. /\ HandlerState \in {"none", "registered", "notify", "gone"}
          /\ HandlerState' \in {"none", "registered", "notify", "gone"}
      BY DEF HandlerState
    <2> QED
      BY <2>2, <2>3, <2>4, <2>5, <2>6 DEF Handler!Next, Handler!Register, Handler!Refuse,
         Handler!Unregister, Handler!Detach, Handler!OnClose, HandlerState
  <1> QED
    BY <1>1, <1>2, <1>3, InitIInv, PTL
       DEF Spec, ImplementsHandler, Handler!Spec, Handler!Init, HandlerState
=============================================================================
