-------------------------- MODULE Lifecycle_proofs ---------------------------
(***************************************************************************)
(* Machine-checked facts about Lifecycle, for any number of sessions and    *)
(* with or without an intervention of the system.                           *)
(***************************************************************************)
EXTENDS Lifecycle, TLAPS

Labels == {"idle", "done", "establish", "startGcm", "startNative", "check",
           "screen", "keepScreen", "keepNetwork", "network", "enable", "started",
           "watch", "asleep", "stopService", "unregister", "dropScreen", "removeScreen",
           "dropNetwork", "removeNetwork", "stopNative", "stopGo", "readFd", "closeFd",
           "report"}

\* What TypeOK says, except of what the system's intervention may add to naps.
FieldTypes ==
    /\ pc \in [Threads -> Labels]
    /\ grabbed \in [Threads -> Sessions \union {NoSession}]
    /\ tunFd \in Sessions \union {NoSession}
    /\ fds \subseteq Sessions
    /\ starting \in BOOLEAN /\ stopping \in BOOLEAN /\ runtimeRunning \in BOOLEAN
    /\ registered \subseteq Receivers /\ known \subseteq Receivers /\ events \subseteq Receivers
    /\ pending \in BOOLEAN /\ naps \in Nat
    /\ alive \in BOOLEAN /\ destroyDue \in BOOLEAN /\ interrupted \in BOOLEAN
    /\ enable \in BOOLEAN /\ native \in BOOLEAN /\ proxy \in BOOLEAN
    /\ inbox \in Seq(BOOLEAN)
    /\ parts \subseteq AllParts

\* The start thread of s is at work; it has not set runtimeRunning yet.
Busy(s) == pc[Start(s)] \notin {"idle", "done"}
Early(s) == pc[Start(s)] \in {"establish", "startGcm", "startNative", "check"}

\* One start thread is at work at a time.
OneStart == \A s, t \in Sessions : Busy(s) /\ Busy(t) => s = t

\* While it has not set runtimeRunning, nobody has, and no reconnect thread of an
\* earlier session sleeps.
EarlyQuiet == \A s \in Sessions : Early(s) => naps = 0 /\ ~runtimeRunning

IInv == FieldTypes /\ OneStart /\ EarlyQuiet /\ PendingHasThread /\ AllOrNothing

\* A thread at one of these labels.
At(labels) == \E th \in Threads : pc[th] \in labels

Starting == {"establish", "startGcm", "startNative", "check", "screen", "keepScreen",
             "keepNetwork", "network", "enable"}
Cleaning == {"unregister", "dropScreen", "removeScreen", "dropNetwork", "removeNetwork",
             "stopNative", "stopGo", "readFd", "closeFd", "report"}
Watched(s) == pc[Monitor(s)] \in {"watch", "asleep"}

\* Once stopping is set, whatever the session still has is released by a thread
\* that has not come to it yet; and no start thread acquires anything more.
Releasing ==
    /\ \A s \in Sessions : pc[Start(s)] \notin Starting
    /\ runtimeRunning => At({"unregister"})
    /\ "screen" \in known => At({"unregister", "dropScreen"})
    /\ "screen" \in registered => "screen" \in known \/ At({"removeScreen"})
    /\ "network" \in known => At({"unregister", "dropScreen", "removeScreen", "dropNetwork"})
    /\ "network" \in registered => "network" \in known \/ At({"removeNetwork"})
    /\ native => At(Cleaning \ {"stopGo", "readFd", "closeFd", "report"})
    /\ parts # {} => At(Cleaning \ {"readFd", "closeFd", "report"})
    /\ tunFd # NoSession => At(Cleaning \ {"report"})

\* Before, nobody cleans up, what there is has a start thread, a monitor or the
\* stop thread, and the stop thread is on its way once the preference is off.
Attended ==
    /\ ~At(Cleaning) /\ ~destroyDue
    /\ \A i \in DOMAIN inbox : inbox[i]
    /\ Released \/ pc[Stop] = "stopService"
           \/ \E s \in Sessions : pc[Start(s)] \in Starting \union {"started"} \/ Watched(s)
    /\ (\E s \in Sessions : pc[Start(s)] = "started" \/ Watched(s)) =>
           enable \/ pc[Stop] = "stopService"
    /\ "network" \in registered => "network" \in known
    /\ "screen" \in registered => "screen" \in known \/ \E s \in Sessions : pc[Start(s)] = "keepScreen"

\* Until a start thread has set the preference it is alone.
Alone(s) ==
    /\ ~stopping /\ ~enable /\ inbox = <<>> /\ pc[Stop] \in {"idle", "done"}
    /\ \A t \in Sessions : ~Watched(t)
    /\ pc[Start(s)] = "establish" => tunFd = NoSession
    /\ "network" \in registered => pc[Start(s)] = "enable"
    /\ pc[Start(s)] = "network" => "network" \in known

\* The only descriptor that is open is the one in the field, and a thread that has
\* read the field has read it or comes too late.
Descriptors ==
    /\ fds \subseteq {tunFd} \ {NoSession}
    /\ \A th \in Threads : pc[th] = "closeFd" => grabbed[th] = tunFd \/ tunFd = NoSession

\* Only the stop thread and the revoker run stopService, and the monitor of a session
\* comes after its start thread.
Roles ==
    \A s \in Sessions :
        /\ pc[Start(s)] # "stopService" /\ pc[Monitor(s)] # "stopService"
        /\ pc[Start(s)] # "done" => pc[Monitor(s)] = "idle"

\* The inductive invariant of a life without intervention, on top of IInv.
Calm ==
    /\ pc[Main] = "idle" /\ pc[Revoker] = "idle"
    /\ stopping => Releasing
    /\ ~stopping => Attended
    /\ \A s \in Sessions : pc[Start(s)] \in Starting => Alone(s)
    /\ Descriptors

\* The reconnect thread that sleeps is the one that is pending, unless the
\* session is over: no other can be added.  A thread that will clear the flag has
\* reset runtimeRunning, and no start thread comes to set it.
Naps ==
    /\ naps <= 1
    /\ naps > 0 => pending \/ ~runtimeRunning
    /\ runtimeRunning => ~At(Cleaning \ {"unregister"})

CalmInv == (interrupted => Interruptible) /\ (~interrupted => Calm /\ Naps)
-----------------------------------------------------------------------------
(* Threads *)

LEMMA ThreadTypes ==
    /\ \A s \in Sessions : Start(s) \in Threads /\ Monitor(s) \in Threads
    /\ Stop \in Threads /\ Revoker \in Threads /\ Main \in Threads
  BY DEF Start, Monitor, Stop, Revoker, Main, Threads

LEMMA ThreadsDiffer ==
    /\ \A s, t \in Sessions : Start(s) # Monitor(t) /\ (Start(s) = Start(t) => s = t)
    /\ \A s \in Sessions : Start(s) \notin {Stop, Revoker, Main}
  BY DEF Start, Monitor, Stop, Revoker, Main

LEMMA InitInvariant == Init => IInv
  <1> SUFFICES ASSUME Init
               PROVE  IInv
    OBVIOUS
  <1>1. \A s \in Sessions : ~Busy(s) /\ ~Early(s)
    BY ThreadTypes DEF Init, Busy, Early
  <1>2. FieldTypes
    <2>1. pc \in [Threads -> Labels] /\ grabbed \in [Threads -> Sessions \union {NoSession}]
      BY DEF Init, Labels
    <2>2. inbox \in Seq(BOOLEAN) /\ fds \subseteq Sessions /\ parts \subseteq AllParts
      BY DEF Init
    <2> QED
      BY <2>1, <2>2 DEF Init, FieldTypes
  <1>3. PendingHasThread /\ AllOrNothing
    BY DEF Init, PendingHasThread, AllOrNothing
  <1> QED
    BY <1>1, <1>2, <1>3 DEF IInv, OneStart, EarlyQuiet

\* A step that neither starts a thread that establishes a session, nor lets one
\* reach its end, nor concerns the reconnects.
LEMMA Steady ==
    ASSUME OneStart, EarlyQuiet, PendingHasThread,
           \A s \in Sessions : Busy(s)' => Busy(s),
           \A s \in Sessions : Early(s)' => Early(s),
           runtimeRunning' => runtimeRunning,
           UNCHANGED naps, pending' => pending
    PROVE  OneStart' /\ EarlyQuiet' /\ PendingHasThread'
  BY DEF OneStart, EarlyQuiet, PendingHasThread

\* One thread goes to a label that is no beginning.
LEMMA GotoSteady ==
    ASSUME FieldTypes, NEW th \in Threads, NEW label \in Labels, Goto(th, label),
           pc[th] \notin {"idle", "done"} \/ \A s \in Sessions : th # Start(s),
           label \notin {"establish", "startGcm", "startNative", "check"}
              \/ pc[th] \in {"establish", "startGcm", "startNative", "check"}
    PROVE  /\ pc' \in [Threads -> Labels]
           /\ \A s \in Sessions : Busy(s)' => Busy(s)
           /\ \A s \in Sessions : Early(s)' => Early(s)
  <1>1. pc' = [pc EXCEPT ![th] = label] /\ pc \in [Threads -> Labels]
    BY DEF Goto, FieldTypes
  <1>2. \A s \in Sessions : Start(s) \in Threads
    BY ThreadTypes
  <1>3. ASSUME NEW s \in Sessions
        PROVE  (Busy(s)' => Busy(s)) /\ (Early(s)' => Early(s))
    <2>1. CASE Start(s) = th
      BY <1>1, <1>2, <2>1 DEF Busy, Early
    <2>2. CASE Start(s) # th
      BY <1>1, <1>2, <2>2 DEF Busy, Early
    <2> QED
      BY <2>1, <2>2
  <1> QED
    BY <1>1, <1>3

\* Such a step that keeps the types.
LEMMA ThreadStep ==
    ASSUME IInv, FieldTypes', AllOrNothing', NEW th \in Threads, NEW label \in Labels, Goto(th, label),
           pc[th] \notin {"idle", "done"} \/ \A s \in Sessions : th # Start(s),
           label \notin {"establish", "startGcm", "startNative", "check"}
              \/ pc[th] \in {"establish", "startGcm", "startNative", "check"},
           runtimeRunning' => runtimeRunning,
           UNCHANGED naps, pending' => pending
    PROVE  IInv'
  <1>1. /\ \A s \in Sessions : Busy(s)' => Busy(s)
        /\ \A s \in Sessions : Early(s)' => Early(s)
    BY GotoSteady DEF IInv
  <1> QED
    BY <1>1, Steady DEF IInv
-----------------------------------------------------------------------------
(* Cleaning up *)

LEMMA UnregisterStep ==
    ASSUME IInv, NEW th \in Threads, Unregister(th)
    PROVE  IInv'
  <1>1. /\ FieldTypes /\ AllOrNothing /\ pc[th] = "unregister" /\ Goto(th, "dropScreen")
        /\ ~runtimeRunning' /\ runtimeRunning' \in BOOLEAN
        /\ UNCHANGED <<grabbed, tunFd, starting, stopping, fds, registered, known, events, pending, naps,
                       alive, destroyDue, interrupted, enable, inbox, native, proxy, parts>>
    BY DEF IInv, Unregister, reconnectVars, callbackVars, systemVars, uiVars, goVars
  <1>2. "dropScreen" \in Labels /\ pc' \in [Threads -> Labels]
    BY <1>1 DEF Labels, Goto, FieldTypes
  <1>3. FieldTypes' /\ AllOrNothing'
    BY <1>1, <1>2 DEF FieldTypes, AllOrNothing
  <1> QED
    BY <1>1, <1>2, <1>3, ThreadStep

\* The two receivers go.
LEMMA DropStep ==
    ASSUME IInv, NEW th \in Threads,
           DropScreen(th) \/ RemoveScreen(th) \/ DropNetwork(th) \/ RemoveNetwork(th)
    PROVE  IInv'
  <1>1. /\ FieldTypes /\ AllOrNothing /\ pc[th] \notin {"idle", "done"}
        /\ UNCHANGED <<grabbed, tunFd, starting, stopping, runtimeRunning, fds, events, naps,
                       alive, destroyDue, interrupted, enable, inbox, native, proxy, parts>>
    BY DEF IInv, DropScreen, RemoveScreen, DropNetwork, RemoveNetwork, fieldVars, systemVars, uiVars,
       goVars
  <1>2. PICK label \in {"removeScreen", "dropNetwork", "removeNetwork", "stopNative"} : Goto(th, label)
    BY DEF DropScreen, RemoveScreen, DropNetwork, RemoveNetwork
  <1>3. registered' \subseteq registered /\ known' \subseteq known
    BY DEF DropScreen, RemoveScreen, DropNetwork, RemoveNetwork
  <1>4. (pending' => pending) /\ pending' \in BOOLEAN
    <2>1. pending' = pending \/ pending' = FALSE
      BY DEF DropScreen, RemoveScreen, DropNetwork, RemoveNetwork
    <2>2. CASE pending' = pending
      BY <1>1, <2>2 DEF FieldTypes
    <2>3. CASE pending' = FALSE
      BY <2>3
    <2> QED
      BY <2>1, <2>2, <2>3
  <1>5. label \in Labels /\ pc' \in [Threads -> Labels]
    BY <1>1, <1>2 DEF Labels, Goto, FieldTypes
  <1>6. FieldTypes' /\ AllOrNothing'
    BY <1>1, <1>3, <1>4, <1>5 DEF FieldTypes, AllOrNothing
  <1> QED
    BY <1>1, <1>2, <1>4, <1>5, <1>6, ThreadStep

LEMMA StopNativeStep ==
    ASSUME IInv, NEW th \in Threads, StopNative(th)
    PROVE  IInv'
  <1>1. /\ FieldTypes /\ AllOrNothing /\ pc[th] = "stopNative" /\ Goto(th, "stopGo")
        /\ native' \in BOOLEAN
        /\ UNCHANGED <<grabbed, tunFd, starting, stopping, runtimeRunning, fds, registered, known,
                       events, pending, naps,
                       alive, destroyDue, interrupted, enable, inbox, proxy, parts>>
    BY DEF IInv, StopNative, fieldVars, reconnectVars, callbackVars, systemVars, uiVars, goVars
  <1>2. "stopGo" \in Labels /\ pc' \in [Threads -> Labels]
    BY <1>1 DEF Labels, Goto, FieldTypes
  <1>3. FieldTypes' /\ AllOrNothing'
    BY <1>1, <1>2 DEF FieldTypes, AllOrNothing
  <1> QED
    BY <1>1, <1>2, <1>3, ThreadStep

\* StopSocksProxy stops all that StartSocksProxy started.
LEMMA StopGoStep ==
    ASSUME IInv, NEW th \in Threads, StopGo(th)
    PROVE  IInv'
  <1>1. /\ FieldTypes /\ AllOrNothing /\ pc[th] = "stopGo" /\ Goto(th, "readFd")
        /\ ~proxy' /\ proxy' \in BOOLEAN /\ parts' = IF proxy THEN parts \ AllParts ELSE parts
        /\ UNCHANGED <<grabbed, tunFd, starting, stopping, runtimeRunning, fds, registered, known,
                       events, pending, naps,
                       alive, destroyDue, interrupted, enable, inbox, native>>
    BY DEF IInv, StopGo, StopSocksProxy, StopParts, fieldVars, reconnectVars, callbackVars, systemVars,
       uiVars
  <1>2. "readFd" \in Labels /\ pc' \in [Threads -> Labels]
    BY <1>1 DEF Labels, Goto, FieldTypes
  <1>3. parts' = {}
    BY <1>1 DEF AllOrNothing
  <1>4. FieldTypes' /\ AllOrNothing'
    BY <1>1, <1>2, <1>3 DEF FieldTypes, AllOrNothing
  <1> QED
    BY <1>1, <1>2, <1>4, ThreadStep

LEMMA ReadFdStep ==
    ASSUME IInv, NEW th \in Threads, ReadFd(th)
    PROVE  IInv'
  <1>1. /\ FieldTypes /\ AllOrNothing /\ pc[th] = "readFd" /\ Goto(th, "closeFd")
        /\ grabbed' = [grabbed EXCEPT ![th] = tunFd]
        /\ UNCHANGED <<tunFd, starting, stopping, runtimeRunning, fds, registered, known, events,
                       pending, naps,
                       alive, destroyDue, interrupted, enable, inbox, native, proxy, parts>>
    BY DEF IInv, ReadFd, fieldVars, reconnectVars, callbackVars, systemVars, uiVars, goVars
  <1>2. "closeFd" \in Labels /\ pc' \in [Threads -> Labels]
    BY <1>1 DEF Labels, Goto, FieldTypes
  <1>3. FieldTypes' /\ AllOrNothing'
    <2>1. FieldTypes'
      <3>1. grabbed' \in [Threads -> Sessions \union {NoSession}]
        BY <1>1 DEF FieldTypes
      <3> QED
        BY <1>1, <1>2, <3>1 DEF FieldTypes
    <2>2. AllOrNothing'
      BY <1>1 DEF AllOrNothing
    <2> QED
      BY <2>1, <2>2
  <1> QED
    BY <1>1, <1>2, <1>3, ThreadStep

LEMMA CloseFdStep ==
    ASSUME IInv, NEW th \in Threads, CloseFd(th)
    PROVE  IInv'
  <1>1. /\ FieldTypes /\ AllOrNothing /\ pc[th] = "closeFd" /\ Goto(th, "report")
        /\ grabbed' = [grabbed EXCEPT ![th] = NoSession]
        /\ tunFd' = NoSession /\ fds' = fds \ {grabbed[th]}
        /\ UNCHANGED <<starting, stopping, runtimeRunning, registered, known, events, pending, naps,
                       alive, destroyDue, interrupted, enable, inbox, native, proxy, parts>>
    BY DEF IInv, CloseFd, fieldVars, reconnectVars, callbackVars, systemVars, uiVars, goVars
  <1>2. "report" \in Labels /\ pc' \in [Threads -> Labels]
    BY <1>1 DEF Labels, Goto, FieldTypes
  <1>3. FieldTypes' /\ AllOrNothing'
    <2>1. FieldTypes'
      <3>1. grabbed' \in [Threads -> Sessions \union {NoSession}] /\ fds' \subseteq Sessions
        BY <1>1 DEF FieldTypes
      <3> QED
        BY <1>1, <1>2, <3>1 DEF FieldTypes
    <2>2. AllOrNothing'
      BY <1>1 DEF AllOrNothing
    <2> QED
      BY <2>1, <2>2
  <1> QED
    BY <1>1, <1>2, <1>3, ThreadStep

LEMMA ReportStep ==
    ASSUME IInv, NEW th \in Threads, Report(th)
    PROVE  IInv'
  <1> DEFINE label == IF th[1] \in {"start", "monitor"} THEN "done" ELSE "idle"
  <1>1. /\ FieldTypes /\ AllOrNothing /\ pc[th] = "report" /\ Goto(th, label)
        /\ enable' = FALSE /\ inbox' = Append(inbox, FALSE)
        /\ destroyDue' \in BOOLEAN /\ alive' \in BOOLEAN /\ starting' \in BOOLEAN
        /\ UNCHANGED <<grabbed, tunFd, stopping, runtimeRunning, fds, registered, known, events,
                       pending, naps,
                       interrupted, native, proxy, parts>>
    BY DEF IInv, Report, StartingAfter, reconnectVars, callbackVars, goVars
  <1>2. label \in {"done", "idle"} /\ label \in Labels
    BY DEF Labels
  <1> HIDE DEF label
  <1>3. pc' \in [Threads -> Labels]
    BY <1>1, <1>2 DEF Goto, FieldTypes
  <1>4. inbox' \in Seq(BOOLEAN)
    BY <1>1 DEF FieldTypes
  <1>5. FieldTypes' /\ AllOrNothing'
    BY <1>1, <1>3, <1>4 DEF FieldTypes, AllOrNothing
  <1> QED
    BY <1>1, <1>2, <1>5, ThreadStep
-----------------------------------------------------------------------------
(* The start thread and the monitor *)

\* Whatever fails in StartSocksProxy, its error path stops what runs.
LEMMA GoFailsFacts ==
    ASSUME AllOrNothing, FieldTypes, NEW step \in {"config", "listen"}, GoFails(step)
    PROVE  AllOrNothing' /\ parts' = {} /\ UNCHANGED proxy
  <1>1. ~proxy /\ UNCHANGED proxy /\ parts = {}
    BY DEF AllOrNothing, GoFails
  <1>2. StartedBefore(step) \ ReleasedAfter(step) = {}
    BY DEF StartedBefore, ReleasedAfter
  <1>3. parts' = {}
    BY <1>1, <1>2 DEF GoFails
  <1> QED
    BY <1>1, <1>3 DEF AllOrNothing

LEMMA StartFailsStep ==
    ASSUME IInv, NEW s \in Sessions, StartFails(s)
    PROVE  IInv'
  <1>1. /\ FieldTypes /\ AllOrNothing
        /\ pc[Start(s)] \in {"establish", "startGcm", "startNative", "check"}
        /\ Goto(Start(s), "unregister") /\ stopping' = TRUE
        /\ UNCHANGED <<grabbed, tunFd, starting, runtimeRunning, fds, registered, known, events,
                       pending, naps,
                       alive, destroyDue, interrupted, enable, inbox, native>>
    BY DEF IInv, StartFails, FailStartup, reconnectVars, callbackVars, systemVars, uiVars
  <1>2. UNCHANGED <<proxy, parts>> \/ \E step \in {"config", "listen"} : GoFails(step)
    BY DEF StartFails, goVars
  <1>3. AllOrNothing' /\ proxy' \in BOOLEAN /\ parts' \subseteq AllParts
    <2>1. CASE UNCHANGED <<proxy, parts>>
      BY <1>1, <2>1 DEF AllOrNothing, FieldTypes
    <2>2. CASE \E step \in {"config", "listen"} : GoFails(step)
      BY <1>1, <2>2, GoFailsFacts DEF FieldTypes
    <2> QED
      BY <1>2, <2>1, <2>2
  <1>4. "unregister" \in Labels /\ pc' \in [Threads -> Labels] /\ Start(s) \in Threads
    BY <1>1, ThreadTypes DEF Labels, Goto, FieldTypes
  <1>5. FieldTypes'
    BY <1>1, <1>3, <1>4 DEF FieldTypes
  <1> QED
    BY <1>1, <1>3, <1>4, <1>5, ThreadStep

LEMMA EstablishStep ==
    ASSUME IInv, NEW s \in Sessions, Establish(s)
    PROVE  IInv'
  <1>1. /\ FieldTypes /\ AllOrNothing /\ pc[Start(s)] = "establish" /\ Goto(Start(s), "startGcm")
        /\ tunFd' = s /\ fds' = fds \union {s}
        /\ UNCHANGED <<grabbed, starting, stopping, runtimeRunning, registered, known, events, pending,
                       naps,
                       alive, destroyDue, interrupted, enable, inbox, native, proxy, parts>>
    BY DEF IInv, Establish, reconnectVars, callbackVars, systemVars, uiVars, goVars
  <1>2. "startGcm" \in Labels /\ pc' \in [Threads -> Labels] /\ Start(s) \in Threads
    BY <1>1, ThreadTypes DEF Labels, Goto, FieldTypes
  <1>3. FieldTypes' /\ AllOrNothing'
    BY <1>1, <1>2 DEF FieldTypes, AllOrNothing
  <1> QED
    BY <1>1, <1>2, <1>3, ThreadStep

LEMMA StartGcmStep ==
    ASSUME IInv, NEW s \in Sessions, StartGcm(s)
    PROVE  IInv'
  <1>1. /\ FieldTypes /\ AllOrNothing /\ pc[Start(s)] = "startGcm" /\ Goto(Start(s), "startNative")
        /\ proxy' /\ proxy' \in BOOLEAN /\ parts' = AllParts
        /\ UNCHANGED <<grabbed, tunFd, starting, stopping, runtimeRunning, fds, registered, known,
                       events, pending, naps,
                       alive, destroyDue, interrupted, enable, inbox, native>>
    BY DEF IInv, StartGcm, GoStarts, fieldVars, reconnectVars, callbackVars, systemVars, uiVars
  <1>2. "startNative" \in Labels /\ pc' \in [Threads -> Labels] /\ Start(s) \in Threads
    BY <1>1, ThreadTypes DEF Labels, Goto, FieldTypes
  <1>3. FieldTypes' /\ AllOrNothing'
    BY <1>1, <1>2 DEF FieldTypes, AllOrNothing
  <1> QED
    BY <1>1, <1>2, <1>3, ThreadStep

LEMMA StartNativeStep ==
    ASSUME IInv, NEW s \in Sessions, StartNative(s)
    PROVE  IInv'
  <1>1. /\ FieldTypes /\ AllOrNothing /\ pc[Start(s)] = "startNative" /\ Goto(Start(s), "check")
        /\ native' \in BOOLEAN
        /\ UNCHANGED <<grabbed, tunFd, starting, stopping, runtimeRunning, fds, registered, known,
                       events, pending, naps,
                       alive, destroyDue, interrupted, enable, inbox, proxy, parts>>
    BY DEF IInv, StartNative, fieldVars, reconnectVars, callbackVars, systemVars, uiVars, goVars
  <1>2. "check" \in Labels /\ pc' \in [Threads -> Labels] /\ Start(s) \in Threads
    BY <1>1, ThreadTypes DEF Labels, Goto, FieldTypes
  <1>3. FieldTypes' /\ AllOrNothing'
    BY <1>1, <1>2 DEF FieldTypes, AllOrNothing
  <1> QED
    BY <1>1, <1>2, <1>3, ThreadStep

\* The first session to run finds no reconnect thread of another.
LEMMA RunningStep ==
    ASSUME IInv, NEW s \in Sessions, Running(s)
    PROVE  IInv'
  <1>1. /\ FieldTypes /\ AllOrNothing /\ OneStart /\ EarlyQuiet /\ PendingHasThread
        /\ pc[Start(s)] = "check" /\ Goto(Start(s), "screen") /\ runtimeRunning' = TRUE
        /\ UNCHANGED <<grabbed, tunFd, starting, stopping, fds, registered, known, events, pending, naps,
                       alive, destroyDue, interrupted, enable, inbox, native, proxy, parts>>
    BY DEF IInv, Running, reconnectVars, callbackVars, systemVars, uiVars, goVars
  <1>2. "screen" \in Labels /\ pc' \in [Threads -> Labels] /\ Start(s) \in Threads
    BY <1>1, ThreadTypes DEF Labels, Goto, FieldTypes
  <1>3. FieldTypes' /\ AllOrNothing'
    BY <1>1, <1>2 DEF FieldTypes, AllOrNothing
  <1>4. \A t \in Sessions : (Busy(t)' => Busy(t)) /\ (Early(t)' => Early(t))
    BY <1>1, <1>2, GotoSteady
  <1>5. Early(s) /\ Busy(s) /\ ~Early(s)'
    BY <1>1, <1>2 DEF Early, Busy, Goto, FieldTypes
  <1>6. \A t \in Sessions : ~Early(t)'
    <2>1. \A t \in Sessions : Early(t) => Busy(t)
      BY DEF Early, Busy
    <2> QED
      BY <1>1, <1>4, <1>5, <2>1 DEF OneStart
  <1>7. naps = 0
    BY <1>1, <1>5 DEF EarlyQuiet
  <1> QED
    BY <1>1, <1>3, <1>4, <1>6, <1>7 DEF IInv, OneStart, EarlyQuiet, PendingHasThread

LEMMA RegisterStep ==
    ASSUME IInv, NEW s \in Sessions,
           RegisterScreen(s) \/ KeepScreen(s) \/ KeepNetwork(s) \/ RegisterNetwork(s)
    PROVE  IInv'
  <1>1. /\ FieldTypes /\ AllOrNothing /\ pc[Start(s)] \in {"screen", "keepScreen", "keepNetwork", "network"}
        /\ UNCHANGED <<grabbed, tunFd, starting, stopping, runtimeRunning, fds, events, pending, naps,
                       alive, destroyDue, interrupted, enable, inbox, native, proxy, parts>>
    BY DEF IInv, RegisterScreen, KeepScreen, KeepNetwork, RegisterNetwork, fieldVars, systemVars, uiVars,
       goVars
  <1>2. PICK label \in {"keepScreen", "keepNetwork", "network", "enable"} : Goto(Start(s), label)
    BY DEF RegisterScreen, KeepScreen, KeepNetwork, RegisterNetwork
  <1>3. registered' \subseteq Receivers /\ known' \subseteq Receivers
    BY <1>1 DEF FieldTypes, Receivers, RegisterScreen, KeepScreen, KeepNetwork, RegisterNetwork
  <1>4. label \in Labels /\ pc' \in [Threads -> Labels] /\ Start(s) \in Threads
    BY <1>1, <1>2, ThreadTypes DEF Labels, Goto, FieldTypes
  <1>5. FieldTypes' /\ AllOrNothing'
    BY <1>1, <1>3, <1>4 DEF FieldTypes, AllOrNothing
  <1> QED
    BY <1>1, <1>2, <1>4, <1>5, ThreadStep

LEMMA EnableStep ==
    ASSUME IInv, NEW s \in Sessions, Enable(s)
    PROVE  IInv'
  <1>1. /\ FieldTypes /\ AllOrNothing /\ pc[Start(s)] = "enable" /\ Goto(Start(s), "started")
        /\ enable' = TRUE
        /\ UNCHANGED <<grabbed, tunFd, starting, stopping, runtimeRunning, fds, registered, known,
                       events, pending, naps,
                       alive, destroyDue, interrupted, inbox, native, proxy, parts>>
    BY DEF IInv, Enable, fieldVars, reconnectVars, callbackVars, systemVars, goVars
  <1>2. "started" \in Labels /\ pc' \in [Threads -> Labels] /\ Start(s) \in Threads
    BY <1>1, ThreadTypes DEF Labels, Goto, FieldTypes
  <1>3. FieldTypes' /\ AllOrNothing'
    BY <1>1, <1>2 DEF FieldTypes, AllOrNothing
  <1> QED
    BY <1>1, <1>2, <1>3, ThreadStep

LEMMA StartedStep ==
    ASSUME IInv, NEW s \in Sessions, Started(s)
    PROVE  IInv'
  <1>1. /\ FieldTypes /\ AllOrNothing /\ OneStart /\ EarlyQuiet /\ PendingHasThread
        /\ pc' = [pc EXCEPT ![Start(s)] = "done", ![Monitor(s)] = "watch"]
        /\ inbox' = Append(inbox, TRUE) /\ starting' = FALSE
        /\ UNCHANGED <<grabbed, tunFd, stopping, runtimeRunning, fds, registered, known, events,
                       pending, naps,
                       alive, destroyDue, interrupted, enable, native, proxy, parts>>
    BY DEF IInv, Started, reconnectVars, callbackVars, systemVars, goVars
  <1>2. pc' \in [Threads -> Labels]
    BY <1>1 DEF Labels, FieldTypes
  <1>3. inbox' \in Seq(BOOLEAN)
    BY <1>1 DEF FieldTypes
  <1>4. FieldTypes' /\ AllOrNothing'
    <2>1. FieldTypes'
      <3>1. /\ starting' \in BOOLEAN
            /\ UNCHANGED <<grabbed, tunFd, stopping, runtimeRunning, fds, registered, known, events,
                           pending, naps,
                           alive, destroyDue, interrupted, enable, native, proxy, parts>>
        BY <1>1
      <3>2. FieldTypes
        BY <1>1
      <3> QED
        BY <1>2, <1>3, <3>1, <3>2 DEF FieldTypes
    <2>2. AllOrNothing'
      BY <1>1 DEF AllOrNothing
    <2> QED
      BY <2>1, <2>2
  <1>5. \A t \in Sessions : (Busy(t)' => Busy(t)) /\ (Early(t)' => Early(t))
    <2>1. \A t \in Sessions : Start(t) \in Threads /\ Start(t) # Monitor(s)
      BY ThreadTypes, ThreadsDiffer
    <2>2. \A t \in Sessions : pc'[Start(t)] = IF Start(t) = Start(s) THEN "done" ELSE pc[Start(t)]
      BY <1>1, <2>1 DEF FieldTypes
    <2> QED
      BY <2>2 DEF Busy, Early
  <1>6. OneStart' /\ EarlyQuiet' /\ PendingHasThread'
    BY <1>1, <1>5, Steady
  <1> QED
    BY <1>4, <1>6 DEF IInv

LEMMA WatchStep ==
    ASSUME IInv, NEW s \in Sessions, Watch(s)
    PROVE  IInv'
  <1> DEFINE label == IF Watching THEN "asleep" ELSE "done"
  <1>1. /\ FieldTypes /\ AllOrNothing /\ pc[Monitor(s)] = "watch" /\ Goto(Monitor(s), label)
        /\ UNCHANGED <<grabbed, tunFd, starting, stopping, runtimeRunning, fds, registered, known,
                       events, pending, naps,
                       alive, destroyDue, interrupted, enable, inbox, native, proxy, parts>>
    BY DEF IInv, Watch, fieldVars, reconnectVars, callbackVars, systemVars, uiVars, goVars
  <1>2. label \in {"asleep", "done"} /\ label \in Labels
    BY DEF Labels
  <1> HIDE DEF label
  <1>3. pc' \in [Threads -> Labels] /\ Monitor(s) \in Threads
    BY <1>1, <1>2, ThreadTypes DEF Goto, FieldTypes
  <1>4. FieldTypes' /\ AllOrNothing'
    BY <1>1, <1>3 DEF FieldTypes, AllOrNothing
  <1> QED
    BY <1>1, <1>2, <1>3, <1>4, ThreadStep

LEMMA WakeStep ==
    ASSUME IInv, NEW s \in Sessions, Wake(s)
    PROVE  IInv'
  <1> DEFINE label == IF ~stopping /\ ~native THEN "unregister" ELSE "watch"
  <1>1. /\ FieldTypes /\ AllOrNothing /\ pc[Monitor(s)] = "asleep" /\ stopping' \in BOOLEAN
        /\ UNCHANGED <<grabbed, tunFd, starting, runtimeRunning, fds, registered, known, events,
                       pending, naps,
                       alive, destroyDue, interrupted, enable, inbox, native, proxy, parts>>
    BY DEF IInv, FieldTypes, Wake, FailStartup, reconnectVars, callbackVars, systemVars, uiVars, goVars
  <1>2. Goto(Monitor(s), label)
    BY DEF Wake, FailStartup
  <1>3. label \in {"unregister", "watch"} /\ label \in Labels
    BY DEF Labels
  <1> HIDE DEF label
  <1>4. pc' \in [Threads -> Labels] /\ Monitor(s) \in Threads
    BY <1>1, <1>2, <1>3, ThreadTypes DEF Goto, FieldTypes
  <1>5. FieldTypes' /\ AllOrNothing'
    BY <1>1, <1>4 DEF FieldTypes, AllOrNothing
  <1> QED
    BY <1>1, <1>2, <1>3, <1>4, <1>5, ThreadStep
-----------------------------------------------------------------------------
(* Commands, network changes and the native tunnel *)

LEMMA StartCommandStep ==
    ASSUME IInv, NEW s \in Sessions, StartCommand(s)
    PROVE  IInv'
  <1>1. /\ FieldTypes /\ AllOrNothing /\ PendingHasThread
        /\ Goto(Start(s), "establish") /\ Ended
        /\ alive' = TRUE /\ starting' = TRUE /\ stopping' = FALSE /\ tunFd' = NoSession
        /\ ~runtimeRunning' /\ runtimeRunning' \in BOOLEAN
        /\ registered' = {} /\ known' = {} /\ ~pending' /\ pending' \in BOOLEAN
        /\ UNCHANGED <<grabbed, fds, events, naps, destroyDue, interrupted, enable, inbox, native,
                       proxy, parts>>
    BY DEF IInv, StartCommand, uiVars, goVars
  <1>2. "establish" \in Labels /\ pc' \in [Threads -> Labels] /\ Start(s) \in Threads
    BY <1>1, ThreadTypes DEF Labels, Goto, FieldTypes
  <1>3. FieldTypes' /\ AllOrNothing'
    BY <1>1, <1>2 DEF FieldTypes, AllOrNothing
  <1>4. naps = 0
    BY <1>1 DEF Ended
  <1>5. ASSUME NEW t \in Sessions, t # s
        PROVE  ~Busy(t)'
    <2>1. Start(t) \in Threads /\ Start(t) # Start(s)
      BY <1>5, ThreadTypes, ThreadsDiffer
    <2>2. pc'[Start(t)] = pc[Start(t)] /\ pc[Start(t)] \in {"idle", "done"}
      BY <1>1, <2>1 DEF Goto, FieldTypes, Ended
    <2> QED
      BY <2>2 DEF Busy
  <1>6. OneStart'
    BY <1>5 DEF OneStart
  <1>7. EarlyQuiet' /\ PendingHasThread'
    BY <1>1, <1>4 DEF EarlyQuiet, PendingHasThread
  <1> QED
    BY <1>3, <1>6, <1>7 DEF IInv

LEMMA StopServiceStep ==
    ASSUME IInv, NEW th \in Threads, StopService(th)
    PROVE  IInv'
  <1> DEFINE label == IF stopping THEN "idle" ELSE "unregister"
  <1>1. /\ FieldTypes /\ AllOrNothing /\ pc[th] = "stopService" /\ Goto(th, label)
        /\ stopping' = TRUE /\ destroyDue' \in BOOLEAN
        /\ UNCHANGED <<grabbed, tunFd, starting, runtimeRunning, fds, registered, known, events,
                       pending, naps,
                       alive, interrupted, enable, inbox, native, proxy, parts>>
    BY DEF IInv, FieldTypes, StopService, reconnectVars, callbackVars, uiVars, goVars
  <1>2. label \in {"idle", "unregister"} /\ label \in Labels
    BY DEF Labels
  <1> HIDE DEF label
  <1>3. pc' \in [Threads -> Labels]
    BY <1>1, <1>2 DEF Goto, FieldTypes
  <1>4. FieldTypes' /\ AllOrNothing'
    BY <1>1, <1>3 DEF FieldTypes, AllOrNothing
  <1> QED
    BY <1>1, <1>2, <1>4, ThreadStep

\* StopCommand, Revoke, OnDestroy: a thread with no session begins.
LEMMA BeginStep ==
    ASSUME IInv, StopCommand \/ Revoke \/ OnDestroy
    PROVE  IInv'
  <1>1. /\ FieldTypes /\ AllOrNothing /\ OneStart /\ EarlyQuiet /\ PendingHasThread
        /\ UNCHANGED <<grabbed, tunFd, starting, stopping, runtimeRunning, fds, registered, known,
                       events, pending, naps,
                       inbox, native, proxy, parts>>
    BY DEF IInv, StopCommand, Revoke, OnDestroy, fieldVars, reconnectVars, callbackVars, uiVars, goVars
  <1>2. enable' \in BOOLEAN
    BY <1>1 DEF FieldTypes, StopCommand, Revoke, OnDestroy, uiVars
  <1>3. alive' \in BOOLEAN /\ destroyDue' \in BOOLEAN /\ interrupted' \in BOOLEAN
    BY <1>1 DEF FieldTypes, StopCommand, Revoke, OnDestroy, systemVars
  <1>4. pc' = pc \/ \E th \in {Stop, Revoker, Main}, label \in {"stopService", "unregister"} : Goto(th, label)
    BY DEF StopCommand, Revoke, OnDestroy
  <1>5. /\ pc' \in [Threads -> Labels]
        /\ \A s \in Sessions : Busy(s)' => Busy(s)
        /\ \A s \in Sessions : Early(s)' => Early(s)
    <2>1. CASE pc' = pc
      BY <1>1, <2>1 DEF FieldTypes, Busy, Early
    <2>2. ASSUME NEW th \in {Stop, Revoker, Main}, NEW label \in {"stopService", "unregister"}, Goto(th, label)
          PROVE  /\ pc' \in [Threads -> Labels]
                 /\ \A s \in Sessions : Busy(s)' => Busy(s)
                 /\ \A s \in Sessions : Early(s)' => Early(s)
      <3>1. th \in Threads /\ label \in Labels /\ \A s \in Sessions : th # Start(s)
        BY ThreadTypes, ThreadsDiffer DEF Labels
      <3> QED
        BY <1>1, <2>2, <3>1, GotoSteady
    <2> QED
      BY <1>4, <2>1, <2>2
  <1>6. FieldTypes' /\ AllOrNothing'
    BY <1>1, <1>2, <1>3, <1>5 DEF FieldTypes, AllOrNothing
  <1> QED
    BY <1>1, <1>5, <1>6, Steady DEF IInv

\* Steps that no thread takes.
LEMMA EventStep ==
    ASSUME IInv, SystemDestroys \/ Deliver \/ NativeDies
    PROVE  IInv'
  <1>1. /\ FieldTypes /\ AllOrNothing /\ OneStart /\ EarlyQuiet /\ PendingHasThread
        /\ UNCHANGED <<pc, grabbed, tunFd, starting, stopping, runtimeRunning, fds, registered, known,
                       events, pending, naps,
                       alive, proxy, parts>>
    BY DEF IInv, SystemDestroys, Deliver, NativeDies, fieldVars, reconnectVars, callbackVars,
       systemVars, goVars
  <1>2. destroyDue' \in BOOLEAN /\ interrupted' \in BOOLEAN /\ native' \in BOOLEAN
    BY <1>1 DEF FieldTypes, SystemDestroys, Deliver, NativeDies, systemVars
  <1>3. inbox' \in Seq(BOOLEAN) /\ enable' \in BOOLEAN
    <2>1. CASE Deliver
      <3>1. inbox \in Seq(BOOLEAN) /\ inbox # <<>> /\ inbox' = Tail(inbox) /\ enable' = Head(inbox)
        BY <1>1, <2>1 DEF FieldTypes, Deliver
      <3> QED
        BY <3>1
    <2>2. CASE SystemDestroys \/ NativeDies
      BY <1>1, <2>2 DEF FieldTypes, SystemDestroys, NativeDies, uiVars
    <2> QED
      BY <2>1, <2>2
  <1>4. FieldTypes' /\ AllOrNothing'
    BY <1>1, <1>2, <1>3 DEF FieldTypes, AllOrNothing
  <1>5. \A s \in Sessions : (Busy(s)' => Busy(s)) /\ (Early(s)' => Early(s))
    BY <1>1 DEF Busy, Early
  <1> QED
    BY <1>1, <1>4, <1>5, Steady DEF IInv

\* A receiver is called, and comes to scheduleReconnect.
LEMMA CallbackStep ==
    ASSUME IInv, NEW x \in Receivers, Event(x) \/ ScheduleReconnect(x)
    PROVE  IInv'
  <1>1. /\ FieldTypes /\ AllOrNothing /\ OneStart /\ EarlyQuiet /\ PendingHasThread
        /\ UNCHANGED <<pc, grabbed, tunFd, starting, stopping, runtimeRunning, fds, registered, known,
                       alive, destroyDue, interrupted, enable, inbox, native, proxy, parts>>
    BY DEF IInv, Event, ScheduleReconnect, fieldVars, systemVars, uiVars, goVars
  <1>2. events' \subseteq Receivers
    BY <1>1 DEF FieldTypes, Event, ScheduleReconnect
  <1>3. \/ UNCHANGED <<pending, naps>>
        \/ runtimeRunning /\ pending' = TRUE /\ naps' = naps + 1
    <2>1. CASE Event(x)
      BY <2>1 DEF Event
    <2>2. CASE ScheduleReconnect(x) /\ MaySchedule
      BY <1>1, <2>2 DEF ScheduleReconnect, MaySchedule, FieldTypes
    <2>3. CASE ScheduleReconnect(x) /\ ~MaySchedule
      BY <1>1, <2>3 DEF ScheduleReconnect, FieldTypes
    <2> QED
      BY <2>1, <2>2, <2>3
  <1>4. pending' \in BOOLEAN /\ naps' \in Nat
    <2>1. pending' = pending \/ pending' = TRUE
      BY <1>3
    <2>2. naps' = naps \/ naps' = naps + 1
      BY <1>3
    <2>3. pending' \in BOOLEAN
      BY <1>1, <2>1 DEF FieldTypes
    <2>4. naps' \in Nat
      BY <1>1, <2>2 DEF FieldTypes
    <2> QED
      BY <2>3, <2>4
  <1>5. FieldTypes' /\ AllOrNothing'
    BY <1>1, <1>2, <1>4 DEF FieldTypes, AllOrNothing
  <1>6. OneStart' /\ EarlyQuiet'
    <2>1. \A s \in Sessions : Early(s) => naps' = naps
      BY <1>1, <1>3 DEF EarlyQuiet
    <2> QED
      BY <1>1, <2>1 DEF OneStart, EarlyQuiet, Busy, Early
  <1>7. PendingHasThread'
    <2>1. CASE UNCHANGED <<pending, naps>>
      BY <1>1, <2>1 DEF PendingHasThread
    <2>2. CASE naps' = naps + 1
      BY <1>1, <2>2 DEF PendingHasThread, FieldTypes
    <2> QED
      BY <1>3, <2>1, <2>2
  <1> QED
    BY <1>5, <1>6, <1>7 DEF IInv

LEMMA ReconnectStep ==
    ASSUME IInv, Reconnect
    PROVE  IInv'
  <1>1. /\ FieldTypes /\ AllOrNothing /\ OneStart /\ EarlyQuiet
        /\ naps > 0 /\ naps' = naps - 1 /\ ~pending' /\ pending' \in BOOLEAN
        /\ UNCHANGED <<pc, grabbed, tunFd, starting, stopping, runtimeRunning, fds, registered, known,
                       events,
                       alive, destroyDue, interrupted, enable, inbox, native, proxy, parts>>
    BY DEF IInv, Reconnect, AfterNap, fieldVars, callbackVars, systemVars, uiVars, goVars
  <1>2. naps' \in Nat
    BY <1>1 DEF FieldTypes
  <1>3. FieldTypes' /\ AllOrNothing'
    BY <1>1, <1>2 DEF FieldTypes, AllOrNothing
  <1>4. \A s \in Sessions : ~Early(s)
    BY <1>1 DEF EarlyQuiet
  <1>5. OneStart' /\ EarlyQuiet'
    BY <1>1, <1>4 DEF OneStart, EarlyQuiet, Busy, Early
  <1> QED
    BY <1>1, <1>3, <1>5 DEF IInv, PendingHasThread
-----------------------------------------------------------------------------
(* A life without intervention *)

LEMMA RolesDiffer ==
    /\ \A s, t \in Sessions : Monitor(s) = Monitor(t) => s = t
    /\ \A s \in Sessions : Monitor(s) \notin {Stop, Revoker, Main}
    /\ Stop # Revoker /\ Stop # Main /\ Revoker # Main
  BY DEF Monitor, Stop, Revoker, Main

LEMMA EveryThread ==
    \A th \in Threads :
        \/ th \in {Stop, Revoker, Main}
        \/ \E s \in Sessions : th = Start(s) \/ th = Monitor(s)
  BY DEF Threads, Start, Monitor

\* What Goto does.
LEMMA GotoFacts ==
    ASSUME FieldTypes, NEW th \in Threads, NEW label, Goto(th, label)
    PROVE  /\ pc'[th] = label
           /\ \A u \in Threads : u # th => pc'[u] = pc[u]
  BY DEF FieldTypes, Goto

\* The threads that clean up have not moved.
LEMMA ReleasingKept ==
    ASSUME Releasing, \A th \in Threads : pc[th] \in Cleaning => pc'[th] = pc[th],
           \A s \in Sessions : pc'[Start(s)] \notin Starting,
           UNCHANGED <<runtimeRunning, registered, known, tunFd, native, parts>>
    PROVE  Releasing'
  <1>1. ASSUME NEW labels \in SUBSET Cleaning, At(labels)
        PROVE  At(labels)'
    BY <1>1 DEF At
  <1>2. /\ At({"unregister"}) => At({"unregister"})'
        /\ At({"unregister", "dropScreen"}) => At({"unregister", "dropScreen"})'
        /\ At({"removeScreen"}) => At({"removeScreen"})'
    BY <1>1 DEF Cleaning
  <1>3. /\ At({"unregister", "dropScreen", "removeScreen", "dropNetwork"})
             => At({"unregister", "dropScreen", "removeScreen", "dropNetwork"})'
        /\ At({"removeNetwork"}) => At({"removeNetwork"})'
    BY <1>1 DEF Cleaning
  <1>4. /\ At(Cleaning \ {"stopGo", "readFd", "closeFd", "report"})
             => At(Cleaning \ {"stopGo", "readFd", "closeFd", "report"})'
        /\ At(Cleaning \ {"readFd", "closeFd", "report"}) => At(Cleaning \ {"readFd", "closeFd", "report"})'
        /\ At(Cleaning \ {"report"}) => At(Cleaning \ {"report"})'
    BY <1>1
  <1> QED
    BY <1>2, <1>3, <1>4 DEF Releasing

\* A thread begins to clean up.
LEMMA ReleasingBegins ==
    ASSUME NEW th \in Threads, pc'[th] = "unregister",
           \A s \in Sessions : pc'[Start(s)] \notin Starting,
           registered \subseteq Receivers, registered \subseteq known, UNCHANGED <<registered, known>>
    PROVE  Releasing'
  <1>1. ASSUME NEW labels, "unregister" \in labels
        PROVE  At(labels)'
    BY <1>1 DEF At
  <1>2. /\ At({"unregister"})' /\ At({"unregister", "dropScreen"})'
        /\ At({"unregister", "dropScreen", "removeScreen", "dropNetwork"})'
    BY <1>1
  <1>3. /\ At(Cleaning \ {"stopGo", "readFd", "closeFd", "report"})'
        /\ At(Cleaning \ {"readFd", "closeFd", "report"})'
        /\ At(Cleaning \ {"report"})'
    BY <1>1 DEF Cleaning
  <1> QED
    BY <1>2, <1>3 DEF Releasing

\* Nobody takes what a cleaning thread releases before it, and it goes on.
LEMMA CleanupCalm ==
    ASSUME IInv, Calm, NEW th \in Threads, CleanupStep(th)
    PROVE  Calm'
  <1>t. FieldTypes /\ Calm
    BY DEF IInv
  <1>1. pc[th] \in Cleaning /\ stopping /\ Releasing
    <2>1. pc[th] \in Cleaning
      BY DEF CleanupStep, Unregister, DropScreen, RemoveScreen, DropNetwork, RemoveNetwork,
         StopNative, StopGo, ReadFd, CloseFd, Report, Cleaning
    <2> QED
      BY <1>t, <2>1 DEF Calm, Attended, At
  <1>2. th # Main /\ th # Revoker
    BY <1>t, <1>1 DEF Calm, Cleaning
  <1>3. stopping'
    BY <1>1 DEF CleanupStep, Unregister, DropScreen, RemoveScreen, DropNetwork, RemoveNetwork,
         StopNative, StopGo, ReadFd, CloseFd, Report, fieldVars
  <1>4. ASSUME NEW label \in Cleaning \union {"done", "idle"}, Goto(th, label)
        PROVE  /\ pc'[Main] = "idle" /\ pc'[Revoker] = "idle"
               /\ \A s \in Sessions : pc'[Start(s)] \notin Starting
    BY <1>t, <1>1, <1>2, <1>4, GotoFacts, ThreadTypes DEF Calm, Releasing, Cleaning, Starting
  <1>5. /\ pc'[Main] = "idle" /\ pc'[Revoker] = "idle"
        /\ \A s \in Sessions : pc'[Start(s)] \notin Starting
    BY <1>4 DEF CleanupStep, Unregister, DropScreen, RemoveScreen, DropNetwork, RemoveNetwork,
         StopNative, StopGo, ReadFd, CloseFd, Report, Cleaning
  <1>6. SUFFICES Releasing' /\ Descriptors'
    BY <1>3, <1>5 DEF Calm
  <1> USE DEF Descriptors, Releasing, At, Cleaning
  <1>7. CASE Unregister(th)
    <2>1. /\ pc[th] = "unregister" /\ ~runtimeRunning'
          /\ UNCHANGED <<grabbed, tunFd, fds, registered, known, native, parts>>
      BY <1>7 DEF Unregister, reconnectVars, callbackVars, goVars
    <2>2. PICK label \in {"dropScreen"} : Goto(th, label)
      BY <1>7 DEF Unregister
    <2>3. pc'[th] = label /\ \A u \in Threads : u # th => pc'[u] = pc[u]
      BY <1>t, <2>2, GotoFacts
    <2> QED
      BY <1>t, <1>1, <1>5, <2>1, <2>2, <2>3 DEF Calm
  <1>13. CASE DropScreen(th)
    <2>1. /\ pc[th] = "dropScreen" /\ known' = known \ {"screen"}
          /\ UNCHANGED <<grabbed, tunFd, fds, runtimeRunning, registered, native, parts>>
      BY <1>13 DEF DropScreen, fieldVars, goVars
    <2>2. PICK label \in {"removeScreen", "dropNetwork"} : Goto(th, label) /\ ("screen" \in known => label = "removeScreen")
      BY <1>13 DEF DropScreen
    <2>3. pc'[th] = label /\ \A u \in Threads : u # th => pc'[u] = pc[u]
      BY <1>t, <2>2, GotoFacts
    <2> QED
      BY <1>t, <1>1, <1>5, <2>1, <2>2, <2>3 DEF Calm
  <1>14. CASE RemoveScreen(th)
    <2>1. /\ pc[th] = "removeScreen" /\ registered' = registered \ {"screen"}
          /\ UNCHANGED <<grabbed, tunFd, fds, runtimeRunning, known, native, parts>>
      BY <1>14 DEF RemoveScreen, fieldVars, goVars
    <2>2. PICK label \in {"dropNetwork"} : Goto(th, label)
      BY <1>14 DEF RemoveScreen
    <2>3. pc'[th] = label /\ \A u \in Threads : u # th => pc'[u] = pc[u]
      BY <1>t, <2>2, GotoFacts
    <2> QED
      BY <1>t, <1>1, <1>5, <2>1, <2>2, <2>3 DEF Calm
  <1>15. CASE DropNetwork(th)
    <2>1. /\ pc[th] = "dropNetwork" /\ known' = known \ {"network"}
          /\ UNCHANGED <<grabbed, tunFd, fds, runtimeRunning, registered, native, parts>>
      BY <1>15 DEF DropNetwork, fieldVars, goVars
    <2>2. PICK label \in {"removeNetwork", "stopNative"} : Goto(th, label) /\ ("network" \in known => label = "removeNetwork")
      BY <1>15 DEF DropNetwork
    <2>3. pc'[th] = label /\ \A u \in Threads : u # th => pc'[u] = pc[u]
      BY <1>t, <2>2, GotoFacts
    <2> QED
      BY <1>t, <1>1, <1>5, <2>1, <2>2, <2>3 DEF Calm
  <1>16. CASE RemoveNetwork(th)
    <2>1. /\ pc[th] = "removeNetwork" /\ registered' = registered \ {"network"}
          /\ UNCHANGED <<grabbed, tunFd, fds, runtimeRunning, known, native, parts>>
      BY <1>16 DEF RemoveNetwork, fieldVars, goVars
    <2>2. PICK label \in {"stopNative"} : Goto(th, label)
      BY <1>16 DEF RemoveNetwork
    <2>3. pc'[th] = label /\ \A u \in Threads : u # th => pc'[u] = pc[u]
      BY <1>t, <2>2, GotoFacts
    <2> QED
      BY <1>t, <1>1, <1>5, <2>1, <2>2, <2>3 DEF Calm
  <1>8. CASE StopNative(th)
    <2>1. /\ Goto(th, "stopGo") /\ pc[th] = "stopNative" /\ ~native'
          /\ UNCHANGED <<grabbed, tunFd, fds, runtimeRunning, registered, known, events, parts>>
      BY <1>8 DEF StopNative, goVars, fieldVars, reconnectVars, callbackVars
    <2>2. pc'[th] = "stopGo" /\ \A u \in Threads : u # th => pc'[u] = pc[u]
      BY <1>t, <2>1, GotoFacts
    <2> QED
      BY <1>t, <1>1, <1>5, <2>1, <2>2 DEF Calm
  <1>9. CASE StopGo(th)
    <2>1. /\ Goto(th, "readFd") /\ pc[th] = "stopGo" /\ parts' = {}
          /\ UNCHANGED <<grabbed, tunFd, fds, runtimeRunning, registered, known, events, native>>
      BY <1>9 DEF StopGo, StopSocksProxy, StopParts, AllOrNothing, IInv, fieldVars,
         reconnectVars, callbackVars
    <2>2. pc'[th] = "readFd" /\ \A u \in Threads : u # th => pc'[u] = pc[u]
      BY <1>t, <2>1, GotoFacts
    <2> QED
      BY <1>t, <1>1, <1>5, <2>1, <2>2 DEF Calm
  <1>10. CASE ReadFd(th)
    <2>1. /\ Goto(th, "closeFd") /\ pc[th] = "readFd"
          /\ grabbed' = [grabbed EXCEPT ![th] = tunFd]
          /\ UNCHANGED <<tunFd, fds, runtimeRunning, registered, known, events, native, parts>>
      BY <1>10 DEF ReadFd, fieldVars, reconnectVars, callbackVars, goVars
    <2>2. pc'[th] = "closeFd" /\ \A u \in Threads : u # th => pc'[u] = pc[u]
      BY <1>t, <2>1, GotoFacts
    <2>3. grabbed'[th] = tunFd /\ \A u \in Threads : u # th => grabbed'[u] = grabbed[u]
      BY <1>t, <2>1 DEF FieldTypes
    <2> QED
      BY <1>t, <1>1, <1>5, <2>1, <2>2, <2>3 DEF Calm
  <1>11. CASE CloseFd(th)
    <2>1. /\ Goto(th, "report") /\ pc[th] = "closeFd" /\ tunFd' = NoSession
          /\ fds' = fds \ {grabbed[th]}
          /\ UNCHANGED <<runtimeRunning, registered, known, events, native, parts>>
      BY <1>11 DEF CloseFd, reconnectVars, callbackVars, goVars
    <2>2. pc'[th] = "report" /\ \A u \in Threads : u # th => pc'[u] = pc[u]
      BY <1>t, <2>1, GotoFacts
    <2>3. fds' = {}
      BY <1>t, <2>1 DEF Calm
    <2> QED
      BY <1>t, <1>1, <1>5, <2>1, <2>2, <2>3 DEF Calm
  <1>12. CASE Report(th)
    <2>1. /\ \E label \in {"done", "idle"} : Goto(th, label)
          /\ pc[th] = "report"
          /\ UNCHANGED <<grabbed, tunFd, fds, runtimeRunning, registered, known, events, native, parts>>
      BY <1>12 DEF Report, reconnectVars, callbackVars, goVars
    <2>2. pc'[th] \in {"done", "idle"} /\ \A u \in Threads : u # th => pc'[u] = pc[u]
      BY <1>t, <2>1, GotoFacts
    <2> QED
      BY <1>t, <1>1, <1>5, <2>1, <2>2 DEF Calm
  <1> QED
    BY <1>7, <1>8, <1>9, <1>10, <1>11, <1>12, <1>13, <1>14, <1>15, <1>16 DEF CleanupStep

\* A start thread that fails begins to clean up what it has.
LEMMA FailCalm ==
    ASSUME IInv, Calm, NEW s \in Sessions, StartFails(s)
    PROVE  Calm'
  <1>t. FieldTypes /\ Calm /\ OneStart
    BY DEF IInv
  <1>1. /\ pc[Start(s)] \in {"establish", "startGcm", "startNative", "check"}
        /\ Goto(Start(s), "unregister") /\ stopping'
        /\ UNCHANGED <<grabbed, tunFd, fds, registered, known>>
    BY DEF StartFails, FailStartup, reconnectVars, callbackVars
  <1>2. /\ pc'[Start(s)] = "unregister" /\ Start(s) \in Threads
        /\ \A u \in Threads : u # Start(s) => pc'[u] = pc[u]
    BY <1>t, <1>1, GotoFacts, ThreadTypes
  <1>3. pc'[Main] = "idle" /\ pc'[Revoker] = "idle"
    BY <1>t, <1>2, ThreadTypes, ThreadsDiffer DEF Calm
  <1>4. \A t \in Sessions : pc'[Start(t)] \notin Starting
    <2>1. \A t \in Sessions : t # s => pc[Start(t)] \in {"idle", "done"}
      BY <1>t, <1>1 DEF OneStart, Busy
    <2> QED
      BY <1>2, <2>1, ThreadTypes DEF Starting
  <1>5. Descriptors'
    BY <1>t, <1>1, <1>2 DEF Calm, Descriptors
  <1>6. registered \subseteq Receivers /\ registered \subseteq known
    <2>1. Attended
      BY <1>t, <1>1 DEF Calm, Alone, Starting
    <2>2. \A t \in Sessions : pc[Start(t)] # "keepScreen"
      BY <1>t, <1>1 DEF OneStart, Busy
    <2> QED
      BY <1>t, <2>1, <2>2 DEF Attended, FieldTypes, Receivers
  <1>7. Releasing'
    BY <1>1, <1>2, <1>4, <1>6, ReleasingBegins
  <1> QED
    BY <1>1, <1>2, <1>3, <1>4, <1>5, <1>7 DEF Calm

\* A start thread acquires one thing after the other, alone.
LEMMA AcquireCalm ==
    ASSUME IInv, Calm, NEW s \in Sessions,
           Establish(s) \/ StartGcm(s) \/ StartNative(s) \/ Running(s)
              \/ RegisterScreen(s) \/ KeepScreen(s) \/ KeepNetwork(s) \/ RegisterNetwork(s)
    PROVE  Calm'
  <1>t. FieldTypes /\ Calm /\ OneStart
    BY DEF IInv
  <1>1. /\ pc[Start(s)] \in Starting
        /\ \E label \in Starting \ {"establish"} : Goto(Start(s), label)
        /\ UNCHANGED <<grabbed, stopping, enable, inbox, destroyDue>>
    BY DEF Establish, StartGcm, StartNative, Running, RegisterScreen,
         KeepScreen, KeepNetwork, RegisterNetwork, Starting, fieldVars, uiVars,
       systemVars
  <1>2. /\ pc'[Start(s)] \in Starting \ {"establish"} /\ Start(s) \in Threads
        /\ \A u \in Threads : u # Start(s) => pc'[u] = pc[u]
    BY <1>t, <1>1, GotoFacts, ThreadTypes
  <1>3. Alone(s) /\ Attended
    BY <1>t, <1>1 DEF Calm, Alone
  <1>4. pc'[Main] = "idle" /\ pc'[Revoker] = "idle" /\ pc'[Stop] = pc[Stop]
    BY <1>t, <1>2, ThreadTypes, ThreadsDiffer DEF Calm
  <1>5. \A t \in Sessions : ~Watched(t)'
    <2>1. \A t \in Sessions : Monitor(t) # Start(s)
      BY ThreadsDiffer
    <2> QED
      BY <1>2, <1>3, <2>1, ThreadTypes DEF Alone, Watched
  <1>6. \A t \in Sessions : t # s => pc'[Start(t)] \in {"idle", "done"}
    <2>1. \A t \in Sessions : t # s => pc[Start(t)] \in {"idle", "done"} /\ Start(t) # Start(s)
      BY <1>t, <1>1, ThreadsDiffer DEF OneStart, Busy, Starting
    <2> QED
      BY <1>2, <2>1, ThreadTypes
  <1>7. ~stopping'
    BY <1>1, <1>3 DEF Alone
  <1>12. /\ "network" \in registered' => "network" \in known' /\ pc'[Start(s)] = "enable"
         /\ pc'[Start(s)] = "network" => "network" \in known'
         /\ "screen" \in registered' => "screen" \in known' \/ pc'[Start(s)] = "keepScreen"
    <2>1. /\ "network" \in registered => "network" \in known /\ pc[Start(s)] = "enable"
          /\ pc[Start(s)] = "network" => "network" \in known
          /\ "screen" \in registered => "screen" \in known \/ pc[Start(s)] = "keepScreen"
      BY <1>t, <1>1, <1>3 DEF Alone, Attended, OneStart, Busy, Starting
    <2>2. CASE Establish(s) \/ StartGcm(s) \/ StartNative(s) \/ Running(s)
      <3>1. /\ UNCHANGED <<registered, known>>
            /\ pc[Start(s)] \in {"establish", "startGcm", "startNative", "check"}
            /\ \E label \in Starting \ {"keepScreen", "network", "enable"} : Goto(Start(s), label)
        BY <2>2 DEF Establish, StartGcm, StartNative, Running, Starting, reconnectVars, callbackVars
      <3>2. pc'[Start(s)] \notin {"keepScreen", "network", "enable"}
        BY <1>t, <1>2, <3>1, GotoFacts
      <3> QED
        BY <2>1, <3>1, <3>2
    <2>3. CASE RegisterScreen(s)
      <3>1. /\ pc[Start(s)] = "screen" /\ UNCHANGED known
            /\ \/ registered' = registered \union {"screen"} /\ Goto(Start(s), "keepScreen")
               \/ registered' = registered /\ Goto(Start(s), "keepNetwork")
        BY <2>3 DEF RegisterScreen
      <3> QED
        BY <1>t, <1>2, <2>1, <3>1, GotoFacts
    <2>4. CASE KeepScreen(s) \/ KeepNetwork(s)
      <3>1. /\ UNCHANGED registered
            /\ \/ pc[Start(s)] = "keepScreen" /\ known' = known \union {"screen"} /\ Goto(Start(s), "keepNetwork")
               \/ pc[Start(s)] = "keepNetwork" /\ known' = known \union {"network"} /\ Goto(Start(s), "network")
        BY <2>4 DEF KeepScreen, KeepNetwork
      <3> QED
        BY <1>t, <1>2, <2>1, <3>1, GotoFacts
    <2>5. CASE RegisterNetwork(s)
      <3>1. /\ pc[Start(s)] = "network" /\ Goto(Start(s), "enable")
            /\ \/ registered' = registered \union {"network"} /\ known' = known
               \/ registered' = registered /\ known' = known \ {"network"}
        BY <2>5 DEF RegisterNetwork
      <3> QED
        BY <1>t, <1>2, <2>1, <3>1, GotoFacts
    <2> QED
      BY <2>2, <2>3, <2>4, <2>5
  <1>8. Attended'
    <2>1. ~At(Cleaning)'
      BY <1>2, <1>3 DEF Attended, At, Cleaning, Starting
    <2>2. \A t \in Sessions : ~(pc'[Start(t)] = "started" \/ Watched(t)')
      BY <1>2, <1>5, <1>6 DEF Starting
    <2> QED
      BY <1>1, <1>2, <1>3, <1>12, <2>1, <2>2 DEF Attended
  <1>9. Alone(s)'
    BY <1>1, <1>2, <1>3, <1>4, <1>5, <1>12 DEF Alone
  <1>10. Descriptors'
    <2>1. \A th \in Threads : pc'[th] # "closeFd"
      BY <1>2, <1>3 DEF Attended, At, Cleaning, Starting
    <2>2. CASE Establish(s)
      <3>1. fds = {} /\ tunFd' = s /\ fds' = {s} /\ s # NoSession
        BY <1>t, <1>3, <2>2, SessionAssumption DEF Establish, Alone, Calm, Descriptors
      <3> QED
        BY <2>1, <3>1 DEF Descriptors
    <2>3. CASE ~Establish(s)
      <3>1. UNCHANGED <<tunFd, fds>>
        BY <2>3 DEF StartGcm, StartNative, Running, RegisterScreen,
         KeepScreen, KeepNetwork, RegisterNetwork, fieldVars
      <3> QED
        BY <1>t, <2>1, <3>1 DEF Calm, Descriptors
    <2> QED
      BY <2>2, <2>3
  <1>11. \A t \in Sessions : pc'[Start(t)] \in Starting => Alone(t)'
    BY <1>6, <1>9 DEF Starting
  <1> QED
    BY <1>4, <1>7, <1>8, <1>10, <1>11 DEF Calm

\* From then on the user may stop, and the monitor takes over.
LEMMA EnableCalm ==
    ASSUME IInv, Calm, NEW s \in Sessions, Enable(s)
    PROVE  Calm'
  <1>t. FieldTypes /\ Calm /\ OneStart
    BY DEF IInv
  <1>1. /\ pc[Start(s)] = "enable" /\ Goto(Start(s), "started") /\ enable'
        /\ UNCHANGED <<grabbed, tunFd, fds, stopping, inbox, destroyDue, registered, known>>
    BY DEF Enable, fieldVars, reconnectVars, callbackVars, systemVars
  <1>2. /\ pc'[Start(s)] = "started" /\ Start(s) \in Threads
        /\ \A u \in Threads : u # Start(s) => pc'[u] = pc[u]
    BY <1>t, <1>1, GotoFacts, ThreadTypes
  <1>3. Alone(s) /\ Attended /\ ~stopping'
    BY <1>t, <1>1 DEF Calm, Alone, Starting
  <1>4. pc'[Main] = "idle" /\ pc'[Revoker] = "idle"
    BY <1>t, <1>2, ThreadTypes, ThreadsDiffer DEF Calm
  <1>5. \A t \in Sessions : pc'[Start(t)] \notin Starting
    <2>1. \A t \in Sessions : t # s => pc[Start(t)] \in {"idle", "done"} /\ Start(t) # Start(s)
      BY <1>t, <1>1, ThreadsDiffer DEF OneStart, Busy
    <2> QED
      BY <1>2, <2>1, ThreadTypes DEF Starting
  <1>6. Attended'
    <2>1. \A t \in Sessions : pc[Start(t)] # "keepScreen"
      BY <1>t, <1>1 DEF OneStart, Busy
    <2>2. ~At(Cleaning)'
      BY <1>2, <1>3 DEF Attended, At, Cleaning
    <2> QED
      BY <1>1, <1>2, <1>3, <2>1, <2>2 DEF Attended
  <1>7. Descriptors'
    BY <1>t, <1>1, <1>2 DEF Calm, Descriptors
  <1> QED
    BY <1>3, <1>4, <1>5, <1>6, <1>7 DEF Calm

LEMMA StartedCalm ==
    ASSUME IInv, Roles, Calm, NEW s \in Sessions, Started(s)
    PROVE  Calm'
  <1>t. FieldTypes /\ Calm /\ OneStart
    BY DEF IInv
  <1>1. /\ pc[Start(s)] = "started"
        /\ pc' = [pc EXCEPT ![Start(s)] = "done", ![Monitor(s)] = "watch"]
        /\ inbox' = Append(inbox, TRUE)
        /\ UNCHANGED <<grabbed, tunFd, fds, stopping, runtimeRunning, registered, known, events, enable,
                       destroyDue, native, parts>>
    BY DEF Started, goVars, systemVars, reconnectVars, callbackVars
  <1>2. /\ Start(s) \in Threads /\ Monitor(s) \in Threads /\ Start(s) # Monitor(s)
        /\ Monitor(s) \notin {Stop, Revoker, Main} /\ Start(s) \notin {Stop, Revoker, Main}
    BY ThreadTypes, ThreadsDiffer, RolesDiffer
  <1>3. /\ pc'[Start(s)] = "done" /\ pc'[Monitor(s)] = "watch"
        /\ \A u \in Threads : u # Start(s) /\ u # Monitor(s) => pc'[u] = pc[u]
    BY <1>t, <1>1, <1>2 DEF FieldTypes
  <1>4. pc'[Main] = "idle" /\ pc'[Revoker] = "idle" /\ pc'[Stop] = pc[Stop]
    BY <1>t, <1>2, <1>3, ThreadTypes DEF Calm
  <1>5. \A t \in Sessions : pc'[Start(t)] \in {"idle", "done"}
    <2>1. \A t \in Sessions : t # s => pc[Start(t)] \in {"idle", "done"} /\ Start(t) # Start(s)
      BY <1>t, <1>1, ThreadsDiffer DEF OneStart, Busy
    <2>2. \A t \in Sessions : Start(t) # Monitor(s)
      BY ThreadsDiffer
    <2> QED
      BY <1>3, <2>1, <2>2, ThreadTypes
  <1>6. \A th \in Threads : pc'[th] \in Cleaning <=> pc[th] \in Cleaning /\ th # Monitor(s)
    BY <1>1, <1>3 DEF Cleaning
  <1>7. Descriptors'
    BY <1>t, <1>1, <1>3 DEF Calm, Descriptors
  <1>8. CASE stopping
    <2>1. stopping' /\ Releasing
      BY <1>t, <1>1, <1>8 DEF Calm
    <2>2. pc[Monitor(s)] = "idle"
      BY <1>1 DEF Roles
    <2>3. \A th \in Threads : pc[th] \in Cleaning => pc'[th] = pc[th]
      BY <1>1, <1>3, <2>2 DEF Cleaning
    <2>4. Releasing'
      BY <1>1, <1>5, <2>1, <2>3, ReleasingKept DEF Starting
    <2> QED
      BY <1>4, <1>5, <1>7, <2>1, <2>4 DEF Calm, Starting
  <1>9. CASE ~stopping
    <2>1. ~stopping' /\ Attended
      BY <1>t, <1>1, <1>9 DEF Calm
    <2>2. ~At(Cleaning)'
      BY <1>3, <1>5, <2>1 DEF At, Attended, Cleaning
    <2>3. \A i \in DOMAIN inbox' : inbox'[i]
      BY <1>t, <1>1, <2>1 DEF Attended, FieldTypes
    <2>4. Watched(s)'
      BY <1>3 DEF Watched
    <2>5. (enable \/ pc[Stop] = "stopService")'
      BY <1>1, <1>4, <2>1 DEF Attended
    <2>7. \A t \in Sessions : pc[Start(t)] # "keepScreen"
      BY <1>t, <1>1 DEF OneStart, Busy
    <2>6. Attended'
      BY <1>1, <2>1, <2>2, <2>3, <2>4, <2>5, <2>7 DEF Attended
    <2> QED
      BY <1>4, <1>5, <1>7, <2>1, <2>6 DEF Calm, Starting
  <1> QED
    BY <1>8, <1>9

\* The monitor leaves only if somebody stops the session, or ends it itself.
LEMMA MonitorCalm ==
    ASSUME IInv, Calm, NEW s \in Sessions, Watch(s) \/ Wake(s)
    PROVE  Calm'
  <1>t. FieldTypes /\ Calm
    BY DEF IInv
  <1>1. /\ Watched(s) /\ Monitor(s) \in Threads
        /\ UNCHANGED <<grabbed, tunFd, runtimeRunning, fds, registered, known, events, enable, inbox,
                       destroyDue, native, parts>>
    BY ThreadTypes DEF Watched, Watch, Wake, fieldVars, reconnectVars, callbackVars, systemVars,
       uiVars, goVars
  <1>2. \A t \in Sessions : pc[Start(t)] \notin Starting
    BY <1>t, <1>1 DEF Calm, Alone
  <1>3. ASSUME NEW label, Goto(Monitor(s), label)
        PROVE  /\ pc'[Monitor(s)] = label
               /\ \A u \in Threads : u # Monitor(s) => pc'[u] = pc[u]
               /\ pc'[Main] = "idle" /\ pc'[Revoker] = "idle" /\ pc'[Stop] = pc[Stop]
               /\ \A t \in Sessions : pc'[Start(t)] = pc[Start(t)]
    BY <1>t, <1>1, <1>3, GotoFacts, ThreadTypes, ThreadsDiffer, RolesDiffer DEF Calm
  <1>4. CASE ~stopping /\ stopping'
    <2>1. Goto(Monitor(s), "unregister")
      BY <1>4 DEF Watch, Wake, FailStartup, fieldVars
    <2>4. registered \subseteq Receivers /\ registered \subseteq known
      BY <1>t, <1>2, <1>4 DEF Calm, Attended, FieldTypes, Receivers, Starting
    <2>5. \A t \in Sessions : pc'[Start(t)] \notin Starting
      BY <1>2, <1>3, <2>1
    <2>2. Releasing'
      BY <1>1, <1>3, <2>1, <2>4, <2>5, ReleasingBegins
    <2>3. Descriptors'
      BY <1>t, <1>1, <1>3, <2>1 DEF Calm, Descriptors
    <2> QED
      BY <1>2, <1>3, <1>4, <2>1, <2>2, <2>3 DEF Calm
  <1>5. CASE stopping' = stopping
    <2>1. PICK label \in {"asleep", "watch", "done"} :
             /\ Goto(Monitor(s), label)
             /\ label = "done" => stopping \/ ~enable
      BY <1>5 DEF Watch, Wake, Watching, FailStartup
    <2>2. /\ \A th \in Threads : pc'[th] \in Cleaning <=> pc[th] \in Cleaning
          /\ \A th \in Threads : pc'[th] \in Cleaning => pc'[th] = pc[th]
      BY <1>1, <1>3, <2>1 DEF Cleaning, Watched
    <2>3. Descriptors'
      BY <1>t, <1>1, <1>3, <2>1 DEF Calm, Descriptors
    <2>4. CASE stopping
      <3>1. Releasing'
        BY <1>t, <1>1, <1>2, <1>3, <2>1, <2>2, <2>4 DEF Calm, Releasing, At, Cleaning
      <3> QED
        BY <1>2, <1>3, <1>5, <2>1, <2>3, <2>4, <3>1 DEF Calm
    <2>5. CASE ~stopping
      <3>1. Attended /\ (enable \/ pc[Stop] = "stopService")
        BY <1>t, <1>1, <2>5 DEF Calm, Attended
      <3>2. (enable \/ pc[Stop] = "stopService")' /\ (Watched(s)' \/ (pc[Stop] = "stopService")')
        BY <1>1, <1>3, <2>1, <2>5, <3>1 DEF Watched
      <3>3. ~At(Cleaning)'
        BY <2>2, <3>1 DEF Attended, At
      <3>4. Attended'
        BY <1>1, <1>2, <3>1, <3>2, <3>3 DEF Attended, Starting
      <3> QED
        BY <1>2, <1>3, <1>5, <2>1, <2>3, <2>5, <3>4 DEF Calm
    <2> QED
      BY <2>4, <2>5, <1>t DEF FieldTypes
  <1>6. UNCHANGED stopping \/ (~stopping /\ stopping')
    <2>1. CASE Watch(s)
      BY <2>1 DEF Watch, fieldVars
    <2>2. CASE Wake(s)
      <3>1. CASE ~stopping /\ ~native
        BY <2>2, <3>1 DEF Wake, FailStartup
      <3>2. CASE ~(~stopping /\ ~native)
        BY <2>2, <3>2 DEF Wake
      <3> QED
        BY <3>1, <3>2
    <2> QED
      BY <2>1, <2>2
  <1> QED
    BY <1>4, <1>5, <1>6

\* What remains when nothing is going on any more.
LEMMA QuietReleased ==
    ASSUME FieldTypes, Calm, Ended
    PROVE  Released
  <1>1. \A th \in Threads : pc[th] \in {"idle", "done"}
    BY DEF Ended
  <1>2. CASE stopping
    <2>1. Releasing
      BY <1>2 DEF Calm
    <2>2. ~runtimeRunning /\ ~native /\ parts = {} /\ tunFd = NoSession
      BY <1>1, <2>1 DEF Releasing, At, Cleaning
    <2>3. "screen" \notin registered /\ "network" \notin registered
      BY <1>1, <2>1 DEF Releasing, At, Cleaning
    <2>4. registered = {}
      BY <2>3 DEF FieldTypes, Receivers
    <2> QED
      BY <2>2, <2>4 DEF Calm, Descriptors, Released
  <1>3. CASE ~stopping
    <2>1. /\ pc[Stop] # "stopService"
          /\ \A s \in Sessions : pc[Start(s)] \notin Starting \union {"started"} /\ ~Watched(s)
      BY <1>1, ThreadTypes DEF Starting, Watched
    <2> QED
      BY <1>3, <2>1 DEF Calm, Attended
  <1> QED
    BY <1>2, <1>3

LEMMA StartCommandCalm ==
    ASSUME IInv, Calm, NEW s \in Sessions, StartCommand(s)
    PROVE  Calm'
  <1>t. FieldTypes /\ Calm
    BY DEF IInv
  <1>1. /\ Ended /\ ~enable /\ Goto(Start(s), "establish")
        /\ ~stopping' /\ tunFd' = NoSession /\ registered' = {} /\ known' = {}
        /\ UNCHANGED <<grabbed, fds, destroyDue, enable, inbox>>
    BY DEF StartCommand, uiVars
  <1>2. /\ fds = {} /\ ~destroyDue /\ inbox = <<>>
        /\ \A th \in Threads : pc[th] \in {"idle", "done"}
    BY <1>t, <1>1, QuietReleased DEF Released, Ended
  <1>3. /\ pc'[Start(s)] = "establish" /\ Start(s) \in Threads
        /\ \A u \in Threads : u # Start(s) => pc'[u] \in {"idle", "done"}
    BY <1>t, <1>1, <1>2, GotoFacts, ThreadTypes
  <1>4. pc'[Main] = "idle" /\ pc'[Revoker] = "idle" /\ pc'[Stop] \in {"idle", "done"}
    <2>1. pc'[Main] = pc[Main] /\ pc'[Revoker] = pc[Revoker]
      BY <1>t, <1>1, <1>3, GotoFacts, ThreadTypes, ThreadsDiffer
    <2> QED
      BY <1>3, <2>1, ThreadTypes, ThreadsDiffer DEF Calm
  <1>5. \A t \in Sessions : ~Watched(t)' /\ (t # s => pc'[Start(t)] \in {"idle", "done"})
    BY <1>3, ThreadTypes, ThreadsDiffer DEF Watched
  <1>6. ~At(Cleaning)'
    BY <1>3 DEF At, Cleaning
  <1>7. Attended'
    BY <1>1, <1>2, <1>3, <1>5, <1>6 DEF Attended, Starting
  <1>8. \A t \in Sessions : pc'[Start(t)] \in Starting => Alone(t)'
    BY <1>1, <1>2, <1>3, <1>4, <1>5 DEF Alone, Starting
  <1>9. Descriptors'
    BY <1>1, <1>2, <1>3 DEF Descriptors
  <1> QED
    BY <1>1, <1>4, <1>7, <1>8, <1>9 DEF Calm

\* A stop while a start thread is at work finds it past its last step.
LEMMA StopCommandCalm ==
    ASSUME IInv, Calm, StopCommand
    PROVE  Calm'
  <1>t. FieldTypes /\ Calm
    BY DEF IInv
  <1>1. /\ enable /\ pc[Stop] = "idle" /\ Goto(Stop, "stopService")
        /\ UNCHANGED <<grabbed, tunFd, stopping, runtimeRunning, fds, registered, known, events, inbox,
                       destroyDue, native, parts>>
    BY DEF StopCommand, fieldVars, reconnectVars, callbackVars, systemVars, goVars
  <1>2. /\ pc'[Stop] = "stopService"
        /\ \A u \in Threads : u # Stop => pc'[u] = pc[u]
    BY <1>t, <1>1, GotoFacts, ThreadTypes
  <1>3. pc'[Main] = "idle" /\ pc'[Revoker] = "idle"
    BY <1>t, <1>2, ThreadTypes, RolesDiffer DEF Calm
  <1>4. \A t \in Sessions : pc'[Start(t)] \notin Starting /\ pc'[Start(t)] = pc[Start(t)]
    BY <1>t, <1>1, <1>2, ThreadTypes, ThreadsDiffer DEF Calm, Alone
  <1>5. \A th \in Threads : pc[th] \in Cleaning \/ pc'[th] \in Cleaning => pc'[th] = pc[th]
    BY <1>1, <1>2 DEF Cleaning
  <1>6. stopping => Releasing'
    BY <1>t, <1>1, <1>4, <1>5 DEF Calm, Releasing, At, Cleaning
  <1>7. ~stopping => Attended'
    <2>1. ~stopping => ~At(Cleaning)'
      BY <1>t, <1>5 DEF Calm, Attended, At
    <2> QED
      BY <1>t, <1>1, <1>2, <1>4, <2>1 DEF Calm, Attended
  <1>8. Descriptors'
    BY <1>t, <1>1, <1>2 DEF Calm, Descriptors
  <1> QED
    BY <1>1, <1>3, <1>4, <1>6, <1>7, <1>8 DEF Calm

\* It takes over everything the session has.
LEMMA StopServiceCalm ==
    ASSUME IInv, Roles, Calm, NEW th \in Threads, StopService(th)
    PROVE  Calm'
  <1>t. FieldTypes /\ Calm
    BY DEF IInv
  <1>1. /\ pc[th] = "stopService" /\ stopping'
        /\ Goto(th, IF stopping THEN "idle" ELSE "unregister")
        /\ UNCHANGED <<grabbed, tunFd, runtimeRunning, fds, registered, known, events, native, parts>>
    BY DEF StopService, reconnectVars, callbackVars, goVars
  <1>2. th = Stop
    BY <1>t, <1>1, EveryThread DEF Calm, Roles
  <1>3. /\ pc'[Stop] = IF stopping THEN "idle" ELSE "unregister"
        /\ \A u \in Threads : u # Stop => pc'[u] = pc[u]
    BY <1>t, <1>1, <1>2, GotoFacts
  <1>4. pc'[Main] = "idle" /\ pc'[Revoker] = "idle"
    BY <1>t, <1>3, ThreadTypes, RolesDiffer DEF Calm
  <1>5. \A t \in Sessions : pc'[Start(t)] \notin Starting
    <2>1. \A t \in Sessions : pc[Start(t)] \notin Starting
      BY <1>t, <1>1, <1>2 DEF Calm, Alone
    <2> QED
      BY <1>3, <2>1, ThreadTypes, ThreadsDiffer
  <1>6. Releasing'
    <2>1. CASE stopping
      <3>1. \A u \in Threads : pc[u] \in Cleaning => pc'[u] = pc[u]
        BY <1>1, <1>2, <1>3 DEF Cleaning
      <3> QED
        BY <1>t, <1>1, <1>5, <2>1, <3>1 DEF Calm, Releasing, At, Cleaning
    <2>2. CASE ~stopping
      <3>1. \A t \in Sessions : pc[Start(t)] \notin Starting
        BY <1>t, <1>1, <1>2 DEF Calm, Alone
      <3>2. registered \subseteq Receivers /\ registered \subseteq known
        BY <1>t, <2>2, <3>1 DEF Calm, Attended, FieldTypes, Receivers, Starting
      <3> QED
        BY <1>1, <1>3, <1>5, <2>2, <3>2, ThreadTypes, ReleasingBegins
    <2> QED
      BY <2>1, <2>2
  <1>7. Descriptors'
    BY <1>t, <1>1, <1>2, <1>3 DEF Calm, Descriptors
  <1> QED
    BY <1>1, <1>4, <1>5, <1>6, <1>7 DEF Calm

\* onDestroy comes after a thread that has set stopping, and leaves it alone.
LEMMA OnDestroyCalm ==
    ASSUME IInv, Calm, OnDestroy
    PROVE  Calm'
  <1>1. stopping /\ Releasing
    BY DEF OnDestroy, Calm, Attended
  <1>2. UNCHANGED <<pc, grabbed, tunFd, stopping, runtimeRunning, fds, registered, known, events,
                    enable, inbox,
                    native, parts>>
    BY <1>1 DEF OnDestroy, fieldVars, reconnectVars, callbackVars, uiVars, goVars
  <1>3. Releasing'
    BY <1>1, <1>2 DEF Releasing, At, Cleaning
  <1> QED
    BY <1>1, <1>2, <1>3 DEF Calm, Releasing, Descriptors

\* A broadcast repeats what the preference says already.
LEMMA DeliverCalm ==
    ASSUME IInv, Calm, Deliver
    PROVE  Calm'
  <1>1. /\ inbox \in Seq(BOOLEAN) /\ inbox # <<>> /\ inbox' = Tail(inbox) /\ enable' = Head(inbox)
        /\ UNCHANGED <<pc, grabbed, tunFd, stopping, runtimeRunning, fds, registered, known, events,
                       destroyDue,
                       native, parts>>
    BY DEF IInv, FieldTypes, Deliver, fieldVars, reconnectVars, callbackVars, systemVars, goVars
  <1>2. \A s \in Sessions : pc'[Start(s)] \notin Starting
    BY <1>1 DEF Calm, Alone
  <1>3. stopping => Releasing'
    BY <1>1 DEF Calm, Releasing, At, Cleaning
  <1>4. ASSUME ~stopping
        PROVE  Attended'
    <2>1. Attended
      BY <1>4 DEF Calm
    <2>2. enable' /\ \A i \in DOMAIN inbox' : inbox'[i]
      BY <1>1, <2>1 DEF Attended
    <2> QED
      BY <1>1, <2>1, <2>2 DEF Attended, At, Released, Watched
  <1> QED
    BY <1>1, <1>2, <1>3, <1>4 DEF Calm, Descriptors

LEMMA EventCalm ==
    ASSUME IInv, Calm,
           \/ NativeDies \/ Reconnect \/ UNCHANGED vars
           \/ \E x \in Receivers : Event(x) \/ ScheduleReconnect(x)
    PROVE  Calm'
  <1>1. /\ UNCHANGED <<pc, grabbed, tunFd, stopping, runtimeRunning, fds, registered, known, destroyDue,
                       enable, inbox, parts>>
        /\ native' => native
    <2>1. CASE NativeDies
      BY <2>1 DEF NativeDies, fieldVars, reconnectVars, callbackVars, systemVars, uiVars, goVars
    <2>2. CASE Reconnect \/ \E x \in Receivers : Event(x) \/ ScheduleReconnect(x)
      BY <2>2 DEF Event, ScheduleReconnect, Reconnect, fieldVars, callbackVars, systemVars, uiVars, goVars
    <2>3. CASE UNCHANGED vars
      BY <2>3 DEF vars, fieldVars, reconnectVars, callbackVars, systemVars, uiVars, goVars
    <2> QED
      BY <2>1, <2>2, <2>3
  <1>2. stopping => Releasing'
    BY <1>1 DEF Calm, Releasing, At, Cleaning
  <1>3. ~stopping => Attended'
    BY <1>1 DEF Calm, Attended, At, Released, Watched
  <1> QED
    BY <1>1, <1>2, <1>3 DEF Calm, Descriptors, Alone, Watched

\* One thread goes to a label at which it will not clear the flag.
LEMMA NapsKept ==
    ASSUME FieldTypes, Naps, UNCHANGED <<naps, pending>>, runtimeRunning' => runtimeRunning,
           \A th \in Threads : pc'[th] \in Cleaning \ {"unregister"} => pc'[th] = pc[th]
    PROVE  Naps'
  <1>1. runtimeRunning' => ~At(Cleaning \ {"unregister"})'
    BY DEF Naps, At
  <1> QED
    BY <1>1 DEF Naps

LEMMA NapsStep ==
    ASSUME IInv, Calm, Naps, [Next]_vars
    PROVE  Naps'
  <1>t. FieldTypes /\ EarlyQuiet
    BY DEF IInv
  <1>1. ASSUME NEW th \in Threads, CleanupStep(th)
        PROVE  Naps'
    <2>1. ~runtimeRunning'
      <3>1. CASE Unregister(th)
        BY <3>1 DEF Unregister
      <3>2. CASE CleanupStep(th) /\ ~Unregister(th)
        <4>1. pc[th] \in Cleaning \ {"unregister"} /\ UNCHANGED runtimeRunning
          BY <3>2 DEF CleanupStep, DropScreen, RemoveScreen, DropNetwork, RemoveNetwork, StopNative,
             StopGo, ReadFd, CloseFd, Report, fieldVars, Cleaning
        <4> QED
          BY <4>1 DEF Naps, At
      <3> QED
        BY <1>1, <3>1, <3>2
    <2>2. UNCHANGED naps
      BY <1>1 DEF CleanupStep, Unregister, DropScreen, RemoveScreen, DropNetwork, RemoveNetwork,
         StopNative, StopGo, ReadFd, CloseFd, Report, reconnectVars
    <2> QED
      BY <2>1, <2>2 DEF Naps
  <1>2. ASSUME NEW th \in Threads, NEW label, Goto(th, label), label \notin Cleaning \ {"unregister"},
               UNCHANGED <<naps, pending, runtimeRunning>>
        PROVE  Naps'
    <2>1. pc'[th] = label /\ \A u \in Threads : u # th => pc'[u] = pc[u]
      BY <1>t, <1>2, GotoFacts
    <2> QED
      BY <1>t, <1>2, <2>1, NapsKept
  <1>3. ASSUME NEW s \in Sessions, StartStep(s), ~Running(s), ~Started(s)
        PROVE  Naps'
    <2>1. PICK label \in Starting \union {"unregister", "started"} : Goto(Start(s), label)
      BY <1>3 DEF StartStep, StartFails, FailStartup, Establish, StartGcm, StartNative,
         RegisterScreen, KeepScreen, KeepNetwork, RegisterNetwork, Enable, Starting
    <2>2. UNCHANGED <<naps, pending, runtimeRunning>>
      BY <1>3 DEF StartStep, StartFails, Establish, StartGcm, StartNative,
         RegisterScreen, KeepScreen, KeepNetwork, RegisterNetwork, Enable, fieldVars, reconnectVars
    <2>3. label \notin Cleaning \ {"unregister"} /\ Start(s) \in Threads
      BY ThreadTypes DEF Cleaning, Starting
    <2> QED
      BY <1>2, <2>1, <2>2, <2>3
  <1>4. ASSUME NEW s \in Sessions, Running(s)
        PROVE  Naps'
    <2>1. naps = 0
      BY <1>t, <1>4 DEF EarlyQuiet, Early, Running
    <2>2. Attended
      BY <1>4 DEF Running, Calm, Alone, Starting
    <2>3. pc' = [pc EXCEPT ![Start(s)] = "screen"] /\ UNCHANGED naps
      BY <1>4 DEF Running, Goto, reconnectVars
    <2>4. ~At(Cleaning)'
      BY <1>t, <2>2, <2>3 DEF Attended, At, Cleaning, FieldTypes
    <2>5. ~At(Cleaning \ {"unregister"})'
      BY <2>4 DEF At
    <2> QED
      BY <2>1, <2>3, <2>5 DEF Naps
  <1>5. ASSUME NEW s \in Sessions, Started(s)
        PROVE  Naps'
    <2>1. /\ pc' = [pc EXCEPT ![Start(s)] = "done", ![Monitor(s)] = "watch"]
          /\ UNCHANGED <<naps, pending, runtimeRunning>>
      BY <1>5 DEF Started, reconnectVars
    <2>2. \A th \in Threads : pc'[th] = pc[th] \/ pc'[th] \in {"done", "watch"}
      BY <1>t, <2>1 DEF FieldTypes
    <2>3. \A th \in Threads : pc'[th] \in Cleaning \ {"unregister"} => pc'[th] = pc[th]
      BY <2>2 DEF Cleaning
    <2> QED
      BY <1>t, <2>1, <2>3, NapsKept
  <1>6. ASSUME NEW s \in Sessions, Watch(s) \/ Wake(s)
        PROVE  Naps'
    <2>1. PICK label \in {"asleep", "done", "watch", "unregister"} : Goto(Monitor(s), label)
      BY <1>6 DEF Watch, Wake, FailStartup
    <2>2. UNCHANGED <<naps, pending, runtimeRunning>>
      BY <1>6 DEF Watch, Wake, fieldVars, reconnectVars
    <2>3. label \notin Cleaning \ {"unregister"} /\ Monitor(s) \in Threads
      BY ThreadTypes DEF Cleaning
    <2> QED
      BY <1>2, <2>1, <2>2, <2>3
  <1>7. ASSUME NEW s \in Sessions, StartCommand(s)
        PROVE  Naps'
    BY <1>7 DEF StartCommand, Ended, Naps
  <1>8. ASSUME NEW th \in Threads, StopService(th)
        PROVE  Naps'
    <2>1. PICK label \in {"idle", "unregister"} : Goto(th, label)
      BY <1>8 DEF StopService
    <2>2. UNCHANGED <<naps, pending, runtimeRunning>>
      BY <1>8 DEF StopService, reconnectVars
    <2>3. label \notin Cleaning \ {"unregister"}
      BY DEF Cleaning
    <2> QED
      BY <1>2, <2>1, <2>2, <2>3
  <1>9. CASE StopCommand \/ Revoke \/ OnDestroy
    <2>1. \/ UNCHANGED pc
          \/ \E th \in {Stop, Revoker, Main}, label \in {"stopService", "unregister"} : Goto(th, label)
      BY <1>9 DEF StopCommand, Revoke, OnDestroy
    <2>2. UNCHANGED <<naps, pending, runtimeRunning>>
      BY <1>9 DEF StopCommand, Revoke, OnDestroy, fieldVars, reconnectVars
    <2>3. CASE UNCHANGED pc
      BY <1>t, <2>2, <2>3, NapsKept
    <2>4. ASSUME NEW th \in {Stop, Revoker, Main}, NEW label \in {"stopService", "unregister"}, Goto(th, label)
          PROVE  Naps'
      <3>1. th \in Threads /\ label \notin Cleaning \ {"unregister"}
        BY ThreadTypes DEF Cleaning
      <3> QED
        BY <1>2, <2>2, <2>4, <3>1
    <2> QED
      BY <2>1, <2>3, <2>4
  <1>10. ASSUME UNCHANGED <<pc, naps, pending, runtimeRunning>>
         PROVE  Naps'
    BY <1>t, <1>10, NapsKept
  <1>11. CASE \/ SystemDestroys \/ Deliver \/ NativeDies \/ UNCHANGED vars
              \/ \E x \in Receivers : Event(x)
    <2>1. UNCHANGED <<pc, naps, pending, runtimeRunning>>
      BY <1>11 DEF SystemDestroys, Deliver, NativeDies, vars, Event, fieldVars, reconnectVars
    <2> QED
      BY <1>10, <2>1
  <1>12. ASSUME NEW x \in Receivers, ScheduleReconnect(x)
         PROVE  Naps'
    <2>0. UNCHANGED <<pc, runtimeRunning>>
      BY <1>12 DEF ScheduleReconnect, fieldVars
    <2>1. CASE MaySchedule
      <3>1. runtimeRunning /\ ~pending /\ pending' /\ naps' = naps + 1
        BY <1>12, <2>1 DEF ScheduleReconnect, MaySchedule
      <3>2. ~(naps > 0)
        BY <3>1 DEF Naps
      <3>3. naps' <= 1
        BY <1>t, <3>1, <3>2 DEF FieldTypes
      <3>4. runtimeRunning' => ~At(Cleaning \ {"unregister"})'
        BY <2>0 DEF Naps, At
      <3> QED
        BY <3>1, <3>3, <3>4 DEF Naps
    <2>2. CASE ~MaySchedule
      <3>1. UNCHANGED <<naps, pending>>
        BY <1>t, <1>12, <2>2 DEF ScheduleReconnect, FieldTypes
      <3> QED
        BY <1>10, <2>0, <3>1
    <2> QED
      BY <2>1, <2>2
  <1>13. CASE Reconnect
    <2>1. naps > 0 /\ naps' = naps - 1 /\ UNCHANGED <<pc, runtimeRunning>>
      BY <1>13 DEF Reconnect, fieldVars
    <2>2. naps' = 0
      BY <1>t, <2>1 DEF Naps, FieldTypes
    <2>3. runtimeRunning' => ~At(Cleaning \ {"unregister"})'
      BY <2>1 DEF Naps, At
    <2>4. naps' <= 1 /\ ~(naps' > 0)
      BY <2>2
    <2> QED
      BY <2>3, <2>4 DEF Naps
  <1> QED
    BY <1>1, <1>3, <1>4, <1>5, <1>6, <1>7, <1>8, <1>9, <1>11, <1>12, <1>13 DEF Next

\* A thread that has begun goes on, or another one than a monitor begins.
LEMMA RolesKept ==
    ASSUME FieldTypes, Roles, NEW th \in Threads, NEW label, Goto(th, label),
           pc[th] # "done",
           pc[th] # "idle" \/ \A s \in Sessions : th # Monitor(s),
           label # "stopService" \/ th = Stop \/ th = Revoker
    PROVE  Roles'
  <1>1. pc'[th] = label /\ \A u \in Threads : u # th => pc'[u] = pc[u]
    BY GotoFacts
  <1> QED
    BY <1>1, ThreadTypes, ThreadsDiffer, RolesDiffer DEF Roles

LEMMA RolesStep ==
    ASSUME IInv, Roles, [Next]_vars
    PROVE  Roles'
  <1>t. FieldTypes
    BY DEF IInv
  <1>1. ASSUME NEW th \in Threads, CleanupStep(th) \/ StopService(th)
        PROVE  Roles'
    <2>1. PICK label : Goto(th, label) /\ label # "stopService"
      <3>1. CASE Report(th)
        <4> DEFINE next == IF th[1] \in {"start", "monitor"} THEN "done" ELSE "idle"
        <4>1. Goto(th, next) /\ next # "stopService"
          BY <3>1 DEF Report
        <4> QED
          BY <4>1
      <3>2. CASE StopService(th)
        BY <3>2 DEF StopService
      <3>3. CASE ~Report(th) /\ ~StopService(th)
        BY <1>1, <3>3 DEF CleanupStep, Unregister, DropScreen, RemoveScreen, DropNetwork, RemoveNetwork,
         StopNative, StopGo, ReadFd, CloseFd
      <3> QED
        BY <3>1, <3>2, <3>3
    <2>2. pc[th] \notin {"idle", "done"}
      BY <1>1 DEF CleanupStep, Unregister, DropScreen, RemoveScreen, DropNetwork, RemoveNetwork,
         StopNative, StopGo, ReadFd, CloseFd, Report, StopService
    <2> QED
      BY <1>t, <2>1, <2>2, RolesKept
  <1>2. ASSUME NEW s \in Sessions, StartStep(s) \/ StartCommand(s), ~Started(s)
        PROVE  Roles'
    <2>1. PICK label : Goto(Start(s), label) /\ label # "stopService"
      BY <1>2 DEF StartStep, StartFails, FailStartup, Establish, StartGcm, StartNative, Running,
         RegisterScreen, KeepScreen, KeepNetwork, RegisterNetwork, Enable, StartCommand
    <2>2. pc[Start(s)] # "done"
      BY <1>2 DEF StartStep, StartFails, FailStartup, Establish, StartGcm, StartNative, Running,
         RegisterScreen, KeepScreen, KeepNetwork, RegisterNetwork, Enable, StartCommand
    <2> QED
      BY <1>t, <2>1, <2>2, RolesKept, ThreadTypes, ThreadsDiffer
  <1>3. ASSUME NEW s \in Sessions, Started(s)
        PROVE  Roles'
    <2>1. pc' = [pc EXCEPT ![Start(s)] = "done", ![Monitor(s)] = "watch"]
      BY <1>3 DEF Started
    <2>2. /\ pc'[Start(s)] = "done" /\ pc'[Monitor(s)] = "watch"
          /\ \A u \in Threads : u # Start(s) /\ u # Monitor(s) => pc'[u] = pc[u]
      BY <1>t, <2>1, ThreadTypes, ThreadsDiffer DEF FieldTypes
    <2> QED
      BY <2>2, ThreadTypes, ThreadsDiffer, RolesDiffer DEF Roles
  <1>4. ASSUME NEW s \in Sessions, Watch(s) \/ Wake(s)
        PROVE  Roles'
    <2>1. PICK label : Goto(Monitor(s), label) /\ label # "stopService"
      BY <1>4 DEF Watch, Wake, FailStartup
    <2>2. pc[Monitor(s)] \notin {"idle", "done"}
      BY <1>4 DEF Watch, Wake
    <2> QED
      BY <1>t, <2>1, <2>2, RolesKept, ThreadTypes
  <1>5. CASE StopCommand \/ Revoke
    <2>1. PICK th \in {Stop, Revoker} : pc[th] = "idle" /\ Goto(th, "stopService")
      BY <1>5 DEF StopCommand, Revoke
    <2> QED
      BY <1>t, <2>1, RolesKept, ThreadTypes, RolesDiffer
  <1>6. CASE OnDestroy
    <2>1. UNCHANGED pc \/ (pc[Main] = "idle" /\ Goto(Main, "unregister"))
      BY <1>6 DEF OnDestroy, MainFree
    <2> QED
      BY <1>t, <2>1, RolesKept, ThreadTypes, RolesDiffer DEF Roles
  <1>7. CASE \/ SystemDestroys \/ Deliver \/ Reconnect \/ NativeDies \/ UNCHANGED vars
             \/ \E x \in Receivers : Event(x) \/ ScheduleReconnect(x)
    BY <1>7 DEF SystemDestroys, Deliver, Event, ScheduleReconnect, Reconnect, NativeDies, vars, Roles
  <1> QED
    BY <1>1, <1>2, <1>3, <1>4, <1>5, <1>6, <1>7 DEF Next, StartStep

LEMMA CalmInit == Init => Roles /\ CalmInv
  <1> SUFFICES ASSUME Init
               PROVE  Roles /\ CalmInv
    OBVIOUS
  <1>1. \A th \in Threads : pc[th] = "idle"
    BY DEF Init
  <1>2. Roles
    BY <1>1, ThreadTypes DEF Roles
  <1>3. Released /\ Descriptors
    BY <1>1 DEF Init, Released, Descriptors
  <1>4. ~At(Cleaning) /\ ~destroyDue /\ inbox = <<>>
    BY <1>1 DEF Init, At, Cleaning
  <1>5. \A s \in Sessions : pc[Start(s)] \notin Starting \union {"started"} /\ ~Watched(s)
    BY <1>1, ThreadTypes DEF Starting, Watched
  <1>6. Attended
    BY <1>3, <1>4, <1>5 DEF Attended, Released
  <1>7. Naps
    BY <1>4 DEF Init, Naps
  <1> QED
    BY <1>1, <1>2, <1>3, <1>5, <1>6, <1>7, ThreadTypes DEF CalmInv, Calm, Init

LEMMA CalmStep ==
    ASSUME IInv, Roles, CalmInv, [Next]_vars
    PROVE  CalmInv'
  <1>1. CASE interrupted
    <2>1. interrupted'
      BY <1>1 DEF Next, vars, CleanupStep, Unregister, DropScreen, RemoveScreen, DropNetwork,
         RemoveNetwork,
         StopNative, StopGo, ReadFd, CloseFd, Report,
         StopService, StartStep, StartFails, Establish, StartGcm, StartNative, Running, RegisterScreen,
         KeepScreen, KeepNetwork, RegisterNetwork,
         Enable, Started, Watch, Wake, StartCommand, StopCommand, Revoke, SystemDestroys, OnDestroy,
         Deliver, Event, ScheduleReconnect, Reconnect, NativeDies, systemVars
    <2> QED
      BY <1>1, <2>1 DEF CalmInv
  <1>2. CASE Revoke \/ SystemDestroys
    BY <1>2 DEF Revoke, SystemDestroys, CalmInv
  <1>3. CASE ~interrupted /\ ~(Revoke \/ SystemDestroys)
    <2>1. Calm
      BY <1>3 DEF CalmInv
    <2>2. interrupted' = interrupted
      BY <1>3 DEF Next, vars, CleanupStep, Unregister, DropScreen, RemoveScreen, DropNetwork,
         RemoveNetwork,
         StopNative, StopGo, ReadFd, CloseFd, Report,
         StopService, StartStep, StartFails, Establish, StartGcm, StartNative, Running, RegisterScreen,
         KeepScreen, KeepNetwork, RegisterNetwork,
         Enable, Started, Watch, Wake, StartCommand, StopCommand, OnDestroy,
         Deliver, Event, ScheduleReconnect, Reconnect, NativeDies, systemVars
    <2>3. ASSUME NEW th \in Threads, CleanupStep(th) \/ StopService(th)
          PROVE  Calm'
      BY <2>1, <2>3, CleanupCalm, StopServiceCalm
    <2>4. ASSUME NEW s \in Sessions, StartStep(s) \/ Watch(s) \/ Wake(s) \/ StartCommand(s)
          PROVE  Calm'
      BY <2>1, <2>4, FailCalm, AcquireCalm, EnableCalm, StartedCalm, MonitorCalm, StartCommandCalm
         DEF StartStep
    <2>5. ASSUME StopCommand \/ OnDestroy \/ Deliver
          PROVE  Calm'
      BY <2>1, <2>5, StopCommandCalm, OnDestroyCalm, DeliverCalm
    <2>6. ASSUME \/ NativeDies \/ Reconnect \/ UNCHANGED vars
                 \/ \E x \in Receivers : Event(x) \/ ScheduleReconnect(x)
          PROVE  Calm'
      BY <2>1, <2>6, EventCalm
    <2>7. Calm'
      BY <1>3, <2>3, <2>4, <2>5, <2>6 DEF Next
    <2>8. Naps'
      BY <1>3, <2>1, NapsStep DEF CalmInv
    <2> QED
      BY <1>3, <2>2, <2>7, <2>8 DEF CalmInv
  <1> QED
    BY <1>1, <1>2, <1>3
-----------------------------------------------------------------------------
(* The specification *)

\* Every step keeps the invariant.
THEOREM Invariance == Spec => []IInv
  <1>1. Init => IInv
    BY InitInvariant
  <1>2. IInv /\ [Next]_vars => IInv'
    <2> SUFFICES ASSUME IInv, [Next]_vars
                 PROVE  IInv'
      OBVIOUS
    <2>1. ASSUME NEW th \in Threads, CleanupStep(th) \/ StopService(th)
          PROVE  IInv'
      BY <2>1, UnregisterStep, DropStep, StopNativeStep, StopGoStep, ReadFdStep, CloseFdStep, ReportStep,
         StopServiceStep DEF CleanupStep
    <2>2. ASSUME NEW s \in Sessions, StartStep(s) \/ Watch(s) \/ Wake(s) \/ StartCommand(s)
          PROVE  IInv'
      BY <2>2, StartFailsStep, EstablishStep, StartGcmStep, StartNativeStep, RunningStep, RegisterStep,
         EnableStep, StartedStep, WatchStep, WakeStep, StartCommandStep DEF StartStep
    <2>3. CASE StopCommand \/ Revoke \/ OnDestroy
      BY <2>3, BeginStep
    <2>4. CASE SystemDestroys \/ Deliver \/ NativeDies
      BY <2>4, EventStep
    <2>5. CASE Reconnect \/ \E x \in Receivers : Event(x) \/ ScheduleReconnect(x)
      BY <2>5, CallbackStep, ReconnectStep
    <2>6. CASE UNCHANGED vars
      <3>1. UNCHANGED <<pc, grabbed, tunFd, starting, stopping, runtimeRunning, fds, registered, known,
                        events, pending, naps,
                        alive, destroyDue, interrupted, enable, inbox, native, proxy, parts>>
        BY <2>6 DEF vars, fieldVars, reconnectVars, callbackVars, systemVars, uiVars, goVars
      <3> QED
        BY <3>1 DEF IInv, FieldTypes, OneStart, EarlyQuiet, PendingHasThread, AllOrNothing, Busy, Early
    <2> QED
      BY <2>1, <2>2, <2>3, <2>4, <2>5, <2>6 DEF Next
  <1> QED
    BY <1>1, <1>2, PTL DEF Spec

\* StartSocksProxy and StopSocksProxy start and stop all or nothing, whichever
\* threads call them in whichever order, and whichever step fails.
THEOREM GoAllOrNothing == Spec => []AllOrNothing
  <1>1. IInv => AllOrNothing
    BY DEF IInv
  <1> QED
    BY <1>1, Invariance, PTL

\* networkReconnectPending never blocks later reconnects: a thread will reset it.
THEOREM PendingServed == Spec => []PendingHasThread
  <1>1. IInv => PendingHasThread
    BY DEF IInv
  <1> QED
    BY <1>1, Invariance, PTL

LEMMA CalmInvariance == Spec => [](IInv /\ Roles /\ CalmInv)
  <1>1. Init => Roles /\ CalmInv
    BY CalmInit
  <1>2. IInv /\ Roles /\ CalmInv /\ [Next]_vars => Roles' /\ CalmInv'
    BY RolesStep, CalmStep
  <1> QED
    BY <1>1, <1>2, Invariance, PTL DEF Spec

\* Every variable of TProxyService has its type, and unless the system intervenes
\* two reconnect threads never sleep at a time, although a cleanup clears
\* networkReconnectPending while one sleeps and receivers still come to
\* scheduleReconnect after they were unregistered.
THEOREM TypeCorrect == Spec => []TypeOK
  <1>1. IInv /\ CalmInv => TypeOK
    <2> SUFFICES ASSUME IInv, CalmInv
                 PROVE  TypeOK
      OBVIOUS
    <2>1. naps \in Nat /\ (naps > 1 => interrupted)
      BY DEF IInv, FieldTypes, CalmInv, Naps
    <2> QED
      BY <2>1 DEF IInv, FieldTypes, Labels, TypeOK
  <1> QED
    BY <1>1, CalmInvariance, PTL

\* From the moment stopping is set, by the stop thread, a failing start or the monitor,
\* no start thread acquires anything more, and each thing the session still has is
\* ahead of a thread in cleanupRuntime, unless the system intervenes.
THEOREM StopIsReleasing == Spec => [](stopping /\ ~interrupted => Releasing)
  <1>1. CalmInv => (stopping /\ ~interrupted => Releasing)
    BY DEF CalmInv, Calm
  <1> QED
    BY <1>1, CalmInvariance, PTL

\* Unless the system intervenes, whatever fails, whenever the user stops and however
\* many threads clean up at once: when nothing is going on any more, the native
\* tunnel, the proxy, the TUN descriptor and the callbacks are gone.
THEOREM EndedReleased == Spec => []EndedIsReleased
  <1>1. IInv /\ CalmInv => EndedIsReleased
    BY QuietReleased DEF IInv, CalmInv, EndedIsReleased
  <1> QED
    BY <1>1, CalmInvariance, PTL

\* So the property that the code violates is lost to nothing but onRevoke and an
\* onDestroy that the service did not ask for.
THEOREM StoppedIsDownUndisturbed ==
    ASSUME ~Interruptible
    PROVE  Spec => []StoppedIsDown
  <1>1. IInv /\ CalmInv => StoppedIsDown
    BY QuietReleased DEF IInv, CalmInv, StoppedIsDown, Released
  <1> QED
    BY <1>1, CalmInvariance, PTL
=============================================================================
