----------------------------- MODULE Lifecycle ------------------------------
(* Starting and stopping the client: TProxyService.java with the fields,     *)
(* threads and callbacks of one service instance after another, the start    *)
(* and stop buttons of ProfileListActivity.java, and StartSocksProxy,        *)
(* StopSocksProxy and Reconnect of golib/android.go.                         *)
(*                                                                           *)
(* A thread is a role and the session (the accepted start command) it works  *)
(* for.  Only main, which runs onStartCommand and onDestroy, the stop thread *)
(* and the revoker, which runs onRevoke, work for no session in particular.  *)
(* The three entry points of the Go library run under lifecycleMu from the   *)
(* first line to the last, and what they do is one step here.                *)
(*                                                                           *)
(* hev-socks5-tunnel is external: it may refuse to start and die at any      *)
(* time, also, but not necessarily, when its TUN descriptor is closed.       *)
EXTENDS Naturals, Sequences, FiniteSets

CONSTANTS
    Sessions,       \* start commands that onStartCommand may accept
    NoSession,
    Interruptible   \* once, at any moment, the system may hand the TUN interface
                    \* to another VPN, or destroy the service

ASSUME SessionAssumption == NoSession \notin Sessions /\ Interruptible \in BOOLEAN

Stop == <<"stop", NoSession>>
Revoker == <<"revoke", NoSession>>
Main == <<"main", NoSession>>
Start(s) == <<"start", s>>
Monitor(s) == <<"monitor", s>>
Threads == {Stop, Revoker, Main} \union ({"start", "monitor"} \X Sessions)

\* The screen receiver, which the main thread calls, and the network callback.
Receivers == {"screen", "network"}

VARIABLES
    pc,             \* where each thread is
    grabbed,        \* cleanupRuntime's currentTunFd in each thread
    tunFd, starting, stopping, runtimeRunning,   \* fields of the service
    fds,            \* TUN descriptors that are open
    registered,     \* receivers that the system calls
    known,          \* receivers that the fields of the service hold
    events,         \* receivers on their way to scheduleReconnect
    pending,        \* networkReconnectPending
    naps,           \* reconnect threads in their 300 ms sleep
    alive,          \* the service instance exists
    destroyDue,     \* stopSelf was called, onDestroy has not run yet
    enable,         \* the stored preference, which is also what the UI shows
    inbox,          \* status broadcasts on their way to the UI: whether each one
                    \* says that the VPN is up (STATUS_STARTING says nothing)
    native,         \* hev-socks5-tunnel is running
    proxy,          \* socks5Server and the other globals are set
    parts,          \* what the Go library has running
    interrupted     \* the system has intervened: only properties read it

fieldVars == <<tunFd, starting, stopping, runtimeRunning>>
callbackVars == <<registered, known, events>>
reconnectVars == <<callbackVars, pending, naps>>
goVars == <<proxy, parts>>
uiVars == <<enable, inbox>>
systemVars == <<alive, destroyDue, interrupted>>
vars == <<pc, grabbed, fieldVars, fds, reconnectVars, systemVars, uiVars, native, goVars>>

\* Loops and listeners that StartSocksProxy leaves running.
AllParts == {"dnsCleanup", "rescore", "pool", "listener", "echRefresh"}

Init ==
    /\ pc = [th \in Threads |-> "idle"]
    /\ grabbed = [th \in Threads |-> NoSession]
    /\ tunFd = NoSession /\ starting = FALSE /\ stopping = FALSE /\ runtimeRunning = FALSE
    /\ fds = {}
    /\ registered = {} /\ known = {} /\ events = {}
    /\ pending = FALSE /\ naps = 0
    /\ alive = FALSE /\ destroyDue = FALSE /\ interrupted = FALSE
    /\ enable = FALSE /\ inbox = <<>>
    /\ native = FALSE
    /\ proxy = FALSE /\ parts = {}

Goto(th, label) == pc' = [pc EXCEPT ![th] = label]

\* No thread is left and nothing is on its way.
Ended ==
    /\ \A th \in Threads : pc[th] \in {"idle", "done"}
    /\ ~destroyDue /\ events = {} /\ naps = 0 /\ inbox = <<>>

\* onReceive of the screen receiver occupies the main thread.
MainFree == pc[Main] = "idle" /\ "screen" \notin events
-----------------------------------------------------------------------------
(* The Go library                                                            *)

\* What a failing step of StartSocksProxy finds running, and what its error path
\* closes.  (The error path of rm.Init is dead: Init returns no error.)
StartedBefore(step) == IF step = "listen" THEN {"dnsCleanup", "rescore", "pool"} ELSE {}

BugForgetRelay(step) == IF step = "listen" THEN {"pool", "dnsCleanup"} ELSE {}

ReleasedAfter(step) == IF step = "listen" THEN {"pool", "rescore", "dnsCleanup"} ELSE {}

\* "config": buildConfig or routing.NewMatcher refuses, or writeTProxyConfig
\* before them; "listen": the address is taken.
GoFails(step) ==
    /\ ~proxy
    /\ parts' = parts \union (StartedBefore(step) \ ReleasedAfter(step))
    /\ UNCHANGED proxy

GoStarts ==
    /\ ~proxy
    /\ proxy' = TRUE
    /\ parts' = AllParts

\* StopSocksProxy stops these, in reverse order.
StopParts == AllParts

StopSocksProxy ==
    /\ proxy' = FALSE
    /\ parts' = IF proxy THEN parts \ StopParts ELSE parts
-----------------------------------------------------------------------------
(* cleanupRuntime, by any thread, and what each does after it                *)

BugOnlyRunning(th) ==
    stopping' = TRUE /\ Goto(th, IF runtimeRunning THEN "unregister" ELSE "report")

\* failStartup: it does not look whether somebody is stopping already.
FailStartup(th) == stopping' = TRUE /\ Goto(th, "unregister")

\* cleanupRuntime begins.
Unregister(th) ==
    /\ pc[th] = "unregister"
    /\ runtimeRunning' = FALSE
    /\ Goto(th, "dropScreen")
    /\ UNCHANGED <<grabbed, tunFd, starting, stopping, fds, reconnectVars, systemVars, uiVars,
                   native, goVars>>

\* unregisterScreenReceiver takes the receiver out of its field, and tells the
\* system if there was one.
DropScreen(th) ==
    /\ pc[th] = "dropScreen"
    /\ known' = known \ {"screen"}
    /\ Goto(th, IF "screen" \in known THEN "removeScreen" ELSE "dropNetwork")
    /\ UNCHANGED <<grabbed, fieldVars, fds, registered, events, pending, naps, systemVars, uiVars,
                   native, goVars>>

RemoveScreen(th) ==
    /\ pc[th] = "removeScreen"
    /\ registered' = registered \ {"screen"}
    /\ Goto(th, "dropNetwork")
    /\ UNCHANGED <<grabbed, fieldVars, fds, known, events, pending, naps, systemVars, uiVars,
                   native, goVars>>

\* unregisterNetworkCallback does so too; under networkLock, the pending flag goes
\* as well.
DropNetwork(th) ==
    /\ pc[th] = "dropNetwork"
    /\ known' = known \ {"network"} /\ pending' = FALSE
    /\ Goto(th, IF "network" \in known THEN "removeNetwork" ELSE "stopNative")
    /\ UNCHANGED <<grabbed, fieldVars, fds, registered, events, naps, systemVars, uiVars,
                   native, goVars>>

RemoveNetwork(th) ==
    /\ pc[th] = "removeNetwork"
    /\ registered' = registered \ {"network"}
    /\ Goto(th, "stopNative")
    /\ UNCHANGED <<grabbed, fieldVars, fds, known, events, pending, naps, systemVars, uiVars,
                   native, goVars>>

StopNative(th) ==
    /\ pc[th] = "stopNative"
    /\ native' = FALSE
    /\ Goto(th, "stopGo")
    /\ UNCHANGED <<grabbed, fieldVars, fds, reconnectVars, systemVars, uiVars, goVars>>

StopGo(th) ==
    /\ pc[th] = "stopGo"
    /\ StopSocksProxy
    /\ Goto(th, "readFd")
    /\ UNCHANGED <<grabbed, fieldVars, fds, reconnectVars, systemVars, uiVars, native>>

\* The field is read and then cleared, not exchanged.
ReadFd(th) ==
    /\ pc[th] = "readFd"
    /\ grabbed' = [grabbed EXCEPT ![th] = tunFd]
    /\ Goto(th, "closeFd")
    /\ UNCHANGED <<fieldVars, fds, reconnectVars, systemVars, uiVars, native, goVars>>

CloseFd(th) ==
    /\ pc[th] = "closeFd"
    /\ tunFd' = NoSession
    /\ fds' = fds \ {grabbed[th]}
    /\ grabbed' = [grabbed EXCEPT ![th] = NoSession]
    /\ Goto(th, "report")
    /\ UNCHANGED <<starting, stopping, runtimeRunning, reconnectVars, systemVars,
                   uiVars, native, goVars>>

BugResetOnSuccess(th) == starting

\* The finally block of the start thread.
StartingAfter(th) == starting /\ th[1] # "start"

\* STATUS_ERROR or STATUS_STOPPED; all but onDestroy end with stopSelf.
Report(th) ==
    /\ pc[th] = "report"
    /\ enable' = FALSE
    /\ inbox' = Append(inbox, FALSE)
    /\ destroyDue' = (th # Main /\ alive)
    /\ alive' = (th # Main /\ alive)
    /\ starting' = StartingAfter(th)
    /\ Goto(th, IF th[1] \in {"start", "monitor"} THEN "done" ELSE "idle")
    /\ UNCHANGED <<grabbed, tunFd, stopping, runtimeRunning, fds, reconnectVars,
                   interrupted, native, goVars>>

CleanupStep(th) ==
    \/ Unregister(th) \/ DropScreen(th) \/ RemoveScreen(th) \/ DropNetwork(th)
    \/ RemoveNetwork(th) \/ StopNative(th) \/ StopGo(th) \/ ReadFd(th) \/ CloseFd(th) \/ Report(th)
-----------------------------------------------------------------------------
(* The start thread                                                          *)

\* Any step that throws: establish, the configuration file, a refusal of the Go
\* library or of the native tunnel, and tunFd.getFd() once tunFd is null.
StartFails(s) ==
    /\ \/ /\ pc[Start(s)] = "establish" /\ UNCHANGED goVars
       \/ /\ pc[Start(s)] = "startGcm"
          /\ \/ \E step \in {"config", "listen"} : GoFails(step)
             \/ proxy /\ UNCHANGED goVars
       \/ /\ pc[Start(s)] = "startNative" /\ UNCHANGED goVars
       \/ /\ pc[Start(s)] = "check" /\ ~native /\ UNCHANGED goVars
    /\ FailStartup(Start(s))
    /\ UNCHANGED <<grabbed, tunFd, starting, runtimeRunning, fds, reconnectVars,
                   systemVars, uiVars, native>>

Establish(s) ==
    /\ pc[Start(s)] = "establish"
    /\ tunFd' = s
    /\ fds' = fds \union {s}
    /\ Goto(Start(s), "startGcm")
    /\ UNCHANGED <<grabbed, starting, stopping, runtimeRunning, reconnectVars,
                   systemVars, uiVars, native, goVars>>

StartGcm(s) ==
    /\ pc[Start(s)] = "startGcm"
    /\ GoStarts
    /\ Goto(Start(s), "startNative")
    /\ UNCHANGED <<grabbed, fieldVars, fds, reconnectVars, systemVars, uiVars, native>>

\* Starting the native tunnel twice may succeed, without effect.
StartNative(s) ==
    /\ pc[Start(s)] = "startNative" /\ tunFd # NoSession
    /\ native' = TRUE
    /\ Goto(Start(s), "check")
    /\ UNCHANGED <<grabbed, fieldVars, fds, reconnectVars, systemVars, uiVars, goVars>>

\* Nothing from here on looks at stopping or can fail.
Running(s) ==
    /\ pc[Start(s)] = "check" /\ native
    /\ runtimeRunning' = TRUE
    /\ Goto(Start(s), "screen")
    /\ UNCHANGED <<grabbed, tunFd, starting, stopping, fds, reconnectVars, systemVars,
                   uiVars, native, goVars>>

\* registerScreenReceiver: the system, which may refuse, and then the field.
RegisterScreen(s) ==
    /\ pc[Start(s)] = "screen"
    /\ \/ registered' = registered \union {"screen"} /\ Goto(Start(s), "keepScreen")
       \/ registered' = registered /\ Goto(Start(s), "keepNetwork")
    /\ UNCHANGED <<grabbed, fieldVars, fds, known, events, pending, naps, systemVars, uiVars,
                   native, goVars>>

KeepScreen(s) ==
    /\ pc[Start(s)] = "keepScreen"
    /\ known' = known \union {"screen"}
    /\ Goto(Start(s), "keepNetwork")
    /\ UNCHANGED <<grabbed, fieldVars, fds, registered, events, pending, naps, systemVars, uiVars,
                   native, goVars>>

\* registerNetworkCallback: the field, and then the system; if that refuses, the
\* field is reset.
KeepNetwork(s) ==
    /\ pc[Start(s)] = "keepNetwork"
    /\ known' = known \union {"network"}
    /\ Goto(Start(s), "network")
    /\ UNCHANGED <<grabbed, fieldVars, fds, registered, events, pending, naps, systemVars, uiVars,
                   native, goVars>>

RegisterNetwork(s) ==
    /\ pc[Start(s)] = "network"
    /\ \/ registered' = registered \union {"network"} /\ known' = known
       \/ registered' = registered /\ known' = known \ {"network"}
    /\ Goto(Start(s), "enable")
    /\ UNCHANGED <<grabbed, fieldVars, fds, events, pending, naps, systemVars, uiVars, native, goVars>>

Enable(s) ==
    /\ pc[Start(s)] = "enable"
    /\ enable' = TRUE
    /\ Goto(Start(s), "started")
    /\ UNCHANGED <<grabbed, fieldVars, fds, reconnectVars, systemVars, inbox, native, goVars>>

\* STATUS_STARTED is sent, the monitor is started, and starting is reset.
Started(s) ==
    /\ pc[Start(s)] = "started"
    /\ inbox' = Append(inbox, TRUE)
    /\ starting' = FALSE
    /\ pc' = [pc EXCEPT ![Start(s)] = "done", ![Monitor(s)] = "watch"]
    /\ UNCHANGED <<grabbed, tunFd, stopping, runtimeRunning, fds, reconnectVars,
                   systemVars, enable, native, goVars>>

StartStep(s) ==
    \/ StartFails(s) \/ Establish(s) \/ StartGcm(s) \/ StartNative(s) \/ Running(s)
    \/ RegisterScreen(s) \/ KeepScreen(s) \/ KeepNetwork(s) \/ RegisterNetwork(s)
    \/ Enable(s) \/ Started(s)
-----------------------------------------------------------------------------
(* monitorNativeTunnel                                                       *)

BugWhileRunning == ~stopping /\ enable /\ native

\* The loop condition, before each sleep.
Watching == ~stopping /\ enable

Watch(s) ==
    /\ pc[Monitor(s)] = "watch"
    /\ Goto(Monitor(s), IF Watching THEN "asleep" ELSE "done")
    /\ UNCHANGED <<grabbed, fieldVars, fds, reconnectVars, systemVars, uiVars, native, goVars>>

\* After it, the preference is not read again.
Wake(s) ==
    /\ pc[Monitor(s)] = "asleep"
    /\ IF ~stopping /\ ~native
         THEN FailStartup(Monitor(s))
         ELSE Goto(Monitor(s), "watch") /\ UNCHANGED stopping
    /\ UNCHANGED <<grabbed, tunFd, starting, runtimeRunning, fds, reconnectVars,
                   systemVars, uiVars, native, goVars>>
-----------------------------------------------------------------------------
(* Commands: the start and stop buttons, onRevoke, onDestroy                 *)

\* The name of the next session: any one that is free would do.
NextSession == CHOOSE s \in Sessions : pc[Start(s)] = "idle"

\* onStartCommand, on a new instance with new fields.  The UI offers to start
\* while the preference is off.  Left out: a user who starts again while threads
\* of the last session are still running.
StartCommand(s) ==
    /\ pc[Start(s)] = "idle" /\ s = NextSession
    /\ ~enable
    /\ Ended
    /\ alive' = TRUE
    /\ starting' = TRUE /\ stopping' = FALSE
    /\ tunFd' = NoSession /\ runtimeRunning' = FALSE
    /\ registered' = {} /\ known' = {} /\ pending' = FALSE
    /\ Goto(Start(s), "establish")
    /\ UNCHANGED <<grabbed, fds, events, naps, destroyDue, interrupted, uiVars, native, goVars>>

\* The stop button sends ACTION_DISCONNECT, for which the service starts a thread.
StopCommand ==
    /\ enable /\ alive /\ MainFree /\ pc[Stop] = "idle"
    /\ enable' = FALSE
    /\ Goto(Stop, "stopService")
    /\ UNCHANGED <<grabbed, fieldVars, fds, reconnectVars, systemVars, inbox, native, goVars>>

\* The system hands the TUN interface to another VPN.
Revoke ==
    /\ Interruptible /\ ~interrupted
    /\ alive /\ fds # {} /\ pc[Revoker] = "idle"
    /\ interrupted' = TRUE
    /\ Goto(Revoker, "stopService")
    /\ UNCHANGED <<grabbed, fieldVars, fds, reconnectVars, alive, destroyDue, uiVars,
                   native, goVars>>

SystemDestroys ==
    /\ Interruptible /\ ~interrupted
    /\ alive /\ ~destroyDue
    /\ destroyDue' = TRUE /\ interrupted' = TRUE
    /\ UNCHANGED <<pc, grabbed, fieldVars, fds, reconnectVars, alive, uiVars, native, goVars>>

\* The synchronized test of stopping.  super.onRevoke calls stopSelf in any case.
StopService(th) ==
    /\ pc[th] = "stopService"
    /\ stopping' = TRUE
    /\ Goto(th, IF stopping THEN "idle" ELSE "unregister")
    /\ destroyDue' = (destroyDue \/ (stopping /\ th = Revoker /\ alive))
    /\ UNCHANGED <<grabbed, tunFd, starting, runtimeRunning, fds, reconnectVars,
                   alive, interrupted, uiVars, native, goVars>>

\* Nothing to do when a stop or a failure has set stopping.
OnDestroy ==
    /\ destroyDue /\ MainFree
    /\ destroyDue' = FALSE
    /\ IF stopping
         THEN alive' = FALSE /\ UNCHANGED pc
         ELSE Goto(Main, "unregister") /\ UNCHANGED alive
    /\ UNCHANGED <<grabbed, fieldVars, fds, reconnectVars, interrupted, uiVars, native, goVars>>

\* vpnStatusReceiver stores the preference once more.
Deliver ==
    /\ inbox # <<>>
    /\ inbox' = Tail(inbox)
    /\ enable' = Head(inbox)
    /\ UNCHANGED <<pc, grabbed, fieldVars, fds, reconnectVars, systemVars, native, goVars>>
-----------------------------------------------------------------------------
(* Network changes and the native tunnel                                     *)

BugEveryEvent == runtimeRunning

MaySchedule == runtimeRunning /\ ~pending

\* A receiver finds a reason to reconnect: its decision takes networkLock, and so
\* does scheduleReconnect, but not in one piece.
Event(x) ==
    /\ x \in registered \ events
    /\ x = "screen" => pc[Main] = "idle"
    /\ events' = events \union {x}
    /\ UNCHANGED <<pc, grabbed, fieldVars, fds, registered, known, pending, naps, systemVars, uiVars,
                   native, goVars>>

\* It may have been unregistered since.
ScheduleReconnect(x) ==
    /\ x \in events
    /\ events' = events \ {x}
    /\ pending' = (pending \/ MaySchedule)
    /\ naps' = IF MaySchedule THEN naps + 1 ELSE naps
    /\ UNCHANGED <<pc, grabbed, fieldVars, fds, registered, known, systemVars, uiVars, native, goVars>>

BugNoFinally == pending

\* The finally block: it clears the flag whatever it has become.
AfterNap == FALSE

\* Reconnect retires the connections of the pool, if there is one; that changes
\* nothing here.
Reconnect ==
    /\ naps > 0
    /\ naps' = naps - 1
    /\ pending' = AfterNap
    /\ UNCHANGED <<pc, grabbed, fieldVars, fds, callbackVars, systemVars, uiVars, native, goVars>>

NativeDies ==
    /\ native
    /\ native' = FALSE
    /\ UNCHANGED <<pc, grabbed, fieldVars, fds, reconnectVars, systemVars, uiVars, goVars>>
-----------------------------------------------------------------------------
Next ==
    \/ \E th \in Threads : CleanupStep(th) \/ StopService(th)
    \/ \E s \in Sessions : StartStep(s) \/ Watch(s) \/ Wake(s) \/ StartCommand(s)
    \/ StopCommand \/ Revoke \/ SystemDestroys \/ OnDestroy \/ Deliver
    \/ \E x \in Receivers : Event(x) \/ ScheduleReconnect(x)
    \/ Reconnect \/ NativeDies

Spec == Init /\ [][Next]_vars

\* Threads and callbacks run, broadcasts are delivered and the system destroys a service that
\* has stopped itself.
Fairness ==
    /\ \A th \in Threads : WF_vars(CleanupStep(th) \/ StopService(th))
    /\ \A s \in Sessions : WF_vars(StartStep(s)) /\ WF_vars(Watch(s) \/ Wake(s))
    /\ WF_vars(OnDestroy) /\ WF_vars(Deliver) /\ WF_vars(Reconnect)
    /\ \A x \in Receivers : WF_vars(ScheduleReconnect(x))

FairSpec == Spec /\ Fairness
-----------------------------------------------------------------------------
(* Properties *)

\* Every variable has its type; and two reconnect threads never sleep at a time,
\* unless the system intervenes: then the pending flag may be cleared under one of
\* them while the start thread sets runtimeRunning.
TypeOK ==
    /\ pc \in [Threads -> {"idle", "done", "establish", "startGcm", "startNative", "check",
                           "screen", "keepScreen", "keepNetwork", "network", "enable",
                           "started", "watch", "asleep", "stopService", "unregister",
                           "dropScreen", "removeScreen", "dropNetwork", "removeNetwork",
                           "stopNative", "stopGo", "readFd", "closeFd", "report"}]
    /\ grabbed \in [Threads -> Sessions \union {NoSession}]
    /\ tunFd \in Sessions \union {NoSession}
    /\ fds \subseteq Sessions
    /\ registered \subseteq Receivers /\ known \subseteq Receivers /\ events \subseteq Receivers
    /\ {starting, stopping, runtimeRunning, pending, alive, destroyDue, enable,
        native, proxy, interrupted} \subseteq BOOLEAN
    /\ naps \in Nat
    /\ naps > 1 => interrupted
    /\ inbox \in Seq(BOOLEAN)
    /\ parts \subseteq AllParts

\* Whatever fails in StartSocksProxy and whoever calls it and StopSocksProxy in
\* whatever order, the Go library runs completely or not at all.
AllOrNothing == parts = IF proxy THEN AllParts ELSE {}

Released ==
    /\ fds = {} /\ ~native /\ parts = {}
    /\ tunFd = NoSession /\ ~runtimeRunning /\ registered = {}

\* Unless the system intervenes, a stop ends with everything released,
\* although the monitor, the stop thread and onDestroy may clean up at once.
StopReleases == stopping /\ ~interrupted ~> Released \/ interrupted

\* Nothing of a session is left when nothing is going on any more, whatever failed and
\* however many threads cleaned up at once.
EndedIsReleased == Ended /\ ~interrupted => Released

\* A tunnel that died under a running session ends that session: the monitor is
\* there, or somebody else is already stopping it.
DeadTunnelEnds == runtimeRunning /\ ~native /\ ~interrupted ~> ~runtimeRunning \/ interrupted

\* A start always ends, in whatever order it meets stops, failures and the
\* destruction of its service, so that the next start command is not ignored.
StartEnds == starting ~> ~starting

\* A reconnect that is announced has a thread that will make it.
PendingHasThread == pending => naps > 0

\* cleanupRuntime: "cleaning the VPN runtime".  When nothing is going on any more
\* and the UI offers to start, neither the native tunnel nor the proxy runs.  The
\* code violates it: a stop in the middle of a start cleans what the start thread
\* has made so far, and nothing after that looks at stopping.
StoppedIsDown == Ended /\ ~enable => ~native /\ parts = {}
=============================================================================
