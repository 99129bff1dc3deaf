----------------------------- MODULE PowSession -----------------------------
(***************************************************************************)
(* class PowCoordinator of uac_desktop/pow/coordinator.py with the part of *)
(* uac_desktop/pow_ui.py that calls it: connect, disconnect, the live      *)
(* switch of the exit, the watchdog with its reconnect and its TUN repair, *)
(* each in a thread of its own, and the shared state they interleave on.   *)
(*                                                                         *)
(* A step is what a thread does between two points where another thread    *)
(* can change what it reads next.  Abstractions:                           *)
(*   - the session is WARP with Psiphon behind it; the ladder of outer     *)
(*     transports, Psiphon's strategies and the three TUN attempts are one *)
(*     attempt each, which succeeds or fails;                              *)
(*   - the speed options are off, as by default;                           *)
(*   - a sing-box process is named by the thread that started it;          *)
(*   - the WindowsProxy calls are atomic here: see WindowsProxy.tla;       *)
(*   - the click on Connect and the thread's first statements are one      *)
(*     step: toggle ignores the button for 5 s.                            *)
(***************************************************************************)
EXTENDS Integers, FiniteSets

CONSTANTS
  Connects,       \* clicks on Connect, a thread each
  Stops,          \* clicks on Disconnect
  Switches,       \* clicks on the exit switch
  Plans,          \* which of the clicks a user makes in one course
  None,           \* no thread
  MaxLegs,        \* transport processes that die
  MaxTuns,        \* sing-box processes that stop working
  MaxFails,       \* Windows proxy calls that raise
  MaxSlow         \* waits for older work that run out of their 30 s

ASSUME ConstAssumption ==
  MaxLegs \in Nat /\ MaxTuns \in Nat /\ MaxFails \in Nat /\ MaxSlow \in Nat

Mains == {"connect"} \X Connects
Dogs == {"watchdog"} \X Connects      \* the watchdog a connect starts
Enders == {"disconnect"} \X Stops
Swappers == {"switch"} \X Switches
Threads == Mains \union Dogs \union Enders \union Swappers
EveryClick == Mains \union Enders \union Swappers

ASSUME NoneAssumption == None \notin Threads

Dog(t) == <<"watchdog", t[2]>>

VARIABLES
  epoch, connectEpoch, stop, connected, watchdog,
  aether, psiphon,          \* the transport processes run
  direct,                   \* _direct_psiphon
  exitPort,                 \* _exit_port is set
  slot,                     \* _tun_process
  running,                  \* the sing-box processes that run
  winProxy,                 \* what WindowsProxy has made of the settings
  proxyObj, proxySession,   \* _proxy, _proxy_session
  proxyMode, fellBack,
  exitLock,                 \* holder of _exit_lock
  working,                  \* the threads _work_count counts
  pc,
  mine,                     \* _tls.epoch, and `seen` of disconnect
  wants,                    \* the exit a thread brings up: TRUE is the proxy
  joins,                    \* the watchdog a disconnect waits for
  again,                    \* threads at the second try of a sweep or switch
  released,                 \* reconnects that gave the exit up meanwhile
  connecting, token,        \* the page's own state
  exitChoice,               \* _exit_proxy_mode of the page
  request,                  \* history: what the user asked for last
  spent                     \* how much of each bound is used

control == <<epoch, connectEpoch, stop, connected, watchdog>>
legs == <<aether, psiphon, direct, exitPort>>
tun == <<slot, running>>
proxy == <<winProxy, proxyObj, proxySession>>
mode == <<proxyMode, fellBack>>
sync == <<exitLock, working>>
locals == <<mine, wants, joins, again, released>>
ui == <<connecting, token, exitChoice, request>>
vars == <<control, legs, tun, proxy, mode, sync, pc, locals, ui, spent>>

Cancelling == {"cancel", "join", "legs", "exit", "port"}
Dialling == {"outer", "ready", "inner", "launch", "dial"}
Enabling == {"proxy", "resume", "session", "tun", "popen", "assign", "verify",
             "enabled", "raised", "error"}
Recovering == {"rebuild", "relock", "retry"}
Healing == {"heal", "reopen", "reassign", "reverify", "fail"}
PCs == {"new", "done", "wait", "waiting", "check", "clear", "begin", "choose",
        "connected", "guard", "swap", "swapping", "watch"}
       \union Cancelling \union Dialling \union Enabling \union Recovering
       \union Healing

TypeOK ==
  /\ epoch \in Nat /\ connectEpoch \in Nat /\ stop \in BOOLEAN
  /\ connected \in BOOLEAN /\ watchdog \in Dogs \union {None}
  /\ aether \in BOOLEAN /\ psiphon \in BOOLEAN /\ direct \in BOOLEAN
  /\ exitPort \in BOOLEAN
  /\ slot \in Threads \union {None} /\ running \subseteq Threads
  /\ winProxy \in {"user", "app", "suspended"}
  /\ proxyObj \in BOOLEAN /\ proxySession \in BOOLEAN
  /\ proxyMode \in BOOLEAN /\ fellBack \in BOOLEAN
  /\ exitLock \in Threads \union {None} /\ working \subseteq Threads
  /\ pc \in [Threads -> PCs]
  /\ mine \in [Threads -> Nat] /\ wants \in [Threads -> BOOLEAN]
  /\ joins \in [Threads -> Dogs \union {None}]
  /\ again \subseteq Threads /\ released \subseteq Dogs
  /\ connecting \in BOOLEAN /\ token \in Mains \union {None}
  /\ exitChoice \in BOOLEAN /\ request \in {"none", "connect", "disconnect"}
  /\ spent \in [legs : Nat, tuns : Nat, fails : Nat, slow : Nat]

Init ==
  /\ epoch = 0 /\ connectEpoch = 0 /\ stop = FALSE /\ connected = FALSE
  /\ watchdog = None
  /\ aether = FALSE /\ psiphon = FALSE /\ direct = FALSE /\ exitPort = FALSE
  /\ slot = None /\ running = {}
  /\ winProxy = "user" /\ proxyObj = FALSE /\ proxySession = FALSE
  /\ proxyMode = TRUE /\ fellBack = FALSE
  /\ exitLock = None /\ working = {}
  /\ \E plan \in Plans :
       pc = [t \in Threads |-> IF t \in plan \union Dogs THEN "new" ELSE "done"]
  /\ mine = [t \in Threads |-> 0] /\ wants = [t \in Threads |-> FALSE]
  /\ joins = [t \in Threads |-> None]
  /\ again = {} /\ released = {}
  /\ connecting = FALSE /\ token = None /\ exitChoice \in BOOLEAN
  /\ request = "none"
  /\ spent = [legs |-> 0, tuns |-> 0, fails |-> 0, slow |-> 0]
-----------------------------------------------------------------------------
Go(t, l) == pc' = [pc EXCEPT ![t] = l]

\* _ensure_active, for a thread whose _tls.epoch is set.
Active(t) == ~stop /\ mine[t] = epoch

Ended(t) == pc[t] \in {"new", "done"}

\* What _exit_port leads to accepts connections.
Listening == exitPort /\ psiphon

\* _stop_tun_process
StopTun == slot' = None /\ running' = running \ {slot}

\* `proxy, self._proxy = self._proxy, None` and proxy.suspend()
Suspended == IF proxyObj /\ winProxy = "app" THEN "suspended" ELSE winProxy

SuspendProxy ==
  winProxy' = Suspended /\ proxyObj' = FALSE /\ UNCHANGED proxySession

\* Faulty: a connect that raises leaves the page connecting.
Leave_Connecting(t) ==
  /\ Go(t, "done")
  /\ UNCHANGED ui

\* The thread of a connect ends: its page learns it unless a newer one runs.
Leave(t) ==
  /\ Go(t, "done")
  /\ connecting' = IF t \in Mains /\ token = t THEN FALSE ELSE connecting
  /\ UNCHANGED <<token, exitChoice, request>>

\* Leaves `with self._exit_lock` and `with self._session_work()`.
ReleaseAll(t) ==
  /\ exitLock' = IF exitLock = t THEN None ELSE exitLock
  /\ working' = working \ {t}
-----------------------------------------------------------------------------
(* PowPage.connect and the head of PowCoordinator.connect                  *)
Connect(t) ==
  /\ t \in Mains /\ pc[t] = "new" /\ ~connecting /\ ~connected
  /\ epoch' = epoch + 1 /\ connectEpoch' = epoch + 1
  /\ mine' = [mine EXCEPT ![t] = epoch + 1]
  /\ wants' = [wants EXCEPT ![t] = exitChoice]
  /\ connecting' = TRUE /\ token' = t /\ request' = "connect"
  /\ Go(t, "cancel")
  /\ UNCHANGED <<stop, connected, watchdog, legs, tun, proxy, mode, sync, joins,
                 again, released, exitChoice, spent>>

\* PowPage.disconnect
Disconnect(t) ==
  /\ t \in Enders /\ pc[t] = "new" /\ (connecting \/ connected)
  /\ request' = "disconnect"
  /\ Go(t, "cancel")
  /\ UNCHANGED <<control, legs, tun, proxy, mode, sync, locals, connecting, token,
                 exitChoice, spent>>

\* PowPage.set_exit_mode
SetExitMode(t) ==
  /\ t \in Swappers /\ pc[t] = "new"
  /\ exitChoice' = ~exitChoice
  /\ Go(t, IF connected /\ (proxyMode \/ fellBack) # exitChoice' THEN "swap"
                                                                 ELSE "done")
  /\ UNCHANGED <<control, legs, tun, proxy, mode, sync, locals, connecting, token,
                 request, spent>>
-----------------------------------------------------------------------------
(* disconnect: by itself, and as the sweep at the head of connect          *)
AfterCancel(t) ==
  IF t \in Enders THEN "done" ELSE IF t \in again THEN "check" ELSE "wait"

\* The page's thread clears _connecting in its finally.
ReturnsFromCancel(t) ==
  /\ Go(t, AfterCancel(t))
  /\ again' = again \ {t}
  /\ connecting' = IF t \in Enders THEN FALSE ELSE connecting

CancelStale(t) ==
  /\ pc[t] = "cancel" /\ t \in Mains /\ mine[t] # epoch
  /\ ReturnsFromCancel(t)
  /\ UNCHANGED <<control, legs, tun, proxy, mode, sync, mine, wants, joins,
                 released, token, exitChoice, request, spent>>

CancelBegins(t) ==
  /\ pc[t] = "cancel" /\ (t \in Enders \/ mine[t] = epoch)
  /\ epoch' = IF t \in Enders THEN epoch + 1 ELSE epoch
  /\ mine' = [mine EXCEPT ![t] = epoch']
  /\ stop' = TRUE /\ connected' = FALSE
  /\ watchdog' = None /\ joins' = [joins EXCEPT ![t] = watchdog]
  /\ Go(t, "join")
  /\ UNCHANGED <<connectEpoch, legs, tun, proxy, mode, sync, wants, again, released,
                 ui, spent>>

\* The join gives up after 2 s on a watchdog that is in the middle of work.
Joined(t) ==
  /\ pc[t] = "join"
  /\ joins[t] # None => pc[joins[t]] # "watch"
  /\ joins' = [joins EXCEPT ![t] = None]

JoinedStale(t) ==
  /\ Joined(t) /\ mine[t] # epoch
  /\ ReturnsFromCancel(t)
  /\ UNCHANGED <<control, legs, tun, proxy, mode, sync, mine, wants, released,
                 token, exitChoice, request, spent>>

JoinedCurrent(t) ==
  /\ Joined(t) /\ mine[t] = epoch
  /\ Go(t, "legs")
  /\ UNCHANGED <<control, legs, tun, proxy, mode, sync, mine, wants, again,
                 released, ui, spent>>

StopLegs(t) ==
  /\ pc[t] = "legs"
  /\ aether' = FALSE /\ psiphon' = FALSE
  /\ Go(t, "exit")
  /\ UNCHANGED <<control, direct, exitPort, tun, proxy, mode, sync, locals, ui, spent>>

\* _teardown_exit and _restore_windows_proxy under _exit_lock
StopExit(t) ==
  /\ pc[t] = "exit" /\ exitLock = None
  /\ StopTun
  /\ winProxy' = IF proxySession THEN "user" ELSE Suspended
  /\ proxyObj' = FALSE /\ proxySession' = FALSE
  /\ Go(t, "port")
  /\ UNCHANGED <<control, legs, mode, sync, locals, ui, spent>>

ClearPort(t) ==
  /\ pc[t] = "port"
  /\ exitPort' = FALSE /\ direct' = FALSE
  /\ ReturnsFromCancel(t)
  /\ UNCHANGED <<control, aether, psiphon, tun, proxy, mode, sync, mine, wants,
                 joins, released, token, exitChoice, request, spent>>
-----------------------------------------------------------------------------
(* connect: _wait_previous_work and the start of the session               *)
\* Faulty: the work of an older connect is not waited for.
NoOlderWork_Always(t) ==
  /\ pc[t] = "wait"
  /\ Go(t, "check")
  /\ UNCHANGED <<control, legs, tun, proxy, mode, sync, locals, ui, spent>>

NoOlderWork(t) ==
  /\ pc[t] = "wait" /\ working = {}
  /\ Go(t, "check")
  /\ UNCHANGED <<control, legs, tun, proxy, mode, sync, locals, ui, spent>>

OlderWork(t) ==
  /\ pc[t] = "wait" /\ working # {}
  /\ Go(t, "waiting")
  /\ UNCHANGED <<control, legs, tun, proxy, mode, sync, locals, ui, spent>>

OlderWorkEnded(t) ==
  /\ pc[t] = "waiting"
  /\ \/ (working = {} \/ mine[t] # epoch) /\ UNCHANGED spent
     \/ working # {} /\ mine[t] = epoch /\ spent.slow < MaxSlow
        /\ spent' = [spent EXCEPT !.slow = @ + 1]
  /\ again' = again \union {t}
  /\ Go(t, "cancel")
  /\ UNCHANGED <<control, legs, tun, proxy, mode, sync, mine, wants, joins, released,
                 ui>>

CheckEpoch(t) ==
  /\ pc[t] = "check"
  /\ IF mine[t] = epoch THEN Go(t, "clear") /\ UNCHANGED ui ELSE Leave(t)
  /\ UNCHANGED <<control, legs, tun, proxy, mode, sync, locals, spent>>

ClearStop(t) ==
  /\ pc[t] = "clear"
  /\ stop' = FALSE
  /\ Go(t, "begin")
  /\ UNCHANGED <<epoch, connectEpoch, connected, watchdog, legs, tun, proxy, mode,
                 sync, locals, ui, spent>>

\* A local port is not free.
PortBusy(t) ==
  /\ pc[t] = "begin"
  /\ Leave(t)
  /\ UNCHANGED <<control, legs, tun, proxy, mode, sync, locals, spent>>

Begin(t) ==
  /\ pc[t] = "begin"
  /\ working' = working \union {t}
  /\ proxyMode' = wants[t] /\ fellBack' = FALSE
  /\ Go(t, "outer")
  /\ UNCHANGED <<control, legs, tun, proxy, exitLock, locals, ui, spent>>
-----------------------------------------------------------------------------
(* _raise_outer_leg and _start_psiphon_tunnel, for a connect and for the   *)
(* watchdog's reconnect                                                    *)
Refuses(t) == Go(t, "raised")

\* Faulty: the epoch is not compared again under _lock.
StartOuter_Unchecked(t) ==
  /\ pc[t] = "outer"
  /\ aether' = TRUE /\ Go(t, "ready")
  /\ UNCHANGED <<control, psiphon, direct, exitPort, tun, proxy, mode, sync, locals,
                 ui, spent>>

StartOuter(t) ==
  /\ pc[t] = "outer"
  /\ IF Active(t) /\ epoch = connectEpoch
     THEN aether' = TRUE /\ Go(t, "ready")
     ELSE Refuses(t) /\ UNCHANGED aether
  /\ UNCHANGED <<control, psiphon, direct, exitPort, tun, proxy, mode, sync, locals,
                 ui, spent>>

OuterReady(t) ==
  /\ pc[t] = "ready" /\ aether
  /\ IF stop THEN Refuses(t) ELSE Go(t, "inner")
  /\ UNCHANGED <<control, legs, tun, proxy, mode, sync, locals, ui, spent>>

\* A connect goes on with Psiphon alone, a reconnect does not.
OuterFails(t) ==
  /\ pc[t] = "ready"
  /\ aether' = (stop /\ aether)
  /\ direct' = (direct \/ (~stop /\ t \in Mains))
  /\ IF ~stop /\ t \in Mains THEN Go(t, "inner") ELSE Refuses(t)
  /\ UNCHANGED <<control, psiphon, exitPort, tun, proxy, mode, sync, locals, ui, spent>>

CheckInner(t) ==
  /\ pc[t] = "inner"
  /\ IF Active(t) THEN Go(t, "launch") ELSE Refuses(t)
  /\ UNCHANGED <<control, legs, tun, proxy, mode, sync, locals, ui, spent>>

StartPsiphon(t) ==
  /\ pc[t] = "launch"
  /\ psiphon' = TRUE
  /\ Go(t, "dial")
  /\ UNCHANGED <<control, aether, direct, exitPort, tun, proxy, mode, sync, locals,
                 ui, spent>>

PsiphonConnected(t) ==
  /\ pc[t] = "dial" /\ psiphon /\ ~stop
  /\ exitPort' = TRUE
  /\ Go(t, IF t \in Mains THEN "choose" ELSE "relock")
  /\ UNCHANGED <<control, aether, psiphon, direct, tun, proxy, mode, sync, locals,
                 ui, spent>>

PsiphonFails(t) ==
  /\ pc[t] = "dial"
  /\ psiphon' = FALSE
  /\ Refuses(t)
  /\ UNCHANGED <<control, aether, direct, exitPort, tun, proxy, mode, sync, locals,
                 ui, spent>>

\* _connect_session: the exit it asks for
ChooseExit(t) ==
  /\ pc[t] = "choose"
  /\ IF ~Active(t) THEN Refuses(t) ELSE Go(t, IF wants[t] THEN "proxy" ELSE "tun")
  /\ UNCHANGED <<control, legs, tun, proxy, mode, sync, locals, ui, spent>>
-----------------------------------------------------------------------------
(* _enable_proxy                                                           *)
OpenForwarder(t) ==
  /\ pc[t] = "proxy"
  /\ IF Listening THEN Go(t, "resume") ELSE Refuses(t)
  /\ UNCHANGED <<control, legs, tun, proxy, mode, sync, locals, ui, spent>>

ResumeProxy(t) ==
  /\ pc[t] = "resume"
  /\ winProxy' = "app"
  /\ Go(t, "session")
  /\ UNCHANGED <<control, legs, tun, proxyObj, proxySession, mode, sync, locals, ui,
                 spent>>

\* WindowsProxy.resume raises: the snapshot is another's, the guard times out.
ResumeRaises(t) ==
  /\ pc[t] = "resume" /\ spent.fails < MaxFails
  /\ spent' = [spent EXCEPT !.fails = @ + 1]
  /\ Go(t, "error")
  /\ UNCHANGED <<control, legs, tun, proxy, mode, sync, locals, ui>>

OwnProxySession(t) ==
  /\ pc[t] = "session"
  /\ proxyObj' = TRUE /\ proxySession' = TRUE
  /\ Go(t, "enabled")
  /\ UNCHANGED <<control, legs, tun, winProxy, mode, sync, locals, ui, spent>>

(* _enable_tun, _tun_fallback and _start_tun_process                       *)
\* Faulty: the fallback to the Windows proxy is not noted.
FallBack_NoNote(t) ==
  /\ StopTun
  /\ Go(t, "proxy")
  /\ UNCHANGED <<control, legs, proxy, mode, sync, locals, ui, spent>>

FallBack(t) ==
  /\ StopTun
  /\ fellBack' = TRUE
  /\ Go(t, "proxy")
  /\ UNCHANGED <<control, legs, proxy, proxyMode, sync, locals, ui, spent>>

\* No administrator rights, no sing-box.exe.
TunUnavailable(t) == pc[t] = "tun" /\ FallBack(t)

\* kill_stale ends every sing-box that runs this configuration.
PrepareTun(t) ==
  /\ pc[t] = "tun"
  /\ IF Active(t) /\ Listening
     THEN running' = {} /\ Go(t, "popen")
     ELSE Refuses(t) /\ UNCHANGED running
  /\ UNCHANGED <<control, legs, slot, proxy, mode, sync, locals, ui, spent>>

LaunchTun(t) ==
  /\ pc[t] = "popen"
  /\ IF Active(t) THEN running' = running \union {t} /\ Go(t, "assign")
                  ELSE Refuses(t) /\ UNCHANGED running
  /\ UNCHANGED <<control, legs, slot, proxy, mode, sync, locals, ui, spent>>

AssignTun(t) ==
  /\ pc[t] = "assign"
  /\ slot' = t /\ UNCHANGED running
  /\ SuspendProxy
  /\ Go(t, "verify")
  /\ UNCHANGED <<control, legs, mode, sync, locals, ui, spent>>

VerifyStopped(t) ==
  /\ pc[t] = "verify" /\ ~Active(t)
  /\ IF slot = t THEN StopTun ELSE UNCHANGED tun
  /\ Refuses(t)
  /\ UNCHANGED <<control, legs, proxy, mode, sync, locals, ui, spent>>

TunVerified(t) ==
  /\ pc[t] = "verify" /\ Active(t) /\ Listening /\ running # {}
  /\ Go(t, "enabled")
  /\ UNCHANGED <<control, legs, tun, proxy, mode, sync, locals, ui, spent>>

TunRejected(t) == pc[t] = "verify" /\ Active(t) /\ FallBack(t)
-----------------------------------------------------------------------------
(* _connect_session returns or raises                                      *)
SetConnected(t) ==
  /\ pc[t] = "enabled" /\ t \in Mains /\ exitLock # t
  /\ connected' = TRUE
  /\ Go(t, "guard")
  /\ UNCHANGED <<epoch, connectEpoch, stop, watchdog, legs, tun, proxy, mode, sync,
                 locals, ui, spent>>

\* Faulty: the watchdog is registered under the connect's own name.
StartWatchdog_Self(t) ==
  /\ pc[t] = "guard"
  /\ watchdog' = t
  /\ mine' = [mine EXCEPT ![Dog(t)] = epoch]
  /\ working' = working \ {t}
  /\ pc' = [pc EXCEPT ![t] = "connected", ![Dog(t)] = "watch"]
  /\ UNCHANGED <<epoch, connectEpoch, stop, connected, legs, tun, proxy, mode,
                 exitLock, wants, joins, again, released, ui, spent>>

\* The watchdog works for the epoch of this moment.
StartWatchdog(t) ==
  /\ pc[t] = "guard"
  /\ watchdog' = Dog(t)
  /\ mine' = [mine EXCEPT ![Dog(t)] = epoch]
  /\ working' = working \ {t}
  /\ pc' = [pc EXCEPT ![t] = "connected", ![Dog(t)] = "watch"]
  /\ UNCHANGED <<epoch, connectEpoch, stop, connected, legs, tun, proxy, mode,
                 exitLock, wants, joins, again, released, ui, spent>>

\* The exit switch was flipped while connecting: apply it now.
ConnectReturns(t) ==
  /\ pc[t] = "connected"
  /\ IF exitChoice # wants[t] THEN Go(t, "swap") /\ UNCHANGED ui ELSE Leave(t)
  /\ UNCHANGED <<control, legs, tun, proxy, mode, sync, locals, spent>>

ConnectRaises(t) ==
  /\ pc[t] \in {"raised", "error"} /\ t \in Mains /\ exitLock # t
  /\ ReleaseAll(t) /\ Leave(t)
  /\ UNCHANGED <<control, legs, tun, proxy, mode, locals, spent>>
-----------------------------------------------------------------------------
(* switch_exit_mode, all of it under _exit_lock                            *)
SwitchNothing(t) ==
  /\ pc[t] = "swap" /\ exitLock = None
  /\ ~connected \/ (proxyMode \/ fellBack) = exitChoice
  /\ proxyMode' = (proxyMode \/ (connected /\ exitChoice))
  /\ Leave(t)
  /\ UNCHANGED <<control, legs, tun, proxy, fellBack, sync, locals, spent>>

SwitchBegins(t) ==
  /\ pc[t] = "swap" /\ exitLock = None
  /\ connected /\ (proxyMode \/ fellBack) # exitChoice
  /\ exitLock' = t /\ working' = working \union {t}
  /\ mine' = [mine EXCEPT ![t] = epoch]
  /\ wants' = [wants EXCEPT ![t] = exitChoice]
  /\ StopTun /\ SuspendProxy
  /\ proxyMode' = exitChoice /\ fellBack' = FALSE
  /\ Go(t, "choose")
  /\ UNCHANGED <<control, legs, joins, again, released, ui, spent>>

Switching(t) == exitLock = t /\ t \notin Dogs

SwitchDone(t) ==
  /\ pc[t] = "enabled" /\ Switching(t)
  /\ ReleaseAll(t) /\ Leave(t)
  /\ again' = again \ {t}
  /\ UNCHANGED <<control, legs, tun, proxy, mode, mine, wants, joins, released, spent>>

\* `except PowEngineError`: the switch was stopped.
SwitchStopped(t) ==
  /\ pc[t] = "raised" /\ Switching(t) /\ t \notin again /\ ~Active(t)
  /\ ReleaseAll(t) /\ Leave(t)
  /\ UNCHANGED <<control, legs, tun, proxy, mode, locals, spent>>

\* `except PowEngineError`: the Windows proxy instead.
SwitchRetries(t) ==
  /\ pc[t] = "raised" /\ Switching(t) /\ t \notin again /\ Active(t)
  /\ StopTun /\ SuspendProxy
  /\ fellBack' = ~wants[t]
  /\ again' = again \union {t}
  /\ Go(t, "proxy")
  /\ UNCHANGED <<control, legs, proxyMode, sync, mine, wants, joins, released, ui,
                 spent>>

\* Faulty: the exception leaves the lock held.
SwitchRaises_KeepsLock(t) ==
  /\ pc[t] = "error" /\ Switching(t) /\ t \notin again
  /\ Leave(t)
  /\ UNCHANGED <<control, legs, tun, proxy, mode, sync, locals, spent>>

\* Any other exception of the first attempt leaves switch_exit_mode.
SwitchRaises(t) ==
  /\ pc[t] = "error" /\ Switching(t) /\ t \notin again
  /\ ReleaseAll(t) /\ Leave(t)
  /\ UNCHANGED <<control, legs, tun, proxy, mode, locals, spent>>

\* _fail
Fail ==
  IF stop THEN UNCHANGED <<tun, proxy, connected>>
          ELSE StopTun /\ SuspendProxy /\ connected' = FALSE

SwitchFails(t) ==
  /\ pc[t] \in {"raised", "error"} /\ Switching(t) /\ t \in again
  /\ Fail
  /\ again' = again \ {t}
  /\ ReleaseAll(t) /\ Leave(t)
  /\ UNCHANGED <<epoch, connectEpoch, stop, watchdog, legs, mode, mine, wants, joins,
                 released, spent>>
-----------------------------------------------------------------------------
(* the watchdog and _recover                                               *)
Watching(t) == pc[t] = "watch" /\ Active(t) /\ connected

\* Faulty: the watchdog looks at the session, not at the stop event.
WatchdogEnds_NoStop(t) ==
  /\ pc[t] = "watch" /\ ~connected
  /\ Go(t, "done")
  /\ UNCHANGED <<control, legs, tun, proxy, mode, sync, locals, ui, spent>>

WatchdogEnds(t) ==
  /\ pc[t] = "watch" /\ ~(Active(t) /\ connected)
  /\ Go(t, "done")
  /\ UNCHANGED <<control, legs, tun, proxy, mode, sync, locals, ui, spent>>

LegsLost == ~psiphon \/ (~direct /\ ~aether)

LegLost(t) ==
  /\ Watching(t) /\ LegsLost
  /\ working' = working \union {t}
  /\ Go(t, "rebuild")
  /\ UNCHANGED <<control, legs, tun, proxy, mode, exitLock, locals, ui, spent>>

RecoverEnds(t) ==
  /\ ReleaseAll(t)
  /\ released' = released \ {t}
  /\ Go(t, "done")
  /\ UNCHANGED <<control, legs, tun, proxy, mode, mine, wants, joins, again, ui, spent>>

RecoverStopped(t) == pc[t] = "rebuild" /\ ~Active(t) /\ RecoverEnds(t)

\* _raise_legs_again
RebuildLegs(t) ==
  /\ pc[t] = "rebuild" /\ Active(t)
  /\ aether' = FALSE /\ psiphon' = FALSE
  /\ Go(t, IF direct THEN "inner" ELSE "outer")
  /\ UNCHANGED <<control, direct, exitPort, tun, proxy, mode, sync, locals, ui, spent>>

RecoverLocked(t) == pc[t] = "relock" /\ exitLock = None

RecoverRefused(t) ==
  /\ RecoverLocked(t) /\ ~(Active(t) /\ Listening)
  /\ Refuses(t)
  /\ UNCHANGED <<control, legs, tun, proxy, mode, sync, locals, ui, spent>>

\* The exit that is there still works.
RecoverKeepsExit(t) ==
  /\ RecoverLocked(t) /\ Active(t) /\ Listening /\ t \notin released
  /\ IF proxyMode \/ fellBack THEN proxyObj ELSE slot \in running
  /\ exitLock' = t /\ UNCHANGED working
  /\ Go(t, "enabled")
  /\ UNCHANGED <<control, legs, tun, proxy, mode, locals, ui, spent>>

RecoverRebuildsExit(t) ==
  /\ RecoverLocked(t) /\ Active(t) /\ Listening
  /\ proxyMode \/ fellBack => t \in released \/ ~proxyObj
  /\ exitLock' = t /\ UNCHANGED working
  /\ IF proxyMode \/ fellBack THEN Go(t, "proxy") /\ UNCHANGED tun
                              ELSE Go(t, "tun") /\ StopTun
  /\ UNCHANGED <<control, legs, proxy, mode, locals, ui, spent>>

Recovered(t) ==
  /\ pc[t] = "enabled" /\ t \in Dogs
  /\ ReleaseAll(t)
  /\ released' = released \ {t}
  /\ Go(t, "watch")
  /\ UNCHANGED <<control, legs, tun, proxy, mode, mine, wants, joins, again, ui, spent>>

\* `except PowEngineError` and `except Exception` of _recover_inner
RecoverFails(t) ==
  /\ pc[t] \in {"raised", "error"} /\ t \in Dogs
  /\ IF pc[t] = "raised" /\ ~Active(t)
     THEN RecoverEnds(t)
     ELSE /\ exitLock' = IF exitLock = t THEN None ELSE exitLock
          /\ Go(t, "retry")
          /\ UNCHANGED <<control, legs, tun, proxy, mode, working, locals, ui, spent>>

RetrySoon(t) ==
  /\ pc[t] = "retry"
  /\ Go(t, "rebuild")
  /\ UNCHANGED <<control, legs, tun, proxy, mode, sync, locals, ui, spent>>

\* After 90 s the normal internet is restored while retrying.
ReleaseExit(t) ==
  /\ pc[t] = "retry" /\ t \notin released
  /\ released' = released \union {t}
  /\ StopTun /\ SuspendProxy
  /\ Go(t, "rebuild")
  /\ UNCHANGED <<control, legs, mode, sync, mine, wants, joins, again, ui, spent>>

(* _tun_healthy, _restart_tun and _fail, without any lock                  *)
TunLost(t) ==
  /\ Watching(t) /\ ~LegsLost
  /\ slot # None /\ ~fellBack /\ ~proxyMode
  /\ slot \notin running
  /\ Go(t, "heal")
  /\ UNCHANGED <<control, legs, tun, proxy, mode, sync, locals, ui, spent>>

HealBegins(t) ==
  /\ pc[t] = "heal"
  /\ IF Active(t) /\ exitPort THEN StopTun /\ Go(t, "reopen")
                              ELSE UNCHANGED tun /\ Go(t, "fail")
  /\ UNCHANGED <<control, legs, proxy, mode, sync, locals, ui, spent>>

HealLaunches(t) ==
  /\ pc[t] = "reopen"
  /\ running' = running \union {t}
  /\ Go(t, "reassign")
  /\ UNCHANGED <<control, legs, slot, proxy, mode, sync, locals, ui, spent>>

HealAssigns(t) ==
  /\ pc[t] = "reassign"
  /\ slot' = t /\ UNCHANGED running
  /\ SuspendProxy
  /\ Go(t, "reverify")
  /\ UNCHANGED <<control, legs, mode, sync, locals, ui, spent>>

Healed(t) ==
  /\ pc[t] = "reverify" /\ Listening /\ running # {}
  /\ Go(t, "watch")
  /\ UNCHANGED <<control, legs, tun, proxy, mode, sync, locals, ui, spent>>

NotHealed(t) ==
  /\ pc[t] = "reverify"
  /\ Go(t, "fail")
  /\ UNCHANGED <<control, legs, tun, proxy, mode, sync, locals, ui, spent>>

HealFails(t) ==
  /\ pc[t] = "fail"
  /\ Fail
  /\ Go(t, "done")
  /\ UNCHANGED <<epoch, connectEpoch, stop, watchdog, legs, mode, sync, locals, ui,
                 spent>>
-----------------------------------------------------------------------------
(* The processes the session depends on may stop at any time.              *)
LegDies ==
  /\ spent.legs < MaxLegs
  /\ spent' = [spent EXCEPT !.legs = @ + 1]
  /\ \/ aether /\ aether' = FALSE /\ UNCHANGED psiphon
     \/ psiphon /\ psiphon' = FALSE /\ UNCHANGED aether
  /\ UNCHANGED <<control, direct, exitPort, tun, proxy, mode, sync, pc, locals, ui>>

TunDies ==
  /\ spent.tuns < MaxTuns /\ slot \in running
  /\ spent' = [spent EXCEPT !.tuns = @ + 1]
  /\ running' = running \ {slot}
  /\ UNCHANGED <<control, legs, slot, proxy, mode, sync, pc, locals, ui>>
-----------------------------------------------------------------------------
Cancels(t) ==
  \/ CancelStale(t) \/ CancelBegins(t) \/ JoinedStale(t) \/ JoinedCurrent(t)
  \/ StopLegs(t) \/ StopExit(t) \/ ClearPort(t)

Connecting(t) ==
  \/ NoOlderWork(t) \/ OlderWork(t) \/ OlderWorkEnded(t) \/ CheckEpoch(t)
  \/ ClearStop(t) \/ PortBusy(t) \/ Begin(t) \/ ChooseExit(t)
  \/ SetConnected(t) \/ StartWatchdog(t) \/ ConnectReturns(t) \/ ConnectRaises(t)

Dials(t) ==
  \/ StartOuter(t) \/ OuterReady(t) \/ OuterFails(t) \/ CheckInner(t)
  \/ StartPsiphon(t) \/ PsiphonConnected(t) \/ PsiphonFails(t)

Enables(t) ==
  \/ OpenForwarder(t) \/ ResumeProxy(t) \/ ResumeRaises(t) \/ OwnProxySession(t)
  \/ TunUnavailable(t) \/ PrepareTun(t) \/ LaunchTun(t) \/ AssignTun(t)
  \/ VerifyStopped(t) \/ TunVerified(t) \/ TunRejected(t)

Swaps(t) ==
  \/ SwitchNothing(t) \/ SwitchBegins(t) \/ SwitchDone(t) \/ SwitchStopped(t)
  \/ SwitchRetries(t) \/ SwitchRaises(t) \/ SwitchFails(t)

Watches(t) ==
  \/ WatchdogEnds(t) \/ LegLost(t) \/ RecoverStopped(t) \/ RebuildLegs(t)
  \/ RecoverRefused(t) \/ RecoverKeepsExit(t) \/ RecoverRebuildsExit(t)
  \/ Recovered(t) \/ RecoverFails(t) \/ RetrySoon(t) \/ ReleaseExit(t)
  \/ TunLost(t) \/ HealBegins(t) \/ HealLaunches(t) \/ HealAssigns(t)
  \/ Healed(t) \/ NotHealed(t) \/ HealFails(t)

Step(t) ==
  \/ Cancels(t) \/ Connecting(t) \/ Dials(t) \/ Enables(t)
  \/ Swaps(t) \/ Watches(t)

Clicks(t) == Connect(t) \/ Disconnect(t) \/ SetExitMode(t)

Next == (\E t \in Threads : Step(t) \/ Clicks(t)) \/ LegDies \/ TunDies

Spec == Init /\ [][Next]_vars

\* Threads run; what the user does and what dies is left open.
FairSpec == Spec /\ \A t \in Threads : WF_vars(Step(t))
-----------------------------------------------------------------------------
Quiet == \A t \in Threads : Ended(t)

\* The last thing the user asked for was to disconnect, and all threads ended.
Disconnected == Quiet /\ request = "disconnect"

(* No connect, reconnect or cancel that overlaps a disconnect leaves the    *)
(* WARP process running after it: the epoch is compared under _lock, where  *)
(* _raise_outer_leg starts the process.                                     *)
AetherDown == Disconnected => ~aether

(* README.en.md:46: nor does it leave the device routed through sing-box,   *)
(* also when the disconnect overlaps the watchdog's repair of a broken TUN. *)
TunDown == Disconnected => running = {}

(* README.en.md:46: the previous proxy is restored on disconnect, also when *)
(* the disconnect overlaps the last steps of a connect.                     *)
ProxyGivenBack == Disconnected => winProxy = "user"

(* When nothing runs any more the page is not "connecting", or the button   *)
(* could never start a session again (the token test of connect's finally). *)
PageNotStuck == Quiet => ~connecting

\* A session is up: its watchdog looks on, nothing else is under way, and no disconnect
\* was pressed whose last steps may sweep a newer session (StaleCancelHarmless).
Settled ==
  /\ connected /\ ~stop /\ exitLock = None
  /\ \A d \in Enders : mine[d] = 0
  /\ \A t \in Threads : pc[t] \in {"new", "done", "watch"}

(* actual_proxy_mode is the "real exit of the running session"              *)
(* (coordinator.py:199), however the user switched, legs were rebuilt and   *)
(* the TUN fell back.  A sing-box that dies by itself is outside of it.     *)
ExitAsShown ==
  Settled => IF proxyMode \/ fellBack THEN winProxy = "app" /\ slot = None
                                      ELSE winProxy # "app" /\ slot # None

Acts(t) == pc'[t] # pc[t] /\ t \notin {Dog(m) : m \in {n \in Mains : pc[n] = "guard"}}

Resources == <<aether, psiphon, slot, running, winProxy>>

\* A session newer than the one t works for has begun.
Overtaken(t) == mine[t] # epoch /\ \E s \in working : mine[s] = epoch

(* coordinator.py:178: a newer connect waits for older work to end, so the  *)
(* thread of an older connect, reconnect or switch starts and stops nothing *)
(* once a newer session has begun, as long as that wait does not run out.   *)
(* A cancel is StaleCancelHarmless; a switch that begins takes the session  *)
(* it finds and is work of that one from then on.                           *)
OldWorkHarmless ==
  [][ \A t \in Threads :
        /\ Acts(t) /\ Overtaken(t) /\ spent.slow = 0
        /\ pc[t] \notin Cancelling \union {"swap"}
        => UNCHANGED Resources ]_vars

(* coordinator.py:515: a newer connect owns the processes, and a cancel     *)
(* that is stale leaves them alone.                                         *)
StaleCancelHarmless ==
  [][ \A t \in Threads :
        Acts(t) /\ Overtaken(t) /\ pc[t] \in Cancelling => UNCHANGED Resources ]_vars

(* A disconnect returns, whatever reconnect or switch holds _exit_lock.     *)
DisconnectReturns ==
  \A t \in Enders : pc[t] = "cancel" ~> pc[t] = "done"

(* After the last disconnect every thread of the session ends by itself.    *)
SessionEnds == request = "disconnect" ~> (Quiet \/ request # "disconnect")
=============================================================================
