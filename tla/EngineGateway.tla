---------------------------- MODULE EngineGateway ----------------------------
(***************************************************************************)
(* class Engine of uac_desktop/engine.py and class GatewayManager of       *)
(* uac_desktop/gateway.py where they meet: the locks each takes while it   *)
(* calls the other, the run identity, the lease on the sing-box TUN, and   *)
(* the threads of uac_desktop/ui.py that start and stop both.              *)
(*                                                                         *)
(* A step is what a thread does between two points where it may wait or    *)
(* another thread may change what it reads next.  Abstractions:            *)
(*   - one connect tries configurations one after the other; a probe of    *)
(*     the started engine succeeds or fails;                               *)
(*   - the Windows, ARP and forwarder calls of the gateway are one call    *)
(*     that succeeds or fails; tokens are left out, for inside one         *)
(*     instance there is one gateway session at a time;                    *)
(*   - the WindowsProxy calls of Engine are in WindowsProxy.tla;           *)
(*   - RLocks that are entered again by their holder are not counted.      *)
(***************************************************************************)
EXTENDS Integers, Sequences, FiniteSets

CONSTANTS
  Applies,        \* gateway-mode threads, one per click and reset
  Workers,        \* mobile-gateway threads, one per started gateway
  None,           \* nobody holds the lock
  Bounds          \* how often a behaviour may start Xray, have a Windows
                  \* restore fail, have a process die and switch the profile,
                  \* and whether a dead instance has left its state file

ASSUME BoundsAssumption ==
  Bounds \subseteq [runs : Nat, fails : Nat, deaths : Nat, switches : Nat, stale : BOOLEAN]

UI == "ui"                \* the Qt thread
Connector == "connect"    \* connect-<generation>
Mode == "mode"            \* applies the TUN switch while connected
XrayLog == "xray-log"     \* _read_logs
TunLog == "tun-log"       \* _read_tun_logs
Threads == {UI, Connector, Mode, XrayLog, TunLog} \union Applies \union Workers

ASSUME NoneAssumption == None \notin Threads

ASSUME ThreadsAssumption ==
  /\ Applies \intersect Workers = {}
  /\ {UI, Connector, Mode, XrayLog, TunLog} \intersect (Applies \union Workers) = {}

VARIABLES
  lifecycle,      \* holder of Engine._lifecycle_lock
  serial,         \* holder of GatewayManager._stop_serial
  manager,        \* holder of GatewayManager._lock
  applying,       \* holder of MainWindow._gateway_apply_lock
  runId, active,  \* _run_id, _active
  xray,           \* the Xray process runs
  tun,            \* tun_process: "none", "up", "dead"
  lease, owns,    \* "gateway" in _tun_leases, _gateway_owns_tun
  file,           \* the gateway's state file: "none", "stale", "own"
  gateway,        \* GatewayManager._active
  worker,         \* _worker
  stopEvent,      \* _stop_event
  connecting,     \* the page is connecting
  shown,          \* _ui_running: the page shows a connection
  overlooked,     \* history: the page was told of the Xray that runs and took it
                  \* for none, for its TUN mode was on and no TUN ran
  cancel,         \* _connect_cancel
  requested,      \* _gateway_requested
  gate,           \* the gateway-mode thread whose cancel event is not set
  signals,        \* state(True) and state(False) signals queued for the page
  pc,
  back,           \* where a thread goes on after GatewayManager.stop
  after,          \* and after Engine._stop_locked
  rid,            \* expected_run_id
  seen,           \* the run id GatewayManager read before it calls Engine
  failed,         \* threads whose GatewayManager.stop has errors
  userTun,        \* history: the TUN is the user's own TUN mode
  last,           \* history: what the user asked the engine for last
  left,           \* what is left of the bounds
  smooth          \* history: no restore failed, no process died, no profile was
                  \* switched, there was no stale file

locks == <<lifecycle, serial, manager, applying>>
engine == <<runId, active, xray>>
device == <<tun, lease, owns, userTun>>
gw == <<file, gateway, worker, stopEvent>>
page == <<connecting, shown, overlooked, cancel, requested, gate, signals, last>>
local == <<back, after, rid, seen, failed>>
budget == <<left, smooth>>
vars == <<locks, engine, device, gw, page, pc, local, budget>>

AnyRun == -1              \* expected_run_id=None

Stopping == {"serial", "begin", "join", "end", "lease"}
Starting == {"ready", "recover", "detect", "acquire", "adapter", "return",
             "apply", "undo"}
PCs == {"idle", "done", "lock", "body", "start", "spawn", "probe", "failed",
        "tun on", "tun off", "died", "watch", "ended",
        "queued on", "check on", "started", "current",
        "queued off", "check off", "drop", "applied", "disabled", "leave", "give up",
        "off"}
       \union Stopping \union Starting

TypeOK ==
  /\ lifecycle \in Threads \union {None} /\ serial \in Threads \union {None}
  /\ manager \in Threads \union {None} /\ applying \in Applies \union {None}
  /\ runId \in Nat /\ active \in BOOLEAN /\ xray \in BOOLEAN
  /\ tun \in {"none", "up", "dead"} /\ lease \in BOOLEAN /\ owns \in BOOLEAN
  /\ file \in {"none", "stale", "own"} /\ gateway \in BOOLEAN
  /\ worker \in Workers \union {None} /\ stopEvent \in BOOLEAN
  /\ connecting \in BOOLEAN /\ cancel \in BOOLEAN /\ requested \in BOOLEAN
  /\ gate \in Applies \union {None}
  /\ shown \in BOOLEAN /\ overlooked \in BOOLEAN /\ signals \in Seq(BOOLEAN)
  /\ pc \in [Threads -> PCs]
  /\ back \in [Threads -> {"lock", "body", "applied", "disabled", "leave", "ended"}]
  /\ after \in [Threads -> {"idle", "spawn", "failed", "start", "give up", "off"}]
  /\ rid \in [Threads -> Nat \union {AnyRun}] /\ seen \in [Threads -> Nat]
  /\ failed \subseteq Threads
  /\ userTun \in BOOLEAN /\ last \in {"none", "connect", "disconnect"}
  /\ left \in [runs : Nat, fails : Nat, deaths : Nat, switches : Nat, stale : BOOLEAN]
  /\ smooth \in BOOLEAN

Init ==
  /\ lifecycle = None /\ serial = None /\ manager = None /\ applying = None
  /\ runId = 0 /\ active = FALSE /\ xray = FALSE
  /\ tun = "none" /\ lease = FALSE /\ owns = FALSE /\ userTun = FALSE
  /\ left \in Bounds /\ smooth = ~left.stale
  /\ file = IF left.stale THEN "stale" ELSE "none"
  /\ gateway = FALSE /\ worker = None /\ stopEvent = FALSE
  /\ connecting = FALSE /\ cancel = FALSE /\ requested = FALSE /\ gate = None
  /\ shown = FALSE /\ overlooked = FALSE /\ signals = <<>> /\ last = "none"
  /\ pc = [t \in Threads |-> "idle"]
  /\ back = [t \in Threads |-> "leave"]
  /\ after = [t \in Threads |-> "idle"]
  /\ rid = [t \in Threads |-> 0] /\ seen = [t \in Threads |-> 0]
  /\ failed = {}
-----------------------------------------------------------------------------
Go(t, l) == pc' = [pc EXCEPT ![t] = l]

Running == active /\ xray

\* A Windows restore, which may raise; a process that ends by itself.
Restores == UNCHANGED budget
RestoreFails ==
  left.fails > 0 /\ left' = [left EXCEPT !.fails = @ - 1] /\ smooth' = FALSE
Dies ==
  left.deaths > 0 /\ left' = [left EXCEPT !.deaths = @ - 1] /\ smooth' = FALSE

NextRun ==
  left.runs > 0 /\ left' = [left EXCEPT !.runs = @ - 1] /\ UNCHANGED smooth

\* Calls GatewayManager.stop; l is where the caller goes on.
CallStop(t, l) == Go(t, "serial") /\ back' = [back EXCEPT ![t] = l]

\* Faulty: Engine.stop takes its lock before it stops the gateway.
EngineStopBegins_Locked == "lock"

\* Engine.stop calls before_engine_stop without its lock first.
EngineStopBegins == "serial"

CallEngineStop(t, l) ==
  /\ Go(t, EngineStopBegins)
  /\ back' = [back EXCEPT ![t] = "lock"] /\ after' = [after EXCEPT ![t] = l]

\* GatewayManager.stop returns, and so does Engine._stop_locked.
Returns(t) == Go(t, back[t]) /\ back' = [back EXCEPT ![t] = "leave"]
StopReturns(t) == Go(t, after[t]) /\ after' = [after EXCEPT ![t] = "idle"]

\* stop(..., engine_stopping=True), from before_engine_stop
EngineStopping(t) == back[t] \in {"lock", "body"}

\* release_tun(owner="gateway") when the run is still the one it expects
ReleaseLease ==
  /\ lease' = FALSE
  /\ owns' = (owns /\ ~lease)
  /\ tun' = IF lease /\ owns THEN "none" ELSE tun
  /\ UNCHANGED userTun
-----------------------------------------------------------------------------
(* GatewayManager.stop                                                     *)
Serialise(t) ==
  /\ pc[t] = "serial" /\ serial = None
  /\ serial' = t
  /\ Go(t, "begin")
  /\ UNCHANGED <<lifecycle, manager, applying, engine, device, gw, page, local, budget>>

NothingToStop(t) ==
  /\ pc[t] = "begin" /\ manager = None
  /\ file = "none" /\ ~gateway
  /\ serial' = None
  /\ Returns(t)
  /\ UNCHANGED <<lifecycle, manager, applying, engine, device, gw, page, after, rid, seen,
                 failed, budget>>

StopBegins(t) ==
  /\ pc[t] = "begin" /\ manager = None
  /\ file # "none" \/ gateway
  /\ stopEvent' = TRUE
  /\ Go(t, "join")
  /\ UNCHANGED <<locks, engine, device, file, gateway, worker, page, local, budget>>

\* The join times out on a worker that waits in its own call of stop.
StopJoins(t) ==
  /\ pc[t] = "join"
  /\ worker \notin {None, t} => pc[worker] # "watch"
  /\ Go(t, "end")
  /\ UNCHANGED <<locks, engine, device, gw, page, local, budget>>

\* The end of stop: the state file stays when something failed.
StopEnds(t, errors) ==
  /\ file' = IF errors THEN file ELSE "none"
  /\ gateway' = FALSE /\ worker' = None /\ UNCHANGED stopEvent
  /\ manager' = None /\ serial' = None
  /\ failed' = failed \ {t}
  /\ Returns(t)

\* _restore_state; an engine that stops takes its TUN down itself.
StopRestores(t) ==
  /\ pc[t] = "end" /\ manager = None
  /\ EngineStopping(t) \/ file = "none"
  /\ \/ Restores /\ StopEnds(t, FALSE)
     \/ RestoreFails /\ StopEnds(t, TRUE)
  /\ UNCHANGED <<lifecycle, applying, engine, device, page, after, rid, seen>>

StopRestoresAndReleases(t) ==
  /\ pc[t] = "end" /\ manager = None
  /\ ~EngineStopping(t) /\ file # "none"
  /\ \/ Restores /\ UNCHANGED failed
     \/ RestoreFails /\ failed' = failed \union {t}
  /\ manager' = t
  /\ seen' = [seen EXCEPT ![t] = runId]
  /\ Go(t, "lease")
  /\ UNCHANGED <<lifecycle, serial, applying, engine, device, gw, page, back, after,
                 rid>>

\* _release_tun, which takes the engine's lock while it holds both of ours
StopReleases(t) ==
  /\ pc[t] = "lease" /\ lifecycle = None
  /\ IF seen[t] = runId THEN ReleaseLease ELSE UNCHANGED device
  /\ StopEnds(t, t \in failed \/ seen[t] # runId)
  /\ UNCHANGED <<lifecycle, applying, engine, page, after, rid, seen, budget>>
-----------------------------------------------------------------------------
(* Engine.stop and Engine._stop_locked                                     *)
EngineLock(t) ==
  /\ pc[t] = "lock" /\ lifecycle = None
  /\ lifecycle' = t
  /\ CallStop(t, "body")
  /\ UNCHANGED <<serial, manager, applying, engine, device, gw, page, after, rid, seen,
                 failed, budget>>

\* Faulty: the gateway's lease outlives the run.
DiscardLease_Kept == UNCHANGED <<lease, owns>>
DiscardLease == lease' = FALSE /\ owns' = FALSE

\* Faulty: a TUN the gateway uses is left to the gateway.
StopTun_Leased == tun' = IF lease THEN tun ELSE "none"
StopTun == tun' = "none"

\* Faulty: nobody tells the page.
TellPage_Silent(t) == UNCHANGED signals
\* notify=True is what the log readers pass.
TellPage(t) == signals' = IF active /\ t \in {XrayLog, TunLog}
                          THEN Append(signals, FALSE) ELSE signals

StopLocked(t) ==
  /\ pc[t] = "body"
  /\ DiscardLease /\ StopTun /\ userTun' = FALSE
  /\ active' = FALSE /\ xray' = FALSE /\ runId' = runId + 1
  /\ TellPage(t)
  /\ lifecycle' = IF after[t] = "spawn" THEN lifecycle ELSE None
  /\ StopReturns(t)
  /\ UNCHANGED <<serial, manager, applying, gw, connecting, shown, overlooked, cancel,
                 requested, gate, last, back, rid, seen, failed, budget>>
-----------------------------------------------------------------------------
(* the connect thread, with Engine.start                                   *)
StartEngine(t) ==
  /\ t = Connector /\ pc[t] = "start" /\ lifecycle = None /\ ~cancel
  /\ lifecycle' = t
  /\ after' = [after EXCEPT ![t] = "spawn"]
  /\ CallStop(t, "body")
  /\ UNCHANGED <<serial, manager, applying, engine, device, gw, page, rid, seen, failed,
                 budget>>

Spawn(t) ==
  /\ pc[t] = "spawn" /\ ~cancel
  /\ runId' = runId + 1 /\ active' = TRUE /\ xray' = TRUE
  /\ rid' = [rid EXCEPT ![t] = runId']
  /\ lifecycle' = None
  /\ Go(t, "probe")
  /\ UNCHANGED <<serial, manager, applying, device, gw, page, back, after, seen, failed,
                 budget>>

SpawnFails(t) ==
  /\ pc[t] = "spawn"
  /\ after' = [after EXCEPT ![t] = "failed"]
  /\ CallStop(t, "body")
  /\ UNCHANGED <<locks, engine, device, gw, page, rid, seen, failed, budget>>

\* EngineCancelled ends the attempt; whoever cancelled it stops the engine.
AttemptCancelled(t) ==
  /\ pc[t] \in {"start", "failed", "probe"} /\ cancel
  /\ pc[t] = "start" => lifecycle = None
  /\ Go(t, "idle")
  /\ UNCHANGED <<locks, engine, device, gw, page, local, budget>>

\* The next configuration, or no more of them.
AttemptFails(t) ==
  /\ pc[t] \in {"failed", "probe"} /\ ~cancel
  /\ \/ NextRun /\ CallEngineStop(t, "start")
     \/ CallEngineStop(t, "give up") /\ UNCHANGED budget
  /\ UNCHANGED <<locks, engine, device, gw, page, rid, seen, failed>>

\* error and state(False) for the page, and once more Engine.stop
GiveUp(t) ==
  /\ pc[t] = "give up"
  /\ IF cancel
     THEN Go(t, "idle") /\ UNCHANGED <<connecting, signals, back, after>>
     ELSE /\ connecting' = FALSE /\ signals' = Append(signals, FALSE)
          /\ CallEngineStop(t, "idle")
  /\ UNCHANGED <<locks, engine, device, gw, shown, overlooked, cancel, requested,
                 gate, last, rid, seen, failed, budget>>

\* With the TUN mode on, the TUN comes first.
AttemptSucceeds(t) ==
  /\ pc[t] = "probe" /\ ~cancel
  /\ \/ Go(t, "idle") /\ signals' = Append(signals, TRUE)
     \/ Go(t, "tun on") /\ UNCHANGED signals
  /\ UNCHANGED <<locks, engine, device, gw, connecting, shown, overlooked, cancel,
                 requested, gate, last, local, budget>>
-----------------------------------------------------------------------------
(* Engine.enable_tun and disable_tun for the user's TUN mode               *)
\* Faulty: a TUN the gateway brought up stays the gateway's.
EnableTun_KeepsOwner ==
  /\ tun' = "up" /\ userTun' = TRUE
  /\ UNCHANGED <<lease, owns>>

EnableTun ==
  /\ tun' = "up" /\ userTun' = TRUE
  /\ owns' = (owns /\ tun # "up") /\ UNCHANGED lease

\* A TUN without traffic fails a connect, and is taken down otherwise.
TunOn(t) ==
  /\ pc[t] = "tun on" /\ lifecycle = None
  /\ rid[t] = runId /\ Running /\ ~cancel
  /\ EnableTun
  /\ \/ /\ Go(t, "idle")
        /\ signals' = IF t = Connector THEN Append(signals, TRUE) ELSE signals
     \/ Go(t, IF t = Connector THEN "failed" ELSE "tun off") /\ UNCHANGED signals
  /\ UNCHANGED <<locks, engine, gw, connecting, shown, overlooked, cancel, requested,
                 gate, last, local, budget>>

\* EngineCancelled, or sing-box does not start: a connect tries the next one.
TunRefused(t) ==
  /\ pc[t] = "tun on" /\ lifecycle = None
  /\ Go(t, IF t = Connector THEN "failed" ELSE "idle")
  /\ UNCHANGED <<locks, engine, device, gw, page, local, budget>>

TunOff(t) ==
  /\ pc[t] = "tun off" /\ lifecycle = None
  /\ IF rid[t] = runId
     THEN /\ userTun' = FALSE /\ UNCHANGED lease
          /\ IF lease THEN owns' = TRUE /\ UNCHANGED tun
                      ELSE tun' = "none" /\ UNCHANGED owns
     ELSE UNCHANGED device
  /\ Go(t, "idle")
  /\ UNCHANGED <<locks, engine, gw, page, local, budget>>
-----------------------------------------------------------------------------
(* The processes that end by themselves, and the readers of their logs     *)
XrayDies ==
  /\ xray /\ Dies /\ pc[XrayLog] = "idle"
  /\ xray' = FALSE
  /\ rid' = [rid EXCEPT ![XrayLog] = runId]
  /\ Go(XrayLog, "died")
  /\ UNCHANGED <<locks, runId, active, device, gw, page, back, after, seen, failed>>

\* The decision is made under the lock, the stop after it.
XrayLogEnds(t) ==
  /\ t = XrayLog /\ pc[t] = "died" /\ lifecycle = None
  /\ IF rid[t] = runId /\ active THEN CallEngineStop(t, "idle")
                                 ELSE Go(t, "idle") /\ UNCHANGED <<back, after>>
  /\ UNCHANGED <<locks, engine, device, gw, page, rid, seen, failed, budget>>

TunDies ==
  /\ tun = "up" /\ Dies /\ pc[TunLog] = "idle"
  /\ tun' = "dead" /\ userTun' = FALSE
  /\ Go(TunLog, "died")
  /\ UNCHANGED <<locks, engine, lease, owns, gw, page, local>>

TunLogEnds(t) ==
  /\ t = TunLog /\ pc[t] = "died" /\ lifecycle = None
  /\ IF tun = "dead" /\ ~lease
     THEN CallEngineStop(t, "idle") /\ UNCHANGED tun
     ELSE /\ Go(t, "idle") /\ UNCHANGED <<back, after>>
          /\ tun' = (IF tun = "dead" THEN "none" ELSE tun)
  /\ UNCHANGED <<locks, engine, lease, owns, userTun, gw, page, rid, seen, failed, budget>>
-----------------------------------------------------------------------------
(* a gateway-mode thread: Engine.enable_gateway and GatewayManager.start   *)
Current(g) ==
  gate = g /\ rid[g] = runId /\ Running /\ shown /\ ~connecting /\ requested

Granted(g) == gate = g /\ rid[g] = runId

Overtaken(g) ==
  /\ pc[g] \in {"queued on", "queued off"} /\ applying = None
  /\ IF pc[g] = "queued on" THEN ~Current(g) ELSE gate # g
  /\ Go(g, "done")
  /\ UNCHANGED <<locks, engine, device, gw, page, local, budget>>

ApplyOn(g) ==
  /\ pc[g] = "queued on" /\ applying = None /\ Current(g)
  /\ applying' = g
  /\ Go(g, "check on")
  /\ UNCHANGED <<lifecycle, serial, manager, engine, device, gw, page, local, budget>>

CheckOn(g) ==
  /\ pc[g] = "check on" /\ lifecycle = None
  /\ Go(g, IF Granted(g) /\ Running THEN "ready" ELSE "applied")
  /\ UNCHANGED <<locks, engine, device, gw, page, local, budget>>

\* Already active, cancelled, the state of a live owner, no engine.
StartReturns(g) ==
  /\ pc[g] = "ready" /\ manager = None
  /\ gateway \/ gate # g \/ file = "own" \/ (file = "none" /\ ~Running)
  /\ Go(g, IF gateway /\ gate = g THEN "started" ELSE "applied")
  /\ UNCHANGED <<locks, engine, device, gw, page, local, budget>>

StartGateway(g) ==
  /\ pc[g] = "ready" /\ manager = None /\ ~gateway /\ gate = g
  /\ \/ file = "none" /\ Running /\ Go(g, "detect")
     \/ file = "stale" /\ Go(g, "recover")
  /\ manager' = g
  /\ UNCHANGED <<lifecycle, serial, applying, engine, device, gw, page, local, budget>>

\* start raises.
Raise(g) == manager' = None /\ Go(g, "applied")

\* recover(force=True), which takes _stop_serial while start holds _lock
Recover(g) ==
  /\ pc[g] = "recover" /\ serial = None
  /\ \/ /\ Restores
        /\ file' = "none"
        /\ IF gate = g /\ Running THEN Go(g, "detect") /\ UNCHANGED manager
                                  ELSE Raise(g)
     \/ RestoreFails /\ UNCHANGED file /\ Raise(g)
  /\ UNCHANGED <<lifecycle, serial, applying, engine, device, gateway, worker,
                 stopEvent, page, local>>

Detect(g) ==
  /\ pc[g] = "detect"
  /\ \/ gate = g /\ Go(g, "acquire") /\ UNCHANGED manager
     \/ Raise(g)
  /\ seen' = [seen EXCEPT ![g] = runId]
  /\ UNCHANGED <<lifecycle, serial, applying, engine, device, gw, page, back, after,
                 rid, failed, budget>>

\* Engine.acquire_tun
Acquire(g) ==
  /\ pc[g] = "acquire" /\ lifecycle = None
  /\ seen[g] = runId /\ Running
  /\ lease' = TRUE
  /\ owns' = (IF lease THEN owns ELSE tun # "up")
  /\ tun' = (IF lease THEN tun ELSE "up")
  /\ Go(g, "adapter")
  /\ UNCHANGED <<locks, engine, userTun, gw, page, local, budget>>

AcquireRaises(g) ==
  /\ pc[g] = "acquire" /\ lifecycle = None
  /\ seen[g] # runId \/ ~Running \/ (~lease /\ tun # "up")
  /\ Raise(g)
  /\ UNCHANGED <<lifecycle, serial, applying, engine, device, gw, page, local, budget>>

AdapterUp(g) ==
  /\ pc[g] = "adapter" /\ gate = g
  /\ Go(g, "apply")
  /\ UNCHANGED <<locks, engine, device, gw, page, local, budget>>

AdapterMissing(g) ==
  /\ pc[g] = "adapter" /\ gate = g
  /\ seen' = [seen EXCEPT ![g] = runId]
  /\ Go(g, "return")
  /\ UNCHANGED <<locks, engine, device, gw, page, back, after, rid, failed, budget>>

\* The lease is given back before the next try, or before start raises.
ReturnLease(g) ==
  /\ pc[g] = "return" /\ lifecycle = None
  /\ IF seen[g] = runId
     THEN /\ ReleaseLease /\ UNCHANGED seen
          /\ \/ gate = g /\ Go(g, "detect") /\ UNCHANGED manager
             \/ Raise(g)
     ELSE /\ seen' = [seen EXCEPT ![g] = runId]
          /\ Go(g, "undo") /\ UNCHANGED <<device, manager>>
  /\ UNCHANGED <<lifecycle, serial, applying, engine, gw, page, back, after, rid, failed,
                 budget>>

ApplyGateway(g) ==
  /\ pc[g] = "apply" /\ gate = g
  /\ file' = "own" /\ gateway' = TRUE /\ stopEvent' = FALSE
  /\ \E w \in Workers :
       /\ pc[w] = "idle"
       /\ worker' = w
       /\ pc' = [pc EXCEPT ![g] = "started", ![w] = "watch"]
  /\ manager' = None
  /\ UNCHANGED <<lifecycle, serial, applying, engine, device, page, local, budget>>

\* Cancelled or failed after the lease: what was written is restored.
ApplyFails(g) ==
  /\ pc[g] = "apply" \/ (pc[g] = "adapter" /\ gate # g)
  /\ \/ Restores /\ UNCHANGED file
     \/ pc[g] = "apply" /\ RestoreFails /\ file' = "own"
  /\ seen' = [seen EXCEPT ![g] = runId]
  /\ Go(g, "undo")
  /\ UNCHANGED <<locks, engine, device, gateway, worker, stopEvent, page, back, after,
                 rid, failed>>

UndoLease(g) ==
  /\ pc[g] = "undo" /\ lifecycle = None
  /\ IF seen[g] = runId THEN ReleaseLease ELSE UNCHANGED device
  /\ Raise(g)
  /\ UNCHANGED <<lifecycle, serial, applying, engine, gw, page, local, budget>>

\* enable_gateway after start: the run may be another one by now.
StartedStale(g) ==
  /\ pc[g] = "started" /\ lifecycle = None /\ ~Granted(g)
  /\ CallStop(g, "applied")
  /\ UNCHANGED <<locks, engine, device, gw, page, after, rid, seen, failed, budget>>

Started(g) ==
  /\ pc[g] = "started" /\ lifecycle = None /\ Granted(g)
  /\ Go(g, "current")
  /\ UNCHANGED <<locks, engine, device, gw, page, local, budget>>

StillCurrent(g) ==
  /\ pc[g] = "current"
  /\ Go(g, IF Current(g) THEN "applied" ELSE "drop")
  /\ UNCHANGED <<locks, engine, device, gw, page, local, budget>>

(* and Engine.disable_gateway                                              *)
ApplyOff(g) ==
  /\ pc[g] = "queued off" /\ applying = None /\ gate = g
  /\ applying' = g
  /\ Go(g, "check off")
  /\ UNCHANGED <<lifecycle, serial, manager, engine, device, gw, page, local, budget>>

\* Faulty: goes on after its own last step.
CheckOff_Leaks(g) ==
  /\ pc[g] \in {"check off", "drop"} /\ lifecycle = None
  /\ CallStop(g, "done")
  /\ UNCHANGED <<locks, engine, device, gw, page, after, rid, seen, failed, budget>>

CheckOff(g) ==
  /\ pc[g] \in {"check off", "drop"} /\ lifecycle = None
  /\ LET l == IF pc[g] = "drop" THEN "leave" ELSE "disabled"
     IN  IF rid[g] \in {AnyRun, runId} THEN CallStop(g, l)
                                       ELSE Go(g, l) /\ UNCHANGED back
  /\ UNCHANGED <<locks, engine, device, gw, page, after, rid, seen, failed, budget>>

\* The page hears of the end only of a thread that is current.
ApplyEnds(g) ==
  /\ pc[g] \in {"applied", "disabled", "leave"}
  /\ applying' = None
  /\ CASE pc[g] = "applied" /\ Current(g) ->
            gate' = None /\ requested' = gateway
       [] pc[g] = "disabled" /\ gate = g -> gate' = None /\ UNCHANGED requested
       [] OTHER -> UNCHANGED <<gate, requested>>
  /\ Go(g, "done")
  /\ UNCHANGED <<lifecycle, serial, manager, engine, device, gw, connecting, shown,
                 overlooked, cancel, signals, last, local, budget>>
-----------------------------------------------------------------------------
(* GatewayManager._run                                                     *)
WorkerOffline(w) ==
  /\ pc[w] = "watch" /\ ~stopEvent
  /\ CallStop(w, "ended")
  /\ UNCHANGED <<locks, engine, device, gw, page, after, rid, seen, failed, budget>>

\* The page hears that the gateway is inactive.
WorkerEnds(w) ==
  /\ pc[w] = "ended" \/ (pc[w] = "watch" /\ stopEvent)
  /\ requested' = (requested /\ (pc[w] = "ended" => gate # None))
  /\ Go(w, "idle")
  /\ UNCHANGED <<locks, engine, device, gw, connecting, shown, overlooked, cancel,
                 gate, signals, last, local, budget>>
-----------------------------------------------------------------------------
(* The page: toggle_connection, _queue_profile_switch, _set_state,          *)
(* _gateway_mode_changed, _tun_mode_changed.  A page that waits in          *)
(* Engine.stop handles nothing else.                                       *)
PageIdle == pc[UI] = "idle"

\* Qt delivers the signals posted so far before the next click.
PageFree == PageIdle /\ signals = <<>>

Connect ==
  /\ PageFree /\ pc[Connector] = "idle" /\ ~connecting /\ ~Running
  /\ NextRun
  /\ connecting' = TRUE /\ cancel' = FALSE /\ last' = "connect"
  /\ Go(Connector, "start")
  /\ UNCHANGED <<locks, engine, device, gw, shown, overlooked, requested, gate,
                 signals, local>>

\* Faulty: an engine that stops leaves the gateway's threads alone.
ResetGateway_Skipped(g, next) ==
  /\ Go(UI, next) /\ UNCHANGED <<requested, gate, rid>>

\* _reset_gateway_mode, in a thread g of its own where something is to stop;
\* next says where the page goes on.
ResetGateway(g, next) ==
  /\ requested' = FALSE
  /\ IF requested \/ gateway
     THEN /\ pc[g] = "idle" /\ gate' = g
          /\ rid' = [rid EXCEPT ![g] = AnyRun]
          /\ pc' = [pc EXCEPT ![g] = "queued off", ![UI] = next]
     ELSE gate' = None /\ Go(UI, next) /\ UNCHANGED rid

PageStopsEngine ==
  /\ connecting' = FALSE /\ cancel' = TRUE
  /\ back' = [back EXCEPT ![UI] = "lock"]
  /\ after' = [after EXCEPT ![UI] = "off"]

Disconnect(g) ==
  /\ PageFree
  /\ connecting \/ (Running /\ pc[Connector] = "idle")
  /\ ResetGateway(g, EngineStopBegins)
  /\ PageStopsEngine
  /\ last' = "disconnect"
  /\ UNCHANGED <<locks, engine, device, gw, shown, overlooked, signals, seen, failed,
                 budget>>

\* Another profile: the gateway is reset only after Engine.stop.
SwitchProfile ==
  /\ PageFree
  /\ connecting \/ Running \/ pc[Connector] # "idle"
  /\ left.switches > 0 /\ left' = [left EXCEPT !.switches = @ - 1] /\ smooth' = FALSE
  /\ Go(UI, EngineStopBegins)
  /\ PageStopsEngine
  /\ last' = "connect"
  /\ UNCHANGED <<locks, engine, device, gw, shown, overlooked, requested, gate,
                 signals, rid, seen, failed>>

\* _set_state(False), also for a state(True) that comes too late, and for one that
\* comes with the TUN mode on and no TUN: the mode may be clicked while a connect is
\* under way, so it is either.
StateOff(g) ==
  /\ \/ pc[UI] = "off" /\ overlooked' = FALSE /\ UNCHANGED signals
     \/ /\ PageIdle /\ signals # <<>> /\ signals' = Tail(signals)
        /\ Head(signals) /\ Running => tun # "up"
        /\ overlooked' = (Head(signals) /\ Running)
  /\ connecting' = FALSE /\ shown' = FALSE
  /\ ResetGateway(g, "idle")
  /\ UNCHANGED <<locks, engine, device, gw, cancel, last, back, after, seen, failed,
                 budget>>

StateOn ==
  /\ PageIdle /\ signals # <<>> /\ Head(signals) /\ Running
  /\ signals' = Tail(signals)
  /\ connecting' = FALSE /\ shown' = TRUE /\ overlooked' = FALSE
  /\ UNCHANGED <<locks, engine, device, gw, cancel, requested, gate, last, pc, local,
                 budget>>

GatewayOn ==
  /\ PageFree /\ gate = None /\ ~requested
  /\ requested' = TRUE
  /\ UNCHANGED <<locks, engine, device, gw, connecting, shown, overlooked, cancel,
                 gate, signals, last, pc, local, budget>>

QueueOn(g) ==
  /\ PageIdle /\ gate = None /\ requested /\ ~gateway /\ Running
  /\ shown /\ ~connecting /\ pc[g] = "idle"
  /\ gate' = g /\ rid' = [rid EXCEPT ![g] = runId]
  /\ Go(g, "queued on")
  /\ UNCHANGED <<locks, engine, device, gw, connecting, shown, overlooked, cancel,
                 requested, signals, last, back, after, seen, failed, budget>>

GatewayOff(g) ==
  /\ PageFree /\ gate = None /\ requested /\ pc[g] = "idle"
  /\ requested' = FALSE
  /\ gate' = g /\ rid' = [rid EXCEPT ![g] = runId]
  /\ Go(g, "queued off")
  /\ UNCHANGED <<locks, engine, device, gw, connecting, shown, overlooked, cancel,
                 signals, last, back, after, seen, failed, budget>>

\* The switch is locked while the gateway is wanted, runs or changes.
SwitchTun ==
  /\ PageFree /\ pc[Mode] = "idle" /\ Running /\ ~connecting
  /\ ~requested /\ ~gateway /\ gate = None
  /\ rid' = [rid EXCEPT ![Mode] = runId]
  /\ Go(Mode, IF userTun THEN "tun off" ELSE "tun on")
  /\ UNCHANGED <<locks, engine, device, gw, page, back, after, seen, failed, budget>>
-----------------------------------------------------------------------------
StopGateway(t) ==
  \/ Serialise(t) \/ NothingToStop(t) \/ StopBegins(t) \/ StopJoins(t)
  \/ StopRestores(t) \/ StopRestoresAndReleases(t) \/ StopReleases(t)

Attempt(t) ==
  \/ StartEngine(t) \/ Spawn(t) \/ SpawnFails(t)
  \/ AttemptCancelled(t) \/ AttemptFails(t) \/ GiveUp(t) \/ AttemptSucceeds(t)

Device(t) == TunOn(t) \/ TunRefused(t) \/ TunOff(t)

ApplyMode(g) ==
  \/ Overtaken(g) \/ ApplyOn(g) \/ CheckOn(g) \/ StartReturns(g) \/ StartGateway(g)
  \/ Recover(g) \/ Detect(g) \/ Acquire(g) \/ AcquireRaises(g) \/ AdapterUp(g)
  \/ AdapterMissing(g) \/ ReturnLease(g) \/ ApplyGateway(g) \/ ApplyFails(g)
  \/ UndoLease(g) \/ StartedStale(g) \/ Started(g) \/ StillCurrent(g)
  \/ ApplyOff(g) \/ CheckOff(g) \/ ApplyEnds(g)

Step(t) ==
  \/ StopGateway(t) \/ EngineLock(t) \/ StopLocked(t) \/ Attempt(t) \/ Device(t)
  \/ XrayLogEnds(t) \/ TunLogEnds(t)

Clicks(g) == Disconnect(g) \/ StateOff(g) \/ QueueOn(g) \/ GatewayOff(g)

Next ==
  \/ \E t \in Threads : Step(t)
  \/ \E g \in Applies : ApplyMode(g) \/ Clicks(g)
  \/ \E w \in Workers : WorkerOffline(w) \/ WorkerEnds(w)
  \/ Connect \/ SwitchProfile \/ StateOn \/ GatewayOn \/ SwitchTun
  \/ XrayDies \/ TunDies

Spec == Init /\ [][Next]_vars

\* The threads are scheduled; clicks, deaths and an offline source are not.
FairSpec ==
  /\ Spec
  /\ \A t \in Threads : WF_vars(Step(t))
  /\ \A g \in Applies : WF_vars(ApplyMode(g))
  /\ \A w \in Workers : WF_vars(WorkerEnds(w))
-----------------------------------------------------------------------------
Quiet == \A t \in Threads : pc[t] \in {"idle", "done", "watch"}

\* The lock a thread waits for, next to those it holds.
Holder == [lifecycle |-> lifecycle, serial |-> serial, manager |-> manager,
           applying |-> applying]
Locks == DOMAIN Holder

Wants(t) ==
  CASE pc[t] = "serial" -> "serial"
    [] pc[t] \in {"begin", "end", "ready"} -> "manager"
    [] pc[t] = "recover" -> "serial"
    [] pc[t] \in {"lease", "lock", "start", "died", "tun on", "tun off", "check on",
                  "check off", "drop", "acquire", "return", "undo", "started"} -> "lifecycle"
    [] pc[t] \in {"queued on", "queued off"} -> "applying"
    [] OTHER -> "none"

Circle ==
  \E L \in (SUBSET Locks) \ {{}} :
    \A l \in L : Holder[l] # None /\ Wants(Holder[l]) \in L

\* Lock order, engine.py:3125 and gateway.py:1565, 2131: threads that stop and start
\* the engine and the gateway never wait for each other in a circle, as long as
\* every Windows restore succeeds, no process dies, no dead instance has left a
\* state file and no profile is switched (each of these makes a circle reachable).
NoCircularWait == smooth => ~Circle

\* engine.py:3133: when all threads have ended after Disconnect, nothing of the
\* session is left, whatever connect, gateway or log thread ran meanwhile.
DisconnectedClean ==
  Quiet /\ last = "disconnect" => ~active /\ tun = "none" /\ ~lease /\ ~gateway

\* engine.py:2406: the gateway's lease never takes the TUN away from a user who
\* switched the TUN mode on while the gateway was using or starting it.
UserTunKept ==
  [][smooth' /\ userTun /\ tun = "up" /\ tun' = "none" => ~userTun']_vars

\* engine.py:2354: a lease outlives its holder only together with the state file
\* that lets the next start give it back, and that file stays without a running
\* gateway only when a restore failed (gateway.py:1742, 2155).
NoLeakedLease ==
  /\ Quiet => (lease => gateway \/ file = "own")
  /\ Quiet /\ smooth => (file = "own" => gateway)

\* ui.py:6544: a gateway-mode thread that ends without telling the page leaves the
\* gateway switch locked at rest only when a fault came between, and only while Xray
\* runs: the next disconnect frees it.  (Xray dies, and the user connects again before
\* its log thread has told the page: the thread of the old run keeps the switch.)
ToggleFree == Quiet /\ signals = <<>> /\ gate # None => Running /\ ~smooth

\* ui.py:10393: with every signal handled, the page shows a connection exactly when
\* Xray runs; the one exception is an Xray that was announced while the TUN mode was
\* on and no TUN was up, which the page takes for none until the next state signal or
\* its own Engine.stop.
PageAgrees == Quiet /\ signals = <<>> => (shown <=> Running /\ ~overlooked)

\* engine.py:3125: Engine.stop called by the page comes back.
EngineStopReturns == pc[UI] = "serial" ~> pc[UI] = "off"
=============================================================================
