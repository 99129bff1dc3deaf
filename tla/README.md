# A verification development of UAC Spoofer for Windows

These TLA+ modules model the parts of UAC Spoofer (`src/`) that change the state of the user's
computer or let several threads and processes work on one piece of state. TLC checks small instances,
TLAPS proves theorems for every value of the constants.

## 1. The system

UAC Spoofer is a Windows desktop program (Python, Qt) that carries the user's traffic around
censorship. It has two engines: the *UAC engine* (Xray with tuned "genes", a wrong-sequence
injector) and *UAC PoW* (WARP through a local `aether` process, Psiphon behind it). Either one reaches
Windows in one of two ways, the WinINET proxy settings or a TUN device of sing-box. A *LAN gateway*
can carry other devices' traffic through the UAC engine's TUN.

| Component | State it keeps | Operations | Works with |
|---|---|---|---|
| Windows proxy override, `engine.py` `WindowsProxy` | registry values, `windows-proxy-restore.json`, `_previous`, `_state_token` | resume, suspend, suspend_for_tun, disable, recover_stale | both engines, `main.py`, other instances |
| UAC PoW session, `pow/coordinator.py` `PowCoordinator`, `pow_ui.py` | epoch, stop event, transport processes, sing-box, exit mode, work count | connect, disconnect, switch_exit_mode, watchdog, recover, TUN repair | WindowsProxy, runner, psiphon, tun_guard, page |
| PoW transports, the same class, `pow/runner.py`, `pow/psiphon.py` | protocols, keys and transports left to try, what the session says of itself | the ladder of a connect and of a reconnect | aether, Psiphon, key routes |
| PoW parallel tunnels, the same class, `pow/speed.py` | main and extra processes, sticky router | grow, promote, bring back | disconnect, watchdog |
| PoW network memory, `pow/store.py`, `pow/config.py` | per network: winning strategy, RTTs, address pool | load, remember, forget, rank | connects on changing networks |
| UAC engine, `engine.py` `Engine` | Xray, sing-box, run id, TUN leases, restore flags, owner records | start, stop, enable/disable_tun, acquire/release_tun, enable/disable_gateway, proxy modes, log readers | gateway, WindowsProxy, UI |
| Routes, `engine.py`, `pow/coordinator.py` | configurations of sing-box, Xray and the core | build rules for each mode | both engines, LAN |
| LAN gateway, `gateway.py` `GatewayManager` | stage, token, targets, state file, worker, watchdog process | start, stop, recover, add/remove target, watchdog_mode | Engine, gateway backends |
| LAN forwarding helper, `gateway.py` | filter thread, handle, DNS mappings | start, stop, check, rewrite | worker, LAN clients |
| Pattern core, `pattern_core/core.py` | per-connection handshake, shared edge choice | packet handler, fake send, relay, failover | Npcap, event loop |
| Gene plans, `gene_import.py`, `gene_ops.py`, `tls_tools.py` | imported strategies, plan of pieces | import, select, plan | connect, core |
| Connect flow, `ui.py` | attempt queues, budgets, cool-downs, memories | click, attempt, probe, fallback, record | engine, storage, gene pool |
| Profile list, `ui.py` | profiles, active one, Auto Mode, timers | activate, delete, ping, queue a switch | connect flow |
| Settings, `storage.py` | buckets per carrier, statistics, file | carrier switch, save, record results | window and connect threads |
| SNI search, `ui.py`, `network.py` | results, repository, pins, undo | scan, apply, undo | settings |
| SNI Maker, `sni_batch.py`, `ui.py` | table rows, test rounds, signals | import, test, stop, clear | Xray, wizard |
| Wizard, `first_run_wizard.py`, `ui.py` | page, phase, line kind | check, fetch, test, import | SNI Maker |
| Engine switch, `ui.py`, `engine_switch*.py` | engine mode, pages to restyle, shared switches | switch, poll, finish | both engines |
| Page facts, `ui.py`, `ip_info.py` | IP card, latency, cache, question numbers | ask, answer, take over | both engines |
| ECH keys, `ech_keys.py` | cache of keys, lock | race, get, put, refresh | connect, SNI Maker, PoW |
| Data reset, `data_reset.py`, `main.py` | marker file, backup folder | run | start-up, proxy recovery |

What is hard here: the calls of three or four threads (button handlers run in threads of their own, a
watchdog, log readers) interleave on one engine object; two processes share the registry and the state
files; every change of the system must be undone by whoever comes next when the process is killed in
the middle; locks of different objects are taken in both orders; and almost everything the window shows
or remembers arrives as a queued signal about a state that may be over. `PROJECT.json` lists the hazards
one by one, at their lines.

What makes each component correct:

* **Proxy override.** The user's own settings come back exactly, whatever crashes or fails; Windows
  never points at this program without a file that undoes it; instances leave each other's files alone. (The
  one-time data reset of a start is the exception, section 5.)
* **PoW session.** After a disconnect nothing of any attempt survives; an older attempt touches nothing
  of a newer one; the exit shown is the exit there is; disconnects return.
* **PoW transports, tunnels, memory.** What the session says it runs is what runs; an overtaken thread
  leaves no process; what is learned on one leg or network is used on that one.
* **Engine and gateway.** No two calls wait for each other forever; nobody stops a TUN another user
  still needs; a call that was overtaken changes nothing of the new run; a killed application leaves no
  Xray; a packet of the engine never enters the engine's own tunnel.
* **Gateway state.** While Windows forwards for the LAN or a phone is redirected, a file (and a watchdog)
  knows it (until a restore has been tried); a crash at any point ends with Windows as the user had it.
* **Pattern core and genes.** The fake segment goes out before the real hello, modulo 2^32; the hello
  arrives complete and in order; a gene runs as it was confirmed.
* **Connect flow, lists, settings.** A cancelled attempt blames nobody; what is remembered is what ran; a
  queued switch lands on the last choice; one carrier's tuning never ends in another's; the file catches
  up with the memory.
* **Window.** The page shows the engine, exit, address and test results of the connection there is.

## 2. Modules

Three systems of interacting components have modules and instances of their own (2.1 to 2.4). The other
modules model one part each; `Parts` instantiates all of them (2.5).

| Module | What it is |
|---|---|
| `ProxyVault` | abstract specification of the proxy override: a vault |
| `WindowsProxy`, `MCWindowsProxy`, `WindowsProxyProofs` | class `WindowsProxy` with its callers over several instances, its small instances, its theorems |
| `PowSession`, `MCPowSession`, `PowSessionProofs` | class `PowCoordinator` and the page that calls it, its theorems |
| `EngineGateway`, `MCEngineGateway`, `EngineGatewayProofs`, `EngineGatewaySafety` | classes `Engine` and `GatewayManager` with the page's threads that call both, its types and moves, its theorems |
| `GatewayRecovery`, `MCGatewayRecovery`, `GatewayRecoveryProofs` | what the gateway changes outside its process, and who puts it back, its theorems |
| `PowLadder`, `ParallelMasque`, `PowMemory` | UAC PoW: the ladder of a connect, several tunnels, what it learns |
| `ExitModes`, `EngineProcesses`, `TunnelRoutes` | UAC engine: the exit switches, processes and records, the rules of a packet |
| `PatternCore`, `GenePlan`, `EchKeys`, `ForwardPath` | the injector, the plans of its pieces, ECH keys, the LAN packet filter |
| `ConnectFlow`, `ProfileList`, `Settings`, `DataReset` | the connect thread, which profile it takes, what is stored, start-up |
| `SniScan`, `SniMaker`, `Wizard` | the searches for usable names |
| `EngineSwitch`, `PageFacts` | the window over two engines |
| `Parts`, `MCParts` | an instance of every module of the six rows above with what they promise together, small values of its constants |
| `PartsProofs`, `EnginePartsProofs` | the theorems of `Parts`: what the window shows and stores; what the engines do and learn |
| `ParallelMasqueProofs` | the theorem of `ParallelMasque` |

### 2.1 WindowsProxy

*State.* `reg` is the three registry values under Internet Settings; `file` is
`windows-proxy-restore.json` as `_load_state` reads it, a damaged file being the defaults it returns;
`guard` is the lock file of `_proxy_state_guard`; per instance `mem` holds `_previous` and
`_state_token` of `Engine.system_proxy`, `tmp` those of the short-lived objects (`PowCoordinator`,
`recover_stale`), `snap` the local `state` of `_disable_locked`; `marker` is the marker file of the one-time data
reset. Two history variables: `user`, the settings the user last chose, and `orphaned`, that a reset has moved a
restore file that was still needed.

*Actions.* Each registry write, the replacement of the file and its removal is a step, so an instance
can die between any two. `AdoptOwned`, `EnableFresh`, `EnableRefused`, `EnableRecovers`, `TakeSnapshot`
and the `Write...` actions are `resume`, `suspend`, `suspend_for_tun` and `_enable_locked`;
`DisableSkips`, `DisableBegins`, the `Restore...` actions and `Unlink` are `_disable_locked`;
`FailsPlain` and `FailsAndRollsBack` are an `OSError` and the roll-back of `_enable_locked`. `Start`,
`RecoverSkips`, `RecoverLoads`, `Quit` and `ExitStops` are `main.py`; between the two recoveries of a start
(`boot1`, `boot2`) `ResetChecks`, `ResetMoves`, `ResetMarks` and `ResetFails` are what `data_reset.run()` does to the
restore file, and `EnterMutex` the test for another instance. `ProxyVault` has a `Lose` for it: the vault may lose
what it keeps, once, and says so (`lost`).

*Abstractions.* A process identity is an element of `Procs` used once; a registry entry is one value,
with "absent" for an entry that does not exist and "missing" for one the file does not mention; the
calls of one instance are serialised (the guard does that for threads of one process); of the data folder only the
restore file is here, `DataReset` has all of it; a machine may start with the marker or without it.

### 2.2 PowSession

*State.* One variable per field of `PowCoordinator` that two threads share (`epoch`, `connectEpoch`,
`stop`, `connected`, `watchdog`, `aether`, `psiphon`, `exitPort`, `slot` for `_tun_process`,
`proxyMode`, `fellBack`, `exitLock`, `working` for `_work_count`), the page's `connecting`, `token` and
`exitChoice`, and what is outside: `running`, the sing-box processes that run, and `winProxy`, what
WindowsProxy made of the settings. A thread is a pair of a role and the click that started it (the constant
`Plans` lists which clicks a user may make in one behaviour); `pc` says where it is, `mine` is `_tls.epoch` (and `seen` of `disconnect`).

*Actions.* A step is what a thread does between two points where another thread can change what it
reads next. `Cancels` is `disconnect`, for the user and as the sweep in front of a connect; `Connecting`
is `connect` and `_connect_session`; `Dials` is the transport and Psiphon; `Enables` is
`_enable_proxy`, `_enable_tun` and `_start_tun_process` with the fallback; `Swaps` is
`switch_exit_mode`; `Watches` is the watchdog, `_recover`, `_restart_tun` and `_fail`. `LegDies` and
`TunDies` are the processes ending by themselves.

*Abstractions.* The ladder of outer transports, the strategies of Psiphon and the three TUN attempts are
one attempt each that succeeds or fails; the session is WARP with Psiphon behind it; the speed options
are off, as by default; the calls of WindowsProxy are atomic here, the module above opens them.

The model composes what `coordinator.py` and the page of `pow_ui.py` do with one process each for the
threads; the restore file and the registry behind `winProxy` are those of the module above.

### 2.3 EngineGateway

*State.* The four locks by holder: `lifecycle` is `Engine._lifecycle_lock`, `serial` and `manager` are
`GatewayManager._stop_serial` and `_lock`, `applying` is `MainWindow._gateway_apply_lock`. `runId`,
`active`, `xray`, `tun`, `lease` and `owns` are the fields of `Engine`; `file`, `gateway`, `worker` and
`stopEvent` those of `GatewayManager`; `connecting`, `shown`, `cancel`, `requested` and `gate` those of
the page, with `signals` for the queued Qt signals. Per thread, `pc` is where it is, `back` and `after`
are where it goes on after `GatewayManager.stop` and `Engine._stop_locked`, `rid` is `expected_run_id`.
`userTun`, `last`, `left`, `smooth` and `overlooked` (the page took a running Xray for none, because the TUN its
mode asks for was not up) are history and bounds.

*Actions.* `StopGateway` is `GatewayManager.stop`; `EngineLock` and `StopLocked` are `Engine.stop` and
`_stop_locked`; `Attempt` is `Engine.start` with the attempts of the connect thread; `Device` is
`enable_tun` and `disable_tun`; `XrayLogEnds` and `TunLogEnds` are the two log readers; `ApplyMode` is a
gateway-mode thread with `enable_gateway`, `GatewayManager.start`, `acquire_tun`, `release_tun` and
`disable_gateway`; `WorkerOffline` and `WorkerEnds` are `_run`; the rest is the page.

*Abstractions.* Besides those in the module's head: the page handles the signals posted so far before
the next click (`PageFree`), as Qt does; the worker thread leaves its loop at once when the stop event
is set; closing the window and a repeated click while an old connect thread is still alive are left out.

### 2.4 GatewayRecovery

*State.* Outside the process: `windows` (the forwarding settings), `lan` (devices that were told this PC
is the router), `swept`, `away`, `stuck` (history: whose restore failed), and `file`, the state file with token, owner,
devices and stage. Inside:
the fields of `GatewayManager`, the responder and the forwarder, `lock`, and per thread where it is
(`pc`), the file content it works on (`held`) and for which call (`why`). `owner` and `life` are the
process and how often it was started.

*Actions.* `Start` to `Activate` with `StartFails` is `GatewayManager.start` up to the state file's last
stage; `Stop` and the steps of a restore are `stop`, `recover` and `_restore`
(`ArpFails`: an ARP restore that raises after some of its packets is logged and the restore goes on); `Heard` and `Answer` are the
ARP responder, `Discover`, `DiscoveryChecks` and `DiscoveryRedirects` a discovery, `Round` and
`RoundRedirects` the worker. `Killed` ends the process anywhere; `Watchdog` is `watchdog_mode` of the
process that was started for a token; `Starts` is the next start of the application with its `recover`.

*Abstractions.* See the head of the module; EngineGateway has the same manager with the engine's lock
around it, and no crash.

### 2.5 The modules of one part each

| Module | Code and actions | Left out |
|---|---|---|
| `PowLadder` | a connect and a reconnect of `coordinator.py`: fast Psiphon, `NextProtocol`, key lanes, dials, `Outer`, strategies of Psiphon, `Bridge`; `kept` is what is stored | times, IP scans |
| `ParallelMasque` | connect, disconnect and watchdog (`Promote`, `Lost`, `RaiseAgain`), `_grow_parallel` (`Grow...`), `_bring_back` (`Back...`); processes are numbered objects | addresses, ports, exits |
| `PowMemory` | load at a connect, `Detected` per detection thread, ladder start (`Inner`, `Wins`), pool writer (`Read`, `Probed`), `Forget` | RTT values, ranking |
| `ExitModes` | connect thread's modes (`Conn...`), a proxy-mode or TUN-mode thread per move, page signals (`SetState`, `Finished`), log reader | gateway lease |
| `EngineProcesses` | `Start` in its order: release owned listeners, choose ports, reclaim, recover the TUN, spawn, owner record; sing-box alike; death of the app | foreign settings of Xray |
| `TunnelRoutes` | one packet from a process or LAN device through rules of sing-box, bypass listener, Xray, core, PoW | payloads, sessions |
| `PatternCore` | `_handle` of a session (`Admit` to `SessionEnds`), capture thread (`Handshaken`, `PeerAcksFake`, `Strange`, `Inject`), pool thread (`FakeBegins`, `FakeChecks`, `FakeSends`, `FakeFails`), edge choice and cool-down | sizes, socket options |
| `GenePlan` | `Import` with what is kept of a list of ops, `Select`, `Overlay` (tuning of a connect), `Cut` (plan of the core for a hello) and `Again` | rewriting operations, bytes |
| `EchKeys` | race, cache `get`/`put` as load (which may find nothing) and save, refreshers, the engine's check of a key | losers of a race |
| `ForwardPath` | owners `gate` and health checks over `ForwardPathHelper` (`Close` to `Undone`), filter threads, DNS rewriting for first and repeated questions, to servers of the LAN and to the resolver itself | MSS |
| `ConnectFlow` | button, connect thread (`NextProfile` to `ThreadEnds`), page; genes, SNIs and fallbacks of an attempt, what is recorded | edges, timing, ranking |
| `ProfileList` | three lists with rows, Auto Mode, activate/add/delete, the timers that connect (`ResumeSwitch`, `ResumeRetry`, `StartCountry`), pings | rows' text |
| `Settings` | window and connect threads as assignments one by one, `_write` as begin, end or exception under `_IO_LOCK`, restart | values of a tuning |
| `DataReset` | `main()` of several instances around `run`, each entry moved by itself, failing moves and copies, kills | what is in a folder |
| `SniScan` | scan thread and its signals, three applies (rows dealt to more or fewer configs), undo, carrier switch, failing saves | scores |
| `SniMaker` | imports, dialog, test in rounds over methods, signals taken by the page, stop, clear | ports, edges |
| `Wizard` | pages of the dialog, search, import and test it drives, the user's own ones | wording |
| `EngineSwitch` | question, polls, switch in pieces (`Begin`, `Finish`, `Restyle`), delayed calls that connect, settings dialog | widgets |
| `PageFacts` | both engines' connects, IP questions by number, cache of the direct address, latency, the IP card's owner | flags, text |

`Parts` instantiates them with constants of its own, `PatternCore` twice (one session with the fake
segment, two sessions with failover), and `MCParts` gives the constants small values. The instances share no
state, so a behaviour is one of one part: `part` says of which, and `s1` ... `s20` hold its variables. Each
property of `Parts` joins what one to four parts promise about one subject; the conjuncts are defined and
commented in the modules, and below them the inductive invariants the proofs of section 4 go by
(`WindowInv`, `ExitInv`, ...).

## 3. Runs

| Run | Checks | Shows |
|---|---|---|
| `proxy_alone` | TypeOK, SnapshotExact, VaultSpec, StartupHeals | one instance at a time, restarted after crashes, two failures: unless the one-time reset of a start takes a file that is still needed, the snapshot is exact and kept until everything is back; WindowsProxy implements ProxyVault; a start heals what a crash left |
| `proxy_shared` | OverrideBacked, RestoreInv, OwnerOnly | two live instances without a common mutex, both engines, a damaged file, two failures, the one-time reset of either |
| `pow_overlap` | TypeOK, AetherDown, PageNotStuck, OldWorkHarmless, ExitAsShown | two connects and a disconnect overlap everywhere, a process dies, and the newer connect may stop waiting for the older one after its 30 s; and one connect with a disconnect, two live switches, a reconnect and TUN fallbacks |
| `pow_ends` | DisconnectReturns, SessionEnds | a disconnect returns and all threads end |
| `pow_late_connect` | ProxyGivenBack | *violated*: a disconnect in the last steps of a connect |
| `pow_repair` | TunDown | *violated*: a disconnect while the watchdog repairs a TUN whose sing-box died |
| `engine_gateway` | TypeOK, NoCircularWait, DisconnectedClean, NoLeakedLease, ToggleFree, PageAgrees, UserTunKept | two runs without a fault and one run with any single fault; two gateway-mode threads, a worker, both log readers, the connect thread and the page |
| `engine_stop` | EngineStopReturns | *violated*: after a failing Windows restore the page and a gateway-mode thread wait for each other |
| `gateway_recovery` | TypeOK, SettingsBacked, RedirectedListed, KilledHeals | a forced end at any step, restores that fail in the application or in its watchdog, two sessions: while Windows has the gateway's settings a file holds the user's, a redirected device is in the list that restores it (or its redirect came late, or its restore failed), and after a kill the settings come back or the application runs again |
| `gateway_responder` | StopReturns | *violated*: a stop joins the sniffer thread while it holds the lock the sniffer waits for |
| `engine_switch` | DisconnectingEnds | *violated*: the page says "disconnecting" and nothing disconnects |
| `parts` | TypeOK, KnownIsTrue, NothingLeftBehind, SpoofedInOrder, LearnedFromOwnRuns, RoutesApart, ChosenExitThere, FactsCurrent, WindowOfEngine, TestsEndAsFound, CarriersApart, DataKept, KeysKept, SwitchLands | the nineteen modules of 2.5 as `Parts` instantiates them, one after the other |

The violated runs each state what a comment, a docstring, a message or the README of the repository says;
`PROJECT.json` quotes the lines under "findings".

**The properties of `parts`.** `KnownIsTrue`: the method shown is the one that carries (ladder), a start
index is one of the leg (memory), a "fresh" ECH key is not older than the question for it. `NothingLeftBehind`:
no forgotten `aether`, no Xray of a dead run, no packet filter after a stop. `SpoofedInOrder`: the fake goes out
before the hello, an orderly handshake is given up only when a fake could not be sent, and the hello goes out
complete and in order, whatever plan cuts it. `LearnedFromOwnRuns`: a failed edge is not preferred, a cancelled
attempt blames no gene, the route remembered is the one that ran, a gene runs with all that the import kept of a
confirmed strategy. `RoutesApart`: no loop of an engine through its own tunnel; a DNS answer has the name of a
server its port asked, or the resolver's. `ChosenExitThere`,
`FactsCurrent`, `WindowOfEngine`: when all is quiet, switches, card and theme tell the truth.
`TestsEndAsFound`: table rows have their own test's verdict, a waiting wizard waits for something.
`CarriersApart`: a carrier has what was tested on it, but for a best row no config got; `DataKept`: nothing stored is
lost, but for a folder that could neither be renamed nor copied; `KeysKept`: no key of another domain is lost, but to
a write that found nothing in the file; `SwitchLands`: a queued switch takes the last profile activated. The
exceptions are stated in the definitions and explained in section 5.

**Bounds.** `Procs` has two instances: the snapshot has at most one owner and one contender, and
an instance is used once, so two of them are also a crash and a restart. `MaxFail`, `MaxEdit`,
`MaxCorrupt` and `MaxTok` bound failing writes, edits by the user, damaged files and snapshots. In
PowSession two connects, one disconnect and two switches are the smallest sets with an overtaken attempt,
a stale cancel and a switch back; all five at once are out of TLC's reach, so `Overlaps` in `MCPowSession` has the two
plans two connects and a disconnect, and one connect with a disconnect and both switches. `MaxLegs`, `MaxTuns`,
`MaxFails` and `MaxSlow` bound dying processes, raising proxy calls and waits that run out. `pow_overlap` has no
dying sing-box (`MaxTuns = 0`) and no raising proxy call: with `MaxTuns = 1` `ExitAsShown` is violated, because the
repair of `pow_repair` may also overlap a switch, and so is it with `MaxFails = 1` (section 5). `AetherDown` and `PageNotStuck` are proved for
any bounds and plans.
In EngineGateway a record of `Bounds` says how many runs, failing restores, deaths and profile switches a
behaviour may have; `EachFault` has two runs without faults (a new run that meets threads of the old
one) and one run with each kind of fault. Two gateway-mode threads are one that holds the locks and one
that was overtaken; a thread is used once, so they also bound the clicks on the gateway switch. The
threads of one kind are interchangeable, hence the symmetry; no liveness is checked with it.
The run of GatewayRecovery has one device. That is not enough for everything: with one the file's list is
whole or empty, and an empty list restores the whole LAN. The safety properties are therefore proved for any devices; two sessions and two lives give a watchdog of an old session beside a new one. A watchdog
tries 20 times, so `misses` says whether one try fails.
In `MCParts` and `parts.cfg` every constant is the smallest with which the part's cases occur: two connects, exits,
domains, carriers, profiles; three connects and disconnects and four processes for the parallel
tunnels; three lives of the application for leftovers (one dies, one is refused, one finds); sequence
numbers modulo 4 with a first number of 3, so that they wrap; a hello of seven bytes with the name in the
middle, cut before, in and after it; four clicks of the engine switch; one config in the SNI search, so that two
results are more than there are configs; four ops kept of an imported strategy (`GeneMaxOps`, 12 in the code) and
strategies of four and five ops; one server of the LAN besides the resolver and two questions at once from one port
(`ForwardMaxOpen`). Every bound is a guard of an action of the environment
or of a user's request, with one exception: the number of runs of EngineGateway also ends the list of
configurations a connect still tries.

**Fairness.** `WF_vars(Step(p))` per instance or thread: a thread with something to run is scheduled
by Windows. What users do, crashes and failures have no fairness. Network waits end because each of them
has a time-out in the code; they are one action for success and one for failure. In `engine_stop` the steps of every thread are weakly
fair, the clicks, the deaths of processes and an offline network source are not; the counterexample is a
circular wait, which no scheduling resolves, and so is that of `gateway_responder`. In GatewayRecovery the
main thread, the sniffer and the watchdog processes are fair; what is heard on the LAN is not.
`parts` and `engine_switch` check safety only.

**Deadlock checking** is off where every click of the instance may be used up or every instance may have
ended: the program stops there.

## 4. Proofs

`WindowsProxyProofs` proves for any set of instances, any user settings and any bounds:

* `TypeCorrect`: `Spec => []TypeOK`;
* `OverrideIsBacked`: `Spec => []OverrideBacked`. Whenever Windows points at this application there is a
  restore file, whatever crashes, write failures, damaged files, foreign instances and engines, unless the one-time
  reset of a start has moved the file while it was needed (`orphaned`);
* `RestoresAreSafe`: `Spec => []RestoreInv`, the inductive invariant of the former;
* `OthersFilesUntouched`: `Spec => OwnerOnly`. No step replaces or removes the file of another live instance but
  the move of such a reset;
* `SnapshotIsExact`: `OneAtATime => (Spec => []SnapshotExact)`. The file has exactly the settings from before
  the first change, until every one of them is live again or a reset has orphaned them;
* `VaultImplemented`: `OneAtATime => (Spec => VaultSpec)`. The module implements `ProxyVault`: an initial
  state maps to one, every step to a step of the vault or to a stutter, the move of a needed file to `Lose`.

*Assumptions.* `ConstAssumption` (the user's own settings are not the application's text, null values are
no instances), `NoSnapAssumption` (the null snapshot is neither a snapshot nor a settings record), and what the module's header
says of atomicity: `os.replace`, a registry write and an unlink are atomic.

*Argument.* `OverrideBacked` alone is not inductive: a restore could write the application's own text
back, or an instance without the guard could remove the file between another's write and its return.
`RestoreInv` adds what excludes this, `Guarded` always and the rest (`Intact`) until a reset orphaned a file. `SafeSnaps`: nothing that is stored or held in memory would turn
the application's proxy on. `Guarded`: whoever is past the guard's entry holds it, so two instances are
never both inside. Whoever is writing has a file underneath. `RestoreProgress`: each step of a restore has
the registry values it relies on, so when the file is removed the registry no longer points at us.
`TypeNext` and `RestoreNext` go through the actions one by one, and `LocalsTyped`, `LocalsSafe` and
`FinishTyped` carry what the operators of several actions return. TLC checks `RestoreInv` in
`proxy_shared`. `OwnerOnly` rests on `OwnerInv`: who is inside a call with a snapshot in its hands holds the
guard, and that snapshot is its own, nobody's, or that of an instance that is dead (`MayRestore`).

`OneAtATime` says what `proxy_alone` instantiates: one instance lives at a time (`MaxAlive = 1`, which the
mutex of `main.py` is there for), it has one proxy object (no UAC PoW session; two objects are a finding
of section 5), nobody damages the file, and the instances are finitely many. With any of the first three
dropped TLC finds `SnapshotExact` violated. `AloneInv` then has three parts more. `SoleInv`: whoever lives is the
only one and uses the object of its place in `main`. `CopyInv`: every copy of the snapshot in memory is the
one in the file. `UndoInv`: the file has the user's settings, there is none only when they are live, and a
restore has brought back the values it is past.

`PowSessionProofs` proves for any sets of connects and disconnects and any number of deaths, failures and
slow steps:

* `TypeCorrect`: `Spec => []TypeOK`;
* `NoWarpAfterDisconnect`: `Spec => []AetherDown`. After a disconnect that nobody overtook no WARP process runs;
* `PageReleased`: `Spec => []PageNotStuck`. When no thread runs the page is not "connecting".

*Assumptions.* `ConstAssumption` (bounds are numbers), `NoneAssumption` (the null value is no thread).
*Argument.* `PowInv` has four parts. `Places` says which threads can be at which steps, so that the epoch of
a disconnect is taken and compared by a disconnect only. `AetherInv`: `connectEpoch` is never above
`epoch`; a requested disconnect that has not yet taken an epoch stands at its first step; and a WARP process
that runs after the request has a *pending* disconnect in front of it, one that will take the newest epoch or
already has it. `_raise_outer_leg` compares epochs under the lock, so a connect that was overtaken starts none.
`PageInv`: while the page is connecting, the thread of its newest token runs; its `finally` clears the page.
The lemmas go through the disjuncts of `Step`.

`GatewayRecoveryProofs` proves for any devices and bounds:

* `TypeCorrect`: `Spec => []TypeOK`, with the manager's lock held exactly between the steps of start, stop, recover;
* `SettingsStayBacked`: `SingleSessionOrNoMiss => (Spec => []SettingsBacked)`. Whenever Windows has the
  gateway's settings, the state file has the user's, over forced ends, failing restores and several processes;
* `RedirectsStayListed`: `SingleSessionOrNoMiss => (Spec => []RedirectedListed)`. What is redirected is listed
  in the state file until it is put back, except what was redirected late (`stray`) and what a failed ARP restore
  left behind (`stuck`).

*Assumptions.* `BoundsAssumption`, and for the other two `SingleSessionOrNoMiss`: the restore of a
*watchdog process* fails only when there is one session. The case left out is a real one, section 5: such a
watchdog writes its state, with its own list of devices, over that of the session started meanwhile
(`gateway.py:2279`) and removes it later.
Restores that fail in the application are not restricted. *Argument.* Nobody holds other settings than the
user's (`OnlyUserShots`), because Windows is as the user had it until the file is written (`UserBefore`). A
state has the token of its session (`TokensNamed`), and a watchdog restores its own token only and is idle
or waiting while its application starts (`WatchdogsApart`), so none removes the file of another session.
`ListedInv` adds what the list needs: a restore puts back what its copy lists and then nothing is left
(`PutsBack`), a start begins with a clean LAN (`StartsClean`), an active gateway's fields are those of the
file and nobody restores it (`ActiveKept`, so whoever passes the check of token and flags redirects for a
session that lasts), and a discovery that merges an old scan keeps what was heard since (`RecordedFresh`). With
two devices and two sessions TLC refuted the first form of the property, where only redirects for an ended
session were late: see *late redirects* in section 5.

`EngineGatewayProofs` and `EngineGatewaySafety` prove, for any sets of gateway-mode threads and workers and any
`Bounds` on runs, deaths, failing restores and switches:

* `TypeCorrect`: `Spec => []TypeOK`;
* `DisconnectLeavesNothing`: `Spec => []DisconnectedClean`;
* `PageShowsEngine`: `Spec => []PageAgrees`, but for a running Xray the page takes for none (`overlooked`), section 5;
* `LeaseIsReturned`: `Spec => []NoLeakedLease`;
* `ToggleIsFreed`: `Spec => []ToggleFree`;
* `NeverACircle`: `Spec => []NoCircularWait`;
* `UserKeepsTun`: `Spec => UserTunKept`.

The first four hold with every fault the model has. The last three say something of a course without faults
(`smooth`; `ToggleFree` partly), for each of those faults breaks them, section 5.

*Assumptions.* `BoundsAssumption` (numbers), `NoneAssumption` (the null value is no thread), `ThreadsAssumption`
(gateway-mode threads, workers and the five named threads are different ones).

*Argument.* `EngineGatewayProofs` has what all of them rest on. `Post`: which thread can be at which step and
where it goes on from there (`Fits`), and for each lock that its holder is at the steps that hold it, and
whoever is at such a step is the holder (`Holds`). `StopMoves`, `EngineMoves`, `ApplyMoves` and `PageMoves` say of each action
from where to where it takes its thread. `EngineGatewaySafety` then has one invariant per property:

* `CleanInv`: after Disconnect the connect is cancelled, the thread the switch waits for is turning the
  gateway off, the gateway is down when the page has passed the first `GatewayManager.stop`, and the engine, TUN
  and lease are when it has passed `_stop_locked`. Every action but `Connect` is `Tame`: it keeps this up.
* `PageInv`: when page and engine differ, the signal that tells is queued as the last one, or the thread
  that will post it still runs.
* `LeaseInv`: a lease is in the state file or a thread on its way gives it back (`GivesBack`). `Relies` says
  for each step of `start` and `stop` which file, gateway and lease it finds; two threads never rely on the
  file at once, because they hold the manager's lock.
* `GateInv`: once the page shows no connection, the thread it waits for turns the gateway off.
* `UserInv`: the TUN is the gateway's only under its lease, and never the user's at the same time.
* `SmoothInv`, without faults: no log reader has anything to do and no file is stale (`NoFaults`); the gateway
  is down while the engine is stopped or started (`Settled`: `Calm` or `Steady`); the thread the switch waits for still
  serves the run that is on (`OnTrack`); a connect has told nothing yet (`Trying`); the lease given back is that of the
  run (`Fresh`).

For `NeverACircle` the lifecycle lock is in no circle: while it is held everything is `Calm`, so nobody
holds the manager's lock and its holder waits at most for `serial`, whose holder waits for the manager's
lock, which is free. The other locks are taken in the order serial, manager, lifecycle, and nobody who has the page's lock
(`applying`) asks for it. TLC checked each invariant on instances with two and three gateway-mode
threads and two workers before it was proved. That is how the exception in `ToggleFree` was found.

`ParallelMasqueProofs` proves `ProcessesOwned`: `MasqueAssumption => (Spec => [](TypeOK /\ NoOrphan))`, for
any ports, epochs and processes. `NoOrphan` is the part of `NothingLeftBehind` (run `parts`) that says while the
threads still run who will stop a process: the session, or the thread that holds it. `GrowHolds` and
`BackHolds` say at which steps `_grow_parallel` and `_bring_back` have one in their hands.

*Assumption.* `MasqueAssumption`: the bounds are numbers and there is at least one process.

`PartsProofs` and `EnginePartsProofs` prove of `Parts`, for any values of its constants, that is for any clicks,
threads, connects, rounds, domains, carriers, profiles, failures and moves:

* `WindowIsOfEngine`: `Spec => []WindowOfEngine`;
* `QueuedSwitchLands`: `Spec => SwitchLands`;
* `LateAnswersUnused`: `Spec => []FactsCurrent`;
* `TestsAreShown`: `Spec => []TestsEndAsFound`;
* `NoCarrierMixed`: `Spec => []CarriersApart`;
* `NothingLost`: `Spec => []DataKept`;
* `KeysStay`: `Spec => KeysKept`;
* `NoWrongWay`: `Spec => []RoutesApart`;
* `ExitAsChosen`: `Spec => []ChosenExitThere`;
* `ShownIsSo`: `Spec => []KnownIsTrue`;
* `LearnedIsEarned`: `Spec => []LearnedFromOwnRuns`;
* `NothingStays`: `OneCheck => (Spec => []NothingLeftBehind)`;
* `FakesComeFirst`: `Spec => [](part = "wire" => OrderlySpoofed /\ FakeBeforeHello)`, the part of `SpoofedInOrder`
  that is about the injector: every fake is sent before the session speaks, none after, and a handshake whose
  packets come in order is not given up unless the driver refused a fake (`broken`). It holds for any sessions, edges, numbers that wrap, and fakes per hello
  (`EdgeChoice` is the same module with other constants).

*Assumptions.* Those `Parts` declares of its constants. `ChoiceAssumption`, `EchAssumption`, `ForwardAssumption` and
`ExitsAssumption` keep the null values and the names of the model (no profile, no holder of a lock, the
resolver) apart from the values that stand for something; `EchAssumption` also has a domain to ask for.
`FlowAssumption` has that for profiles too, of which there are finitely many like the genes; `ForwardAssumption` says
that the gateway's thread is no health check. `StoreAssumption`, `FactsAssumption`, `ExitsAssumption`,
`GeneAssumption` (scores) and `ParallelAssumption` say that bounds are numbers. `WireAssumption`: at least one fake is
sent (`max(1, int(fake_repeat))`, `pattern_core/core.py:152`), and a first sequence number is below the modulus. `OneCheck`,
the hypothesis of `NothingStays`, is that there is one health check; with two the conjunct on the packet filter fails,
section 5.

*Argument.* A step keeps `part` (`PartStays`), so an invariant of a part is carried by the steps of that
part. It is defined under the module's property, and TLC checked it on the instance of `parts` first.

* *Engine switch*, `WindowInv`: one engine is up at most (`OneEngine`), what was not yet restyled is listed as
  pending (`Themed`), the switches shown are those stored for the engine (`SettingsShown`) and the advanced
  settings those chosen last (`Chosen`).
* *Profile list*, `WaitsForWanted`: while a switch waits, what it waits to connect is what was activated last.
* *Data reset*, `OldDataInv`: an entry of the old data is only moved, so it is in the folder or in a backup; a folder
  in neither is one the fallback lost (`torn`).
* *SNI search*, `ScanTagged`: the page starts no scan before it has taken the last signal of the one before, so a
  signal belongs to the scan there is, and a result is tagged with the carrier and edge it was tested on.
  `OwnSnis`: what a carrier has, *and what an undo would give it*, was tested on it, or was the best row of an apply
  that gave it to no config (`unchecked`).
* *Settings*, `OwnWrites`: the assignments a thread has still to do, the tuning a connect keeps and the dialog
  are of the carrier they write to. `SavesFollow`: who changed the memory has a save before it, and an image
  taken before the last change is not the last one written.
* *Page facts*, `FactsInv`: questions are numbered and the card's trace is that of its link; when all is settled
  the card is right or an answer of the newest question, which is right, is pending (`LastAnswerRight`).
* *Wizard*, `FlowInv`: a phase that waits has the scan, import or test it waits for.
* *SNI Maker*, `MakerInv`: batches wait in a queue while rounds go on, so it speaks of what a row *will* show once
  they are taken (`WillShow`, the last batch that mentions it). Every row with a verdict will show it, the
  final signal is the last one (`EndIsLast`), and a row is "testing" only in a test that has it (or was missed).
* *ECH keys*, `EchInv`: between the load and the write of `EchKeyCache.put` its thread has the lock and the file
  is as loaded or could not be read (`LoadedIsCurrent`), so a write keeps the others' keys or had found nothing. `FreshInv`: what a race brought is not older than the question.
* *Ways of a packet*, `OnItsWay`: where a packet is after so many hops, for every configuration; no rule sends it
  from an engine back into its TUN.
* *LAN packet filter*, `WireInv`: the packets on the wire and the mappings name servers their port has asked.
* *Exits*, `ExitInv`: whatever is missing while all may look quiet is owed (`Owed`) by the one thread or
  signal of the latest move (`Gens`), or by the log reader that will tell of the end; threads of older moves
  change nothing that counts. While the connect thread has the lock the others wait (`Locked`), and what a
  failed move will set its switch to is what is the case (`Failures`).
* *Connect flow*, `RouteInv`: from the page that loads a profile to the signal that tells of its connection the
  engine runs what the thread took, or nothing, so what is remembered is what ran.
* *Gene plans*, `GeneInv`: what is imported, and what a connect takes of it, is what was kept of a confirmed strategy. *Pattern core, choice of an edge*:
  whoever notes a failure of an edge lets go of the preference for it in the same step (`PreferredHealthy`).
* *Pattern core, handshake*, `HandshakeInv`, per flow: the pool thread works while fakes are missing (`PoolInv`); a flow
  is watched only while its session dials, and a session that speaks has all its fakes on the wire (`PlaceInv`); the
  first packet the capture thread takes is the SYN (`SynFirst`); of an orderly handshake, what is captured and not
  yet taken is the rest of SYN, SYN-ACK, ACK for the session's own number (`Waiting`), and then answers to fakes only
  (`Answers`), none before the first fake. The numbers are those the wire has modulo `WireModulus`, so that this
  holds across the wrap too.
* *What an engine leaves*, `LeftInv`: an Xray that is owed is the one on record under its pair, until the release of the
  next start ends it. *Packet filter*, `FilterInv`: a filter that nobody told to end is the helper's own, and a
  health check that outlives its gateway waits only for the filter it began. The third conjunct of
  `NothingLeftBehind`, on the parallel tunnels, rests on the lemmas of `ParallelMasqueProofs`.
* *Ladder*, `LadderInv`: a climb begins with nothing up, its process is that of the dial under way, and what is
  shown is decided where the climb ends. *Memory*, `MemoryInv`: whatever is stored as a winner or measured names
  its leg, and won there, through loads, forgetting and the limit of networks.

*Only model-checked.* Of `PowSession`: `ExitAsShown` holds within the bounds of `pow_overlap` (section 5
has what breaks it beyond), and `OldWorkHarmless` is checked within those bounds only. Of `Parts`: `TypeOK`, and
`SpoofedInOrder` as a whole, because its conjunct `HelloKept`, what a plan does to every hello, is induction over data;
`FakesComeFirst` proves the conjunct on the injector. All liveness (`StartupHeals`, `DisconnectReturns`,
`SessionEnds`, `KilledHeals`, `EngineStopReturns`, `StopReturns`) is out of the prover's reach, and so is what
needs ENABLED.
## 5. What else the models reach

Behaviours found while the properties were stated, for which (but for those that name a run) no run is kept. A property named here and
checked by no run is defined in its module and violated with the constants given.

*Proxy and UAC PoW*

* *Two proxy objects.* `Engine` and `PowCoordinator` each have a `WindowsProxy`. An object whose restore
  failed acts later on a snapshot it remembers and the other object's file has gone: the first conjunct of
  `SnapshotExact` holds for one object (`proxy_alone`) and fails for two. `OverrideBacked` holds for both.
* *No proxy watchdog* (`engine.py:379`, `main.py:46`): a docstring has a process that restores the proxy
  after a crash; what restores it is the next start.
* *Data reset and restore file* (`main.py:99`). The comment there has the reset run "after proxy/gateway were
  restored", but the first recovery may fail (its exception is swallowed, `main.py:87`), and the reset then moves
  `windows-proxy-restore.json` with everything else: the second recovery finds none, the application comes up and Windows
  keeps pointing at it with the user's settings in the backup folder only. A file that cannot be moved stays. The reset
  never takes `_PROXY_GUARD`, and it looks for a running instance before it moves anything: a first start at the same
  time, or an instance of another session, loses its live file. `orphaned` marks the first, the exception in `OwnerOnly`
  is the second; `RecordStays` in `DataReset` is the first without the exception, and is violated.
* *Epoch of the watchdog* (`coordinator.py:2101`). The watchdog of an overtaken connect reads the epoch
  when it starts and may take the newer session's. The connecting thread must stand still for 5 s between
  two statements.
* *A failed switch during a reconnect* (`coordinator.py:243`, `:2326`). The switch gives the session up
  while the watchdog brings the exit back: the proxy stays on for a session that is given up.
* *A switch whose proxy call raises something else than `PowEngineError`* (`coordinator.py:234`) leaves an
  exit that is not the one shown: `ExitAsShown` with one of each click and `MaxFails = 1`.
* *The repair of a TUN* (`coordinator.py:1923`) takes no lock: run `pow_repair`. The same repair may overlap a switch
  to the proxy, which it then suspends: `ExitAsShown` with one connect, two switches, one disconnect and `MaxTuns = 1`.
* *A cancel that becomes stale after its last test* (`coordinator.py:523`) takes the exit of the newer session down:
  `StaleCancelHarmless` with two connects and one disconnect. `ExitAsShown` and `OldWorkHarmless` except it.
* *A second disconnect* (`coordinator.py:333`). The test of the epoch and `_stop.clear()` are two steps; a
  disconnect between them is forgotten, and Psiphon (two connects, two disconnects) or the TUN (two
  disconnects) of that connect may outlive it.
* *Ladder.* `PlanIsFallback` (`coordinator.py:575`): a protocol whose key or finished scan fails ends the climb with
  the rest of the plan untried (`:663`, `:690`, `:714`). The exit region asked of Psiphon is never reset (`:1590`, `:1613`).
* *Parallel tunnels* (`coordinator.py:2164`). `_bring_back` looks at the stop event before its last probe, so
  it may install a process after a disconnect; the next disconnect stops it, so `NoOrphan` holds.
* *Memory.* A detection of an earlier connect that ends late (`coordinator.py:1441`) makes the ladder use the
  old network's winner; the pool writer reads, probes and writes (`:880`, `:937`, `:1117`), which loses
  addresses and brings a forgotten pool back.

*Engine and gateway*

* *Circles between the engine and the gateway.* `NoCircularWait` is stated for behaviours without faults,
  for each fault makes a circle reachable: a stale state file (`gateway.py:1576`, `recover` wants
  `_stop_serial` while `start` holds `_lock`), a TUN that dies (its log reader stops the engine against a
  starting gateway), a profile switch (`ui.py:8654`, the engine is stopped before the gateway is reset)
  and a failing restore (run `engine_stop`).
* *A locked gateway switch* (`ui.py:6544`). Xray dies and the user connects again before its log thread has told
  the page: the gateway-mode thread of the old run ends without a word, and the switch stays locked
  until the next disconnect. `ToggleFree` excepts this case. It takes two runs and a death, which the
  instance of `engine_gateway` does not combine.
* *A page that shows "off" while Xray runs* (`ui.py:10399`). A state(True) that comes while the TUN mode is on and no
  TUN is up is taken for a state(False): the TUN switch may be moved while a connect is under way (`ui.py:6021`), and
  the connect opens the exit it has read before. `PageAgrees` excepts it (`overlooked`) until the next state signal.
* *A TUN that died while leased* and comes back by the user's TUN mode is still the gateway's
  (`engine.py:2263`), so giving the lease back takes the user's TUN down. `UserTunKept` is stated without
  deaths.
* *The log reader* (`engine.py:2957`) decides under the lock and stops after it; the run it stops may be a
  newer one.
* *A watchdog process whose restore fails* while the next start recovers writes restore-pending over the
  new session's file and later removes that (`gateway.py:2279`, `:2200`).
* *Late redirects* after a stop (`gateway.py:2008`, `:1880`, `:2080`) leave a device redirected, and so does a
  round of the worker that redirects the devices it copied under the lock (`:2071`, `:2086`) after a discovery has
  dropped one from file and list (`:1990`): a forced end then leaves that device redirected, and the next
  start restores the listed ones only. The proof of `RedirectsStayListed` found this case; the model keeps
  all of them in `stray`. A redirect by broadcast is put back only for devices that are listed later.
* *An ARP restore that fails* (`gateway.py:2116`) is logged and swallowed, and the state file is removed all the same:
  what it did not reach stays redirected and is listed nowhere (`stuck`), until a later restore of the whole LAN or of a
  list with that device.
* *A failed restore* leaves a restore-pending file owned by the living process, so the next start is refused
  until a stop ran again (`gateway.py:2157`).
* *Packet filter.* With two health checks, five threads and two failures `FilterGone` fails
  (`gateway.py:1733`, `:2052`). The mappings go by protocol, client and port (`gateway.py:1173`): of two questions from
  one port to two servers, or one to the resolver itself while a mapping is alive, an answer may come in the name of the
  other server, and the second answer to a repeated one in the resolver's own. `AnsweredByAsked` says that it is
  always one the port asked, or the resolver. `tests/test_gateway_manager.py:245` says `rewrite_dns` off,
  `gateway.py:1306` sets it.
* *Exit switches.* A failing TUN move cancels a proxy-off move, so the proxy stays on; a switch moved between
  the end of a worker and `_set_state` (`ui.py:10401`) is answered by the old state.
* *Leftovers.* An Xray killed between `Popen` and its record under an older record is never recognised. With
  custom ports it makes every start fail. `engine.py:2186` starts a new Xray even if the old one has not ended.
* *Routes.* A VMess link behind the Pattern core dials the core's address at the port of the link, where nothing listens
  (`engine.py:935`; comment `:912`). It loops nowhere; `NoLoop` says that no other packet is lost.
* *ECH.* A refresh that asked before a rotation may write an older key over a newer one, with a newer time.
  A put that finds the file unreadable keeps its own domain only (`ech_keys.py:207`), the exception in `KeysKept`.
  `_LOCK` is one process's: the threads of the model are threads of one process, and a second instance may lose keys.
* *Pattern core.* A fake the driver refuses ends the pool thread (`core.py:216`, `:242`) with fewer fakes sent than asked
  for; the answer to the first ones then gives up an orderly handshake (`core.py:274`), the exception in `OrderlySpoofed`.

*Window*

* *Connect flow* (`ui.py:8850`, `:10352`). With several genes a profile after the attempt cap has an empty
  attempt list and is recorded as failed untried. A Disconnect click between "on" and the thread's end is
  taken for a retry (`:9719`).
* *Profile list.* A forced profile outlives the choice it was made for (`ui.py:7203`, `:9783`):
  `ConnectsActive`. Two timers may both connect (`:8625`, `:8661`): `TimersOnlyConnect`.
* *Engine switch.* Delayed reconnects of Xray do not look at the engine (`ui.py:7084`, `:8625`, `:11637`;
  docstring `:4899`): `OnlyAsked`. `reconnect_pow` 220 ms after its disconnect may be refused as busy.
* *Facts.* The cache of the direct address may hold one found through a tunnel (`ui.py:5107`, `:5131`):
  `DirectIsDirect`. After a failed connect the card keeps the old exit (`:10387`).
* *Settings.* A carrier switch or a save of the dialog during a connect is reverted by the tuning the connect
  keeps (`ui.py:10242`, `:9778`). Statistics of a deleted gene may return (`storage.py:605`). A serialisation
  may raise when another thread adds a key (`storage.py:634`).
* *SNI search.* Of more results applied in order than there are configs (`ui.py:11365`, `:11431`) the best gives the
  tuning its SNI, and only the carriers of those that are assigned are looked at: one carrier's tuning may get the SNI of
  another's (`unchecked`, the exception in `PinnedWhereTested`). An undo restores the whole tuning.
* *SNI Maker.* A row imported while the clean address dialog is open is marked "testing" and never tested
  (`ui.py:7980`); "retrying" stays after a cancel; a stop before a round clears its event is forgotten.
* *Wizard.* Its hooks do not compare generations (`ui.py:7959`): it takes the end of the user's own import or
  test for its own; closing it lets the test run on.
* *Gene plans.* An import keeps the first 12 ops of a strategy and drops malformed ones before it judges whether it is
  safe to run (`gene_import.py:87`, `:185`), so a longer one runs in part. Of two strategies with one id the last wins
  (`ui.py:2664`). A record cut that splits the name
  makes `sni_cut` neither run nor reported (`gene_ops.py:19`).
* *Data reset.* What cannot be copied of a folder that could not be renamed is deleted with it (`data_reset.py:66`,
  `:78`; docstring line 5: "MOVED ..., never deleted"), `torn` in `OldDataKept`. Two starts at once move each other's live data (`data_reset.py:108`):
  `LiveDataStays`.

## 6. Not modelled, and the plan

Widgets, dialogs, wording, byte forwarding, packet capture and the calls of Windows are outside: each call
is an action that succeeds or fails. Not modelled:

* the *gateway backends* (routes, NAT and ARP tables as Windows and the LAN keep them) and the *PoW helper
  processes*: they are calls that succeed or fail in GatewayRecovery, PowLadder and PowSession;
* *clean address search* (`clean_ip.py`): measurements and their ranking; its one shared list is in PowMemory;
* *fragment proxy*: nothing starts it; *Assistant*: switched off (`ui.py:44`);
* *ports of the local proxies*, *update checker*: sequential, each decides on one value it was just given;
* *panels, text and theme*, *build and release*: no state of their own.

What is left: theorems about the other properties of PowSession, and a composition of
ParallelMasque with the epochs of PowSession.
