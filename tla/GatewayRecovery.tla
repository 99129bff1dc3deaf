--------------------------- MODULE GatewayRecovery ---------------------------
(***************************************************************************)
(* What GatewayManager of uac_desktop/gateway.py changes outside its own   *)
(* process and how it is put back: the forwarding settings of Windows, the *)
(* ARP entries of the phones on the LAN, and the state file that lets      *)
(* another process undo both.  The application may be killed at any step;  *)
(* the watchdog process of its gateway session and the next start of the   *)
(* application then work on the same file.                                 *)
(*                                                                         *)
(* Inside the application: the thread that starts and stops the gateway,   *)
(* the ARP responder, a discovery and the worker.  A step is what one of   *)
(* them does while it cannot be disturbed.  Abstractions:                  *)
(*   - all Windows settings are one value, the user's or the gateway's;    *)
(*   - a device is on the LAN or has been away for the time after which    *)
(*     the code forgets it, and then its ARP entry is gone too;            *)
(*   - the TUN, the health of the engine and _lifecycle_lock are in        *)
(*     EngineGateway.tla; a LAN without ARP redirection redirects nobody;  *)
(*   - reading the state file and unlinking it is one step, and a file is  *)
(*     never unreadable.                                                   *)
(***************************************************************************)
EXTENDS Integers, FiniteSets

CONSTANTS
  Devices,        \* phones on the LAN
  MaxSessions,    \* tokens there are
  MaxLives,       \* starts of the application
  Bounds          \* how many gateway sessions, forced ends of the application,
                  \* restores that fail (of Windows in the application, of ARP
                  \* anywhere) and Windows restores that fail in a watchdog,
                  \* which tries 20 times, a behaviour may have

ASSUME BoundsAssumption ==
  /\ MaxSessions \in Nat
  /\ Bounds \subseteq [sessions : 0..MaxSessions, crashes : Nat, fails : Nat, misses : Nat]

VARIABLES
  windows,        \* the settings Windows has: "user" or "gateway"
  lan,            \* devices that were told that the router is this PC
  swept,          \* the whole LAN was told so by broadcast
  away,           \* devices that left the LAN
  stray,          \* history: devices redirected too late, for a session that had
                  \* ended or after a discovery had dropped them
  stuck,          \* history: devices whose last restore has failed
  file,           \* the state file
  owner,          \* the life of the application that runs, 0 if none does
  life,           \* how many lives there were
  tokens,         \* how many tokens were drawn
  active, stopping, stopEvent, token, devices,    \* fields of GatewayManager
  fresh,          \* _device_last_seen is later than the start of the discovery
  responder,      \* the AsyncSniffer runs
  forwarder,      \* the WinDivert thread runs
  lock,           \* holder of GatewayManager._lock between two steps
  pc,
  held,           \* the state (file content) a thread or watchdog works on
  why,            \* the call a restore belongs to
  target,         \* the devices a thread is about to redirect
  left            \* what is left of the bounds

disk == <<windows, file>>
network == <<lan, swept, away, stray, stuck>>
app == <<owner, life, tokens>>
fields == <<active, stopping, stopEvent, token, devices, fresh>>
helpers == <<responder, forwarder>>
local == <<held, why, target>>
vars == <<disk, network, app, fields, helpers, lock, pc, local, left>>

\* A watchdog process is its token; the threads of the application are
\* numbers below the tokens.
None == 0
Main == -1                \* start, stop and recover are serialised
Sniffer == -2             \* the ARP responder
Discovery == -3
Worker == -4
Threads == {Main, Sniffer, Discovery, Worker}
Tokens == 1..MaxSessions
Processes == Threads \union Tokens

NoFile == [token |-> 0, owner |-> 0, shot |-> "user", devices |-> {}]
States == [token : 0..MaxSessions, owner : Nat, shot : {"user", "gateway"},
           devices : SUBSET Devices]

PCs == {"idle", "detect", "snapshot", "write", "launch", "forward", "apply",
        "respond", "redirect", "activate", "join", "again",
        "unanswer", "arp", "windows", "done", "scan", "merged", "watch", "end"}

TypeOK ==
  /\ windows \in {"user", "gateway"} /\ lan \subseteq Devices /\ swept \in BOOLEAN
  /\ away \subseteq Devices /\ stray \subseteq Devices /\ stuck \subseteq Devices
  /\ file \in States /\ owner \in 0..life /\ life \in Nat /\ tokens \in 0..MaxSessions
  /\ active \in BOOLEAN /\ stopping \in BOOLEAN /\ stopEvent \in BOOLEAN
  /\ token \in 0..MaxSessions /\ devices \subseteq Devices /\ fresh \subseteq Devices
  /\ responder \in BOOLEAN /\ forwarder \in BOOLEAN
  /\ lock \in {None, Main} /\ (lock = Main <=> pc[Main] \notin {"idle", "join"})
  /\ pc \in [Processes -> PCs] /\ held \in [Processes -> States]
  /\ why \in [Processes -> {"startup", "start", "undo", "stop", "exit", "watchdog"}]
  /\ target \in [Processes -> SUBSET Devices]
  /\ left \in [sessions : 0..MaxSessions, crashes : Nat, fails : Nat, misses : Nat]

Init ==
  /\ windows = "user" /\ lan = {} /\ swept = FALSE /\ away = {}
  /\ stray = {} /\ stuck = {}
  /\ file = NoFile
  /\ owner = 0 /\ life = 0 /\ tokens = 0
  /\ active = FALSE /\ stopping = FALSE /\ stopEvent = FALSE /\ token = 0
  /\ devices = {} /\ fresh = {} /\ responder = FALSE /\ forwarder = FALSE
  /\ lock = None /\ pc = [p \in Processes |-> "idle"]
  /\ held = [p \in Processes |-> NoFile] /\ why = [p \in Processes |-> "startup"]
  /\ target = [p \in Processes |-> {}]
  /\ left \in Bounds
-----------------------------------------------------------------------------
Go(p, l) == pc' = [pc EXCEPT ![p] = l]
Hold(p, s) == held' = [held EXCEPT ![p] = s]
Aim(p, d) == target' = [target EXCEPT ![p] = d]
OwnerAlive(s) == s.owner # 0 /\ s.owner = owner
Write(s) == file' = s

\* Faulty: whatever file there is now is unlinked.
RemoveState_Any(t) == file' = NoFile

\* _remove_state: only the file of the token that was restored.
RemoveState(t) == file' = IF file.token = t THEN NoFile ELSE file

\* ScapyArpBackend.redirect: with no device to name it goes to all.
Redirect(d) ==
  /\ lan' = lan \union (d \ away) /\ swept' = (swept \/ d = {})
  /\ stuck' = stuck \ d /\ UNCHANGED away

Forget == active' = FALSE /\ token' = 0 /\ devices' = {}

(***************************************************************************)
(* _restore_state, for every process: the responder ends, which waits for  *)
(* its callback; the ARP entries of the devices in the state are put back, *)
(* or those of the whole LAN if it lists none; then the Windows settings.  *)
(***************************************************************************)
Restore(p, s, call) ==
  /\ Go(p, IF p = Main THEN "unanswer" ELSE "arp") /\ Hold(p, s)
  /\ why' = [why EXCEPT ![p] = call]

StopsResponder == /\ pc[Sniffer] = "idle" /\ responder' = FALSE /\ forwarder' = FALSE

RestoreUnanswers ==
  /\ pc[Main] = "unanswer" /\ StopsResponder /\ Go(Main, "arp")
  /\ UNCHANGED <<disk, network, app, fields, lock, local, left>>

Named(s) == IF s.devices = {} THEN Devices ELSE s.devices

RestoreArp(p) ==
  /\ pc[p] = "arp" /\ Go(p, "windows")
  /\ lan' = lan \ Named(held[p]) /\ stuck' = stuck \ Named(held[p])
  /\ swept' = (swept /\ held[p].devices # {})
  /\ UNCHANGED <<disk, away, stray, app, fields, helpers, lock, local, left>>

\* Scapy raises, maybe after some of the packets: this is logged and no error of the
\* restore, so nobody tries again.
ArpFails(p) ==
  /\ pc[p] = "arp" /\ Go(p, "windows")
  /\ left.fails > 0 /\ left' = [left EXCEPT !.fails = @ - 1]
  /\ \E sent \in SUBSET Named(held[p]) :
       /\ lan' = lan \ sent
       /\ stuck' = (stuck \union (lan \intersect Named(held[p]))) \ sent
  /\ UNCHANGED <<disk, swept, away, stray, app, fields, helpers, lock, local>>

\* Where the call goes on that restored.
After(p) == IF p = Main THEN IF why[p] = "start" THEN "detect" ELSE "idle"
            ELSE "end"

\* Faulty: a recover that is part of start does not keep the lock.
Unlocks_Always(p) == lock' = IF p = Main THEN None ELSE lock

Unlocks(p) ==
  lock' = IF p = Main /\ After(p) = "idle" THEN None ELSE lock

RestoreWindows(p) ==
  /\ pc[p] = "windows"
  /\ windows' = held[p].shot /\ RemoveState(held[p].token)
  /\ Go(p, After(p)) /\ Unlocks(p) /\ Hold(p, NoFile)
  /\ why' = [why EXCEPT ![p] = "startup"]
  /\ IF p = Main
       THEN /\ Forget
            /\ stopping' = (stopping /\ why[p] # "stop")
            /\ owner' = IF why[p] = "exit" THEN 0 ELSE owner
       ELSE UNCHANGED <<active, token, devices, stopping, owner>>
  /\ UNCHANGED <<network, life, tokens, stopEvent, fresh, helpers, target, left>>

\* The state stays, as restore-pending; the undo of a start leaves it as it is.
\* A recover that failed keeps the fields, and start raises.
RestoreFails(p) ==
  /\ pc[p] = "windows"
  /\ IF p = Main THEN left.fails > 0 /\ left' = [left EXCEPT !.fails = @ - 1]
     ELSE left.misses > 0 /\ left' = [left EXCEPT !.misses = @ - 1]
  /\ IF why[p] = "undo" THEN UNCHANGED file ELSE Write(held[p])
  /\ Go(p, IF p = Main THEN "idle" ELSE "watch")
  /\ lock' = IF p = Main THEN None ELSE lock
  /\ IF p = Main /\ why[p] \in {"undo", "stop"} THEN Forget
     ELSE UNCHANGED <<active, token, devices>>
  /\ stopping' = (stopping /\ ~(p = Main /\ why[p] = "stop"))
  /\ held' = IF p = Main THEN [held EXCEPT ![p] = NoFile] ELSE held
  /\ why' = [why EXCEPT ![p] = "startup"]
  /\ owner' = IF p = Main /\ why[p] = "exit" THEN 0 ELSE owner
  /\ UNCHANGED <<windows, network, life, tokens, stopEvent, fresh, helpers, target>>
-----------------------------------------------------------------------------
(***************************************************************************)
(* One life of the application: it starts, which recovers what a dead life *)
(* left, it is closed, which recovers once more, or it is killed.          *)
(***************************************************************************)
Starts ==
  /\ owner = 0 /\ life < MaxLives /\ life' = life + 1 /\ owner' = life + 1
  /\ IF file = NoFile THEN UNCHANGED <<pc, held, why, lock>>
     ELSE Restore(Main, file, "startup") /\ lock' = Main
  /\ UNCHANGED <<disk, network, tokens, fields, helpers, target, left>>

\* run_event_loop ends: the gateway was stopped, recover(force=True) follows.
Exits ==
  /\ owner # 0 /\ pc[Main] = "idle" /\ ~active /\ lock = None
  /\ \A t \in Threads : pc[t] = "idle"
  /\ IF file = NoFile THEN owner' = 0 /\ UNCHANGED <<pc, held, why, lock>>
     ELSE Restore(Main, file, "exit") /\ lock' = Main /\ UNCHANGED owner
  /\ UNCHANGED <<disk, network, life, tokens, fields, helpers, target, left>>

Killed ==
  /\ owner # 0 /\ left.crashes > 0 /\ owner' = 0
  /\ left' = [left EXCEPT !.crashes = @ - 1]
  /\ pc' = [p \in Processes |-> IF p \in Threads THEN "idle" ELSE pc[p]]
  /\ Forget /\ stopping' = FALSE /\ stopEvent' = FALSE /\ fresh' = {}
  /\ responder' = FALSE /\ forwarder' = FALSE /\ lock' = None
  /\ held' = [p \in Processes |-> IF p \in Threads THEN NoFile ELSE held[p]]
  /\ why' = [p \in Processes |-> IF p \in Threads THEN "startup" ELSE why[p]]
  /\ target' = [p \in Processes |-> {}]
  /\ UNCHANGED <<disk, network, life, tokens>>
-----------------------------------------------------------------------------
(***************************************************************************)
(* GatewayManager.start, which holds _lock from its first line to its last *)
(***************************************************************************)
Start ==
  /\ owner # 0 /\ pc[Main] = "idle" /\ lock = None /\ ~active /\ left.sessions > 0
  /\ ~OwnerAlive(file)
  /\ lock' = Main
  /\ IF file = NoFile THEN Go(Main, "detect") /\ UNCHANGED <<held, why>>
     ELSE Restore(Main, file, "start")
  /\ UNCHANGED <<disk, network, app, fields, helpers, target, left>>

\* The LAN, the TUN and the capture are found, or the start fails or is
\* cancelled before it changed anything.
Detect ==
  /\ pc[Main] = "detect" /\ Go(Main, "snapshot")
  /\ UNCHANGED <<disk, network, app, fields, helpers, lock, local, left>>

DetectFails ==
  /\ pc[Main] = "detect" /\ Go(Main, "idle") /\ lock' = None /\ Forget
  /\ UNCHANGED <<disk, network, app, stopping, stopEvent, fresh, helpers, local, left>>

Snapshot ==
  /\ pc[Main] = "snapshot" /\ Go(Main, "write")
  /\ tokens' = tokens + 1 /\ left' = [left EXCEPT !.sessions = @ - 1]
  /\ \E found \in SUBSET Devices :
       Hold(Main, [token |-> tokens + 1, owner |-> owner, shot |-> windows,
                   devices |-> found])
  /\ UNCHANGED <<disk, network, owner, life, fields, helpers, lock, why, target>>

WriteStarting ==
  /\ pc[Main] = "write" /\ Write(held[Main]) /\ Go(Main, "launch")
  /\ UNCHANGED <<windows, network, app, fields, helpers, lock, local, left>>

\* Faulty: the state file is the only protection.
LaunchWatchdog_None == UNCHANGED held /\ Go(Main, "forward")

LaunchWatchdog ==
  LET t == held[Main].token IN
  /\ pc' = [pc EXCEPT ![Main] = "forward", ![t] = "watch"]
  /\ held' = [held EXCEPT ![t] = held[Main]]

Launch ==
  /\ pc[Main] = "launch" /\ LaunchWatchdog
  /\ UNCHANGED <<disk, network, app, fields, helpers, lock, why, target, left>>

Forward ==
  /\ pc[Main] = "forward" /\ forwarder' = TRUE /\ Go(Main, "apply")
  /\ UNCHANGED <<disk, network, app, fields, responder, lock, local, left>>

\* Apply may raise after it changed some of the settings.
Apply ==
  /\ pc[Main] = "apply" /\ windows' = "gateway"
  /\ \/ Go(Main, "respond") /\ UNCHANGED <<held, why>>
     \/ Restore(Main, held[Main], "undo")
  /\ UNCHANGED <<network, file, app, fields, helpers, lock, target, left>>

StartResponder ==
  /\ pc[Main] = "respond" /\ responder' = TRUE /\ Go(Main, "redirect")
  /\ UNCHANGED <<disk, network, app, fields, forwarder, lock, local, left>>

StartRedirects ==
  /\ pc[Main] = "redirect" /\ Go(Main, "activate")
  /\ Redirect(held[Main].devices)
  /\ UNCHANGED <<disk, stray, app, fields, helpers, lock, local, left>>

Activate ==
  /\ pc[Main] = "activate" /\ Go(Main, "idle") /\ lock' = None
  /\ Write(held[Main])
  /\ active' = TRUE /\ stopping' = FALSE /\ stopEvent' = FALSE /\ Hold(Main, NoFile)
  /\ token' = held[Main].token /\ devices' = held[Main].devices /\ fresh' = {}
  /\ UNCHANGED <<windows, network, app, helpers, why, target, left>>

\* A step of start raises, or its cancel event is set: what was done is undone.
StartFails ==
  /\ pc[Main] \in {"launch", "forward", "respond", "redirect", "activate"}
  /\ Restore(Main, held[Main], "undo")
  /\ UNCHANGED <<disk, network, app, fields, helpers, lock, target, left>>
-----------------------------------------------------------------------------
(***************************************************************************)
(* GatewayManager.stop: the lock is not held while it joins the worker,    *)
(* and the join gives up after a while.                                    *)
(***************************************************************************)
Stop ==
  /\ owner # 0 /\ pc[Main] = "idle" /\ lock = None /\ (file # NoFile \/ active)
  /\ Hold(Main, [file EXCEPT !.token = IF active THEN token ELSE @])
  /\ stopping' = TRUE /\ stopEvent' = TRUE /\ Go(Main, "join")
  /\ UNCHANGED <<disk, network, app, active, token, devices, fresh, helpers, lock, why, target, left>>

StillOwn(t) == t = 0 \/ file.token \in {0, t}

StopGoesOn ==
  /\ pc[Main] = "join" /\ lock = None
  /\ LET s == IF file # NoFile THEN file ELSE held[Main] IN
     IF StillOwn(held[Main].token) /\ s # NoFile
       THEN /\ Restore(Main, s, "stop") /\ lock' = Main
            /\ UNCHANGED <<active, token, devices, stopping>>
       ELSE /\ IF StillOwn(held[Main].token) THEN Forget
               ELSE UNCHANGED <<active, token, devices>>
            /\ stopping' = FALSE /\ Go(Main, "idle") /\ UNCHANGED <<held, why, lock>>
  /\ UNCHANGED <<disk, network, app, stopEvent, fresh, helpers, target, left>>
-----------------------------------------------------------------------------
\* What every thread of a session asks before it uses its state.
Current ==
  active /\ ~stopping /\ ~stopEvent /\ file # NoFile /\ file.token = token

Redirects(t) ==
  /\ Redirect(target[t]) /\ Aim(t, {}) /\ Go(t, "idle")
  /\ stray' = stray \union
       (IF Current /\ file.token = held[t].token THEN target[t] \ devices ELSE target[t])
  /\ Hold(t, NoFile)
  /\ UNCHANGED <<disk, app, fields, helpers, lock, why, left>>

\* An ARP or DHCP packet of a device: _record_device needs the lock.
Heard ==
  /\ responder /\ pc[Sniffer] = "idle" /\ Go(Sniffer, "scan")
  /\ \E d \in Devices : Aim(Sniffer, {d}) /\ away' = away \ {d}
  /\ UNCHANGED <<disk, lan, swept, stray, stuck, app, fields, helpers, lock, held, why,
                 left>>

Recorded(d) ==
  /\ devices' = devices \union d /\ fresh' = fresh \union d
  /\ Write([file EXCEPT !.devices = devices \union d])

\* The spoofed answer follows whether or not the device was recorded.
RecordDevice ==
  /\ pc[Sniffer] = "scan" /\ lock = None
  /\ IF Current THEN Recorded(target[Sniffer]) ELSE UNCHANGED <<devices, fresh, file>>
  /\ Hold(Sniffer, file) /\ Go(Sniffer, "redirect")
  /\ UNCHANGED <<windows, network, app, active, stopping, stopEvent, token, helpers,
                 lock, why, target, left>>

Answer == pc[Sniffer] = "redirect" /\ Redirects(Sniffer)

\* _refresh_devices: looks for devices without the lock and merges what the
\* responder recorded meanwhile; a device that was away long enough is dropped.
Discover ==
  /\ pc[Discovery] = "idle" /\ lock = None /\ Current
  /\ Hold(Discovery, file) /\ Aim(Discovery, devices) /\ fresh' = {}
  /\ Go(Discovery, "scan")
  /\ UNCHANGED <<disk, network, app, active, stopping, stopEvent, token, devices, helpers,
                 lock, why, left>>

\* Faulty: what was recorded since the discovery began is overwritten.
Merge_Overwrites(found, kept) == found \union kept

Merge(found, kept) == found \union kept \union (devices \intersect fresh)

Merged ==
  /\ pc[Discovery] = "scan" /\ lock = None
  /\ IF Current /\ file.token = held[Discovery].token
     THEN \E found \in SUBSET Devices, kept \in SUBSET target[Discovery] :
            LET now == Merge(found, kept) IN
            /\ devices' = now /\ Write([file EXCEPT !.devices = now])
            /\ LET gone == target[Discovery] \ now IN
               lan' = lan \ gone /\ away' = (away \ found) \union gone
            /\ Aim(Discovery, now)
            /\ Go(Discovery, "merged")
     ELSE /\ UNCHANGED <<devices, file, lan, away>> /\ Go(Discovery, "idle")
          /\ Aim(Discovery, {})
  /\ UNCHANGED <<windows, swept, stray, stuck, app, active, stopping, stopEvent, token, fresh,
                 helpers, lock, held, why, left>>

DiscoveryChecks ==
  /\ pc[Discovery] = "merged" /\ lock = None
  /\ Go(Discovery, IF active /\ ~stopping /\ ~stopEvent
                      /\ token = held[Discovery].token THEN "redirect" ELSE "idle")
  /\ UNCHANGED <<disk, network, app, fields, helpers, lock, local, left>>

DiscoveryRedirects == pc[Discovery] = "redirect" /\ Redirects(Discovery)

\* One round of _run: the forwarder is restarted if it died, and the devices
\* are redirected again, both without the lock.
Round ==
  /\ pc[Worker] = "idle" /\ lock = None /\ Current /\ devices # {}
  /\ Hold(Worker, file) /\ Aim(Worker, devices) /\ Go(Worker, "redirect")
  /\ UNCHANGED <<disk, network, app, fields, helpers, lock, why, left>>

RoundRedirects == pc[Worker] = "redirect" /\ Redirects(Worker)
-----------------------------------------------------------------------------
(***************************************************************************)
(* run_watchdog of token t: when the application has died, recover by      *)
(* force, again and again, as long as the file is that of its token.       *)
(***************************************************************************)
WatchdogReads(t) ==
  /\ pc[t] = "watch" /\ owner # held[t].owner
  /\ IF file.token = t THEN Restore(t, file, "watchdog")
     ELSE Go(t, "end") /\ UNCHANGED <<held, why>>
  /\ UNCHANGED <<disk, network, app, fields, helpers, lock, target, left>>

MainSteps ==
  \/ Starts \/ Start \/ Detect \/ DetectFails \/ Snapshot \/ WriteStarting
  \/ Launch \/ Forward \/ Apply \/ StartResponder \/ StartRedirects \/ Activate
  \/ StartFails \/ Stop \/ StopGoesOn \/ RestoreUnanswers
  \/ RestoreArp(Main) \/ ArpFails(Main) \/ RestoreWindows(Main) \/ RestoreFails(Main) \/ Exits

SessionSteps ==
  \/ Heard \/ RecordDevice \/ Answer \/ Discover \/ Merged \/ DiscoveryChecks
  \/ DiscoveryRedirects \/ Round \/ RoundRedirects

Watchdog(t) ==
  \/ WatchdogReads(t) \/ RestoreArp(t) \/ ArpFails(t) \/ RestoreWindows(t)
  \/ RestoreFails(t)

Next ==
  \/ MainSteps \/ SessionSteps \/ Killed
  \/ \E t \in Tokens : Watchdog(t)

\* The threads and the watchdog processes run; nobody has to start the
\* application, the gateway or a discovery, or to kill anything.
Fairness ==
  /\ WF_vars(\/ StopGoesOn \/ RestoreUnanswers \/ RestoreArp(Main)
             \/ RestoreWindows(Main))
  /\ WF_vars(RecordDevice) /\ WF_vars(Answer)
  /\ \A t \in Tokens :
       WF_vars(WatchdogReads(t) \/ RestoreArp(t) \/ RestoreWindows(t))

Spec == Init /\ [][Next]_vars /\ Fairness
-----------------------------------------------------------------------------
(***************************************************************************)
(* Whenever Windows has the gateway's settings a state file holds the      *)
(* user's, whoever restores, fails or dies at the same time (gateway.py:   *)
(* 1682, 2279, 2157).                                                      *)
(***************************************************************************)
SettingsBacked == windows = "gateway" => file.token # 0 /\ file.shot = "user"

(***************************************************************************)
(* A device this PC redirects is listed in the state file before it is     *)
(* redirected and until it is put back, also when a discovery and the      *)
(* responder record at once: whoever restores after a crash knows no other *)
(* list (gateway.py:1967, 851).  Not so a device that was redirected too   *)
(* late, and one whose ARP entry a restore failed to put back: the code    *)
(* takes both for done.                                                    *)
(***************************************************************************)
Redirected == lan \ (stray \union stuck)

RedirectedListed == Redirected \subseteq file.devices

(***************************************************************************)
(* An application that was killed while Windows had the gateway's settings *)
(* has them put back by the watchdog, though restores fail, unless it runs *)
(* again (gateway.py:2250).                                                *)
(***************************************************************************)
KilledHeals == owner = 0 ~> owner # 0 \/ windows = "user"

(***************************************************************************)
(* A stop that begins comes back (gateway.py:2130), as do disconnects that *)
(* call it.                                                                *)
(***************************************************************************)
StopReturns == pc[Main] = "join" ~> pc[Main] = "idle"
=============================================================================
