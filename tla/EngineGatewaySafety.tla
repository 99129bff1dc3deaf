------------------------ MODULE EngineGatewaySafety ------------------------
(***************************************************************************)
(* The safety properties of EngineGateway, each with its invariant, proved *)
(* from Typed and Post of EngineGatewayProofs:                             *)
(*   DisconnectedClean  from CleanInv, what holds after a Disconnect;      *)
(*   UserTunKept        from UserInv, whose the TUN is;                    *)
(*   PageAgrees         from PageInv, where the page learns of the engine; *)
(*   ToggleFree         from GateInv, whose thread locks the switch, and   *)
(*                      SmoothInv, the course without a fault;             *)
(*   NoCircularWait     from SmoothInv and the locks of each step;         *)
(*   NoLeakedLease      from LeaseInv, who gives the lease back.           *)
(* The first part defines the invariants, the second proves that each step *)
(* keeps them.                                                             *)
(***************************************************************************)
EXTENDS EngineGatewayProofs, SequenceTheorems

\* After Disconnect: connects are cancelled, no gateway-mode thread that is not
\* cancelled starts a gateway, the gateway is down once the page has passed its first
\* GatewayManager.stop, and the engine once the page has passed _stop_locked.
Barred == \A g \in Applies : gate = g => pc[g] \notin OnPath
FirstStop == pc[UI] \in Stopping /\ back[UI] = "lock"
EngineDown == ~active /\ tun = "none" /\ ~lease

CleanInv ==
  last = "disconnect" =>
    /\ cancel /\ Barred
    /\ FirstStop \/ ~gateway
    /\ pc[UI] \in {"idle", "off"} => EngineDown

\* A step that brings nothing up after Disconnect.
Tame ==
  /\ UNCHANGED <<last, cancel>>
  /\ Barred => Barred'
  /\ FirstStop \/ ~gateway => FirstStop' \/ ~gateway'
  /\ cancel /\ EngineDown => EngineDown'
  /\ pc'[UI] \in {"idle", "off"} => pc[UI] \in {"idle", "off"} \/ EngineDown'

\* The TUN is the gateway's only under its lease; and without faults it is up while
\* somebody needs it, and never both the user's and the gateway's to take down.
UserInv ==
  /\ owns => lease
  /\ smooth => /\ tun # "dead" /\ (lease \/ userTun => tun = "up")
               /\ ~(owns /\ userTun)

\* A step that keeps the TUN a user has switched on, UserTunKept of one step.
KeepsUserTun == smooth' /\ userTun /\ tun = "up" /\ tun' = "none" => ~userTun'

\* The last stop of a connect that has given up.
GivenUp == InStop(pc[Connector], back[Connector]) /\ after[Connector] = "idle"

\* What the page was told follows the engine: a signal is on its way, or a thread that
\* will post one, whenever the two differ.
PageInv ==
  /\ pc[UI] # "idle" => cancel
  /\ cancel /\ pc[UI] \in {"idle", "off"} => ~active
  /\ ~(shown /\ overlooked)
  /\ cancel /\ pc[UI] = "idle" => ~shown /\ ~overlooked
  /\ active /\ ~xray =>
       \/ pc[XrayLog] = "died" /\ rid[XrayLog] = runId
       \/ InStop(pc[XrayLog], back[XrayLog])
  /\ xray => active
  /\ ~cancel /\ Running =>
       \/ pc[Connector] # "idle"
       \/ signals = <<>> /\ (shown \/ overlooked)
       \/ signals # <<>> /\ signals[Len(signals)]
  /\ ~cancel /\ (shown \/ overlooked) /\ ~active => pc[Connector] # "idle" \/ signals # <<>>
  /\ pc[Connector] = "give up" => ~active
  /\ GivenUp => ~active /\ (~cancel /\ (shown \/ overlooked) => signals # <<>>)

\* A thread on its way to turn the gateway off.
Off(g) ==
  \/ pc[g] \in {"queued off", "check off", "disabled"}
  \/ pc[g] \in Stopping /\ back[g] = "disabled"

\* Once the page shows no connection, the gateway-mode thread it waits for is one that
\* turns the gateway off.
GateInv == \A g \in Applies : gate = g /\ ~shown => Off(g)

\* The thread stays where it is, or inside Engine.stop.
Alike(t) ==
  /\ after'[t] = after[t]
  /\ \/ pc'[t] = pc[t] /\ back'[t] = back[t]
     \/ InStop(pc[t], back[t]) /\ InStop(pc'[t], back'[t])

\* What a step of GatewayManager.stop in thread t does to the rest of the state.
StopLeaves(t) ==
  /\ pc[t] \in Stopping /\ Only({t}) /\ after'[t] = after[t]
  /\ \/ pc'[t] \in Stopping /\ back'[t] = back[t]
     \/ pc'[t] = back[t]
  /\ UNCHANGED <<engine, page, rid, lifecycle>>
  /\ file' \in {file, "none"} /\ (gateway' => gateway)
  /\ smooth' => smooth /\ failed' \subseteq failed

\* What a step of a gateway-mode thread g outside GatewayManager.stop does.
ApplyLeaves(g) ==
  /\ Only({g} \union Workers) /\ (\A w \in Workers : pc'[w] \in {pc[w], "watch"})
  /\ UNCHANGED <<engine, connecting, shown, cancel, signals, last, rid, failed>>
  /\ gate' = None \/ UNCHANGED <<gate, requested>>
  /\ pc'[g] \notin {"begin", "join", "end", "lease"}
  /\ pc'[g] = "recover" \/ file' = "stale" => file = "stale"
  /\ pc[g] \notin Starting => UNCHANGED <<file, gateway, manager>>
  /\ pc[g] = "ready" => UNCHANGED <<file, gateway>> /\ (gate = g \/ UNCHANGED manager)
  /\ gateway => gateway'
  /\ smooth' => smooth /\ (file' = "own" => file = "own" \/ gateway')
  /\ \A u \in Threads \ {g} : seen'[u] = seen[u]

\* What a step of the connect thread outside GatewayManager.stop does.
AttemptLeaves ==
  /\ pc[Connector] \in {"start", "spawn", "probe", "failed", "give up"} /\ Only({Connector})
  /\ UNCHANGED <<gw, shown, cancel, requested, gate, last, seen, failed, serial, manager>>
  /\ UNCHANGED smooth
  /\ pc'[Connector] \in {"idle", "serial", "probe", "tun on"}
  /\ UNCHANGED <<runId, active, xray>> \/ (active' /\ xray')
  /\ \A u \in Threads \ {Connector} : rid'[u] = rid[u]
  /\ pc'[Connector] # "idle" /\ ~cancel => GivenUp' \/ UNCHANGED <<connecting, signals>>

\* The steps of a gateway-mode thread that is turning the gateway on.
Track == OnPath \union {"applied"}

\* No fault has come: nothing stale is recovered, and no reader of a log has found an end.
NoFaults ==
  /\ file # "stale" /\ failed = {} /\ (active => xray)
  /\ pc[XrayLog] = "idle" /\ pc[TunLog] = "idle"
  /\ \A t \in Threads : pc[t] # "recover"

\* The gateway is down and nobody brings it up or down; or the engine runs, no connect is
\* under way, and the page is at most in the stop of the gateway that Engine.stop begins with.
Calm ==
  /\ file = "none" /\ ~gateway /\ manager = None
  /\ \A t \in Threads : pc[t] \notin {"join", "end"}
Steady == Running /\ pc[Connector] = "idle" /\ (pc[UI] = "idle" \/ FirstStop)
Settled == Calm \/ Steady

\* A gateway-mode thread that turns the gateway on is still wanted.
Wanted(g) ==
  /\ pc[g] \in Track /\ Running /\ pc[Connector] = "idle" /\ pc[UI] = "idle"
  /\ rid[g] = runId /\ shown /\ ~connecting /\ requested
OnTrack == \A g \in Applies : gate = g => Off(g) \/ Wanted(g)

\* A connect that is not cancelled has told the page nothing yet.
Trying == pc[Connector] # "idle" /\ ~cancel => GivenUp \/ (connecting /\ signals = <<>>)

\* GatewayManager.stop gives back the lease of the run that is on; and only a gateway that
\* runs has its state file.
Fresh ==
  /\ \A t \in Threads : pc[t] = "lease" => seen[t] = runId
  /\ file = "own" => gateway

SmoothInv == smooth => NoFaults /\ Settled /\ OnTrack /\ Trying /\ Fresh

\* What a step of the TUN mode does, in a connect or for a click.
DeviceLeaves(t) ==
  /\ t \in {Connector, Mode} /\ pc[t] \in {"tun on", "tun off"} /\ Only({t})
  /\ pc'[t] \in {"idle", "failed", "tun off"}
  /\ UNCHANGED <<engine, gw, connecting, shown, cancel, requested, gate, last, rid, seen, failed,
                 serial, manager, smooth>>
  /\ pc'[Connector] # "idle" => UNCHANGED signals

\* The steps that are left without a fault.
Faultless ==
  \/ UNCHANGED vars
  \/ \E t \in Threads : StopGateway(t) \/ EngineLock(t) \/ StopLocked(t) \/ Attempt(t) \/ Device(t)
  \/ \E g \in Applies : ApplyMode(g) \/ Disconnect(g) \/ StateOff(g) \/ QueueOn(g) \/ GatewayOff(g)
  \/ \E w \in Workers : WorkerOffline(w) \/ WorkerEnds(w)
  \/ Connect \/ StateOn \/ GatewayOn \/ SwitchTun

\* A thread on its way to give the lease back, or to stop the engine, which discards it.
GivesBack(t) ==
  \/ pc[t] \in {"adapter", "apply", "return", "undo", "lock", "body"}
  \/ pc[t] \in Stopping /\ back[t] = "body"

\* What a thread relies on at its step: the file is as start and stop have found it, the
\* gateway is down until start has applied it, and a run that has ended has no lease.
Relies(t) ==
  /\ pc[t] \in Starting \ {"ready"} => ~gateway
  /\ pc[t] = "recover" => file = "stale"
  /\ pc[t] \in Starting \ {"ready", "recover", "undo"} => file = "none"
  /\ pc[t] = "undo" => file # "stale"
  /\ pc[t] = "lease" => file # "none"
  /\ pc[t] \in {"return", "undo"} /\ seen[t] # runId => ~lease
  /\ pc[t] = "spawn" => ~lease

\* A lease is in the state file, or a thread is on its way to give it back.
LeaseInv ==
  /\ file = "stale" => ~lease
  /\ gateway => file = "own"
  /\ \A t \in Threads : Relies(t)
  /\ lease => file = "own" \/ \E t \in Threads : GivesBack(t)

-----------------------------------------------------------------------------

\* The page stops the engine, or does nothing.
LEMMA UiSteps ==
  ASSUME Placed, Carried, Post
  PROVE  /\ pc[UI] \in {"idle", "off", "lock", "body", "serial", "begin", "join", "end", "lease"}
         /\ pc[UI] \in {"serial", "begin", "join", "end", "lease"} => back[UI] \in {"lock", "body"}
         /\ pc[UI] \notin {"idle", "off"} => after[UI] = "off"
<1>1. Fits(UI, pc[UI], back[UI], after[UI])
  BY Kinds DEF Post, Seated
<1>2. pc[UI] \in PCs /\ back[UI] \in {"lock", "body", "applied", "disabled", "leave", "ended"}
  BY Kinds DEF Placed, Carried
<1>3. pc[UI] \in {"idle", "off", "lock", "body", "serial", "begin", "join", "end", "lease"}
  BY <1>1, <1>2, Labels, Differ DEF Fits, Stopping, Starting, OnPath, Modes
<1>4. pc[UI] \in {"serial", "begin", "join", "end", "lease"} => back[UI] \in {"lock", "body"}
  BY <1>1, <1>2, Differ DEF Fits, Stopping
<1> QED
  BY <1>1, <1>3, <1>4, Differ DEF Fits, InStop, Stopping

\* Every step keeps CleanInv: only Connect clears the Disconnect, and the rest is Tame.
LEMMA CleanNext == Typed /\ Post /\ CleanInv /\ [Next]_vars => CleanInv'
<1> SUFFICES ASSUME Typed, Post, CleanInv, [Next]_vars PROVE CleanInv'
  OBVIOUS
<1>pt. Placed /\ Carried
  BY DEF Typed
<1> USE <1>pt
<1>pg. /\ pc[UI] \in {"idle", "off", "lock", "body", "serial", "begin", "join", "end", "lease"}
       /\ pc[UI] \in {"serial", "begin", "join", "end", "lease"} => back[UI] \in {"lock", "body"}
       /\ pc[UI] \notin {"idle", "off"} => after[UI] = "off"
  BY UiSteps
<1> USE <1>pg
<1>tm. Tame => CleanInv'
  BY DEF Tame, CleanInv
<1>st. CASE UNCHANGED vars
  BY <1>st
     DEF vars, locks, engine, device, gw, page, local, CleanInv, Barred, FirstStop, EngineDown
<1>1. ASSUME NEW t \in Threads, Serialise(t) PROVE CleanInv'
  <2>1. Tame
    BY <1>1, Kinds, Differ
       DEF Serialise, Go, engine, device, gw, page, local, Tame, Barred, FirstStop, EngineDown,
           Running, Stopping, Starting, OnPath, Placed, Carried
  <2> QED
    BY <1>tm, <2>1
<1>2. ASSUME NEW t \in Threads, NothingToStop(t) PROVE CleanInv'
  <2>1. Tame
    BY <1>2, Kinds, Differ
       DEF NothingToStop, Returns, engine, device, gw, page, Go, Tame, Barred, FirstStop,
           EngineDown, Running, Stopping, Starting, OnPath, Placed, Carried
  <2> QED
    BY <1>tm, <2>1
<1>3. ASSUME NEW t \in Threads, StopBegins(t) PROVE CleanInv'
  <2>1. Tame
    BY <1>3, Kinds, Differ
       DEF StopBegins, Go, engine, device, page, local, Tame, Barred, FirstStop, EngineDown,
           Running, Stopping, Starting, OnPath, Placed, Carried
  <2> QED
    BY <1>tm, <2>1
<1>4. ASSUME NEW t \in Threads, StopJoins(t) PROVE CleanInv'
  <2>1. Tame
    BY <1>4, Kinds, Differ
       DEF StopJoins, Go, engine, device, gw, page, local, Tame, Barred, FirstStop, EngineDown,
           Running, Stopping, Starting, OnPath, Placed, Carried
  <2> QED
    BY <1>tm, <2>1
<1>5. ASSUME NEW t \in Threads, StopRestores(t) PROVE CleanInv'
  <2>1. UNCHANGED <<last, cancel, gate, active, tun, lease>> /\ ~gateway'
    BY <1>5 DEF StopRestores, StopEnds, engine, device, page
  <2>2. pc[t] = "end" /\ pc' = [pc EXCEPT ![t] = back[t]]
    BY <1>5 DEF StopRestores, StopEnds, Returns, Go
  <2>3. Barred => Barred'
    BY <2>1, <2>2, Kinds DEF Barred, OnPath, Starting, Placed, Carried
  <2>4. pc'[UI] \in {"idle", "off"} => pc[UI] \in {"idle", "off"}
    BY <2>2, Kinds DEF Placed
  <2>5. Tame
    BY <2>1, <2>3, <2>4 DEF Tame, EngineDown
  <2> QED
    BY <1>tm, <2>5
<1>6. ASSUME NEW t \in Threads, StopRestoresAndReleases(t) PROVE CleanInv'
  <2>1. Tame
    BY <1>6, Kinds, Differ
       DEF StopRestoresAndReleases, Go, engine, device, gw, page, Tame, Barred, FirstStop,
           EngineDown, Running, Stopping, Starting, OnPath, Placed, Carried
  <2> QED
    BY <1>tm, <2>1
<1>7. ASSUME NEW t \in Threads, StopReleases(t) PROVE CleanInv'
  <2>1. Tame
    BY <1>7, Kinds, Differ
       DEF StopReleases, ReleaseLease, device, StopEnds, engine, page, Returns, Go, Tame, Barred,
           FirstStop, EngineDown, Running, Stopping, Starting, OnPath, Placed, Carried
  <2> QED
    BY <1>tm, <2>1
<1>8. ASSUME NEW t \in Threads, EngineLock(t) PROVE CleanInv'
  <2>1. Tame
    BY <1>8, Kinds, Differ
       DEF EngineLock, CallStop, engine, device, gw, page, Go, Tame, Barred, FirstStop, EngineDown,
           Running, Stopping, Starting, OnPath, Placed, Carried
  <2> QED
    BY <1>tm, <2>1
<1>9. ASSUME NEW t \in Threads, StopLocked(t) PROVE CleanInv'
  <2>1. Tame
    BY <1>9, Kinds, Differ
       DEF StopLocked, DiscardLease, StopTun, StopReturns, gw, Go, Tame, Barred, FirstStop,
           EngineDown, Running, Stopping, Starting, OnPath, Placed, Carried
  <2> QED
    BY <1>tm, <2>1
<1>10. ASSUME NEW t \in Threads, StartEngine(t) PROVE CleanInv'
  <2>1. ~cancel /\ UNCHANGED last
    BY <1>10 DEF StartEngine, page
  <2> QED
    BY <2>1 DEF CleanInv
<1>11. ASSUME NEW t \in Threads, Spawn(t) PROVE CleanInv'
  <2>1. ~cancel /\ UNCHANGED last
    BY <1>11 DEF Spawn, page
  <2> QED
    BY <2>1 DEF CleanInv
<1>12. ASSUME NEW t \in Threads, SpawnFails(t) PROVE CleanInv'
  <2>1. Tame
    BY <1>12, Kinds, Differ
       DEF SpawnFails, CallStop, engine, device, gw, page, Go, Tame, Barred, FirstStop, EngineDown,
           Running, Stopping, Starting, OnPath, Placed, Carried
  <2> QED
    BY <1>tm, <2>1
<1>13. ASSUME NEW t \in Threads, AttemptCancelled(t) PROVE CleanInv'
  <2>1. Tame
    BY <1>13, Kinds, Differ
       DEF AttemptCancelled, Go, engine, device, gw, page, local, Tame, Barred, FirstStop,
           EngineDown, Running, Stopping, Starting, OnPath, Placed, Carried
  <2> QED
    BY <1>tm, <2>1
<1>14. ASSUME NEW t \in Threads, AttemptFails(t) PROVE CleanInv'
  <2>1. ~cancel /\ UNCHANGED last
    BY <1>14 DEF AttemptFails, page
  <2> QED
    BY <2>1 DEF CleanInv
<1>15. ASSUME NEW t \in Threads, GiveUp(t) PROVE CleanInv'
  <2>1. UNCHANGED <<last, cancel, gate, gateway, active, tun, lease>>
    BY <1>15 DEF GiveUp, engine, device, gw
  <2>2. \E l \in {"idle", "serial"} : pc' = [pc EXCEPT ![t] = l]
    BY <1>15 DEF GiveUp, CallEngineStop, EngineStopBegins, Go
  <2>3. t # UI
    BY <1>15 DEF GiveUp
  <2>4. pc'[UI] = pc[UI] /\ back'[UI] = back[UI]
    BY <1>15, <2>2, <2>3, Kinds DEF GiveUp, CallEngineStop, Placed, Carried
  <2>5. Barred => Barred'
    BY <2>1, <2>2, Kinds DEF Barred, OnPath, Starting, Placed
  <2>6. Tame
    BY <2>1, <2>4, <2>5 DEF Tame, FirstStop, EngineDown
  <2> QED
    BY <1>tm, <2>6
<1>16. ASSUME NEW t \in Threads, AttemptSucceeds(t) PROVE CleanInv'
  <2>1. ~cancel /\ UNCHANGED last
    BY <1>16 DEF AttemptSucceeds
  <2> QED
    BY <2>1 DEF CleanInv
<1>17. ASSUME NEW t \in Threads, TunOn(t) PROVE CleanInv'
  <2>1. ~cancel /\ UNCHANGED last
    BY <1>17 DEF TunOn
  <2> QED
    BY <2>1 DEF CleanInv
<1>18. ASSUME NEW t \in Threads, TunRefused(t) PROVE CleanInv'
  <2>1. Tame
    BY <1>18, Kinds, Differ
       DEF TunRefused, Go, engine, device, gw, page, local, Tame, Barred, FirstStop, EngineDown,
           Running, Stopping, Starting, OnPath, Placed, Carried
  <2> QED
    BY <1>tm, <2>1
<1>19. ASSUME NEW t \in Threads, TunOff(t) PROVE CleanInv'
  <2>1. Tame
    BY <1>19, Kinds, Differ
       DEF TunOff, device, Go, engine, gw, page, local, Tame, Barred, FirstStop, EngineDown,
           Running, Stopping, Starting, OnPath, Placed, Carried
  <2> QED
    BY <1>tm, <2>1
<1>20. ASSUME NEW t \in Threads, XrayLogEnds(t) PROVE CleanInv'
  <2>1. UNCHANGED <<last, cancel, gate, gateway, active, tun, lease>>
    BY <1>20 DEF XrayLogEnds, engine, device, gw, page
  <2>2. t = XrayLog /\ \E l \in {"idle", "serial"} : pc' = [pc EXCEPT ![t] = l]
    BY <1>20 DEF XrayLogEnds, CallEngineStop, EngineStopBegins, Go
  <2>3. pc'[UI] = pc[UI] /\ back'[UI] = back[UI]
    <3>1. pc'[UI] = pc[UI]
      BY <2>2, Kinds, Differ DEF Placed
    <3>2. back' = back \/ back' = [back EXCEPT ![t] = "lock"]
      BY <1>20 DEF XrayLogEnds, CallEngineStop
    <3> QED
      BY <2>2, <3>1, <3>2, Kinds, Differ DEF Carried
  <2>4. Barred => Barred'
    BY <2>1, <2>2, Kinds DEF Barred, OnPath, Starting, Placed
  <2>5. Tame
    BY <2>1, <2>3, <2>4 DEF Tame, FirstStop, EngineDown
  <2> QED
    BY <1>tm, <2>5
<1>21. ASSUME NEW t \in Threads, TunLogEnds(t) PROVE CleanInv'
  <2>1. UNCHANGED <<last, cancel, gate, gateway, active, lease>> /\ tun' \in {tun, "none"}
    BY <1>21 DEF TunLogEnds, engine, gw, page
  <2>2. t = TunLog /\ \E l \in {"idle", "serial"} : pc' = [pc EXCEPT ![t] = l]
    BY <1>21 DEF TunLogEnds, CallEngineStop, EngineStopBegins, Go
  <2>3. pc'[UI] = pc[UI] /\ back'[UI] = back[UI]
    <3>1. pc'[UI] = pc[UI]
      BY <2>2, Kinds, Differ DEF Placed
    <3>2. back' = back \/ back' = [back EXCEPT ![t] = "lock"]
      BY <1>21 DEF TunLogEnds, CallEngineStop
    <3> QED
      BY <2>2, <3>1, <3>2, Kinds, Differ DEF Carried
  <2>4. Barred => Barred'
    BY <2>1, <2>2, Kinds DEF Barred, OnPath, Starting, Placed
  <2>5. Tame
    BY <2>1, <2>3, <2>4 DEF Tame, FirstStop, EngineDown
  <2> QED
    BY <1>tm, <2>5
<1>22. ASSUME NEW g \in Applies, Overtaken(g) PROVE CleanInv'
  <2>1. Tame
    BY <1>22, Kinds, Differ
       DEF Overtaken, Go, engine, device, gw, page, local, Tame, Barred, FirstStop, EngineDown,
           Running, Stopping, Starting, OnPath, Placed, Carried
  <2> QED
    BY <1>tm, <2>1
<1>23. ASSUME NEW g \in Applies, ApplyOn(g) PROVE CleanInv'
  <2>1. Tame
    BY <1>23, Kinds, Differ
       DEF ApplyOn, Go, engine, device, gw, page, local, Tame, Barred, FirstStop, EngineDown,
           Running, Stopping, Starting, OnPath, Placed, Carried
  <2> QED
    BY <1>tm, <2>1
<1>24. ASSUME NEW g \in Applies, CheckOn(g) PROVE CleanInv'
  <2>1. Tame
    BY <1>24, Kinds, Differ
       DEF CheckOn, Go, engine, device, gw, page, local, Tame, Barred, FirstStop, EngineDown,
           Running, Stopping, Starting, OnPath, Placed, Carried
  <2> QED
    BY <1>tm, <2>1
<1>25. ASSUME NEW g \in Applies, StartReturns(g) PROVE CleanInv'
  <2>1. Tame
    BY <1>25, Kinds, Differ
       DEF StartReturns, Go, engine, device, gw, page, local, Tame, Barred, FirstStop, EngineDown,
           Running, Stopping, Starting, OnPath, Placed, Carried
  <2> QED
    BY <1>tm, <2>1
<1>26. ASSUME NEW g \in Applies, StartGateway(g) PROVE CleanInv'
  <2>1. Tame
    BY <1>26, Kinds, Differ
       DEF StartGateway, Go, engine, device, gw, page, local, Tame, Barred, FirstStop, EngineDown,
           Running, Stopping, Starting, OnPath, Placed, Carried
  <2> QED
    BY <1>tm, <2>1
<1>27. ASSUME NEW g \in Applies, Recover(g) PROVE CleanInv'
  <2>1. Tame
    BY <1>27, Kinds, Differ
       DEF Recover, Go, Raise, engine, device, page, local, Tame, Barred, FirstStop, EngineDown,
           Running, Stopping, Starting, OnPath, Placed, Carried
  <2> QED
    BY <1>tm, <2>1
<1>28. ASSUME NEW g \in Applies, Detect(g) PROVE CleanInv'
  <2>1. Tame
    BY <1>28, Kinds, Differ
       DEF Detect, Go, Raise, engine, device, gw, page, Tame, Barred, FirstStop, EngineDown,
           Running, Stopping, Starting, OnPath, Placed, Carried
  <2> QED
    BY <1>tm, <2>1
<1>29. ASSUME NEW g \in Applies, Acquire(g) PROVE CleanInv'
  <2>1. Tame
    BY <1>29, Kinds, Differ
       DEF Acquire, Go, engine, gw, page, local, Tame, Barred, FirstStop, EngineDown, Running,
           Stopping, Starting, OnPath, Placed, Carried
  <2> QED
    BY <1>tm, <2>1
<1>30. ASSUME NEW g \in Applies, AcquireRaises(g) PROVE CleanInv'
  <2>1. Tame
    BY <1>30, Kinds, Differ
       DEF AcquireRaises, Raise, engine, device, gw, page, local, Go, Tame, Barred, FirstStop,
           EngineDown, Running, Stopping, Starting, OnPath, Placed, Carried
  <2> QED
    BY <1>tm, <2>1
<1>31. ASSUME NEW g \in Applies, AdapterUp(g) PROVE CleanInv'
  <2>1. Tame
    BY <1>31, Kinds, Differ
       DEF AdapterUp, Go, engine, device, gw, page, local, Tame, Barred, FirstStop, EngineDown,
           Running, Stopping, Starting, OnPath, Placed, Carried
  <2> QED
    BY <1>tm, <2>1
<1>32. ASSUME NEW g \in Applies, AdapterMissing(g) PROVE CleanInv'
  <2>1. Tame
    BY <1>32, Kinds, Differ
       DEF AdapterMissing, Go, engine, device, gw, page, Tame, Barred, FirstStop, EngineDown,
           Running, Stopping, Starting, OnPath, Placed, Carried
  <2> QED
    BY <1>tm, <2>1
<1>33. ASSUME NEW g \in Applies, ReturnLease(g) PROVE CleanInv'
  <2>1. Tame
    BY <1>33, Kinds, Differ
       DEF ReturnLease, ReleaseLease, Go, Raise, device, engine, gw, page, Tame, Barred, FirstStop,
           EngineDown, Running, Stopping, Starting, OnPath, Placed, Carried
  <2> QED
    BY <1>tm, <2>1
<1>34. ASSUME NEW g \in Applies, ApplyGateway(g) PROVE CleanInv'
  <2>1. PICK w \in Workers : pc' = [pc EXCEPT ![g] = "started", ![w] = "watch"]
    BY <1>34 DEF ApplyGateway
  <2>2. pc[g] = "apply" /\ gate = g /\ UNCHANGED <<last, cancel, gate, active, tun, lease>>
    BY <1>34 DEF ApplyGateway, engine, device, page
  <2>3. ~Barred
    BY <2>2 DEF Barred, OnPath, Starting
  <2> QED
    BY <2>2, <2>3 DEF CleanInv
<1>35. ASSUME NEW g \in Applies, ApplyFails(g) PROVE CleanInv'
  <2>1. Tame
    BY <1>35, Kinds, Differ
       DEF ApplyFails, Go, engine, device, page, Tame, Barred, FirstStop, EngineDown, Running,
           Stopping, Starting, OnPath, Placed, Carried
  <2> QED
    BY <1>tm, <2>1
<1>36. ASSUME NEW g \in Applies, UndoLease(g) PROVE CleanInv'
  <2>1. Tame
    BY <1>36, Kinds, Differ
       DEF UndoLease, ReleaseLease, device, Raise, engine, gw, page, local, Go, Tame, Barred,
           FirstStop, EngineDown, Running, Stopping, Starting, OnPath, Placed, Carried
  <2> QED
    BY <1>tm, <2>1
<1>37. ASSUME NEW g \in Applies, StartedStale(g) PROVE CleanInv'
  <2>1. Tame
    BY <1>37, Kinds, Differ
       DEF StartedStale, CallStop, engine, device, gw, page, Go, Tame, Barred, FirstStop,
           EngineDown, Running, Stopping, Starting, OnPath, Placed, Carried
  <2> QED
    BY <1>tm, <2>1
<1>38. ASSUME NEW g \in Applies, Started(g) PROVE CleanInv'
  <2>1. Tame
    BY <1>38, Kinds, Differ
       DEF Started, Go, engine, device, gw, page, local, Tame, Barred, FirstStop, EngineDown,
           Running, Stopping, Starting, OnPath, Placed, Carried
  <2> QED
    BY <1>tm, <2>1
<1>39. ASSUME NEW g \in Applies, StillCurrent(g) PROVE CleanInv'
  <2>1. Tame
    BY <1>39, Kinds, Differ
       DEF StillCurrent, Go, engine, device, gw, page, local, Tame, Barred, FirstStop, EngineDown,
           Running, Stopping, Starting, OnPath, Placed, Carried
  <2> QED
    BY <1>tm, <2>1
<1>40. ASSUME NEW g \in Applies, ApplyOff(g) PROVE CleanInv'
  <2>1. Tame
    BY <1>40, Kinds, Differ
       DEF ApplyOff, Go, engine, device, gw, page, local, Tame, Barred, FirstStop, EngineDown,
           Running, Stopping, Starting, OnPath, Placed, Carried
  <2> QED
    BY <1>tm, <2>1
<1>41. ASSUME NEW g \in Applies, CheckOff(g) PROVE CleanInv'
  <2>1. \E l \in {"serial", "leave", "disabled"} : pc' = [pc EXCEPT ![g] = l]
    BY <1>41 DEF CheckOff, CallStop, Go
  <2>2. back'[UI] = back[UI] /\ pc'[UI] = pc[UI]
    <3>1. /\ g # UI /\ g \in Threads
          /\ \/ back' = back
             \/ back' = [back EXCEPT ![g] = "leave"]
             \/ back' = [back EXCEPT ![g] = "disabled"]
      BY <1>41, Differ, Kinds DEF CheckOff, CallStop
    <3>2. back'[UI] = back[UI]
      BY <3>1, Kinds DEF Carried
    <3>3. pc'[UI] = pc[UI]
      BY <2>1, <3>1, Kinds DEF Placed
    <3> QED
      BY <3>2, <3>3
  <2>3. UNCHANGED <<last, cancel, gate, gateway, active, tun, lease>>
    BY <1>41 DEF CheckOff, engine, device, gw, page
  <2>4. Barred => Barred'
    BY <2>1, <2>3, Kinds DEF Barred, OnPath, Starting, Placed
  <2>5. Tame
    BY <2>2, <2>3, <2>4 DEF Tame, FirstStop, EngineDown
  <2> QED
    BY <1>tm, <2>5
<1>42. ASSUME NEW g \in Applies, ApplyEnds(g) PROVE CleanInv'
  <2>1. /\ UNCHANGED <<last, cancel, gateway, active, tun, lease, back>>
        /\ gate' \in {gate, None} /\ pc' = [pc EXCEPT ![g] = "done"]
    BY <1>42 DEF ApplyEnds, Go, engine, device, gw, local
  <2>2. Barred => Barred'
    BY <2>1, Kinds DEF Barred, OnPath, Starting, Placed
  <2>3. pc'[UI] = pc[UI]
    BY <2>1, Differ DEF Placed
  <2> QED
    BY <1>tm, <2>1, <2>2, <2>3 DEF Tame, FirstStop, EngineDown
<1>43. ASSUME NEW g \in Applies, Disconnect(g) PROVE CleanInv'
  <2>1. cancel'
    BY <1>43 DEF Disconnect, PageStopsEngine
  <2>2. Barred'
    <3>1. gate' = None \/ (gate' = g /\ pc'[g] = "queued off")
      BY <1>43, Kinds, Differ DEF Disconnect, ResetGateway, Placed
    <3> QED
      BY <3>1, Kinds DEF Barred, Starting, OnPath
  <2>3. pc'[UI] = "serial" /\ back'[UI] = "lock"
    BY <1>43, Kinds, Differ
       DEF Disconnect, ResetGateway, PageStopsEngine, EngineStopBegins, Go, Placed, Carried
  <2> QED
    BY <2>1, <2>2, <2>3 DEF CleanInv, FirstStop, Stopping
<1>44. ASSUME NEW g \in Applies, StateOff(g) PROVE CleanInv'
  <2>1. Barred'
    <3>1. gate' = None \/ (gate' = g /\ pc'[g] = "queued off")
      BY <1>44, Kinds, Differ DEF StateOff, ResetGateway, Placed
    <3> QED
      BY <3>1, Kinds DEF Barred, Starting, OnPath
  <2>2. pc[UI] \in {"idle", "off"} /\ UNCHANGED <<last, cancel, gateway, active, tun, lease>>
    BY <1>44 DEF StateOff, PageIdle, engine, device, gw
  <2> QED
    BY <2>1, <2>2 DEF CleanInv, FirstStop, EngineDown, Stopping
<1>45. ASSUME NEW g \in Applies, QueueOn(g) PROVE CleanInv'
  <2>1. UNCHANGED last /\ pc[UI] = "idle" /\ active
    BY <1>45 DEF QueueOn, PageIdle, Running
  <2> QED
    BY <2>1 DEF CleanInv, EngineDown
<1>46. ASSUME NEW g \in Applies, GatewayOff(g) PROVE CleanInv'
  <2>1. Tame
    BY <1>46, Kinds, Differ
       DEF GatewayOff, Go, engine, device, gw, Tame, Barred, FirstStop, EngineDown, Running,
           Stopping, Starting, OnPath, Placed, Carried
  <2> QED
    BY <1>tm, <2>1
<1>47. ASSUME NEW w \in Workers, WorkerOffline(w) PROVE CleanInv'
  <2>1. Tame
    BY <1>47, Kinds, Differ
       DEF WorkerOffline, CallStop, engine, device, gw, page, Go, Tame, Barred, FirstStop,
           EngineDown, Running, Stopping, Starting, OnPath, Placed, Carried
  <2> QED
    BY <1>tm, <2>1
<1>48. ASSUME NEW w \in Workers, WorkerEnds(w) PROVE CleanInv'
  <2>1. Tame
    BY <1>48, Kinds, Differ
       DEF WorkerEnds, Go, engine, device, gw, local, Tame, Barred, FirstStop, EngineDown, Running,
           Stopping, Starting, OnPath, Placed, Carried
  <2> QED
    BY <1>tm, <2>1
<1>49. CASE Connect
  <2>1. last' = "connect"
    BY <1>49 DEF Connect
  <2> QED
    BY <2>1 DEF CleanInv
<1>50. CASE SwitchProfile
  <2>1. last' = "connect"
    BY <1>50 DEF SwitchProfile
  <2> QED
    BY <2>1 DEF CleanInv
<1>51. CASE StateOn
  <2>1. Tame
    BY <1>51, Kinds, Differ
       DEF StateOn, engine, device, gw, local, Tame, Barred, FirstStop, EngineDown, Running,
           Stopping, Starting, OnPath, Placed, Carried
  <2> QED
    BY <1>tm, <2>1
<1>52. CASE GatewayOn
  <2>1. Tame
    BY <1>52, Kinds, Differ
       DEF GatewayOn, engine, device, gw, local, Tame, Barred, FirstStop, EngineDown, Running,
           Stopping, Starting, OnPath, Placed, Carried
  <2> QED
    BY <1>tm, <2>1
<1>53. CASE SwitchTun
  <2>1. Tame
    BY <1>53, Kinds, Differ
       DEF SwitchTun, Go, engine, device, gw, page, Tame, Barred, FirstStop, EngineDown, Running,
           Stopping, Starting, OnPath, Placed, Carried
  <2> QED
    BY <1>tm, <2>1
<1>54. CASE XrayDies
  <2>1. Tame
    BY <1>54, Kinds, Differ
       DEF XrayDies, Go, device, gw, page, Tame, Barred, FirstStop, EngineDown, Running, Stopping,
           Starting, OnPath, Placed, Carried
  <2> QED
    BY <1>tm, <2>1
<1>55. CASE TunDies
  <2>1. Tame
    BY <1>55, Kinds, Differ
       DEF TunDies, Go, engine, gw, page, local, Tame, Barred, FirstStop, EngineDown, Running,
           Stopping, Starting, OnPath, Placed, Carried
  <2> QED
    BY <1>tm, <2>1
<1> QED
  BY <1>st, <1>1, <1>2, <1>3, <1>4, <1>5, <1>6, <1>7, <1>8, <1>9, <1>10, <1>11, <1>12, <1>13,
     <1>14, <1>15, <1>16, <1>17, <1>18, <1>19, <1>20, <1>21, <1>22, <1>23, <1>24, <1>25, <1>26,
     <1>27, <1>28, <1>29, <1>30, <1>31, <1>32, <1>33, <1>34, <1>35, <1>36, <1>37, <1>38, <1>39,
     <1>40, <1>41, <1>42, <1>43, <1>44, <1>45, <1>46, <1>47, <1>48, <1>49, <1>50, <1>51, <1>52,
     <1>53, <1>54, <1>55
     DEF Next, Step, StopGateway, Attempt, Device, ApplyMode, Clicks

\* After a Disconnect, with every thread at rest, neither the engine nor the TUN nor the
\* gateway runs, and no lease is left (engine.py:3125, gateway.py:2131).
THEOREM DisconnectLeavesNothing == Spec => []DisconnectedClean
<1>1. Init => CleanInv
  BY DEF Init, CleanInv
<1>2. Typed /\ Post /\ CleanInv => DisconnectedClean
  <2> SUFFICES ASSUME Typed, Post, CleanInv, Quiet, last = "disconnect"
               PROVE  ~active /\ tun = "none" /\ ~lease /\ ~gateway
    BY DEF DisconnectedClean
  <2>1. pc[UI] \in {"idle", "done", "watch"}
    BY Kinds DEF Quiet
  <2>3. pc[UI] = "idle"
    BY <2>1, UiSteps DEF Typed
  <2>2. ~FirstStop
    BY <2>1 DEF FirstStop, Stopping
  <2> QED
    BY <2>2, <2>3 DEF CleanInv, EngineDown
<1> QED
  BY <1>1, <1>2, Core, CleanNext, PTL DEF Spec

\* Releasing the gateway's lease keeps UserInv, and the TUN of a user.
LEMMA Releases ==
  ASSUME Leased, UserInv, ReleaseLease, smooth' = smooth
  PROVE  UserInv' /\ KeepsUserTun
BY DEF Leased, UserInv, ReleaseLease, KeepsUserTun

\* A step that leaves the TUN and its owners alone.
LEMMA LeavesTun ==
  ASSUME UserInv, UNCHANGED <<tun, lease, owns, userTun>>, smooth' => smooth
  PROVE  UserInv' /\ KeepsUserTun
BY DEF UserInv, KeepsUserTun

\* Every step keeps UserInv, and the TUN of a user.
LEMMA UserNext == Typed /\ UserInv /\ [Next]_vars => UserInv' /\ KeepsUserTun
<1> SUFFICES ASSUME Typed, UserInv, [Next]_vars PROVE UserInv' /\ KeepsUserTun
  OBVIOUS
<1>ty. Leased /\ Spent
  BY DEF Typed
<1>st. CASE UNCHANGED vars
  BY <1>st, LeavesTun DEF vars, device, budget
<1>1. ASSUME NEW t \in Threads, Serialise(t) PROVE UserInv' /\ KeepsUserTun
  <2>1. UNCHANGED <<tun, lease, owns, userTun>> /\ (smooth' => smooth)
    BY <1>1 DEF Serialise, device, budget
  <2> QED
    BY <2>1, LeavesTun
<1>2. ASSUME NEW t \in Threads, NothingToStop(t) PROVE UserInv' /\ KeepsUserTun
  <2>1. UNCHANGED <<tun, lease, owns, userTun>> /\ (smooth' => smooth)
    BY <1>2 DEF NothingToStop, device, budget
  <2> QED
    BY <2>1, LeavesTun
<1>3. ASSUME NEW t \in Threads, StopBegins(t) PROVE UserInv' /\ KeepsUserTun
  <2>1. UNCHANGED <<tun, lease, owns, userTun>> /\ (smooth' => smooth)
    BY <1>3 DEF StopBegins, device, budget
  <2> QED
    BY <2>1, LeavesTun
<1>4. ASSUME NEW t \in Threads, StopJoins(t) PROVE UserInv' /\ KeepsUserTun
  <2>1. UNCHANGED <<tun, lease, owns, userTun>> /\ (smooth' => smooth)
    BY <1>4 DEF StopJoins, device, budget
  <2> QED
    BY <2>1, LeavesTun
<1>5. ASSUME NEW t \in Threads, StopRestores(t) PROVE UserInv' /\ KeepsUserTun
  <2>1. UNCHANGED <<tun, lease, owns, userTun>>
    BY <1>5 DEF StopRestores, device
  <2>2. smooth' => smooth
    BY <1>5, <1>ty DEF StopRestores, Restores, RestoreFails, budget, Spent
  <2> QED
    BY <2>1, <2>2, LeavesTun
<1>6. ASSUME NEW t \in Threads, StopRestoresAndReleases(t) PROVE UserInv' /\ KeepsUserTun
  <2>1. UNCHANGED <<tun, lease, owns, userTun>> /\ (smooth' => smooth)
    BY <1>6 DEF StopRestoresAndReleases, Restores, RestoreFails, device, budget
  <2> QED
    BY <2>1, LeavesTun
<1>7. ASSUME NEW t \in Threads, StopReleases(t) PROVE UserInv' /\ KeepsUserTun
  <2>1. /\ ReleaseLease \/ UNCHANGED <<tun, lease, owns, userTun>>
        /\ smooth' = smooth
    BY <1>7 DEF StopReleases, device, budget
  <2> QED
    BY <1>ty, <2>1, Releases, LeavesTun
<1>8. ASSUME NEW t \in Threads, EngineLock(t) PROVE UserInv' /\ KeepsUserTun
  <2>1. UNCHANGED <<tun, lease, owns, userTun>> /\ (smooth' => smooth)
    BY <1>8 DEF EngineLock, device, budget
  <2> QED
    BY <2>1, LeavesTun
<1>9. ASSUME NEW t \in Threads, StopLocked(t) PROVE UserInv' /\ KeepsUserTun
  BY <1>9, <1>ty DEF StopLocked, DiscardLease, StopTun, budget, UserInv, KeepsUserTun, Leased
<1>10. ASSUME NEW t \in Threads, StartEngine(t) PROVE UserInv' /\ KeepsUserTun
  <2>1. UNCHANGED <<tun, lease, owns, userTun>> /\ (smooth' => smooth)
    BY <1>10 DEF StartEngine, device, budget
  <2> QED
    BY <2>1, LeavesTun
<1>11. ASSUME NEW t \in Threads, Spawn(t) PROVE UserInv' /\ KeepsUserTun
  <2>1. UNCHANGED <<tun, lease, owns, userTun>> /\ (smooth' => smooth)
    BY <1>11 DEF Spawn, device, budget
  <2> QED
    BY <2>1, LeavesTun
<1>12. ASSUME NEW t \in Threads, SpawnFails(t) PROVE UserInv' /\ KeepsUserTun
  <2>1. UNCHANGED <<tun, lease, owns, userTun>> /\ (smooth' => smooth)
    BY <1>12 DEF SpawnFails, device, budget
  <2> QED
    BY <2>1, LeavesTun
<1>13. ASSUME NEW t \in Threads, AttemptCancelled(t) PROVE UserInv' /\ KeepsUserTun
  <2>1. UNCHANGED <<tun, lease, owns, userTun>> /\ (smooth' => smooth)
    BY <1>13 DEF AttemptCancelled, device, budget
  <2> QED
    BY <2>1, LeavesTun
<1>14. ASSUME NEW t \in Threads, AttemptFails(t) PROVE UserInv' /\ KeepsUserTun
  <2>1. UNCHANGED <<tun, lease, owns, userTun>>
    BY <1>14 DEF AttemptFails, device
  <2>2. smooth' => smooth
    BY <1>14, <1>ty DEF AttemptFails, NextRun, budget, Spent
  <2> QED
    BY <2>1, <2>2, LeavesTun
<1>15. ASSUME NEW t \in Threads, GiveUp(t) PROVE UserInv' /\ KeepsUserTun
  <2>1. UNCHANGED <<tun, lease, owns, userTun>> /\ (smooth' => smooth)
    BY <1>15 DEF GiveUp, device, budget
  <2> QED
    BY <2>1, LeavesTun
<1>16. ASSUME NEW t \in Threads, AttemptSucceeds(t) PROVE UserInv' /\ KeepsUserTun
  <2>1. UNCHANGED <<tun, lease, owns, userTun>> /\ (smooth' => smooth)
    BY <1>16 DEF AttemptSucceeds, device, budget
  <2> QED
    BY <2>1, LeavesTun
<1>17. ASSUME NEW t \in Threads, TunOn(t) PROVE UserInv' /\ KeepsUserTun
  BY <1>17, <1>ty DEF TunOn, EnableTun, budget, UserInv, KeepsUserTun, Leased
<1>18. ASSUME NEW t \in Threads, TunRefused(t) PROVE UserInv' /\ KeepsUserTun
  <2>1. UNCHANGED <<tun, lease, owns, userTun>> /\ (smooth' => smooth)
    BY <1>18 DEF TunRefused, device, budget
  <2> QED
    BY <2>1, LeavesTun
<1>19. ASSUME NEW t \in Threads, TunOff(t) PROVE UserInv' /\ KeepsUserTun
  BY <1>19, <1>ty DEF TunOff, device, budget, UserInv, KeepsUserTun, Leased
<1>20. ASSUME NEW t \in Threads, XrayLogEnds(t) PROVE UserInv' /\ KeepsUserTun
  <2>1. UNCHANGED <<tun, lease, owns, userTun>> /\ (smooth' => smooth)
    BY <1>20 DEF XrayLogEnds, device, budget
  <2> QED
    BY <2>1, LeavesTun
<1>21. ASSUME NEW t \in Threads, TunLogEnds(t) PROVE UserInv' /\ KeepsUserTun
  BY <1>21, <1>ty DEF TunLogEnds, budget, UserInv, KeepsUserTun, Leased
<1>22. ASSUME NEW g \in Applies, Overtaken(g) PROVE UserInv' /\ KeepsUserTun
  <2>1. UNCHANGED <<tun, lease, owns, userTun>> /\ (smooth' => smooth)
    BY <1>22 DEF Overtaken, device, budget
  <2> QED
    BY <2>1, LeavesTun
<1>23. ASSUME NEW g \in Applies, ApplyOn(g) PROVE UserInv' /\ KeepsUserTun
  <2>1. UNCHANGED <<tun, lease, owns, userTun>> /\ (smooth' => smooth)
    BY <1>23 DEF ApplyOn, device, budget
  <2> QED
    BY <2>1, LeavesTun
<1>24. ASSUME NEW g \in Applies, CheckOn(g) PROVE UserInv' /\ KeepsUserTun
  <2>1. UNCHANGED <<tun, lease, owns, userTun>> /\ (smooth' => smooth)
    BY <1>24 DEF CheckOn, device, budget
  <2> QED
    BY <2>1, LeavesTun
<1>25. ASSUME NEW g \in Applies, StartReturns(g) PROVE UserInv' /\ KeepsUserTun
  <2>1. UNCHANGED <<tun, lease, owns, userTun>> /\ (smooth' => smooth)
    BY <1>25 DEF StartReturns, device, budget
  <2> QED
    BY <2>1, LeavesTun
<1>26. ASSUME NEW g \in Applies, StartGateway(g) PROVE UserInv' /\ KeepsUserTun
  <2>1. UNCHANGED <<tun, lease, owns, userTun>> /\ (smooth' => smooth)
    BY <1>26 DEF StartGateway, device, budget
  <2> QED
    BY <2>1, LeavesTun
<1>27. ASSUME NEW g \in Applies, Recover(g) PROVE UserInv' /\ KeepsUserTun
  <2>1. UNCHANGED <<tun, lease, owns, userTun>> /\ (smooth' => smooth)
    BY <1>27 DEF Recover, Restores, RestoreFails, device, budget
  <2> QED
    BY <2>1, LeavesTun
<1>28. ASSUME NEW g \in Applies, Detect(g) PROVE UserInv' /\ KeepsUserTun
  <2>1. UNCHANGED <<tun, lease, owns, userTun>> /\ (smooth' => smooth)
    BY <1>28 DEF Detect, device, budget
  <2> QED
    BY <2>1, LeavesTun
<1>29. ASSUME NEW g \in Applies, Acquire(g) PROVE UserInv' /\ KeepsUserTun
  BY <1>29, <1>ty DEF Acquire, budget, UserInv, KeepsUserTun, Leased
<1>30. ASSUME NEW g \in Applies, AcquireRaises(g) PROVE UserInv' /\ KeepsUserTun
  <2>1. UNCHANGED <<tun, lease, owns, userTun>> /\ (smooth' => smooth)
    BY <1>30 DEF AcquireRaises, device, budget
  <2> QED
    BY <2>1, LeavesTun
<1>31. ASSUME NEW g \in Applies, AdapterUp(g) PROVE UserInv' /\ KeepsUserTun
  <2>1. UNCHANGED <<tun, lease, owns, userTun>> /\ (smooth' => smooth)
    BY <1>31 DEF AdapterUp, device, budget
  <2> QED
    BY <2>1, LeavesTun
<1>32. ASSUME NEW g \in Applies, AdapterMissing(g) PROVE UserInv' /\ KeepsUserTun
  <2>1. UNCHANGED <<tun, lease, owns, userTun>> /\ (smooth' => smooth)
    BY <1>32 DEF AdapterMissing, device, budget
  <2> QED
    BY <2>1, LeavesTun
<1>33. ASSUME NEW g \in Applies, ReturnLease(g) PROVE UserInv' /\ KeepsUserTun
  <2>1. /\ ReleaseLease \/ UNCHANGED <<tun, lease, owns, userTun>>
        /\ smooth' = smooth
    BY <1>33 DEF ReturnLease, device, budget
  <2> QED
    BY <1>ty, <2>1, Releases, LeavesTun
<1>34. ASSUME NEW g \in Applies, ApplyGateway(g) PROVE UserInv' /\ KeepsUserTun
  <2>1. UNCHANGED <<tun, lease, owns, userTun>> /\ (smooth' => smooth)
    BY <1>34 DEF ApplyGateway, device, budget
  <2> QED
    BY <2>1, LeavesTun
<1>35. ASSUME NEW g \in Applies, ApplyFails(g) PROVE UserInv' /\ KeepsUserTun
  <2>1. UNCHANGED <<tun, lease, owns, userTun>> /\ (smooth' => smooth)
    BY <1>35 DEF ApplyFails, Restores, RestoreFails, device, budget
  <2> QED
    BY <2>1, LeavesTun
<1>36. ASSUME NEW g \in Applies, UndoLease(g) PROVE UserInv' /\ KeepsUserTun
  <2>1. /\ ReleaseLease \/ UNCHANGED <<tun, lease, owns, userTun>>
        /\ smooth' = smooth
    BY <1>36 DEF UndoLease, device, budget
  <2> QED
    BY <1>ty, <2>1, Releases, LeavesTun
<1>37. ASSUME NEW g \in Applies, StartedStale(g) PROVE UserInv' /\ KeepsUserTun
  <2>1. UNCHANGED <<tun, lease, owns, userTun>> /\ (smooth' => smooth)
    BY <1>37 DEF StartedStale, device, budget
  <2> QED
    BY <2>1, LeavesTun
<1>38. ASSUME NEW g \in Applies, Started(g) PROVE UserInv' /\ KeepsUserTun
  <2>1. UNCHANGED <<tun, lease, owns, userTun>> /\ (smooth' => smooth)
    BY <1>38 DEF Started, device, budget
  <2> QED
    BY <2>1, LeavesTun
<1>39. ASSUME NEW g \in Applies, StillCurrent(g) PROVE UserInv' /\ KeepsUserTun
  <2>1. UNCHANGED <<tun, lease, owns, userTun>> /\ (smooth' => smooth)
    BY <1>39 DEF StillCurrent, device, budget
  <2> QED
    BY <2>1, LeavesTun
<1>40. ASSUME NEW g \in Applies, ApplyOff(g) PROVE UserInv' /\ KeepsUserTun
  <2>1. UNCHANGED <<tun, lease, owns, userTun>> /\ (smooth' => smooth)
    BY <1>40 DEF ApplyOff, device, budget
  <2> QED
    BY <2>1, LeavesTun
<1>41. ASSUME NEW g \in Applies, CheckOff(g) PROVE UserInv' /\ KeepsUserTun
  <2>1. UNCHANGED <<tun, lease, owns, userTun>> /\ (smooth' => smooth)
    BY <1>41 DEF CheckOff, device, budget
  <2> QED
    BY <2>1, LeavesTun
<1>42. ASSUME NEW g \in Applies, ApplyEnds(g) PROVE UserInv' /\ KeepsUserTun
  <2>1. UNCHANGED <<tun, lease, owns, userTun>> /\ (smooth' => smooth)
    BY <1>42 DEF ApplyEnds, device, budget
  <2> QED
    BY <2>1, LeavesTun
<1>43. ASSUME NEW g \in Applies, Disconnect(g) PROVE UserInv' /\ KeepsUserTun
  <2>1. UNCHANGED <<tun, lease, owns, userTun>> /\ (smooth' => smooth)
    BY <1>43 DEF Disconnect, device, budget
  <2> QED
    BY <2>1, LeavesTun
<1>44. ASSUME NEW g \in Applies, StateOff(g) PROVE UserInv' /\ KeepsUserTun
  <2>1. UNCHANGED <<tun, lease, owns, userTun>> /\ (smooth' => smooth)
    BY <1>44 DEF StateOff, device, budget
  <2> QED
    BY <2>1, LeavesTun
<1>45. ASSUME NEW g \in Applies, QueueOn(g) PROVE UserInv' /\ KeepsUserTun
  <2>1. UNCHANGED <<tun, lease, owns, userTun>> /\ (smooth' => smooth)
    BY <1>45 DEF QueueOn, device, budget
  <2> QED
    BY <2>1, LeavesTun
<1>46. ASSUME NEW g \in Applies, GatewayOff(g) PROVE UserInv' /\ KeepsUserTun
  <2>1. UNCHANGED <<tun, lease, owns, userTun>> /\ (smooth' => smooth)
    BY <1>46 DEF GatewayOff, device, budget
  <2> QED
    BY <2>1, LeavesTun
<1>47. ASSUME NEW w \in Workers, WorkerOffline(w) PROVE UserInv' /\ KeepsUserTun
  <2>1. UNCHANGED <<tun, lease, owns, userTun>> /\ (smooth' => smooth)
    BY <1>47 DEF WorkerOffline, device, budget
  <2> QED
    BY <2>1, LeavesTun
<1>48. ASSUME NEW w \in Workers, WorkerEnds(w) PROVE UserInv' /\ KeepsUserTun
  <2>1. UNCHANGED <<tun, lease, owns, userTun>> /\ (smooth' => smooth)
    BY <1>48 DEF WorkerEnds, device, budget
  <2> QED
    BY <2>1, LeavesTun
<1>49. CASE Connect
  <2>1. UNCHANGED <<tun, lease, owns, userTun>> /\ (smooth' => smooth)
    BY <1>49 DEF Connect, NextRun, device
  <2> QED
    BY <2>1, LeavesTun
<1>50. CASE SwitchProfile
  <2>1. UNCHANGED <<tun, lease, owns, userTun>> /\ (smooth' => smooth)
    BY <1>50 DEF SwitchProfile, device
  <2> QED
    BY <2>1, LeavesTun
<1>51. CASE StateOn
  <2>1. UNCHANGED <<tun, lease, owns, userTun>> /\ (smooth' => smooth)
    BY <1>51 DEF StateOn, device, budget
  <2> QED
    BY <2>1, LeavesTun
<1>52. CASE GatewayOn
  <2>1. UNCHANGED <<tun, lease, owns, userTun>> /\ (smooth' => smooth)
    BY <1>52 DEF GatewayOn, device, budget
  <2> QED
    BY <2>1, LeavesTun
<1>53. CASE SwitchTun
  <2>1. UNCHANGED <<tun, lease, owns, userTun>> /\ (smooth' => smooth)
    BY <1>53 DEF SwitchTun, device, budget
  <2> QED
    BY <2>1, LeavesTun
<1>54. CASE XrayDies
  <2>1. UNCHANGED <<tun, lease, owns, userTun>> /\ (smooth' => smooth)
    BY <1>54 DEF XrayDies, Dies, device
  <2> QED
    BY <2>1, LeavesTun
<1>55. CASE TunDies
  BY <1>55, <1>ty DEF TunDies, Dies, UserInv, KeepsUserTun, Leased
<1> QED
  BY <1>st, <1>1, <1>2, <1>3, <1>4, <1>5, <1>6, <1>7, <1>8, <1>9, <1>10, <1>11, <1>12, <1>13,
     <1>14, <1>15, <1>16, <1>17, <1>18, <1>19, <1>20, <1>21, <1>22, <1>23, <1>24, <1>25, <1>26,
     <1>27, <1>28, <1>29, <1>30, <1>31, <1>32, <1>33, <1>34, <1>35, <1>36, <1>37, <1>38, <1>39,
     <1>40, <1>41, <1>42, <1>43, <1>44, <1>45, <1>46, <1>47, <1>48, <1>49, <1>50, <1>51, <1>52,
     <1>53, <1>54, <1>55
     DEF Next, Step, StopGateway, Attempt, Device, ApplyMode, Clicks

\* The lease of the gateway never takes the TUN away from a user who switched the TUN
\* mode on (engine.py:2406): UserTunKept, which holds of every step by UserInv.
THEOREM UserKeepsTun == Spec => UserTunKept
<1>1. Init => UserInv
  BY DEF Init, UserInv
<1>2. Typed /\ UserInv /\ [Next]_vars => UserInv'
  BY UserNext
<1>3. Typed /\ UserInv /\ [Next]_vars
      => [smooth' /\ userTun /\ tun = "up" /\ tun' = "none" => ~userTun']_vars
  BY UserNext DEF KeepsUserTun
<1>4. Spec => [](Typed /\ Post)
  BY Core
<1> QED
  BY <1>1, <1>2, <1>3, <1>4, PTL DEF Spec, UserTunKept

\* A step that leaves the engine, the signals, the page and its threads alone.
LEMMA PageStays ==
  ASSUME PageInv, UNCHANGED <<cancel, shown, overlooked, signals, active, xray, runId>>,
         Alike(UI), Alike(Connector), Alike(XrayLog), rid'[XrayLog] = rid[XrayLog]
  PROVE  PageInv'
<1>0. \A t \in {UI, Connector, XrayLog} :
        \/ pc'[t] = pc[t]
        \/ {pc[t], pc'[t]} \subseteq {"lock", "body", "serial", "begin", "join", "end", "lease"}
  BY DEF Alike, InStop, Stopping
<1>1. /\ pc'[UI] = "idle" <=> pc[UI] = "idle"
      /\ pc'[UI] \in {"idle", "off"} <=> pc[UI] \in {"idle", "off"}
      /\ pc'[Connector] = "idle" <=> pc[Connector] = "idle"
      /\ pc'[Connector] = "give up" <=> pc[Connector] = "give up"
      /\ pc'[XrayLog] = "died" <=> pc[XrayLog] = "died"
  BY <1>0
<1>2. /\ GivenUp' <=> GivenUp
      /\ InStop(pc'[XrayLog], back'[XrayLog]) <=> InStop(pc[XrayLog], back[XrayLog])
  BY DEF Alike, GivenUp
<1> QED
  BY <1>1, <1>2 DEF PageInv, Running

\* A signal that is posted is the last one, and delivering one keeps the last one.
LEMMA LastSignal ==
  ASSUME Posted
  PROVE  /\ \A b \in BOOLEAN : /\ Append(signals, b) # <<>>
                               /\ Append(signals, b)[Len(Append(signals, b))] = b
         /\ signals # <<>> =>
              \/ Tail(signals) = <<>> /\ signals[Len(signals)] = Head(signals)
              \/ /\ Tail(signals) # <<>>
                 /\ Tail(signals)[Len(Tail(signals))] = signals[Len(signals)]
<1>1. \A b \in BOOLEAN : /\ Append(signals, b) # <<>>
                         /\ Append(signals, b)[Len(Append(signals, b))] = b
  BY DEF Posted
<1>2. ASSUME signals # <<>>, Tail(signals) = <<>>
      PROVE  signals[Len(signals)] = Head(signals)
  <2>1. Len(Tail(signals)) = 0 /\ Len(Tail(signals)) = Len(signals) - 1
    BY <1>2, HeadTailProperties, EmptySeq DEF Posted
  <2>2. Len(signals) = 1
    BY <2>1, LenProperties DEF Posted
  <2> QED
    BY <2>2
<1>3. ASSUME signals # <<>>, Tail(signals) # <<>>
      PROVE  Tail(signals)[Len(Tail(signals))] = signals[Len(signals)]
  <2>1. /\ Tail(signals) \in Seq(BOOLEAN) /\ Len(Tail(signals)) = Len(signals) - 1
        /\ \A i \in 1 .. Len(Tail(signals)) : Tail(signals)[i] = signals[i + 1]
    BY <1>3, HeadTailProperties DEF Posted
  <2>2. Len(Tail(signals)) \in Nat \ {0} /\ Len(signals) \in Nat
    BY <1>3, <2>1, EmptySeq, LenProperties DEF Posted
  <2> QED
    BY <2>1, <2>2
<1> QED
  BY <1>1, <1>2, <1>3

\* A step of threads that are none of the page's.
LEMMA PageElsewhere ==
  ASSUME PageInv, NEW M, Only(M), UI \notin M, Connector \notin M, XrayLog \notin M,
         UNCHANGED <<cancel, shown, overlooked, signals, active, xray, runId>>,
         rid'[XrayLog] = rid[XrayLog]
  PROVE  PageInv'
<1>1. Alike(UI) /\ Alike(Connector) /\ Alike(XrayLog)
  BY Kinds DEF Only, Alike
<1> QED
  BY <1>1, PageStays

\* A thread of the page that stops the gateway does so inside Engine.stop.
LEMMA StopsEngine ==
  ASSUME Post, Carried, NEW t \in {UI, Connector, Mode, XrayLog, TunLog}, pc[t] \in Stopping
  PROVE  back[t] \in {"lock", "body"} /\ InStop(pc[t], back[t])
<1>1. t \in Threads /\ t \notin Applies /\ t \notin Workers
  BY Kinds, Differ
<1>2. /\ Fits(t, pc[t], back[t], after[t])
      /\ back[t] \in {"lock", "body", "applied", "disabled", "leave", "ended"}
  BY <1>1 DEF Post, Seated, Carried
<1> QED
  BY <1>1, <1>2 DEF Fits, InStop

\* A step inside GatewayManager.stop.
LEMMA PageStopping ==
  ASSUME Post, Carried, PageInv, NEW t \in Threads, pc[t] \in Stopping, Only({t}),
         after'[t] = after[t],
         \/ pc'[t] \in Stopping /\ back'[t] = back[t]
         \/ pc'[t] = back[t],
         UNCHANGED <<cancel, shown, overlooked, signals, active, xray, runId>>, UNCHANGED rid
  PROVE  PageInv'
<1>1. ASSUME NEW u \in {UI, Connector, XrayLog} PROVE Alike(u)
  <2>1. CASE u # t
    BY <2>1, Kinds DEF Only, Alike
  <2>2. CASE u = t
    <3>1. back[t] \in {"lock", "body"} /\ InStop(pc[t], back[t])
      BY <2>2, StopsEngine
    <3>2. InStop(pc'[t], back'[t])
      BY <3>1 DEF InStop
    <3> QED
      BY <2>2, <3>1, <3>2 DEF Alike
  <2> QED
    BY <2>1, <2>2
<1> QED
  BY <1>1, PageStays

\* Every step keeps PageInv.
LEMMA PageNext == Typed /\ Post /\ PageInv /\ [Next]_vars => PageInv'
<1> SUFFICES ASSUME Typed, Post, PageInv, [Next]_vars PROVE PageInv'
  OBVIOUS
<1>ty. Placed /\ Carried /\ Ran /\ Paged /\ Posted
  BY DEF Typed
<1>st. CASE UNCHANGED vars
  BY <1>st DEF vars, engine, page, local, PageInv, GivenUp, InStop, Running
<1>1. ASSUME NEW t \in Threads, Serialise(t) PROVE PageInv'
  <2>1. pc[t] = "serial" /\ Goes(t, "begin")
    BY <1>1, <1>ty, StopMoves
  <2>2. UNCHANGED <<cancel, shown, overlooked, signals, active, xray, runId>> /\ UNCHANGED rid
    BY <1>1 DEF Serialise, engine, page, local
  <2> QED
    BY <1>ty, <2>1, <2>2, PageStopping DEF Moves, Goes, At, Stopping
<1>2. ASSUME NEW t \in Threads, NothingToStop(t) PROVE PageInv'
  <2>1. pc[t] = "begin" /\ Moves(t, back[t], "leave", after[t])
    BY <1>2, <1>ty, StopMoves
  <2>2. UNCHANGED <<cancel, shown, overlooked, signals, active, xray, runId>> /\ UNCHANGED rid
    BY <1>2 DEF NothingToStop, engine, page
  <2> QED
    BY <1>ty, <2>1, <2>2, PageStopping DEF Moves, Goes, At, Stopping
<1>3. ASSUME NEW t \in Threads, StopBegins(t) PROVE PageInv'
  <2>1. pc[t] = "begin" /\ Goes(t, "join")
    BY <1>3, <1>ty, StopMoves
  <2>2. UNCHANGED <<cancel, shown, overlooked, signals, active, xray, runId>> /\ UNCHANGED rid
    BY <1>3 DEF StopBegins, engine, page, local
  <2> QED
    BY <1>ty, <2>1, <2>2, PageStopping DEF Moves, Goes, At, Stopping
<1>4. ASSUME NEW t \in Threads, StopJoins(t) PROVE PageInv'
  <2>1. pc[t] = "join" /\ Goes(t, "end")
    BY <1>4, <1>ty, StopMoves
  <2>2. UNCHANGED <<cancel, shown, overlooked, signals, active, xray, runId>> /\ UNCHANGED rid
    BY <1>4 DEF StopJoins, engine, page, local
  <2> QED
    BY <1>ty, <2>1, <2>2, PageStopping DEF Moves, Goes, At, Stopping
<1>5. ASSUME NEW t \in Threads, StopRestores(t) PROVE PageInv'
  <2>1. pc[t] = "end" /\ Moves(t, back[t], "leave", after[t])
    BY <1>5, <1>ty, StopMoves
  <2>2. UNCHANGED <<cancel, shown, overlooked, signals, active, xray, runId>> /\ UNCHANGED rid
    BY <1>5 DEF StopRestores, engine, page
  <2> QED
    BY <1>ty, <2>1, <2>2, PageStopping DEF Moves, Goes, At, Stopping
<1>6. ASSUME NEW t \in Threads, StopRestoresAndReleases(t) PROVE PageInv'
  <2>1. pc[t] = "end" /\ back[t] \notin {"lock", "body"} /\ Goes(t, "lease")
    BY <1>6, <1>ty, StopMoves
  <2>2. UNCHANGED <<cancel, shown, overlooked, signals, active, xray, runId>> /\ UNCHANGED rid
    BY <1>6 DEF StopRestoresAndReleases, engine, page
  <2> QED
    BY <1>ty, <2>1, <2>2, PageStopping DEF Moves, Goes, At, Stopping
<1>7. ASSUME NEW t \in Threads, StopReleases(t) PROVE PageInv'
  <2>1. pc[t] = "lease" /\ Moves(t, back[t], "leave", after[t])
    BY <1>7, <1>ty, StopMoves
  <2>2. UNCHANGED <<cancel, shown, overlooked, signals, active, xray, runId>> /\ UNCHANGED rid
    BY <1>7 DEF StopReleases, engine, page
  <2> QED
    BY <1>ty, <2>1, <2>2, PageStopping DEF Moves, Goes, At, Stopping
<1>8. ASSUME NEW t \in Threads, EngineLock(t) PROVE PageInv'
  <2>1. pc[t] = "lock" /\ Moves(t, "serial", "body", after[t])
    BY <1>8, <1>ty, EngineMoves
  <2>2. UNCHANGED <<cancel, shown, overlooked, signals, active, xray, runId>> /\ UNCHANGED rid
    BY <1>8 DEF EngineLock, engine, page
  <2>3. \A u \in {UI, Connector, XrayLog} : Alike(u)
    BY <2>1, Kinds DEF Moves, Only, At, Alike, InStop, Stopping
  <2> QED
    BY <2>2, <2>3, PageStays
<1>9. ASSUME NEW t \in Threads, StopLocked(t) PROVE PageInv'
  <2>1. pc[t] = "body" /\ Only({t}) /\ pc'[t] = after[t] /\ back'[t] = back[t]
    <3>1. pc[t] = "body" /\ Moves(t, after[t], back[t], "idle")
      BY <1>9, <1>ty, EngineMoves
    <3> QED
      BY <3>1 DEF Moves, At
  <2>2. UNCHANGED <<cancel, shown, overlooked, rid>> /\ ~active' /\ ~xray'
    BY <1>9 DEF StopLocked
  <2>3. signals # <<>> => signals' # <<>>
    BY <1>9, <1>ty, LastSignal DEF StopLocked, TellPage
  <2>4. \/ t = UI /\ after[t] = "off"
        \/ t = Connector /\ after[t] \in {"idle", "spawn", "failed", "start", "give up"}
        \/ t \in {XrayLog, TunLog} /\ after[t] = "idle"
    BY <2>1 DEF Post, Seated, Fits, InStop
  <2>5. CASE t = UI /\ after[t] = "off"
    <3>1. cancel /\ pc'[UI] = "off"
      BY <2>1, <2>5 DEF PageInv
    <3>2. /\ pc'[Connector] = pc[Connector] /\ back'[Connector] = back[Connector]
          /\ after'[Connector] = after[Connector]
      BY <2>1, <2>5, Kinds, Differ DEF Only
    <3> QED
      BY <2>2, <3>1, <3>2 DEF PageInv, Running
  <2>6. CASE t = Connector /\ after[t] \in {"idle", "spawn", "failed", "start", "give up"}
    <3>1. pc'[UI] = pc[UI] /\ ~GivenUp'
      BY <2>1, <2>6, Kinds, Differ DEF Only, GivenUp, InStop, Stopping
    <3>2. pc'[Connector] = "idle" => GivenUp
      BY <2>1, <2>6 DEF GivenUp, InStop
    <3> QED
      BY <2>2, <2>3, <3>1, <3>2 DEF PageInv, Running
  <2>7. CASE t \in {XrayLog, TunLog} /\ after[t] = "idle"
    <3>1. /\ pc'[UI] = pc[UI] /\ pc'[Connector] = pc[Connector]
          /\ back'[Connector] = back[Connector] /\ after'[Connector] = after[Connector]
      BY <2>1, <2>7, Kinds, Differ DEF Only
    <3>2. active => signals' # <<>>
      BY <1>9, <1>ty, <2>7, LastSignal DEF StopLocked, TellPage
    <3>3. GivenUp' = GivenUp
      BY <3>1 DEF GivenUp
    <3> QED
      BY <2>2, <2>3, <3>1, <3>2, <3>3 DEF PageInv, Running
  <2> QED
    BY <2>4, <2>5, <2>6, <2>7
<1>10. ASSUME NEW t \in Threads, StartEngine(t) PROVE PageInv'
  <2>0. pc[t] = "start"
    BY <1>10, <1>ty, EngineMoves
  <2>t. t = Connector
    BY <2>0 DEF Post, Seated, Fits
  <2>1. pc[Connector] = "start" /\ t = Connector /\ Moves(Connector, "serial", "body", "spawn")
    BY <1>10, <1>ty, <2>t, EngineMoves
  <2>2. UNCHANGED <<cancel, shown, overlooked, active, xray, runId>> /\ UNCHANGED signals
    BY <1>10 DEF StartEngine, engine, page
  <2>3. /\ pc'[UI] = pc[UI] /\ pc'[XrayLog] = pc[XrayLog] /\ back'[XrayLog] = back[XrayLog]
        /\ rid'[XrayLog] = rid[XrayLog]
    BY <1>10, <1>ty, <2>t, <2>1, Kinds, Differ DEF StartEngine, Only, Moves, Goes, Carried
  <2> QED
    BY <1>ty, <2>1, <2>2, <2>3 DEF Moves, Goes, At, PageInv, GivenUp, Running, InStop, Stopping
<1>11. ASSUME NEW t \in Threads, Spawn(t) PROVE PageInv'
  <2>0. pc[t] = "spawn"
    BY <1>11, <1>ty, EngineMoves
  <2>t. t = Connector
    BY <2>0 DEF Post, Seated, Fits
  <2>1. pc[Connector] = "spawn" /\ Goes(Connector, "probe")
    BY <1>11, <1>ty, <2>t, EngineMoves
  <2>2. UNCHANGED <<cancel, shown, overlooked>> /\ UNCHANGED signals /\ active' /\ xray' /\ ~cancel
    BY <1>11 DEF Spawn, page
  <2>3. /\ pc'[UI] = pc[UI] /\ pc'[XrayLog] = pc[XrayLog] /\ back'[XrayLog] = back[XrayLog]
        /\ rid'[XrayLog] = rid[XrayLog]
    BY <1>11, <1>ty, <2>t, <2>1, Kinds, Differ DEF Spawn, Only, Moves, Goes, Carried
  <2> QED
    BY <1>ty, <2>1, <2>2, <2>3 DEF Moves, Goes, At, PageInv, GivenUp, Running, InStop, Stopping
<1>12. ASSUME NEW t \in Threads, SpawnFails(t) PROVE PageInv'
  <2>0. pc[t] = "spawn"
    BY <1>12, <1>ty, EngineMoves
  <2>t. t = Connector
    BY <2>0 DEF Post, Seated, Fits
  <2>1. pc[Connector] = "spawn" /\ Moves(Connector, "serial", "body", "failed")
    BY <1>12, <1>ty, <2>t, EngineMoves
  <2>2. UNCHANGED <<cancel, shown, overlooked, active, xray, runId>> /\ UNCHANGED signals
    BY <1>12 DEF SpawnFails, engine, page
  <2>3. /\ pc'[UI] = pc[UI] /\ pc'[XrayLog] = pc[XrayLog] /\ back'[XrayLog] = back[XrayLog]
        /\ rid'[XrayLog] = rid[XrayLog]
    BY <1>12, <1>ty, <2>t, <2>1, Kinds, Differ DEF SpawnFails, Only, Moves, Goes, Carried
  <2> QED
    BY <1>ty, <2>1, <2>2, <2>3 DEF Moves, Goes, At, PageInv, GivenUp, Running, InStop, Stopping
<1>13. ASSUME NEW t \in Threads, AttemptCancelled(t) PROVE PageInv'
  <2>0. pc[t] \in {"start", "failed", "probe"}
    BY <1>13, <1>ty, EngineMoves
  <2>t. t = Connector
    BY <2>0 DEF Post, Seated, Fits
  <2>1. pc[Connector] \in {"start", "failed", "probe"} /\ Goes(Connector, "idle")
    BY <1>13, <1>ty, <2>t, EngineMoves
  <2>2. UNCHANGED <<cancel, shown, overlooked, active, xray, runId>> /\ UNCHANGED signals /\ cancel
    BY <1>13 DEF AttemptCancelled, engine, page, local
  <2>3. /\ pc'[UI] = pc[UI] /\ pc'[XrayLog] = pc[XrayLog] /\ back'[XrayLog] = back[XrayLog]
        /\ rid'[XrayLog] = rid[XrayLog]
    BY <1>13, <1>ty, <2>t, <2>1, Kinds, Differ
       DEF AttemptCancelled, local, Only, Moves, Goes, Carried
  <2> QED
    BY <1>ty, <2>1, <2>2, <2>3 DEF Moves, Goes, At, PageInv, GivenUp, Running, InStop, Stopping
<1>14. ASSUME NEW t \in Threads, AttemptFails(t) PROVE PageInv'
  <2>0. pc[t] \in {"failed", "probe"}
    BY <1>14, <1>ty, EngineMoves
  <2>t. t = Connector
    BY <2>0 DEF Post, Seated, Fits
  <2>1. /\ pc[Connector] \in {"failed", "probe"}
        /\ \/ Moves(Connector, "serial", "lock", "start")
           \/ Moves(Connector, "serial", "lock", "give up")
    BY <1>14, <1>ty, <2>t, EngineMoves
  <2>2. UNCHANGED <<cancel, shown, overlooked, active, xray, runId>> /\ UNCHANGED signals
    BY <1>14 DEF AttemptFails, engine, page
  <2>3. /\ pc'[UI] = pc[UI] /\ pc'[XrayLog] = pc[XrayLog] /\ back'[XrayLog] = back[XrayLog]
        /\ rid'[XrayLog] = rid[XrayLog]
    BY <1>14, <1>ty, <2>t, <2>1, Kinds, Differ DEF AttemptFails, Only, Moves, Goes, Carried
  <2> QED
    BY <1>ty, <2>1, <2>2, <2>3 DEF Moves, Goes, At, PageInv, GivenUp, Running, InStop, Stopping
<1>15. ASSUME NEW t \in Threads, GiveUp(t) PROVE PageInv'
  <2>1. /\ pc[t] = "give up"
        /\ \/ Goes(t, "idle")
           \/ Moves(t, "serial", "lock", "idle")
    BY <1>15, <1>ty, EngineMoves
  <2>2. t = Connector
    BY <2>1 DEF Post, Seated, Fits
  <2>3. UNCHANGED <<cancel, shown, overlooked, active, xray, runId, rid>>
    BY <1>15 DEF GiveUp, engine
  <2>4. ~cancel => signals' # <<>> /\ ~Goes(t, "idle")
    BY <1>15, <1>ty, LastSignal, Kinds
       DEF GiveUp, CallEngineStop, EngineStopBegins, Go, Goes, Moves, At, Placed
  <2>5. /\ pc'[UI] = pc[UI] /\ pc'[XrayLog] = pc[XrayLog] /\ back'[XrayLog] = back[XrayLog]
    BY <2>1, <2>2, Kinds, Differ DEF Only, Moves, Goes
  <2>6. ~active /\ ~xray
    BY <1>ty, <2>1, <2>2 DEF PageInv, Ran
  <2>7. CASE cancel
    BY <2>1, <2>2, <2>3, <2>5, <2>6, <2>7
       DEF Moves, Goes, At, PageInv, GivenUp, Running, InStop, Stopping
  <2>8. CASE ~cancel
    BY <2>1, <2>2, <2>3, <2>4, <2>5, <2>6, <2>8
       DEF Moves, Goes, At, PageInv, GivenUp, Running, InStop, Stopping
  <2> QED
    BY <2>7, <2>8
<1>16. ASSUME NEW t \in Threads, AttemptSucceeds(t) PROVE PageInv'
  <2>0. pc[t] = "probe"
    BY <1>16, <1>ty, EngineMoves
  <2>t. t = Connector
    BY <2>0 DEF Post, Seated, Fits
  <2>1. \/ pc'[Connector] = "idle" /\ signals' = Append(signals, TRUE)
        \/ pc'[Connector] = "tun on" /\ signals' = signals
    BY <1>16, <1>ty, <2>t, Kinds DEF AttemptSucceeds, Go, Placed
  <2>2. UNCHANGED <<cancel, shown, overlooked, active, xray, runId, rid>> /\ ~cancel
    BY <1>16 DEF AttemptSucceeds, engine, local
  <2>3. pc'[UI] = pc[UI] /\ pc'[XrayLog] = pc[XrayLog] /\ back'[XrayLog] = back[XrayLog]
    BY <1>16, <1>ty, <2>t, Kinds, Differ DEF AttemptSucceeds, Go, local, Placed
  <2>4. signals' = Append(signals, TRUE) => signals' # <<>> /\ signals'[Len(signals')]
    BY <1>ty, LastSignal
  <2>5. ~GivenUp' /\ pc'[Connector] # "give up"
    BY <2>1 DEF GivenUp, InStop, Stopping
  <2> QED
    BY <2>1, <2>2, <2>3, <2>4, <2>5 DEF PageInv, Running
<1>17. ASSUME NEW t \in Threads, TunOn(t) PROVE PageInv'
  <2>1. pc[t] = "tun on" /\ t \in {Connector, Mode} /\ Only({t})
    BY <1>17, <1>ty, EngineMoves DEF TunOn, Post, Seated, Fits, Moves, Goes
  <2>2. UNCHANGED <<cancel, shown, overlooked, active, xray, runId, rid>> /\ ~cancel /\ Running
    BY <1>17 DEF TunOn, engine, local
  <2>3. CASE t = Mode
    <3>1. UNCHANGED signals
      BY <1>17, <2>3, Differ DEF TunOn
    <3> QED
      BY <2>1, <2>2, <2>3, <3>1, Differ, PageElsewhere
  <2>4. CASE t = Connector
    <3>1. \/ pc'[Connector] = "idle" /\ signals' = Append(signals, TRUE)
          \/ pc'[Connector] = "failed" /\ signals' = signals
      BY <1>17, <1>ty, <2>4, Kinds DEF TunOn, Go, Placed
    <3>2. pc'[UI] = pc[UI] /\ pc'[XrayLog] = pc[XrayLog] /\ back'[XrayLog] = back[XrayLog]
      BY <2>1, <2>4, Kinds, Differ DEF Only
    <3>3. signals' = Append(signals, TRUE) => signals' # <<>> /\ signals'[Len(signals')]
      BY <1>ty, LastSignal
    <3>4. ~GivenUp' /\ pc'[Connector] # "give up"
      BY <3>1 DEF GivenUp, InStop, Stopping
    <3> QED
      BY <2>2, <3>1, <3>2, <3>3, <3>4 DEF PageInv, Running
  <2> QED
    BY <2>1, <2>3, <2>4
<1>18. ASSUME NEW t \in Threads, TunRefused(t) PROVE PageInv'
  <2>1. /\ pc[t] = "tun on" /\ Only({t})
        /\ \/ t = Connector /\ pc'[t] = "failed"
           \/ t = Mode
    BY <1>18, <1>ty, Kinds DEF TunRefused, Post, Seated, Fits, Go, local, Only, Placed
  <2>2. UNCHANGED <<cancel, shown, overlooked, signals, active, xray, runId>> /\ UNCHANGED rid
    BY <1>18 DEF TunRefused, engine, page, local
  <2>3. CASE t = Mode
    BY <2>1, <2>2, <2>3, Differ, PageElsewhere
  <2>4. CASE t = Connector /\ pc'[t] = "failed"
    <3>1. pc'[UI] = pc[UI] /\ pc'[XrayLog] = pc[XrayLog] /\ back'[XrayLog] = back[XrayLog]
      BY <2>1, <2>4, Kinds, Differ DEF Only
    <3>2. ~GivenUp'
      BY <2>4 DEF GivenUp, InStop, Stopping
    <3> QED
      BY <2>2, <2>4, <3>1, <3>2 DEF PageInv, Running
  <2> QED
    BY <2>1, <2>3, <2>4
<1>19. ASSUME NEW t \in Threads, TunOff(t) PROVE PageInv'
  <2>1. Only({t})
    BY <1>19, <1>ty, EngineMoves DEF Moves, Goes
  <2>2. UNCHANGED <<cancel, shown, overlooked, signals, active, xray, runId>> /\ UNCHANGED rid
    BY <1>19 DEF TunOff, engine, page, local
  <2>0. pc[t] = "tun off" /\ t \in Threads
    BY <1>19 DEF TunOff
  <2>3. t = Mode
    BY <2>0 DEF Post, Seated, Fits
  <2> QED
    BY <2>1, <2>2, <2>3, Differ, PageElsewhere
<1>20. ASSUME NEW t \in Threads, XrayLogEnds(t) PROVE PageInv'
  <2>1. t = XrayLog /\ pc[t] = "died" /\ Only({t})
    BY <1>20, <1>ty, EngineMoves DEF XrayLogEnds, Moves, Goes
  <2>2. UNCHANGED <<cancel, shown, overlooked, signals, active, xray, runId>> /\ UNCHANGED rid
    BY <1>20 DEF XrayLogEnds, engine, page
  <2>3. rid[t] = runId /\ active => InStop(pc'[t], back'[t])
    BY <1>20, <1>ty
       DEF XrayLogEnds, CallEngineStop, EngineStopBegins, Go, InStop, Stopping, Placed, Carried
  <2>4. /\ pc'[UI] = pc[UI] /\ pc'[Connector] = pc[Connector]
        /\ back'[Connector] = back[Connector] /\ after'[Connector] = after[Connector]
    BY <2>1, Kinds, Differ DEF Only
  <2>5. active /\ ~xray => InStop(pc'[XrayLog], back'[XrayLog])
    BY <2>1, <2>3 DEF PageInv, InStop, Stopping
  <2>6. GivenUp' = GivenUp
    BY <2>4 DEF GivenUp
  <2> QED
    BY <2>2, <2>4, <2>5, <2>6 DEF PageInv, Running
<1>21. ASSUME NEW t \in Threads, TunLogEnds(t) PROVE PageInv'
  <2>1. Only({t})
    BY <1>21, <1>ty, EngineMoves DEF Moves, Goes
  <2>2. UNCHANGED <<cancel, shown, overlooked, signals, active, xray, runId>> /\ UNCHANGED rid
    BY <1>21 DEF TunLogEnds, engine, page
  <2>3. t = TunLog
    BY <1>21 DEF TunLogEnds
  <2> QED
    BY <2>1, <2>2, <2>3, Differ, PageElsewhere
<1>22. ASSUME NEW g \in Applies, Overtaken(g) PROVE PageInv'
  <2>1. Only({g})
    BY <1>22, <1>ty, ApplyMoves DEF Moves, Goes
  <2>2. UNCHANGED <<cancel, shown, overlooked, signals, active, xray, runId>> /\ UNCHANGED rid
    BY <1>22 DEF Overtaken, engine, page, local
  <2> QED
    BY <2>1, <2>2, Differ, PageElsewhere
<1>23. ASSUME NEW g \in Applies, ApplyOn(g) PROVE PageInv'
  <2>1. Only({g})
    BY <1>23, <1>ty, ApplyMoves DEF Moves, Goes
  <2>2. UNCHANGED <<cancel, shown, overlooked, signals, active, xray, runId>> /\ UNCHANGED rid
    BY <1>23 DEF ApplyOn, engine, page, local
  <2> QED
    BY <2>1, <2>2, Differ, PageElsewhere
<1>24. ASSUME NEW g \in Applies, CheckOn(g) PROVE PageInv'
  <2>1. Only({g})
    BY <1>24, <1>ty, ApplyMoves DEF Moves, Goes
  <2>2. UNCHANGED <<cancel, shown, overlooked, signals, active, xray, runId>> /\ UNCHANGED rid
    BY <1>24 DEF CheckOn, engine, page, local
  <2> QED
    BY <2>1, <2>2, Differ, PageElsewhere
<1>25. ASSUME NEW g \in Applies, StartReturns(g) PROVE PageInv'
  <2>1. Only({g})
    BY <1>25, <1>ty, ApplyMoves DEF Moves, Goes
  <2>2. UNCHANGED <<cancel, shown, overlooked, signals, active, xray, runId>> /\ UNCHANGED rid
    BY <1>25 DEF StartReturns, engine, page, local
  <2> QED
    BY <2>1, <2>2, Differ, PageElsewhere
<1>26. ASSUME NEW g \in Applies, StartGateway(g) PROVE PageInv'
  <2>1. Only({g})
    BY <1>26, <1>ty, ApplyMoves DEF Moves, Goes
  <2>2. UNCHANGED <<cancel, shown, overlooked, signals, active, xray, runId>> /\ UNCHANGED rid
    BY <1>26 DEF StartGateway, engine, page, local
  <2> QED
    BY <2>1, <2>2, Differ, PageElsewhere
<1>27. ASSUME NEW g \in Applies, Recover(g) PROVE PageInv'
  <2>1. Only({g})
    BY <1>27, <1>ty, ApplyMoves DEF Moves, Goes
  <2>2. UNCHANGED <<cancel, shown, overlooked, signals, active, xray, runId>> /\ UNCHANGED rid
    BY <1>27 DEF Recover, engine, page, local
  <2> QED
    BY <2>1, <2>2, Differ, PageElsewhere
<1>28. ASSUME NEW g \in Applies, Detect(g) PROVE PageInv'
  <2>1. Only({g})
    BY <1>28, <1>ty, ApplyMoves DEF Moves, Goes
  <2>2. UNCHANGED <<cancel, shown, overlooked, signals, active, xray, runId>> /\ UNCHANGED rid
    BY <1>28 DEF Detect, engine, page
  <2> QED
    BY <2>1, <2>2, Differ, PageElsewhere
<1>29. ASSUME NEW g \in Applies, Acquire(g) PROVE PageInv'
  <2>1. Only({g})
    BY <1>29, <1>ty, ApplyMoves DEF Moves, Goes
  <2>2. UNCHANGED <<cancel, shown, overlooked, signals, active, xray, runId>> /\ UNCHANGED rid
    BY <1>29 DEF Acquire, engine, page, local
  <2> QED
    BY <2>1, <2>2, Differ, PageElsewhere
<1>30. ASSUME NEW g \in Applies, AcquireRaises(g) PROVE PageInv'
  <2>1. Only({g})
    BY <1>30, <1>ty, ApplyMoves DEF Moves, Goes
  <2>2. UNCHANGED <<cancel, shown, overlooked, signals, active, xray, runId>> /\ UNCHANGED rid
    BY <1>30 DEF AcquireRaises, engine, page, local
  <2> QED
    BY <2>1, <2>2, Differ, PageElsewhere
<1>31. ASSUME NEW g \in Applies, AdapterUp(g) PROVE PageInv'
  <2>1. Only({g})
    BY <1>31, <1>ty, ApplyMoves DEF Moves, Goes
  <2>2. UNCHANGED <<cancel, shown, overlooked, signals, active, xray, runId>> /\ UNCHANGED rid
    BY <1>31 DEF AdapterUp, engine, page, local
  <2> QED
    BY <2>1, <2>2, Differ, PageElsewhere
<1>32. ASSUME NEW g \in Applies, AdapterMissing(g) PROVE PageInv'
  <2>1. Only({g})
    BY <1>32, <1>ty, ApplyMoves DEF Moves, Goes
  <2>2. UNCHANGED <<cancel, shown, overlooked, signals, active, xray, runId>> /\ UNCHANGED rid
    BY <1>32 DEF AdapterMissing, engine, page
  <2> QED
    BY <2>1, <2>2, Differ, PageElsewhere
<1>33. ASSUME NEW g \in Applies, ReturnLease(g) PROVE PageInv'
  <2>1. Only({g})
    BY <1>33, <1>ty, ApplyMoves DEF Moves, Goes
  <2>2. UNCHANGED <<cancel, shown, overlooked, signals, active, xray, runId>> /\ UNCHANGED rid
    BY <1>33 DEF ReturnLease, engine, page
  <2> QED
    BY <2>1, <2>2, Differ, PageElsewhere
<1>34. ASSUME NEW g \in Applies, ApplyGateway(g) PROVE PageInv'
  <2>1. PICK w \in Workers : Only({g, w})
    BY <1>34, <1>ty, ApplyMoves
  <2>2. UNCHANGED <<cancel, shown, overlooked, signals, active, xray, runId>> /\ UNCHANGED rid
    BY <1>34 DEF ApplyGateway, engine, page, local
  <2> QED
    BY <2>1, <2>2, Differ, PageElsewhere
<1>35. ASSUME NEW g \in Applies, ApplyFails(g) PROVE PageInv'
  <2>1. Only({g})
    BY <1>35, <1>ty, ApplyMoves DEF Moves, Goes
  <2>2. UNCHANGED <<cancel, shown, overlooked, signals, active, xray, runId>> /\ UNCHANGED rid
    BY <1>35 DEF ApplyFails, engine, page
  <2> QED
    BY <2>1, <2>2, Differ, PageElsewhere
<1>36. ASSUME NEW g \in Applies, UndoLease(g) PROVE PageInv'
  <2>1. Only({g})
    BY <1>36, <1>ty, ApplyMoves DEF Moves, Goes
  <2>2. UNCHANGED <<cancel, shown, overlooked, signals, active, xray, runId>> /\ UNCHANGED rid
    BY <1>36 DEF UndoLease, engine, page, local
  <2> QED
    BY <2>1, <2>2, Differ, PageElsewhere
<1>37. ASSUME NEW g \in Applies, StartedStale(g) PROVE PageInv'
  <2>1. Only({g})
    BY <1>37, <1>ty, ApplyMoves DEF Moves, Goes
  <2>2. UNCHANGED <<cancel, shown, overlooked, signals, active, xray, runId>> /\ UNCHANGED rid
    BY <1>37 DEF StartedStale, engine, page
  <2> QED
    BY <2>1, <2>2, Differ, PageElsewhere
<1>38. ASSUME NEW g \in Applies, Started(g) PROVE PageInv'
  <2>1. Only({g})
    BY <1>38, <1>ty, ApplyMoves DEF Moves, Goes
  <2>2. UNCHANGED <<cancel, shown, overlooked, signals, active, xray, runId>> /\ UNCHANGED rid
    BY <1>38 DEF Started, engine, page, local
  <2> QED
    BY <2>1, <2>2, Differ, PageElsewhere
<1>39. ASSUME NEW g \in Applies, StillCurrent(g) PROVE PageInv'
  <2>1. Only({g})
    BY <1>39, <1>ty, ApplyMoves DEF Moves, Goes
  <2>2. UNCHANGED <<cancel, shown, overlooked, signals, active, xray, runId>> /\ UNCHANGED rid
    BY <1>39 DEF StillCurrent, engine, page, local
  <2> QED
    BY <2>1, <2>2, Differ, PageElsewhere
<1>40. ASSUME NEW g \in Applies, ApplyOff(g) PROVE PageInv'
  <2>1. Only({g})
    BY <1>40, <1>ty, ApplyMoves DEF Moves, Goes
  <2>2. UNCHANGED <<cancel, shown, overlooked, signals, active, xray, runId>> /\ UNCHANGED rid
    BY <1>40 DEF ApplyOff, engine, page, local
  <2> QED
    BY <2>1, <2>2, Differ, PageElsewhere
<1>41. ASSUME NEW g \in Applies, CheckOff(g) PROVE PageInv'
  <2>1. Only({g})
    BY <1>41, <1>ty, ApplyMoves DEF Moves, Goes
  <2>2. UNCHANGED <<cancel, shown, overlooked, signals, active, xray, runId>> /\ UNCHANGED rid
    BY <1>41 DEF CheckOff, engine, page
  <2> QED
    BY <2>1, <2>2, Differ, PageElsewhere
<1>42. ASSUME NEW g \in Applies, ApplyEnds(g) PROVE PageInv'
  <2>1. Only({g})
    BY <1>42, <1>ty, ApplyMoves DEF Moves, Goes
  <2>2. UNCHANGED <<cancel, shown, overlooked, signals, active, xray, runId>> /\ UNCHANGED rid
    BY <1>42 DEF ApplyEnds, engine, local
  <2> QED
    BY <2>1, <2>2, Differ, PageElsewhere
<1>43. ASSUME NEW g \in Applies, Disconnect(g) PROVE PageInv'
  <2>1. pc'[UI] = "serial" /\ (Only({UI}) \/ Only({UI, g}))
    BY <1>43, <1>ty, PageMoves DEF Moves, At
  <2>2. UNCHANGED <<shown, overlooked, signals, active, xray, runId>> /\ cancel'
    BY <1>43 DEF Disconnect, PageStopsEngine, engine
  <2>3. rid'[XrayLog] = rid[XrayLog]
    BY <1>43, <1>ty, Kinds, Differ DEF Disconnect, ResetGateway, Carried
  <2>4. /\ pc'[XrayLog] = pc[XrayLog] /\ back'[XrayLog] = back[XrayLog]
        /\ pc'[Connector] = pc[Connector]
        /\ back'[Connector] = back[Connector] /\ after'[Connector] = after[Connector]
    BY <2>1, Kinds, Differ DEF Only
  <2>5. GivenUp' = GivenUp
    BY <2>4 DEF GivenUp
  <2> QED
    BY <2>1, <2>2, <2>3, <2>4, <2>5 DEF PageInv, Running
<1>44. ASSUME NEW g \in Applies, StateOff(g) PROVE PageInv'
  <2>1. /\ pc[UI] \in {"idle", "off"} /\ pc'[UI] = "idle"
        /\ Only({UI}) \/ Only({UI, g})
    BY <1>44, <1>ty, PageMoves DEF At
  <2>2. UNCHANGED <<cancel, active, xray, runId>> /\ ~shown'
    BY <1>44 DEF StateOff, engine
  <2>7. overlooked' => pc[UI] = "idle" /\ Running /\ signals # <<>> /\ signals' = Tail(signals)
    BY <1>44, Kinds DEF StateOff, PageIdle
  <2>8. overlooked' => ~cancel
    BY <2>7 DEF PageInv, Running
  <2>3. rid'[XrayLog] = rid[XrayLog]
    BY <1>44, <1>ty, Kinds, Differ DEF StateOff, ResetGateway, Carried
  <2>4. /\ pc'[XrayLog] = pc[XrayLog] /\ back'[XrayLog] = back[XrayLog]
        /\ pc'[Connector] = pc[Connector]
        /\ back'[Connector] = back[Connector] /\ after'[Connector] = after[Connector]
    BY <2>1, Kinds, Differ DEF Only
  <2>5. GivenUp' = GivenUp
    BY <2>4 DEF GivenUp
  <2>6. ~cancel /\ Running /\ pc[Connector] = "idle"
        => (signals' = <<>> /\ overlooked') \/ (signals' # <<>> /\ signals'[Len(signals')])
    <3>1. SUFFICES ASSUME ~cancel, Running, pc[Connector] = "idle"
                   PROVE  \/ signals' = <<>> /\ overlooked'
                          \/ signals' # <<>> /\ signals'[Len(signals')]
      OBVIOUS
    <3>2. signals # <<>> /\ signals' = Tail(signals) /\ (Head(signals) => overlooked')
      BY <1>44, <3>1 DEF StateOff, PageInv
    <3>3. signals[Len(signals)]
      BY <3>1, <3>2 DEF PageInv
    <3> QED
      BY <1>ty, <3>2, <3>3, LastSignal
  <2> QED
    BY <2>1, <2>2, <2>3, <2>4, <2>5, <2>6, <2>7, <2>8 DEF PageInv, Running
<1>45. ASSUME NEW g \in Applies, QueueOn(g) PROVE PageInv'
  <2>1. Only({g})
    BY <1>45, <1>ty, PageMoves DEF Moves, Goes
  <2>2. UNCHANGED <<cancel, shown, overlooked, signals, active, xray, runId>>
    BY <1>45 DEF QueueOn, engine
  <2>3. rid'[XrayLog] = rid[XrayLog]
    BY <1>45, <1>ty, Differ, Kinds DEF QueueOn, Carried
  <2> QED
    BY <2>1, <2>2, <2>3, Differ, PageElsewhere
<1>46. ASSUME NEW g \in Applies, GatewayOff(g) PROVE PageInv'
  <2>1. Only({g})
    BY <1>46, <1>ty, PageMoves DEF Moves, Goes
  <2>2. UNCHANGED <<cancel, shown, overlooked, signals, active, xray, runId>>
    BY <1>46 DEF GatewayOff, engine
  <2>3. rid'[XrayLog] = rid[XrayLog]
    BY <1>46, <1>ty, Differ, Kinds DEF GatewayOff, Carried
  <2> QED
    BY <2>1, <2>2, <2>3, Differ, PageElsewhere
<1>47. ASSUME NEW w \in Workers, WorkerOffline(w) PROVE PageInv'
  <2>1. Only({w})
    BY <1>47, <1>ty, PageMoves DEF Moves, Goes
  <2>2. UNCHANGED <<cancel, shown, overlooked, signals, active, xray, runId>> /\ UNCHANGED rid
    BY <1>47 DEF WorkerOffline, engine, page
  <2> QED
    BY <2>1, <2>2, Differ, PageElsewhere
<1>48. ASSUME NEW w \in Workers, WorkerEnds(w) PROVE PageInv'
  <2>1. Only({w})
    BY <1>48, <1>ty, PageMoves DEF Moves, Goes
  <2>2. UNCHANGED <<cancel, shown, overlooked, signals, active, xray, runId>> /\ UNCHANGED rid
    BY <1>48 DEF WorkerEnds, engine, local
  <2> QED
    BY <2>1, <2>2, Differ, PageElsewhere
<1>49. CASE Connect
  <2>1. Goes(Connector, "start")
    BY <1>49, <1>ty, PageMoves
  <2>2. UNCHANGED <<shown, overlooked, signals, active, xray, runId, rid>> /\ ~cancel' /\ ~Running
    BY <1>49 DEF Connect, engine, local
  <2>3. /\ pc'[UI] = pc[UI] /\ pc'[XrayLog] = pc[XrayLog] /\ back'[XrayLog] = back[XrayLog]
        /\ pc'[Connector] = "start" /\ pc[UI] = "idle"
    BY <1>49, <2>1, Kinds, Differ DEF Goes, Moves, Only, At, Connect, PageFree, PageIdle
  <2>4. ~GivenUp'
    BY <2>3 DEF GivenUp, InStop, Stopping
  <2> QED
    BY <2>2, <2>3, <2>4 DEF PageInv, Running
<1>50. CASE SwitchProfile
  <2>1. pc'[UI] = "serial" /\ Only({UI})
    BY <1>50, <1>ty, PageMoves DEF Moves, At
  <2>2. UNCHANGED <<shown, overlooked, signals, active, xray, runId>> /\ cancel'
    BY <1>50 DEF SwitchProfile, PageStopsEngine, engine
  <2>3. rid'[XrayLog] = rid[XrayLog]
    BY <1>50, <1>ty, Kinds, Differ DEF SwitchProfile, Carried
  <2>4. /\ pc'[XrayLog] = pc[XrayLog] /\ back'[XrayLog] = back[XrayLog]
        /\ pc'[Connector] = pc[Connector]
        /\ back'[Connector] = back[Connector] /\ after'[Connector] = after[Connector]
    BY <2>1, Kinds, Differ DEF Only
  <2>5. GivenUp' = GivenUp
    BY <2>4 DEF GivenUp
  <2> QED
    BY <2>1, <2>2, <2>3, <2>4, <2>5 DEF PageInv, Running
<1>51. CASE StateOn
  <2>1. UNCHANGED <<cancel, active, xray, runId, pc, back, after, rid>> /\ shown' /\ ~overlooked'
    BY <1>51 DEF StateOn, engine, local
  <2>2. pc[UI] = "idle" /\ Running /\ signals # <<>> /\ signals' = Tail(signals)
    BY <1>51 DEF StateOn, PageIdle
  <2>3. ~cancel
    BY <2>2 DEF PageInv, Running
  <2>4. pc[Connector] # "idle" \/ signals' = <<>> \/ (signals' # <<>> /\ signals'[Len(signals')])
    BY <1>ty, <2>2, <2>3, LastSignal DEF PageInv
  <2>5. GivenUp' = GivenUp
    BY <2>1 DEF GivenUp
  <2> QED
    BY <2>1, <2>2, <2>3, <2>4, <2>5 DEF PageInv, Running
<1>52. CASE GatewayOn
  <2>1. UNCHANGED <<cancel, shown, overlooked, signals, active, xray, runId, pc, back, after, rid>>
    BY <1>52 DEF GatewayOn, engine, local
  <2> QED
    BY <2>1, PageStays DEF Alike
<1>53. CASE SwitchTun
  <2>1. Only({Mode})
    BY <1>53, <1>ty, PageMoves DEF Moves, Goes
  <2>2. UNCHANGED <<cancel, shown, overlooked, signals, active, xray, runId>>
    BY <1>53 DEF SwitchTun, engine, page
  <2>3. rid'[XrayLog] = rid[XrayLog]
    BY <1>53, <1>ty, Differ, Kinds DEF SwitchTun, Carried
  <2> QED
    BY <2>1, <2>2, <2>3, Differ, PageElsewhere
<1>54. CASE XrayDies
  <2>1. Goes(XrayLog, "died")
    BY <1>54, <1>ty, PageMoves
  <2>2. UNCHANGED <<cancel, shown, overlooked, signals, active, runId>> /\ ~xray'
    BY <1>54 DEF XrayDies, page
  <2>3. rid'[XrayLog] = runId
    BY <1>54, <1>ty, Kinds DEF XrayDies, Carried
  <2>4. pc'[XrayLog] = "died"
    BY <2>1 DEF Goes, Moves, At
  <2>5. /\ pc'[UI] = pc[UI] /\ pc'[Connector] = pc[Connector]
        /\ back'[Connector] = back[Connector] /\ after'[Connector] = after[Connector]
    BY <2>1, Kinds, Differ DEF Goes, Moves, Only
  <2>6. GivenUp' = GivenUp
    BY <2>5 DEF GivenUp
  <2> QED
    BY <2>2, <2>3, <2>4, <2>5, <2>6 DEF PageInv, Running
<1>55. CASE TunDies
  <2>1. Only({TunLog})
    BY <1>55, <1>ty, PageMoves DEF Moves, Goes
  <2>2. UNCHANGED <<cancel, shown, overlooked, signals, active, xray, runId>> /\ UNCHANGED rid
    BY <1>55 DEF TunDies, engine, page, local
  <2> QED
    BY <2>1, <2>2, Differ, PageElsewhere
<1> QED
  BY <1>st, <1>1, <1>2, <1>3, <1>4, <1>5, <1>6, <1>7, <1>8, <1>9, <1>10, <1>11, <1>12, <1>13,
     <1>14, <1>15, <1>16, <1>17, <1>18, <1>19, <1>20, <1>21, <1>22, <1>23, <1>24, <1>25, <1>26,
     <1>27, <1>28, <1>29, <1>30, <1>31, <1>32, <1>33, <1>34, <1>35, <1>36, <1>37, <1>38, <1>39,
     <1>40, <1>41, <1>42, <1>43, <1>44, <1>45, <1>46, <1>47, <1>48, <1>49, <1>50, <1>51, <1>52,
     <1>53, <1>54, <1>55
     DEF Next, Step, StopGateway, Attempt, Device, ApplyMode, Clicks

\* At first the page shows nothing and nothing runs.
LEMMA PageInit == Init => PageInv
<1> SUFFICES ASSUME Init PROVE PageInv
  OBVIOUS
<1>1. /\ pc[UI] = "idle" /\ pc[Connector] = "idle" /\ ~cancel /\ ~active /\ ~xray /\ ~shown
      /\ ~overlooked
  BY Kinds DEF Init
<1>2. ~GivenUp
  BY <1>1 DEF GivenUp, InStop, Stopping
<1> QED
  BY <1>1, <1>2 DEF PageInv, Running

\* PageInv is what PageAgrees needs.
LEMMA AtRest == Typed /\ Post /\ PageInv => PageAgrees
<1> SUFFICES ASSUME Typed, Post, PageInv, Quiet, signals = <<>>
             PROVE  shown <=> Running /\ ~overlooked
  BY DEF PageAgrees
<1>1. \A t \in {UI, Connector, XrayLog} : pc[t] \in {"idle", "done", "watch"}
  BY Kinds DEF Quiet
<1>2. \A t \in {UI, Connector, XrayLog} : pc[t] = "idle"
  BY <1>1, Kinds, Differ DEF Post, Seated, Fits
<1>3. ~InStop(pc[XrayLog], back[XrayLog])
  BY <1>2 DEF InStop, Stopping
<1> QED
  BY <1>2, <1>3 DEF PageInv, Running, Typed, Paged, Ran

\* With every signal handled and every thread at rest, the page shows a connection exactly
\* when Xray runs, but for one it took for none for want of its TUN (ui.py:10393).
THEOREM PageShowsEngine == Spec => []PageAgrees
<1> QED
  BY PageInit, AtRest, Core, PageNext, PTL DEF Spec

\* Every step of GatewayManager.stop is one of these.
LEMMA StopSteps ==
  ASSUME Placed, Carried, Spent, NEW t \in Threads, StopGateway(t)
  PROVE  StopLeaves(t)
<1> USE DEF StopLeaves
<1>1. CASE Serialise(t)
  <2>1. pc[t] = "serial" /\ Goes(t, "begin")
    BY <1>1, StopMoves
  <2>2. UNCHANGED <<engine, page, rid, lifecycle>>
    BY <1>1 DEF Serialise, engine, page, local
  <2>3. file' \in {file, "none"} /\ (gateway' => gateway)
    BY <1>1 DEF Serialise, gw
  <2>4. smooth' => smooth /\ failed' \subseteq failed
    BY <1>1 DEF Serialise, local, budget
  <2> QED
    BY <2>1, <2>2, <2>3, <2>4 DEF Moves, Goes, At, Stopping
<1>2. CASE NothingToStop(t)
  <2>1. pc[t] = "begin" /\ Moves(t, back[t], "leave", after[t])
    BY <1>2, StopMoves
  <2>2. UNCHANGED <<engine, page, rid, lifecycle>>
    BY <1>2 DEF NothingToStop, engine, page
  <2>3. file' \in {file, "none"} /\ (gateway' => gateway)
    BY <1>2 DEF NothingToStop, gw
  <2>4. smooth' => smooth /\ failed' \subseteq failed
    BY <1>2 DEF NothingToStop, budget
  <2> QED
    BY <2>1, <2>2, <2>3, <2>4 DEF Moves, Goes, At, Stopping
<1>3. CASE StopBegins(t)
  <2>1. pc[t] = "begin" /\ Goes(t, "join")
    BY <1>3, StopMoves
  <2>2. UNCHANGED <<engine, page, rid, lifecycle>>
    BY <1>3 DEF StopBegins, locks, engine, page, local
  <2>3. file' \in {file, "none"} /\ (gateway' => gateway)
    BY <1>3 DEF StopBegins
  <2>4. smooth' => smooth /\ failed' \subseteq failed
    BY <1>3 DEF StopBegins, local, budget
  <2> QED
    BY <2>1, <2>2, <2>3, <2>4 DEF Moves, Goes, At, Stopping
<1>4. CASE StopJoins(t)
  <2>1. pc[t] = "join" /\ Goes(t, "end")
    BY <1>4, StopMoves
  <2>2. UNCHANGED <<engine, page, rid, lifecycle>>
    BY <1>4 DEF StopJoins, locks, engine, page, local
  <2>3. file' \in {file, "none"} /\ (gateway' => gateway)
    BY <1>4 DEF StopJoins, gw
  <2>4. smooth' => smooth /\ failed' \subseteq failed
    BY <1>4 DEF StopJoins, local, budget
  <2> QED
    BY <2>1, <2>2, <2>3, <2>4 DEF Moves, Goes, At, Stopping
<1>5. CASE StopRestores(t)
  <2>1. pc[t] = "end" /\ Moves(t, back[t], "leave", after[t])
    BY <1>5, StopMoves
  <2>2. UNCHANGED <<engine, page, rid, lifecycle>>
    BY <1>5 DEF StopRestores, engine, page
  <2>3. file' \in {file, "none"} /\ (gateway' => gateway)
    BY <1>5 DEF StopRestores, StopEnds
  <2>4. smooth' => smooth /\ failed' \subseteq failed
    BY <1>5 DEF StopRestores, Restores, StopEnds, RestoreFails, budget
  <2> QED
    BY <2>1, <2>2, <2>3, <2>4 DEF Moves, Goes, At, Stopping
<1>6. CASE StopRestoresAndReleases(t)
  <2>1. pc[t] = "end" /\ back[t] \notin {"lock", "body"} /\ Goes(t, "lease")
    BY <1>6, StopMoves
  <2>2. UNCHANGED <<engine, page, rid, lifecycle>>
    BY <1>6 DEF StopRestoresAndReleases, engine, page
  <2>3. file' \in {file, "none"} /\ (gateway' => gateway)
    BY <1>6 DEF StopRestoresAndReleases, gw
  <2>4. smooth' => smooth /\ failed' \subseteq failed
    BY <1>6 DEF StopRestoresAndReleases, Restores, RestoreFails, budget
  <2> QED
    BY <2>1, <2>2, <2>3, <2>4 DEF Moves, Goes, At, Stopping
<1>7. CASE StopReleases(t)
  <2>1. pc[t] = "lease" /\ Moves(t, back[t], "leave", after[t])
    BY <1>7, StopMoves
  <2>2. UNCHANGED <<engine, page, rid, lifecycle>>
    BY <1>7 DEF StopReleases, engine, page
  <2>3. file' \in {file, "none"} /\ (gateway' => gateway)
    BY <1>7 DEF StopReleases, StopEnds
  <2>4. smooth' => smooth /\ failed' \subseteq failed
    BY <1>7 DEF StopReleases, StopEnds, budget
  <2> QED
    BY <2>1, <2>2, <2>3, <2>4 DEF Moves, Goes, At, Stopping
<1> QED
  BY <1>1, <1>2, <1>3, <1>4, <1>5, <1>6, <1>7 DEF StopGateway

\* Every step of a gateway-mode thread is one of these.
LEMMA ApplySteps ==
  ASSUME Placed, Carried, Spent, NEW g \in Applies, ApplyMode(g)
  PROVE  ApplyLeaves(g)
<1>1. g \in Threads /\ g \notin Workers
  BY Kinds, Differ
<1>2. CASE Overtaken(g)
  <2>0. pc[g] \in {"queued on", "queued off"} /\ Goes(g, "done")
    BY <1>2, ApplyMoves
  <2>1. Only({g} \union Workers) /\ \A u \in Workers : pc'[u] \in {pc[u], "watch"}
    BY <1>1, <2>0, Kinds DEF Moves, Goes, Only
  <2>2. UNCHANGED <<engine, connecting, shown, cancel, signals, last, rid, failed>>
    BY <1>2 DEF Overtaken, engine, page, local
  <2>3. gate' = None \/ UNCHANGED <<gate, requested>>
    BY <1>2 DEF Overtaken, page
  <2>4. /\ pc'[g] = "recover" \/ file' = "stale" => file = "stale"
        /\ gateway => gateway'
    BY <1>2, <1>1, <2>0 DEF Overtaken, gw, Moves, Goes, At
  <2>5. /\ pc[g] \notin Starting => UNCHANGED <<file, gateway, manager>>
        /\ pc[g] = "ready" => UNCHANGED <<file, gateway>> /\ (gate = g \/ UNCHANGED manager)
    BY <1>2, <2>0 DEF Overtaken, locks, gw, Starting
  <2>6. smooth' => smooth /\ (file' = "own" => file = "own" \/ gateway')
    BY <1>2 DEF Overtaken, gw, budget
  <2>7. \A u \in Threads \ {g} : seen'[u] = seen[u]
    BY <1>2 DEF Overtaken, local, Carried
  <2>8. pc'[g] \notin {"begin", "join", "end", "lease"}
    BY <2>0 DEF Moves, Goes, At
  <2> QED
    BY <2>1, <2>2, <2>3, <2>4, <2>5, <2>6, <2>7, <2>8 DEF ApplyLeaves
<1>3. CASE ApplyOn(g)
  <2>0. pc[g] = "queued on" /\ Goes(g, "check on")
    BY <1>3, ApplyMoves
  <2>1. Only({g} \union Workers) /\ \A u \in Workers : pc'[u] \in {pc[u], "watch"}
    BY <1>1, <2>0, Kinds DEF Moves, Goes, Only
  <2>2. UNCHANGED <<engine, connecting, shown, cancel, signals, last, rid, failed>>
    BY <1>3 DEF ApplyOn, engine, page, local
  <2>3. gate' = None \/ UNCHANGED <<gate, requested>>
    BY <1>3 DEF ApplyOn, page
  <2>4. /\ pc'[g] = "recover" \/ file' = "stale" => file = "stale"
        /\ gateway => gateway'
    BY <1>3, <1>1, <2>0 DEF ApplyOn, gw, Moves, Goes, At
  <2>5. /\ pc[g] \notin Starting => UNCHANGED <<file, gateway, manager>>
        /\ pc[g] = "ready" => UNCHANGED <<file, gateway>> /\ (gate = g \/ UNCHANGED manager)
    BY <1>3, <2>0 DEF ApplyOn, gw, Starting
  <2>6. smooth' => smooth /\ (file' = "own" => file = "own" \/ gateway')
    BY <1>3 DEF ApplyOn, gw, budget
  <2>7. \A u \in Threads \ {g} : seen'[u] = seen[u]
    BY <1>3 DEF ApplyOn, local, Carried
  <2>8. pc'[g] \notin {"begin", "join", "end", "lease"}
    BY <2>0 DEF Moves, Goes, At
  <2> QED
    BY <2>1, <2>2, <2>3, <2>4, <2>5, <2>6, <2>7, <2>8 DEF ApplyLeaves
<1>4. CASE CheckOn(g)
  <2>0. /\ pc[g] = "check on"
        /\ \/ Goes(g, "ready")
           \/ Goes(g, "applied")
    BY <1>4, ApplyMoves
  <2>1. Only({g} \union Workers) /\ \A u \in Workers : pc'[u] \in {pc[u], "watch"}
    BY <1>1, <2>0, Kinds DEF Moves, Goes, Only
  <2>2. UNCHANGED <<engine, connecting, shown, cancel, signals, last, rid, failed>>
    BY <1>4 DEF CheckOn, engine, page, local
  <2>3. gate' = None \/ UNCHANGED <<gate, requested>>
    BY <1>4 DEF CheckOn, page
  <2>4. /\ pc'[g] = "recover" \/ file' = "stale" => file = "stale"
        /\ gateway => gateway'
    BY <1>4, <1>1, <2>0 DEF CheckOn, gw, Moves, Goes, At
  <2>5. /\ pc[g] \notin Starting => UNCHANGED <<file, gateway, manager>>
        /\ pc[g] = "ready" => UNCHANGED <<file, gateway>> /\ (gate = g \/ UNCHANGED manager)
    BY <1>4, <2>0 DEF CheckOn, locks, gw, Starting
  <2>6. smooth' => smooth /\ (file' = "own" => file = "own" \/ gateway')
    BY <1>4 DEF CheckOn, gw, budget
  <2>7. \A u \in Threads \ {g} : seen'[u] = seen[u]
    BY <1>4 DEF CheckOn, local, Carried
  <2>8. pc'[g] \notin {"begin", "join", "end", "lease"}
    BY <2>0 DEF Moves, Goes, At
  <2> QED
    BY <2>1, <2>2, <2>3, <2>4, <2>5, <2>6, <2>7, <2>8 DEF ApplyLeaves
<1>5. CASE StartReturns(g)
  <2>0. /\ pc[g] = "ready"
        /\ \/ Goes(g, "started")
           \/ Goes(g, "applied")
    BY <1>5, ApplyMoves
  <2>1. Only({g} \union Workers) /\ \A u \in Workers : pc'[u] \in {pc[u], "watch"}
    BY <1>1, <2>0, Kinds DEF Moves, Goes, Only
  <2>2. UNCHANGED <<engine, connecting, shown, cancel, signals, last, rid, failed>>
    BY <1>5 DEF StartReturns, engine, page, local
  <2>3. gate' = None \/ UNCHANGED <<gate, requested>>
    BY <1>5 DEF StartReturns, page
  <2>4. /\ pc'[g] = "recover" \/ file' = "stale" => file = "stale"
        /\ gateway => gateway'
    BY <1>5, <1>1, <2>0 DEF StartReturns, gw, Moves, Goes, At
  <2>5. /\ pc[g] \notin Starting => UNCHANGED <<file, gateway, manager>>
        /\ pc[g] = "ready" => UNCHANGED <<file, gateway>> /\ (gate = g \/ UNCHANGED manager)
    BY <1>5, <2>0 DEF StartReturns, locks, gw, Starting
  <2>6. smooth' => smooth /\ (file' = "own" => file = "own" \/ gateway')
    BY <1>5 DEF StartReturns, gw, budget
  <2>7. \A u \in Threads \ {g} : seen'[u] = seen[u]
    BY <1>5 DEF StartReturns, local, Carried
  <2>8. pc'[g] \notin {"begin", "join", "end", "lease"}
    BY <2>0 DEF Moves, Goes, At
  <2> QED
    BY <2>1, <2>2, <2>3, <2>4, <2>5, <2>6, <2>7, <2>8 DEF ApplyLeaves
<1>6. CASE StartGateway(g)
  <2>0. /\ pc[g] = "ready"
        /\ \/ Goes(g, "detect")
           \/ Goes(g, "recover")
    BY <1>6, ApplyMoves
  <2>1. Only({g} \union Workers) /\ \A u \in Workers : pc'[u] \in {pc[u], "watch"}
    BY <1>1, <2>0, Kinds DEF Moves, Goes, Only
  <2>2. UNCHANGED <<engine, connecting, shown, cancel, signals, last, rid, failed>>
    BY <1>6 DEF StartGateway, engine, page, local
  <2>3. gate' = None \/ UNCHANGED <<gate, requested>>
    BY <1>6 DEF StartGateway, page
  <2>4. /\ pc'[g] = "recover" \/ file' = "stale" => file = "stale"
        /\ gateway => gateway'
    BY <1>6, <1>1, <2>0 DEF StartGateway, gw, Go, Raise, Placed, Moves, Goes, At
  <2>5. /\ pc[g] \notin Starting => UNCHANGED <<file, gateway, manager>>
        /\ pc[g] = "ready" => UNCHANGED <<file, gateway>> /\ (gate = g \/ UNCHANGED manager)
    BY <1>6, <2>0 DEF StartGateway, gw, Starting
  <2>6. smooth' => smooth /\ (file' = "own" => file = "own" \/ gateway')
    BY <1>6 DEF StartGateway, gw, budget
  <2>7. \A u \in Threads \ {g} : seen'[u] = seen[u]
    BY <1>6 DEF StartGateway, local, Carried
  <2>8. pc'[g] \notin {"begin", "join", "end", "lease"}
    BY <2>0 DEF Moves, Goes, At
  <2> QED
    BY <2>1, <2>2, <2>3, <2>4, <2>5, <2>6, <2>7, <2>8 DEF ApplyLeaves
<1>7. CASE Recover(g)
  <2>0. /\ pc[g] = "recover"
        /\ \/ Goes(g, "detect") /\ manager' = manager
           \/ Goes(g, "applied") /\ manager' = None
    BY <1>7, ApplyMoves
  <2>1. Only({g} \union Workers) /\ \A u \in Workers : pc'[u] \in {pc[u], "watch"}
    BY <1>1, <2>0, Kinds DEF Moves, Goes, Only
  <2>2. UNCHANGED <<engine, connecting, shown, cancel, signals, last, rid, failed>>
    BY <1>7 DEF Recover, engine, page, local
  <2>3. gate' = None \/ UNCHANGED <<gate, requested>>
    BY <1>7 DEF Recover, page
  <2>4. /\ pc'[g] = "recover" \/ file' = "stale" => file = "stale"
        /\ gateway => gateway'
    BY <1>7, <1>1, <2>0 DEF Recover, Moves, Goes, At
  <2>5. /\ pc[g] \notin Starting => UNCHANGED <<file, gateway, manager>>
        /\ pc[g] = "ready" => UNCHANGED <<file, gateway>> /\ (gate = g \/ UNCHANGED manager)
    BY <1>7, <2>0 DEF Recover, Raise, Starting
  <2>6. smooth' => smooth /\ (file' = "own" => file = "own" \/ gateway')
    BY <1>7 DEF Recover, Restores, RestoreFails, budget
  <2>7. \A u \in Threads \ {g} : seen'[u] = seen[u]
    BY <1>7 DEF Recover, local, Carried
  <2>8. pc'[g] \notin {"begin", "join", "end", "lease"}
    BY <2>0 DEF Moves, Goes, At
  <2> QED
    BY <2>1, <2>2, <2>3, <2>4, <2>5, <2>6, <2>7, <2>8 DEF ApplyLeaves
<1>8. CASE Detect(g)
  <2>0. /\ pc[g] = "detect"
        /\ \/ Goes(g, "acquire") /\ manager' = manager
           \/ Goes(g, "applied") /\ manager' = None
    BY <1>8, ApplyMoves
  <2>1. Only({g} \union Workers) /\ \A u \in Workers : pc'[u] \in {pc[u], "watch"}
    BY <1>1, <2>0, Kinds DEF Moves, Goes, Only
  <2>2. UNCHANGED <<engine, connecting, shown, cancel, signals, last, rid, failed>>
    BY <1>8 DEF Detect, engine, page
  <2>3. gate' = None \/ UNCHANGED <<gate, requested>>
    BY <1>8 DEF Detect, page
  <2>4. /\ pc'[g] = "recover" \/ file' = "stale" => file = "stale"
        /\ gateway => gateway'
    BY <1>8, <1>1, <2>0 DEF Detect, gw, Moves, Goes, At
  <2>5. /\ pc[g] \notin Starting => UNCHANGED <<file, gateway, manager>>
        /\ pc[g] = "ready" => UNCHANGED <<file, gateway>> /\ (gate = g \/ UNCHANGED manager)
    BY <1>8, <2>0 DEF Detect, Raise, gw, Starting
  <2>6. smooth' => smooth /\ (file' = "own" => file = "own" \/ gateway')
    BY <1>8 DEF Detect, gw, budget
  <2>7. \A u \in Threads \ {g} : seen'[u] = seen[u]
    BY <1>8 DEF Detect, Carried
  <2>8. pc'[g] \notin {"begin", "join", "end", "lease"}
    BY <2>0 DEF Moves, Goes, At
  <2> QED
    BY <2>1, <2>2, <2>3, <2>4, <2>5, <2>6, <2>7, <2>8 DEF ApplyLeaves
<1>9. CASE Acquire(g)
  <2>0. pc[g] = "acquire" /\ Goes(g, "adapter")
    BY <1>9, ApplyMoves
  <2>1. Only({g} \union Workers) /\ \A u \in Workers : pc'[u] \in {pc[u], "watch"}
    BY <1>1, <2>0, Kinds DEF Moves, Goes, Only
  <2>2. UNCHANGED <<engine, connecting, shown, cancel, signals, last, rid, failed>>
    BY <1>9 DEF Acquire, engine, page, local
  <2>3. gate' = None \/ UNCHANGED <<gate, requested>>
    BY <1>9 DEF Acquire, page
  <2>4. /\ pc'[g] = "recover" \/ file' = "stale" => file = "stale"
        /\ gateway => gateway'
    BY <1>9, <1>1, <2>0 DEF Acquire, gw, Moves, Goes, At
  <2>5. /\ pc[g] \notin Starting => UNCHANGED <<file, gateway, manager>>
        /\ pc[g] = "ready" => UNCHANGED <<file, gateway>> /\ (gate = g \/ UNCHANGED manager)
    BY <1>9, <2>0 DEF Acquire, locks, gw, Starting
  <2>6. smooth' => smooth /\ (file' = "own" => file = "own" \/ gateway')
    BY <1>9 DEF Acquire, gw, budget
  <2>7. \A u \in Threads \ {g} : seen'[u] = seen[u]
    BY <1>9 DEF Acquire, local, Carried
  <2>8. pc'[g] \notin {"begin", "join", "end", "lease"}
    BY <2>0 DEF Moves, Goes, At
  <2> QED
    BY <2>1, <2>2, <2>3, <2>4, <2>5, <2>6, <2>7, <2>8 DEF ApplyLeaves
<1>10. CASE AcquireRaises(g)
  <2>0. pc[g] = "acquire" /\ Goes(g, "applied")
    BY <1>10, ApplyMoves
  <2>1. Only({g} \union Workers) /\ \A u \in Workers : pc'[u] \in {pc[u], "watch"}
    BY <1>1, <2>0, Kinds DEF Moves, Goes, Only
  <2>2. UNCHANGED <<engine, connecting, shown, cancel, signals, last, rid, failed>>
    BY <1>10 DEF AcquireRaises, engine, page, local
  <2>3. gate' = None \/ UNCHANGED <<gate, requested>>
    BY <1>10 DEF AcquireRaises, page
  <2>4. /\ pc'[g] = "recover" \/ file' = "stale" => file = "stale"
        /\ gateway => gateway'
    BY <1>10, <1>1, <2>0 DEF AcquireRaises, gw, Moves, Goes, At
  <2>5. /\ pc[g] \notin Starting => UNCHANGED <<file, gateway, manager>>
        /\ pc[g] = "ready" => UNCHANGED <<file, gateway>> /\ (gate = g \/ UNCHANGED manager)
    BY <1>10, <2>0 DEF AcquireRaises, Raise, gw, Starting
  <2>6. smooth' => smooth /\ (file' = "own" => file = "own" \/ gateway')
    BY <1>10 DEF AcquireRaises, gw, budget
  <2>7. \A u \in Threads \ {g} : seen'[u] = seen[u]
    BY <1>10 DEF AcquireRaises, local, Carried
  <2>8. pc'[g] \notin {"begin", "join", "end", "lease"}
    BY <2>0 DEF Moves, Goes, At
  <2> QED
    BY <2>1, <2>2, <2>3, <2>4, <2>5, <2>6, <2>7, <2>8 DEF ApplyLeaves
<1>11. CASE AdapterUp(g)
  <2>0. pc[g] = "adapter" /\ Goes(g, "apply")
    BY <1>11, ApplyMoves
  <2>1. Only({g} \union Workers) /\ \A u \in Workers : pc'[u] \in {pc[u], "watch"}
    BY <1>1, <2>0, Kinds DEF Moves, Goes, Only
  <2>2. UNCHANGED <<engine, connecting, shown, cancel, signals, last, rid, failed>>
    BY <1>11 DEF AdapterUp, engine, page, local
  <2>3. gate' = None \/ UNCHANGED <<gate, requested>>
    BY <1>11 DEF AdapterUp, page
  <2>4. /\ pc'[g] = "recover" \/ file' = "stale" => file = "stale"
        /\ gateway => gateway'
    BY <1>11, <1>1, <2>0 DEF AdapterUp, gw, Moves, Goes, At
  <2>5. /\ pc[g] \notin Starting => UNCHANGED <<file, gateway, manager>>
        /\ pc[g] = "ready" => UNCHANGED <<file, gateway>> /\ (gate = g \/ UNCHANGED manager)
    BY <1>11, <2>0 DEF AdapterUp, locks, gw, Starting
  <2>6. smooth' => smooth /\ (file' = "own" => file = "own" \/ gateway')
    BY <1>11 DEF AdapterUp, gw, budget
  <2>7. \A u \in Threads \ {g} : seen'[u] = seen[u]
    BY <1>11 DEF AdapterUp, local, Carried
  <2>8. pc'[g] \notin {"begin", "join", "end", "lease"}
    BY <2>0 DEF Moves, Goes, At
  <2> QED
    BY <2>1, <2>2, <2>3, <2>4, <2>5, <2>6, <2>7, <2>8 DEF ApplyLeaves
<1>12. CASE AdapterMissing(g)
  <2>0. pc[g] = "adapter" /\ Goes(g, "return")
    BY <1>12, ApplyMoves
  <2>1. Only({g} \union Workers) /\ \A u \in Workers : pc'[u] \in {pc[u], "watch"}
    BY <1>1, <2>0, Kinds DEF Moves, Goes, Only
  <2>2. UNCHANGED <<engine, connecting, shown, cancel, signals, last, rid, failed>>
    BY <1>12 DEF AdapterMissing, engine, page
  <2>3. gate' = None \/ UNCHANGED <<gate, requested>>
    BY <1>12 DEF AdapterMissing, page
  <2>4. /\ pc'[g] = "recover" \/ file' = "stale" => file = "stale"
        /\ gateway => gateway'
    BY <1>12, <1>1, <2>0 DEF AdapterMissing, gw, Moves, Goes, At
  <2>5. /\ pc[g] \notin Starting => UNCHANGED <<file, gateway, manager>>
        /\ pc[g] = "ready" => UNCHANGED <<file, gateway>> /\ (gate = g \/ UNCHANGED manager)
    BY <1>12, <2>0 DEF AdapterMissing, locks, gw, Starting
  <2>6. smooth' => smooth /\ (file' = "own" => file = "own" \/ gateway')
    BY <1>12 DEF AdapterMissing, gw, budget
  <2>7. \A u \in Threads \ {g} : seen'[u] = seen[u]
    BY <1>12 DEF AdapterMissing, Carried
  <2>8. pc'[g] \notin {"begin", "join", "end", "lease"}
    BY <2>0 DEF Moves, Goes, At
  <2> QED
    BY <2>1, <2>2, <2>3, <2>4, <2>5, <2>6, <2>7, <2>8 DEF ApplyLeaves
<1>13. CASE ReturnLease(g)
  <2>0. /\ pc[g] = "return"
        /\ \/ Goes(g, "detect") /\ manager' = manager
           \/ Goes(g, "applied") /\ manager' = None
           \/ Goes(g, "undo") /\ manager' = manager
    BY <1>13, ApplyMoves
  <2>1. Only({g} \union Workers) /\ \A u \in Workers : pc'[u] \in {pc[u], "watch"}
    BY <1>1, <2>0, Kinds DEF Moves, Goes, Only
  <2>2. UNCHANGED <<engine, connecting, shown, cancel, signals, last, rid, failed>>
    BY <1>13 DEF ReturnLease, engine, page
  <2>3. gate' = None \/ UNCHANGED <<gate, requested>>
    BY <1>13 DEF ReturnLease, page
  <2>4. /\ pc'[g] = "recover" \/ file' = "stale" => file = "stale"
        /\ gateway => gateway'
    BY <1>13, <1>1, <2>0 DEF ReturnLease, gw, Moves, Goes, At
  <2>5. /\ pc[g] \notin Starting => UNCHANGED <<file, gateway, manager>>
        /\ pc[g] = "ready" => UNCHANGED <<file, gateway>> /\ (gate = g \/ UNCHANGED manager)
    BY <1>13, <2>0 DEF ReturnLease, Raise, gw, Starting
  <2>6. smooth' => smooth /\ (file' = "own" => file = "own" \/ gateway')
    BY <1>13 DEF ReturnLease, gw, budget
  <2>7. \A u \in Threads \ {g} : seen'[u] = seen[u]
    BY <1>13 DEF ReturnLease, Carried
  <2>8. pc'[g] \notin {"begin", "join", "end", "lease"}
    BY <2>0 DEF Moves, Goes, At
  <2> QED
    BY <2>1, <2>2, <2>3, <2>4, <2>5, <2>6, <2>7, <2>8 DEF ApplyLeaves
<1>14. CASE ApplyGateway(g)
  <2>0. PICK w \in Workers : /\ pc[w] = "idle" /\ Only({g, w})
                             /\ At(g, "started", back[g], after[g])
                             /\ At(w, "watch", back[w], after[w])
    BY <1>14, ApplyMoves
  <2>a. Only({g} \union Workers) /\ pc'[g] = "started"
    BY <2>0 DEF Only, At
  <2>b. \A u \in Workers : pc'[u] \in {pc[u], "watch"}
    BY <1>1, <2>0, Kinds DEF Only, At
  <2>c. pc[g] = "apply"
    BY <1>14 DEF ApplyGateway
  <2>1. /\ Only({g} \union Workers) /\ \A u \in Workers : pc'[u] \in {pc[u], "watch"}
        /\ pc[g] = "apply" /\ pc'[g] = "started"
    BY <2>a, <2>b, <2>c
  <2>2. UNCHANGED <<engine, connecting, shown, cancel, signals, last, rid, failed>>
    BY <1>14 DEF ApplyGateway, engine, page, local
  <2>3. gate' = None \/ UNCHANGED <<gate, requested>>
    BY <1>14 DEF ApplyGateway, page
  <2>4. /\ pc'[g] = "recover" \/ file' = "stale" => file = "stale"
        /\ gateway => gateway'
    BY <1>14, <1>1, <2>1 DEF ApplyGateway
  <2>5. /\ pc[g] \notin Starting => UNCHANGED <<file, gateway, manager>>
        /\ pc[g] = "ready" => UNCHANGED <<file, gateway>> /\ (gate = g \/ UNCHANGED manager)
    BY <1>14, <2>1 DEF ApplyGateway, Starting
  <2>6. smooth' => smooth /\ (file' = "own" => file = "own" \/ gateway')
    BY <1>14 DEF ApplyGateway, budget
  <2>7. \A u \in Threads \ {g} : seen'[u] = seen[u]
    BY <1>14 DEF ApplyGateway, local, Carried
  <2>8. pc'[g] \notin {"begin", "join", "end", "lease"}
    BY <2>1
  <2> QED
    BY <2>1, <2>2, <2>3, <2>4, <2>5, <2>6, <2>7, <2>8 DEF ApplyLeaves
<1>15. CASE ApplyFails(g)
  <2>0. pc[g] \in {"apply", "adapter"} /\ Goes(g, "undo")
    BY <1>15, ApplyMoves
  <2>1. Only({g} \union Workers) /\ \A u \in Workers : pc'[u] \in {pc[u], "watch"}
    BY <1>1, <2>0, Kinds DEF Moves, Goes, Only
  <2>2. UNCHANGED <<engine, connecting, shown, cancel, signals, last, rid, failed>>
    BY <1>15 DEF ApplyFails, engine, page
  <2>3. gate' = None \/ UNCHANGED <<gate, requested>>
    BY <1>15 DEF ApplyFails, page
  <2>4. /\ pc'[g] = "recover" \/ file' = "stale" => file = "stale"
        /\ gateway => gateway'
    BY <1>15, <1>1, <2>0 DEF ApplyFails, Moves, Goes, At
  <2>5. /\ pc[g] \notin Starting => UNCHANGED <<file, gateway, manager>>
        /\ pc[g] = "ready" => UNCHANGED <<file, gateway>> /\ (gate = g \/ UNCHANGED manager)
    BY <1>15, <2>0 DEF ApplyFails, locks, Starting
  <2>6. smooth' => smooth /\ (file' = "own" => file = "own" \/ gateway')
    BY <1>15 DEF ApplyFails, Restores, RestoreFails, budget
  <2>7. \A u \in Threads \ {g} : seen'[u] = seen[u]
    BY <1>15 DEF ApplyFails, Carried
  <2>8. pc'[g] \notin {"begin", "join", "end", "lease"}
    BY <2>0 DEF Moves, Goes, At
  <2> QED
    BY <2>1, <2>2, <2>3, <2>4, <2>5, <2>6, <2>7, <2>8 DEF ApplyLeaves
<1>16. CASE UndoLease(g)
  <2>0. pc[g] = "undo" /\ Goes(g, "applied")
    BY <1>16, ApplyMoves
  <2>1. Only({g} \union Workers) /\ \A u \in Workers : pc'[u] \in {pc[u], "watch"}
    BY <1>1, <2>0, Kinds DEF Moves, Goes, Only
  <2>2. UNCHANGED <<engine, connecting, shown, cancel, signals, last, rid, failed>>
    BY <1>16 DEF UndoLease, engine, page, local
  <2>3. gate' = None \/ UNCHANGED <<gate, requested>>
    BY <1>16 DEF UndoLease, page
  <2>4. /\ pc'[g] = "recover" \/ file' = "stale" => file = "stale"
        /\ gateway => gateway'
    BY <1>16, <1>1, <2>0 DEF UndoLease, gw, Moves, Goes, At
  <2>5. /\ pc[g] \notin Starting => UNCHANGED <<file, gateway, manager>>
        /\ pc[g] = "ready" => UNCHANGED <<file, gateway>> /\ (gate = g \/ UNCHANGED manager)
    BY <1>16, <2>0 DEF UndoLease, Raise, gw, Starting
  <2>6. smooth' => smooth /\ (file' = "own" => file = "own" \/ gateway')
    BY <1>16 DEF UndoLease, gw, budget
  <2>7. \A u \in Threads \ {g} : seen'[u] = seen[u]
    BY <1>16 DEF UndoLease, local, Carried
  <2>8. pc'[g] \notin {"begin", "join", "end", "lease"}
    BY <2>0 DEF Moves, Goes, At
  <2> QED
    BY <2>1, <2>2, <2>3, <2>4, <2>5, <2>6, <2>7, <2>8 DEF ApplyLeaves
<1>17. CASE StartedStale(g)
  <2>0. pc[g] = "started" /\ Moves(g, "serial", "applied", after[g])
    BY <1>17, ApplyMoves
  <2>1. Only({g} \union Workers) /\ \A u \in Workers : pc'[u] \in {pc[u], "watch"}
    BY <1>1, <2>0, Kinds DEF Moves, Goes, Only
  <2>2. UNCHANGED <<engine, connecting, shown, cancel, signals, last, rid, failed>>
    BY <1>17 DEF StartedStale, engine, page
  <2>3. gate' = None \/ UNCHANGED <<gate, requested>>
    BY <1>17 DEF StartedStale, page
  <2>4. /\ pc'[g] = "recover" \/ file' = "stale" => file = "stale"
        /\ gateway => gateway'
    BY <1>17, <1>1, <2>0 DEF StartedStale, gw, Moves, Goes, At
  <2>5. /\ pc[g] \notin Starting => UNCHANGED <<file, gateway, manager>>
        /\ pc[g] = "ready" => UNCHANGED <<file, gateway>> /\ (gate = g \/ UNCHANGED manager)
    BY <1>17, <2>0 DEF StartedStale, locks, gw, Starting
  <2>6. smooth' => smooth /\ (file' = "own" => file = "own" \/ gateway')
    BY <1>17 DEF StartedStale, gw, budget
  <2>7. \A u \in Threads \ {g} : seen'[u] = seen[u]
    BY <1>17 DEF StartedStale, Carried
  <2>8. pc'[g] \notin {"begin", "join", "end", "lease"}
    BY <2>0 DEF Moves, Goes, At
  <2> QED
    BY <2>1, <2>2, <2>3, <2>4, <2>5, <2>6, <2>7, <2>8 DEF ApplyLeaves
<1>18. CASE Started(g)
  <2>0. pc[g] = "started" /\ Goes(g, "current")
    BY <1>18, ApplyMoves
  <2>1. Only({g} \union Workers) /\ \A u \in Workers : pc'[u] \in {pc[u], "watch"}
    BY <1>1, <2>0, Kinds DEF Moves, Goes, Only
  <2>2. UNCHANGED <<engine, connecting, shown, cancel, signals, last, rid, failed>>
    BY <1>18 DEF Started, engine, page, local
  <2>3. gate' = None \/ UNCHANGED <<gate, requested>>
    BY <1>18 DEF Started, page
  <2>4. /\ pc'[g] = "recover" \/ file' = "stale" => file = "stale"
        /\ gateway => gateway'
    BY <1>18, <1>1, <2>0 DEF Started, gw, Moves, Goes, At
  <2>5. /\ pc[g] \notin Starting => UNCHANGED <<file, gateway, manager>>
        /\ pc[g] = "ready" => UNCHANGED <<file, gateway>> /\ (gate = g \/ UNCHANGED manager)
    BY <1>18, <2>0 DEF Started, locks, gw, Starting
  <2>6. smooth' => smooth /\ (file' = "own" => file = "own" \/ gateway')
    BY <1>18 DEF Started, gw, budget
  <2>7. \A u \in Threads \ {g} : seen'[u] = seen[u]
    BY <1>18 DEF Started, local, Carried
  <2>8. pc'[g] \notin {"begin", "join", "end", "lease"}
    BY <2>0 DEF Moves, Goes, At
  <2> QED
    BY <2>1, <2>2, <2>3, <2>4, <2>5, <2>6, <2>7, <2>8 DEF ApplyLeaves
<1>19. CASE StillCurrent(g)
  <2>0. /\ pc[g] = "current"
        /\ \/ Goes(g, "applied")
           \/ Goes(g, "drop")
    BY <1>19, ApplyMoves
  <2>1. Only({g} \union Workers) /\ \A u \in Workers : pc'[u] \in {pc[u], "watch"}
    BY <1>1, <2>0, Kinds DEF Moves, Goes, Only
  <2>2. UNCHANGED <<engine, connecting, shown, cancel, signals, last, rid, failed>>
    BY <1>19 DEF StillCurrent, engine, page, local
  <2>3. gate' = None \/ UNCHANGED <<gate, requested>>
    BY <1>19 DEF StillCurrent, page
  <2>4. /\ pc'[g] = "recover" \/ file' = "stale" => file = "stale"
        /\ gateway => gateway'
    BY <1>19, <1>1, <2>0 DEF StillCurrent, gw, Moves, Goes, At
  <2>5. /\ pc[g] \notin Starting => UNCHANGED <<file, gateway, manager>>
        /\ pc[g] = "ready" => UNCHANGED <<file, gateway>> /\ (gate = g \/ UNCHANGED manager)
    BY <1>19, <2>0 DEF StillCurrent, locks, gw, Starting
  <2>6. smooth' => smooth /\ (file' = "own" => file = "own" \/ gateway')
    BY <1>19 DEF StillCurrent, gw, budget
  <2>7. \A u \in Threads \ {g} : seen'[u] = seen[u]
    BY <1>19 DEF StillCurrent, local, Carried
  <2>8. pc'[g] \notin {"begin", "join", "end", "lease"}
    BY <2>0 DEF Moves, Goes, At
  <2> QED
    BY <2>1, <2>2, <2>3, <2>4, <2>5, <2>6, <2>7, <2>8 DEF ApplyLeaves
<1>20. CASE ApplyOff(g)
  <2>0. pc[g] = "queued off" /\ Goes(g, "check off")
    BY <1>20, ApplyMoves
  <2>1. Only({g} \union Workers) /\ \A u \in Workers : pc'[u] \in {pc[u], "watch"}
    BY <1>1, <2>0, Kinds DEF Moves, Goes, Only
  <2>2. UNCHANGED <<engine, connecting, shown, cancel, signals, last, rid, failed>>
    BY <1>20 DEF ApplyOff, engine, page, local
  <2>3. gate' = None \/ UNCHANGED <<gate, requested>>
    BY <1>20 DEF ApplyOff, page
  <2>4. /\ pc'[g] = "recover" \/ file' = "stale" => file = "stale"
        /\ gateway => gateway'
    BY <1>20, <1>1, <2>0 DEF ApplyOff, gw, Moves, Goes, At
  <2>5. /\ pc[g] \notin Starting => UNCHANGED <<file, gateway, manager>>
        /\ pc[g] = "ready" => UNCHANGED <<file, gateway>> /\ (gate = g \/ UNCHANGED manager)
    BY <1>20, <2>0 DEF ApplyOff, gw, Starting
  <2>6. smooth' => smooth /\ (file' = "own" => file = "own" \/ gateway')
    BY <1>20 DEF ApplyOff, gw, budget
  <2>7. \A u \in Threads \ {g} : seen'[u] = seen[u]
    BY <1>20 DEF ApplyOff, local, Carried
  <2>8. pc'[g] \notin {"begin", "join", "end", "lease"}
    BY <2>0 DEF Moves, Goes, At
  <2> QED
    BY <2>1, <2>2, <2>3, <2>4, <2>5, <2>6, <2>7, <2>8 DEF ApplyLeaves
<1>21. CASE CheckOff(g)
  <2>0. /\ pc[g] \in {"check off", "drop"}
        /\ \/ Moves(g, "serial", "leave", after[g])
           \/ Goes(g, "leave")
           \/ Moves(g, "serial", "disabled", after[g])
           \/ Goes(g, "disabled")
    BY <1>21, ApplyMoves
  <2>1. Only({g} \union Workers) /\ \A u \in Workers : pc'[u] \in {pc[u], "watch"}
    BY <1>1, <2>0, Kinds DEF Moves, Goes, Only
  <2>2. UNCHANGED <<engine, connecting, shown, cancel, signals, last, rid, failed>>
    BY <1>21 DEF CheckOff, engine, page
  <2>3. gate' = None \/ UNCHANGED <<gate, requested>>
    BY <1>21 DEF CheckOff, page
  <2>4. /\ pc'[g] = "recover" \/ file' = "stale" => file = "stale"
        /\ gateway => gateway'
    BY <1>21, <1>1, <2>0 DEF CheckOff, gw, Moves, Goes, At
  <2>5. /\ pc[g] \notin Starting => UNCHANGED <<file, gateway, manager>>
        /\ pc[g] = "ready" => UNCHANGED <<file, gateway>> /\ (gate = g \/ UNCHANGED manager)
    BY <1>21, <2>0 DEF CheckOff, locks, gw, Starting
  <2>6. smooth' => smooth /\ (file' = "own" => file = "own" \/ gateway')
    BY <1>21 DEF CheckOff, gw, budget
  <2>7. \A u \in Threads \ {g} : seen'[u] = seen[u]
    BY <1>21 DEF CheckOff, Carried
  <2>8. pc'[g] \notin {"begin", "join", "end", "lease"}
    BY <2>0 DEF Moves, Goes, At
  <2> QED
    BY <2>1, <2>2, <2>3, <2>4, <2>5, <2>6, <2>7, <2>8 DEF ApplyLeaves
<1>22. CASE ApplyEnds(g)
  <2>0. pc[g] \in {"applied", "disabled", "leave"} /\ Goes(g, "done")
    BY <1>22, ApplyMoves
  <2>1. Only({g} \union Workers) /\ \A u \in Workers : pc'[u] \in {pc[u], "watch"}
    BY <1>1, <2>0, Kinds DEF Moves, Goes, Only
  <2>2. UNCHANGED <<engine, connecting, shown, cancel, signals, last, rid, failed>>
    BY <1>22 DEF ApplyEnds, engine, local
  <2>3. gate' = None \/ UNCHANGED <<gate, requested>>
    BY <1>22 DEF ApplyEnds
  <2>4. /\ pc'[g] = "recover" \/ file' = "stale" => file = "stale"
        /\ gateway => gateway'
    BY <1>22, <1>1, <2>0 DEF ApplyEnds, gw, Moves, Goes, At
  <2>5. /\ pc[g] \notin Starting => UNCHANGED <<file, gateway, manager>>
        /\ pc[g] = "ready" => UNCHANGED <<file, gateway>> /\ (gate = g \/ UNCHANGED manager)
    BY <1>22, <2>0 DEF ApplyEnds, gw, Starting
  <2>6. smooth' => smooth /\ (file' = "own" => file = "own" \/ gateway')
    BY <1>22 DEF ApplyEnds, gw, budget
  <2>7. \A u \in Threads \ {g} : seen'[u] = seen[u]
    BY <1>22 DEF ApplyEnds, local, Carried
  <2>8. pc'[g] \notin {"begin", "join", "end", "lease"}
    BY <2>0 DEF Moves, Goes, At
  <2> QED
    BY <2>1, <2>2, <2>3, <2>4, <2>5, <2>6, <2>7, <2>8 DEF ApplyLeaves
<1> QED
  BY <1>2, <1>3, <1>4, <1>5, <1>6, <1>7, <1>8, <1>9, <1>10, <1>11, <1>12, <1>13, <1>14, <1>15,
     <1>16, <1>17, <1>18, <1>19, <1>20, <1>21, <1>22
     DEF ApplyMode

\* Every step of a connect is one of these.
LEMMA AttemptSteps ==
  ASSUME Placed, Carried, Spent, Posted, Post, NEW t \in Threads, Attempt(t)
  PROVE  t = Connector /\ AttemptLeaves
<1>1. CASE StartEngine(t)
  <2>1. pc[t] = "start" /\ t = Connector /\ Moves(t, "serial", "body", "spawn")
    BY <1>1, EngineMoves
  <2>2. t = Connector
    BY <2>1 DEF Post, Seated, Fits
  <2>3. /\ UNCHANGED <<gw, shown, cancel, requested, gate, last, seen, failed, serial, manager>>
        /\ UNCHANGED smooth
    BY <1>1 DEF StartEngine, gw, page, budget
  <2>5. UNCHANGED <<runId, active, xray>> \/ (active' /\ xray')
    BY <1>1 DEF StartEngine, engine
  <2>6. \A u \in Threads \ {Connector} : rid'[u] = rid[u]
    BY <1>1, <2>2 DEF StartEngine, Carried
  <2>7. UNCHANGED <<connecting, signals>>
    BY <1>1 DEF StartEngine, page
  <2> QED
    BY <2>1, <2>2, <2>3, <2>5, <2>6, <2>7 DEF AttemptLeaves, Moves, Goes, At
<1>2. CASE Spawn(t)
  <2>1. pc[t] = "spawn" /\ Goes(t, "probe")
    BY <1>2, EngineMoves
  <2>2. t = Connector
    BY <2>1 DEF Post, Seated, Fits
  <2>3. /\ UNCHANGED <<gw, shown, cancel, requested, gate, last, seen, failed, serial, manager>>
        /\ UNCHANGED smooth
    BY <1>2 DEF Spawn, gw, page, budget
  <2>5. UNCHANGED <<runId, active, xray>> \/ (active' /\ xray')
    BY <1>2 DEF Spawn
  <2>6. \A u \in Threads \ {Connector} : rid'[u] = rid[u]
    BY <1>2, <2>2 DEF Spawn, Carried
  <2>7. UNCHANGED <<connecting, signals>>
    BY <1>2 DEF Spawn, page
  <2> QED
    BY <2>1, <2>2, <2>3, <2>5, <2>6, <2>7 DEF AttemptLeaves, Moves, Goes, At
<1>3. CASE SpawnFails(t)
  <2>1. pc[t] = "spawn" /\ Moves(t, "serial", "body", "failed")
    BY <1>3, EngineMoves
  <2>2. t = Connector
    BY <2>1 DEF Post, Seated, Fits
  <2>3. /\ UNCHANGED <<gw, shown, cancel, requested, gate, last, seen, failed, serial, manager>>
        /\ UNCHANGED smooth
    BY <1>3 DEF SpawnFails, locks, gw, page, budget
  <2>5. UNCHANGED <<runId, active, xray>> \/ (active' /\ xray')
    BY <1>3 DEF SpawnFails, engine
  <2>6. \A u \in Threads \ {Connector} : rid'[u] = rid[u]
    BY <1>3, <2>2 DEF SpawnFails, Carried
  <2>7. UNCHANGED <<connecting, signals>>
    BY <1>3 DEF SpawnFails, page
  <2> QED
    BY <2>1, <2>2, <2>3, <2>5, <2>6, <2>7 DEF AttemptLeaves, Moves, Goes, At
<1>4. CASE AttemptCancelled(t)
  <2>1. pc[t] \in {"start", "failed", "probe"} /\ Goes(t, "idle")
    BY <1>4, EngineMoves
  <2>2. t = Connector
    BY <2>1 DEF Post, Seated, Fits
  <2>3. /\ UNCHANGED <<gw, shown, cancel, requested, gate, last, seen, failed, serial, manager>>
        /\ UNCHANGED smooth
    BY <1>4 DEF AttemptCancelled, locks, gw, page, local, budget
  <2>5. UNCHANGED <<runId, active, xray>> \/ (active' /\ xray')
    BY <1>4 DEF AttemptCancelled, engine
  <2>6. \A u \in Threads \ {Connector} : rid'[u] = rid[u]
    BY <1>4, <2>2 DEF AttemptCancelled, local, Carried
  <2>7. UNCHANGED <<connecting, signals>>
    BY <1>4 DEF AttemptCancelled, page
  <2> QED
    BY <2>1, <2>2, <2>3, <2>5, <2>6, <2>7 DEF AttemptLeaves, Moves, Goes, At
<1>5. CASE AttemptFails(t)
  <2>1. /\ pc[t] \in {"failed", "probe"}
        /\ \/ Moves(t, "serial", "lock", "start")
           \/ Moves(t, "serial", "lock", "give up")
    BY <1>5, EngineMoves
  <2>2. t = Connector
    BY <2>1 DEF Post, Seated, Fits
  <2>3. /\ UNCHANGED <<gw, shown, cancel, requested, gate, last, seen, failed, serial, manager>>
        /\ UNCHANGED smooth
    BY <1>5 DEF AttemptFails, NextRun, budget, locks, gw, page
  <2>5. UNCHANGED <<runId, active, xray>> \/ (active' /\ xray')
    BY <1>5 DEF AttemptFails, engine
  <2>6. \A u \in Threads \ {Connector} : rid'[u] = rid[u]
    BY <1>5, <2>2 DEF AttemptFails, Carried
  <2>7. UNCHANGED <<connecting, signals>>
    BY <1>5 DEF AttemptFails, page
  <2> QED
    BY <2>1, <2>2, <2>3, <2>5, <2>6, <2>7 DEF AttemptLeaves, Moves, Goes, At
<1>6. CASE GiveUp(t)
  <2>1. /\ pc[t] = "give up"
        /\ \/ Goes(t, "idle")
           \/ Moves(t, "serial", "lock", "idle")
    BY <1>6, EngineMoves
  <2>2. t = Connector
    BY <2>1 DEF Post, Seated, Fits
  <2>3. /\ UNCHANGED <<gw, shown, cancel, requested, gate, last, seen, failed, serial, manager>>
        /\ UNCHANGED smooth
    BY <1>6 DEF GiveUp, locks, gw, budget
  <2>5. UNCHANGED <<runId, active, xray>> \/ (active' /\ xray')
    BY <1>6 DEF GiveUp, engine
  <2>6. \A u \in Threads \ {Connector} : rid'[u] = rid[u]
    BY <1>6, <2>2 DEF GiveUp, Carried
  <2>7. pc'[Connector] # "idle" /\ ~cancel => GivenUp' \/ UNCHANGED <<connecting, signals>>
    BY <2>1, <2>2 DEF Moves, Goes, At, GivenUp, InStop, Stopping
  <2> QED
    BY <2>1, <2>2, <2>3, <2>5, <2>6, <2>7 DEF AttemptLeaves, Moves, Goes, At
<1>7. CASE AttemptSucceeds(t)
  <2>1. /\ pc[t] = "probe"
        /\ \/ Goes(t, "idle")
           \/ Goes(t, "tun on")
    BY <1>7, EngineMoves
  <2>2. t = Connector
    BY <2>1 DEF Post, Seated, Fits
  <2>3. /\ UNCHANGED <<gw, shown, cancel, requested, gate, last, seen, failed, serial, manager>>
        /\ UNCHANGED smooth
    BY <1>7 DEF AttemptSucceeds, locks, gw, local, budget
  <2>5. UNCHANGED <<runId, active, xray>> \/ (active' /\ xray')
    BY <1>7 DEF AttemptSucceeds, engine
  <2>6. \A u \in Threads \ {Connector} : rid'[u] = rid[u]
    BY <1>7, <2>2 DEF AttemptSucceeds, local, Carried
  <2>7. pc'[Connector] # "idle" => UNCHANGED <<connecting, signals>>
    BY <1>7, <2>2, Kinds DEF AttemptSucceeds, Go, Placed
  <2> QED
    BY <2>1, <2>2, <2>3, <2>5, <2>6, <2>7 DEF AttemptLeaves, Moves, Goes, At
<1> QED
  BY <1>1, <1>2, <1>3, <1>4, <1>5, <1>6, <1>7 DEF Attempt

\* A gateway-mode thread that the page waits for stays on its track.
LEMMA ApplyTrack ==
  ASSUME Placed, Carried, NEW g \in Applies, ApplyMode(g), gate = g, gate' = g
  PROVE  /\ Off(g) => Off(g)'
         /\ pc[g] \in Track /\ Current(g) => pc'[g] \in Track
<1> USE DEF Track, OnPath, Starting, Off, Stopping
<1>1. g \in Threads /\ g # None
  BY Kinds
<1>2. CASE Overtaken(g)
  <2>1. pc[g] = "queued on" /\ ~Current(g)
    BY <1>2 DEF Overtaken
  <2> QED
    BY <2>1
<1>3. CASE ApplyOn(g)
  <2>1. pc[g] = "queued on" /\ Goes(g, "check on")
    BY <1>3, ApplyMoves
  <2> QED
    BY <2>1 DEF Moves, Goes, At
<1>4. CASE CheckOn(g)
  <2>1. /\ pc[g] = "check on"
        /\ \/ Goes(g, "ready")
           \/ Goes(g, "applied")
    BY <1>4, ApplyMoves
  <2> QED
    BY <2>1 DEF Moves, Goes, At
<1>5. CASE StartReturns(g)
  <2>1. /\ pc[g] = "ready"
        /\ \/ Goes(g, "started")
           \/ Goes(g, "applied")
    BY <1>5, ApplyMoves
  <2> QED
    BY <2>1 DEF Moves, Goes, At
<1>6. CASE StartGateway(g)
  <2>1. /\ pc[g] = "ready"
        /\ \/ Goes(g, "detect")
           \/ Goes(g, "recover")
    BY <1>6, ApplyMoves
  <2> QED
    BY <2>1 DEF Moves, Goes, At
<1>7. CASE Recover(g)
  <2>1. /\ pc[g] = "recover"
        /\ \/ Goes(g, "detect") /\ manager' = manager
           \/ Goes(g, "applied") /\ manager' = None
    BY <1>7, ApplyMoves
  <2> QED
    BY <2>1 DEF Moves, Goes, At
<1>8. CASE Detect(g)
  <2>1. /\ pc[g] = "detect"
        /\ \/ Goes(g, "acquire") /\ manager' = manager
           \/ Goes(g, "applied") /\ manager' = None
    BY <1>8, ApplyMoves
  <2> QED
    BY <2>1 DEF Moves, Goes, At
<1>9. CASE Acquire(g)
  <2>1. pc[g] = "acquire" /\ Goes(g, "adapter")
    BY <1>9, ApplyMoves
  <2> QED
    BY <2>1 DEF Moves, Goes, At
<1>10. CASE AcquireRaises(g)
  <2>1. pc[g] = "acquire" /\ Goes(g, "applied")
    BY <1>10, ApplyMoves
  <2> QED
    BY <2>1 DEF Moves, Goes, At
<1>11. CASE AdapterUp(g)
  <2>1. pc[g] = "adapter" /\ Goes(g, "apply")
    BY <1>11, ApplyMoves
  <2> QED
    BY <2>1 DEF Moves, Goes, At
<1>12. CASE AdapterMissing(g)
  <2>1. pc[g] = "adapter" /\ Goes(g, "return")
    BY <1>12, ApplyMoves
  <2> QED
    BY <2>1 DEF Moves, Goes, At
<1>13. CASE ReturnLease(g)
  <2>1. /\ pc[g] = "return"
        /\ \/ Goes(g, "detect") /\ manager' = manager
           \/ Goes(g, "applied") /\ manager' = None
           \/ Goes(g, "undo") /\ manager' = manager
    BY <1>13, ApplyMoves
  <2> QED
    BY <2>1 DEF Moves, Goes, At
<1>14. CASE ApplyGateway(g)
  <2>1. pc[g] = "apply" /\ pc'[g] = "started"
    BY <1>14, ApplyMoves DEF At
  <2> QED
    BY <2>1
<1>15. CASE ApplyFails(g)
  <2>1. pc[g] \in {"apply", "adapter"} /\ Goes(g, "undo")
    BY <1>15, ApplyMoves
  <2> QED
    BY <2>1 DEF Moves, Goes, At
<1>16. CASE UndoLease(g)
  <2>1. pc[g] = "undo" /\ Goes(g, "applied")
    BY <1>16, ApplyMoves
  <2> QED
    BY <2>1 DEF Moves, Goes, At
<1>17. CASE StartedStale(g)
  <2>1. pc[g] = "started" /\ ~Current(g)
    BY <1>17 DEF StartedStale, Granted, Current
  <2> QED
    BY <2>1
<1>18. CASE Started(g)
  <2>1. pc[g] = "started" /\ Goes(g, "current")
    BY <1>18, ApplyMoves
  <2> QED
    BY <2>1 DEF Moves, Goes, At
<1>19. CASE StillCurrent(g)
  <2>1. pc[g] = "current" /\ pc'[g] = (IF Current(g) THEN "applied" ELSE "drop")
    BY <1>19, <1>1 DEF StillCurrent, Go, Placed
  <2> QED
    BY <2>1
<1>20. CASE ApplyOff(g)
  <2>1. pc[g] = "queued off" /\ Goes(g, "check off")
    BY <1>20, ApplyMoves
  <2> QED
    BY <2>1 DEF Moves, Goes, At
<1>21. CASE CheckOff(g)
  <2>1. /\ pc[g] = "drop" \/ pc[g] = "check off"
        /\ pc[g] = "check off" => \/ pc'[g] = "serial" /\ back'[g] = "disabled"
                                 \/ pc'[g] = "disabled"
    BY <1>21, <1>1 DEF CheckOff, CallStop, Go, Placed, Carried
  <2> QED
    BY <2>1
<1>22. CASE ApplyEnds(g)
  <2>1. /\ pc[g] \in {"applied", "disabled", "leave"}
        /\ pc[g] = "applied" => ~Current(g)
        /\ pc[g] # "disabled"
    BY <1>22, <1>1 DEF ApplyEnds
  <2> QED
    BY <2>1
<1> QED
  BY <1>2, <1>3, <1>4, <1>5, <1>6, <1>7, <1>8, <1>9, <1>10, <1>11, <1>12, <1>13, <1>14, <1>15,
     <1>16, <1>17, <1>18, <1>19, <1>20, <1>21, <1>22
     DEF ApplyMode

\* A step of threads that are none of the gateway mode's.
LEMMA GateElsewhere ==
  ASSUME GateInv, NEW M, Only(M), \A g \in Applies : g \notin M,
         gate' \in {gate, None}, shown => shown'
  PROVE  GateInv'
<1> SUFFICES ASSUME NEW g \in Applies, gate' = g, ~shown' PROVE Off(g)'
  BY DEF GateInv
<1>1. pc'[g] = pc[g] /\ back'[g] = back[g] /\ gate = g
  BY Kinds DEF Only
<1> QED
  BY <1>1 DEF GateInv, Off

\* Every step keeps GateInv.
LEMMA GateNext == Typed /\ Post /\ GateInv /\ [Next]_vars => GateInv'
<1> SUFFICES ASSUME Typed, Post, GateInv, [Next]_vars PROVE GateInv'
  OBVIOUS
<1>ty. Placed /\ Carried /\ Posted /\ Spent
  BY DEF Typed
<1>df. \A M : M \subseteq Threads \ Applies => \A g \in Applies : g \notin M
  OBVIOUS
<1>st. CASE UNCHANGED vars
  BY <1>st DEF vars, page, local, GateInv, Off
<1>1. ASSUME NEW t \in Threads, StopGateway(t) PROVE GateInv'
  <2>1. StopLeaves(t)
    BY <1>1, <1>ty, StopSteps
  <2>2. UNCHANGED <<gate, shown>>
    BY <2>1 DEF StopLeaves, page
  <2> SUFFICES ASSUME NEW g \in Applies, gate' = g, ~shown' PROVE Off(g)'
    BY DEF GateInv
  <2>3. Off(g)
    BY <2>2 DEF GateInv
  <2>4. CASE g # t
    BY <2>1, <2>3, <2>4, Kinds DEF StopLeaves, Only, Off
  <2>5. CASE g = t
    BY <2>1, <2>3, <2>5 DEF StopLeaves, Off, Stopping
  <2> QED
    BY <2>4, <2>5
<1>2. ASSUME NEW t \in Threads, EngineLock(t) PROVE GateInv'
  <2>1. Only({t}) /\ InStop(pc[t], back[t])
    BY <1>2, <1>ty, EngineMoves DEF Moves, InStop
  <2>2. t \in {UI, Connector, XrayLog, TunLog}
    BY <2>1 DEF Post, Seated, Fits
  <2>3. UNCHANGED <<gate, shown>>
    BY <1>2 DEF EngineLock, page
  <2> QED
    BY <2>1, <2>2, <2>3, Differ, GateElsewhere
<1>3. ASSUME NEW t \in Threads, StopLocked(t) PROVE GateInv'
  <2>1. Only({t}) /\ InStop(pc[t], back[t])
    BY <1>3, <1>ty, EngineMoves DEF Moves, InStop
  <2>2. t \in {UI, Connector, XrayLog, TunLog}
    BY <2>1 DEF Post, Seated, Fits
  <2>3. UNCHANGED <<gate, shown>>
    BY <1>3 DEF StopLocked
  <2> QED
    BY <2>1, <2>2, <2>3, Differ, GateElsewhere
<1>4. ASSUME NEW t \in Threads, Attempt(t) PROVE GateInv'
  <2>1. AttemptLeaves
    BY <1>4, <1>ty, AttemptSteps
  <2> QED
    BY <2>1, Differ, GateElsewhere DEF AttemptLeaves
<1>5. ASSUME NEW t \in Threads, Device(t) PROVE GateInv'
  <2>1. Only({t}) /\ t \in {Connector, Mode}
    BY <1>5, <1>ty, EngineMoves
       DEF Device, Moves, Goes, TunOn, TunRefused, TunOff, Post, Seated, Fits
  <2>2. UNCHANGED <<gate, shown>>
    BY <1>5 DEF Device, TunOn, TunRefused, TunOff, page
  <2> QED
    BY <2>1, <2>2, Differ, GateElsewhere
<1>6. ASSUME NEW t \in Threads, XrayLogEnds(t) PROVE GateInv'
  <2>1. Only({t}) /\ t \in {XrayLog, TunLog}
    BY <1>6, <1>ty, EngineMoves DEF Moves, Goes, XrayLogEnds
  <2>2. UNCHANGED <<gate, shown>>
    BY <1>6 DEF XrayLogEnds, page
  <2> QED
    BY <2>1, <2>2, Differ, GateElsewhere
<1>7. ASSUME NEW t \in Threads, TunLogEnds(t) PROVE GateInv'
  <2>1. Only({t}) /\ t \in {XrayLog, TunLog}
    BY <1>7, <1>ty, EngineMoves DEF Moves, Goes, TunLogEnds
  <2>2. UNCHANGED <<gate, shown>>
    BY <1>7 DEF TunLogEnds, page
  <2> QED
    BY <2>1, <2>2, Differ, GateElsewhere
<1>8. ASSUME NEW g \in Applies, ApplyMode(g) PROVE GateInv'
  <2>1. ApplyLeaves(g)
    BY <1>8, <1>ty, ApplySteps
  <2> SUFFICES ASSUME NEW u \in Applies, gate' = u, ~shown' PROVE Off(u)'
    BY DEF GateInv
  <2>2. gate = u /\ ~shown
    BY <2>1, Kinds DEF ApplyLeaves
  <2>3. Off(u)
    BY <2>2 DEF GateInv
  <2>4. CASE u # g
    <3>1. pc'[u] = pc[u] /\ back'[u] = back[u]
      BY <2>1, <2>4, Kinds, Differ DEF ApplyLeaves, Only
    <3> QED
      BY <2>3, <3>1 DEF Off
  <2>5. CASE u = g
    BY <1>8, <1>ty, <2>2, <2>3, <2>5, ApplyTrack
  <2> QED
    BY <2>4, <2>5
<1>9. ASSUME NEW g \in Applies, Disconnect(g) PROVE GateInv'
  <2>1. gate' = None \/ (gate' = g /\ pc'[g] = "queued off")
    BY <1>9, <1>ty, Kinds, Differ DEF Disconnect, ResetGateway, Placed
  <2> QED
    BY <2>1, Kinds DEF GateInv, Off
<1>10. ASSUME NEW g \in Applies, StateOff(g) PROVE GateInv'
  <2>1. gate' = None \/ (gate' = g /\ pc'[g] = "queued off")
    BY <1>10, <1>ty, Kinds, Differ DEF StateOff, ResetGateway, Placed
  <2> QED
    BY <2>1, Kinds DEF GateInv, Off
<1>11. ASSUME NEW g \in Applies, QueueOn(g) PROVE GateInv'
  <2>1. shown'
    BY <1>11 DEF QueueOn
  <2> QED
    BY <2>1 DEF GateInv
<1>12. ASSUME NEW g \in Applies, GatewayOff(g) PROVE GateInv'
  <2>1. gate' = g /\ pc'[g] = "queued off"
    BY <1>12, <1>ty, Kinds DEF GatewayOff, Go, Placed
  <2> QED
    BY <2>1, Kinds DEF GateInv, Off
<1>13. ASSUME NEW w \in Workers, WorkerOffline(w) PROVE GateInv'
  <2>1. Only({w})
    BY <1>13, <1>ty, PageMoves DEF Moves, Goes
  <2>2. UNCHANGED <<gate, shown>>
    BY <1>13 DEF WorkerOffline, page
  <2> QED
    BY <2>1, <2>2, Differ, GateElsewhere
<1>14. ASSUME NEW w \in Workers, WorkerEnds(w) PROVE GateInv'
  <2>1. Only({w})
    BY <1>14, <1>ty, PageMoves DEF Moves, Goes
  <2>2. UNCHANGED <<gate, shown>>
    BY <1>14 DEF WorkerEnds
  <2> QED
    BY <2>1, <2>2, Differ, GateElsewhere
<1>15. CASE Connect
  <2>1. Only({Connector})
    BY <1>15, <1>ty, PageMoves DEF Moves, Goes
  <2>2. UNCHANGED <<gate, shown>>
    BY <1>15 DEF Connect
  <2> QED
    BY <2>1, <2>2, Differ, GateElsewhere
<1>16. CASE SwitchProfile
  <2>1. Only({UI})
    BY <1>16, <1>ty, PageMoves DEF Moves, Goes
  <2>2. UNCHANGED <<gate, shown>>
    BY <1>16 DEF SwitchProfile
  <2> QED
    BY <2>1, <2>2, Differ, GateElsewhere
<1>17. CASE StateOn
  <2>1. shown'
    BY <1>17 DEF StateOn
  <2> QED
    BY <2>1 DEF GateInv
<1>18. CASE GatewayOn
  <2>1. UNCHANGED <<gate, shown, pc, back>>
    BY <1>18 DEF GatewayOn, local
  <2> QED
    BY <2>1 DEF GateInv, Off
<1>19. CASE SwitchTun
  <2>1. Only({Mode})
    BY <1>19, <1>ty, PageMoves DEF Moves, Goes
  <2>2. UNCHANGED <<gate, shown>>
    BY <1>19 DEF SwitchTun, page
  <2> QED
    BY <2>1, <2>2, Differ, GateElsewhere
<1>20. CASE XrayDies
  <2>1. Only({XrayLog})
    BY <1>20, <1>ty, PageMoves DEF Moves, Goes
  <2>2. UNCHANGED <<gate, shown>>
    BY <1>20 DEF XrayDies, page
  <2> QED
    BY <2>1, <2>2, Differ, GateElsewhere
<1>21. CASE TunDies
  <2>1. Only({TunLog})
    BY <1>21, <1>ty, PageMoves DEF Moves, Goes
  <2>2. UNCHANGED <<gate, shown>>
    BY <1>21 DEF TunDies, page
  <2> QED
    BY <2>1, <2>2, Differ, GateElsewhere
<1> QED
  BY <1>st, <1>1, <1>2, <1>3, <1>4, <1>5, <1>6, <1>7, <1>8, <1>9, <1>10, <1>11, <1>12, <1>13,
     <1>14, <1>15, <1>16, <1>17, <1>18, <1>19, <1>20, <1>21
     DEF Next, Step, Clicks

\* Every step of the TUN mode is one of these.
LEMMA DeviceSteps ==
  ASSUME Placed, Carried, Post, NEW t \in Threads, Device(t)
  PROVE  DeviceLeaves(t)
<1>1. /\ UNCHANGED <<engine, gw, connecting, shown, cancel, requested, gate, last>>
      /\ UNCHANGED <<rid, seen, failed, serial, manager, smooth>>
  BY DEF Device, TunOn, TunRefused, TunOff, engine, gw, page, local, locks, budget
<1>2. pc[t] \in {"tun on", "tun off"} /\ Only({t}) /\ pc'[t] \in {"idle", "failed", "tun off"}
  <2>1. CASE TunOn(t)
    <3>1. /\ pc[t] = "tun on"
          /\ \/ Goes(t, "idle")
             \/ Goes(t, "failed") /\ t = Connector
             \/ Goes(t, "tun off") /\ t = Mode
      BY <2>1, EngineMoves
    <3> QED
      BY <3>1 DEF Moves, Goes, At
  <2>2. CASE TunRefused(t)
    <3>1. pc[t] = "tun on" /\ (Goes(t, "failed") \/ Goes(t, "idle"))
      BY <2>2, EngineMoves
    <3> QED
      BY <3>1 DEF Moves, Goes, At
  <2>3. CASE TunOff(t)
    <3>1. pc[t] = "tun off" /\ Goes(t, "idle")
      BY <2>3, EngineMoves
    <3> QED
      BY <3>1 DEF Moves, Goes, At
  <2> QED
    BY <2>1, <2>2, <2>3 DEF Device
<1>3. t \in {Connector, Mode}
  BY <1>2 DEF Post, Seated, Fits
<1>4. pc'[Connector] # "idle" => UNCHANGED signals
  <2>1. CASE TunOn(t)
    <3>1. pc'[t] = "idle" \/ signals' = signals
      BY <2>1 DEF TunOn, Go, Placed
    <3>2. t = Mode => signals' = signals
      BY <2>1, Differ DEF TunOn
    <3> QED
      BY <1>3, <3>1, <3>2
  <2>2. CASE TunRefused(t) \/ TunOff(t)
    BY <2>2 DEF TunRefused, TunOff, page
  <2> QED
    BY <2>1, <2>2 DEF Device
<1> QED
  BY <1>1, <1>2, <1>3, <1>4 DEF DeviceLeaves

\* A fault is not forgotten.
LEMMA SmoothBefore == Typed /\ Post /\ [Next]_vars /\ smooth' => smooth
<1> SUFFICES ASSUME Typed, Post, [Next]_vars, smooth' PROVE smooth
  OBVIOUS
<1>ty. Placed /\ Carried /\ Posted /\ Spent
  BY DEF Typed
<1>st. CASE UNCHANGED vars
  BY <1>st DEF vars, budget
<1>1. ASSUME NEW t \in Threads, StopGateway(t) PROVE smooth
  BY <1>1, <1>ty, StopSteps DEF StopLeaves
<1>2. ASSUME NEW t \in Threads, EngineLock(t) PROVE smooth
  BY <1>2 DEF EngineLock, budget
<1>3. ASSUME NEW t \in Threads, StopLocked(t) PROVE smooth
  BY <1>3 DEF StopLocked, budget
<1>4. ASSUME NEW t \in Threads, Attempt(t) PROVE smooth
  BY <1>4, <1>ty, AttemptSteps DEF AttemptLeaves
<1>5. ASSUME NEW t \in Threads, Device(t) PROVE smooth
  BY <1>5, <1>ty, DeviceSteps DEF DeviceLeaves
<1>6. ASSUME NEW t \in Threads, XrayLogEnds(t) PROVE smooth
  BY <1>6 DEF XrayLogEnds, budget
<1>7. ASSUME NEW t \in Threads, TunLogEnds(t) PROVE smooth
  BY <1>7 DEF TunLogEnds, budget
<1>8. ASSUME NEW g \in Applies, ApplyMode(g) PROVE smooth
  BY <1>8, <1>ty, ApplySteps DEF ApplyLeaves
<1>9. ASSUME NEW g \in Applies, Disconnect(g) PROVE smooth
  BY <1>9 DEF Disconnect, budget
<1>10. ASSUME NEW g \in Applies, StateOff(g) PROVE smooth
  BY <1>10 DEF StateOff, budget
<1>11. ASSUME NEW g \in Applies, QueueOn(g) PROVE smooth
  BY <1>11 DEF QueueOn, budget
<1>12. ASSUME NEW g \in Applies, GatewayOff(g) PROVE smooth
  BY <1>12 DEF GatewayOff, budget
<1>13. ASSUME NEW w \in Workers, WorkerOffline(w) PROVE smooth
  BY <1>13 DEF WorkerOffline, budget
<1>14. ASSUME NEW w \in Workers, WorkerEnds(w) PROVE smooth
  BY <1>14 DEF WorkerEnds, budget
<1>15. CASE Connect
  BY <1>15 DEF Connect, NextRun
<1>16. CASE SwitchProfile
  BY <1>16 DEF SwitchProfile
<1>17. CASE StateOn
  BY <1>17 DEF StateOn, budget
<1>18. CASE GatewayOn
  BY <1>18 DEF GatewayOn, budget
<1>19. CASE SwitchTun
  BY <1>19 DEF SwitchTun, budget
<1>20. CASE XrayDies
  BY <1>20 DEF XrayDies, Dies
<1>21. CASE TunDies
  BY <1>21 DEF TunDies, Dies
<1> QED
  BY <1>st, <1>1, <1>2, <1>3, <1>4, <1>5, <1>6, <1>7, <1>8, <1>9, <1>10, <1>11, <1>12, <1>13,
     <1>14, <1>15, <1>16, <1>17, <1>18, <1>19, <1>20, <1>21
     DEF Next, Step, Clicks

\* A step that ends without a fault is one of these.
LEMMA WithoutFault == Typed /\ Post /\ NoFaults /\ [Next]_vars /\ smooth' => Faultless
<1> SUFFICES ASSUME Typed, Post, NoFaults, [Next]_vars, smooth', ~Faultless PROVE FALSE
  OBVIOUS
<1>1. ASSUME NEW t \in Threads, XrayLogEnds(t) \/ TunLogEnds(t) PROVE FALSE
  BY <1>1 DEF XrayLogEnds, TunLogEnds, NoFaults
<1>2. XrayDies \/ TunDies \/ SwitchProfile => FALSE
  BY DEF XrayDies, TunDies, Dies, SwitchProfile
<1> QED
  BY <1>1, <1>2 DEF Next, Step, Clicks, Faultless

\* A thread that stops the engine, and a connect under way, hold the lifecycle lock or come
\* after the page's first stop: nothing is steady then.
LEMMA Busy ==
  ASSUME Carried, Post, NoFaults, Settled, NEW t \in Threads, pc[t] \in {"lock", "body"}
  PROVE  Calm /\ t \in {UI, Connector}
<1>1. t \in {UI, Connector}
  BY DEF Post, Seated, Fits, InStop, NoFaults
<1> QED
  BY <1>1 DEF Settled, Steady, FirstStop, Stopping

\* Only the holder of a lock is at the steps that need it.
LEMMA Alone ==
  ASSUME Post, NEW t \in Threads, NEW u \in Threads, u # t
  PROVE  /\ pc[t] \in Stopping \ {"serial"} => pc[u] \notin Stopping \ {"serial"}
         /\ manager = None \/ manager = t => pc[u] # "lease" /\ pc[u] \notin Starting \ {"ready"}
BY Kinds DEF Post, Seated, Holds, HoldsSerial, HoldsManager

\* NoFaults is kept.
LEMMA NoFaultsNext ==
  ASSUME Typed, Post, PageInv, NoFaults, Settled, OnTrack, Trying, Fresh, smooth', Faultless
  PROVE  NoFaults'
<1>ty. Placed /\ Carried /\ Posted /\ Spent /\ Ran /\ Held
  BY DEF Typed
<1>st. CASE UNCHANGED vars
  BY <1>st DEF vars, engine, gw, local, NoFaults
<1>1. ASSUME NEW t \in Threads, StopGateway(t) PROVE NoFaults'
  <2>1. StopLeaves(t)
    BY <1>1, <1>ty, StopSteps
  <2>2. Only({t}) /\ pc'[t] # "recover" /\ t \notin {XrayLog, TunLog}
    BY <1>ty, <2>1 DEF StopLeaves, NoFaults, Stopping, Carried
  <2>3. file' # "stale" /\ failed' = {} /\ (active' => xray')
    BY <2>1 DEF StopLeaves, NoFaults, engine
  <2> QED
    BY <2>2, <2>3, Kinds DEF Only, NoFaults
<1>2. ASSUME NEW t \in Threads, EngineLock(t) PROVE NoFaults'
  <2>1. t \in {UI, Connector}
    BY <1>2, <1>ty, Busy DEF EngineLock
  <2>2. Only({t}) /\ pc'[t] # "recover"
    BY <1>2, <1>ty, EngineMoves DEF Moves, At
  <2>3. UNCHANGED <<file, failed, active, xray>>
    BY <1>2 DEF EngineLock, engine, gw
  <2> QED
    BY <2>1, <2>2, <2>3, Kinds, Differ DEF Only, NoFaults
<1>3. ASSUME NEW t \in Threads, StopLocked(t) PROVE NoFaults'
  <2>1. t \in {UI, Connector}
    BY <1>3, <1>ty, Busy DEF StopLocked
  <2>2. Only({t}) /\ pc'[t] # "recover"
    BY <1>3, <1>ty, EngineMoves DEF Moves, At, Carried
  <2>3. UNCHANGED <<file, failed>> /\ ~active'
    BY <1>3 DEF StopLocked, gw
  <2> QED
    BY <2>1, <2>2, <2>3, Kinds, Differ DEF Only, NoFaults
<1>4. ASSUME NEW t \in Threads, Attempt(t) PROVE NoFaults'
  <2>1. AttemptLeaves
    BY <1>4, <1>ty, AttemptSteps
  <2>2. Only({Connector}) /\ pc'[Connector] # "recover"
    BY <2>1 DEF AttemptLeaves
  <2>a. UNCHANGED <<file, failed>>
    BY <2>1 DEF AttemptLeaves, gw
  <2>b. active' => xray'
    <3>1. (active' = active /\ xray' = xray) \/ (active' /\ xray')
      BY <2>1 DEF AttemptLeaves
    <3> QED
      BY <1>ty, <3>1 DEF NoFaults, Ran
  <2>3. UNCHANGED <<file, failed>> /\ (active' => xray')
    BY <2>a, <2>b
  <2> QED
    BY <2>1, <2>2, <2>3, Kinds, Differ DEF Only, NoFaults
<1>5. ASSUME NEW t \in Threads, Device(t) PROVE NoFaults'
  <2>1. DeviceLeaves(t)
    BY <1>5, <1>ty, DeviceSteps
  <2>2. Only({t}) /\ pc'[t] # "recover" /\ t \in {Connector, Mode}
    BY <2>1 DEF DeviceLeaves
  <2>3. UNCHANGED <<file, failed, active, xray>>
    BY <2>1 DEF DeviceLeaves, gw, engine
  <2> QED
    BY <2>1, <2>2, <2>3, Kinds, Differ DEF Only, NoFaults
<1>6. ASSUME NEW g \in Applies, ApplyMode(g) PROVE NoFaults'
  <2>1. ApplyLeaves(g)
    BY <1>6, <1>ty, ApplySteps
  <2>2. Only({g} \union Workers) /\ pc'[g] # "recover" /\ \A w \in Workers : pc'[w] # "recover"
    BY <2>1, Kinds DEF ApplyLeaves, NoFaults
  <2>3. file' # "stale" /\ UNCHANGED <<failed, active, xray>>
    BY <2>1 DEF ApplyLeaves, NoFaults, engine
  <2> QED
    BY <2>1, <2>2, <2>3, Kinds, Differ DEF Only, NoFaults
<1>7. ASSUME NEW g \in Applies, Disconnect(g) PROVE NoFaults'
  <2>1. pc'[UI] \in {"idle", "serial"}
    BY <1>7, <1>ty, PageMoves DEF At
  <2>2. Only({UI}) \/ (Only({UI, g}) /\ pc'[g] = "queued off")
    BY <1>7, <1>ty, PageMoves DEF At
  <2>3. UNCHANGED <<file, failed, active, xray>>
    BY <1>7 DEF Disconnect, engine, gw
  <2> QED
    BY <2>1, <2>2, <2>3, Kinds, Differ DEF Only, NoFaults
<1>8. ASSUME NEW g \in Applies, StateOff(g) PROVE NoFaults'
  <2>1. pc'[UI] \in {"idle", "serial"}
    BY <1>8, <1>ty, PageMoves DEF At
  <2>2. Only({UI}) \/ (Only({UI, g}) /\ pc'[g] = "queued off")
    BY <1>8, <1>ty, PageMoves DEF At
  <2>3. UNCHANGED <<file, failed, active, xray>>
    BY <1>8 DEF StateOff, engine, gw
  <2> QED
    BY <2>1, <2>2, <2>3, Kinds, Differ DEF Only, NoFaults
<1>9. ASSUME NEW g \in Applies, QueueOn(g) PROVE NoFaults'
  <2>1. g \in Threads \ {XrayLog, TunLog}
    BY Kinds, Differ
  <2>2. Only({g}) /\ pc'[g] # "recover"
    BY <1>9, <1>ty, PageMoves DEF Moves, Goes, At
  <2>3. UNCHANGED <<file, failed, active, xray>>
    BY <1>9 DEF QueueOn, engine, gw
  <2> QED
    BY <2>1, <2>2, <2>3, Kinds, Differ DEF Only, NoFaults
<1>10. ASSUME NEW g \in Applies, GatewayOff(g) PROVE NoFaults'
  <2>1. g \in Threads \ {XrayLog, TunLog}
    BY Kinds, Differ
  <2>2. Only({g}) /\ pc'[g] # "recover"
    BY <1>10, <1>ty, PageMoves DEF Moves, Goes, At
  <2>3. UNCHANGED <<file, failed, active, xray>>
    BY <1>10 DEF GatewayOff, engine, gw
  <2> QED
    BY <2>1, <2>2, <2>3, Kinds, Differ DEF Only, NoFaults
<1>11. ASSUME NEW w \in Workers, WorkerOffline(w) PROVE NoFaults'
  <2>1. w \in Threads \ {XrayLog, TunLog}
    BY Kinds, Differ
  <2>2. Only({w}) /\ pc'[w] # "recover"
    BY <1>11, <1>ty, PageMoves DEF Moves, Goes, At
  <2>3. UNCHANGED <<file, failed, active, xray>>
    BY <1>11 DEF WorkerOffline, engine, gw
  <2> QED
    BY <2>1, <2>2, <2>3, Kinds, Differ DEF Only, NoFaults
<1>12. ASSUME NEW w \in Workers, WorkerEnds(w) PROVE NoFaults'
  <2>1. w \in Threads \ {XrayLog, TunLog}
    BY Kinds, Differ
  <2>2. Only({w}) /\ pc'[w] # "recover"
    BY <1>12, <1>ty, PageMoves DEF Moves, Goes, At
  <2>3. UNCHANGED <<file, failed, active, xray>>
    BY <1>12 DEF WorkerEnds, engine, gw, local
  <2> QED
    BY <2>1, <2>2, <2>3, Kinds, Differ DEF Only, NoFaults
<1>13. CASE Connect
  <2>1. Connector \in Threads \ {XrayLog, TunLog}
    BY Kinds, Differ
  <2>2. Only({Connector}) /\ pc'[Connector] # "recover"
    BY <1>13, <1>ty, PageMoves DEF Moves, Goes, At
  <2>3. UNCHANGED <<file, failed, active, xray>>
    BY <1>13 DEF Connect, engine, gw, local
  <2> QED
    BY <2>1, <2>2, <2>3, Kinds, Differ DEF Only, NoFaults
<1>14. CASE StateOn
  <2>1. UNCHANGED <<file, failed, active, xray, pc>>
    BY <1>14 DEF StateOn, engine, gw, local
  <2> QED
    BY <2>1 DEF NoFaults
<1>15. CASE GatewayOn
  <2>1. UNCHANGED <<file, failed, active, xray, pc>>
    BY <1>15 DEF GatewayOn, engine, gw, local
  <2> QED
    BY <2>1 DEF NoFaults
<1>16. CASE SwitchTun
  <2>1. Mode \in Threads \ {XrayLog, TunLog}
    BY Kinds, Differ
  <2>2. Only({Mode}) /\ pc'[Mode] # "recover"
    BY <1>16, <1>ty, PageMoves DEF Moves, Goes, At
  <2>3. UNCHANGED <<file, failed, active, xray>>
    BY <1>16 DEF SwitchTun, engine, gw
  <2> QED
    BY <2>1, <2>2, <2>3, Kinds, Differ DEF Only, NoFaults
<1> QED
  BY <1>st, <1>1, <1>2, <1>3, <1>4, <1>5, <1>6, <1>7, <1>8, <1>9, <1>10, <1>11, <1>12, <1>13,
     <1>14, <1>15, <1>16
     DEF Faultless

\* A step that leaves the gateway alone keeps Calm.
LEMMA CalmStays ==
  ASSUME Calm, NEW M, Only(M), UNCHANGED <<file, gateway, manager>>,
         \A u \in M : pc'[u] \notin {"join", "end"}
  PROVE  Calm'
BY DEF Calm, Only

\* A step of threads other than UI and Connector that leaves the engine alone keeps Steady.
LEMMA SteadyStays ==
  ASSUME Steady, NEW M, Only(M), UI \notin M, Connector \notin M, UNCHANGED <<active, xray>>
  PROVE  Steady'
BY Kinds DEF Steady, Running, Only, FirstStop

\* GatewayManager.stop leaves the gateway down when it returns, and down where it was.
LEMMA StopCalms ==
  ASSUME Placed, Carried, Post, NoFaults, Fresh, smooth', NEW t \in Threads, StopGateway(t)
  PROVE  /\ pc'[t] = back[t] => Calm'
         /\ Calm /\ pc'[t] \in Stopping => Calm'
<1>1. back[t] \in {"lock", "body", "applied", "disabled", "leave", "ended"} /\ t # None
  BY Kinds DEF Carried
<1>2. ASSUME pc[t] \in Stopping \ {"serial"}, Only({t}), pc'[t] = back[t],
             file' = "none", ~gateway', manager' = None
      PROVE  Calm'
  BY <1>1, <1>2, Alone DEF Calm, Only, Stopping
<1>3. CASE Serialise(t)
  <2>1. Only({t}) /\ pc'[t] = "begin"
    BY <1>3, StopMoves DEF Moves, Goes, At
  <2>2. UNCHANGED <<file, gateway, manager>>
    BY <1>3 DEF Serialise, gw
  <2>3. Calm => Calm'
    BY <2>1, <2>2, CalmStays
  <2> QED
    BY <1>1, <2>1, <2>3
<1>4. CASE NothingToStop(t)
  <2>1. pc[t] = "begin" /\ Only({t}) /\ pc'[t] = back[t]
    BY <1>4, StopMoves DEF Moves, Goes, At
  <2>2. file' = "none" /\ ~gateway' /\ manager' = None
    BY <1>4 DEF NothingToStop, gw
  <2> QED
    BY <1>1, <1>2, <2>1, <2>2 DEF Stopping
<1>5. CASE StopBegins(t)
  <2>1. pc'[t] = "join" /\ ~Calm
    BY <1>5, StopMoves DEF Moves, Goes, At, StopBegins, Calm
  <2> QED
    BY <1>1, <2>1
<1>6. CASE StopJoins(t)
  <2>1. pc'[t] = "end" /\ pc[t] \in {"join", "end"}
    BY <1>6, StopMoves DEF Moves, Goes, At
  <2> QED
    BY <1>1, <2>1 DEF Calm
<1>7. CASE StopRestores(t)
  <2>1. pc[t] = "end" /\ Only({t}) /\ pc'[t] = back[t]
    BY <1>7, StopMoves DEF Moves, Goes, At
  <2>2. StopEnds(t, FALSE)
    BY <1>7 DEF StopRestores, RestoreFails
  <2>3. file' = "none" /\ ~gateway' /\ manager' = None
    BY <2>2 DEF StopEnds
  <2> QED
    BY <1>1, <1>2, <2>1, <2>3 DEF Stopping
<1>8. CASE StopRestoresAndReleases(t)
  <2>1. pc'[t] = "lease" /\ pc[t] \in {"join", "end"}
    BY <1>8, StopMoves DEF Moves, Goes, At
  <2> QED
    BY <1>1, <2>1 DEF Calm
<1>9. CASE StopReleases(t)
  <2>1. pc[t] = "lease" /\ Only({t}) /\ pc'[t] = back[t]
    BY <1>9, StopMoves DEF Moves, Goes, At
  <2>2. StopEnds(t, t \in failed \/ seen[t] # runId)
    BY <1>9 DEF StopReleases
  <2>3. ~(t \in failed \/ seen[t] # runId)
    BY <2>1 DEF NoFaults, Fresh
  <2>4. file' = "none" /\ ~gateway' /\ manager' = None
    BY <2>2, <2>3 DEF StopEnds
  <2> QED
    BY <1>1, <1>2, <2>1, <2>4 DEF Stopping
<1> QED
  BY <1>3, <1>4, <1>5, <1>6, <1>7, <1>8, <1>9 DEF StopGateway

\* Settled is kept: StopLocked finds the gateway down.
LEMMA SettledNext ==
  ASSUME Typed, Post, PageInv, NoFaults, Settled, OnTrack, Trying, Fresh, smooth', Faultless
  PROVE  Settled'
<1>ty. Placed /\ Carried /\ Posted /\ Spent /\ Ran /\ Held
  BY DEF Typed
<1>st. CASE UNCHANGED vars
  BY <1>st DEF vars, engine, gw, locks, local, Settled, Calm, Steady, Running, FirstStop
<1>1. ASSUME NEW t \in Threads, StopGateway(t) PROVE Settled'
  <2>1. StopLeaves(t)
    BY <1>1, <1>ty, StopSteps
  <2>2. /\ pc'[t] = back[t] => Calm'
        /\ Calm /\ pc'[t] \in Stopping => Calm'
    BY <1>1, <1>ty, StopCalms
  <2>3. CASE Calm
    BY <2>1, <2>2, <2>3 DEF StopLeaves, Settled
  <2>4. CASE Steady /\ pc'[t] # back[t]
    <3>1. Only({t}) /\ pc[t] \in Stopping /\ pc'[t] \in Stopping /\ back'[t] = back[t]
      BY <2>1, <2>4 DEF StopLeaves
    <3>2. active' = active /\ xray' = xray
      BY <2>1 DEF StopLeaves, engine
    <3>3. t # Connector
      BY <2>4, <3>1 DEF Steady, Stopping
    <3>4. CASE t = UI
      <4>1. FirstStop'
        BY <2>4, <3>1, <3>4 DEF Steady, FirstStop, Stopping
      <4>2. pc'[Connector] = pc[Connector]
        BY <3>1, <3>3, Kinds DEF Only
      <4> QED
        BY <2>4, <3>2, <4>1, <4>2 DEF Settled, Steady, Running
    <3> QED
      BY <2>4, <3>1, <3>2, <3>3, <3>4, SteadyStays DEF Settled
  <2> QED
    BY <2>2, <2>3, <2>4 DEF Settled
<1>2. ASSUME NEW t \in Threads, EngineLock(t) PROVE Settled'
  <2>1. Calm
    BY <1>2, <1>ty, Busy DEF EngineLock
  <2>2. Only({t}) /\ pc'[t] \notin {"join", "end"}
    BY <1>2, <1>ty, EngineMoves DEF Moves, At
  <2>3. UNCHANGED <<file, gateway, manager>>
    BY <1>2 DEF EngineLock, gw
  <2> QED
    BY <2>1, <2>2, <2>3, CalmStays DEF Settled
<1>3. ASSUME NEW t \in Threads, StopLocked(t) PROVE Settled'
  <2>1. Calm
    BY <1>3, <1>ty, Busy DEF StopLocked
  <2>2. Only({t}) /\ pc'[t] \notin {"join", "end"}
    BY <1>3, <1>ty, EngineMoves DEF Moves, At, Carried
  <2>3. UNCHANGED <<file, gateway, manager>>
    BY <1>3 DEF StopLocked, gw
  <2> QED
    BY <2>1, <2>2, <2>3, CalmStays DEF Settled
<1>4. ASSUME NEW t \in Threads, Attempt(t) PROVE Settled'
  <2>1. AttemptLeaves
    BY <1>4, <1>ty, AttemptSteps
  <2>2. Calm
    BY <2>1 DEF AttemptLeaves, Settled, Steady
  <2>3. UNCHANGED <<file, gateway, manager>>
    BY <2>1 DEF AttemptLeaves, gw
  <2>4. Only({Connector}) /\ pc'[Connector] \notin {"join", "end"}
    BY <2>1 DEF AttemptLeaves
  <2> QED
    BY <2>2, <2>3, <2>4, CalmStays DEF Settled
<1>5. ASSUME NEW t \in Threads, Device(t) PROVE Settled'
  <2>1. DeviceLeaves(t)
    BY <1>5, <1>ty, DeviceSteps
  <2>2. Only({t}) /\ pc'[t] \notin {"join", "end"}
    BY <2>1 DEF DeviceLeaves
  <2>3. UNCHANGED <<file, gateway, manager, active, xray>>
    BY <2>1 DEF DeviceLeaves, gw, engine
  <2>4. Steady => t = Mode
    BY <2>1 DEF DeviceLeaves, Steady
  <2> QED
    BY <2>2, <2>3, <2>4, CalmStays, SteadyStays, Differ DEF Settled
<1>6. ASSUME NEW g \in Applies, ApplyMode(g) PROVE Settled'
  <2>1. ApplyLeaves(g)
    BY <1>6, <1>ty, ApplySteps
  <2>2. Only({g} \union Workers) /\ UNCHANGED <<active, xray>>
    BY <2>1 DEF ApplyLeaves, engine
  <2>3. Steady => Steady'
    BY <2>2, SteadyStays, Differ
  <2>4. CASE Calm /\ (UNCHANGED <<file, gateway, manager>>)
    <3>1. \A u \in {g} \union Workers : pc'[u] \notin {"join", "end"}
      BY <2>1, <2>4, Kinds DEF ApplyLeaves, Calm
    <3> QED
      BY <2>2, <2>4, <3>1, CalmStays DEF Settled
  <2>5. CASE Calm /\ gate = g /\ pc[g] = "ready"
    BY <2>3, <2>5 DEF OnTrack, Off, Wanted, Steady, Settled, Stopping
  <2>6. CASE Calm /\ pc[g] \in Starting \ {"ready"}
    <3>1. manager = g /\ g # None
      BY <2>6, Kinds DEF Post, Seated, Holds, HoldsManager
    <3> QED
      BY <2>6, <3>1 DEF Calm
  <2> QED
    BY <2>1, <2>3, <2>4, <2>5, <2>6 DEF ApplyLeaves, Settled
<1>7. ASSUME NEW g \in Applies, Disconnect(g) PROVE Settled'
  <2>1. /\ pc[UI] = "idle" /\ pc'[UI] = "serial" /\ back'[UI] = "lock"
        /\ Only({UI}) \/ (Only({UI, g}) /\ pc'[g] = "queued off")
    BY <1>7, <1>ty, PageMoves DEF At
  <2>2. UNCHANGED <<file, gateway, manager, active, xray>>
    BY <1>7 DEF Disconnect, locks, engine, gw
  <2>3. Calm => Calm'
    BY <2>1, <2>2, CalmStays
  <2>4. pc'[Connector] = pc[Connector]
    BY <2>1, Kinds, Differ DEF Only
  <2>5. Steady => Steady'
    BY <2>1, <2>2, <2>4 DEF Steady, Running, FirstStop, Stopping
  <2> QED
    BY <2>3, <2>5 DEF Settled
<1>8. ASSUME NEW g \in Applies, StateOff(g) PROVE Settled'
  <2>1. /\ pc[UI] \in {"idle", "off"} /\ pc'[UI] = "idle"
        /\ Only({UI}) \/ (Only({UI, g}) /\ pc'[g] = "queued off")
    BY <1>8, <1>ty, PageMoves DEF At
  <2>2. UNCHANGED <<file, gateway, manager, active, xray>>
    BY <1>8 DEF StateOff, locks, engine, gw
  <2>3. Calm => Calm'
    BY <2>1, <2>2, CalmStays
  <2>4. pc'[Connector] = pc[Connector]
    BY <2>1, Kinds, Differ DEF Only
  <2>5. Steady => Steady'
    BY <2>1, <2>2, <2>4 DEF Steady, Running
  <2> QED
    BY <2>3, <2>5 DEF Settled
<1>9. ASSUME NEW g \in Applies, QueueOn(g) PROVE Settled'
  <2>1. g # UI /\ g # Connector
    BY Differ
  <2>2. Only({g}) /\ pc'[g] \notin {"join", "end"}
    BY <1>9, <1>ty, PageMoves DEF Moves, Goes, At
  <2>3. UNCHANGED <<file, gateway, manager, active, xray>>
    BY <1>9 DEF QueueOn, locks, engine, gw
  <2> QED
    BY <2>1, <2>2, <2>3, CalmStays, SteadyStays DEF Settled
<1>10. ASSUME NEW g \in Applies, GatewayOff(g) PROVE Settled'
  <2>1. g # UI /\ g # Connector
    BY Differ
  <2>2. Only({g}) /\ pc'[g] \notin {"join", "end"}
    BY <1>10, <1>ty, PageMoves DEF Moves, Goes, At
  <2>3. UNCHANGED <<file, gateway, manager, active, xray>>
    BY <1>10 DEF GatewayOff, locks, engine, gw
  <2> QED
    BY <2>1, <2>2, <2>3, CalmStays, SteadyStays DEF Settled
<1>11. ASSUME NEW w \in Workers, WorkerOffline(w) PROVE Settled'
  <2>1. w # UI /\ w # Connector
    BY Differ
  <2>2. Only({w}) /\ pc'[w] \notin {"join", "end"}
    BY <1>11, <1>ty, PageMoves DEF Moves, Goes, At
  <2>3. UNCHANGED <<file, gateway, manager, active, xray>>
    BY <1>11 DEF WorkerOffline, locks, engine, gw
  <2> QED
    BY <2>1, <2>2, <2>3, CalmStays, SteadyStays DEF Settled
<1>12. ASSUME NEW w \in Workers, WorkerEnds(w) PROVE Settled'
  <2>1. w # UI /\ w # Connector
    BY Differ
  <2>2. Only({w}) /\ pc'[w] \notin {"join", "end"}
    BY <1>12, <1>ty, PageMoves DEF Moves, Goes, At
  <2>3. UNCHANGED <<file, gateway, manager, active, xray>>
    BY <1>12 DEF WorkerEnds, locks, engine, gw
  <2> QED
    BY <2>1, <2>2, <2>3, CalmStays, SteadyStays DEF Settled
<1>13. CASE Connect
  <2>1. Calm
    BY <1>13 DEF Connect, Settled, Steady
  <2>2. Only({Connector}) /\ pc'[Connector] \notin {"join", "end"}
    BY <1>13, <1>ty, PageMoves DEF Moves, Goes, At
  <2>3. UNCHANGED <<file, gateway, manager>>
    BY <1>13 DEF Connect, locks, gw
  <2> QED
    BY <2>1, <2>2, <2>3, CalmStays DEF Settled
<1>14. CASE StateOn
  <2>1. UNCHANGED <<file, gateway, manager, active, xray, pc, back>>
    BY <1>14 DEF StateOn, locks, engine, gw, local
  <2> QED
    BY <2>1 DEF Settled, Calm, Steady, Running, FirstStop
<1>15. CASE GatewayOn
  <2>1. UNCHANGED <<file, gateway, manager, active, xray, pc, back>>
    BY <1>15 DEF GatewayOn, locks, engine, gw, local
  <2> QED
    BY <2>1 DEF Settled, Calm, Steady, Running, FirstStop
<1>16. CASE SwitchTun
  <2>1. Mode # UI /\ Mode # Connector
    BY Differ
  <2>2. Only({Mode}) /\ pc'[Mode] \notin {"join", "end"}
    BY <1>16, <1>ty, PageMoves DEF Moves, Goes, At
  <2>3. UNCHANGED <<file, gateway, manager, active, xray>>
    BY <1>16 DEF SwitchTun, locks, engine, gw
  <2> QED
    BY <2>1, <2>2, <2>3, CalmStays, SteadyStays DEF Settled
<1> QED
  BY <1>st, <1>1, <1>2, <1>3, <1>4, <1>5, <1>6, <1>7, <1>8, <1>9, <1>10, <1>11, <1>12, <1>13,
     <1>14, <1>15, <1>16
     DEF Faultless

\* A step of threads that are none of the gateway mode's, nor the page, nor a connect.
LEMMA TrackStays ==
  ASSUME OnTrack, NEW M, Only(M), \A g \in Applies : g \notin M, UI \notin M, Connector \notin M,
         UNCHANGED <<active, xray, runId, shown>>, connecting' => connecting,
         gate' \in {gate, None}, gate' = None \/ (requested => requested'),
         \A g \in Applies : rid'[g] = rid[g]
  PROVE  OnTrack'
<1> SUFFICES ASSUME NEW g \in Applies, gate' = g PROVE Off(g)' \/ Wanted(g)'
  BY DEF OnTrack
<1>1. /\ gate = g /\ pc'[g] = pc[g] /\ back'[g] = back[g] /\ (requested => requested')
      /\ pc'[UI] = pc[UI] /\ pc'[Connector] = pc[Connector]
  BY Kinds DEF Only
<1> QED
  BY <1>1 DEF OnTrack, Off, Wanted, Running

\* While the page stops the engine or a connect is under way, and while Xray does not run,
\* the gateway-mode thread the page waits for turns the gateway off.
LEMMA TrackBusy ==
  ASSUME OnTrack, NEW M, Only(M), \A g \in Applies : g \notin M, gate' \in {gate, None},
         pc[UI] # "idle" \/ pc[Connector] # "idle" \/ ~Running
  PROVE  OnTrack'
<1> SUFFICES ASSUME NEW g \in Applies, gate' = g PROVE Off(g)'
  BY DEF OnTrack
<1>1. gate = g /\ pc'[g] = pc[g] /\ back'[g] = back[g]
  BY Kinds DEF Only
<1> QED
  BY <1>1 DEF OnTrack, Off, Wanted

\* OnTrack is kept.
LEMMA OnTrackNext ==
  ASSUME Typed, Post, PageInv, NoFaults, Settled, OnTrack, Trying, Fresh, smooth', Faultless
  PROVE  OnTrack'
<1>ty. Placed /\ Carried /\ Posted /\ Spent /\ Ran /\ Held
  BY DEF Typed
<1>st. CASE UNCHANGED vars
  BY <1>st DEF vars, engine, page, local, OnTrack, Off, Wanted, Running
<1>1. ASSUME NEW t \in Threads, StopGateway(t) PROVE OnTrack'
  <2>1. StopLeaves(t)
    BY <1>1, <1>ty, StopSteps
  <2>2. UNCHANGED <<runId, active, xray, connecting, shown, requested, gate, rid>>
    BY <2>1 DEF StopLeaves, engine, page
  <2>3. Only({t}) /\ pc[t] \in Stopping
    BY <2>1 DEF StopLeaves
  <2> SUFFICES ASSUME NEW g \in Applies, gate' = g PROVE Off(g)' \/ Wanted(g)'
    BY DEF OnTrack
  <2>4. Off(g) \/ Wanted(g)
    BY <2>2 DEF OnTrack
  <2>5. CASE g = t
    <3>1. pc[t] \notin Track
      BY <2>3 DEF Track, OnPath, Starting, Stopping
    <3>2. Off(t)
      BY <2>4, <2>5, <3>1 DEF Wanted
    <3> QED
      BY <2>1, <2>5, <3>2 DEF StopLeaves, Off, Stopping
  <2>6. CASE g # t
    <3>1. pc'[g] = pc[g] /\ back'[g] = back[g]
      BY <2>3, <2>6, Kinds DEF Only
    <3>2. Wanted(g) => pc'[UI] = pc[UI] /\ pc'[Connector] = pc[Connector]
      BY <2>3, Kinds DEF Only, Wanted, Stopping
    <3> QED
      BY <2>2, <2>4, <3>1, <3>2 DEF Off, Wanted, Running
  <2> QED
    BY <2>5, <2>6
<1>2. ASSUME NEW t \in Threads, EngineLock(t) PROVE OnTrack'
  <2>1. t \in {UI, Connector} /\ pc[t] \in {"lock", "body"}
    BY <1>2, <1>ty, Busy DEF EngineLock
  <2>2. Only({t})
    BY <1>2, <1>ty, EngineMoves DEF Moves
  <2>3. UNCHANGED gate
    BY <1>2 DEF EngineLock, page
  <2> QED
    BY <2>1, <2>2, <2>3, TrackBusy, Differ
<1>3. ASSUME NEW t \in Threads, StopLocked(t) PROVE OnTrack'
  <2>1. t \in {UI, Connector} /\ pc[t] \in {"lock", "body"}
    BY <1>3, <1>ty, Busy DEF StopLocked
  <2>2. Only({t})
    BY <1>3, <1>ty, EngineMoves DEF Moves
  <2>3. UNCHANGED gate
    BY <1>3 DEF StopLocked
  <2> QED
    BY <2>1, <2>2, <2>3, TrackBusy, Differ
<1>4. ASSUME NEW t \in Threads, Attempt(t) PROVE OnTrack'
  <2>1. AttemptLeaves
    BY <1>4, <1>ty, AttemptSteps
  <2> QED
    BY <2>1, TrackBusy, Differ DEF AttemptLeaves
<1>5. ASSUME NEW t \in Threads, Device(t) PROVE OnTrack'
  <2>1. DeviceLeaves(t)
    BY <1>5, <1>ty, DeviceSteps
  <2>2. UNCHANGED <<active, xray, runId, shown, connecting, gate, requested, rid>> /\ Only({t})
    BY <2>1 DEF DeviceLeaves, engine
  <2>3. CASE t = Connector
    BY <2>1, <2>2, <2>3, TrackBusy, Differ DEF DeviceLeaves
  <2>4. CASE t = Mode
    BY <2>2, <2>4, TrackStays, Differ
  <2> QED
    BY <2>1, <2>3, <2>4 DEF DeviceLeaves
<1>6. ASSUME NEW g \in Applies, ApplyMode(g) PROVE OnTrack'
  <2>1. ApplyLeaves(g)
    BY <1>6, <1>ty, ApplySteps
  <2>2. UNCHANGED <<active, xray, runId, shown, connecting, rid>>
    BY <2>1 DEF ApplyLeaves, engine
  <2> SUFFICES ASSUME NEW u \in Applies, gate' = u PROVE Off(u)' \/ Wanted(u)'
    BY DEF OnTrack
  <2>3. gate = u /\ requested' = requested
    BY <2>1, Kinds DEF ApplyLeaves
  <2>4. Off(u) \/ Wanted(u)
    BY <2>3 DEF OnTrack
  <2>5. pc'[UI] = pc[UI] /\ pc'[Connector] = pc[Connector]
    BY <2>1, Kinds, Differ DEF ApplyLeaves, Only
  <2>6. CASE u # g
    <3>1. pc'[u] = pc[u] /\ back'[u] = back[u]
      BY <2>1, <2>6, Kinds, Differ DEF ApplyLeaves, Only
    <3> QED
      BY <2>2, <2>3, <2>4, <2>5, <3>1 DEF Off, Wanted, Running
  <2>7. CASE u = g
    <3>1. /\ Off(g) => Off(g)'
          /\ pc[g] \in Track /\ Current(g) => pc'[g] \in Track
      BY <1>6, <1>ty, <2>3, <2>7, ApplyTrack
    <3>2. Wanted(g) => Current(g)
      BY <2>3, <2>7 DEF Wanted, Current
    <3> QED
      BY <2>2, <2>3, <2>4, <2>5, <2>7, <3>1, <3>2 DEF Wanted, Running
  <2> QED
    BY <2>6, <2>7
<1>7. ASSUME NEW g \in Applies, Disconnect(g) PROVE OnTrack'
  <2>1. gate' = None \/ (gate' = g /\ pc'[g] = "queued off")
    BY <1>7, <1>ty, Kinds, Differ DEF Disconnect, ResetGateway, Placed
  <2> QED
    BY <2>1, Kinds DEF OnTrack, Off
<1>8. ASSUME NEW g \in Applies, StateOff(g) PROVE OnTrack'
  <2>1. gate' = None \/ (gate' = g /\ pc'[g] = "queued off")
    BY <1>8, <1>ty, Kinds, Differ DEF StateOff, ResetGateway, Placed
  <2> QED
    BY <2>1, Kinds DEF OnTrack, Off
<1>9. ASSUME NEW g \in Applies, QueueOn(g) PROVE OnTrack'
  <2>1. /\ gate' = g /\ pc'[g] = "queued on" /\ pc'[UI] = pc[UI] /\ pc'[Connector] = pc[Connector]
        /\ rid'[g] = runId
    BY <1>9, <1>ty, Kinds, Differ DEF QueueOn, Go, Placed, Carried
  <2>2. /\ UNCHANGED <<active, xray, runId, shown, connecting, requested>>
        /\ Running /\ shown /\ ~connecting /\ requested /\ pc[UI] = "idle"
    BY <1>9 DEF QueueOn, PageIdle, engine
  <2>3. ~cancel /\ ~GivenUp
    BY <2>2 DEF PageInv, Running
  <2>4. pc[Connector] = "idle"
    BY <2>2, <2>3 DEF Trying
  <2>5. Wanted(g)'
    BY <2>1, <2>2, <2>4 DEF Wanted, Track, OnPath, Running
  <2> QED
    BY <2>1, <2>5, Kinds DEF OnTrack
<1>10. ASSUME NEW g \in Applies, GatewayOff(g) PROVE OnTrack'
  <2>1. (gate' = g /\ pc'[g] = "queued off")
    BY <1>10, <1>ty, Kinds, Differ DEF GatewayOff, Go, Placed
  <2> QED
    BY <2>1, Kinds DEF OnTrack, Off
<1>11. ASSUME NEW w \in Workers, WorkerOffline(w) PROVE OnTrack'
  <2>1. Only({w})
    BY <1>11, <1>ty, PageMoves DEF Moves, Goes
  <2>2. UNCHANGED <<active, xray, runId, shown, connecting, gate>>
    BY <1>11 DEF WorkerOffline, engine, page
  <2>3. gate = None \/ (requested => requested')
    BY <1>11, <1>ty DEF WorkerOffline, page
  <2>4. \A g \in Applies : rid'[g] = rid[g]
    BY <1>11, <1>ty, Kinds, Differ DEF WorkerOffline, Carried
  <2> QED
    BY <2>1, <2>2, <2>3, <2>4, TrackStays, Differ
<1>12. ASSUME NEW w \in Workers, WorkerEnds(w) PROVE OnTrack'
  <2>1. Only({w})
    BY <1>12, <1>ty, PageMoves DEF Moves, Goes
  <2>2. UNCHANGED <<active, xray, runId, shown, connecting, gate>>
    BY <1>12 DEF WorkerEnds, engine
  <2>3. gate = None \/ (requested => requested')
    BY <1>12, <1>ty DEF WorkerEnds
  <2>4. \A g \in Applies : rid'[g] = rid[g]
    BY <1>12, <1>ty, Kinds, Differ DEF WorkerEnds, local, Carried
  <2> QED
    BY <2>1, <2>2, <2>3, <2>4, TrackStays, Differ
<1>13. CASE Connect
  <2>1. Only({Connector})
    BY <1>13, <1>ty, PageMoves DEF Moves, Goes
  <2>2. UNCHANGED gate /\ ~Running
    BY <1>13 DEF Connect
  <2> QED
    BY <2>1, <2>2, TrackBusy, Differ
<1>14. CASE StateOn
  <2>1. /\ UNCHANGED <<active, xray, runId, gate, requested, pc, back, rid>>
        /\ shown' /\ ~connecting'
    BY <1>14 DEF StateOn, engine, local
  <2> QED
    BY <2>1 DEF OnTrack, Off, Wanted, Running
<1>15. CASE GatewayOn
  <2>1. gate' = None
    BY <1>15 DEF GatewayOn
  <2> QED
    BY <2>1, Kinds DEF OnTrack
<1>16. CASE SwitchTun
  <2>1. Only({Mode})
    BY <1>16, <1>ty, PageMoves DEF Moves, Goes
  <2>2. UNCHANGED <<active, xray, runId, shown, connecting, gate>>
    BY <1>16 DEF SwitchTun, engine, page
  <2>3. gate = None \/ (requested => requested')
    BY <1>16, <1>ty DEF SwitchTun, page
  <2>4. \A g \in Applies : rid'[g] = rid[g]
    BY <1>16, <1>ty, Kinds, Differ DEF SwitchTun, Carried
  <2> QED
    BY <2>1, <2>2, <2>3, <2>4, TrackStays, Differ
<1> QED
  BY <1>st, <1>1, <1>2, <1>3, <1>4, <1>5, <1>6, <1>7, <1>8, <1>9, <1>10, <1>11, <1>12, <1>13,
     <1>14, <1>15, <1>16
     DEF Faultless

\* A step that leaves a connect alone, or takes it through a stop of the engine.
LEMMA TryingStays ==
  ASSUME Trying, Alike(Connector), UNCHANGED <<cancel, connecting, signals>>
  PROVE  Trying'
<1>1. /\ pc'[Connector] # "idle" <=> pc[Connector] # "idle"
      /\ GivenUp <=> GivenUp'
  BY DEF Alike, GivenUp, InStop, Stopping
<1> QED
  BY <1>1 DEF Trying

\* Trying is kept.
LEMMA TryingNext ==
  ASSUME Typed, Post, PageInv, NoFaults, Settled, OnTrack, Trying, Fresh, smooth', Faultless
  PROVE  Trying'
<1>ty. Placed /\ Carried /\ Posted /\ Spent /\ Ran /\ Held
  BY DEF Typed
<1>st. CASE UNCHANGED vars
  BY <1>st DEF vars, page, local, Trying, GivenUp
<1>1. ASSUME NEW t \in Threads, StopGateway(t) PROVE Trying'
  <2>1. StopLeaves(t)
    BY <1>1, <1>ty, StopSteps
  <2>2. UNCHANGED <<cancel, connecting, signals>>
    BY <2>1 DEF StopLeaves, page
  <2>3. CASE t = Connector
    <3>1. back[t] \in {"lock", "body"} /\ InStop(pc[t], back[t])
      BY <1>ty, <2>1, <2>3, StopsEngine DEF StopLeaves
    <3>2. InStop(pc'[t], back'[t])
      BY <2>1, <3>1 DEF StopLeaves, InStop
    <3>3. Alike(Connector)
      BY <2>1, <2>3, <3>1, <3>2 DEF StopLeaves, Alike
    <3> QED
      BY <2>2, <3>3, TryingStays
  <2>4. CASE t # Connector
    <3>1. Alike(Connector)
      BY <2>1, <2>4, Kinds DEF StopLeaves, Only, Alike
    <3> QED
      BY <2>2, <3>1, TryingStays
  <2> QED
    BY <2>3, <2>4
<1>2. ASSUME NEW t \in Threads, EngineLock(t) PROVE Trying'
  <2>0. pc[t] = "lock" /\ Only({t}) /\ At(t, "serial", "body", after[t])
    BY <1>2, <1>ty, EngineMoves DEF Moves
  <2>1. Alike(Connector)
    BY <2>0, Kinds DEF Only, At, Alike, InStop, Stopping
  <2>2. UNCHANGED <<cancel, connecting, signals>>
    BY <1>2 DEF EngineLock, page
  <2> QED
    BY <2>1, <2>2, TryingStays
<1>3. ASSUME NEW t \in Threads, StopLocked(t) PROVE Trying'
  <2>1. t \in {UI, Connector}
    BY <1>3, <1>ty, Busy DEF StopLocked
  <2>2. UNCHANGED <<cancel, connecting, signals>>
    BY <1>3, <2>1, Differ DEF StopLocked, TellPage
  <2>3. pc[t] = "body" /\ Only({t}) /\ pc'[t] = after[t]
    BY <1>3, <1>ty, EngineMoves DEF Moves, At
  <2>4. CASE t = UI
    <3>1. Alike(Connector)
      BY <2>3, <2>4, Kinds, Differ DEF Only, Alike
    <3> QED
      BY <2>2, <3>1, TryingStays
  <2>5. CASE t = Connector
    <3>1. pc'[Connector] # "idle" => ~GivenUp
      BY <2>3, <2>5 DEF GivenUp
    <3> QED
      BY <2>2, <2>3, <2>5, <3>1 DEF Trying
  <2> QED
    BY <2>1, <2>4, <2>5
<1>4. ASSUME NEW t \in Threads, Attempt(t) PROVE Trying'
  <2>1. AttemptLeaves
    BY <1>4, <1>ty, AttemptSteps
  <2>2. ~GivenUp /\ pc[Connector] # "idle" /\ UNCHANGED cancel
    BY <2>1 DEF AttemptLeaves, GivenUp, InStop, Stopping
  <2>3. pc'[Connector] # "idle" /\ ~cancel => GivenUp' \/ UNCHANGED <<connecting, signals>>
    BY <2>1 DEF AttemptLeaves
  <2> QED
    BY <2>2, <2>3 DEF Trying
<1>5. ASSUME NEW t \in Threads, Device(t) PROVE Trying'
  <2>1. DeviceLeaves(t)
    BY <1>5, <1>ty, DeviceSteps
  <2>2. /\ Only({t}) /\ UNCHANGED <<cancel, connecting>>
        /\ pc'[Connector] # "idle" => UNCHANGED signals
    BY <2>1 DEF DeviceLeaves
  <2>3. CASE t = Connector
    <3>1. ~GivenUp /\ pc[Connector] # "idle"
      BY <2>1, <2>3 DEF DeviceLeaves, GivenUp, InStop, Stopping
    <3> QED
      BY <2>2, <3>1 DEF Trying
  <2>4. CASE t # Connector
    <3>1. /\ pc'[Connector] = pc[Connector] /\ back'[Connector] = back[Connector]
          /\ after'[Connector] = after[Connector]
      BY <2>2, <2>4, Kinds DEF Only
    <3>2. GivenUp' = GivenUp
      BY <3>1 DEF GivenUp
    <3> QED
      BY <2>2, <3>1, <3>2 DEF Trying
  <2> QED
    BY <2>3, <2>4
<1>6. ASSUME NEW g \in Applies, ApplyMode(g) PROVE Trying'
  <2>0. ApplyLeaves(g)
    BY <1>6, <1>ty, ApplySteps
  <2>1. Alike(Connector)
    BY <2>0, Kinds, Differ DEF ApplyLeaves, Only, Alike
  <2>2. UNCHANGED <<cancel, connecting, signals>>
    BY <2>0 DEF ApplyLeaves
  <2> QED
    BY <2>1, <2>2, TryingStays
<1>7. ASSUME NEW g \in Applies, Disconnect(g) PROVE Trying'
  <2>1. cancel'
    BY <1>7 DEF Disconnect, PageStopsEngine
  <2> QED
    BY <2>1 DEF Trying
<1>8. ASSUME NEW g \in Applies, StateOff(g) PROVE Trying'
  <2>1. /\ pc[UI] \in {"idle", "off"}
        /\ Only({UI}) \/ Only({UI, g})
    BY <1>8, <1>ty, PageMoves DEF At
  <2>2. UNCHANGED cancel /\ (pc[UI] = "off" \/ signals # <<>>)
    BY <1>8 DEF StateOff
  <2>3. ~cancel => signals # <<>>
    BY <2>2 DEF PageInv
  <2>4. /\ pc'[Connector] = pc[Connector] /\ back'[Connector] = back[Connector]
        /\ after'[Connector] = after[Connector]
    BY <2>1, Kinds, Differ DEF Only
  <2>5. GivenUp' = GivenUp
    BY <2>4 DEF GivenUp
  <2> QED
    BY <2>2, <2>3, <2>4, <2>5 DEF Trying
<1>9. ASSUME NEW g \in Applies, QueueOn(g) PROVE Trying'
  <2>0. Only({g})
    BY <1>9, <1>ty, PageMoves DEF Moves, Goes
  <2>1. Alike(Connector)
    BY <2>0, Kinds, Differ DEF Only, Alike
  <2>2. UNCHANGED <<cancel, connecting, signals>>
    BY <1>9 DEF QueueOn
  <2> QED
    BY <2>1, <2>2, TryingStays
<1>10. ASSUME NEW g \in Applies, GatewayOff(g) PROVE Trying'
  <2>0. Only({g})
    BY <1>10, <1>ty, PageMoves DEF Moves, Goes
  <2>1. Alike(Connector)
    BY <2>0, Kinds, Differ DEF Only, Alike
  <2>2. UNCHANGED <<cancel, connecting, signals>>
    BY <1>10 DEF GatewayOff
  <2> QED
    BY <2>1, <2>2, TryingStays
<1>11. ASSUME NEW w \in Workers, WorkerOffline(w) PROVE Trying'
  <2>0. Only({w})
    BY <1>11, <1>ty, PageMoves DEF Moves, Goes
  <2>1. Alike(Connector)
    BY <2>0, Kinds, Differ DEF Only, Alike
  <2>2. UNCHANGED <<cancel, connecting, signals>>
    BY <1>11 DEF WorkerOffline, page
  <2> QED
    BY <2>1, <2>2, TryingStays
<1>12. ASSUME NEW w \in Workers, WorkerEnds(w) PROVE Trying'
  <2>0. Only({w})
    BY <1>12, <1>ty, PageMoves DEF Moves, Goes
  <2>1. Alike(Connector)
    BY <2>0, Kinds, Differ DEF Only, Alike
  <2>2. UNCHANGED <<cancel, connecting, signals>>
    BY <1>12 DEF WorkerEnds
  <2> QED
    BY <2>1, <2>2, TryingStays
<1>13. CASE Connect
  <2>1. connecting' /\ signals' = <<>>
    BY <1>13 DEF Connect, PageFree
  <2> QED
    BY <2>1 DEF Trying
<1>14. CASE StateOn
  <2>1. UNCHANGED <<pc, back, after, cancel>> /\ signals # <<>>
    BY <1>14 DEF StateOn, local
  <2>2. GivenUp' = GivenUp
    BY <2>1 DEF GivenUp
  <2> QED
    BY <2>1, <2>2 DEF Trying
<1>15. CASE GatewayOn
  <2>1. Alike(Connector)
    BY <1>15 DEF GatewayOn, local, Alike
  <2>2. UNCHANGED <<cancel, connecting, signals>>
    BY <1>15 DEF GatewayOn
  <2> QED
    BY <2>1, <2>2, TryingStays
<1>16. CASE SwitchTun
  <2>0. Only({Mode})
    BY <1>16, <1>ty, PageMoves DEF Moves, Goes
  <2>1. Alike(Connector)
    BY <2>0, Kinds, Differ DEF Only, Alike
  <2>2. UNCHANGED <<cancel, connecting, signals>>
    BY <1>16 DEF SwitchTun, page
  <2> QED
    BY <2>1, <2>2, TryingStays
<1> QED
  BY <1>st, <1>1, <1>2, <1>3, <1>4, <1>5, <1>6, <1>7, <1>8, <1>9, <1>10, <1>11, <1>12, <1>13,
     <1>14, <1>15, <1>16
     DEF Faultless

\* GatewayManager.stop reads the run before it gives the lease back, and removes the state
\* file of a gateway it brings down.
LEMMA StopFresh ==
  ASSUME Placed, Carried, NoFaults, Fresh, smooth', NEW t \in Threads, StopGateway(t)
  PROVE  /\ pc'[t] = "lease" => seen'[t] = runId
         /\ \A u \in Threads \ {t} : seen'[u] = seen[u]
         /\ file' = "own" => gateway'
<1>1. t # None /\ back[t] # "lease"
  BY Kinds DEF Carried
<1>2. CASE Serialise(t)
  <2>1. pc'[t] # "lease"
    BY <1>2, <1>1, StopMoves DEF Moves, Goes, At
  <2>2. UNCHANGED <<seen, file, gateway>>
    BY <1>2 DEF Serialise, gw, local
  <2> QED
    BY <2>1, <2>2 DEF Fresh
<1>3. CASE NothingToStop(t)
  <2>1. pc'[t] # "lease"
    BY <1>3, <1>1, StopMoves DEF Moves, Goes, At
  <2>2. UNCHANGED <<seen, file, gateway>>
    BY <1>3 DEF NothingToStop, gw
  <2> QED
    BY <2>1, <2>2 DEF Fresh
<1>4. CASE StopBegins(t)
  <2>1. pc'[t] # "lease"
    BY <1>4, <1>1, StopMoves DEF Moves, Goes, At
  <2>2. UNCHANGED <<seen, file, gateway>>
    BY <1>4 DEF StopBegins, local
  <2> QED
    BY <2>1, <2>2 DEF Fresh
<1>5. CASE StopJoins(t)
  <2>1. pc'[t] # "lease"
    BY <1>5, <1>1, StopMoves DEF Moves, Goes, At
  <2>2. UNCHANGED <<seen, file, gateway>>
    BY <1>5 DEF StopJoins, gw, local
  <2> QED
    BY <2>1, <2>2 DEF Fresh
<1>6. CASE StopRestores(t)
  <2>1. pc'[t] = back[t] /\ pc[t] = "end"
    BY <1>6, StopMoves DEF Moves, At
  <2>2. StopEnds(t, FALSE)
    BY <1>6 DEF StopRestores, RestoreFails
  <2>3. file' = "none"
    BY <2>1, <2>2 DEF StopEnds, NoFaults, Fresh
  <2>4. UNCHANGED seen
    BY <1>6 DEF StopRestores
  <2> QED
    BY <1>1, <2>1, <2>3, <2>4
<1>7. CASE StopRestoresAndReleases(t)
  <2>1. seen' = [seen EXCEPT ![t] = runId]
    BY <1>7 DEF StopRestoresAndReleases
  <2>2. UNCHANGED <<file, gateway>>
    BY <1>7 DEF StopRestoresAndReleases, gw
  <2> QED
    BY <2>1, <2>2 DEF Carried, Fresh
<1>8. CASE StopReleases(t)
  <2>1. pc'[t] = back[t] /\ pc[t] = "lease"
    BY <1>8, StopMoves DEF Moves, At
  <2>2. StopEnds(t, t \in failed \/ seen[t] # runId)
    BY <1>8 DEF StopReleases, RestoreFails
  <2>3. file' = "none"
    BY <2>1, <2>2 DEF StopEnds, NoFaults, Fresh
  <2>4. UNCHANGED seen
    BY <1>8 DEF StopReleases
  <2> QED
    BY <1>1, <2>1, <2>3, <2>4
<1> QED
  BY <1>2, <1>3, <1>4, <1>5, <1>6, <1>7, <1>8 DEF StopGateway

\* A step that leaves the run and the gateway alone.
LEMMA FreshStays ==
  ASSUME Fresh, NEW M, Only(M), UNCHANGED <<file, gateway, seen, runId>>,
         \A u \in M : pc'[u] # "lease"
  PROVE  Fresh'
BY DEF Fresh, Only

\* A step that ends a run or begins one, while the gateway is down.
LEMMA FreshCalm ==
  ASSUME Post, Fresh, Calm, NEW t \in Threads, pc[t] # "lease", Only({t}),
         UNCHANGED <<file, gateway>>, pc'[t] # "lease"
  PROVE  Fresh'
<1>1. \A u \in Threads : pc[u] # "lease"
  BY Kinds DEF Calm, Post, Seated, Holds, HoldsManager
<1>2. \A u \in Threads : pc'[u] # "lease"
  BY <1>1 DEF Only
<1> QED
  BY <1>2 DEF Fresh, Calm

\* Fresh is kept.
LEMMA FreshNext ==
  ASSUME Typed, Post, PageInv, NoFaults, Settled, OnTrack, Trying, Fresh, smooth', Faultless
  PROVE  Fresh'
<1>ty. Placed /\ Carried /\ Posted /\ Spent /\ Ran /\ Held
  BY DEF Typed
<1>st. CASE UNCHANGED vars
  BY <1>st DEF vars, engine, gw, local, Fresh
<1>1. ASSUME NEW t \in Threads, StopGateway(t) PROVE Fresh'
  <2>1. StopLeaves(t)
    BY <1>1, <1>ty, StopSteps
  <2>2. /\ pc'[t] = "lease" => seen'[t] = runId
        /\ \A u \in Threads \ {t} : seen'[u] = seen[u]
        /\ file' = "own" => gateway'
    BY <1>1, <1>ty, StopFresh
  <2>3. UNCHANGED runId /\ Only({t})
    BY <2>1 DEF StopLeaves, engine
  <2> QED
    BY <2>2, <2>3 DEF Fresh, Only
<1>2. ASSUME NEW t \in Threads, EngineLock(t) PROVE Fresh'
  <2>1. Only({t}) /\ pc'[t] # "lease"
    BY <1>2, <1>ty, EngineMoves DEF Moves, At
  <2>2. UNCHANGED <<file, gateway, seen, runId>>
    BY <1>2 DEF EngineLock, engine, gw
  <2> QED
    BY <2>1, <2>2, FreshStays
<1>3. ASSUME NEW t \in Threads, StopLocked(t) PROVE Fresh'
  <2>1. Calm
    BY <1>3, <1>ty, Busy DEF StopLocked
  <2>2. pc[t] = "body" /\ Only({t}) /\ pc'[t] # "lease"
    BY <1>3, <1>ty, EngineMoves DEF Moves, At, Carried
  <2>3. UNCHANGED <<file, gateway>>
    BY <1>3 DEF StopLocked, gw
  <2> QED
    BY <2>1, <2>2, <2>3, FreshCalm
<1>4. ASSUME NEW t \in Threads, Attempt(t) PROVE Fresh'
  <2>1. AttemptLeaves
    BY <1>4, <1>ty, AttemptSteps
  <2>2. Calm /\ Only({Connector}) /\ pc[Connector] # "lease" /\ pc'[Connector] # "lease"
    BY <2>1 DEF AttemptLeaves, Settled, Steady
  <2>3. UNCHANGED <<file, gateway>>
    BY <2>1 DEF AttemptLeaves, gw
  <2> QED
    BY <2>2, <2>3, FreshCalm, Kinds
<1>5. ASSUME NEW t \in Threads, Device(t) PROVE Fresh'
  <2>1. DeviceLeaves(t)
    BY <1>5, <1>ty, DeviceSteps
  <2>2. Only({t}) /\ pc'[t] # "lease"
    BY <2>1 DEF DeviceLeaves
  <2>3. UNCHANGED <<file, gateway, seen, runId>>
    BY <2>1 DEF DeviceLeaves, gw, engine
  <2> QED
    BY <2>2, <2>3, FreshStays
<1>6. ASSUME NEW g \in Applies, ApplyMode(g) PROVE Fresh'
  <2>1. ApplyLeaves(g)
    BY <1>6, <1>ty, ApplySteps
  <2>2. UNCHANGED runId
    BY <2>1 DEF ApplyLeaves, engine
  <2>3. file' = "own" => gateway'
    BY <2>1 DEF ApplyLeaves, Fresh
  <2>4. ASSUME NEW u \in Threads, pc'[u] = "lease" PROVE seen'[u] = runId
    <3>1. u # g /\ pc[u] = "lease"
      BY <2>1, <2>4 DEF ApplyLeaves, Only
    <3> QED
      BY <2>1, <3>1 DEF ApplyLeaves, Fresh
  <2> QED
    BY <2>2, <2>3, <2>4 DEF Fresh
<1>7. ASSUME NEW g \in Applies, Disconnect(g) PROVE Fresh'
  <2>1. /\ pc'[UI] # "lease"
        /\ Only({UI}) \/ (Only({UI, g}) /\ pc'[g] = "queued off")
    BY <1>7, <1>ty, PageMoves DEF At
  <2>2. UNCHANGED <<file, gateway, seen, runId>>
    BY <1>7 DEF Disconnect, engine, gw
  <2> QED
    BY <2>1, <2>2, FreshStays
<1>8. ASSUME NEW g \in Applies, StateOff(g) PROVE Fresh'
  <2>1. /\ pc'[UI] # "lease"
        /\ Only({UI}) \/ (Only({UI, g}) /\ pc'[g] = "queued off")
    BY <1>8, <1>ty, PageMoves DEF At
  <2>2. UNCHANGED <<file, gateway, seen, runId>>
    BY <1>8 DEF StateOff, engine, gw
  <2> QED
    BY <2>1, <2>2, FreshStays
<1>9. ASSUME NEW g \in Applies, QueueOn(g) PROVE Fresh'
  <2>1. Only({g}) /\ pc'[g] # "lease"
    BY <1>9, <1>ty, PageMoves DEF Moves, Goes, At
  <2>2. UNCHANGED <<file, gateway, seen, runId>>
    BY <1>9 DEF QueueOn, engine, gw
  <2> QED
    BY <2>1, <2>2, FreshStays
<1>10. ASSUME NEW g \in Applies, GatewayOff(g) PROVE Fresh'
  <2>1. Only({g}) /\ pc'[g] # "lease"
    BY <1>10, <1>ty, PageMoves DEF Moves, Goes, At
  <2>2. UNCHANGED <<file, gateway, seen, runId>>
    BY <1>10 DEF GatewayOff, engine, gw
  <2> QED
    BY <2>1, <2>2, FreshStays
<1>11. ASSUME NEW w \in Workers, WorkerOffline(w) PROVE Fresh'
  <2>1. Only({w}) /\ pc'[w] # "lease"
    BY <1>11, <1>ty, PageMoves DEF Moves, Goes, At
  <2>2. UNCHANGED <<file, gateway, seen, runId>>
    BY <1>11 DEF WorkerOffline, engine, gw
  <2> QED
    BY <2>1, <2>2, FreshStays
<1>12. ASSUME NEW w \in Workers, WorkerEnds(w) PROVE Fresh'
  <2>1. Only({w}) /\ pc'[w] # "lease"
    BY <1>12, <1>ty, PageMoves DEF Moves, Goes, At
  <2>2. UNCHANGED <<file, gateway, seen, runId>>
    BY <1>12 DEF WorkerEnds, engine, gw, local
  <2> QED
    BY <2>1, <2>2, FreshStays
<1>13. CASE Connect
  <2>1. Only({Connector}) /\ pc'[Connector] # "lease"
    BY <1>13, <1>ty, PageMoves DEF Moves, Goes, At
  <2>2. UNCHANGED <<file, gateway, seen, runId>>
    BY <1>13 DEF Connect, engine, gw, local
  <2> QED
    BY <2>1, <2>2, FreshStays
<1>14. CASE StateOn
  <2>1. UNCHANGED <<file, gateway, seen, runId, pc>>
    BY <1>14 DEF StateOn, engine, gw, local
  <2> QED
    BY <2>1 DEF Fresh
<1>15. CASE GatewayOn
  <2>1. UNCHANGED <<file, gateway, seen, runId, pc>>
    BY <1>15 DEF GatewayOn, engine, gw, local
  <2> QED
    BY <2>1 DEF Fresh
<1>16. CASE SwitchTun
  <2>1. Only({Mode}) /\ pc'[Mode] # "lease"
    BY <1>16, <1>ty, PageMoves DEF Moves, Goes, At
  <2>2. UNCHANGED <<file, gateway, seen, runId>>
    BY <1>16 DEF SwitchTun, engine, gw
  <2> QED
    BY <2>1, <2>2, FreshStays
<1> QED
  BY <1>st, <1>1, <1>2, <1>3, <1>4, <1>5, <1>6, <1>7, <1>8, <1>9, <1>10, <1>11, <1>12, <1>13,
     <1>14, <1>15, <1>16
     DEF Faultless

\* At first nothing is stale, unless a dead instance has left its state file.
LEMMA SmoothInit == Init => SmoothInv
<1> SUFFICES ASSUME Init, smooth PROVE NoFaults /\ Settled /\ OnTrack /\ Trying /\ Fresh
  BY DEF SmoothInv
<1>1. /\ file = "none" /\ failed = {} /\ ~active /\ ~gateway /\ manager = None /\ gate = None
      /\ \A t \in Threads : pc[t] = "idle"
  BY DEF Init
<1>2. NoFaults /\ Settled
  BY <1>1, Kinds DEF NoFaults, Settled, Calm
<1>3. OnTrack /\ Trying /\ Fresh
  BY <1>1, Kinds DEF OnTrack, Trying, Fresh
<1> QED
  BY <1>2, <1>3

\* Every step keeps SmoothInv.
LEMMA SmoothNext == Typed /\ Post /\ PageInv /\ SmoothInv /\ [Next]_vars => SmoothInv'
<1> SUFFICES ASSUME Typed, Post, PageInv, SmoothInv, [Next]_vars, smooth'
             PROVE  (NoFaults /\ Settled /\ OnTrack /\ Trying /\ Fresh)'
  BY DEF SmoothInv
<1>1. smooth
  BY SmoothBefore
<1>2. NoFaults /\ Settled /\ OnTrack /\ Trying /\ Fresh
  BY <1>1 DEF SmoothInv
<1>3. Faultless
  BY <1>2, WithoutFault
<1> QED
  BY <1>2, <1>3, NoFaultsNext, SettledNext, OnTrackNext, TryingNext, FreshNext

\* A gateway-mode thread that ends without telling the page leaves the gateway switch
\* locked at rest only when a fault came between, and only while Xray runs (ui.py:6544).
THEOREM ToggleIsFreed == Spec => []ToggleFree
<1>1. Init => GateInv
  BY Kinds DEF Init, GateInv
<1>2. Typed /\ Post /\ PageInv /\ GateInv /\ SmoothInv => ToggleFree
  <2> SUFFICES ASSUME Typed, Post, PageInv, GateInv, SmoothInv, Quiet, signals = <<>>, gate # None
               PROVE  Running /\ ~smooth
    BY DEF ToggleFree
  <2>1. PICK g \in Applies : gate = g
    BY DEF Typed, Paged
  <2>2. pc[g] \in {"idle", "done", "watch"}
    BY Kinds DEF Quiet
  <2>3. ~Off(g) /\ pc[g] \notin Track
    BY <2>2 DEF Off, Track, OnPath, Starting, Stopping
  <2>4. shown
    BY <2>1, <2>3 DEF GateInv
  <2>5. ~smooth
    BY <2>1, <2>3 DEF SmoothInv, OnTrack, Wanted
  <2> QED
    BY <2>4, <2>5, AtRest DEF PageAgrees
<1> QED
  BY <1>1, <1>2, Core, PageInit, PageNext, GateNext, SmoothInit, SmoothNext, PTL DEF Spec

\* Threads that stop and start the engine and the gateway never wait for each other in a
\* circle (engine.py:3125, gateway.py:1565, 2131): while a thread holds the lifecycle lock the
\* gateway is down, so that nobody holds the manager's lock; and otherwise the locks are taken
\* in the order serial, manager, lifecycle.
THEOREM NeverACircle == Spec => []NoCircularWait
<1>1. Typed /\ Post /\ SmoothInv => NoCircularWait
  <2> SUFFICES ASSUME Typed, Post, SmoothInv, smooth, Circle PROVE FALSE
    BY DEF NoCircularWait
  <2>0. PICK L \in (SUBSET Locks) \ {{}} :
               \A l \in L : Holder[l] # None /\ Wants(Holder[l]) \in L
    BY DEF Circle
  <2>ty. Placed /\ Carried /\ Held /\ NoFaults /\ Settled
    BY DEF Typed, SmoothInv
  <2>1. /\ L # {} /\ L \subseteq {"lifecycle", "serial", "manager", "applying"}
        /\ Holder["lifecycle"] = lifecycle /\ Holder["serial"] = serial
        /\ Holder["manager"] = manager /\ Holder["applying"] = applying
    BY DEF Locks, Holder
  <2>2. "lifecycle" \notin L
    <3> SUFFICES ASSUME "lifecycle" \in L PROVE FALSE
      OBVIOUS
    <3>1. lifecycle \in Threads /\ Wants(lifecycle) \in L
      BY <2>0, <2>1, <2>ty DEF Held
    <3>2. HoldsLifecycle(pc[lifecycle], back[lifecycle])
      BY <3>1 DEF Post, Seated, Holds
    <3>3. pc[lifecycle] # "lease"
      BY <3>1, <3>2 DEF Post, Seated, Holds, HoldsLifecycle, Stopping
    <3>4. Calm
      <4>1. pc[lifecycle] # "idle" /\ ~(pc[lifecycle] \in Stopping /\ back[lifecycle] = "lock")
        BY <3>2 DEF HoldsLifecycle, Stopping
      <4>2. lifecycle \in {UI, Connector}
        BY <2>ty, <3>1, <3>2 DEF Post, Seated, Fits, InStop, HoldsLifecycle, NoFaults, Stopping
      <4> QED
        BY <2>ty, <4>1, <4>2 DEF Settled, Steady, FirstStop
    <3>5. "manager" \notin L
      BY <2>0, <2>1, <3>4 DEF Calm
    <3>6. Wants(lifecycle) = "serial"
      BY <2>1, <3>1, <3>2, <3>3, <3>4, <3>5 DEF HoldsLifecycle, Stopping, Wants, Calm
    <3>7. serial \in Threads /\ Wants(serial) \in L
      BY <2>0, <2>1, <2>ty, <3>1, <3>6 DEF Held
    <3>8. /\ pc[serial] \in {"begin", "join", "end", "lease"}
          /\ pc[serial] = "lease" => manager = serial
      BY <3>7 DEF Post, Seated, Holds, HoldsSerial, HoldsManager, Stopping
    <3>9. pc[serial] = "begin"
      BY <2>ty, <3>4, <3>7, <3>8, Kinds DEF Calm
    <3>10. Wants(serial) = "manager"
      BY <3>9 DEF Wants
    <3> QED
      BY <3>5, <3>7, <3>10
  <2>3. "manager" \notin L
    <3> SUFFICES ASSUME "manager" \in L PROVE FALSE
      OBVIOUS
    <3>1. manager \in Threads /\ Wants(manager) \in L
      BY <2>0, <2>1, <2>ty DEF Held
    <3>2. pc[manager] \in {"lease", "detect", "acquire", "adapter", "return", "apply", "undo"}
      BY <2>ty, <3>1 DEF Post, Seated, Holds, HoldsManager, Starting, NoFaults
    <3>3. Wants(manager) \in {"lifecycle", "none"}
      BY <3>2 DEF Wants
    <3> QED
      BY <2>1, <2>2, <3>1, <3>3
  <2>4. "serial" \notin L
    <3> SUFFICES ASSUME "serial" \in L PROVE FALSE
      OBVIOUS
    <3>1. serial \in Threads /\ Wants(serial) \in L
      BY <2>0, <2>1, <2>ty DEF Held
    <3>2. pc[serial] \in {"begin", "join", "end", "lease"}
      BY <3>1 DEF Post, Seated, Holds, HoldsSerial, Stopping
    <3>3. Wants(serial) \in {"manager", "lifecycle", "none"}
      BY <3>2 DEF Wants
    <3> QED
      BY <2>1, <2>2, <2>3, <3>1, <3>3
  <2>5. "applying" \notin L
    <3> SUFFICES ASSUME "applying" \in L PROVE FALSE
      OBVIOUS
    <3>1. applying \in Threads /\ Wants(applying) = "applying"
      BY <2>0, <2>1, <2>2, <2>3, <2>4, <2>ty, Kinds DEF Held
    <3>2. HoldsApplying(pc[applying], back[applying])
      BY <3>1 DEF Post, Seated, Holds
    <3>3. pc[applying] \notin {"queued on", "queued off"}
      BY <3>2 DEF HoldsApplying, Stopping
    <3> QED
      BY <3>1, <3>3 DEF Wants
  <2> QED
    BY <2>1, <2>2, <2>3, <2>4, <2>5
<1> QED
  BY <1>1, Core, PageInit, PageNext, SmoothInit, SmoothNext, PTL DEF Spec

\* Threads M take a step that leaves the gateway, the lease and the run alone.
LEMMA LeaseStays ==
  ASSUME LeaseInv, NEW M, Only(M), UNCHANGED <<file, gateway, lease, runId>>,
         \A u \in Threads \ M : seen'[u] = seen[u],
         \A u \in M : /\ pc'[u] \notin Starting \ {"ready"} /\ pc'[u] \notin {"lease", "spawn"}
                      /\ GivesBack(u) => GivesBack(u)'
  PROVE  LeaseInv'
<1>1. ASSUME NEW u \in Threads PROVE Relies(u)' /\ (GivesBack(u) => GivesBack(u)')
  <2>1. CASE u \in M
    BY <1>1, <2>1 DEF Relies, Starting
  <2>2. CASE u \notin M
    BY <1>1, <2>2 DEF Only, LeaseInv, Relies, GivesBack
  <2> QED
    BY <2>1, <2>2
<1> QED
  BY <1>1 DEF LeaseInv

\* A step that leaves the gateway alone and no lease behind.
LEMMA LeaseGone ==
  ASSUME LeaseInv, NEW M, Only(M), UNCHANGED <<file, gateway>>, ~lease',
         \A u \in M : pc'[u] \notin Starting \ {"ready"} /\ pc'[u] # "lease"
  PROVE  LeaseInv'
<1>1. ASSUME NEW u \in Threads PROVE Relies(u)'
  <2>1. CASE u \in M
    BY <1>1, <2>1 DEF Relies, Starting
  <2>2. CASE u \notin M
    BY <1>1, <2>2 DEF Only, LeaseInv, Relies
  <2> QED
    BY <2>1, <2>2
<1> QED
  BY <1>1 DEF LeaseInv

\* A step of the thread t that holds the manager's lock, or finds it free: no other thread
\* relies on the state file.
LEMMA LeaseHolder ==
  ASSUME Post, LeaseInv, NEW t \in Threads, manager \in {t, None},
         Only({t} \union Workers),
         \A w \in Workers \ {t} : pc'[w] \in {pc[w], "watch"} /\ back'[w] = back[w],
         Relies(t)', file' = "stale" => ~lease', gateway' => file' = "own",
         lease' => lease \/ lifecycle = None,
         lease' => \/ file' = "own" \/ GivesBack(t)'
                   \/ lease /\ file # "own" /\ ~GivesBack(t)
  PROVE  LeaseInv'
<1>1. ASSUME NEW u \in Threads, u # t PROVE Relies(u)'
  <2>1. pc[u] \notin Starting \ {"ready"} /\ pc[u] # "lease"
    BY <1>1, Alone
  <2>2. pc'[u] = pc[u] \/ pc'[u] = "watch"
    BY <1>1 DEF Only
  <2>3. pc[u] = "spawn" => ~lease /\ lifecycle # None
    BY <1>1, Kinds DEF LeaseInv, Relies, Post, Seated, Holds, HoldsLifecycle
  <2>4. pc'[u] = "spawn" => ~lease'
    BY <2>2, <2>3
  <2> QED
    BY <2>1, <2>2, <2>4 DEF Relies, Starting
<1>2. ASSUME NEW u \in Threads, GivesBack(u), u # t PROVE GivesBack(u)'
  <2>1. u \notin Workers
    BY <1>2, Differ DEF Post, Seated, Fits, GivesBack, Modes, OnPath, Starting, InStop
  <2> QED
    BY <1>2, <2>1 DEF Only, GivesBack
<1>3. lease' => file' = "own" \/ \E u \in Threads : GivesBack(u)'
  BY <1>2 DEF LeaseInv
<1> QED
  BY <1>1, <1>3 DEF LeaseInv

\* GatewayManager.stop keeps LeaseInv.
LEMMA LeaseStop ==
  ASSUME Typed, Post, LeaseInv, NEW t \in Threads, StopGateway(t)
  PROVE  LeaseInv'
<1>ty. Placed /\ Carried
  BY DEF Typed
<1>1. t # None /\ back[t] \in {"lock", "body", "applied", "disabled", "leave", "ended"}
  BY <1>ty, Kinds DEF Carried
<1>2. Only({t}) => /\ Only({t} \union Workers)
                   /\ \A w \in Workers \ {t} : pc'[w] \in {pc[w], "watch"} /\ back'[w] = back[w]
  BY Kinds DEF Only
<1>3. back[t] \notin Starting
  BY <1>1 DEF Starting
<1>4. CASE Serialise(t)
  <2>1. Only({t}) /\ pc'[t] = "begin" /\ pc[t] \in {"serial", "begin", "join"}
        /\ back'[t] = back[t]
    BY <1>4, <1>ty, StopMoves DEF Moves, Goes, At
  <2>2. UNCHANGED <<file, gateway, lease, runId, seen>>
    BY <1>4 DEF Serialise, engine, device, gw, local
  <2>3. pc'[t] \notin Starting /\ pc'[t] \notin {"lease", "spawn"}
    BY <1>1, <2>1 DEF Starting
  <2>4. GivesBack(t) => GivesBack(t)'
    BY <2>1 DEF GivesBack, Stopping
  <2> QED
    BY <2>1, <2>2, <2>3, <2>4, LeaseStays
<1>5. CASE NothingToStop(t)
  <2>1. Only({t}) /\ pc'[t] = back[t] /\ pc[t] \in {"serial", "begin", "join"}
    BY <1>5, <1>ty, StopMoves DEF Moves, Goes, At
  <2>2. UNCHANGED <<file, gateway, lease, runId, seen>>
    BY <1>5 DEF NothingToStop, engine, device, gw
  <2>3. pc'[t] \notin Starting /\ pc'[t] \notin {"lease", "spawn"}
    BY <1>1, <2>1 DEF Starting
  <2>4. GivesBack(t) => GivesBack(t)'
    BY <2>1 DEF GivesBack, Stopping
  <2> QED
    BY <2>1, <2>2, <2>3, <2>4, LeaseStays
<1>6. CASE StopBegins(t)
  <2>1. Only({t}) /\ pc'[t] = "join" /\ pc[t] \in {"serial", "begin", "join"}
        /\ back'[t] = back[t]
    BY <1>6, <1>ty, StopMoves DEF Moves, Goes, At
  <2>2. UNCHANGED <<file, gateway, lease, runId, seen>>
    BY <1>6 DEF StopBegins, engine, device, local
  <2>3. pc'[t] \notin Starting /\ pc'[t] \notin {"lease", "spawn"}
    BY <1>1, <2>1 DEF Starting
  <2>4. GivesBack(t) => GivesBack(t)'
    BY <2>1 DEF GivesBack, Stopping
  <2> QED
    BY <2>1, <2>2, <2>3, <2>4, LeaseStays
<1>7. CASE StopJoins(t)
  <2>1. Only({t}) /\ pc'[t] = "end" /\ pc[t] \in {"serial", "begin", "join"}
        /\ back'[t] = back[t]
    BY <1>7, <1>ty, StopMoves DEF Moves, Goes, At
  <2>2. UNCHANGED <<file, gateway, lease, runId, seen>>
    BY <1>7 DEF StopJoins, engine, device, gw, local
  <2>3. pc'[t] \notin Starting /\ pc'[t] \notin {"lease", "spawn"}
    BY <1>1, <2>1 DEF Starting
  <2>4. GivesBack(t) => GivesBack(t)'
    BY <2>1 DEF GivesBack, Stopping
  <2> QED
    BY <2>1, <2>2, <2>3, <2>4, LeaseStays
<1>8. CASE StopRestores(t)
  <2>1. Only({t}) /\ pc'[t] = back[t] /\ pc[t] = "end"
    BY <1>8, <1>ty, StopMoves DEF Moves, Goes, At
  <2>2. manager = None /\ file' \in {file, "none"} /\ ~gateway' /\ UNCHANGED lease
    BY <1>8 DEF StopRestores, StopEnds, device
  <2>3. back[t] \in {"lock", "body"} \/ file = "none"
    BY <1>8 DEF StopRestores, EngineStopping
  <2>4. Relies(t)'
    BY <1>1, <1>3, <2>1 DEF Relies
  <2>5. file' = "stale" => ~lease'
    BY <2>2 DEF LeaseInv
  <2>6. \/ GivesBack(t)'
        \/ file # "own" /\ ~GivesBack(t)
    BY <1>1, <2>1, <2>3 DEF GivesBack
  <2> QED
    BY <1>2, <2>1, <2>2, <2>4, <2>5, <2>6, LeaseHolder
<1>9. CASE StopRestoresAndReleases(t)
  <2>1. Only({t}) /\ pc'[t] = "lease" /\ pc[t] = "end" /\ back[t] \notin {"lock", "body"}
    BY <1>9, <1>ty, StopMoves DEF Moves, Goes, At
  <2>2. manager = None /\ file # "none" /\ UNCHANGED <<file, gateway, lease>>
    BY <1>9 DEF StopRestoresAndReleases, gw, device
  <2>4. Relies(t)'
    BY <2>1, <2>2 DEF Relies, Starting
  <2>6. ~GivesBack(t)
    BY <2>1 DEF GivesBack
  <2> QED
    BY <1>2, <2>1, <2>2, <2>4, <2>6, LeaseHolder DEF LeaseInv
<1>10. CASE StopReleases(t)
  <2>1. Only({t}) /\ pc'[t] = back[t] /\ pc[t] = "lease"
    BY <1>10, <1>ty, StopMoves DEF Moves, Goes, At
  <2>2. manager = t /\ back[t] \notin {"lock", "body"}
    BY <2>1 DEF Post, Seated, Holds, HoldsManager
  <2>3. /\ file' \in {file, "none"} /\ ~gateway'
        /\ ~lease' \/ (lease' = lease /\ file' = file)
    BY <1>10 DEF StopReleases, StopEnds, ReleaseLease, device
  <2>4. Relies(t)'
    BY <1>1, <1>3, <2>1 DEF Relies
  <2>5. file' = "stale" => ~lease'
    BY <2>3 DEF LeaseInv
  <2>6. ~GivesBack(t)
    BY <2>1, <2>2 DEF GivesBack
  <2>7. lease' => lease /\ (file' = "own" \/ file # "own")
    BY <2>3
  <2> QED
    BY <1>2, <2>1, <2>2, <2>3, <2>4, <2>5, <2>6, <2>7, LeaseHolder
<1> QED
  BY <1>4, <1>5, <1>6, <1>7, <1>8, <1>9, <1>10 DEF StopGateway

\* A gateway-mode thread keeps LeaseInv.
LEMMA LeaseApply ==
  ASSUME Typed, Post, LeaseInv, NEW g \in Applies, ApplyMode(g)
  PROVE  LeaseInv'
<1>ty. Placed /\ Carried /\ Leased
  BY DEF Typed
<1>1. /\ g \in Threads /\ g # None /\ g \notin Workers
      /\ back[g] \in {"lock", "body", "applied", "disabled", "leave", "ended"}
  BY <1>ty, Kinds, Differ DEF Carried
<1>2. Only({g}) => /\ Only({g} \union Workers)
                   /\ \A w \in Workers \ {g} : pc'[w] \in {pc[w], "watch"} /\ back'[w] = back[w]
  BY <1>1, Kinds DEF Only
<1>3. Relies(g)
  BY <1>1 DEF LeaseInv
<1>4. pc[g] \in Starting \ {"ready"} => manager = g
  BY <1>1 DEF Post, Seated, Holds, HoldsManager
<1>5. CASE Overtaken(g)
  <2>1. pc[g] \in {"queued on", "queued off"} /\ Goes(g, "done")
    BY <1>5, <1>ty, ApplyMoves
  <2>2. UNCHANGED <<file, gateway, lease, runId, seen>>
    BY <1>5 DEF Overtaken, engine, device, gw, local
  <2>3. /\ Only({g}) /\ pc'[g] \notin Starting \ {"ready"} /\ pc'[g] \notin {"lease", "spawn"}
        /\ ~GivesBack(g)
    BY <2>1 DEF Moves, Goes, At, Starting, GivesBack, Stopping
  <2> QED
    BY <2>2, <2>3, LeaseStays
<1>6. CASE ApplyOn(g)
  <2>1. pc[g] = "queued on" /\ Goes(g, "check on")
    BY <1>6, <1>ty, ApplyMoves
  <2>2. UNCHANGED <<file, gateway, lease, runId, seen>>
    BY <1>6 DEF ApplyOn, engine, device, gw, local
  <2>3. /\ Only({g}) /\ pc'[g] \notin Starting \ {"ready"} /\ pc'[g] \notin {"lease", "spawn"}
        /\ ~GivesBack(g)
    BY <2>1 DEF Moves, Goes, At, Starting, GivesBack, Stopping
  <2> QED
    BY <2>2, <2>3, LeaseStays
<1>7. CASE CheckOn(g)
  <2>1. /\ pc[g] = "check on"
        /\ \/ Goes(g, "ready")
           \/ Goes(g, "applied")
    BY <1>7, <1>ty, ApplyMoves
  <2>2. UNCHANGED <<file, gateway, lease, runId, seen>>
    BY <1>7 DEF CheckOn, engine, device, gw, local
  <2>3. /\ Only({g}) /\ pc'[g] \notin Starting \ {"ready"} /\ pc'[g] \notin {"lease", "spawn"}
        /\ ~GivesBack(g)
    BY <2>1 DEF Moves, Goes, At, Starting, GivesBack, Stopping
  <2> QED
    BY <2>2, <2>3, LeaseStays
<1>8. CASE StartReturns(g)
  <2>1. /\ pc[g] = "ready"
        /\ \/ Goes(g, "started")
           \/ Goes(g, "applied")
    BY <1>8, <1>ty, ApplyMoves
  <2>2. UNCHANGED <<file, gateway, lease, runId, seen>>
    BY <1>8 DEF StartReturns, engine, device, gw, local
  <2>3. /\ Only({g}) /\ pc'[g] \notin Starting \ {"ready"} /\ pc'[g] \notin {"lease", "spawn"}
        /\ ~GivesBack(g)
    BY <2>1 DEF Moves, Goes, At, Starting, GivesBack, Stopping
  <2> QED
    BY <2>2, <2>3, LeaseStays
<1>9. CASE StartGateway(g)
  <2>1. Only({g}) /\ pc[g] = "ready" /\ manager = None
    BY <1>9, <1>ty, ApplyMoves DEF StartGateway, Moves, Goes
  <2>2. ~gateway /\ UNCHANGED <<file, gateway, lease>>
    BY <1>9 DEF StartGateway, gw, device
  <2>3. (file = "none" /\ pc'[g] = "detect") \/ (file = "stale" /\ pc'[g] = "recover")
    BY <1>9, <1>ty, <1>1 DEF StartGateway, Go, Placed
  <2>4. Relies(g)'
    BY <2>2, <2>3 DEF Relies, Starting
  <2>5. ~GivesBack(g)
    BY <2>1 DEF GivesBack, Stopping
  <2> QED
    BY <1>1, <1>2, <2>1, <2>2, <2>3, <2>4, <2>5, LeaseHolder DEF LeaseInv
<1>10. CASE Recover(g)
  <2>1. Only({g}) /\ pc[g] = "recover"
    <3>1. /\ pc[g] = "recover"
          /\ \/ Goes(g, "detect") /\ manager' = manager
             \/ Goes(g, "applied") /\ manager' = None
      BY <1>10, <1>ty, ApplyMoves
    <3> QED
      BY <3>1 DEF Moves, Goes
  <2>2. file = "stale" /\ ~lease /\ ~gateway /\ manager = g
    BY <1>3, <1>4, <2>1 DEF Relies, LeaseInv, Starting
  <2>3. UNCHANGED <<gateway, lease>>
    BY <1>10 DEF Recover, device
  <2>4. (file' = "none" /\ pc'[g] = "detect") \/ pc'[g] = "applied"
    BY <1>10, <1>ty, <1>1 DEF Recover, Raise, Go, Placed
  <2>5. Relies(g)'
    BY <2>2, <2>3, <2>4 DEF Relies, Starting
  <2> QED
    BY <1>1, <1>2, <2>1, <2>2, <2>3, <2>5, LeaseHolder
<1>11. CASE Detect(g)
  <2>1. Only({g}) /\ pc[g] = "detect" /\ pc'[g] \in {"acquire", "applied"}
    <3>1. /\ pc[g] = "detect"
          /\ \/ Goes(g, "acquire") /\ manager' = manager
             \/ Goes(g, "applied") /\ manager' = None
      BY <1>11, <1>ty, ApplyMoves
    <3> QED
      BY <3>1 DEF Moves, Goes, At
  <2>2. file = "none" /\ ~gateway /\ manager = g
    BY <1>3, <1>4, <2>1 DEF Relies, Starting
  <2>3. UNCHANGED <<file, gateway, lease>>
    BY <1>11 DEF Detect, gw, device
  <2>5. Relies(g)' /\ ~GivesBack(g)
    BY <2>1, <2>2, <2>3 DEF Relies, Starting, GivesBack, Stopping
  <2> QED
    BY <1>1, <1>2, <2>1, <2>2, <2>3, <2>5, LeaseHolder
<1>12. CASE Acquire(g)
  <2>1. Only({g}) /\ pc[g] = "acquire" /\ pc'[g] = "adapter"
    <3>1. pc[g] = "acquire" /\ Goes(g, "adapter")
      BY <1>12, <1>ty, ApplyMoves
    <3> QED
      BY <3>1 DEF Moves, Goes, At
  <2>2. file = "none" /\ ~gateway /\ manager = g
    BY <1>3, <1>4, <2>1 DEF Relies, Starting
  <2>3. lifecycle = None /\ UNCHANGED <<file, gateway>>
    BY <1>12 DEF Acquire, gw
  <2>5. Relies(g)' /\ GivesBack(g)'
    BY <2>1, <2>2, <2>3 DEF Relies, Starting, GivesBack
  <2> QED
    BY <1>1, <1>2, <2>1, <2>2, <2>3, <2>5, LeaseHolder
<1>13. CASE AcquireRaises(g)
  <2>1. pc[g] = "acquire" /\ Goes(g, "applied")
    BY <1>13, <1>ty, ApplyMoves
  <2>2. UNCHANGED <<file, gateway, lease, runId, seen>>
    BY <1>13 DEF AcquireRaises, engine, device, gw, local
  <2>3. /\ Only({g}) /\ pc'[g] \notin Starting \ {"ready"} /\ pc'[g] \notin {"lease", "spawn"}
        /\ ~GivesBack(g)
    BY <2>1 DEF Moves, Goes, At, Starting, GivesBack, Stopping
  <2> QED
    BY <2>2, <2>3, LeaseStays
<1>14. CASE AdapterUp(g)
  <2>1. Only({g}) /\ pc[g] = "adapter" /\ pc'[g] = "apply"
    <3>1. pc[g] = "adapter" /\ Goes(g, "apply")
      BY <1>14, <1>ty, ApplyMoves
    <3> QED
      BY <3>1 DEF Moves, Goes, At
  <2>2. file = "none" /\ ~gateway /\ manager = g
    BY <1>3, <1>4, <2>1 DEF Relies, Starting
  <2>3. UNCHANGED <<file, gateway, lease>>
    BY <1>14 DEF AdapterUp, gw, device
  <2>5. Relies(g)' /\ GivesBack(g)'
    BY <2>1, <2>2, <2>3 DEF Relies, Starting, GivesBack
  <2> QED
    BY <1>1, <1>2, <2>1, <2>2, <2>3, <2>5, LeaseHolder
<1>15. CASE AdapterMissing(g)
  <2>1. Only({g}) /\ pc[g] = "adapter" /\ pc'[g] = "return"
    <3>1. pc[g] = "adapter" /\ Goes(g, "return")
      BY <1>15, <1>ty, ApplyMoves
    <3> QED
      BY <3>1 DEF Moves, Goes, At
  <2>2. file = "none" /\ ~gateway /\ manager = g
    BY <1>3, <1>4, <2>1 DEF Relies, Starting
  <2>3. UNCHANGED <<file, gateway, lease, runId>>
    BY <1>15 DEF AdapterMissing, gw, device, engine
  <2>4. seen'[g] = runId
    BY <1>15, <1>ty, <1>1 DEF AdapterMissing, Carried
  <2>5. Relies(g)' /\ GivesBack(g)'
    BY <2>1, <2>2, <2>3, <2>4 DEF Relies, Starting, GivesBack
  <2> QED
    BY <1>1, <1>2, <2>1, <2>2, <2>3, <2>5, LeaseHolder
<1>16. CASE ReturnLease(g)
  <2>1. Only({g}) /\ pc[g] = "return"
    <3>1. /\ pc[g] = "return"
          /\ \/ Goes(g, "detect") /\ manager' = manager
             \/ Goes(g, "applied") /\ manager' = None
             \/ Goes(g, "undo") /\ manager' = manager
      BY <1>16, <1>ty, ApplyMoves
    <3> QED
      BY <3>1 DEF Moves, Goes
  <2>2. file = "none" /\ ~gateway /\ manager = g
    BY <1>3, <1>4, <2>1 DEF Relies, Starting
  <2>3. UNCHANGED <<file, gateway, runId>>
    BY <1>16 DEF ReturnLease, gw, engine
  <2>4. \/ ~lease' /\ pc'[g] \in {"detect", "applied"}
        \/ ~lease' /\ pc'[g] = "undo"
    <3>1. CASE seen[g] = runId
      BY <1>16, <1>ty, <1>1, <3>1 DEF ReturnLease, ReleaseLease, Raise, Go, Placed
    <3>2. CASE seen[g] # runId
      <4>1. ~lease
        BY <1>3, <2>1, <3>2 DEF Relies
      <4> QED
        BY <1>16, <1>ty, <1>1, <3>2, <4>1 DEF ReturnLease, device, Go, Placed
    <3> QED
      BY <3>1, <3>2
  <2>5. Relies(g)'
    BY <2>2, <2>3, <2>4 DEF Relies, Starting
  <2> QED
    BY <1>1, <1>2, <2>1, <2>2, <2>3, <2>4, <2>5, LeaseHolder
<1>17. CASE ApplyGateway(g)
  <2>0. PICK w \in Workers : /\ pc[w] = "idle" /\ Only({g, w})
                             /\ At(g, "started", back[g], after[g])
                             /\ At(w, "watch", back[w], after[w])
    BY <1>17, <1>ty, ApplyMoves
  <2>1. /\ Only({g} \union Workers) /\ pc'[g] = "started"
        /\ \A u \in Workers \ {g} : pc'[u] \in {pc[u], "watch"} /\ back'[u] = back[u]
    BY <1>1, <2>0, Kinds DEF Only, At
  <2>2. pc[g] = "apply" /\ file' = "own" /\ UNCHANGED lease
    BY <1>17 DEF ApplyGateway, device
  <2>3. manager = g
    BY <1>4, <2>2 DEF Starting
  <2>4. Relies(g)'
    BY <2>1 DEF Relies, Starting
  <2> QED
    BY <1>1, <2>1, <2>2, <2>3, <2>4, LeaseHolder
<1>18. CASE ApplyFails(g)
  <2>1. Only({g}) /\ pc[g] \in {"adapter", "apply"} /\ pc'[g] = "undo"
    <3>1. pc[g] \in {"apply", "adapter"} /\ Goes(g, "undo")
      BY <1>18, <1>ty, ApplyMoves
    <3> QED
      BY <3>1 DEF Moves, Goes, At
  <2>2. file = "none" /\ ~gateway /\ manager = g
    BY <1>3, <1>4, <2>1 DEF Relies, Starting
  <2>3. UNCHANGED <<gateway, lease, runId>> /\ file' \in {file, "own"}
    BY <1>18 DEF ApplyFails, device, engine
  <2>4. seen'[g] = runId
    BY <1>18, <1>ty, <1>1 DEF ApplyFails, Carried
  <2>5. Relies(g)' /\ GivesBack(g)'
    BY <2>1, <2>2, <2>3, <2>4 DEF Relies, Starting, GivesBack
  <2> QED
    BY <1>1, <1>2, <2>1, <2>2, <2>3, <2>5, LeaseHolder
<1>19. CASE UndoLease(g)
  <2>1. Only({g}) /\ pc[g] = "undo" /\ pc'[g] = "applied"
    <3>1. pc[g] = "undo" /\ Goes(g, "applied")
      BY <1>19, <1>ty, ApplyMoves
    <3> QED
      BY <3>1 DEF Moves, Goes, At
  <2>3. UNCHANGED <<file, gateway>>
    BY <1>19 DEF UndoLease, gw
  <2>4. ~lease'
    BY <1>19, <1>3, <2>1 DEF UndoLease, ReleaseLease, device, Relies
  <2> QED
    BY <2>1, <2>3, <2>4, LeaseGone DEF Starting
<1>20. CASE StartedStale(g)
  <2>1. pc[g] = "started" /\ Moves(g, "serial", "applied", after[g])
    BY <1>20, <1>ty, ApplyMoves
  <2>2. UNCHANGED <<file, gateway, lease, runId, seen>>
    BY <1>20 DEF StartedStale, engine, device, gw
  <2>3. /\ Only({g}) /\ pc'[g] \notin Starting \ {"ready"} /\ pc'[g] \notin {"lease", "spawn"}
        /\ ~GivesBack(g)
    BY <2>1 DEF Moves, Goes, At, Starting, GivesBack, Stopping
  <2> QED
    BY <2>2, <2>3, LeaseStays
<1>21. CASE Started(g)
  <2>1. pc[g] = "started" /\ Goes(g, "current")
    BY <1>21, <1>ty, ApplyMoves
  <2>2. UNCHANGED <<file, gateway, lease, runId, seen>>
    BY <1>21 DEF Started, engine, device, gw, local
  <2>3. /\ Only({g}) /\ pc'[g] \notin Starting \ {"ready"} /\ pc'[g] \notin {"lease", "spawn"}
        /\ ~GivesBack(g)
    BY <2>1 DEF Moves, Goes, At, Starting, GivesBack, Stopping
  <2> QED
    BY <2>2, <2>3, LeaseStays
<1>22. CASE StillCurrent(g)
  <2>1. /\ pc[g] = "current"
        /\ \/ Goes(g, "applied")
           \/ Goes(g, "drop")
    BY <1>22, <1>ty, ApplyMoves
  <2>2. UNCHANGED <<file, gateway, lease, runId, seen>>
    BY <1>22 DEF StillCurrent, engine, device, gw, local
  <2>3. /\ Only({g}) /\ pc'[g] \notin Starting \ {"ready"} /\ pc'[g] \notin {"lease", "spawn"}
        /\ ~GivesBack(g)
    BY <2>1 DEF Moves, Goes, At, Starting, GivesBack, Stopping
  <2> QED
    BY <2>2, <2>3, LeaseStays
<1>23. CASE ApplyOff(g)
  <2>1. pc[g] = "queued off" /\ Goes(g, "check off")
    BY <1>23, <1>ty, ApplyMoves
  <2>2. UNCHANGED <<file, gateway, lease, runId, seen>>
    BY <1>23 DEF ApplyOff, engine, device, gw, local
  <2>3. /\ Only({g}) /\ pc'[g] \notin Starting \ {"ready"} /\ pc'[g] \notin {"lease", "spawn"}
        /\ ~GivesBack(g)
    BY <2>1 DEF Moves, Goes, At, Starting, GivesBack, Stopping
  <2> QED
    BY <2>2, <2>3, LeaseStays
<1>24. CASE CheckOff(g)
  <2>1. /\ pc[g] \in {"check off", "drop"}
        /\ \/ Moves(g, "serial", "leave", after[g])
           \/ Goes(g, "leave")
           \/ Moves(g, "serial", "disabled", after[g])
           \/ Goes(g, "disabled")
    BY <1>24, <1>ty, ApplyMoves
  <2>2. UNCHANGED <<file, gateway, lease, runId, seen>>
    BY <1>24 DEF CheckOff, engine, device, gw
  <2>3. /\ Only({g}) /\ pc'[g] \notin Starting \ {"ready"} /\ pc'[g] \notin {"lease", "spawn"}
        /\ ~GivesBack(g)
    BY <2>1 DEF Moves, Goes, At, Starting, GivesBack, Stopping
  <2> QED
    BY <2>2, <2>3, LeaseStays
<1>25. CASE ApplyEnds(g)
  <2>1. pc[g] \in {"applied", "disabled", "leave"} /\ Goes(g, "done")
    BY <1>25, <1>ty, ApplyMoves
  <2>2. UNCHANGED <<file, gateway, lease, runId, seen>>
    BY <1>25 DEF ApplyEnds, engine, device, gw, local
  <2>3. /\ Only({g}) /\ pc'[g] \notin Starting \ {"ready"} /\ pc'[g] \notin {"lease", "spawn"}
        /\ ~GivesBack(g)
    BY <2>1 DEF Moves, Goes, At, Starting, GivesBack, Stopping
  <2> QED
    BY <2>2, <2>3, LeaseStays
<1> QED
  BY <1>5, <1>6, <1>7, <1>8, <1>9, <1>10, <1>11, <1>12, <1>13, <1>14, <1>15, <1>16, <1>17, <1>18,
     <1>19, <1>20, <1>21, <1>22, <1>23, <1>24, <1>25
     DEF ApplyMode

\* Every step keeps LeaseInv.
LEMMA LeaseNext == Typed /\ Post /\ LeaseInv /\ [Next]_vars => LeaseInv'
<1> SUFFICES ASSUME Typed, Post, LeaseInv, [Next]_vars PROVE LeaseInv'
  OBVIOUS
<1>ty. Placed /\ Carried /\ Posted /\ Spent
  BY DEF Typed
<1>st. CASE UNCHANGED vars
  BY <1>st DEF vars, engine, device, gw, local, LeaseInv, Relies, GivesBack
<1>1. ASSUME NEW t \in Threads, StopGateway(t) PROVE LeaseInv'
  BY <1>1, LeaseStop
<1>2. ASSUME NEW t \in Threads, EngineLock(t) PROVE LeaseInv'
  <2>1. Only({t}) /\ pc'[t] = "serial" /\ back'[t] = "body"
    <3>1. pc[t] = "lock" /\ Moves(t, "serial", "body", after[t])
      BY <1>2, <1>ty, EngineMoves
    <3> QED
      BY <3>1 DEF Moves, At
  <2>2. UNCHANGED <<file, gateway, lease, runId, seen>>
    BY <1>2 DEF EngineLock, engine, device, gw
  <2>3. GivesBack(t)' /\ pc'[t] \notin Starting
    BY <2>1 DEF GivesBack, Stopping, Starting
  <2> QED
    BY <2>1, <2>2, <2>3, LeaseStays
<1>3. ASSUME NEW t \in Threads, StopLocked(t) PROVE LeaseInv'
  <2>1. Only({t}) /\ pc'[t] = after[t]
    <3>1. pc[t] = "body" /\ Moves(t, after[t], back[t], "idle")
      BY <1>3, <1>ty, EngineMoves
    <3> QED
      BY <3>1 DEF Moves, At
  <2>2. UNCHANGED <<file, gateway>> /\ ~lease'
    BY <1>3 DEF StopLocked, DiscardLease, gw
  <2>3. after[t] \notin Starting /\ after[t] # "lease"
    BY <1>ty DEF Carried, Starting
  <2> QED
    BY <2>1, <2>2, <2>3, LeaseGone
<1>4. ASSUME NEW t \in Threads, Attempt(t) PROVE LeaseInv'
  <2>1. AttemptLeaves
    BY <1>4, <1>ty, AttemptSteps
  <2>2. UNCHANGED <<file, gateway, seen>> /\ Only({Connector})
    BY <2>1 DEF AttemptLeaves, gw
  <2>3. UNCHANGED lease
    BY <1>4 DEF Attempt, StartEngine, Spawn, SpawnFails, AttemptCancelled, AttemptFails, GiveUp,
       AttemptSucceeds, device
  <2>4. pc'[Connector] \notin Starting /\ pc'[Connector] \notin {"lease", "spawn"}
    BY <2>1 DEF AttemptLeaves, Starting
  <2>5. CASE pc[Connector] = "spawn"
    <3>1. ~lease'
      BY <2>3, <2>5, Kinds DEF LeaseInv, Relies
    <3> QED
      BY <2>2, <2>4, <3>1, LeaseGone
  <2>6. CASE pc[Connector] # "spawn"
    <3>1. UNCHANGED runId
      BY <1>4, <1>ty, <2>6, AttemptSteps DEF Attempt, StartEngine, Spawn, SpawnFails,
         AttemptCancelled, AttemptFails, GiveUp, AttemptSucceeds, engine
    <3>2. ~GivesBack(Connector)
      BY <2>1 DEF AttemptLeaves, GivesBack, Stopping
    <3> QED
      BY <2>2, <2>3, <2>4, <3>1, <3>2, LeaseStays
  <2> QED
    BY <2>5, <2>6
<1>5. ASSUME NEW t \in Threads, Device(t) PROVE LeaseInv'
  <2>1. DeviceLeaves(t)
    BY <1>5, <1>ty, DeviceSteps
  <2>2. Only({t}) /\ UNCHANGED <<file, gateway, seen, runId>>
    BY <2>1 DEF DeviceLeaves, gw, engine
  <2>3. UNCHANGED lease
    BY <1>5 DEF Device, TunOn, TunRefused, TunOff, EnableTun, device
  <2>4. /\ pc'[t] \notin Starting /\ pc'[t] \notin {"lease", "spawn"} /\ ~GivesBack(t)
    BY <2>1 DEF DeviceLeaves, Starting, GivesBack, Stopping
  <2> QED
    BY <2>2, <2>3, <2>4, LeaseStays
<1>6. ASSUME NEW t \in Threads, XrayLogEnds(t) PROVE LeaseInv'
  <2>1. Only({t}) /\ pc[t] = "died" /\ pc'[t] \in {"idle", "serial"}
    <3>1. /\ pc[t] = "died"
          /\ \/ Goes(t, "idle")
             \/ Moves(t, "serial", "lock", "idle")
      BY <1>6, <1>ty, EngineMoves
    <3> QED
      BY <3>1 DEF Moves, Goes, At
  <2>2. UNCHANGED <<file, gateway, lease, runId, seen>>
    BY <1>6 DEF XrayLogEnds, engine, device, gw
  <2>3. pc'[t] \notin Starting /\ ~GivesBack(t)
    BY <2>1 DEF Starting, GivesBack, Stopping
  <2> QED
    BY <2>1, <2>2, <2>3, LeaseStays
<1>7. ASSUME NEW t \in Threads, TunLogEnds(t) PROVE LeaseInv'
  <2>1. Only({t}) /\ pc[t] = "died" /\ pc'[t] \in {"idle", "serial"}
    <3>1. /\ pc[t] = "died"
          /\ \/ Goes(t, "idle")
             \/ Moves(t, "serial", "lock", "idle")
      BY <1>7, <1>ty, EngineMoves
    <3> QED
      BY <3>1 DEF Moves, Goes, At
  <2>2. UNCHANGED <<file, gateway, lease, runId, seen>>
    BY <1>7 DEF TunLogEnds, engine, gw
  <2>3. pc'[t] \notin Starting /\ ~GivesBack(t)
    BY <2>1 DEF Starting, GivesBack, Stopping
  <2> QED
    BY <2>1, <2>2, <2>3, LeaseStays
<1>8. ASSUME NEW g \in Applies, ApplyMode(g) PROVE LeaseInv'
  BY <1>8, LeaseApply
<1>9. ASSUME NEW g \in Applies, Disconnect(g) PROVE LeaseInv'
  <2>1. /\ pc[UI] \in {"idle", "off"} /\ pc'[UI] \in {"idle", "serial"}
        /\ Only({UI}) \/ (Only({UI, g}) /\ pc[g] = "idle" /\ pc'[g] = "queued off")
    BY <1>9, <1>ty, PageMoves DEF At
  <2>2. UNCHANGED <<file, gateway, lease, runId, seen>>
    BY <1>9 DEF Disconnect, engine, device, gw
  <2>3. /\ pc'[UI] \notin Starting /\ ~GivesBack(UI)
        /\ pc[g] = "idle" /\ pc'[g] = "queued off" => pc'[g] \notin Starting /\ ~GivesBack(g)
    BY <2>1 DEF Starting, GivesBack, Stopping
  <2> QED
    BY <2>1, <2>2, <2>3, LeaseStays
<1>10. ASSUME NEW g \in Applies, StateOff(g) PROVE LeaseInv'
  <2>1. /\ pc[UI] \in {"idle", "off"} /\ pc'[UI] \in {"idle", "serial"}
        /\ Only({UI}) \/ (Only({UI, g}) /\ pc[g] = "idle" /\ pc'[g] = "queued off")
    BY <1>10, <1>ty, PageMoves DEF At
  <2>2. UNCHANGED <<file, gateway, lease, runId, seen>>
    BY <1>10 DEF StateOff, engine, device, gw
  <2>3. /\ pc'[UI] \notin Starting /\ ~GivesBack(UI)
        /\ pc[g] = "idle" /\ pc'[g] = "queued off" => pc'[g] \notin Starting /\ ~GivesBack(g)
    BY <2>1 DEF Starting, GivesBack, Stopping
  <2> QED
    BY <2>1, <2>2, <2>3, LeaseStays
<1>11. ASSUME NEW g \in Applies, QueueOn(g) PROVE LeaseInv'
  <2>1. pc[g] = "idle" /\ Goes(g, "queued on")
    BY <1>11, <1>ty, PageMoves
  <2>2. UNCHANGED <<file, gateway, lease, runId, seen>>
    BY <1>11 DEF QueueOn, engine, device, gw
  <2>3. /\ Only({g}) /\ pc'[g] \notin Starting /\ pc'[g] \notin {"lease", "spawn"}
        /\ ~GivesBack(g)
    BY <2>1 DEF Moves, Goes, At, Starting, GivesBack, Stopping
  <2> QED
    BY <2>2, <2>3, LeaseStays
<1>12. ASSUME NEW g \in Applies, GatewayOff(g) PROVE LeaseInv'
  <2>1. pc[g] = "idle" /\ Goes(g, "queued off")
    BY <1>12, <1>ty, PageMoves
  <2>2. UNCHANGED <<file, gateway, lease, runId, seen>>
    BY <1>12 DEF GatewayOff, engine, device, gw
  <2>3. /\ Only({g}) /\ pc'[g] \notin Starting /\ pc'[g] \notin {"lease", "spawn"}
        /\ ~GivesBack(g)
    BY <2>1 DEF Moves, Goes, At, Starting, GivesBack, Stopping
  <2> QED
    BY <2>2, <2>3, LeaseStays
<1>13. ASSUME NEW w \in Workers, WorkerOffline(w) PROVE LeaseInv'
  <2>1. pc[w] = "watch" /\ Moves(w, "serial", "ended", after[w])
    BY <1>13, <1>ty, PageMoves
  <2>2. UNCHANGED <<file, gateway, lease, runId, seen>>
    BY <1>13 DEF WorkerOffline, engine, device, gw
  <2>3. /\ Only({w}) /\ pc'[w] \notin Starting /\ pc'[w] \notin {"lease", "spawn"}
        /\ ~GivesBack(w)
    BY <2>1 DEF Moves, Goes, At, Starting, GivesBack, Stopping
  <2> QED
    BY <2>2, <2>3, LeaseStays
<1>14. ASSUME NEW w \in Workers, WorkerEnds(w) PROVE LeaseInv'
  <2>1. pc[w] \in {"ended", "watch"} /\ Goes(w, "idle")
    BY <1>14, <1>ty, PageMoves
  <2>2. UNCHANGED <<file, gateway, lease, runId, seen>>
    BY <1>14 DEF WorkerEnds, engine, device, gw, local
  <2>3. /\ Only({w}) /\ pc'[w] \notin Starting /\ pc'[w] \notin {"lease", "spawn"}
        /\ ~GivesBack(w)
    BY <2>1 DEF Moves, Goes, At, Starting, GivesBack, Stopping
  <2> QED
    BY <2>2, <2>3, LeaseStays
<1>15. CASE Connect
  <2>1. pc[Connector] = "idle" /\ Goes(Connector, "start")
    BY <1>15, <1>ty, PageMoves
  <2>2. UNCHANGED <<file, gateway, lease, runId, seen>>
    BY <1>15 DEF Connect, engine, device, gw, local
  <2>3. /\ Only({Connector}) /\ pc'[Connector] \notin Starting
        /\ pc'[Connector] \notin {"lease", "spawn"}
        /\ ~GivesBack(Connector)
    BY <2>1 DEF Moves, Goes, At, Starting, GivesBack, Stopping
  <2> QED
    BY <2>2, <2>3, LeaseStays
<1>16. CASE SwitchProfile
  <2>1. pc[UI] = "idle" /\ Moves(UI, "serial", "lock", "off")
    BY <1>16, <1>ty, PageMoves
  <2>2. UNCHANGED <<file, gateway, lease, runId, seen>>
    BY <1>16 DEF SwitchProfile, engine, device, gw
  <2>3. /\ Only({UI}) /\ pc'[UI] \notin Starting /\ pc'[UI] \notin {"lease", "spawn"}
        /\ ~GivesBack(UI)
    BY <2>1 DEF Moves, Goes, At, Starting, GivesBack, Stopping
  <2> QED
    BY <2>2, <2>3, LeaseStays
<1>17. CASE StateOn
  <2>1. UNCHANGED <<file, gateway, lease, runId, seen, pc, back>>
    BY <1>17 DEF StateOn, engine, device, gw, local
  <2> QED
    BY <2>1 DEF LeaseInv, Relies, GivesBack
<1>18. CASE GatewayOn
  <2>1. UNCHANGED <<file, gateway, lease, runId, seen, pc, back>>
    BY <1>18 DEF GatewayOn, engine, device, gw, local
  <2> QED
    BY <2>1 DEF LeaseInv, Relies, GivesBack
<1>19. CASE SwitchTun
  <2>1. /\ pc[Mode] = "idle"
        /\ \/ Goes(Mode, "tun on")
           \/ Goes(Mode, "tun off")
    BY <1>19, <1>ty, PageMoves
  <2>2. UNCHANGED <<file, gateway, lease, runId, seen>>
    BY <1>19 DEF SwitchTun, engine, device, gw
  <2>3. /\ Only({Mode}) /\ pc'[Mode] \notin Starting /\ pc'[Mode] \notin {"lease", "spawn"}
        /\ ~GivesBack(Mode)
    BY <2>1 DEF Moves, Goes, At, Starting, GivesBack, Stopping
  <2> QED
    BY <2>2, <2>3, LeaseStays
<1>20. CASE XrayDies
  <2>1. pc[XrayLog] = "idle" /\ Goes(XrayLog, "died")
    BY <1>20, <1>ty, PageMoves
  <2>2. UNCHANGED <<file, gateway, lease, runId, seen>>
    BY <1>20 DEF XrayDies, device, gw
  <2>3. /\ Only({XrayLog}) /\ pc'[XrayLog] \notin Starting /\ pc'[XrayLog] \notin {"lease", "spawn"}
        /\ ~GivesBack(XrayLog)
    BY <2>1 DEF Moves, Goes, At, Starting, GivesBack, Stopping
  <2> QED
    BY <2>2, <2>3, LeaseStays
<1>21. CASE TunDies
  <2>1. pc[TunLog] = "idle" /\ Goes(TunLog, "died")
    BY <1>21, <1>ty, PageMoves
  <2>2. UNCHANGED <<file, gateway, lease, runId, seen>>
    BY <1>21 DEF TunDies, engine, gw, local
  <2>3. /\ Only({TunLog}) /\ pc'[TunLog] \notin Starting /\ pc'[TunLog] \notin {"lease", "spawn"}
        /\ ~GivesBack(TunLog)
    BY <2>1 DEF Moves, Goes, At, Starting, GivesBack, Stopping
  <2> QED
    BY <2>2, <2>3, LeaseStays
<1> QED
  BY <1>st, <1>1, <1>2, <1>3, <1>4, <1>5, <1>6, <1>7, <1>8, <1>9, <1>10, <1>11, <1>12, <1>13,
     <1>14, <1>15, <1>16, <1>17, <1>18, <1>19, <1>20, <1>21
     DEF Next, Step, Clicks

\* The lease of the gateway never outlives the thread that took it without the state file
\* that lets the next start give it back (engine.py:2354); and without a fault that file stays
\* only with a gateway that runs (gateway.py:1742, 2155).
THEOREM LeaseIsReturned == Spec => []NoLeakedLease
<1>1. Init => LeaseInv
  BY DEF Init, LeaseInv, Relies, Starting
<1>2. LeaseInv /\ SmoothInv => NoLeakedLease
  <2> SUFFICES ASSUME LeaseInv, SmoothInv, Quiet
               PROVE  /\ lease => gateway \/ file = "own"
                      /\ smooth => (file = "own" => gateway)
    BY DEF NoLeakedLease
  <2>1. \A t \in Threads : ~GivesBack(t)
    BY DEF Quiet, GivesBack, Stopping
  <2> QED
    BY <2>1 DEF LeaseInv, SmoothInv, Fresh
<1> QED
  BY <1>1, <1>2, Core, LeaseNext, PageInit, PageNext, SmoothInit, SmoothNext, PTL DEF Spec
=============================================================================
