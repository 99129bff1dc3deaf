------------------------ MODULE EngineGatewayProofs ------------------------
(***************************************************************************)
(* What holds of EngineGateway whatever its properties are: its types,     *)
(* where each thread can be and which locks it holds there (Post), and     *)
(* where each action takes its thread (StopMoves to PageMoves).            *)
(* EngineGatewaySafety.tla proves the safety properties from it.           *)
(***************************************************************************)
EXTENDS EngineGateway, TLAPS

\* TypeOK in parts, one for each group of variables.
Held ==
  /\ lifecycle \in Threads \union {None} /\ serial \in Threads \union {None}
  /\ manager \in Threads \union {None} /\ applying \in Applies \union {None}

Ran == runId \in Nat /\ active \in BOOLEAN /\ xray \in BOOLEAN

Leased ==
  /\ tun \in {"none", "up", "dead"}
  /\ lease \in BOOLEAN /\ owns \in BOOLEAN /\ userTun \in BOOLEAN

Stated ==
  /\ file \in {"none", "stale", "own"} /\ worker \in Workers \union {None}
  /\ gateway \in BOOLEAN /\ stopEvent \in BOOLEAN

Paged ==
  /\ connecting \in BOOLEAN /\ shown \in BOOLEAN /\ overlooked \in BOOLEAN
  /\ cancel \in BOOLEAN /\ requested \in BOOLEAN
  /\ gate \in Applies \union {None} /\ last \in {"none", "connect", "disconnect"}

Posted == signals \in Seq(BOOLEAN)

Placed == pc \in [Threads -> PCs]

Carried ==
  /\ back \in [Threads -> {"lock", "body", "applied", "disabled", "leave", "ended"}]
  /\ after \in [Threads -> {"idle", "spawn", "failed", "start", "give up", "off"}]
  /\ rid \in [Threads -> Nat \union {AnyRun}] /\ seen \in [Threads -> Nat]
  /\ failed \subseteq Threads

Spent ==
  /\ left \in [runs : Nat, fails : Nat, deaths : Nat, switches : Nat, stale : BOOLEAN]
  /\ smooth \in BOOLEAN

Typed ==
  Held /\ Ran /\ Leased /\ Stated /\ Paged /\ Posted /\ Placed /\ Carried /\ Spent

\* The steps of a gateway-mode thread outside GatewayManager.stop.
OnPath == Starting \union {"queued on", "check on", "started", "current"}
Modes == OnPath \union {"queued off", "check off", "drop", "applied", "disabled", "leave"}

\* A thread at step l that goes on at b after GatewayManager.stop is inside Engine.stop
\* or Engine._stop_locked.
InStop(l, b) == l \in {"lock", "body"} \/ (l \in Stopping /\ b \in {"lock", "body"})

\* Which threads can be at step l, and where they go on: at b after GatewayManager.stop,
\* at a after Engine._stop_locked.
Fits(t, l, b, a) ==
  /\ l \in {"start", "spawn", "probe", "failed", "give up"} => t = Connector
  /\ l = "off" => t = UI
  /\ l = "tun on" => t \in {Connector, Mode}
  /\ l = "tun off" => t = Mode
  /\ l = "died" => t \in {XrayLog, TunLog}
  /\ l \in {"watch", "ended"} => t \in Workers
  /\ l \in Modes \union {"done"} => t \in Applies
  /\ l \in Stopping /\ b \in {"applied", "disabled", "leave"} => t \in Applies
  /\ l \in Stopping /\ b = "ended" => t \in Workers
  /\ InStop(l, b) =>
       \/ t = UI /\ a = "off"
       \/ t = Connector /\ a \in {"idle", "spawn", "failed", "start", "give up"}
       \/ t \in {XrayLog, TunLog} /\ a = "idle"

\* The locks a thread holds at step l.
HoldsLifecycle(l, b) == l \in {"body", "spawn"} \/ (l \in Stopping /\ b = "body")
HoldsSerial(l) == l \in Stopping \ {"serial"}
HoldsManager(l) == l = "lease" \/ l \in Starting \ {"ready"}
HoldsApplying(l, b) ==
  \/ l \in Modes \ {"queued on", "queued off"}
  \/ l \in Stopping /\ b \in {"applied", "disabled", "leave"}

Holds(t, l, b) ==
  /\ lifecycle = t <=> HoldsLifecycle(l, b)
  /\ serial = t <=> HoldsSerial(l)
  /\ manager = t <=> HoldsManager(l)
  /\ applying = t <=> HoldsApplying(l, b)
  /\ l = "lease" => b \notin {"lock", "body"}

Seated(t) == Fits(t, pc[t], back[t], after[t]) /\ Holds(t, pc[t], back[t])

\* Every thread is where it can be, and holds the locks of its step.
Post == \A t \in Threads : Seated(t)

\* A step moves only the threads M, one of them to l; and only they take and free locks.
Only(M) ==
  \A u \in Threads \ M : pc'[u] = pc[u] /\ back'[u] = back[u] /\ after'[u] = after[u]
At(t, l, b, a) == pc'[t] = l /\ back'[t] = b /\ after'[t] = a
Moves(t, l, b, a) == Only({t}) /\ At(t, l, b, a)
Goes(t, l) == Moves(t, l, back[t], after[t])
Passes(M) ==
  /\ lifecycle' = lifecycle \/ {lifecycle, lifecycle'} \subseteq M \union {None}
  /\ serial' = serial \/ {serial, serial'} \subseteq M \union {None}
  /\ manager' = manager \/ {manager, manager'} \subseteq M \union {None}
  /\ applying' = applying \/ {applying, applying'} \subseteq M \union {None}
-----------------------------------------------------------------------------
\* The names of the steps a thread can be at.
LEMMA Labels ==
  PCs = {"idle", "done", "lock", "body", "start", "spawn", "probe", "failed", "tun on",
         "tun off", "died", "watch", "ended", "queued on", "check on", "started",
         "current", "queued off", "check off", "drop", "applied", "disabled", "leave",
         "give up", "off", "serial", "begin", "join", "end", "lease", "ready", "recover",
         "detect", "acquire", "adapter", "return", "apply", "undo"}
BY DEF PCs, Stopping, Starting

\* The threads of each kind are threads, and nobody is none of them.
LEMMA Kinds ==
  /\ UI \in Threads /\ Connector \in Threads /\ Mode \in Threads
  /\ XrayLog \in Threads /\ TunLog \in Threads
  /\ Applies \subseteq Threads /\ Workers \subseteq Threads
  /\ None \notin Threads
BY NoneAssumption DEF Threads

\* What a step leaves alone keeps its type.
LEMMA Frame ==
  /\ Held /\ UNCHANGED locks => Held'
  /\ Ran /\ UNCHANGED engine => Ran'
  /\ Leased /\ UNCHANGED device => Leased'
  /\ Stated /\ UNCHANGED gw => Stated'
  /\ Paged /\ UNCHANGED page => Paged'
  /\ Posted /\ UNCHANGED signals => Posted'
  /\ UNCHANGED page => UNCHANGED signals
  /\ Placed /\ UNCHANGED pc => Placed'
  /\ Carried /\ UNCHANGED local => Carried'
  /\ Spent /\ UNCHANGED budget => Spent'
<1>1. Held /\ UNCHANGED locks => Held'
  BY DEF Held, locks
<1>2. Ran /\ UNCHANGED engine => Ran'
  BY DEF Ran, engine
<1>3. Leased /\ UNCHANGED device => Leased'
  BY DEF Leased, device
<1>4. Stated /\ UNCHANGED gw => Stated'
  BY DEF Stated, gw
<1>5. Paged /\ UNCHANGED page => Paged'
  BY DEF Paged, page
<1>6. Posted /\ UNCHANGED signals => Posted'
  BY DEF Posted
<1>7. UNCHANGED page => UNCHANGED signals
  BY DEF page
<1>8. Placed /\ UNCHANGED pc => Placed'
  BY DEF Placed
<1>9. Carried /\ UNCHANGED local => Carried'
  BY DEF Carried, local
<1>10. Spent /\ UNCHANGED budget => Spent'
  BY DEF Spent, budget
<1> QED
  BY <1>1, <1>2, <1>3, <1>4, <1>5, <1>6, <1>7, <1>8, <1>9, <1>10

\* A count that is spent stays a record of counts.
LEMMA Spends ==
  ASSUME Spent
  PROVE  /\ NextRun => Spent'
         /\ RestoreFails => Spent'
         /\ Dies => Spent'
         /\ left.switches > 0 /\ left' = [left EXCEPT !.switches = @ - 1] /\ smooth' = FALSE
              => Spent'
<1> DEFINE Counts == [runs : Nat, fails : Nat, deaths : Nat, switches : Nat, stale : BOOLEAN]
<1>0. left \in Counts
  BY DEF Spent
<1>1. /\ left.runs > 0 => [left EXCEPT !.runs = @ - 1] \in Counts
      /\ left.fails > 0 => [left EXCEPT !.fails = @ - 1] \in Counts
  BY <1>0
<1>2. /\ left.deaths > 0 => [left EXCEPT !.deaths = @ - 1] \in Counts
      /\ left.switches > 0 => [left EXCEPT !.switches = @ - 1] \in Counts
  BY <1>0
<1> HIDE DEF Counts
<1>3. left' \in Counts /\ smooth' \in BOOLEAN => Spent'
  BY DEF Spent, Counts
<1>4. UNCHANGED smooth => smooth' \in BOOLEAN
  BY DEF Spent
<1> QED
  BY <1>1, <1>2, <1>3, <1>4 DEF NextRun, RestoreFails, Dies

\* The signals stay signals when one is posted or delivered.
LEMMA Sends ==
  ASSUME Posted
  PROVE  /\ Append(signals, TRUE) \in Seq(BOOLEAN) /\ Append(signals, FALSE) \in Seq(BOOLEAN)
         /\ signals # <<>> => Tail(signals) \in Seq(BOOLEAN)
BY DEF Posted


\* The types hold at first.
LEMMA TypeInit == Init => Typed
<1> SUFFICES ASSUME Init PROVE Typed
  OBVIOUS
<1>1. Held
  BY DEF Init, Held
<1>2. Ran /\ Leased
  BY DEF Init, Ran, Leased
<1>8. Posted
  BY DEF Init, Posted
<1>3. Stated /\ Paged
  BY DEF Init, Stated, Paged
<1>4. Placed
  BY Labels DEF Init, Placed
<1>5. Carried
  BY DEF Init, Carried
<1>6. left \in [runs : Nat, fails : Nat, deaths : Nat, switches : Nat, stale : BOOLEAN]
  BY BoundsAssumption DEF Init
<1>7. Spent
  BY <1>6 DEF Init, Spent
<1> QED
  BY <1>1, <1>2, <1>3, <1>4, <1>5, <1>7, <1>8 DEF Typed

\* Every step keeps the types.
LEMMA TypeNext == Typed /\ [Next]_vars => Typed'
<1> SUFFICES ASSUME Typed, [Next]_vars PROVE Typed'
  OBVIOUS
<1>pt. Held /\ Ran /\ Leased /\ Stated /\ Paged /\ Posted /\ Placed /\ Carried /\ Spent
  BY DEF Typed
<1> USE <1>pt
<1>st. CASE UNCHANGED vars
  BY <1>st, Frame DEF vars, Typed
<1>1. ASSUME NEW t \in Threads, Serialise(t) PROVE Typed'
  <2>1. Held'
    BY <1>1, Kinds DEF Serialise, Held
  <2>0. {"begin"} \subseteq PCs
    BY Labels
  <2>2. Placed'
    BY <1>1, <2>0, Kinds DEF Serialise, Go, Placed
  <2>3. Ran' /\ Leased' /\ Stated' /\ Paged' /\ Posted' /\ Carried' /\ Spent'
    BY <1>1, Frame DEF Serialise
  <2> QED
    BY <2>1, <2>2, <2>3 DEF Typed
<1>2. ASSUME NEW t \in Threads, NothingToStop(t) PROVE Typed'
  <2>1. Held'
    BY <1>2, Kinds DEF NothingToStop, Held
  <2>0. {"leave", "lock", "body", "applied", "disabled", "ended"} \subseteq PCs
    BY Labels
  <2>2. Placed'
    BY <1>2, <2>0, Kinds DEF NothingToStop, Returns, Go, Placed, Carried
  <2>3. Carried'
    BY <1>2, Kinds DEF NothingToStop, Returns, Carried, Ran
  <2>4. Ran' /\ Leased' /\ Stated' /\ Paged' /\ Posted' /\ Spent'
    BY <1>2, Frame DEF NothingToStop
  <2> QED
    BY <2>1, <2>2, <2>3, <2>4 DEF Typed
<1>3. ASSUME NEW t \in Threads, StopBegins(t) PROVE Typed'
  <2>1. Stated'
    BY <1>3 DEF StopBegins, Stated
  <2>0. {"join"} \subseteq PCs
    BY Labels
  <2>2. Placed'
    BY <1>3, <2>0, Kinds DEF StopBegins, Go, Placed
  <2>3. Held' /\ Ran' /\ Leased' /\ Paged' /\ Posted' /\ Carried' /\ Spent'
    BY <1>3, Frame DEF StopBegins
  <2> QED
    BY <2>1, <2>2, <2>3 DEF Typed
<1>4. ASSUME NEW t \in Threads, StopJoins(t) PROVE Typed'
  <2>0. {"end"} \subseteq PCs
    BY Labels
  <2>1. Placed'
    BY <1>4, <2>0, Kinds DEF StopJoins, Go, Placed
  <2>2. Held' /\ Ran' /\ Leased' /\ Stated' /\ Paged' /\ Posted' /\ Carried' /\ Spent'
    BY <1>4, Frame DEF StopJoins
  <2> QED
    BY <2>1, <2>2 DEF Typed
<1>5. ASSUME NEW t \in Threads, StopRestores(t) PROVE Typed'
  <2>1. Held'
    BY <1>5, Kinds DEF StopRestores, StopEnds, Held
  <2>2. Stated'
    BY <1>5 DEF StopRestores, StopEnds, Stated
  <2>3. Placed'
    <3>1. pc' = [pc EXCEPT ![t] = back[t]]
      BY <1>5 DEF StopRestores, StopEnds, Returns, Go
    <3>2. {"lock", "body", "applied", "disabled", "leave", "ended"} \subseteq PCs
      BY Labels
    <3> QED
      BY <3>1, <3>2 DEF Placed, Carried
  <2>4. Carried'
    BY <1>5, Kinds DEF StopRestores, StopEnds, Returns, Carried, Ran
  <2>5. Spent'
    BY <1>5, Spends, Frame DEF StopRestores, Restores
  <2>6. Ran' /\ Leased' /\ Paged' /\ Posted'
    BY <1>5, Frame DEF StopRestores
  <2> QED
    BY <2>1, <2>2, <2>3, <2>4, <2>5, <2>6 DEF Typed
<1>6. ASSUME NEW t \in Threads, StopRestoresAndReleases(t) PROVE Typed'
  <2>1. Held'
    BY <1>6, Kinds DEF StopRestoresAndReleases, Held
  <2>0. {"lease"} \subseteq PCs
    BY Labels
  <2>2. Placed'
    BY <1>6, <2>0, Kinds DEF StopRestoresAndReleases, Go, Placed
  <2>3. Carried'
    BY <1>6, Kinds DEF StopRestoresAndReleases, Carried, Ran
  <2>4. Spent'
    BY <1>6, Spends, Frame DEF StopRestoresAndReleases, Restores
  <2>5. Ran' /\ Leased' /\ Stated' /\ Paged' /\ Posted'
    BY <1>6, Frame DEF StopRestoresAndReleases
  <2> QED
    BY <2>1, <2>2, <2>3, <2>4, <2>5 DEF Typed
<1>7. ASSUME NEW t \in Threads, StopReleases(t) PROVE Typed'
  <2>1. Held'
    BY <1>7, Kinds DEF StopReleases, StopEnds, Held
  <2>2. Leased'
    BY <1>7 DEF StopReleases, ReleaseLease, device, Leased
  <2>3. Stated'
    BY <1>7 DEF StopReleases, StopEnds, Stated
  <2>0. {"leave", "lock", "body", "applied", "disabled", "ended"} \subseteq PCs
    BY Labels
  <2>4. Placed'
    BY <1>7, <2>0, Kinds DEF StopReleases, StopEnds, Returns, Go, Placed, Carried
  <2>5. Carried'
    BY <1>7, Kinds DEF StopReleases, StopEnds, Returns, Carried, Ran
  <2>6. Ran' /\ Paged' /\ Posted' /\ Spent'
    BY <1>7, Frame DEF StopReleases
  <2> QED
    BY <2>1, <2>2, <2>3, <2>4, <2>5, <2>6 DEF Typed
<1>8. ASSUME NEW t \in Threads, EngineLock(t) PROVE Typed'
  <2>1. Held'
    BY <1>8, Kinds DEF EngineLock, Held
  <2>0. {"body", "serial"} \subseteq PCs
    BY Labels
  <2>2. Placed'
    BY <1>8, <2>0, Kinds DEF EngineLock, CallStop, Go, Placed
  <2>3. Carried'
    BY <1>8, Kinds DEF EngineLock, CallStop, Carried, Ran
  <2>4. Ran' /\ Leased' /\ Stated' /\ Paged' /\ Posted' /\ Spent'
    BY <1>8, Frame DEF EngineLock
  <2> QED
    BY <2>1, <2>2, <2>3, <2>4 DEF Typed
<1>9. ASSUME NEW t \in Threads, StopLocked(t) PROVE Typed'
  <2>1. Held'
    BY <1>9, Kinds DEF StopLocked, Held
  <2>2. Ran'
    <3>1. active' = FALSE /\ xray' = FALSE /\ runId' = runId + 1
      BY <1>9 DEF StopLocked
    <3>2. runId + 1 \in Nat
      BY DEF Ran
    <3> QED
      BY <3>1, <3>2 DEF Ran
  <2>3. Leased'
    BY <1>9 DEF StopLocked, DiscardLease, StopTun, Leased
  <2>4. Paged'
    BY <1>9, Kinds DEF StopLocked, Paged
  <2>5. Posted'
    <3>1. signals' = signals \/ signals' = Append(signals, FALSE)
      BY <1>9 DEF StopLocked, TellPage
    <3> QED
      BY <3>1, Sends DEF Posted
  <2>0. {"spawn", "idle", "failed", "start", "give up", "off"} \subseteq PCs
    BY Labels
  <2>6. Placed'
    BY <1>9, <2>0, Kinds DEF StopLocked, StopReturns, Go, Placed, Carried
  <2>7. Carried'
    BY <1>9, Kinds DEF StopLocked, StopReturns, Carried, Ran
  <2>8. Stated' /\ Spent'
    BY <1>9, Frame DEF StopLocked
  <2> QED
    BY <2>1, <2>2, <2>3, <2>4, <2>5, <2>6, <2>7, <2>8 DEF Typed
<1>10. ASSUME NEW t \in Threads, StartEngine(t) PROVE Typed'
  <2>1. Held'
    BY <1>10, Kinds DEF StartEngine, Held
  <2>0. {"spawn", "body", "serial"} \subseteq PCs
    BY Labels
  <2>2. Placed'
    BY <1>10, <2>0, Kinds DEF StartEngine, CallStop, Go, Placed
  <2>3. Carried'
    BY <1>10, Kinds DEF StartEngine, CallStop, Carried, Ran
  <2>4. Ran' /\ Leased' /\ Stated' /\ Paged' /\ Posted' /\ Spent'
    BY <1>10, Frame DEF StartEngine
  <2> QED
    BY <2>1, <2>2, <2>3, <2>4 DEF Typed
<1>11. ASSUME NEW t \in Threads, Spawn(t) PROVE Typed'
  <2>1. Held'
    BY <1>11, Kinds DEF Spawn, Held
  <2>2. Ran'
    BY <1>11 DEF Spawn, Ran
  <2>0. {"probe"} \subseteq PCs
    BY Labels
  <2>3. Placed'
    BY <1>11, <2>0, Kinds DEF Spawn, Go, Placed
  <2>4. Carried'
    <3>1. rid' = [rid EXCEPT ![t] = runId + 1] /\ UNCHANGED <<back, after, seen, failed>>
      BY <1>11 DEF Spawn
    <3>2. runId + 1 \in Nat
      BY DEF Ran
    <3> QED
      BY <3>1, <3>2 DEF Carried
  <2>5. Leased' /\ Stated' /\ Paged' /\ Posted' /\ Spent'
    BY <1>11, Frame DEF Spawn
  <2> QED
    BY <2>1, <2>2, <2>3, <2>4, <2>5 DEF Typed
<1>12. ASSUME NEW t \in Threads, SpawnFails(t) PROVE Typed'
  <2>0. {"failed", "body", "serial"} \subseteq PCs
    BY Labels
  <2>1. Placed'
    BY <1>12, <2>0, Kinds DEF SpawnFails, CallStop, Go, Placed
  <2>2. Carried'
    BY <1>12, Kinds DEF SpawnFails, CallStop, Carried, Ran
  <2>3. Held' /\ Ran' /\ Leased' /\ Stated' /\ Paged' /\ Posted' /\ Spent'
    BY <1>12, Frame DEF SpawnFails
  <2> QED
    BY <2>1, <2>2, <2>3 DEF Typed
<1>13. ASSUME NEW t \in Threads, AttemptCancelled(t) PROVE Typed'
  <2>0. {"idle"} \subseteq PCs
    BY Labels
  <2>1. Placed'
    BY <1>13, <2>0, Kinds DEF AttemptCancelled, Go, Placed
  <2>2. Held' /\ Ran' /\ Leased' /\ Stated' /\ Paged' /\ Posted' /\ Carried' /\ Spent'
    BY <1>13, Frame DEF AttemptCancelled
  <2> QED
    BY <2>1, <2>2 DEF Typed
<1>14. ASSUME NEW t \in Threads, AttemptFails(t) PROVE Typed'
  <2>0. {"start", "give up", "lock", "serial"} \subseteq PCs
    BY Labels
  <2>1. Placed'
    BY <1>14, <2>0, Kinds DEF AttemptFails, CallEngineStop, Go, EngineStopBegins, Placed
  <2>2. Carried'
    BY <1>14, Kinds DEF AttemptFails, CallEngineStop, Carried, Ran
  <2>3. Spent'
    BY <1>14, Spends, Frame DEF AttemptFails
  <2>4. Held' /\ Ran' /\ Leased' /\ Stated' /\ Paged' /\ Posted'
    BY <1>14, Frame DEF AttemptFails
  <2> QED
    BY <2>1, <2>2, <2>3, <2>4 DEF Typed
<1>15. ASSUME NEW t \in Threads, GiveUp(t) PROVE Typed'
  <2>1. Paged'
    BY <1>15, Kinds DEF GiveUp, Paged
  <2>2. Posted'
    <3>1. signals' = signals \/ signals' = Append(signals, FALSE)
      BY <1>15 DEF GiveUp
    <3> QED
      BY <3>1, Sends DEF Posted
  <2>0. {"idle", "lock", "serial"} \subseteq PCs
    BY Labels
  <2>3. Placed'
    BY <1>15, <2>0, Kinds DEF GiveUp, Go, CallEngineStop, EngineStopBegins, Placed
  <2>4. Carried'
    BY <1>15, Kinds DEF GiveUp, CallEngineStop, Carried, Ran
  <2>5. Held' /\ Ran' /\ Leased' /\ Stated' /\ Spent'
    BY <1>15, Frame DEF GiveUp
  <2> QED
    BY <2>1, <2>2, <2>3, <2>4, <2>5 DEF Typed
<1>16. ASSUME NEW t \in Threads, AttemptSucceeds(t) PROVE Typed'
  <2>1. Paged'
    BY <1>16, Kinds DEF AttemptSucceeds, Paged
  <2>2. Posted'
    <3>1. signals' = signals \/ signals' = Append(signals, TRUE)
      BY <1>16 DEF AttemptSucceeds
    <3> QED
      BY <3>1, Sends DEF Posted
  <2>0. {"idle", "tun on"} \subseteq PCs
    BY Labels
  <2>3. Placed'
    BY <1>16, <2>0, Kinds DEF AttemptSucceeds, Go, Placed
  <2>4. Held' /\ Ran' /\ Leased' /\ Stated' /\ Carried' /\ Spent'
    BY <1>16, Frame DEF AttemptSucceeds
  <2> QED
    BY <2>1, <2>2, <2>3, <2>4 DEF Typed
<1>17. ASSUME NEW t \in Threads, TunOn(t) PROVE Typed'
  <2>1. Leased'
    BY <1>17 DEF TunOn, EnableTun, Leased
  <2>2. Paged'
    BY <1>17, Kinds DEF TunOn, Paged
  <2>3. Posted'
    <3>1. signals' = signals \/ signals' = Append(signals, TRUE)
      BY <1>17 DEF TunOn
    <3> QED
      BY <3>1, Sends DEF Posted
  <2>0. {"idle", "failed", "tun off"} \subseteq PCs
    BY Labels
  <2>4. Placed'
    BY <1>17, <2>0, Kinds DEF TunOn, Go, Placed
  <2>5. Held' /\ Ran' /\ Stated' /\ Carried' /\ Spent'
    BY <1>17, Frame DEF TunOn
  <2> QED
    BY <2>1, <2>2, <2>3, <2>4, <2>5 DEF Typed
<1>18. ASSUME NEW t \in Threads, TunRefused(t) PROVE Typed'
  <2>0. {"failed", "idle"} \subseteq PCs
    BY Labels
  <2>1. Placed'
    BY <1>18, <2>0, Kinds DEF TunRefused, Go, Placed
  <2>2. Held' /\ Ran' /\ Leased' /\ Stated' /\ Paged' /\ Posted' /\ Carried' /\ Spent'
    BY <1>18, Frame DEF TunRefused
  <2> QED
    BY <2>1, <2>2 DEF Typed
<1>19. ASSUME NEW t \in Threads, TunOff(t) PROVE Typed'
  <2>1. Leased'
    BY <1>19 DEF TunOff, device, Leased
  <2>0. {"idle"} \subseteq PCs
    BY Labels
  <2>2. Placed'
    BY <1>19, <2>0, Kinds DEF TunOff, Go, Placed
  <2>3. Held' /\ Ran' /\ Stated' /\ Paged' /\ Posted' /\ Carried' /\ Spent'
    BY <1>19, Frame DEF TunOff
  <2> QED
    BY <2>1, <2>2, <2>3 DEF Typed
<1>20. ASSUME NEW t \in Threads, XrayLogEnds(t) PROVE Typed'
  <2>0. {"idle", "lock", "serial"} \subseteq PCs
    BY Labels
  <2>1. Placed'
    BY <1>20, <2>0, Kinds DEF XrayLogEnds, CallEngineStop, Go, EngineStopBegins, Placed
  <2>2. Carried'
    BY <1>20, Kinds DEF XrayLogEnds, CallEngineStop, Carried, Ran
  <2>3. Held' /\ Ran' /\ Leased' /\ Stated' /\ Paged' /\ Posted' /\ Spent'
    BY <1>20, Frame DEF XrayLogEnds
  <2> QED
    BY <2>1, <2>2, <2>3 DEF Typed
<1>21. ASSUME NEW t \in Threads, TunLogEnds(t) PROVE Typed'
  <2>1. Leased'
    BY <1>21 DEF TunLogEnds, Leased
  <2>0. {"idle", "lock", "serial"} \subseteq PCs
    BY Labels
  <2>2. Placed'
    BY <1>21, <2>0, Kinds DEF TunLogEnds, CallEngineStop, Go, EngineStopBegins, Placed
  <2>3. Carried'
    BY <1>21, Kinds DEF TunLogEnds, CallEngineStop, Carried, Ran
  <2>4. Held' /\ Ran' /\ Stated' /\ Paged' /\ Posted' /\ Spent'
    BY <1>21, Frame DEF TunLogEnds
  <2> QED
    BY <2>1, <2>2, <2>3, <2>4 DEF Typed
<1>22. ASSUME NEW g \in Applies, Overtaken(g) PROVE Typed'
  <2>0. {"done"} \subseteq PCs
    BY Labels
  <2>1. Placed'
    BY <1>22, <2>0, Kinds DEF Overtaken, Go, Placed
  <2>2. Held' /\ Ran' /\ Leased' /\ Stated' /\ Paged' /\ Posted' /\ Carried' /\ Spent'
    BY <1>22, Frame DEF Overtaken
  <2> QED
    BY <2>1, <2>2 DEF Typed
<1>23. ASSUME NEW g \in Applies, ApplyOn(g) PROVE Typed'
  <2>1. Held'
    BY <1>23, Kinds DEF ApplyOn, Held
  <2>0. {"check on"} \subseteq PCs
    BY Labels
  <2>2. Placed'
    BY <1>23, <2>0, Kinds DEF ApplyOn, Go, Placed
  <2>3. Ran' /\ Leased' /\ Stated' /\ Paged' /\ Posted' /\ Carried' /\ Spent'
    BY <1>23, Frame DEF ApplyOn
  <2> QED
    BY <2>1, <2>2, <2>3 DEF Typed
<1>24. ASSUME NEW g \in Applies, CheckOn(g) PROVE Typed'
  <2>0. {"ready", "applied"} \subseteq PCs
    BY Labels
  <2>1. Placed'
    BY <1>24, <2>0, Kinds DEF CheckOn, Go, Placed
  <2>2. Held' /\ Ran' /\ Leased' /\ Stated' /\ Paged' /\ Posted' /\ Carried' /\ Spent'
    BY <1>24, Frame DEF CheckOn
  <2> QED
    BY <2>1, <2>2 DEF Typed
<1>25. ASSUME NEW g \in Applies, StartReturns(g) PROVE Typed'
  <2>0. {"started", "applied"} \subseteq PCs
    BY Labels
  <2>1. Placed'
    BY <1>25, <2>0, Kinds DEF StartReturns, Go, Placed
  <2>2. Held' /\ Ran' /\ Leased' /\ Stated' /\ Paged' /\ Posted' /\ Carried' /\ Spent'
    BY <1>25, Frame DEF StartReturns
  <2> QED
    BY <2>1, <2>2 DEF Typed
<1>26. ASSUME NEW g \in Applies, StartGateway(g) PROVE Typed'
  <2>1. Held'
    BY <1>26, Kinds DEF StartGateway, Held
  <2>0. {"detect", "recover"} \subseteq PCs
    BY Labels
  <2>2. Placed'
    BY <1>26, <2>0, Kinds DEF StartGateway, Go, Placed
  <2>3. Ran' /\ Leased' /\ Stated' /\ Paged' /\ Posted' /\ Carried' /\ Spent'
    BY <1>26, Frame DEF StartGateway
  <2> QED
    BY <2>1, <2>2, <2>3 DEF Typed
<1>27. ASSUME NEW g \in Applies, Recover(g) PROVE Typed'
  <2>1. Held'
    BY <1>27, Kinds DEF Recover, Raise, Held
  <2>2. Stated'
    BY <1>27 DEF Recover, Stated
  <2>0. {"detect", "applied"} \subseteq PCs
    BY Labels
  <2>3. Placed'
    BY <1>27, <2>0, Kinds DEF Recover, Go, Raise, Placed
  <2>4. Spent'
    BY <1>27, Spends, Frame DEF Recover, Restores
  <2>5. Ran' /\ Leased' /\ Paged' /\ Posted' /\ Carried'
    BY <1>27, Frame DEF Recover
  <2> QED
    BY <2>1, <2>2, <2>3, <2>4, <2>5 DEF Typed
<1>28. ASSUME NEW g \in Applies, Detect(g) PROVE Typed'
  <2>1. Held'
    BY <1>28, Kinds DEF Detect, Raise, Held
  <2>0. {"acquire", "applied"} \subseteq PCs
    BY Labels
  <2>2. Placed'
    BY <1>28, <2>0, Kinds DEF Detect, Go, Raise, Placed
  <2>3. Carried'
    BY <1>28, Kinds DEF Detect, Carried, Ran
  <2>4. Ran' /\ Leased' /\ Stated' /\ Paged' /\ Posted' /\ Spent'
    BY <1>28, Frame DEF Detect
  <2> QED
    BY <2>1, <2>2, <2>3, <2>4 DEF Typed
<1>29. ASSUME NEW g \in Applies, Acquire(g) PROVE Typed'
  <2>1. Leased'
    BY <1>29 DEF Acquire, Leased
  <2>0. {"adapter"} \subseteq PCs
    BY Labels
  <2>2. Placed'
    BY <1>29, <2>0, Kinds DEF Acquire, Go, Placed
  <2>3. Held' /\ Ran' /\ Stated' /\ Paged' /\ Posted' /\ Carried' /\ Spent'
    BY <1>29, Frame DEF Acquire
  <2> QED
    BY <2>1, <2>2, <2>3 DEF Typed
<1>30. ASSUME NEW g \in Applies, AcquireRaises(g) PROVE Typed'
  <2>1. Held'
    BY <1>30, Kinds DEF AcquireRaises, Raise, Held
  <2>0. {"applied"} \subseteq PCs
    BY Labels
  <2>2. Placed'
    BY <1>30, <2>0, Kinds DEF AcquireRaises, Raise, Go, Placed
  <2>3. Ran' /\ Leased' /\ Stated' /\ Paged' /\ Posted' /\ Carried' /\ Spent'
    BY <1>30, Frame DEF AcquireRaises
  <2> QED
    BY <2>1, <2>2, <2>3 DEF Typed
<1>31. ASSUME NEW g \in Applies, AdapterUp(g) PROVE Typed'
  <2>0. {"apply"} \subseteq PCs
    BY Labels
  <2>1. Placed'
    BY <1>31, <2>0, Kinds DEF AdapterUp, Go, Placed
  <2>2. Held' /\ Ran' /\ Leased' /\ Stated' /\ Paged' /\ Posted' /\ Carried' /\ Spent'
    BY <1>31, Frame DEF AdapterUp
  <2> QED
    BY <2>1, <2>2 DEF Typed
<1>32. ASSUME NEW g \in Applies, AdapterMissing(g) PROVE Typed'
  <2>0. {"return"} \subseteq PCs
    BY Labels
  <2>1. Placed'
    BY <1>32, <2>0, Kinds DEF AdapterMissing, Go, Placed
  <2>2. Carried'
    BY <1>32, Kinds DEF AdapterMissing, Carried, Ran
  <2>3. Held' /\ Ran' /\ Leased' /\ Stated' /\ Paged' /\ Posted' /\ Spent'
    BY <1>32, Frame DEF AdapterMissing
  <2> QED
    BY <2>1, <2>2, <2>3 DEF Typed
<1>33. ASSUME NEW g \in Applies, ReturnLease(g) PROVE Typed'
  <2>1. Held'
    BY <1>33, Kinds DEF ReturnLease, Raise, Held
  <2>2. Leased'
    BY <1>33 DEF ReturnLease, ReleaseLease, device, Leased
  <2>0. {"detect", "undo", "applied"} \subseteq PCs
    BY Labels
  <2>3. Placed'
    BY <1>33, <2>0, Kinds DEF ReturnLease, Go, Raise, Placed
  <2>4. Carried'
    BY <1>33, Kinds DEF ReturnLease, Carried, Ran
  <2>5. Ran' /\ Stated' /\ Paged' /\ Posted' /\ Spent'
    BY <1>33, Frame DEF ReturnLease
  <2> QED
    BY <2>1, <2>2, <2>3, <2>4, <2>5 DEF Typed
<1>34. ASSUME NEW g \in Applies, ApplyGateway(g) PROVE Typed'
  <2>1. Held'
    BY <1>34, Kinds DEF ApplyGateway, Held
  <2>2. Stated'
    BY <1>34 DEF ApplyGateway, Stated
  <2>0. {"started", "watch"} \subseteq PCs
    BY Labels
  <2>3. Placed'
    BY <1>34, <2>0, Kinds DEF ApplyGateway, Placed
  <2>4. Ran' /\ Leased' /\ Paged' /\ Posted' /\ Carried' /\ Spent'
    BY <1>34, Frame DEF ApplyGateway
  <2> QED
    BY <2>1, <2>2, <2>3, <2>4 DEF Typed
<1>35. ASSUME NEW g \in Applies, ApplyFails(g) PROVE Typed'
  <2>1. Stated'
    BY <1>35 DEF ApplyFails, Stated
  <2>0. {"undo"} \subseteq PCs
    BY Labels
  <2>2. Placed'
    BY <1>35, <2>0, Kinds DEF ApplyFails, Go, Placed
  <2>3. Carried'
    BY <1>35, Kinds DEF ApplyFails, Carried, Ran
  <2>4. Spent'
    BY <1>35, Spends, Frame DEF ApplyFails, Restores
  <2>5. Held' /\ Ran' /\ Leased' /\ Paged' /\ Posted'
    BY <1>35, Frame DEF ApplyFails
  <2> QED
    BY <2>1, <2>2, <2>3, <2>4, <2>5 DEF Typed
<1>36. ASSUME NEW g \in Applies, UndoLease(g) PROVE Typed'
  <2>1. Held'
    BY <1>36, Kinds DEF UndoLease, Raise, Held
  <2>2. Leased'
    BY <1>36 DEF UndoLease, ReleaseLease, device, Leased
  <2>0. {"applied"} \subseteq PCs
    BY Labels
  <2>3. Placed'
    BY <1>36, <2>0, Kinds DEF UndoLease, Raise, Go, Placed
  <2>4. Ran' /\ Stated' /\ Paged' /\ Posted' /\ Carried' /\ Spent'
    BY <1>36, Frame DEF UndoLease
  <2> QED
    BY <2>1, <2>2, <2>3, <2>4 DEF Typed
<1>37. ASSUME NEW g \in Applies, StartedStale(g) PROVE Typed'
  <2>0. {"applied", "serial"} \subseteq PCs
    BY Labels
  <2>1. Placed'
    BY <1>37, <2>0, Kinds DEF StartedStale, CallStop, Go, Placed
  <2>2. Carried'
    BY <1>37, Kinds DEF StartedStale, CallStop, Carried, Ran
  <2>3. Held' /\ Ran' /\ Leased' /\ Stated' /\ Paged' /\ Posted' /\ Spent'
    BY <1>37, Frame DEF StartedStale
  <2> QED
    BY <2>1, <2>2, <2>3 DEF Typed
<1>38. ASSUME NEW g \in Applies, Started(g) PROVE Typed'
  <2>0. {"current"} \subseteq PCs
    BY Labels
  <2>1. Placed'
    BY <1>38, <2>0, Kinds DEF Started, Go, Placed
  <2>2. Held' /\ Ran' /\ Leased' /\ Stated' /\ Paged' /\ Posted' /\ Carried' /\ Spent'
    BY <1>38, Frame DEF Started
  <2> QED
    BY <2>1, <2>2 DEF Typed
<1>39. ASSUME NEW g \in Applies, StillCurrent(g) PROVE Typed'
  <2>0. {"applied", "drop"} \subseteq PCs
    BY Labels
  <2>1. Placed'
    BY <1>39, <2>0, Kinds DEF StillCurrent, Go, Placed
  <2>2. Held' /\ Ran' /\ Leased' /\ Stated' /\ Paged' /\ Posted' /\ Carried' /\ Spent'
    BY <1>39, Frame DEF StillCurrent
  <2> QED
    BY <2>1, <2>2 DEF Typed
<1>40. ASSUME NEW g \in Applies, ApplyOff(g) PROVE Typed'
  <2>1. Held'
    BY <1>40, Kinds DEF ApplyOff, Held
  <2>0. {"check off"} \subseteq PCs
    BY Labels
  <2>2. Placed'
    BY <1>40, <2>0, Kinds DEF ApplyOff, Go, Placed
  <2>3. Ran' /\ Leased' /\ Stated' /\ Paged' /\ Posted' /\ Carried' /\ Spent'
    BY <1>40, Frame DEF ApplyOff
  <2> QED
    BY <2>1, <2>2, <2>3 DEF Typed
<1>41. ASSUME NEW g \in Applies, CheckOff(g) PROVE Typed'
  <2>0. {"leave", "disabled", "serial"} \subseteq PCs
    BY Labels
  <2>1. Placed'
    BY <1>41, <2>0, Kinds DEF CheckOff, CallStop, Go, Placed
  <2>2. Carried'
    BY <1>41, Kinds DEF CheckOff, CallStop, Carried, Ran
  <2>3. Held' /\ Ran' /\ Leased' /\ Stated' /\ Paged' /\ Posted' /\ Spent'
    BY <1>41, Frame DEF CheckOff
  <2> QED
    BY <2>1, <2>2, <2>3 DEF Typed
<1>42. ASSUME NEW g \in Applies, ApplyEnds(g) PROVE Typed'
  <2>1. Held'
    BY <1>42, Kinds DEF ApplyEnds, Held
  <2>2. Paged'
    <3>1. gate' \in {gate, None} /\ requested' \in {requested, gateway}
      BY <1>42 DEF ApplyEnds
    <3>2. UNCHANGED <<connecting, shown, overlooked, cancel, last>>
      BY <1>42 DEF ApplyEnds
    <3> QED
      BY <3>1, <3>2 DEF Paged, Stated
  <2>0. {"done"} \subseteq PCs
    BY Labels
  <2>3. Placed'
    BY <1>42, <2>0, Kinds DEF ApplyEnds, Go, Placed
  <2>4. Ran' /\ Leased' /\ Stated' /\ Posted' /\ Carried' /\ Spent'
    BY <1>42, Frame DEF ApplyEnds
  <2> QED
    BY <2>1, <2>2, <2>3, <2>4 DEF Typed
<1>43. ASSUME NEW g \in Applies, Disconnect(g) PROVE Typed'
  <2>1. Paged'
    BY <1>43, Kinds DEF Disconnect, ResetGateway, PageStopsEngine, Paged
  <2>0. {"queued off", "serial"} \subseteq PCs
    BY Labels
  <2>2. Placed'
    BY <1>43, <2>0, Kinds DEF Disconnect, ResetGateway, Go, EngineStopBegins, Placed
  <2>3. Carried'
    BY <1>43, Kinds DEF Disconnect, ResetGateway, PageStopsEngine, Carried, Ran
  <2>4. Held' /\ Ran' /\ Leased' /\ Stated' /\ Posted' /\ Spent'
    BY <1>43, Frame DEF Disconnect
  <2> QED
    BY <2>1, <2>2, <2>3, <2>4 DEF Typed
<1>44. ASSUME NEW g \in Applies, StateOff(g) PROVE Typed'
  <2>1. Paged'
    BY <1>44, Kinds DEF StateOff, ResetGateway, Paged
  <2>2. Posted'
    <3>1. signals' = signals \/ (signals # <<>> /\ signals' = Tail(signals))
      BY <1>44 DEF StateOff
    <3> QED
      BY <3>1, Sends DEF Posted
  <2>0. {"idle", "queued off"} \subseteq PCs
    BY Labels
  <2>3. Placed'
    BY <1>44, <2>0, Kinds DEF StateOff, ResetGateway, Go, Placed
  <2>4. Carried'
    BY <1>44, Kinds DEF StateOff, ResetGateway, Carried, Ran
  <2>5. Held' /\ Ran' /\ Leased' /\ Stated' /\ Spent'
    BY <1>44, Frame DEF StateOff
  <2> QED
    BY <2>1, <2>2, <2>3, <2>4, <2>5 DEF Typed
<1>45. ASSUME NEW g \in Applies, QueueOn(g) PROVE Typed'
  <2>1. Paged'
    BY <1>45, Kinds DEF QueueOn, Paged
  <2>0. {"queued on"} \subseteq PCs
    BY Labels
  <2>2. Placed'
    BY <1>45, <2>0, Kinds DEF QueueOn, Go, Placed
  <2>3. Carried'
    BY <1>45, Kinds DEF QueueOn, Carried, Ran
  <2>4. Held' /\ Ran' /\ Leased' /\ Stated' /\ Posted' /\ Spent'
    BY <1>45, Frame DEF QueueOn
  <2> QED
    BY <2>1, <2>2, <2>3, <2>4 DEF Typed
<1>46. ASSUME NEW g \in Applies, GatewayOff(g) PROVE Typed'
  <2>1. Paged'
    BY <1>46, Kinds DEF GatewayOff, Paged
  <2>0. {"queued off"} \subseteq PCs
    BY Labels
  <2>2. Placed'
    BY <1>46, <2>0, Kinds DEF GatewayOff, Go, Placed
  <2>3. Carried'
    BY <1>46, Kinds DEF GatewayOff, Carried, Ran
  <2>4. Held' /\ Ran' /\ Leased' /\ Stated' /\ Posted' /\ Spent'
    BY <1>46, Frame DEF GatewayOff
  <2> QED
    BY <2>1, <2>2, <2>3, <2>4 DEF Typed
<1>47. ASSUME NEW w \in Workers, WorkerOffline(w) PROVE Typed'
  <2>0. {"ended", "serial"} \subseteq PCs
    BY Labels
  <2>1. Placed'
    BY <1>47, <2>0, Kinds DEF WorkerOffline, CallStop, Go, Placed
  <2>2. Carried'
    BY <1>47, Kinds DEF WorkerOffline, CallStop, Carried, Ran
  <2>3. Held' /\ Ran' /\ Leased' /\ Stated' /\ Paged' /\ Posted' /\ Spent'
    BY <1>47, Frame DEF WorkerOffline
  <2> QED
    BY <2>1, <2>2, <2>3 DEF Typed
<1>48. ASSUME NEW w \in Workers, WorkerEnds(w) PROVE Typed'
  <2>1. Paged'
    BY <1>48, Kinds DEF WorkerEnds, Paged
  <2>0. {"idle"} \subseteq PCs
    BY Labels
  <2>2. Placed'
    BY <1>48, <2>0, Kinds DEF WorkerEnds, Go, Placed
  <2>3. Held' /\ Ran' /\ Leased' /\ Stated' /\ Posted' /\ Carried' /\ Spent'
    BY <1>48, Frame DEF WorkerEnds
  <2> QED
    BY <2>1, <2>2, <2>3 DEF Typed
<1>49. CASE Connect
  <2>1. Paged'
    BY <1>49, Kinds DEF Connect, Paged
  <2>0. {"start"} \subseteq PCs
    BY Labels
  <2>2. Placed'
    BY <1>49, <2>0, Kinds DEF Connect, Go, Placed
  <2>3. Spent'
    BY <1>49, Spends, Frame DEF Connect
  <2>4. Held' /\ Ran' /\ Leased' /\ Stated' /\ Posted' /\ Carried'
    BY <1>49, Frame DEF Connect
  <2> QED
    BY <2>1, <2>2, <2>3, <2>4 DEF Typed
<1>50. CASE SwitchProfile
  <2>1. Paged'
    BY <1>50, Kinds DEF SwitchProfile, PageStopsEngine, Paged
  <2>0. {"serial"} \subseteq PCs
    BY Labels
  <2>2. Placed'
    BY <1>50, <2>0, Kinds DEF SwitchProfile, Go, EngineStopBegins, Placed
  <2>3. Carried'
    BY <1>50, Kinds DEF SwitchProfile, PageStopsEngine, Carried, Ran
  <2>4. Spent'
    BY <1>50, Spends, Frame DEF SwitchProfile
  <2>5. Held' /\ Ran' /\ Leased' /\ Stated' /\ Posted'
    BY <1>50, Frame DEF SwitchProfile
  <2> QED
    BY <2>1, <2>2, <2>3, <2>4, <2>5 DEF Typed
<1>51. CASE StateOn
  <2>1. Paged'
    BY <1>51, Kinds DEF StateOn, Paged
  <2>2. Posted'
    <3>1. signals' = Tail(signals) /\ signals # <<>>
      BY <1>51 DEF StateOn
    <3> QED
      BY <3>1, Sends DEF Posted
  <2>3. Held' /\ Ran' /\ Leased' /\ Stated' /\ Placed' /\ Carried' /\ Spent'
    BY <1>51, Frame DEF StateOn
  <2> QED
    BY <2>1, <2>2, <2>3 DEF Typed
<1>52. CASE GatewayOn
  <2>1. Paged'
    BY <1>52, Kinds DEF GatewayOn, Paged
  <2>2. Held' /\ Ran' /\ Leased' /\ Stated' /\ Posted' /\ Placed' /\ Carried' /\ Spent'
    BY <1>52, Frame DEF GatewayOn
  <2> QED
    BY <2>1, <2>2 DEF Typed
<1>53. CASE SwitchTun
  <2>0. {"tun off", "tun on"} \subseteq PCs
    BY Labels
  <2>1. Placed'
    BY <1>53, <2>0, Kinds DEF SwitchTun, Go, Placed
  <2>2. Carried'
    BY <1>53, Kinds DEF SwitchTun, Carried, Ran
  <2>3. Held' /\ Ran' /\ Leased' /\ Stated' /\ Paged' /\ Posted' /\ Spent'
    BY <1>53, Frame DEF SwitchTun
  <2> QED
    BY <2>1, <2>2, <2>3 DEF Typed
<1>54. CASE XrayDies
  <2>1. Ran'
    BY <1>54 DEF XrayDies, Ran
  <2>0. {"died"} \subseteq PCs
    BY Labels
  <2>2. Placed'
    BY <1>54, <2>0, Kinds DEF XrayDies, Go, Placed
  <2>3. Carried'
    BY <1>54, Kinds DEF XrayDies, Carried, Ran
  <2>4. Spent'
    BY <1>54, Spends, Frame DEF XrayDies
  <2>5. Held' /\ Leased' /\ Stated' /\ Paged' /\ Posted'
    BY <1>54, Frame DEF XrayDies
  <2> QED
    BY <2>1, <2>2, <2>3, <2>4, <2>5 DEF Typed
<1>55. CASE TunDies
  <2>1. Leased'
    BY <1>55 DEF TunDies, Leased
  <2>0. {"died"} \subseteq PCs
    BY Labels
  <2>2. Placed'
    BY <1>55, <2>0, Kinds DEF TunDies, Go, Placed
  <2>3. Spent'
    BY <1>55, Spends, Frame DEF TunDies
  <2>4. Held' /\ Ran' /\ Stated' /\ Paged' /\ Posted' /\ Carried'
    BY <1>55, Frame DEF TunDies
  <2> QED
    BY <2>1, <2>2, <2>3, <2>4 DEF Typed
<1> QED
  BY <1>st, <1>1, <1>2, <1>3, <1>4, <1>5, <1>6, <1>7, <1>8, <1>9, <1>10, <1>11, <1>12, <1>13,
     <1>14, <1>15, <1>16, <1>17, <1>18, <1>19, <1>20, <1>21, <1>22, <1>23, <1>24, <1>25, <1>26,
     <1>27, <1>28, <1>29, <1>30, <1>31, <1>32, <1>33, <1>34, <1>35, <1>36, <1>37, <1>38, <1>39,
     <1>40, <1>41, <1>42, <1>43, <1>44, <1>45, <1>46, <1>47, <1>48, <1>49, <1>50, <1>51, <1>52,
     <1>53, <1>54, <1>55
     DEF Next, Step, StopGateway, Attempt, Device, ApplyMode, Clicks


\* The variables keep their types.
THEOREM TypeCorrect == Spec => []TypeOK
<1>1. Typed => TypeOK
  BY DEF Typed, Held, Ran, Leased, Stated, Paged, Posted, Placed, Carried, Spent, TypeOK
<1> QED
  BY <1>1, TypeInit, TypeNext, PTL DEF Spec
-----------------------------------------------------------------------------

\* Nobody is two kinds of thread.
LEMMA Differ ==
  /\ \A g \in Applies : g \notin Workers \union {UI, Connector, Mode, XrayLog, TunLog}
  /\ \A w \in Workers : w \notin {UI, Connector, Mode, XrayLog, TunLog}
  /\ UI \notin {Connector, Mode, XrayLog, TunLog} /\ Connector \notin {Mode, XrayLog, TunLog}
  /\ Mode \notin {XrayLog, TunLog} /\ XrayLog # TunLog
<1>1. /\ \A g \in Applies : g \notin Workers \union {UI, Connector, Mode, XrayLog, TunLog}
      /\ \A w \in Workers : w \notin {UI, Connector, Mode, XrayLog, TunLog}
  BY ThreadsAssumption
<1> QED
  BY <1>1 DEF UI, Connector, Mode, XrayLog, TunLog

\* The threads a step does not move stay where they can be.
LEMMA Others ==
  ASSUME Post, NEW M \in SUBSET Threads, Only(M), Passes(M), \A u \in M : Seated(u)'
  PROVE  Post'
<1> SUFFICES ASSUME NEW u \in Threads PROVE Seated(u)'
  BY DEF Post
<1>1. CASE u \in M
  BY <1>1
<1>2. CASE u \notin M
  <2>1. pc'[u] = pc[u] /\ back'[u] = back[u] /\ after'[u] = after[u]
    BY <1>2 DEF Only
  <2>2. u # None
    BY Kinds
  <2>3. /\ lifecycle' = u <=> lifecycle = u
        /\ serial' = u <=> serial = u
        /\ manager' = u <=> manager = u
        /\ applying' = u <=> applying = u
    BY <1>2, <2>2 DEF Passes
  <2>4. Seated(u)
    BY DEF Post
  <2> QED
    BY <2>1, <2>3, <2>4 DEF Seated, Holds
<1> QED
  BY <1>1, <1>2

\* A thread that returns from GatewayManager.stop goes where it can be.
LEMMA Returning ==
  ASSUME Carried, Post, NEW t \in Threads, pc[t] \in Stopping \ {"serial"},
         Moves(t, back[t], "leave", after[t]), serial' = None,
         manager' = (IF pc[t] = "lease" THEN None ELSE manager),
         UNCHANGED <<lifecycle, applying>>
  PROVE  Post'
<1> USE DEF Stopping, Starting
<1>1. Seated(t) /\ t # None
  BY Kinds DEF Post
<1>2. back[t] \in {"lock", "body", "applied", "disabled", "leave", "ended"}
  BY DEF Carried
<1>3. Fits(t, back[t], "leave", after[t])
  BY <1>1, <1>2 DEF Seated, Fits, InStop, OnPath, Modes
<1>4. HoldsLifecycle(back[t], "leave") <=> lifecycle = t
  BY <1>1, <1>2 DEF Seated, Holds, HoldsLifecycle
<1>5. HoldsApplying(back[t], "leave") <=> applying = t
  BY <1>1, <1>2 DEF Seated, Holds, HoldsApplying, OnPath, Modes
<1>6. ~HoldsSerial(back[t]) /\ ~HoldsManager(back[t]) /\ back[t] # "lease"
  BY <1>2 DEF HoldsSerial, HoldsManager
<1>7. serial = t /\ (manager = t <=> pc[t] = "lease")
  BY <1>1 DEF Seated, Holds, HoldsSerial, HoldsManager
<1>8. Seated(t)'
  BY <1>1, <1>3, <1>4, <1>5, <1>6, <1>7 DEF Seated, Holds, Moves, At
<1>9. Passes({t})
  BY <1>7 DEF Passes
<1> QED
  BY <1>8, <1>9, Others DEF Moves


\* Where the steps of GatewayManager.stop take a thread.
LEMMA StopMoves ==
  ASSUME Placed, Carried
  PROVE  /\ \A t \in Threads : Serialise(t) => pc[t] = "serial" /\ Goes(t, "begin")
         /\ \A t \in Threads : NothingToStop(t) =>
              /\ pc[t] = "begin"
              /\ Moves(t, back[t], "leave", after[t])
         /\ \A t \in Threads : StopBegins(t) => pc[t] = "begin" /\ Goes(t, "join")
         /\ \A t \in Threads : StopJoins(t) => pc[t] = "join" /\ Goes(t, "end")
         /\ \A t \in Threads : StopRestores(t) =>
              /\ pc[t] = "end"
              /\ Moves(t, back[t], "leave", after[t])
         /\ \A t \in Threads : StopRestoresAndReleases(t) =>
              /\ pc[t] = "end" /\ back[t] \notin {"lock", "body"}
              /\ Goes(t, "lease")
         /\ \A t \in Threads : StopReleases(t) =>
              /\ pc[t] = "lease"
              /\ Moves(t, back[t], "leave", after[t])
<1>1. ASSUME NEW t \in Threads, Serialise(t)
      PROVE  pc[t] = "serial" /\ Goes(t, "begin")
  BY <1>1, Kinds DEF Serialise, Go, local, Moves, Goes, Only, At, Placed, Carried
<1>2. ASSUME NEW t \in Threads, NothingToStop(t)
      PROVE  pc[t] = "begin" /\ Moves(t, back[t], "leave", after[t])
  BY <1>2, Kinds DEF NothingToStop, Returns, Go, Moves, Goes, Only, At, Placed, Carried
<1>3. ASSUME NEW t \in Threads, StopBegins(t)
      PROVE  pc[t] = "begin" /\ Goes(t, "join")
  BY <1>3, Kinds DEF StopBegins, Go, local, Moves, Goes, Only, At, Placed, Carried
<1>4. ASSUME NEW t \in Threads, StopJoins(t)
      PROVE  pc[t] = "join" /\ Goes(t, "end")
  BY <1>4, Kinds DEF StopJoins, Go, local, Moves, Goes, Only, At, Placed, Carried
<1>5. ASSUME NEW t \in Threads, StopRestores(t)
      PROVE  pc[t] = "end" /\ Moves(t, back[t], "leave", after[t])
  BY <1>5, Kinds DEF StopRestores, StopEnds, Returns, Go, Moves, Goes, Only, At, Placed, Carried
<1>6. ASSUME NEW t \in Threads, StopRestoresAndReleases(t)
      PROVE  pc[t] = "end" /\ back[t] \notin {"lock", "body"} /\ Goes(t, "lease")
  BY <1>6, Kinds
     DEF StopRestoresAndReleases, Go, EngineStopping, Moves, Goes, Only, At, Placed, Carried
<1>7. ASSUME NEW t \in Threads, StopReleases(t)
      PROVE  pc[t] = "lease" /\ Moves(t, back[t], "leave", after[t])
  BY <1>7, Kinds DEF StopReleases, StopEnds, Returns, Go, Moves, Goes, Only, At, Placed, Carried
<1> QED
  BY <1>1, <1>2, <1>3, <1>4, <1>5, <1>6, <1>7

\* Where the steps of Engine.stop, of a connect, of the TUN mode and of the readers of the
\* logs take a thread.
LEMMA EngineMoves ==
  ASSUME Placed, Carried, Post
  PROVE  /\ \A t \in Threads : EngineLock(t) =>
              /\ pc[t] = "lock"
              /\ Moves(t, "serial", "body", after[t])
         /\ \A t \in Threads : StopLocked(t) =>
              /\ pc[t] = "body"
              /\ Moves(t, after[t], back[t], "idle")
         /\ \A t \in Threads : StartEngine(t) =>
              /\ pc[t] = "start"
              /\ t = Connector
              /\ Moves(t, "serial", "body", "spawn")
         /\ \A t \in Threads : Spawn(t) => pc[t] = "spawn" /\ Goes(t, "probe")
         /\ \A t \in Threads : SpawnFails(t) =>
              /\ pc[t] = "spawn"
              /\ Moves(t, "serial", "body", "failed")
         /\ \A t \in Threads : AttemptCancelled(t) =>
              /\ pc[t] \in {"start", "failed", "probe"}
              /\ Goes(t, "idle")
         /\ \A t \in Threads : AttemptFails(t) =>
              /\ pc[t] \in {"failed", "probe"}
              /\ \/ Moves(t, "serial", "lock", "start")
                 \/ Moves(t, "serial", "lock", "give up")
         /\ \A t \in Threads : GiveUp(t) =>
              /\ pc[t] = "give up"
              /\ \/ Goes(t, "idle")
                 \/ Moves(t, "serial", "lock", "idle")
         /\ \A t \in Threads : AttemptSucceeds(t) =>
              /\ pc[t] = "probe"
              /\ \/ Goes(t, "idle")
                 \/ Goes(t, "tun on")
         /\ \A t \in Threads : TunOn(t) =>
              /\ pc[t] = "tun on"
              /\ \/ Goes(t, "idle")
                 \/ Goes(t, "failed") /\ t = Connector
                 \/ Goes(t, "tun off") /\ t = Mode
         /\ \A t \in Threads : TunRefused(t) =>
              /\ pc[t] = "tun on"
              /\ \/ Goes(t, "failed") /\ t = Connector
                 \/ Goes(t, "idle")
         /\ \A t \in Threads : TunOff(t) => pc[t] = "tun off" /\ Goes(t, "idle")
         /\ \A t \in Threads : XrayLogEnds(t) =>
              /\ pc[t] = "died"
              /\ \/ Goes(t, "idle")
                 \/ Moves(t, "serial", "lock", "idle")
         /\ \A t \in Threads : TunLogEnds(t) =>
              /\ pc[t] = "died"
              /\ \/ Goes(t, "idle")
                 \/ Moves(t, "serial", "lock", "idle")
<1>tn. \A t \in Threads : pc[t] = "tun on" => t \in {Connector, Mode}
  BY DEF Post, Seated, Fits
<1>1. ASSUME NEW t \in Threads, EngineLock(t)
      PROVE  pc[t] = "lock" /\ Moves(t, "serial", "body", after[t])
  BY <1>1, Kinds DEF EngineLock, CallStop, Go, Moves, Goes, Only, At, Placed, Carried
<1>2. ASSUME NEW t \in Threads, StopLocked(t)
      PROVE  pc[t] = "body" /\ Moves(t, after[t], back[t], "idle")
  BY <1>2, Kinds DEF StopLocked, StopReturns, Go, Moves, Goes, Only, At, Placed, Carried
<1>3. ASSUME NEW t \in Threads, StartEngine(t)
      PROVE  pc[t] = "start" /\ t = Connector /\ Moves(t, "serial", "body", "spawn")
  BY <1>3, Kinds DEF StartEngine, CallStop, Go, Moves, Goes, Only, At, Placed, Carried
<1>4. ASSUME NEW t \in Threads, Spawn(t)
      PROVE  pc[t] = "spawn" /\ Goes(t, "probe")
  BY <1>4, Kinds DEF Spawn, Go, Moves, Goes, Only, At, Placed, Carried
<1>5. ASSUME NEW t \in Threads, SpawnFails(t)
      PROVE  pc[t] = "spawn" /\ Moves(t, "serial", "body", "failed")
  BY <1>5, Kinds DEF SpawnFails, CallStop, Go, Moves, Goes, Only, At, Placed, Carried
<1>6. ASSUME NEW t \in Threads, AttemptCancelled(t)
      PROVE  pc[t] \in {"start", "failed", "probe"} /\ Goes(t, "idle")
  BY <1>6, Kinds DEF AttemptCancelled, Go, local, Moves, Goes, Only, At, Placed, Carried
<1>7. ASSUME NEW t \in Threads, AttemptFails(t)
      PROVE  /\ pc[t] \in {"failed", "probe"}
             /\ \/ Moves(t, "serial", "lock", "start")
                \/ Moves(t, "serial", "lock", "give up")
  BY <1>7, Kinds
     DEF AttemptFails, CallEngineStop, Go, EngineStopBegins, Moves, Goes, Only, At, Placed,
         Carried
<1>8. ASSUME NEW t \in Threads, GiveUp(t)
      PROVE  /\ pc[t] = "give up"
             /\ \/ Goes(t, "idle")
                \/ Moves(t, "serial", "lock", "idle")
  <2>1. \/ pc' = [pc EXCEPT ![t] = "idle"] /\ UNCHANGED <<back, after>>
        \/ /\ pc' = [pc EXCEPT ![t] = "serial"] /\ back' = [back EXCEPT ![t] = "lock"]
           /\ after' = [after EXCEPT ![t] = "idle"]
    BY <1>8 DEF GiveUp, Go, CallEngineStop, EngineStopBegins
  <2>2. pc[t] = "give up"
    BY <1>8 DEF GiveUp
  <2> QED
    BY <2>1, <2>2 DEF Moves, Goes, Only, At, Placed, Carried
<1>9. ASSUME NEW t \in Threads, AttemptSucceeds(t)
      PROVE  /\ pc[t] = "probe"
             /\ \/ Goes(t, "idle")
                \/ Goes(t, "tun on")
  BY <1>9, Kinds DEF AttemptSucceeds, Go, local, Moves, Goes, Only, At, Placed, Carried
<1>10. ASSUME NEW t \in Threads, TunOn(t)
      PROVE  /\ pc[t] = "tun on"
             /\ \/ Goes(t, "idle")
                \/ Goes(t, "failed") /\ t = Connector
                \/ Goes(t, "tun off") /\ t = Mode
  BY <1>10, <1>tn, Kinds, Differ DEF TunOn, Go, local, Moves, Goes, Only, At, Placed, Carried
<1>11. ASSUME NEW t \in Threads, TunRefused(t)
      PROVE  /\ pc[t] = "tun on"
             /\ \/ Goes(t, "failed") /\ t = Connector
                \/ Goes(t, "idle")
  BY <1>11, <1>tn, Kinds, Differ DEF TunRefused, Go, local, Moves, Goes, Only, At, Placed, Carried
<1>12. ASSUME NEW t \in Threads, TunOff(t)
      PROVE  pc[t] = "tun off" /\ Goes(t, "idle")
  BY <1>12, Kinds DEF TunOff, Go, local, Moves, Goes, Only, At, Placed, Carried
<1>13. ASSUME NEW t \in Threads, XrayLogEnds(t)
      PROVE  /\ pc[t] = "died"
             /\ \/ Goes(t, "idle")
                \/ Moves(t, "serial", "lock", "idle")
  <2>1. \/ pc' = [pc EXCEPT ![t] = "idle"] /\ UNCHANGED <<back, after>>
        \/ /\ pc' = [pc EXCEPT ![t] = "serial"] /\ back' = [back EXCEPT ![t] = "lock"]
           /\ after' = [after EXCEPT ![t] = "idle"]
    BY <1>13 DEF XrayLogEnds, CallEngineStop, Go, EngineStopBegins
  <2>2. pc[t] = "died"
    BY <1>13 DEF XrayLogEnds
  <2> QED
    BY <2>1, <2>2 DEF Moves, Goes, Only, At, Placed, Carried
<1>14. ASSUME NEW t \in Threads, TunLogEnds(t)
      PROVE  /\ pc[t] = "died"
             /\ \/ Goes(t, "idle")
                \/ Moves(t, "serial", "lock", "idle")
  <2>1. \/ pc' = [pc EXCEPT ![t] = "idle"] /\ UNCHANGED <<back, after>>
        \/ /\ pc' = [pc EXCEPT ![t] = "serial"] /\ back' = [back EXCEPT ![t] = "lock"]
           /\ after' = [after EXCEPT ![t] = "idle"]
    BY <1>14 DEF TunLogEnds, CallEngineStop, Go, EngineStopBegins
  <2>2. pc[t] = "died"
    BY <1>14 DEF TunLogEnds
  <2> QED
    BY <2>1, <2>2 DEF Moves, Goes, Only, At, Placed, Carried
<1> QED
  BY <1>1, <1>2, <1>3, <1>4, <1>5, <1>6, <1>7, <1>8, <1>9, <1>10, <1>11, <1>12, <1>13, <1>14

\* Where the steps of enable_gateway, GatewayManager.start and disable_gateway take it.
LEMMA ApplyMoves ==
  ASSUME Placed, Carried
  PROVE  /\ \A g \in Applies : Overtaken(g) =>
              /\ pc[g] \in {"queued on", "queued off"}
              /\ Goes(g, "done")
         /\ \A g \in Applies : ApplyOn(g) => pc[g] = "queued on" /\ Goes(g, "check on")
         /\ \A g \in Applies : CheckOn(g) =>
              /\ pc[g] = "check on"
              /\ \/ Goes(g, "ready")
                 \/ Goes(g, "applied")
         /\ \A g \in Applies : StartReturns(g) =>
              /\ pc[g] = "ready"
              /\ \/ Goes(g, "started")
                 \/ Goes(g, "applied")
         /\ \A g \in Applies : StartGateway(g) =>
              /\ pc[g] = "ready"
              /\ \/ Goes(g, "detect")
                 \/ Goes(g, "recover")
         /\ \A g \in Applies : Recover(g) =>
              /\ pc[g] = "recover"
              /\ \/ Goes(g, "detect") /\ manager' = manager
                 \/ Goes(g, "applied") /\ manager' = None
         /\ \A g \in Applies : Detect(g) =>
              /\ pc[g] = "detect"
              /\ \/ Goes(g, "acquire") /\ manager' = manager
                 \/ Goes(g, "applied") /\ manager' = None
         /\ \A g \in Applies : Acquire(g) => pc[g] = "acquire" /\ Goes(g, "adapter")
         /\ \A g \in Applies : AcquireRaises(g) => pc[g] = "acquire" /\ Goes(g, "applied")
         /\ \A g \in Applies : AdapterUp(g) => pc[g] = "adapter" /\ Goes(g, "apply")
         /\ \A g \in Applies : AdapterMissing(g) => pc[g] = "adapter" /\ Goes(g, "return")
         /\ \A g \in Applies : ReturnLease(g) =>
              /\ pc[g] = "return"
              /\ \/ Goes(g, "detect") /\ manager' = manager
                 \/ Goes(g, "applied") /\ manager' = None
                 \/ Goes(g, "undo") /\ manager' = manager
         /\ \A g \in Applies : ApplyGateway(g) =>
              /\ pc[g] = "apply"
              /\ \E w \in Workers : /\ pc[w] = "idle" /\ Only({g, w})
                                    /\ At(g, "started", back[g], after[g])
                                    /\ At(w, "watch", back[w], after[w])
         /\ \A g \in Applies : ApplyFails(g) =>
              /\ pc[g] \in {"apply", "adapter"}
              /\ Goes(g, "undo")
         /\ \A g \in Applies : UndoLease(g) => pc[g] = "undo" /\ Goes(g, "applied")
         /\ \A g \in Applies : StartedStale(g) =>
              /\ pc[g] = "started"
              /\ Moves(g, "serial", "applied", after[g])
         /\ \A g \in Applies : Started(g) => pc[g] = "started" /\ Goes(g, "current")
         /\ \A g \in Applies : StillCurrent(g) =>
              /\ pc[g] = "current"
              /\ \/ Goes(g, "applied")
                 \/ Goes(g, "drop")
         /\ \A g \in Applies : ApplyOff(g) => pc[g] = "queued off" /\ Goes(g, "check off")
         /\ \A g \in Applies : CheckOff(g) =>
              /\ pc[g] \in {"check off", "drop"}
              /\ \/ Moves(g, "serial", "leave", after[g])
                 \/ Goes(g, "leave")
                 \/ Moves(g, "serial", "disabled", after[g])
                 \/ Goes(g, "disabled")
         /\ \A g \in Applies : ApplyEnds(g) =>
              /\ pc[g] \in {"applied", "disabled", "leave"}
              /\ Goes(g, "done")
<1>1. ASSUME NEW g \in Applies, Overtaken(g)
      PROVE  pc[g] \in {"queued on", "queued off"} /\ Goes(g, "done")
  BY <1>1, Kinds DEF Overtaken, Go, local, Moves, Goes, Only, At, Placed, Carried
<1>2. ASSUME NEW g \in Applies, ApplyOn(g)
      PROVE  pc[g] = "queued on" /\ Goes(g, "check on")
  BY <1>2, Kinds DEF ApplyOn, Go, local, Moves, Goes, Only, At, Placed, Carried
<1>3. ASSUME NEW g \in Applies, CheckOn(g)
      PROVE  /\ pc[g] = "check on"
             /\ \/ Goes(g, "ready")
                \/ Goes(g, "applied")
  BY <1>3, Kinds DEF CheckOn, Go, local, Moves, Goes, Only, At, Placed, Carried
<1>4. ASSUME NEW g \in Applies, StartReturns(g)
      PROVE  /\ pc[g] = "ready"
             /\ \/ Goes(g, "started")
                \/ Goes(g, "applied")
  BY <1>4, Kinds DEF StartReturns, Go, local, Moves, Goes, Only, At, Placed, Carried
<1>5. ASSUME NEW g \in Applies, StartGateway(g)
      PROVE  /\ pc[g] = "ready"
             /\ \/ Goes(g, "detect")
                \/ Goes(g, "recover")
  BY <1>5, Kinds DEF StartGateway, Go, local, Moves, Goes, Only, At, Placed, Carried
<1>6. ASSUME NEW g \in Applies, Recover(g)
      PROVE  /\ pc[g] = "recover"
             /\ \/ Goes(g, "detect") /\ manager' = manager
                \/ Goes(g, "applied") /\ manager' = None
  BY <1>6, Kinds DEF Recover, Go, Raise, local, Moves, Goes, Only, At, Placed, Carried
<1>7. ASSUME NEW g \in Applies, Detect(g)
      PROVE  /\ pc[g] = "detect"
             /\ \/ Goes(g, "acquire") /\ manager' = manager
                \/ Goes(g, "applied") /\ manager' = None
  BY <1>7, Kinds DEF Detect, Go, Raise, Moves, Goes, Only, At, Placed, Carried
<1>8. ASSUME NEW g \in Applies, Acquire(g)
      PROVE  pc[g] = "acquire" /\ Goes(g, "adapter")
  BY <1>8, Kinds DEF Acquire, Go, local, Moves, Goes, Only, At, Placed, Carried
<1>9. ASSUME NEW g \in Applies, AcquireRaises(g)
      PROVE  pc[g] = "acquire" /\ Goes(g, "applied")
  BY <1>9, Kinds DEF AcquireRaises, Raise, local, Go, Moves, Goes, Only, At, Placed, Carried
<1>10. ASSUME NEW g \in Applies, AdapterUp(g)
      PROVE  pc[g] = "adapter" /\ Goes(g, "apply")
  BY <1>10, Kinds DEF AdapterUp, Go, local, Moves, Goes, Only, At, Placed, Carried
<1>11. ASSUME NEW g \in Applies, AdapterMissing(g)
      PROVE  pc[g] = "adapter" /\ Goes(g, "return")
  BY <1>11, Kinds DEF AdapterMissing, Go, Moves, Goes, Only, At, Placed, Carried
<1>12. ASSUME NEW g \in Applies, ReturnLease(g)
      PROVE  /\ pc[g] = "return"
             /\ \/ Goes(g, "detect") /\ manager' = manager
                \/ Goes(g, "applied") /\ manager' = None
                \/ Goes(g, "undo") /\ manager' = manager
  BY <1>12, Kinds DEF ReturnLease, Go, Raise, Moves, Goes, Only, At, Placed, Carried
<1>13. ASSUME NEW g \in Applies, ApplyGateway(g)
      PROVE  /\ pc[g] = "apply"
             /\ \E w \in Workers : /\ pc[w] = "idle" /\ Only({g, w})
                                   /\ At(g, "started", back[g], after[g])
                                   /\ At(w, "watch", back[w], after[w])
  <2>1. PICK w \in Workers : pc[w] = "idle" /\ pc' = [pc EXCEPT ![g] = "started", ![w] = "watch"]
    BY <1>13 DEF ApplyGateway
  <2>2. Only({g, w}) /\ At(g, "started", back[g], after[g]) /\ At(w, "watch", back[w], after[w])
    BY <1>13, <2>1, Kinds, Differ DEF ApplyGateway, local, Only, At, Placed, Carried
  <2> QED
    BY <1>13, <2>1, <2>2 DEF ApplyGateway
<1>14. ASSUME NEW g \in Applies, ApplyFails(g)
      PROVE  pc[g] \in {"apply", "adapter"} /\ Goes(g, "undo")
  BY <1>14, Kinds DEF ApplyFails, Go, Moves, Goes, Only, At, Placed, Carried
<1>15. ASSUME NEW g \in Applies, UndoLease(g)
      PROVE  pc[g] = "undo" /\ Goes(g, "applied")
  BY <1>15, Kinds DEF UndoLease, Raise, local, Go, Moves, Goes, Only, At, Placed, Carried
<1>16. ASSUME NEW g \in Applies, StartedStale(g)
      PROVE  pc[g] = "started" /\ Moves(g, "serial", "applied", after[g])
  BY <1>16, Kinds DEF StartedStale, CallStop, Go, Moves, Goes, Only, At, Placed, Carried
<1>17. ASSUME NEW g \in Applies, Started(g)
      PROVE  pc[g] = "started" /\ Goes(g, "current")
  BY <1>17, Kinds DEF Started, Go, local, Moves, Goes, Only, At, Placed, Carried
<1>18. ASSUME NEW g \in Applies, StillCurrent(g)
      PROVE  /\ pc[g] = "current"
             /\ \/ Goes(g, "applied")
                \/ Goes(g, "drop")
  BY <1>18, Kinds DEF StillCurrent, Go, local, Moves, Goes, Only, At, Placed, Carried
<1>19. ASSUME NEW g \in Applies, ApplyOff(g)
      PROVE  pc[g] = "queued off" /\ Goes(g, "check off")
  BY <1>19, Kinds DEF ApplyOff, Go, local, Moves, Goes, Only, At, Placed, Carried
<1>20. ASSUME NEW g \in Applies, CheckOff(g)
      PROVE  /\ pc[g] \in {"check off", "drop"}
             /\ \/ Moves(g, "serial", "leave", after[g])
                \/ Goes(g, "leave")
                \/ Moves(g, "serial", "disabled", after[g])
                \/ Goes(g, "disabled")
  BY <1>20, Kinds DEF CheckOff, CallStop, Go, Moves, Goes, Only, At, Placed, Carried
<1>21. ASSUME NEW g \in Applies, ApplyEnds(g)
      PROVE  pc[g] \in {"applied", "disabled", "leave"} /\ Goes(g, "done")
  BY <1>21, Kinds DEF ApplyEnds, Go, local, Moves, Goes, Only, At, Placed, Carried
<1> QED
  BY <1>1, <1>2, <1>3, <1>4, <1>5, <1>6, <1>7, <1>8, <1>9, <1>10, <1>11, <1>12, <1>13, <1>14,
     <1>15, <1>16, <1>17, <1>18, <1>19, <1>20, <1>21

\* Where clicks, signals, workers and deaths of processes take a thread.
LEMMA PageMoves ==
  ASSUME Placed, Carried
  PROVE  /\ \A g \in Applies : Disconnect(g) =>
              /\ pc[UI] = "idle" /\ At(UI, "serial", "lock", "off")
              /\ \/ Only({UI})
                 \/ Only({UI, g}) /\ pc[g] = "idle" /\ At(g, "queued off", back[g], after[g])
         /\ \A g \in Applies : StateOff(g) =>
              /\ pc[UI] \in {"idle", "off"} /\ At(UI, "idle", back[UI], after[UI])
              /\ \/ Only({UI})
                 \/ Only({UI, g}) /\ pc[g] = "idle" /\ At(g, "queued off", back[g], after[g])
         /\ \A g \in Applies : QueueOn(g) => pc[g] = "idle" /\ Goes(g, "queued on")
         /\ \A g \in Applies : GatewayOff(g) => pc[g] = "idle" /\ Goes(g, "queued off")
         /\ \A w \in Workers : WorkerOffline(w) =>
              /\ pc[w] = "watch"
              /\ Moves(w, "serial", "ended", after[w])
         /\ \A w \in Workers : WorkerEnds(w) =>
              /\ pc[w] \in {"ended", "watch"}
              /\ Goes(w, "idle")
         /\ Connect => pc[Connector] = "idle" /\ Goes(Connector, "start")
         /\ SwitchProfile => pc[UI] = "idle" /\ Moves(UI, "serial", "lock", "off")
         /\ SwitchTun =>
              /\ pc[Mode] = "idle"
              /\ \/ Goes(Mode, "tun on")
                 \/ Goes(Mode, "tun off")
         /\ XrayDies => pc[XrayLog] = "idle" /\ Goes(XrayLog, "died")
         /\ TunDies => pc[TunLog] = "idle" /\ Goes(TunLog, "died")
<1>1. ASSUME NEW g \in Applies, Disconnect(g)
      PROVE  /\ pc[UI] = "idle" /\ At(UI, "serial", "lock", "off")
             /\ \/ Only({UI})
                \/ Only({UI, g}) /\ pc[g] = "idle" /\ At(g, "queued off", back[g], after[g])
  <2>1. pc[UI] = "idle" /\ At(UI, "serial", "lock", "off")
    BY <1>1, Kinds, Differ
       DEF Disconnect, ResetGateway, PageStopsEngine, Go, EngineStopBegins, PageFree, PageIdle,
           At,
           Placed, Carried
  <2>2. \/ Only({UI})
        \/ Only({UI, g}) /\ pc[g] = "idle" /\ At(g, "queued off", back[g], after[g])
    BY <1>1, Kinds, Differ
       DEF Disconnect, ResetGateway, PageStopsEngine, Go, EngineStopBegins, PageFree, PageIdle,
           Only, At, Placed, Carried
  <2> QED
    BY <2>1, <2>2
<1>2. ASSUME NEW g \in Applies, StateOff(g)
      PROVE  /\ pc[UI] \in {"idle", "off"} /\ At(UI, "idle", back[UI], after[UI])
             /\ \/ Only({UI})
                \/ Only({UI, g}) /\ pc[g] = "idle" /\ At(g, "queued off", back[g], after[g])
  <2>1. pc[UI] \in {"idle", "off"} /\ At(UI, "idle", back[UI], after[UI])
    BY <1>2, Kinds, Differ DEF StateOff, ResetGateway, Go, PageIdle, At, Placed, Carried
  <2>2. \/ Only({UI})
        \/ Only({UI, g}) /\ pc[g] = "idle" /\ At(g, "queued off", back[g], after[g])
    BY <1>2, Kinds, Differ DEF StateOff, ResetGateway, Go, PageIdle, Only, At, Placed, Carried
  <2> QED
    BY <2>1, <2>2
<1>3. ASSUME NEW g \in Applies, QueueOn(g)
      PROVE  pc[g] = "idle" /\ Goes(g, "queued on")
  BY <1>3, Kinds DEF QueueOn, Go, Moves, Goes, Only, At, Placed, Carried
<1>4. ASSUME NEW g \in Applies, GatewayOff(g)
      PROVE  pc[g] = "idle" /\ Goes(g, "queued off")
  BY <1>4, Kinds DEF GatewayOff, Go, Moves, Goes, Only, At, Placed, Carried
<1>5. ASSUME NEW w \in Workers, WorkerOffline(w)
      PROVE  pc[w] = "watch" /\ Moves(w, "serial", "ended", after[w])
  BY <1>5, Kinds DEF WorkerOffline, CallStop, Go, Moves, Goes, Only, At, Placed, Carried
<1>6. ASSUME NEW w \in Workers, WorkerEnds(w)
      PROVE  pc[w] \in {"ended", "watch"} /\ Goes(w, "idle")
  BY <1>6, Kinds DEF WorkerEnds, Go, local, Moves, Goes, Only, At, Placed, Carried
<1>7. Connect => pc[Connector] = "idle" /\ Goes(Connector, "start")
  BY Kinds DEF Connect, Go, local, Moves, Goes, Only, At, Placed, Carried
<1>8. SwitchProfile => pc[UI] = "idle" /\ Moves(UI, "serial", "lock", "off")
  BY Kinds
     DEF SwitchProfile, Go, PageStopsEngine, EngineStopBegins, PageFree, PageIdle, Moves, Goes,
         Only, At, Placed, Carried
<1>9. SwitchTun => /\ pc[Mode] = "idle"
            /\ \/ Goes(Mode, "tun on")
               \/ Goes(Mode, "tun off")
  BY Kinds DEF SwitchTun, Go, Moves, Goes, Only, At, Placed, Carried
<1>10. XrayDies => pc[XrayLog] = "idle" /\ Goes(XrayLog, "died")
  BY Kinds DEF XrayDies, Go, Moves, Goes, Only, At, Placed, Carried
<1>11. TunDies => pc[TunLog] = "idle" /\ Goes(TunLog, "died")
  BY Kinds DEF TunDies, Go, local, Moves, Goes, Only, At, Placed, Carried
<1> QED
  BY <1>1, <1>2, <1>3, <1>4, <1>5, <1>6, <1>7, <1>8, <1>9, <1>10, <1>11

\* At first every thread is idle and no lock is held.
LEMMA PostInit == Init => Post
<1> SUFFICES ASSUME Init, NEW t \in Threads PROVE Seated(t)
  BY DEF Post
<1>1. pc[t] = "idle" /\ back[t] = "leave" /\ t # None
  BY Kinds DEF Init
<1>2. lifecycle = None /\ serial = None /\ manager = None /\ applying = None
  BY DEF Init
<1> QED
  BY <1>1, <1>2
     DEF Seated, Fits, InStop, Holds, HoldsLifecycle, HoldsSerial, HoldsManager, HoldsApplying,
         Stopping, Starting, OnPath, Modes

\* Every step keeps each thread where it can be, with the locks of its step.
LEMMA PostNext == Typed /\ Post /\ [Next]_vars => Post'
<1> SUFFICES ASSUME Typed, Post, [Next]_vars PROVE Post'
  OBVIOUS
<1>pt. Placed /\ Carried
  BY DEF Typed
<1> USE <1>pt
<1>st. CASE UNCHANGED vars
  BY <1>st DEF vars, locks, local, Post, Seated, Holds
<1>1. ASSUME NEW t \in Threads, Serialise(t) PROVE Post'
  <2>1. pc[t] = "serial" /\ Goes(t, "begin")
    BY <1>1, StopMoves
  <2>2. Seated(t)
    BY Kinds DEF Post
  <2>3. serial = None /\ serial' = t /\ UNCHANGED <<lifecycle, manager, applying>>
    BY <1>1 DEF Serialise
  <2>4. Seated(t)'
    BY <2>1, <2>2, <2>3, Differ, Kinds
       DEF Seated, Moves, Goes, At, Fits, InStop, Holds, HoldsLifecycle, HoldsSerial,
           HoldsManager,
           HoldsApplying, Stopping, Starting, OnPath, Modes
  <2>5. Passes({t})
    BY <2>1, <2>2, <2>3, Kinds
       DEF Seated, Passes, Holds, HoldsLifecycle, HoldsSerial, HoldsManager, HoldsApplying,
           Stopping, Starting, OnPath, Modes
  <2> QED
    BY <2>1, <2>4, <2>5, Others, Kinds DEF Moves, Goes
<1>2. ASSUME NEW t \in Threads, NothingToStop(t) PROVE Post'
  <2>1. pc[t] = "begin" /\ Moves(t, back[t], "leave", after[t])
    BY <1>2, StopMoves
  <2>2. /\ serial' = None /\ manager' = (IF pc[t] = "lease" THEN None ELSE manager)
        /\ UNCHANGED <<lifecycle, applying>>
    BY <1>2, <2>1 DEF NothingToStop
  <2> QED
    BY <2>1, <2>2, Returning DEF Stopping
<1>3. ASSUME NEW t \in Threads, StopBegins(t) PROVE Post'
  <2>1. pc[t] = "begin" /\ Goes(t, "join")
    BY <1>3, StopMoves
  <2>2. Seated(t)
    BY Kinds DEF Post
  <2>3. UNCHANGED <<lifecycle, serial, manager, applying>>
    BY <1>3 DEF StopBegins, locks
  <2>4. Seated(t)'
    BY <2>1, <2>2, <2>3, Differ, Kinds
       DEF Seated, Moves, Goes, At, Fits, InStop, Holds, HoldsLifecycle, HoldsSerial,
           HoldsManager,
           HoldsApplying, Stopping, Starting, OnPath, Modes
  <2>5. Passes({t})
    BY <2>3 DEF Passes
  <2> QED
    BY <2>1, <2>4, <2>5, Others, Kinds DEF Moves, Goes
<1>4. ASSUME NEW t \in Threads, StopJoins(t) PROVE Post'
  <2>1. pc[t] = "join" /\ Goes(t, "end")
    BY <1>4, StopMoves
  <2>2. Seated(t)
    BY Kinds DEF Post
  <2>3. UNCHANGED <<lifecycle, serial, manager, applying>>
    BY <1>4 DEF StopJoins, locks
  <2>4. Seated(t)'
    BY <2>1, <2>2, <2>3, Differ, Kinds
       DEF Seated, Moves, Goes, At, Fits, InStop, Holds, HoldsLifecycle, HoldsSerial,
           HoldsManager,
           HoldsApplying, Stopping, Starting, OnPath, Modes
  <2>5. Passes({t})
    BY <2>3 DEF Passes
  <2> QED
    BY <2>1, <2>4, <2>5, Others, Kinds DEF Moves, Goes
<1>5. ASSUME NEW t \in Threads, StopRestores(t) PROVE Post'
  <2>1. pc[t] = "end" /\ Moves(t, back[t], "leave", after[t])
    BY <1>5, StopMoves
  <2>2. /\ serial' = None /\ manager' = (IF pc[t] = "lease" THEN None ELSE manager)
        /\ UNCHANGED <<lifecycle, applying>>
    BY <1>5, <2>1 DEF StopRestores, StopEnds
  <2> QED
    BY <2>1, <2>2, Returning DEF Stopping
<1>6. ASSUME NEW t \in Threads, StopRestoresAndReleases(t) PROVE Post'
  <2>1. pc[t] = "end" /\ back[t] \notin {"lock", "body"} /\ Goes(t, "lease")
    BY <1>6, StopMoves
  <2>2. Seated(t)
    BY Kinds DEF Post
  <2>3. manager = None /\ manager' = t /\ UNCHANGED <<lifecycle, serial, applying>>
    BY <1>6 DEF StopRestoresAndReleases
  <2>4. Seated(t)'
    BY <2>1, <2>2, <2>3, Differ, Kinds
       DEF Seated, Moves, Goes, At, Fits, InStop, Holds, HoldsLifecycle, HoldsSerial,
           HoldsManager,
           HoldsApplying, Stopping, Starting, OnPath, Modes
  <2>5. Passes({t})
    BY <2>1, <2>2, <2>3, Kinds
       DEF Seated, Passes, Holds, HoldsLifecycle, HoldsSerial, HoldsManager, HoldsApplying,
           Stopping, Starting, OnPath, Modes
  <2> QED
    BY <2>1, <2>4, <2>5, Others, Kinds DEF Moves, Goes
<1>7. ASSUME NEW t \in Threads, StopReleases(t) PROVE Post'
  <2>1. pc[t] = "lease" /\ Moves(t, back[t], "leave", after[t])
    BY <1>7, StopMoves
  <2>2. /\ serial' = None /\ manager' = (IF pc[t] = "lease" THEN None ELSE manager)
        /\ UNCHANGED <<lifecycle, applying>>
    BY <1>7, <2>1 DEF StopReleases, StopEnds
  <2> QED
    BY <2>1, <2>2, Returning DEF Stopping
<1>8. ASSUME NEW t \in Threads, EngineLock(t) PROVE Post'
  <2>1. pc[t] = "lock" /\ Moves(t, "serial", "body", after[t])
    BY <1>8, EngineMoves
  <2>2. Seated(t)
    BY Kinds DEF Post
  <2>3. lifecycle = None /\ lifecycle' = t /\ UNCHANGED <<serial, manager, applying>>
    BY <1>8 DEF EngineLock
  <2>4. Seated(t)'
    BY <2>1, <2>2, <2>3, Differ, Kinds
       DEF Seated, Moves, Goes, At, Fits, InStop, Holds, HoldsLifecycle, HoldsSerial,
           HoldsManager,
           HoldsApplying, Stopping, Starting, OnPath, Modes
  <2>5. Passes({t})
    BY <2>1, <2>2, <2>3, Kinds
       DEF Seated, Passes, Holds, HoldsLifecycle, HoldsSerial, HoldsManager, HoldsApplying,
           Stopping, Starting, OnPath, Modes
  <2> QED
    BY <2>1, <2>4, <2>5, Others, Kinds DEF Moves, Goes
<1>9. ASSUME NEW t \in Threads, StopLocked(t) PROVE Post'
  <2>1. pc[t] = "body" /\ Moves(t, after[t], back[t], "idle")
    BY <1>9, EngineMoves
  <2>2. Seated(t)
    BY DEF Post
  <2>3. /\ lifecycle' = (IF after[t] = "spawn" THEN lifecycle ELSE None)
        /\ UNCHANGED <<serial, manager, applying>>
    BY <1>9 DEF StopLocked
  <2>4. \/ t = UI /\ after[t] = "off"
        \/ t = Connector /\ after[t] \in {"idle", "spawn", "failed", "start", "give up"}
        \/ t \in {XrayLog, TunLog} /\ after[t] = "idle"
    BY <2>1, <2>2 DEF Seated, Fits, InStop
  <2>5. Fits(t, after[t], back[t], "idle")
    BY <2>4 DEF Fits, InStop, Stopping, Starting, OnPath, Modes
  <2>6. Holds(t, pc[t], back[t])'
    BY <2>1, <2>2, <2>3, <2>4, Kinds DEF Moves, At, Seated, Holds, HoldsLifecycle, HoldsSerial,
       HoldsManager, HoldsApplying, Stopping, Starting, OnPath, Modes
  <2>7. Seated(t)'
    BY <2>1, <2>5, <2>6 DEF Seated, Moves, At
  <2>8. Passes({t})
    BY <2>1, <2>2, <2>3, Kinds
       DEF Seated, Passes, Holds, HoldsLifecycle, HoldsSerial, HoldsManager, HoldsApplying,
           Stopping, Starting, OnPath, Modes
  <2> QED
    BY <2>1, <2>7, <2>8, Others DEF Moves
<1>10. ASSUME NEW t \in Threads, StartEngine(t) PROVE Post'
  <2>1. pc[t] = "start" /\ t = Connector /\ Moves(t, "serial", "body", "spawn")
    BY <1>10, EngineMoves
  <2>2. Seated(t)
    BY Kinds DEF Post
  <2>3. lifecycle = None /\ lifecycle' = t /\ UNCHANGED <<serial, manager, applying>>
    BY <1>10 DEF StartEngine
  <2>4. Seated(t)'
    BY <2>1, <2>2, <2>3, Differ, Kinds
       DEF Seated, Moves, Goes, At, Fits, InStop, Holds, HoldsLifecycle, HoldsSerial,
           HoldsManager,
           HoldsApplying, Stopping, Starting, OnPath, Modes
  <2>5. Passes({t})
    BY <2>1, <2>2, <2>3, Kinds
       DEF Seated, Passes, Holds, HoldsLifecycle, HoldsSerial, HoldsManager, HoldsApplying,
           Stopping, Starting, OnPath, Modes
  <2> QED
    BY <2>1, <2>4, <2>5, Others, Kinds DEF Moves, Goes
<1>11. ASSUME NEW t \in Threads, Spawn(t) PROVE Post'
  <2>1. pc[t] = "spawn" /\ Goes(t, "probe")
    BY <1>11, EngineMoves
  <2>2. Seated(t)
    BY Kinds DEF Post
  <2>3. lifecycle' = None /\ UNCHANGED <<serial, manager, applying>>
    BY <1>11 DEF Spawn
  <2>4. Seated(t)'
    BY <2>1, <2>2, <2>3, Differ, Kinds
       DEF Seated, Moves, Goes, At, Fits, InStop, Holds, HoldsLifecycle, HoldsSerial,
           HoldsManager,
           HoldsApplying, Stopping, Starting, OnPath, Modes
  <2>5. Passes({t})
    BY <2>1, <2>2, <2>3, Kinds
       DEF Seated, Passes, Holds, HoldsLifecycle, HoldsSerial, HoldsManager, HoldsApplying,
           Stopping, Starting, OnPath, Modes
  <2> QED
    BY <2>1, <2>4, <2>5, Others, Kinds DEF Moves, Goes
<1>12. ASSUME NEW t \in Threads, SpawnFails(t) PROVE Post'
  <2>1. pc[t] = "spawn" /\ Moves(t, "serial", "body", "failed")
    BY <1>12, EngineMoves
  <2>2. Seated(t)
    BY Kinds DEF Post
  <2>3. UNCHANGED <<lifecycle, serial, manager, applying>>
    BY <1>12 DEF SpawnFails, locks
  <2>4. Seated(t)'
    BY <2>1, <2>2, <2>3, Differ, Kinds
       DEF Seated, Moves, Goes, At, Fits, InStop, Holds, HoldsLifecycle, HoldsSerial,
           HoldsManager,
           HoldsApplying, Stopping, Starting, OnPath, Modes
  <2>5. Passes({t})
    BY <2>3 DEF Passes
  <2> QED
    BY <2>1, <2>4, <2>5, Others, Kinds DEF Moves, Goes
<1>13. ASSUME NEW t \in Threads, AttemptCancelled(t) PROVE Post'
  <2>1. pc[t] \in {"start", "failed", "probe"} /\ Goes(t, "idle")
    BY <1>13, EngineMoves
  <2>2. Seated(t)
    BY Kinds DEF Post
  <2>3. UNCHANGED <<lifecycle, serial, manager, applying>>
    BY <1>13 DEF AttemptCancelled, locks
  <2>4. Seated(t)'
    BY <2>1, <2>2, <2>3, Differ, Kinds
       DEF Seated, Moves, Goes, At, Fits, InStop, Holds, HoldsLifecycle, HoldsSerial,
           HoldsManager,
           HoldsApplying, Stopping, Starting, OnPath, Modes
  <2>5. Passes({t})
    BY <2>3 DEF Passes
  <2> QED
    BY <2>1, <2>4, <2>5, Others, Kinds DEF Moves, Goes
<1>14. ASSUME NEW t \in Threads, AttemptFails(t) PROVE Post'
  <2>1. /\ pc[t] \in {"failed", "probe"}
        /\ \/ Moves(t, "serial", "lock", "start")
           \/ Moves(t, "serial", "lock", "give up")
    BY <1>14, EngineMoves
  <2>2. Seated(t)
    BY Kinds DEF Post
  <2>3. UNCHANGED <<lifecycle, serial, manager, applying>>
    BY <1>14 DEF AttemptFails, locks
  <2>4. Seated(t)'
    BY <2>1, <2>2, <2>3, Differ, Kinds
       DEF Seated, Moves, Goes, At, Fits, InStop, Holds, HoldsLifecycle, HoldsSerial,
           HoldsManager,
           HoldsApplying, Stopping, Starting, OnPath, Modes
  <2>5. Passes({t})
    BY <2>3 DEF Passes
  <2> QED
    BY <2>1, <2>4, <2>5, Others, Kinds DEF Moves, Goes
<1>15. ASSUME NEW t \in Threads, GiveUp(t) PROVE Post'
  <2>1. /\ pc[t] = "give up"
        /\ \/ Goes(t, "idle")
           \/ Moves(t, "serial", "lock", "idle")
    BY <1>15, EngineMoves
  <2>2. Seated(t)
    BY Kinds DEF Post
  <2>3. UNCHANGED <<lifecycle, serial, manager, applying>>
    BY <1>15 DEF GiveUp, locks
  <2>4. Seated(t)'
    BY <2>1, <2>2, <2>3, Differ, Kinds
       DEF Seated, Moves, Goes, At, Fits, InStop, Holds, HoldsLifecycle, HoldsSerial,
           HoldsManager,
           HoldsApplying, Stopping, Starting, OnPath, Modes
  <2>5. Passes({t})
    BY <2>3 DEF Passes
  <2> QED
    BY <2>1, <2>4, <2>5, Others, Kinds DEF Moves, Goes
<1>16. ASSUME NEW t \in Threads, AttemptSucceeds(t) PROVE Post'
  <2>1. /\ pc[t] = "probe"
        /\ \/ Goes(t, "idle")
           \/ Goes(t, "tun on")
    BY <1>16, EngineMoves
  <2>2. Seated(t)
    BY Kinds DEF Post
  <2>3. UNCHANGED <<lifecycle, serial, manager, applying>>
    BY <1>16 DEF AttemptSucceeds, locks
  <2>4. Seated(t)'
    BY <2>1, <2>2, <2>3, Differ, Kinds
       DEF Seated, Moves, Goes, At, Fits, InStop, Holds, HoldsLifecycle, HoldsSerial,
           HoldsManager,
           HoldsApplying, Stopping, Starting, OnPath, Modes
  <2>5. Passes({t})
    BY <2>3 DEF Passes
  <2> QED
    BY <2>1, <2>4, <2>5, Others, Kinds DEF Moves, Goes
<1>17. ASSUME NEW t \in Threads, TunOn(t) PROVE Post'
  <2>1. /\ pc[t] = "tun on"
        /\ \/ Goes(t, "idle")
           \/ Goes(t, "failed") /\ t = Connector
           \/ Goes(t, "tun off") /\ t = Mode
    BY <1>17, EngineMoves
  <2>2. Seated(t)
    BY Kinds DEF Post
  <2>3. UNCHANGED <<lifecycle, serial, manager, applying>>
    BY <1>17 DEF TunOn, locks
  <2>4. Seated(t)'
    BY <2>1, <2>2, <2>3, Differ, Kinds
       DEF Seated, Moves, Goes, At, Fits, InStop, Holds, HoldsLifecycle, HoldsSerial,
           HoldsManager,
           HoldsApplying, Stopping, Starting, OnPath, Modes
  <2>5. Passes({t})
    BY <2>3 DEF Passes
  <2> QED
    BY <2>1, <2>4, <2>5, Others, Kinds DEF Moves, Goes
<1>18. ASSUME NEW t \in Threads, TunRefused(t) PROVE Post'
  <2>1. /\ pc[t] = "tun on"
        /\ \/ Goes(t, "failed") /\ t = Connector
           \/ Goes(t, "idle")
    BY <1>18, EngineMoves
  <2>2. Seated(t)
    BY Kinds DEF Post
  <2>3. UNCHANGED <<lifecycle, serial, manager, applying>>
    BY <1>18 DEF TunRefused, locks
  <2>4. Seated(t)'
    BY <2>1, <2>2, <2>3, Differ, Kinds
       DEF Seated, Moves, Goes, At, Fits, InStop, Holds, HoldsLifecycle, HoldsSerial,
           HoldsManager,
           HoldsApplying, Stopping, Starting, OnPath, Modes
  <2>5. Passes({t})
    BY <2>3 DEF Passes
  <2> QED
    BY <2>1, <2>4, <2>5, Others, Kinds DEF Moves, Goes
<1>19. ASSUME NEW t \in Threads, TunOff(t) PROVE Post'
  <2>1. pc[t] = "tun off" /\ Goes(t, "idle")
    BY <1>19, EngineMoves
  <2>2. Seated(t)
    BY Kinds DEF Post
  <2>3. UNCHANGED <<lifecycle, serial, manager, applying>>
    BY <1>19 DEF TunOff, locks
  <2>4. Seated(t)'
    BY <2>1, <2>2, <2>3, Differ, Kinds
       DEF Seated, Moves, Goes, At, Fits, InStop, Holds, HoldsLifecycle, HoldsSerial,
           HoldsManager,
           HoldsApplying, Stopping, Starting, OnPath, Modes
  <2>5. Passes({t})
    BY <2>3 DEF Passes
  <2> QED
    BY <2>1, <2>4, <2>5, Others, Kinds DEF Moves, Goes
<1>20. ASSUME NEW t \in Threads, XrayLogEnds(t) PROVE Post'
  <2>1. /\ pc[t] = "died"
        /\ \/ Goes(t, "idle")
           \/ Moves(t, "serial", "lock", "idle")
    BY <1>20, EngineMoves
  <2>2. Seated(t)
    BY Kinds DEF Post
  <2>3. UNCHANGED <<lifecycle, serial, manager, applying>>
    BY <1>20 DEF XrayLogEnds, locks
  <2>4. Seated(t)'
    BY <2>1, <2>2, <2>3, Differ, Kinds
       DEF Seated, Moves, Goes, At, Fits, InStop, Holds, HoldsLifecycle, HoldsSerial,
           HoldsManager,
           HoldsApplying, Stopping, Starting, OnPath, Modes
  <2>5. Passes({t})
    BY <2>3 DEF Passes
  <2> QED
    BY <2>1, <2>4, <2>5, Others, Kinds DEF Moves, Goes
<1>21. ASSUME NEW t \in Threads, TunLogEnds(t) PROVE Post'
  <2>1. /\ pc[t] = "died"
        /\ \/ Goes(t, "idle")
           \/ Moves(t, "serial", "lock", "idle")
    BY <1>21, EngineMoves
  <2>2. Seated(t)
    BY Kinds DEF Post
  <2>3. UNCHANGED <<lifecycle, serial, manager, applying>>
    BY <1>21 DEF TunLogEnds, locks
  <2>4. Seated(t)'
    BY <2>1, <2>2, <2>3, Differ, Kinds
       DEF Seated, Moves, Goes, At, Fits, InStop, Holds, HoldsLifecycle, HoldsSerial,
           HoldsManager,
           HoldsApplying, Stopping, Starting, OnPath, Modes
  <2>5. Passes({t})
    BY <2>3 DEF Passes
  <2> QED
    BY <2>1, <2>4, <2>5, Others, Kinds DEF Moves, Goes
<1>22. ASSUME NEW g \in Applies, Overtaken(g) PROVE Post'
  <2>1. pc[g] \in {"queued on", "queued off"} /\ Goes(g, "done")
    BY <1>22, ApplyMoves
  <2>2. Seated(g)
    BY Kinds DEF Post
  <2>3. UNCHANGED <<lifecycle, serial, manager, applying>>
    BY <1>22 DEF Overtaken, locks
  <2>4. Seated(g)'
    BY <2>1, <2>2, <2>3, Differ, Kinds
       DEF Seated, Moves, Goes, At, Fits, InStop, Holds, HoldsLifecycle, HoldsSerial,
           HoldsManager,
           HoldsApplying, Stopping, Starting, OnPath, Modes
  <2>5. Passes({g})
    BY <2>3 DEF Passes
  <2> QED
    BY <2>1, <2>4, <2>5, Others, Kinds DEF Moves, Goes
<1>23. ASSUME NEW g \in Applies, ApplyOn(g) PROVE Post'
  <2>1. pc[g] = "queued on" /\ Goes(g, "check on")
    BY <1>23, ApplyMoves
  <2>2. Seated(g)
    BY Kinds DEF Post
  <2>3. applying = None /\ applying' = g /\ UNCHANGED <<lifecycle, serial, manager>>
    BY <1>23 DEF ApplyOn
  <2>4. Seated(g)'
    BY <2>1, <2>2, <2>3, Differ, Kinds
       DEF Seated, Moves, Goes, At, Fits, InStop, Holds, HoldsLifecycle, HoldsSerial,
           HoldsManager,
           HoldsApplying, Stopping, Starting, OnPath, Modes
  <2>5. Passes({g})
    BY <2>1, <2>2, <2>3, Kinds
       DEF Seated, Passes, Holds, HoldsLifecycle, HoldsSerial, HoldsManager, HoldsApplying,
           Stopping, Starting, OnPath, Modes
  <2> QED
    BY <2>1, <2>4, <2>5, Others, Kinds DEF Moves, Goes
<1>24. ASSUME NEW g \in Applies, CheckOn(g) PROVE Post'
  <2>1. /\ pc[g] = "check on"
        /\ \/ Goes(g, "ready")
           \/ Goes(g, "applied")
    BY <1>24, ApplyMoves
  <2>2. Seated(g)
    BY Kinds DEF Post
  <2>3. UNCHANGED <<lifecycle, serial, manager, applying>>
    BY <1>24 DEF CheckOn, locks
  <2>4. Seated(g)'
    BY <2>1, <2>2, <2>3, Differ, Kinds
       DEF Seated, Moves, Goes, At, Fits, InStop, Holds, HoldsLifecycle, HoldsSerial,
           HoldsManager,
           HoldsApplying, Stopping, Starting, OnPath, Modes
  <2>5. Passes({g})
    BY <2>3 DEF Passes
  <2> QED
    BY <2>1, <2>4, <2>5, Others, Kinds DEF Moves, Goes
<1>25. ASSUME NEW g \in Applies, StartReturns(g) PROVE Post'
  <2>1. /\ pc[g] = "ready"
        /\ \/ Goes(g, "started")
           \/ Goes(g, "applied")
    BY <1>25, ApplyMoves
  <2>2. Seated(g)
    BY Kinds DEF Post
  <2>3. UNCHANGED <<lifecycle, serial, manager, applying>>
    BY <1>25 DEF StartReturns, locks
  <2>4. Seated(g)'
    BY <2>1, <2>2, <2>3, Differ, Kinds
       DEF Seated, Moves, Goes, At, Fits, InStop, Holds, HoldsLifecycle, HoldsSerial,
           HoldsManager,
           HoldsApplying, Stopping, Starting, OnPath, Modes
  <2>5. Passes({g})
    BY <2>3 DEF Passes
  <2> QED
    BY <2>1, <2>4, <2>5, Others, Kinds DEF Moves, Goes
<1>26. ASSUME NEW g \in Applies, StartGateway(g) PROVE Post'
  <2>1. /\ pc[g] = "ready"
        /\ \/ Goes(g, "detect")
           \/ Goes(g, "recover")
    BY <1>26, ApplyMoves
  <2>2. Seated(g)
    BY Kinds DEF Post
  <2>3. manager = None /\ manager' = g /\ UNCHANGED <<lifecycle, serial, applying>>
    BY <1>26 DEF StartGateway
  <2>4. Seated(g)'
    BY <2>1, <2>2, <2>3, Differ, Kinds
       DEF Seated, Moves, Goes, At, Fits, InStop, Holds, HoldsLifecycle, HoldsSerial,
           HoldsManager,
           HoldsApplying, Stopping, Starting, OnPath, Modes
  <2>5. Passes({g})
    BY <2>1, <2>2, <2>3, Kinds
       DEF Seated, Passes, Holds, HoldsLifecycle, HoldsSerial, HoldsManager, HoldsApplying,
           Stopping, Starting, OnPath, Modes
  <2> QED
    BY <2>1, <2>4, <2>5, Others, Kinds DEF Moves, Goes
<1>27. ASSUME NEW g \in Applies, Recover(g) PROVE Post'
  <2>1. /\ pc[g] = "recover"
        /\ \/ Goes(g, "detect") /\ manager' = manager
           \/ Goes(g, "applied") /\ manager' = None
    BY <1>27, ApplyMoves
  <2>2. Seated(g)
    BY Kinds DEF Post
  <2>3. UNCHANGED <<lifecycle, serial, applying>>
    BY <1>27 DEF Recover
  <2>4. Seated(g)'
    BY <2>1, <2>2, <2>3, Differ, Kinds
       DEF Seated, Moves, Goes, At, Fits, InStop, Holds, HoldsLifecycle, HoldsSerial,
           HoldsManager,
           HoldsApplying, Stopping, Starting, OnPath, Modes
  <2>5. Passes({g})
    BY <2>1, <2>2, <2>3, Kinds
       DEF Seated, Passes, Holds, HoldsLifecycle, HoldsSerial, HoldsManager, HoldsApplying,
           Stopping, Starting, OnPath, Modes
  <2> QED
    BY <2>1, <2>4, <2>5, Others, Kinds DEF Moves, Goes
<1>28. ASSUME NEW g \in Applies, Detect(g) PROVE Post'
  <2>1. /\ pc[g] = "detect"
        /\ \/ Goes(g, "acquire") /\ manager' = manager
           \/ Goes(g, "applied") /\ manager' = None
    BY <1>28, ApplyMoves
  <2>2. Seated(g)
    BY Kinds DEF Post
  <2>3. UNCHANGED <<lifecycle, serial, applying>>
    BY <1>28 DEF Detect
  <2>4. Seated(g)'
    BY <2>1, <2>2, <2>3, Differ, Kinds
       DEF Seated, Moves, Goes, At, Fits, InStop, Holds, HoldsLifecycle, HoldsSerial,
           HoldsManager,
           HoldsApplying, Stopping, Starting, OnPath, Modes
  <2>5. Passes({g})
    BY <2>1, <2>2, <2>3, Kinds
       DEF Seated, Passes, Holds, HoldsLifecycle, HoldsSerial, HoldsManager, HoldsApplying,
           Stopping, Starting, OnPath, Modes
  <2> QED
    BY <2>1, <2>4, <2>5, Others, Kinds DEF Moves, Goes
<1>29. ASSUME NEW g \in Applies, Acquire(g) PROVE Post'
  <2>1. pc[g] = "acquire" /\ Goes(g, "adapter")
    BY <1>29, ApplyMoves
  <2>2. Seated(g)
    BY Kinds DEF Post
  <2>3. UNCHANGED <<lifecycle, serial, manager, applying>>
    BY <1>29 DEF Acquire, locks
  <2>4. Seated(g)'
    BY <2>1, <2>2, <2>3, Differ, Kinds
       DEF Seated, Moves, Goes, At, Fits, InStop, Holds, HoldsLifecycle, HoldsSerial,
           HoldsManager,
           HoldsApplying, Stopping, Starting, OnPath, Modes
  <2>5. Passes({g})
    BY <2>3 DEF Passes
  <2> QED
    BY <2>1, <2>4, <2>5, Others, Kinds DEF Moves, Goes
<1>30. ASSUME NEW g \in Applies, AcquireRaises(g) PROVE Post'
  <2>1. pc[g] = "acquire" /\ Goes(g, "applied")
    BY <1>30, ApplyMoves
  <2>2. Seated(g)
    BY Kinds DEF Post
  <2>3. manager' = None /\ UNCHANGED <<lifecycle, serial, applying>>
    BY <1>30 DEF AcquireRaises, Raise
  <2>4. Seated(g)'
    BY <2>1, <2>2, <2>3, Differ, Kinds
       DEF Seated, Moves, Goes, At, Fits, InStop, Holds, HoldsLifecycle, HoldsSerial,
           HoldsManager,
           HoldsApplying, Stopping, Starting, OnPath, Modes
  <2>5. Passes({g})
    BY <2>1, <2>2, <2>3, Kinds
       DEF Seated, Passes, Holds, HoldsLifecycle, HoldsSerial, HoldsManager, HoldsApplying,
           Stopping, Starting, OnPath, Modes
  <2> QED
    BY <2>1, <2>4, <2>5, Others, Kinds DEF Moves, Goes
<1>31. ASSUME NEW g \in Applies, AdapterUp(g) PROVE Post'
  <2>1. pc[g] = "adapter" /\ Goes(g, "apply")
    BY <1>31, ApplyMoves
  <2>2. Seated(g)
    BY Kinds DEF Post
  <2>3. UNCHANGED <<lifecycle, serial, manager, applying>>
    BY <1>31 DEF AdapterUp, locks
  <2>4. Seated(g)'
    BY <2>1, <2>2, <2>3, Differ, Kinds
       DEF Seated, Moves, Goes, At, Fits, InStop, Holds, HoldsLifecycle, HoldsSerial,
           HoldsManager,
           HoldsApplying, Stopping, Starting, OnPath, Modes
  <2>5. Passes({g})
    BY <2>3 DEF Passes
  <2> QED
    BY <2>1, <2>4, <2>5, Others, Kinds DEF Moves, Goes
<1>32. ASSUME NEW g \in Applies, AdapterMissing(g) PROVE Post'
  <2>1. pc[g] = "adapter" /\ Goes(g, "return")
    BY <1>32, ApplyMoves
  <2>2. Seated(g)
    BY Kinds DEF Post
  <2>3. UNCHANGED <<lifecycle, serial, manager, applying>>
    BY <1>32 DEF AdapterMissing, locks
  <2>4. Seated(g)'
    BY <2>1, <2>2, <2>3, Differ, Kinds
       DEF Seated, Moves, Goes, At, Fits, InStop, Holds, HoldsLifecycle, HoldsSerial,
           HoldsManager,
           HoldsApplying, Stopping, Starting, OnPath, Modes
  <2>5. Passes({g})
    BY <2>3 DEF Passes
  <2> QED
    BY <2>1, <2>4, <2>5, Others, Kinds DEF Moves, Goes
<1>33. ASSUME NEW g \in Applies, ReturnLease(g) PROVE Post'
  <2>1. /\ pc[g] = "return"
        /\ \/ Goes(g, "detect") /\ manager' = manager
           \/ Goes(g, "applied") /\ manager' = None
           \/ Goes(g, "undo") /\ manager' = manager
    BY <1>33, ApplyMoves
  <2>2. Seated(g)
    BY Kinds DEF Post
  <2>3. UNCHANGED <<lifecycle, serial, applying>>
    BY <1>33 DEF ReturnLease
  <2>4. Seated(g)'
    BY <2>1, <2>2, <2>3, Differ, Kinds
       DEF Seated, Moves, Goes, At, Fits, InStop, Holds, HoldsLifecycle, HoldsSerial,
           HoldsManager,
           HoldsApplying, Stopping, Starting, OnPath, Modes
  <2>5. Passes({g})
    BY <2>1, <2>2, <2>3, Kinds
       DEF Seated, Passes, Holds, HoldsLifecycle, HoldsSerial, HoldsManager, HoldsApplying,
           Stopping, Starting, OnPath, Modes
  <2> QED
    BY <2>1, <2>4, <2>5, Others, Kinds DEF Moves, Goes
<1>34. ASSUME NEW g \in Applies, ApplyGateway(g) PROVE Post'
  <2>1. PICK w \in Workers : /\ pc[w] = "idle" /\ Only({g, w})
                             /\ At(g, "started", back[g], after[g])
                             /\ At(w, "watch", back[w], after[w])
    BY <1>34, ApplyMoves
  <2>2. Seated(g) /\ Seated(w) /\ pc[g] = "apply"
    BY <1>34, ApplyMoves, Kinds DEF Post
  <2>3. manager' = None /\ UNCHANGED <<lifecycle, serial, applying>>
    BY <1>34 DEF ApplyGateway
  <2>4. Seated(g)'
    BY <2>1, <2>2, <2>3, Differ, Kinds
       DEF Seated, At, Fits, InStop, Holds, HoldsLifecycle, HoldsSerial, HoldsManager,
           HoldsApplying, Stopping, Starting, OnPath, Modes
  <2>5. Seated(w)'
    BY <2>1, <2>2, <2>3, Differ, Kinds
       DEF Seated, At, Fits, InStop, Holds, HoldsLifecycle, HoldsSerial, HoldsManager,
           HoldsApplying, Stopping, Starting, OnPath, Modes
  <2>6. Passes({g, w})
    BY <2>2, <2>3, Kinds
       DEF Seated, Passes, Holds, HoldsLifecycle, HoldsSerial, HoldsManager, HoldsApplying,
           Stopping, Starting, OnPath, Modes
  <2> QED
    BY <2>1, <2>4, <2>5, <2>6, Others, Kinds
<1>35. ASSUME NEW g \in Applies, ApplyFails(g) PROVE Post'
  <2>1. pc[g] \in {"apply", "adapter"} /\ Goes(g, "undo")
    BY <1>35, ApplyMoves
  <2>2. Seated(g)
    BY Kinds DEF Post
  <2>3. UNCHANGED <<lifecycle, serial, manager, applying>>
    BY <1>35 DEF ApplyFails, locks
  <2>4. Seated(g)'
    BY <2>1, <2>2, <2>3, Differ, Kinds
       DEF Seated, Moves, Goes, At, Fits, InStop, Holds, HoldsLifecycle, HoldsSerial,
           HoldsManager,
           HoldsApplying, Stopping, Starting, OnPath, Modes
  <2>5. Passes({g})
    BY <2>3 DEF Passes
  <2> QED
    BY <2>1, <2>4, <2>5, Others, Kinds DEF Moves, Goes
<1>36. ASSUME NEW g \in Applies, UndoLease(g) PROVE Post'
  <2>1. pc[g] = "undo" /\ Goes(g, "applied")
    BY <1>36, ApplyMoves
  <2>2. Seated(g)
    BY Kinds DEF Post
  <2>3. manager' = None /\ UNCHANGED <<lifecycle, serial, applying>>
    BY <1>36 DEF UndoLease, Raise
  <2>4. Seated(g)'
    BY <2>1, <2>2, <2>3, Differ, Kinds
       DEF Seated, Moves, Goes, At, Fits, InStop, Holds, HoldsLifecycle, HoldsSerial,
           HoldsManager,
           HoldsApplying, Stopping, Starting, OnPath, Modes
  <2>5. Passes({g})
    BY <2>1, <2>2, <2>3, Kinds
       DEF Seated, Passes, Holds, HoldsLifecycle, HoldsSerial, HoldsManager, HoldsApplying,
           Stopping, Starting, OnPath, Modes
  <2> QED
    BY <2>1, <2>4, <2>5, Others, Kinds DEF Moves, Goes
<1>37. ASSUME NEW g \in Applies, StartedStale(g) PROVE Post'
  <2>1. pc[g] = "started" /\ Moves(g, "serial", "applied", after[g])
    BY <1>37, ApplyMoves
  <2>2. Seated(g)
    BY Kinds DEF Post
  <2>3. UNCHANGED <<lifecycle, serial, manager, applying>>
    BY <1>37 DEF StartedStale, locks
  <2>4. Seated(g)'
    BY <2>1, <2>2, <2>3, Differ, Kinds
       DEF Seated, Moves, Goes, At, Fits, InStop, Holds, HoldsLifecycle, HoldsSerial,
           HoldsManager,
           HoldsApplying, Stopping, Starting, OnPath, Modes
  <2>5. Passes({g})
    BY <2>3 DEF Passes
  <2> QED
    BY <2>1, <2>4, <2>5, Others, Kinds DEF Moves, Goes
<1>38. ASSUME NEW g \in Applies, Started(g) PROVE Post'
  <2>1. pc[g] = "started" /\ Goes(g, "current")
    BY <1>38, ApplyMoves
  <2>2. Seated(g)
    BY Kinds DEF Post
  <2>3. UNCHANGED <<lifecycle, serial, manager, applying>>
    BY <1>38 DEF Started, locks
  <2>4. Seated(g)'
    BY <2>1, <2>2, <2>3, Differ, Kinds
       DEF Seated, Moves, Goes, At, Fits, InStop, Holds, HoldsLifecycle, HoldsSerial,
           HoldsManager,
           HoldsApplying, Stopping, Starting, OnPath, Modes
  <2>5. Passes({g})
    BY <2>3 DEF Passes
  <2> QED
    BY <2>1, <2>4, <2>5, Others, Kinds DEF Moves, Goes
<1>39. ASSUME NEW g \in Applies, StillCurrent(g) PROVE Post'
  <2>1. /\ pc[g] = "current"
        /\ \/ Goes(g, "applied")
           \/ Goes(g, "drop")
    BY <1>39, ApplyMoves
  <2>2. Seated(g)
    BY Kinds DEF Post
  <2>3. UNCHANGED <<lifecycle, serial, manager, applying>>
    BY <1>39 DEF StillCurrent, locks
  <2>4. Seated(g)'
    BY <2>1, <2>2, <2>3, Differ, Kinds
       DEF Seated, Moves, Goes, At, Fits, InStop, Holds, HoldsLifecycle, HoldsSerial,
           HoldsManager,
           HoldsApplying, Stopping, Starting, OnPath, Modes
  <2>5. Passes({g})
    BY <2>3 DEF Passes
  <2> QED
    BY <2>1, <2>4, <2>5, Others, Kinds DEF Moves, Goes
<1>40. ASSUME NEW g \in Applies, ApplyOff(g) PROVE Post'
  <2>1. pc[g] = "queued off" /\ Goes(g, "check off")
    BY <1>40, ApplyMoves
  <2>2. Seated(g)
    BY Kinds DEF Post
  <2>3. applying = None /\ applying' = g /\ UNCHANGED <<lifecycle, serial, manager>>
    BY <1>40 DEF ApplyOff
  <2>4. Seated(g)'
    BY <2>1, <2>2, <2>3, Differ, Kinds
       DEF Seated, Moves, Goes, At, Fits, InStop, Holds, HoldsLifecycle, HoldsSerial,
           HoldsManager,
           HoldsApplying, Stopping, Starting, OnPath, Modes
  <2>5. Passes({g})
    BY <2>1, <2>2, <2>3, Kinds
       DEF Seated, Passes, Holds, HoldsLifecycle, HoldsSerial, HoldsManager, HoldsApplying,
           Stopping, Starting, OnPath, Modes
  <2> QED
    BY <2>1, <2>4, <2>5, Others, Kinds DEF Moves, Goes
<1>41. ASSUME NEW g \in Applies, CheckOff(g) PROVE Post'
  <2>1. /\ pc[g] \in {"check off", "drop"}
        /\ \/ Moves(g, "serial", "leave", after[g])
           \/ Goes(g, "leave")
           \/ Moves(g, "serial", "disabled", after[g])
           \/ Goes(g, "disabled")
    BY <1>41, ApplyMoves
  <2>2. Seated(g)
    BY Kinds DEF Post
  <2>3. UNCHANGED <<lifecycle, serial, manager, applying>>
    BY <1>41 DEF CheckOff, locks
  <2>4. Seated(g)'
    BY <2>1, <2>2, <2>3, Differ, Kinds
       DEF Seated, Moves, Goes, At, Fits, InStop, Holds, HoldsLifecycle, HoldsSerial,
           HoldsManager,
           HoldsApplying, Stopping, Starting, OnPath, Modes
  <2>5. Passes({g})
    BY <2>3 DEF Passes
  <2> QED
    BY <2>1, <2>4, <2>5, Others, Kinds DEF Moves, Goes
<1>42. ASSUME NEW g \in Applies, ApplyEnds(g) PROVE Post'
  <2>1. pc[g] \in {"applied", "disabled", "leave"} /\ Goes(g, "done")
    BY <1>42, ApplyMoves
  <2>2. Seated(g)
    BY Kinds DEF Post
  <2>3. applying' = None /\ UNCHANGED <<lifecycle, serial, manager>>
    BY <1>42 DEF ApplyEnds
  <2>4. Seated(g)'
    BY <2>1, <2>2, <2>3, Differ, Kinds
       DEF Seated, Moves, Goes, At, Fits, InStop, Holds, HoldsLifecycle, HoldsSerial,
           HoldsManager,
           HoldsApplying, Stopping, Starting, OnPath, Modes
  <2>5. Passes({g})
    BY <2>1, <2>2, <2>3, Kinds
       DEF Seated, Passes, Holds, HoldsLifecycle, HoldsSerial, HoldsManager, HoldsApplying,
           Stopping, Starting, OnPath, Modes
  <2> QED
    BY <2>1, <2>4, <2>5, Others, Kinds DEF Moves, Goes
<1>43. ASSUME NEW g \in Applies, Disconnect(g) PROVE Post'
  <2>1. pc[UI] = "idle" /\ At(UI, "serial", "lock", "off")
    BY <1>43, PageMoves
  <2>2. \/ Only({UI})
        \/ Only({UI, g}) /\ pc[g] = "idle" /\ At(g, "queued off", back[g], after[g])
    BY <1>43, PageMoves
  <2>3. Seated(UI) /\ Seated(g) /\ UNCHANGED <<lifecycle, serial, manager, applying>>
    BY <1>43, Kinds DEF Disconnect, locks, Post
  <2>4. Seated(UI)'
    BY <2>1, <2>3, Differ, Kinds
       DEF Seated, At, Fits, InStop, Holds, HoldsLifecycle, HoldsSerial, HoldsManager,
           HoldsApplying, Stopping, Starting, OnPath, Modes
  <2>5. At(g, "queued off", back[g], after[g]) /\ pc[g] = "idle" => Seated(g)'
    BY <2>3, Differ, Kinds
       DEF Seated, At, Fits, InStop, Holds, HoldsLifecycle, HoldsSerial, HoldsManager,
           HoldsApplying, Stopping, Starting, OnPath, Modes
  <2>6. Passes({UI}) /\ Passes({UI, g})
    BY <2>3 DEF Passes
  <2>7. CASE Only({UI})
    BY <2>4, <2>6, <2>7, Others, Kinds
  <2>8. CASE Only({UI, g}) /\ pc[g] = "idle" /\ At(g, "queued off", back[g], after[g])
    BY <2>4, <2>5, <2>6, <2>8, Others, Kinds
  <2> QED
    BY <2>2, <2>7, <2>8
<1>44. ASSUME NEW g \in Applies, StateOff(g) PROVE Post'
  <2>1. pc[UI] \in {"idle", "off"} /\ At(UI, "idle", back[UI], after[UI])
    BY <1>44, PageMoves
  <2>2. \/ Only({UI})
        \/ Only({UI, g}) /\ pc[g] = "idle" /\ At(g, "queued off", back[g], after[g])
    BY <1>44, PageMoves
  <2>3. Seated(UI) /\ Seated(g) /\ UNCHANGED <<lifecycle, serial, manager, applying>>
    BY <1>44, Kinds DEF StateOff, locks, Post
  <2>4. Seated(UI)'
    BY <2>1, <2>3, Differ, Kinds
       DEF Seated, At, Fits, InStop, Holds, HoldsLifecycle, HoldsSerial, HoldsManager,
           HoldsApplying, Stopping, Starting, OnPath, Modes
  <2>5. At(g, "queued off", back[g], after[g]) /\ pc[g] = "idle" => Seated(g)'
    BY <2>3, Differ, Kinds
       DEF Seated, At, Fits, InStop, Holds, HoldsLifecycle, HoldsSerial, HoldsManager,
           HoldsApplying, Stopping, Starting, OnPath, Modes
  <2>6. Passes({UI}) /\ Passes({UI, g})
    BY <2>3 DEF Passes
  <2>7. CASE Only({UI})
    BY <2>4, <2>6, <2>7, Others, Kinds
  <2>8. CASE Only({UI, g}) /\ pc[g] = "idle" /\ At(g, "queued off", back[g], after[g])
    BY <2>4, <2>5, <2>6, <2>8, Others, Kinds
  <2> QED
    BY <2>2, <2>7, <2>8
<1>45. ASSUME NEW g \in Applies, QueueOn(g) PROVE Post'
  <2>1. pc[g] = "idle" /\ Goes(g, "queued on")
    BY <1>45, PageMoves
  <2>2. Seated(g)
    BY Kinds DEF Post
  <2>3. UNCHANGED <<lifecycle, serial, manager, applying>>
    BY <1>45 DEF QueueOn, locks
  <2>4. Seated(g)'
    BY <2>1, <2>2, <2>3, Differ, Kinds
       DEF Seated, Moves, Goes, At, Fits, InStop, Holds, HoldsLifecycle, HoldsSerial,
           HoldsManager,
           HoldsApplying, Stopping, Starting, OnPath, Modes
  <2>5. Passes({g})
    BY <2>3 DEF Passes
  <2> QED
    BY <2>1, <2>4, <2>5, Others, Kinds DEF Moves, Goes
<1>46. ASSUME NEW g \in Applies, GatewayOff(g) PROVE Post'
  <2>1. pc[g] = "idle" /\ Goes(g, "queued off")
    BY <1>46, PageMoves
  <2>2. Seated(g)
    BY Kinds DEF Post
  <2>3. UNCHANGED <<lifecycle, serial, manager, applying>>
    BY <1>46 DEF GatewayOff, locks
  <2>4. Seated(g)'
    BY <2>1, <2>2, <2>3, Differ, Kinds
       DEF Seated, Moves, Goes, At, Fits, InStop, Holds, HoldsLifecycle, HoldsSerial,
           HoldsManager,
           HoldsApplying, Stopping, Starting, OnPath, Modes
  <2>5. Passes({g})
    BY <2>3 DEF Passes
  <2> QED
    BY <2>1, <2>4, <2>5, Others, Kinds DEF Moves, Goes
<1>47. ASSUME NEW w \in Workers, WorkerOffline(w) PROVE Post'
  <2>1. pc[w] = "watch" /\ Moves(w, "serial", "ended", after[w])
    BY <1>47, PageMoves
  <2>2. Seated(w)
    BY Kinds DEF Post
  <2>3. UNCHANGED <<lifecycle, serial, manager, applying>>
    BY <1>47 DEF WorkerOffline, locks
  <2>4. Seated(w)'
    BY <2>1, <2>2, <2>3, Differ, Kinds
       DEF Seated, Moves, Goes, At, Fits, InStop, Holds, HoldsLifecycle, HoldsSerial,
           HoldsManager,
           HoldsApplying, Stopping, Starting, OnPath, Modes
  <2>5. Passes({w})
    BY <2>3 DEF Passes
  <2> QED
    BY <2>1, <2>4, <2>5, Others, Kinds DEF Moves, Goes
<1>48. ASSUME NEW w \in Workers, WorkerEnds(w) PROVE Post'
  <2>1. pc[w] \in {"ended", "watch"} /\ Goes(w, "idle")
    BY <1>48, PageMoves
  <2>2. Seated(w)
    BY Kinds DEF Post
  <2>3. UNCHANGED <<lifecycle, serial, manager, applying>>
    BY <1>48 DEF WorkerEnds, locks
  <2>4. Seated(w)'
    BY <2>1, <2>2, <2>3, Differ, Kinds
       DEF Seated, Moves, Goes, At, Fits, InStop, Holds, HoldsLifecycle, HoldsSerial,
           HoldsManager,
           HoldsApplying, Stopping, Starting, OnPath, Modes
  <2>5. Passes({w})
    BY <2>3 DEF Passes
  <2> QED
    BY <2>1, <2>4, <2>5, Others, Kinds DEF Moves, Goes
<1>49. CASE Connect
  <2>1. pc[Connector] = "idle" /\ Goes(Connector, "start")
    BY <1>49, PageMoves
  <2>2. Seated(Connector)
    BY Kinds DEF Post
  <2>3. UNCHANGED <<lifecycle, serial, manager, applying>>
    BY <1>49 DEF Connect, locks
  <2>4. Seated(Connector)'
    BY <2>1, <2>2, <2>3, Differ, Kinds
       DEF Seated, Moves, Goes, At, Fits, InStop, Holds, HoldsLifecycle, HoldsSerial,
           HoldsManager,
           HoldsApplying, Stopping, Starting, OnPath, Modes
  <2>5. Passes({Connector})
    BY <2>3 DEF Passes
  <2> QED
    BY <2>1, <2>4, <2>5, Others, Kinds DEF Moves, Goes
<1>50. CASE SwitchProfile
  <2>1. pc[UI] = "idle" /\ Moves(UI, "serial", "lock", "off")
    BY <1>50, PageMoves
  <2>2. Seated(UI)
    BY Kinds DEF Post
  <2>3. UNCHANGED <<lifecycle, serial, manager, applying>>
    BY <1>50 DEF SwitchProfile, locks
  <2>4. Seated(UI)'
    BY <2>1, <2>2, <2>3, Differ, Kinds
       DEF Seated, Moves, Goes, At, Fits, InStop, Holds, HoldsLifecycle, HoldsSerial,
           HoldsManager,
           HoldsApplying, Stopping, Starting, OnPath, Modes
  <2>5. Passes({UI})
    BY <2>3 DEF Passes
  <2> QED
    BY <2>1, <2>4, <2>5, Others, Kinds DEF Moves, Goes
<1>51. CASE StateOn
  BY <1>51 DEF StateOn, locks, local, Post, Seated, Holds
<1>52. CASE GatewayOn
  BY <1>52 DEF GatewayOn, locks, local, Post, Seated, Holds
<1>53. CASE SwitchTun
  <2>1. /\ pc[Mode] = "idle"
        /\ \/ Goes(Mode, "tun on")
           \/ Goes(Mode, "tun off")
    BY <1>53, PageMoves
  <2>2. Seated(Mode)
    BY Kinds DEF Post
  <2>3. UNCHANGED <<lifecycle, serial, manager, applying>>
    BY <1>53 DEF SwitchTun, locks
  <2>4. Seated(Mode)'
    BY <2>1, <2>2, <2>3, Differ, Kinds
       DEF Seated, Moves, Goes, At, Fits, InStop, Holds, HoldsLifecycle, HoldsSerial,
           HoldsManager,
           HoldsApplying, Stopping, Starting, OnPath, Modes
  <2>5. Passes({Mode})
    BY <2>3 DEF Passes
  <2> QED
    BY <2>1, <2>4, <2>5, Others, Kinds DEF Moves, Goes
<1>54. CASE XrayDies
  <2>1. pc[XrayLog] = "idle" /\ Goes(XrayLog, "died")
    BY <1>54, PageMoves
  <2>2. Seated(XrayLog)
    BY Kinds DEF Post
  <2>3. UNCHANGED <<lifecycle, serial, manager, applying>>
    BY <1>54 DEF XrayDies, locks
  <2>4. Seated(XrayLog)'
    BY <2>1, <2>2, <2>3, Differ, Kinds
       DEF Seated, Moves, Goes, At, Fits, InStop, Holds, HoldsLifecycle, HoldsSerial,
           HoldsManager,
           HoldsApplying, Stopping, Starting, OnPath, Modes
  <2>5. Passes({XrayLog})
    BY <2>3 DEF Passes
  <2> QED
    BY <2>1, <2>4, <2>5, Others, Kinds DEF Moves, Goes
<1>55. CASE TunDies
  <2>1. pc[TunLog] = "idle" /\ Goes(TunLog, "died")
    BY <1>55, PageMoves
  <2>2. Seated(TunLog)
    BY Kinds DEF Post
  <2>3. UNCHANGED <<lifecycle, serial, manager, applying>>
    BY <1>55 DEF TunDies, locks
  <2>4. Seated(TunLog)'
    BY <2>1, <2>2, <2>3, Differ, Kinds
       DEF Seated, Moves, Goes, At, Fits, InStop, Holds, HoldsLifecycle, HoldsSerial,
           HoldsManager,
           HoldsApplying, Stopping, Starting, OnPath, Modes
  <2>5. Passes({TunLog})
    BY <2>3 DEF Passes
  <2> QED
    BY <2>1, <2>4, <2>5, Others, Kinds DEF Moves, Goes
<1> QED
  BY <1>st, <1>1, <1>2, <1>3, <1>4, <1>5, <1>6, <1>7, <1>8, <1>9, <1>10, <1>11, <1>12, <1>13,
     <1>14, <1>15, <1>16, <1>17, <1>18, <1>19, <1>20, <1>21, <1>22, <1>23, <1>24, <1>25, <1>26,
     <1>27, <1>28, <1>29, <1>30, <1>31, <1>32, <1>33, <1>34, <1>35, <1>36, <1>37, <1>38, <1>39,
     <1>40, <1>41, <1>42, <1>43, <1>44, <1>45, <1>46, <1>47, <1>48, <1>49, <1>50, <1>51, <1>52,
     <1>53, <1>54, <1>55
     DEF Next, Step, StopGateway, Attempt, Device, ApplyMode, Clicks

\* Both hold in every reachable state.
LEMMA Core == Spec => [](Typed /\ Post)
<1> QED
  BY TypeInit, TypeNext, PostInit, PostNext, PTL DEF Spec
=============================================================================
