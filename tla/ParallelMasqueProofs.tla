------------------------ MODULE ParallelMasqueProofs ------------------------
(***************************************************************************)
(* A theorem about ParallelMasque, for any number of connects, processes   *)
(* and grow threads: no aether process is ever left without somebody who   *)
(* will stop it.                                                           *)
(***************************************************************************)
EXTENDS ParallelMasque, TLAPS

\* There is the AetherProcess of the constructor.
MasqueAssumption == MaxObject \in Nat \ {0} /\ MaxEpoch \in Nat /\ Ports \in Nat

(***************************************************************************)
(* The inductive invariant                                                 *)
(***************************************************************************)
\* A grow thread holds a process from its start until it is joined or stopped.
GrowHolds ==
  \A g \in Growers :
    /\ grow[g].pc \in {"idle", "loop"} => grow[g].proc = None
    /\ grow[g].pc \in {"wait", "join"} => grow[g].proc \in 1..made /\ grow[g].left > 0

\* So does _bring_back, and from the swap on it holds the one it replaced.
BackHolds ==
  /\ back.pc \in {"idle", "loop"} => back.proc = None
  /\ back.pc \in {"wait", "swap", "old"} => back.proc \in 1..made

(***************************************************************************)
(* The types of the locals                                                 *)
(***************************************************************************)
GrowSteps == {"idle", "loop", "wait", "join"}
BackSteps == {"idle", "loop", "wait", "swap", "old"}
GrowLocals == [pc : GrowSteps, epoch : 0..MaxEpoch, proc : Objects \union {None}, left : 0..Ports]
BackLocals == [pc : BackSteps, epoch : 0..MaxEpoch, proc : Objects \union {None}]
Sessions == {"idle", "dialled", "up", "lost", "quiet", "again", "ending", "closing"}

\* TypeOK with the locals' types named.
Typed ==
  /\ epoch \in 0..MaxEpoch /\ stop \in BOOLEAN /\ session \in Sessions
  /\ router \in BOOLEAN /\ aether \in 1..made /\ extras \subseteq 1..made
  /\ alive \subseteq 1..made /\ made \in Objects
  /\ grow \in [Growers -> GrowLocals] /\ back \in BackLocals

MasqueInv == Typed /\ GrowHolds /\ BackHolds /\ NoOrphan

\* TypeOK with the types of the records named.
LEMMA TypeMeans == TypeOK <=> Typed
BY DEF TypeOK, Typed, GrowLocals, BackLocals, GrowSteps, BackSteps, Sessions

\* The invariant holds at first.
LEMMA MasqueInit == MasqueAssumption /\ Init => MasqueInv
<1> SUFFICES ASSUME MasqueAssumption, Init PROVE MasqueInv
  OBVIOUS
<1>1. Asleep \in GrowLocals /\ Asleep.pc = "idle" /\ Asleep.proc = None
  BY DEF Asleep, GrowLocals, GrowSteps, MasqueAssumption
<1>2. back \in BackLocals /\ back.pc = "idle" /\ back.proc = None
  BY DEF Init, BackLocals, BackSteps, MasqueAssumption
<1>3. Typed
  <2>1. epoch \in 0..MaxEpoch /\ made \in Objects /\ aether \in 1..made
    BY DEF Init, Objects, MasqueAssumption
  <2>2. extras \subseteq 1..made /\ alive \subseteq 1..made
    BY DEF Init
  <2>3. grow \in [Growers -> GrowLocals]
    BY <1>1 DEF Init
  <2>4. stop \in BOOLEAN /\ session \in Sessions /\ router \in BOOLEAN
    BY DEF Init, Sessions
  <2>5. QED
    BY <1>2, <2>1, <2>2, <2>3, <2>4 DEF Typed
<1>4. GrowHolds /\ BackHolds /\ NoOrphan
  BY <1>1, <1>2 DEF Init, GrowHolds, BackHolds, NoOrphan
<1>5. QED
  BY <1>3, <1>4 DEF MasqueInv

\* A step that changes neither a process, an owner nor the locals.
LEMMA OwnersStay ==
  ASSUME MasqueInv, Typed', UNCHANGED <<aether, extras, made, grow, back>>,
         alive' \subseteq alive \union {aether}
  PROVE  MasqueInv'
BY DEF MasqueInv, GrowHolds, BackHolds, NoOrphan, Held

\* Every step keeps the invariant: by action, by conjunct.
LEMMA MasqueNext == MasqueAssumption /\ MasqueInv /\ [Next]_vars => MasqueInv'
<1> SUFFICES ASSUME MasqueAssumption, MasqueInv, [Next]_vars PROVE MasqueInv'
  OBVIOUS
<1>a. Typed
  BY DEF MasqueInv
<1>b. \A g \in Growers :
        /\ grow[g].pc \in GrowSteps /\ grow[g].epoch \in 0..MaxEpoch
        /\ grow[g].proc \in Objects \union {None} /\ grow[g].left \in 0..Ports
        /\ DOMAIN grow[g] = {"pc", "epoch", "proc", "left"}
  BY <1>a DEF Typed, GrowLocals
<1>c. /\ back.pc \in BackSteps /\ back.epoch \in 0..MaxEpoch
      /\ back.proc \in Objects \union {None} /\ DOMAIN back = {"pc", "epoch", "proc"}
  BY <1>a DEF Typed, BackLocals
<1>d. MaxObject \in Nat /\ MaxEpoch \in Nat /\ Ports \in Nat /\ Objects \subseteq Nat \ {None}
  BY DEF MasqueAssumption, Objects, None
<1>e. GrowHolds /\ BackHolds /\ NoOrphan
  BY DEF MasqueInv
<1>1. CASE ConnectDials
  <2>1. Typed'
    <3>1. epoch' \in 0..MaxEpoch
      BY <1>1, <1>a, <1>d DEF ConnectDials, Typed
    <3>2. session' \in Sessions /\ stop' \in BOOLEAN
      BY <1>1 DEF ConnectDials, Sessions
    <3>3. alive' \subseteq 1..made /\ UNCHANGED <<router, aether, extras, made, grow, back>>
      BY <1>1, <1>a DEF ConnectDials, Typed
    <3>4. QED
      BY <1>a, <3>1, <3>2, <3>3 DEF Typed
  <2>2. QED
    BY <1>1, <2>1, OwnersStay DEF ConnectDials
<1>2. CASE StartRouter
  <2> DEFINE new == [pc |-> "loop", epoch |-> epoch, proc |-> None, left |-> Ports]
  <2>1. PICK g \in Growers : grow[g].pc = "idle" /\ grow' = [grow EXCEPT ![g] = new]
    BY <1>2 DEF StartRouter
  <2>2. new \in GrowLocals /\ new.pc = "loop" /\ new.proc = None
    BY <1>a, <1>d DEF Typed, GrowLocals, GrowSteps
  <2> HIDE DEF new
  <2>3. grow[g].proc = None
    BY <2>1, <1>e DEF GrowHolds
  <2>4. Typed'
    <3>1. grow' \in [Growers -> GrowLocals]
      BY <1>a, <2>1, <2>2 DEF Typed
    <3>2. session' \in Sessions /\ router' \in BOOLEAN
      BY <1>2 DEF StartRouter, Sessions
    <3>3. UNCHANGED <<epoch, stop, aether, extras, alive, made, back>>
      BY <1>2 DEF StartRouter
    <3>4. QED
      BY <1>a, <3>1, <3>2, <3>3 DEF Typed
  <2>5. \A h \in Growers : grow'[h] = IF h = g THEN new ELSE grow[h]
    BY <2>1, <1>a DEF Typed
  <2>6. GrowHolds' /\ BackHolds'
    BY <1>2, <1>e, <2>2, <2>5 DEF StartRouter, GrowHolds, BackHolds
  <2>7. NoOrphan'
    <3>1. \A p \in alive : p # None
      BY <1>a, <1>d DEF Typed, None, Objects
    <3>2. \A p \in alive : Held(p) => Held(p)'
      BY <1>2, <2>3, <2>5, <3>1 DEF StartRouter, Held
    <3>3. UNCHANGED <<aether, extras, alive>>
      BY <1>2 DEF StartRouter
    <3>4. QED
      BY <1>e, <3>2, <3>3 DEF NoOrphan
  <2>8. QED
    BY <2>4, <2>6, <2>7 DEF MasqueInv
<1>3. CASE Disconnect
  <2>1. Typed'
    BY <1>3, <1>a, <1>d DEF Disconnect, Typed, Sessions
  <2>2. QED
    BY <1>3, <2>1, OwnersStay DEF Disconnect
<1>4. CASE DisconnectStops
  <2>1. Typed'
    BY <1>4, <1>a DEF DisconnectStops, Typed, Sessions
  <2>2. QED
    BY <1>4, <2>1, OwnersStay DEF DisconnectStops
<1>5. CASE StopParallel
  <2>1. Typed'
    BY <1>5, <1>a DEF StopParallel, Typed, Sessions
  <2>2. GrowHolds' /\ BackHolds'
    BY <1>5, <1>e DEF StopParallel, GrowHolds, BackHolds
  <2>3. NoOrphan'
    BY <1>5, <1>e DEF StopParallel, NoOrphan, Held
  <2>4. QED
    BY <2>1, <2>2, <2>3 DEF MasqueInv
<1>6. CASE Promote
  <2>1. back.proc = None /\ back' = [pc |-> "loop", epoch |-> epoch, proc |-> None]
    BY <1>6, <1>e DEF Promote, BackHolds
  <2>2. back' \in BackLocals /\ back'.pc = "loop" /\ back'.proc = None
    BY <2>1, <1>a DEF Typed, BackLocals, BackSteps
  <2>3. Typed'
    BY <1>6, <1>a, <2>2 DEF Promote, Typed
  <2>4. GrowHolds' /\ BackHolds'
    BY <1>6, <1>e, <2>2 DEF Promote, GrowHolds, BackHolds
  <2>5. NoOrphan'
    BY <1>6, <1>e, <2>1, <2>2 DEF Promote, NoOrphan, Held
  <2>6. QED
    BY <2>3, <2>4, <2>5 DEF MasqueInv
<1>7. CASE Lost
  <2>1. Typed'
    BY <1>7, <1>a DEF Lost, Typed, Sessions
  <2>2. QED
    BY <1>7, <2>1, OwnersStay DEF Lost
<1>8. CASE RaiseAgain
  <2>1. Typed'
    BY <1>8, <1>a DEF RaiseAgain, Typed, Sessions
  <2>2. QED
    BY <1>8, <2>1, OwnersStay DEF RaiseAgain
<1>9. CASE ProcessDies
  <2>1. Typed'
    BY <1>9, <1>a DEF ProcessDies, Typed
  <2>2. QED
    BY <1>9, <2>1, OwnersStay DEF ProcessDies
<1>10. ASSUME NEW g \in Growers, GrowLaunch(g) PROVE MasqueInv'
  <2>1. /\ made + 1 \in Objects /\ made' = made + 1 /\ made \in Nat
        /\ alive' = alive \union {made + 1}
    BY <1>10, <1>a, <1>d DEF GrowLaunch, Launch, Typed, Objects
  <2>2. /\ grow'[g].pc = "wait" /\ grow'[g].proc = made + 1 /\ grow'[g].left = grow[g].left
        /\ \A h \in Growers \ {g} : grow'[h] = grow[h]
    BY <1>10, <1>a, <1>b DEF GrowLaunch, Typed
  <2>3. grow' \in [Growers -> GrowLocals]
    BY <1>10, <1>a, <2>1 DEF GrowLaunch, Typed, GrowLocals, GrowSteps
  <2>4. Typed'
    BY <1>10, <1>a, <2>1, <2>3 DEF GrowLaunch, Typed
  <2>5. grow[g].proc = None /\ grow[g].left > 0
    BY <1>10, <1>e DEF GrowLaunch, GrowHolds
  <2>6. GrowHolds' /\ BackHolds'
    <3>1. \A h \in Growers \ {g} : grow'[h] = grow[h]
      BY <2>2
    <3>2. 1..made \subseteq 1..made' /\ made + 1 \in 1..made' /\ back' = back
      BY <1>10, <2>1 DEF GrowLaunch
    <3>3. grow'[g].pc = "wait" /\ grow'[g].proc \in 1..made' /\ grow'[g].left > 0
      BY <2>2, <2>5, <3>2
    <3>4. QED
      BY <1>e, <3>1, <3>2, <3>3 DEF GrowHolds, BackHolds
  <2>7. NoOrphan'
    BY <1>10, <1>a, <1>e, <2>1, <2>2, <2>5 DEF GrowLaunch, Typed, NoOrphan, Held, None
  <2>8. QED
    BY <2>4, <2>6, <2>7 DEF MasqueInv
<1>11. ASSUME NEW g \in Growers, GrowEnds(g) PROVE MasqueInv'
  <2>1. Asleep \in GrowLocals /\ Asleep.pc = "idle" /\ Asleep.proc = None
    BY <1>d DEF Asleep, GrowLocals, GrowSteps
  <2>2. \A h \in Growers : grow'[h] = IF h = g THEN Asleep ELSE grow[h]
    BY <1>11, <1>a DEF GrowEnds, Typed
  <2>3. Typed'
    BY <1>11, <1>a, <2>1 DEF GrowEnds, Typed
  <2>4. grow[g].proc = None
    BY <1>11, <1>e DEF GrowEnds, GrowHolds
  <2>5. GrowHolds' /\ BackHolds'
    BY <1>11, <1>e, <2>1, <2>2 DEF GrowEnds, GrowHolds, BackHolds
  <2>6. NoOrphan'
    BY <1>11, <1>a, <1>e, <2>2, <2>4 DEF GrowEnds, Typed, NoOrphan, Held, None
  <2>7. QED
    BY <2>3, <2>5, <2>6 DEF MasqueInv
<1>12. ASSUME NEW g \in Growers, GrowReady(g) PROVE MasqueInv'
  <2>1. /\ grow'[g].pc = "join" /\ grow'[g].proc = grow[g].proc /\ grow'[g].left = grow[g].left
        /\ \A h \in Growers \ {g} : grow'[h] = grow[h]
    BY <1>12, <1>a, <1>b DEF GrowReady, Typed
  <2>2. grow' \in [Growers -> GrowLocals]
    BY <1>12, <1>a DEF GrowReady, Typed, GrowLocals, GrowSteps
  <2>3. Typed'
    BY <1>12, <1>a, <2>2 DEF GrowReady, Typed
  <2>4. GrowHolds' /\ BackHolds'
    BY <1>12, <1>e, <2>1 DEF GrowReady, GrowHolds, BackHolds
  <2>5. NoOrphan'
    BY <1>12, <1>e, <2>1 DEF GrowReady, NoOrphan, Held
  <2>6. QED
    BY <2>3, <2>4, <2>5 DEF MasqueInv
<1>13. ASSUME NEW g \in Growers, GrowFails(g) PROVE MasqueInv'
  <2>1. /\ grow'[g].pc = "loop" /\ grow'[g].proc = None
        /\ \A h \in Growers \ {g} : grow'[h] = grow[h]
    BY <1>13, <1>a, <1>b DEF GrowFails, Typed
  <2>2. grow[g].left - 1 \in 0..Ports
    BY <1>13, <1>b, <1>d, <1>e DEF GrowFails, GrowHolds
  <2>3. grow' \in [Growers -> GrowLocals]
    BY <1>13, <1>a, <2>2 DEF GrowFails, Typed, GrowLocals, GrowSteps
  <2>4. Typed'
    BY <1>13, <1>a, <2>3 DEF GrowFails, Typed
  <2>5. GrowHolds' /\ BackHolds'
    BY <1>13, <1>e, <2>1 DEF GrowFails, GrowHolds, BackHolds
  <2>6. NoOrphan'
    BY ZenonT(60), <1>13, <1>e, <2>1 DEF GrowFails, NoOrphan, Held
  <2>7. QED
    BY <2>4, <2>5, <2>6 DEF MasqueInv
<1>14. ASSUME NEW g \in Growers, GrowJoins(g) PROVE MasqueInv'
  <2>1. /\ grow'[g].pc = "loop" /\ grow'[g].proc = None
        /\ \A h \in Growers \ {g} : grow'[h] = grow[h]
    BY <1>14, <1>a, <1>b DEF GrowJoins, Typed
  <2>2. grow[g].left - 1 \in 0..Ports /\ grow[g].proc \in 1..made
    BY <1>14, <1>b, <1>d, <1>e DEF GrowJoins, GrowHolds
  <2>3. grow' \in [Growers -> GrowLocals]
    BY <1>14, <1>a, <2>2 DEF GrowJoins, Typed, GrowLocals, GrowSteps
  <2>4. Typed'
    BY <1>14, <1>a, <2>2, <2>3 DEF GrowJoins, JoinRouter, Typed
  <2>5. GrowHolds' /\ BackHolds'
    BY <1>14, <1>e, <2>1 DEF GrowJoins, GrowHolds, BackHolds
  <2>6. \A p \in alive' : p = grow[g].proc => p \in extras'
    BY <1>14 DEF GrowJoins, JoinRouter
  <2>7. alive' \subseteq alive /\ extras \subseteq extras'
    BY <1>14 DEF GrowJoins, JoinRouter
  <2>8. NoOrphan'
    BY ZenonT(60), <1>14, <1>e, <2>1, <2>6, <2>7 DEF GrowJoins, NoOrphan, Held
  <2>9. QED
    BY <2>4, <2>5, <2>8 DEF MasqueInv
<1>15. CASE BackLaunches
  <2>1. /\ made + 1 \in Objects /\ made' = made + 1 /\ made \in Nat
        /\ alive' = alive \union {made + 1}
    BY <1>15, <1>a, <1>d DEF BackLaunches, Launch, Typed, Objects
  <2>2. back'.pc = "wait" /\ back'.proc = made + 1 /\ back.proc = None
    BY <1>15, <1>c, <1>e DEF BackLaunches, BackHolds
  <2>3. back' \in BackLocals
    BY <1>15, <1>a, <2>1 DEF BackLaunches, Typed, BackLocals, BackSteps
  <2>4. Typed'
    BY <1>15, <1>a, <2>1, <2>3 DEF BackLaunches, Typed
  <2>5. GrowHolds' /\ BackHolds'
    BY <1>15, <1>e, <1>b, <2>1, <2>2 DEF BackLaunches, GrowHolds, BackHolds
  <2>6. NoOrphan'
    BY <1>15, <1>a, <1>e, <2>1, <2>2 DEF BackLaunches, Typed, NoOrphan, Held, None
  <2>7. QED
    BY <2>4, <2>5, <2>6 DEF MasqueInv
<1>16. CASE BackEnds
  <2>1. back'.pc = "idle" /\ back'.proc = None /\ back.proc = None
    BY <1>16, <1>c, <1>e DEF BackEnds, BackHolds
  <2>2. back' \in BackLocals
    BY <1>16, <1>a DEF BackEnds, Typed, BackLocals, BackSteps
  <2>3. Typed'
    BY <1>16, <1>a, <2>2 DEF BackEnds, Typed
  <2>4. GrowHolds' /\ BackHolds' /\ NoOrphan'
    BY <1>16, <1>e, <2>1 DEF BackEnds, GrowHolds, BackHolds, NoOrphan, Held
  <2>5. QED
    BY <2>3, <2>4 DEF MasqueInv
<1>17. CASE BackReady
  <2>1. back'.pc = "swap" /\ back'.proc = back.proc
    BY <1>17, <1>c DEF BackReady
  <2>2. back' \in BackLocals
    BY <1>17, <1>a DEF BackReady, Typed, BackLocals, BackSteps
  <2>3. Typed'
    BY <1>17, <1>a, <2>2 DEF BackReady, Typed
  <2>4. GrowHolds' /\ BackHolds' /\ NoOrphan'
    BY <1>17, <1>e, <2>1 DEF BackReady, GrowHolds, BackHolds, NoOrphan, Held
  <2>5. QED
    BY <2>3, <2>4 DEF MasqueInv
<1>18. CASE BackFails
  <2>1. back'.pc = "loop" /\ back'.proc = None
    BY <1>18, <1>c DEF BackFails
  <2>2. back' \in BackLocals
    BY <1>18, <1>a DEF BackFails, Typed, BackLocals, BackSteps
  <2>3. Typed'
    BY <1>18, <1>a, <2>2 DEF BackFails, Typed
  <2>4. GrowHolds' /\ BackHolds' /\ NoOrphan'
    BY <1>18, <1>e, <2>1 DEF BackFails, GrowHolds, BackHolds, NoOrphan, Held
  <2>5. QED
    BY <2>3, <2>4 DEF MasqueInv
<1>19. CASE BackSwaps
  <2>1. back'.pc = "old" /\ back'.proc = aether /\ aether' = back.proc /\ back.proc \in 1..made
    BY <1>19, <1>c, <1>e DEF BackSwaps, BackHolds
  <2>2. aether \in Objects
    BY <1>a, <1>d DEF Typed, Objects
  <2>3. back' \in BackLocals
    BY <1>19, <1>a, <2>2 DEF BackSwaps, Typed, BackLocals, BackSteps
  <2>4. Typed'
    BY <1>19, <1>a, <2>1, <2>3 DEF BackSwaps, Typed
  <2>5. GrowHolds' /\ BackHolds'
    BY <1>19, <1>a, <1>e, <2>1 DEF BackSwaps, Typed, GrowHolds, BackHolds
  <2>6. NoOrphan'
    BY <1>19, <1>e, <2>1 DEF BackSwaps, NoOrphan, Held
  <2>7. QED
    BY <2>4, <2>5, <2>6 DEF MasqueInv
<1>20. CASE BackStopsOld
  <2>1. back'.pc = "idle" /\ back'.proc = None
    BY <1>20, <1>c DEF BackStopsOld
  <2>2. back' \in BackLocals
    BY <1>20, <1>a DEF BackStopsOld, Typed, BackLocals, BackSteps
  <2>3. Typed'
    BY <1>20, <1>a, <2>2 DEF BackStopsOld, Typed
  <2>4. GrowHolds' /\ BackHolds' /\ NoOrphan'
    BY <1>20, <1>e, <2>1 DEF BackStopsOld, GrowHolds, BackHolds, NoOrphan, Held
  <2>5. QED
    BY <2>3, <2>4 DEF MasqueInv
<1>21. CASE UNCHANGED vars
  <2>1. Typed'
    BY <1>21, <1>a DEF vars, Typed
  <2>2. QED
    BY <1>21, <2>1, OwnersStay DEF vars
<1>22. QED
  BY <1>1, <1>2, <1>3, <1>4, <1>5, <1>6, <1>7, <1>8, <1>9, <1>10, <1>11, <1>12, <1>13, <1>14,
     <1>15, <1>16, <1>17, <1>18, <1>19, <1>20, <1>21 DEF Next
-----------------------------------------------------------------------------
(***************************************************************************)
(* A process that runs is the main session, an extra session, or in the    *)
(* hands of a thread that has not ended: however disconnects, reconnects   *)
(* and process deaths fall between the steps of _grow_parallel and         *)
(* _bring_back, the next disconnect or the thread itself stops it.         *)
(***************************************************************************)
THEOREM ProcessesOwned == MasqueAssumption => (Spec => [](TypeOK /\ NoOrphan))
<1> SUFFICES ASSUME MasqueAssumption PROVE Spec => [](TypeOK /\ NoOrphan)
  OBVIOUS
<1>1. Init => MasqueInv
  BY MasqueInit
<1>2. MasqueInv /\ [Next]_vars => MasqueInv'
  BY MasqueNext
<1>3. MasqueInv => TypeOK /\ NoOrphan
  BY TypeMeans DEF MasqueInv
<1>4. QED
  BY <1>1, <1>2, <1>3, PTL DEF Spec
=============================================================================
