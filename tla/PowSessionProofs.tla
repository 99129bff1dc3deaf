-------------------------- MODULE PowSessionProofs --------------------------
(***************************************************************************)
(* Theorems about PowSession, for any number of clicks, deaths of          *)
(* processes and failures: type correctness, that no WARP process is left  *)
(* after a disconnect, and that the page is not left connecting.  Each     *)
(* lemma goes through the actions of one disjunct of Step.                 *)
(***************************************************************************)
EXTENDS PowSession, TLAPS

\* Steps of a connect alone, and of a watchdog alone.
Opening == {"wait", "waiting", "check", "clear", "begin", "guard"}
Keeping == Recovering \union Healing \union {"watch"}

\* Which threads are at which steps: only a connect starts a watchdog, and only
\* a watchdog recovers and heals.
Places ==
  \A t \in Threads :
    /\ pc[t] \in Opening => t \in Mains
    /\ pc[t] \in Keeping => t \in Dogs
    /\ pc[t] \in Dialling => t \in Mains \union Dogs
    /\ pc[t] \in Cancelling => t \in Mains \union Enders

\* TypeOK without its flags, and the flags.
Typed ==
  /\ epoch \in Nat /\ connectEpoch \in Nat /\ watchdog \in Dogs \union {None}
  /\ slot \in Threads \union {None} /\ running \subseteq Threads
  /\ winProxy \in {"user", "app", "suspended"}
  /\ exitLock \in Threads \union {None} /\ working \subseteq Threads
  /\ pc \in [Threads -> PCs]
  /\ mine \in [Threads -> Nat] /\ wants \in [Threads -> BOOLEAN]
  /\ joins \in [Threads -> Dogs \union {None}]
  /\ again \subseteq Threads /\ released \subseteq Dogs
  /\ token \in Mains \union {None} /\ request \in {"none", "connect", "disconnect"}
  /\ spent \in [legs : Nat, tuns : Nat, fails : Nat, slow : Nat]

Flags ==
  /\ stop \in BOOLEAN /\ connected \in BOOLEAN
  /\ aether \in BOOLEAN /\ psiphon \in BOOLEAN /\ direct \in BOOLEAN
  /\ exitPort \in BOOLEAN /\ proxyObj \in BOOLEAN /\ proxySession \in BOOLEAN
  /\ proxyMode \in BOOLEAN /\ fellBack \in BOOLEAN
  /\ connecting \in BOOLEAN /\ exitChoice \in BOOLEAN
-----------------------------------------------------------------------------
\* The names of the steps a thread can be at.
LEMMA Labels ==
  PCs = {"new", "done", "wait", "waiting", "check", "clear", "begin", "choose", "connected",
         "guard", "swap", "swapping", "watch", "cancel", "join", "legs", "exit", "port",
         "outer", "ready", "inner", "launch", "dial", "proxy", "resume", "session", "tun",
         "popen", "assign", "verify", "enabled", "raised", "error", "rebuild", "relock",
         "retry", "heal", "reopen", "reassign", "reverify", "fail"}
BY DEF PCs, Cancelling, Dialling, Enabling, Recovering, Healing

\* Connects, watchdogs, disconnects and switches are different threads.
LEMMA Kinds ==
  /\ Mains \subseteq Threads /\ Dogs \subseteq Threads /\ Enders \subseteq Threads
  /\ \A t \in Mains : Dog(t) \in Dogs
  /\ \A t \in Dogs : t \notin Enders /\ t \notin Mains
  /\ \A t \in Mains : t \notin Enders
BY DEF Mains, Dogs, Enders, Swappers, Threads, Dog

\* The steps of disconnect keep the types and the threads' places.
LEMMA TypeCancels ==
  ASSUME Typed, Flags, Places, NEW t \in Threads, Cancels(t) PROVE Typed' /\ Places'
<1> USE Labels, Kinds DEF Typed, Places, Opening, Keeping, Dialling, Cancelling, Recovering,
      Healing, control, legs, tun, proxy, mode, sync, locals, ui, Go
<1>1. CASE CancelStale(t)
  BY <1>1 DEF CancelStale, ReturnsFromCancel, AfterCancel
<1>2. CASE CancelBegins(t)
  BY <1>2 DEF CancelBegins
<1>3. CASE JoinedStale(t)
  BY <1>3 DEF JoinedStale, ReturnsFromCancel, AfterCancel, Joined
<1>4. CASE JoinedCurrent(t)
  BY <1>4 DEF JoinedCurrent, Joined
<1>5. CASE StopLegs(t)
  BY <1>5 DEF StopLegs
<1>6. CASE StopExit(t)
  BY <1>6 DEF StopExit, StopTun, Suspended
<1>7. CASE ClearPort(t)
  BY <1>7 DEF ClearPort, ReturnsFromCancel, AfterCancel
<1>8. QED
  BY <1>1, <1>2, <1>3, <1>4, <1>5, <1>6, <1>7 DEF Cancels

\* The steps of connect keep the types and the threads' places.
LEMMA TypeConnecting ==
  ASSUME Typed, Flags, Places, NEW t \in Threads, Connecting(t) PROVE Typed' /\ Places'
<1>a. pc[t] = "guard" => t \in Mains
  BY DEF Places, Opening
<1> USE Labels, Kinds DEF Typed, Places, Opening, Keeping, Dialling, Cancelling, Recovering,
      Healing, control, legs, tun, proxy, mode, sync, locals, ui, Go
<1>1. CASE NoOlderWork(t)
  BY <1>1 DEF NoOlderWork
<1>2. CASE OlderWork(t)
  BY <1>2 DEF OlderWork
<1>3. CASE OlderWorkEnded(t)
  BY <1>3 DEF OlderWorkEnded
<1>4. CASE CheckEpoch(t)
  <2>1. t \in Mains
    BY <1>4 DEF CheckEpoch
  <2>2. PICK l \in {"clear", "done"} : pc' = [pc EXCEPT ![t] = l]
    BY <1>4 DEF CheckEpoch, Leave
  <2>3. Places'
    BY <2>1, <2>2
  <2>a. pc' \in [Threads -> PCs]
    BY <2>2
  <2>b. token' = token /\ request' = request
    BY <1>4 DEF CheckEpoch, Leave
  <2>4. Typed'
    BY <1>4, <2>a, <2>b DEF CheckEpoch
  <2>5. QED
    BY <2>3, <2>4
<1>5. CASE ClearStop(t)
  BY <1>5 DEF ClearStop
<1>6. CASE PortBusy(t)
  BY <1>6 DEF PortBusy, Leave
<1>7. CASE Begin(t)
  BY <1>7 DEF Begin
<1>8. CASE ChooseExit(t)
  BY <1>8 DEF ChooseExit, Refuses
<1>9. CASE SetConnected(t)
  BY <1>9 DEF SetConnected
<1>10. CASE StartWatchdog(t)
  <2>1. t \in Mains /\ Dog(t) \in Dogs /\ Dog(t) \in Threads
    <3>1. t \in Mains
      BY <1>10, <1>a DEF StartWatchdog
    <3>2. QED
      BY <3>1
  <2>2. pc' \in [Threads -> PCs]
    BY <1>10, <2>1 DEF StartWatchdog
  <2>3. \A u \in Threads :
          pc'[u] = IF u = Dog(t) THEN "watch" ELSE IF u = t THEN "connected" ELSE pc[u]
    BY <1>10, <2>1 DEF StartWatchdog
  <2>4. Places'
    BY <2>1, <2>3
  <2>5. mine' \in [Threads -> Nat] /\ watchdog' \in Dogs /\ working' \subseteq Threads
    BY <1>10, <2>1 DEF StartWatchdog
  <2>6. QED
    BY <1>10, <2>2, <2>4, <2>5 DEF StartWatchdog
<1>11. CASE ConnectReturns(t)
  <2>1. PICK l \in {"swap", "done"} : pc' = [pc EXCEPT ![t] = l]
    BY <1>11 DEF ConnectReturns, Leave
  <2>2. pc' \in [Threads -> PCs] /\ token' = token /\ request' = request
    BY <1>11, <2>1 DEF ConnectReturns, Leave
  <2>3. Typed'
    BY <1>11, <2>2 DEF ConnectReturns
  <2>4. Places'
    BY <2>1
  <2>5. QED
    BY <2>3, <2>4
<1>12. CASE ConnectRaises(t)
  BY <1>12 DEF ConnectRaises, Leave, ReleaseAll
<1>13. QED
  BY <1>1, <1>2, <1>3, <1>4, <1>5, <1>6, <1>7, <1>8, <1>9, <1>10, <1>11, <1>12 DEF Connecting

\* The steps of the dials keep the types and the threads' places.
LEMMA TypeDials ==
  ASSUME Typed, Flags, Places, NEW t \in Threads, Dials(t) PROVE Typed' /\ Places'
<1> USE Labels, Kinds DEF Typed, Places, Opening, Keeping, Dialling, Cancelling, Recovering,
      Healing, control, legs, tun, proxy, mode, sync, locals, ui, Go
<1>1. CASE StartOuter(t)
  BY <1>1 DEF StartOuter, Refuses
<1>2. CASE OuterReady(t)
  BY <1>2 DEF OuterReady, Refuses
<1>3. CASE OuterFails(t)
  BY <1>3 DEF OuterFails, Refuses
<1>4. CASE CheckInner(t)
  BY <1>4 DEF CheckInner, Refuses
<1>5. CASE StartPsiphon(t)
  BY <1>5 DEF StartPsiphon
<1>6. CASE PsiphonConnected(t)
  BY <1>6 DEF PsiphonConnected
<1>7. CASE PsiphonFails(t)
  BY <1>7 DEF PsiphonFails, Refuses
<1>8. QED
  BY <1>1, <1>2, <1>3, <1>4, <1>5, <1>6, <1>7 DEF Dials

\* The steps of the exits keep the types and the threads' places.
LEMMA TypeEnables ==
  ASSUME Typed, Flags, Places, NEW t \in Threads, Enables(t) PROVE Typed' /\ Places'
<1> USE Labels, Kinds DEF Typed, Places, Opening, Keeping, Dialling, Cancelling, Recovering,
      Healing, control, legs, tun, proxy, mode, sync, locals, ui, Go
<1>1. CASE OpenForwarder(t)
  BY <1>1 DEF OpenForwarder, Refuses
<1>2. CASE ResumeProxy(t)
  BY <1>2 DEF ResumeProxy
<1>3. CASE ResumeRaises(t)
  BY <1>3 DEF ResumeRaises
<1>4. CASE OwnProxySession(t)
  BY <1>4 DEF OwnProxySession
<1>5. CASE TunUnavailable(t)
  BY <1>5 DEF TunUnavailable, FallBack, StopTun
<1>6. CASE PrepareTun(t)
  BY <1>6 DEF PrepareTun, Refuses
<1>7. CASE LaunchTun(t)
  BY <1>7 DEF LaunchTun, Refuses
<1>8. CASE AssignTun(t)
  BY <1>8 DEF AssignTun, SuspendProxy, Suspended
<1>9. CASE VerifyStopped(t)
  BY <1>9 DEF VerifyStopped, StopTun, Refuses
<1>10. CASE TunVerified(t)
  BY <1>10 DEF TunVerified
<1>11. CASE TunRejected(t)
  BY <1>11 DEF TunRejected, FallBack, StopTun
<1>12. QED
  BY <1>1, <1>2, <1>3, <1>4, <1>5, <1>6, <1>7, <1>8, <1>9, <1>10, <1>11 DEF Enables

\* The steps of the live switch keep the types and the threads' places.
LEMMA TypeSwaps ==
  ASSUME Typed, Flags, Places, NEW t \in Threads, Swaps(t) PROVE Typed' /\ Places'
<1> USE Labels, Kinds DEF Typed, Places, Opening, Keeping, Dialling, Cancelling, Recovering,
      Healing, control, legs, tun, proxy, mode, sync, locals, ui, Go
<1>1. CASE SwitchNothing(t)
  BY <1>1 DEF SwitchNothing, Leave
<1>2. CASE SwitchBegins(t)
  <2>1. wants' \in [Threads -> BOOLEAN]
    BY <1>2 DEF SwitchBegins, Flags
  <2>2. QED
    BY <1>2, <2>1 DEF SwitchBegins, StopTun, SuspendProxy, Suspended
<1>3. CASE SwitchDone(t)
  BY <1>3 DEF SwitchDone, Leave, ReleaseAll
<1>4. CASE SwitchStopped(t)
  BY <1>4 DEF SwitchStopped, Leave, ReleaseAll
<1>5. CASE SwitchRetries(t)
  BY <1>5 DEF SwitchRetries, StopTun, SuspendProxy, Suspended
<1>6. CASE SwitchRaises(t)
  BY <1>6 DEF SwitchRaises, Leave, ReleaseAll
<1>7. CASE SwitchFails(t)
  BY <1>7 DEF SwitchFails, Leave, ReleaseAll, Fail, StopTun, SuspendProxy, Suspended
<1>8. QED
  BY <1>1, <1>2, <1>3, <1>4, <1>5, <1>6, <1>7 DEF Swaps

\* The steps of the watchdog keep the types and the threads' places.
LEMMA TypeWatches ==
  ASSUME Typed, Flags, Places, NEW t \in Threads, Watches(t) PROVE Typed' /\ Places'
<1> USE Labels, Kinds DEF Typed, Places, Opening, Keeping, Dialling, Cancelling, Recovering,
      Healing, control, legs, tun, proxy, mode, sync, locals, ui, Go
<1>1. CASE WatchdogEnds(t)
  BY <1>1 DEF WatchdogEnds
<1>2. CASE LegLost(t)
  BY <1>2 DEF LegLost, Watching
<1>3. CASE RecoverStopped(t)
  BY <1>3 DEF RecoverStopped, RecoverEnds, ReleaseAll
<1>4. CASE RebuildLegs(t)
  BY <1>4 DEF RebuildLegs
<1>5. CASE RecoverRefused(t)
  BY <1>5 DEF RecoverRefused, Refuses, RecoverLocked
<1>6. CASE RecoverKeepsExit(t)
  BY <1>6 DEF RecoverKeepsExit, RecoverLocked
<1>7. CASE RecoverRebuildsExit(t)
  BY <1>7 DEF RecoverRebuildsExit, StopTun, RecoverLocked
<1>8. CASE Recovered(t)
  BY <1>8 DEF Recovered, ReleaseAll
<1>9. CASE RecoverFails(t)
  BY <1>9 DEF RecoverFails, RecoverEnds, ReleaseAll
<1>10. CASE RetrySoon(t)
  BY <1>10 DEF RetrySoon
<1>11. CASE ReleaseExit(t)
  BY <1>11 DEF ReleaseExit, StopTun, SuspendProxy, Suspended
<1>12. CASE TunLost(t)
  BY <1>12 DEF TunLost, Watching
<1>13. CASE HealBegins(t)
  BY <1>13 DEF HealBegins, StopTun
<1>14. CASE HealLaunches(t)
  BY <1>14 DEF HealLaunches
<1>15. CASE HealAssigns(t)
  BY <1>15 DEF HealAssigns, SuspendProxy, Suspended
<1>16. CASE Healed(t)
  BY <1>16 DEF Healed
<1>17. CASE NotHealed(t)
  BY <1>17 DEF NotHealed
<1>18. CASE HealFails(t)
  BY <1>18 DEF HealFails, Fail, StopTun, SuspendProxy, Suspended
<1>19. QED
  BY <1>1, <1>2, <1>3, <1>4, <1>5, <1>6, <1>7, <1>8, <1>9, <1>10, <1>11, <1>12, <1>13, <1>14,
     <1>15, <1>16, <1>17, <1>18 DEF Watches

\* The steps of the clicks keep the types and the threads' places.
LEMMA TypeClicks ==
  ASSUME Typed, Flags, Places, NEW t \in Threads, Clicks(t) PROVE Typed' /\ Places'
<1> USE Labels, Kinds DEF Typed, Places, Opening, Keeping, Dialling, Cancelling, Recovering,
      Healing, control, legs, tun, proxy, mode, sync, locals, ui, Go
<1>1. CASE Connect(t)
  <2>1. wants' \in [Threads -> BOOLEAN]
    BY <1>1 DEF Connect, Flags
  <2>2. t \in Mains /\ epoch + 1 \in Nat /\ mine' \in [Threads -> Nat]
    BY <1>1 DEF Connect
  <2>3. QED
    BY <1>1, <2>1, <2>2 DEF Connect
<1>2. CASE Disconnect(t)
  BY <1>2 DEF Disconnect
<1>3. CASE SetExitMode(t)
  BY <1>3 DEF SetExitMode
<1>4. QED
  BY <1>1, <1>2, <1>3 DEF Clicks

\* The steps of disconnect keep the flags Boolean.
LEMMA FlagsCancels ==
  ASSUME Typed, Flags, NEW t \in Threads, Cancels(t) PROVE Flags'
<1> USE DEF Flags, control, legs, tun, proxy, mode, sync, locals, ui
<1>1. /\ exitChoice \in BOOLEAN /\ wants[t] \in BOOLEAN
      /\ (~exitChoice) \in BOOLEAN /\ (~wants[t]) \in BOOLEAN
  BY DEF Typed
<1>2. CASE CancelStale(t)
  BY <1>1, <1>2 DEF CancelStale, ReturnsFromCancel
<1>3. CASE CancelBegins(t)
  BY <1>1, <1>3 DEF CancelBegins
<1>4. CASE JoinedStale(t)
  BY <1>1, <1>4 DEF JoinedStale, ReturnsFromCancel, Joined
<1>5. CASE JoinedCurrent(t)
  BY <1>1, <1>5 DEF JoinedCurrent, Joined
<1>6. CASE StopLegs(t)
  BY <1>1, <1>6 DEF StopLegs
<1>7. CASE StopExit(t)
  BY <1>1, <1>7 DEF StopExit, StopTun, Suspended
<1>8. CASE ClearPort(t)
  BY <1>1, <1>8 DEF ClearPort, ReturnsFromCancel
<1>9. QED
  BY <1>2, <1>3, <1>4, <1>5, <1>6, <1>7, <1>8 DEF Cancels

\* The steps of connect keep the flags Boolean.
LEMMA FlagsConnecting ==
  ASSUME Typed, Flags, NEW t \in Threads, Connecting(t) PROVE Flags'
<1> USE DEF Flags, control, legs, tun, proxy, mode, sync, locals, ui
<1>1. /\ exitChoice \in BOOLEAN /\ wants[t] \in BOOLEAN
      /\ (~exitChoice) \in BOOLEAN /\ (~wants[t]) \in BOOLEAN
  BY DEF Typed
<1>2. CASE NoOlderWork(t)
  BY <1>1, <1>2 DEF NoOlderWork
<1>3. CASE OlderWork(t)
  BY <1>1, <1>3 DEF OlderWork
<1>4. CASE OlderWorkEnded(t)
  BY <1>1, <1>4 DEF OlderWorkEnded
<1>5. CASE CheckEpoch(t)
  <2>1. connecting' = connecting \/ connecting' = FALSE
    BY <1>5 DEF CheckEpoch, Leave
  <2>2. exitChoice' = exitChoice
    BY <1>5 DEF CheckEpoch, Leave
  <2>3. QED
    BY ZenonT(60), <1>5, <2>1, <2>2 DEF CheckEpoch
<1>6. CASE ClearStop(t)
  BY <1>1, <1>6 DEF ClearStop
<1>7. CASE PortBusy(t)
  BY <1>1, <1>7 DEF PortBusy, Leave
<1>8. CASE Begin(t)
  BY <1>1, <1>8 DEF Begin
<1>9. CASE ChooseExit(t)
  BY <1>1, <1>9 DEF ChooseExit, Refuses
<1>10. CASE SetConnected(t)
  BY <1>1, <1>10 DEF SetConnected
<1>11. CASE StartWatchdog(t)
  BY <1>1, <1>11 DEF StartWatchdog
<1>12. CASE ConnectReturns(t)
  <2>1. connecting' = connecting \/ connecting' = FALSE
    BY <1>12 DEF ConnectReturns, Leave
  <2>2. exitChoice' = exitChoice
    BY <1>12 DEF ConnectReturns, Leave
  <2>3. QED
    BY ZenonT(60), <1>12, <2>1, <2>2 DEF ConnectReturns
<1>13. CASE ConnectRaises(t)
  BY <1>1, <1>13 DEF ConnectRaises, Leave, ReleaseAll
<1>14. QED
  BY <1>2, <1>3, <1>4, <1>5, <1>6, <1>7, <1>8, <1>9, <1>10, <1>11, <1>12, <1>13 DEF Connecting

\* The steps of the dials keep the flags Boolean.
LEMMA FlagsDials ==
  ASSUME Typed, Flags, NEW t \in Threads, Dials(t) PROVE Flags'
<1> USE DEF Flags, control, legs, tun, proxy, mode, sync, locals, ui
<1>1. /\ exitChoice \in BOOLEAN /\ wants[t] \in BOOLEAN
      /\ (~exitChoice) \in BOOLEAN /\ (~wants[t]) \in BOOLEAN
  BY DEF Typed
<1>2. CASE StartOuter(t)
  BY ZenonT(60), <1>1, <1>2 DEF StartOuter, Refuses
<1>3. CASE OuterReady(t)
  BY <1>1, <1>3 DEF OuterReady, Refuses
<1>4. CASE OuterFails(t)
  BY <1>1, <1>4 DEF OuterFails, Refuses
<1>5. CASE CheckInner(t)
  BY <1>1, <1>5 DEF CheckInner, Refuses
<1>6. CASE StartPsiphon(t)
  BY <1>1, <1>6 DEF StartPsiphon
<1>7. CASE PsiphonConnected(t)
  BY <1>1, <1>7 DEF PsiphonConnected
<1>8. CASE PsiphonFails(t)
  BY ZenonT(60), <1>1, <1>8 DEF PsiphonFails, Refuses
<1>9. QED
  BY <1>2, <1>3, <1>4, <1>5, <1>6, <1>7, <1>8 DEF Dials

\* The steps of the exits keep the flags Boolean.
LEMMA FlagsEnables ==
  ASSUME Typed, Flags, NEW t \in Threads, Enables(t) PROVE Flags'
<1> USE DEF Flags, control, legs, tun, proxy, mode, sync, locals, ui
<1>1. /\ exitChoice \in BOOLEAN /\ wants[t] \in BOOLEAN
      /\ (~exitChoice) \in BOOLEAN /\ (~wants[t]) \in BOOLEAN
  BY DEF Typed
<1>2. CASE OpenForwarder(t)
  BY <1>1, <1>2 DEF OpenForwarder, Refuses
<1>3. CASE ResumeProxy(t)
  BY <1>1, <1>3 DEF ResumeProxy
<1>4. CASE ResumeRaises(t)
  BY <1>1, <1>4 DEF ResumeRaises
<1>5. CASE OwnProxySession(t)
  BY <1>1, <1>5 DEF OwnProxySession
<1>6. CASE TunUnavailable(t)
  BY <1>1, <1>6 DEF TunUnavailable, FallBack, StopTun
<1>7. CASE PrepareTun(t)
  BY <1>1, <1>7 DEF PrepareTun, Refuses
<1>8. CASE LaunchTun(t)
  BY <1>1, <1>8 DEF LaunchTun, Refuses
<1>9. CASE AssignTun(t)
  BY ZenonT(60), <1>1, <1>9 DEF AssignTun, SuspendProxy, Suspended
<1>10. CASE VerifyStopped(t)
  BY <1>1, <1>10 DEF VerifyStopped, StopTun, Refuses
<1>11. CASE TunVerified(t)
  BY <1>1, <1>11 DEF TunVerified
<1>12. CASE TunRejected(t)
  BY <1>1, <1>12 DEF TunRejected, FallBack, StopTun
<1>13. QED
  BY <1>2, <1>3, <1>4, <1>5, <1>6, <1>7, <1>8, <1>9, <1>10, <1>11, <1>12 DEF Enables

\* The steps of the live switch keep the flags Boolean.
LEMMA FlagsSwaps ==
  ASSUME Typed, Flags, NEW t \in Threads, Swaps(t) PROVE Flags'
<1> USE DEF Flags, control, legs, tun, proxy, mode, sync, locals, ui
<1>1. /\ exitChoice \in BOOLEAN /\ wants[t] \in BOOLEAN
      /\ (~exitChoice) \in BOOLEAN /\ (~wants[t]) \in BOOLEAN
  BY DEF Typed
<1>2. CASE SwitchNothing(t)
  BY <1>1, <1>2 DEF SwitchNothing, Leave
<1>3. CASE SwitchBegins(t)
  BY <1>1, <1>3 DEF SwitchBegins, StopTun, SuspendProxy, Suspended
<1>4. CASE SwitchDone(t)
  BY ZenonT(60), <1>1, <1>4 DEF SwitchDone, Leave, ReleaseAll
<1>5. CASE SwitchStopped(t)
  BY ZenonT(60), <1>1, <1>5 DEF SwitchStopped, Leave, ReleaseAll
<1>6. CASE SwitchRetries(t)
  BY ZenonT(60), <1>1, <1>6 DEF SwitchRetries, StopTun, SuspendProxy, Suspended
<1>7. CASE SwitchRaises(t)
  BY <1>1, <1>7 DEF SwitchRaises, Leave, ReleaseAll
<1>8. CASE SwitchFails(t)
  BY <1>1, <1>8 DEF SwitchFails, Leave, ReleaseAll, Fail, StopTun, SuspendProxy, Suspended
<1>9. QED
  BY <1>2, <1>3, <1>4, <1>5, <1>6, <1>7, <1>8 DEF Swaps

\* The steps of the watchdog keep the flags Boolean.
LEMMA FlagsWatches ==
  ASSUME Typed, Flags, NEW t \in Threads, Watches(t) PROVE Flags'
<1> USE DEF Flags, control, legs, tun, proxy, mode, sync, locals, ui
<1>1. /\ exitChoice \in BOOLEAN /\ wants[t] \in BOOLEAN
      /\ (~exitChoice) \in BOOLEAN /\ (~wants[t]) \in BOOLEAN
  BY DEF Typed
<1>2. CASE WatchdogEnds(t)
  BY <1>1, <1>2 DEF WatchdogEnds
<1>3. CASE LegLost(t)
  BY <1>1, <1>3 DEF LegLost
<1>4. CASE RecoverStopped(t)
  BY <1>1, <1>4 DEF RecoverStopped, RecoverEnds, ReleaseAll
<1>5. CASE RebuildLegs(t)
  BY <1>1, <1>5 DEF RebuildLegs
<1>6. CASE RecoverRefused(t)
  BY <1>1, <1>6 DEF RecoverRefused, Refuses, RecoverLocked
<1>7. CASE RecoverKeepsExit(t)
  BY <1>1, <1>7 DEF RecoverKeepsExit, RecoverLocked
<1>8. CASE RecoverRebuildsExit(t)
  BY <1>1, <1>8 DEF RecoverRebuildsExit, StopTun, RecoverLocked
<1>9. CASE Recovered(t)
  BY <1>1, <1>9 DEF Recovered, ReleaseAll
<1>10. CASE RecoverFails(t)
  BY <1>1, <1>10 DEF RecoverFails, RecoverEnds, ReleaseAll
<1>11. CASE RetrySoon(t)
  BY <1>1, <1>11 DEF RetrySoon
<1>12. CASE ReleaseExit(t)
  BY <1>1, <1>12 DEF ReleaseExit, StopTun, SuspendProxy, Suspended
<1>13. CASE TunLost(t)
  BY <1>1, <1>13 DEF TunLost
<1>14. CASE HealBegins(t)
  BY <1>1, <1>14 DEF HealBegins, StopTun
<1>15. CASE HealLaunches(t)
  BY <1>1, <1>15 DEF HealLaunches
<1>16. CASE HealAssigns(t)
  BY <1>1, <1>16 DEF HealAssigns, SuspendProxy, Suspended
<1>17. CASE Healed(t)
  BY <1>1, <1>17 DEF Healed
<1>18. CASE NotHealed(t)
  BY <1>1, <1>18 DEF NotHealed
<1>19. CASE HealFails(t)
  BY ZenonT(60), <1>1, <1>19 DEF HealFails, Fail, StopTun, SuspendProxy, Suspended
<1>20. QED
  BY <1>2, <1>3, <1>4, <1>5, <1>6, <1>7, <1>8, <1>9, <1>10, <1>11, <1>12, <1>13, <1>14, <1>15,
     <1>16, <1>17, <1>18, <1>19 DEF Watches

\* The steps of the clicks keep the flags Boolean.
LEMMA FlagsClicks ==
  ASSUME Typed, Flags, NEW t \in Threads, Clicks(t) PROVE Flags'
<1> USE DEF Flags, control, legs, tun, proxy, mode, sync, locals, ui
<1>1. /\ exitChoice \in BOOLEAN /\ wants[t] \in BOOLEAN
      /\ (~exitChoice) \in BOOLEAN /\ (~wants[t]) \in BOOLEAN
  BY DEF Typed
<1>2. CASE Connect(t)
  BY <1>1, <1>2 DEF Connect
<1>3. CASE Disconnect(t)
  BY <1>1, <1>3 DEF Disconnect
<1>4. CASE SetExitMode(t)
  BY <1>1, <1>4 DEF SetExitMode
<1>5. QED
  BY <1>2, <1>3, <1>4 DEF Clicks

-----------------------------------------------------------------------------
(***************************************************************************)
(* The inductive invariant of AetherDown                                   *)
(***************************************************************************)
\* A disconnect that will still stop the processes: it has not begun, or its
\* epoch is the newest.
Pending(d) == pc[d] = "cancel" \/ (pc[d] \in {"join", "legs"} /\ mine[d] = epoch)

\* Until the disconnect the user asked for takes its epoch the last connect
\* still has its own; a WARP process that runs then or later has a pending
\* disconnect in front of it.
AetherInv ==
  /\ connectEpoch <= epoch
  /\ request = "disconnect" /\ epoch = connectEpoch => \E d \in Enders : pc[d] = "cancel"
  /\ request = "disconnect" /\ aether => \E d \in Enders : Pending(d)

\* A step of a thread that is no disconnect before its "exit", and that starts
\* no WARP process.
LEMMA Unrelated ==
  ASSUME Typed, AetherInv, NEW t \in Threads,
         t \in Enders => pc[t] \notin {"cancel", "join", "legs"},
         \A u \in Enders \ {t} : pc'[u] = pc[u] /\ mine'[u] = mine[u],
         UNCHANGED <<epoch, connectEpoch, request>>, aether' => aether
  PROVE  AetherInv'
BY DEF Typed, AetherInv, Pending

\* The steps of disconnect keep AetherInv.
LEMMA AetherCancels ==
  ASSUME Typed, Flags, Places, AetherInv, NEW t \in Threads, Cancels(t) PROVE AetherInv'
<1> USE Kinds DEF control, legs, tun, proxy, mode, sync, locals, ui, Go
<1>1. DOMAIN pc = Threads /\ DOMAIN mine = Threads /\ epoch \in Nat /\ connectEpoch \in Nat
  BY DEF Typed
<1>2. CASE CancelStale(t)
  BY <1>1, <1>2, Unrelated DEF CancelStale, ReturnsFromCancel
<1>3. CASE CancelBegins(t)
  BY <1>1, <1>3 DEF CancelBegins, AetherInv, Pending
<1>4. CASE JoinedStale(t)
  BY <1>1, <1>4 DEF JoinedStale, ReturnsFromCancel, Joined, AetherInv, Pending, AfterCancel
<1>5. CASE JoinedCurrent(t)
  BY <1>1, <1>5 DEF JoinedCurrent, Joined, AetherInv, Pending
<1>6. CASE StopLegs(t)
  BY <1>1, <1>6 DEF StopLegs, AetherInv, Pending
<1>7. CASE StopExit(t)
  BY <1>1, <1>7, Unrelated DEF StopExit
<1>8. CASE ClearPort(t)
  BY <1>1, <1>8, Unrelated DEF ClearPort, ReturnsFromCancel
<1>9. QED
  BY <1>2, <1>3, <1>4, <1>5, <1>6, <1>7, <1>8 DEF Cancels

\* The steps of connect keep AetherInv.
LEMMA AetherConnecting ==
  ASSUME Typed, Flags, Places, AetherInv, NEW t \in Threads, Connecting(t) PROVE AetherInv'
<1> USE Kinds DEF control, legs, tun, proxy, mode, sync, locals, ui, Go
<1>1. DOMAIN pc = Threads /\ DOMAIN mine = Threads /\ epoch \in Nat /\ connectEpoch \in Nat
  BY DEF Typed
<1>2. CASE NoOlderWork(t)
  BY <1>1, <1>2, Unrelated DEF NoOlderWork
<1>3. CASE OlderWork(t)
  BY <1>1, <1>3, Unrelated DEF OlderWork
<1>4. CASE OlderWorkEnded(t)
  BY <1>1, <1>4, Unrelated DEF OlderWorkEnded
<1>5. CASE CheckEpoch(t)
  BY <1>1, <1>5, Unrelated DEF CheckEpoch, Leave
<1>6. CASE ClearStop(t)
  BY <1>1, <1>6, Unrelated DEF ClearStop
<1>7. CASE PortBusy(t)
  BY <1>1, <1>7, Unrelated DEF PortBusy, Leave
<1>8. CASE Begin(t)
  BY <1>1, <1>8, Unrelated DEF Begin
<1>9. CASE ChooseExit(t)
  BY <1>1, <1>9, Unrelated DEF ChooseExit, Refuses
<1>10. CASE SetConnected(t)
  BY <1>1, <1>10, Unrelated DEF SetConnected
<1>11. CASE StartWatchdog(t)
  <2>1. t \in Mains
    BY <1>11 DEF StartWatchdog, Places, Opening
  <2>2. Dog(t) \notin Enders /\ t \notin Enders
    BY <2>1
  <2>3. \A u \in Enders : pc'[u] = pc[u] /\ mine'[u] = mine[u]
    BY <1>1, <1>11, <2>2 DEF StartWatchdog
  <2>4. QED
    BY <1>11, <2>2, <2>3, Unrelated DEF StartWatchdog
<1>12. CASE ConnectReturns(t)
  BY <1>1, <1>12, Unrelated DEF ConnectReturns, Leave
<1>13. CASE ConnectRaises(t)
  BY <1>1, <1>13, Unrelated DEF ConnectRaises, Leave
<1>14. QED
  BY <1>2, <1>3, <1>4, <1>5, <1>6, <1>7, <1>8, <1>9, <1>10, <1>11, <1>12, <1>13 DEF Connecting

\* The steps of the dials keep AetherInv.
LEMMA AetherDials ==
  ASSUME Typed, Flags, Places, AetherInv, NEW t \in Threads, Dials(t) PROVE AetherInv'
<1> USE Kinds DEF control, legs, tun, proxy, mode, sync, locals, ui, Go
<1>1. DOMAIN pc = Threads /\ DOMAIN mine = Threads /\ epoch \in Nat /\ connectEpoch \in Nat
  BY DEF Typed
<1>2. CASE StartOuter(t)
  BY <1>1, <1>2 DEF StartOuter, Refuses, Active, AetherInv, Pending
<1>3. CASE OuterReady(t)
  BY <1>1, <1>3, Unrelated DEF OuterReady, Refuses
<1>4. CASE OuterFails(t)
  BY <1>1, <1>4, Unrelated DEF OuterFails, Refuses
<1>5. CASE CheckInner(t)
  BY <1>1, <1>5, Unrelated DEF CheckInner, Refuses
<1>6. CASE StartPsiphon(t)
  BY <1>1, <1>6, Unrelated DEF StartPsiphon
<1>7. CASE PsiphonConnected(t)
  BY <1>1, <1>7, Unrelated DEF PsiphonConnected
<1>8. CASE PsiphonFails(t)
  BY <1>1, <1>8, Unrelated DEF PsiphonFails, Refuses
<1>9. QED
  BY <1>2, <1>3, <1>4, <1>5, <1>6, <1>7, <1>8 DEF Dials

\* The steps of the exits keep AetherInv.
LEMMA AetherEnables ==
  ASSUME Typed, Flags, Places, AetherInv, NEW t \in Threads, Enables(t) PROVE AetherInv'
<1> USE Kinds DEF control, legs, tun, proxy, mode, sync, locals, ui, Go
<1>1. DOMAIN pc = Threads /\ DOMAIN mine = Threads /\ epoch \in Nat /\ connectEpoch \in Nat
  BY DEF Typed
<1>2. CASE OpenForwarder(t)
  BY <1>1, <1>2, Unrelated DEF OpenForwarder, Refuses
<1>3. CASE ResumeProxy(t)
  BY <1>1, <1>3, Unrelated DEF ResumeProxy
<1>4. CASE ResumeRaises(t)
  BY <1>1, <1>4, Unrelated DEF ResumeRaises
<1>5. CASE OwnProxySession(t)
  BY <1>1, <1>5, Unrelated DEF OwnProxySession
<1>6. CASE TunUnavailable(t)
  BY <1>1, <1>6, Unrelated DEF TunUnavailable, FallBack
<1>7. CASE PrepareTun(t)
  BY <1>1, <1>7, Unrelated DEF PrepareTun, Refuses
<1>8. CASE LaunchTun(t)
  BY <1>1, <1>8, Unrelated DEF LaunchTun, Refuses
<1>9. CASE AssignTun(t)
  BY <1>1, <1>9, Unrelated DEF AssignTun
<1>10. CASE VerifyStopped(t)
  BY <1>1, <1>10, Unrelated DEF VerifyStopped, Refuses
<1>11. CASE TunVerified(t)
  BY <1>1, <1>11, Unrelated DEF TunVerified
<1>12. CASE TunRejected(t)
  BY <1>1, <1>12, Unrelated DEF TunRejected, FallBack
<1>13. QED
  BY <1>2, <1>3, <1>4, <1>5, <1>6, <1>7, <1>8, <1>9, <1>10, <1>11, <1>12 DEF Enables

\* The steps of the live switch keep AetherInv.
LEMMA AetherSwaps ==
  ASSUME Typed, Flags, Places, AetherInv, NEW t \in Threads, Swaps(t) PROVE AetherInv'
<1> USE Kinds DEF control, legs, tun, proxy, mode, sync, locals, ui, Go
<1>1. DOMAIN pc = Threads /\ DOMAIN mine = Threads /\ epoch \in Nat /\ connectEpoch \in Nat
  BY DEF Typed
<1>2. CASE SwitchNothing(t)
  BY <1>1, <1>2, Unrelated DEF SwitchNothing, Leave
<1>3. CASE SwitchBegins(t)
  BY <1>1, <1>3, Unrelated DEF SwitchBegins
<1>4. CASE SwitchDone(t)
  BY <1>1, <1>4, Unrelated DEF SwitchDone, Leave
<1>5. CASE SwitchStopped(t)
  BY <1>1, <1>5, Unrelated DEF SwitchStopped, Leave
<1>6. CASE SwitchRetries(t)
  BY <1>1, <1>6, Unrelated DEF SwitchRetries
<1>7. CASE SwitchRaises(t)
  BY <1>1, <1>7, Unrelated DEF SwitchRaises, Leave
<1>8. CASE SwitchFails(t)
  BY <1>1, <1>8, Unrelated DEF SwitchFails, Leave, Fail
<1>9. QED
  BY <1>2, <1>3, <1>4, <1>5, <1>6, <1>7, <1>8 DEF Swaps

\* The steps of the watchdog keep AetherInv.
LEMMA AetherWatches ==
  ASSUME Typed, Flags, Places, AetherInv, NEW t \in Threads, Watches(t) PROVE AetherInv'
<1> USE Kinds DEF control, legs, tun, proxy, mode, sync, locals, ui, Go
<1>1. DOMAIN pc = Threads /\ DOMAIN mine = Threads /\ epoch \in Nat /\ connectEpoch \in Nat
  BY DEF Typed
<1>2. CASE WatchdogEnds(t)
  BY <1>1, <1>2, Unrelated DEF WatchdogEnds
<1>3. CASE LegLost(t)
  BY <1>1, <1>3, Unrelated DEF LegLost, Watching
<1>4. CASE RecoverStopped(t)
  BY <1>1, <1>4, Unrelated DEF RecoverStopped, RecoverEnds
<1>5. CASE RebuildLegs(t)
  BY <1>1, <1>5, Unrelated DEF RebuildLegs
<1>6. CASE RecoverRefused(t)
  BY <1>1, <1>6, Unrelated DEF RecoverRefused, Refuses, RecoverLocked
<1>7. CASE RecoverKeepsExit(t)
  BY <1>1, <1>7, Unrelated DEF RecoverKeepsExit, RecoverLocked
<1>8. CASE RecoverRebuildsExit(t)
  BY <1>1, <1>8, Unrelated DEF RecoverRebuildsExit, RecoverLocked
<1>9. CASE Recovered(t)
  BY <1>1, <1>9, Unrelated DEF Recovered
<1>10. CASE RecoverFails(t)
  BY <1>1, <1>10, Unrelated DEF RecoverFails, RecoverEnds
<1>11. CASE RetrySoon(t)
  BY <1>1, <1>11, Unrelated DEF RetrySoon
<1>12. CASE ReleaseExit(t)
  BY <1>1, <1>12, Unrelated DEF ReleaseExit
<1>13. CASE TunLost(t)
  BY <1>1, <1>13, Unrelated DEF TunLost, Watching
<1>14. CASE HealBegins(t)
  BY <1>1, <1>14, Unrelated DEF HealBegins
<1>15. CASE HealLaunches(t)
  BY <1>1, <1>15, Unrelated DEF HealLaunches
<1>16. CASE HealAssigns(t)
  BY <1>1, <1>16, Unrelated DEF HealAssigns
<1>17. CASE Healed(t)
  BY <1>1, <1>17, Unrelated DEF Healed
<1>18. CASE NotHealed(t)
  BY <1>1, <1>18, Unrelated DEF NotHealed
<1>19. CASE HealFails(t)
  BY <1>1, <1>19, Unrelated DEF HealFails, Fail
<1>20. QED
  BY <1>2, <1>3, <1>4, <1>5, <1>6, <1>7, <1>8, <1>9, <1>10, <1>11, <1>12, <1>13, <1>14, <1>15,
     <1>16, <1>17, <1>18, <1>19 DEF Watches

\* The steps of the clicks keep AetherInv.
LEMMA AetherClicks ==
  ASSUME Typed, Flags, Places, AetherInv, NEW t \in Threads, Clicks(t) PROVE AetherInv'
<1> USE Kinds DEF control, legs, tun, proxy, mode, sync, locals, ui, Go
<1>1. DOMAIN pc = Threads /\ DOMAIN mine = Threads /\ epoch \in Nat /\ connectEpoch \in Nat
  BY DEF Typed
<1>2. CASE Connect(t)
  BY <1>1, <1>2 DEF Connect, AetherInv
<1>3. CASE Disconnect(t)
  BY <1>1, <1>3 DEF Disconnect, AetherInv, Pending
<1>4. CASE SetExitMode(t)
  BY <1>1, <1>4, Unrelated DEF SetExitMode
<1>5. QED
  BY <1>2, <1>3, <1>4 DEF Clicks

-----------------------------------------------------------------------------
(***************************************************************************)
(* The inductive invariant of PageNotStuck                                 *)
(***************************************************************************)
\* While the page is connecting the thread of its newest connect runs.
PageInv == connecting => token \in Mains /\ ~Ended(token)

\* A step of a thread that runs on, is no connect, or tells its page.
LEMMA PageKept ==
  ASSUME Typed, PageInv, NEW t \in Threads, token' = token, connecting' => connecting,
         t \in Mains => pc'[t] \notin {"new", "done"} \/ (token = t => ~connecting'),
         \A u \in Mains \ {t} : pc'[u] = pc[u]
  PROVE  PageInv'
BY DEF PageInv, Ended

\* The steps of disconnect keep PageInv.
LEMMA PageCancels ==
  ASSUME Typed, Flags, Places, PageInv, NEW t \in Threads, Cancels(t) PROVE PageInv'
<1> USE Kinds, PageKept DEF ui, locals, Go
<1>1. DOMAIN pc = Threads
  BY DEF Typed
<1>2. CASE CancelStale(t)
  BY <1>1, <1>2 DEF CancelStale, ReturnsFromCancel, AfterCancel, Places, Cancelling
<1>3. CASE CancelBegins(t)
  BY <1>1, <1>3 DEF CancelBegins, Places, Cancelling
<1>4. CASE JoinedStale(t)
  BY <1>1, <1>4 DEF JoinedStale, ReturnsFromCancel, AfterCancel, Joined, Places, Cancelling
<1>5. CASE JoinedCurrent(t)
  BY <1>1, <1>5 DEF JoinedCurrent, Joined, Places, Cancelling
<1>6. CASE StopLegs(t)
  BY <1>1, <1>6 DEF StopLegs, Places, Cancelling
<1>7. CASE StopExit(t)
  BY <1>1, <1>7 DEF StopExit, Places, Cancelling
<1>8. CASE ClearPort(t)
  BY <1>1, <1>8 DEF ClearPort, ReturnsFromCancel, AfterCancel, Places, Cancelling
<1>9. QED
  BY <1>2, <1>3, <1>4, <1>5, <1>6, <1>7, <1>8 DEF Cancels

\* The steps of connect keep PageInv.
LEMMA PageConnecting ==
  ASSUME Typed, Flags, Places, PageInv, NEW t \in Threads, Connecting(t) PROVE PageInv'
<1> USE Kinds, PageKept DEF ui, locals, Go
<1>1. DOMAIN pc = Threads
  BY DEF Typed
<1>2. CASE NoOlderWork(t)
  BY <1>1, <1>2 DEF NoOlderWork
<1>3. CASE OlderWork(t)
  BY <1>1, <1>3 DEF OlderWork
<1>4. CASE OlderWorkEnded(t)
  BY <1>1, <1>4 DEF OlderWorkEnded
<1>5. CASE CheckEpoch(t)
  <2>1. CASE mine[t] = epoch
    BY <1>1, <1>5, <2>1 DEF CheckEpoch
  <2>2. CASE ~(mine[t] = epoch)
    <3>1. /\ pc' = [pc EXCEPT ![t] = "done"] /\ token' = token
          /\ connecting' = IF t \in Mains /\ token = t THEN FALSE ELSE connecting
      BY <1>5, <2>2 DEF CheckEpoch, Leave
    <3>2. QED
      BY <1>1, <3>1
  <2>3. QED
    BY <2>1, <2>2
<1>6. CASE ClearStop(t)
  BY <1>1, <1>6 DEF ClearStop
<1>7. CASE PortBusy(t)
  BY <1>1, <1>7 DEF PortBusy, Leave
<1>8. CASE Begin(t)
  BY <1>1, <1>8 DEF Begin
<1>9. CASE ChooseExit(t)
  BY <1>1, <1>9 DEF ChooseExit, Refuses
<1>10. CASE SetConnected(t)
  BY <1>1, <1>10 DEF SetConnected
<1>11. CASE StartWatchdog(t)
  BY <1>1, <1>11 DEF StartWatchdog, Places, Opening
<1>12. CASE ConnectReturns(t)
  <2>1. CASE exitChoice # wants[t]
    BY <1>1, <1>12, <2>1 DEF ConnectReturns
  <2>2. CASE ~(exitChoice # wants[t])
    <3>1. /\ pc' = [pc EXCEPT ![t] = "done"] /\ token' = token
          /\ connecting' = IF t \in Mains /\ token = t THEN FALSE ELSE connecting
      BY <1>12, <2>2 DEF ConnectReturns, Leave
    <3>2. QED
      BY <1>1, <3>1
  <2>3. QED
    BY <2>1, <2>2
<1>13. CASE ConnectRaises(t)
  BY <1>1, <1>13 DEF ConnectRaises, Leave
<1>14. QED
  BY <1>2, <1>3, <1>4, <1>5, <1>6, <1>7, <1>8, <1>9, <1>10, <1>11, <1>12, <1>13 DEF Connecting

\* The steps of the dials keep PageInv.
LEMMA PageDials ==
  ASSUME Typed, Flags, Places, PageInv, NEW t \in Threads, Dials(t) PROVE PageInv'
<1> USE Kinds, PageKept DEF ui, locals, Go
<1>1. DOMAIN pc = Threads
  BY DEF Typed
<1>2. CASE StartOuter(t)
  BY <1>1, <1>2 DEF StartOuter, Refuses
<1>3. CASE OuterReady(t)
  BY <1>1, <1>3 DEF OuterReady, Refuses
<1>4. CASE OuterFails(t)
  BY <1>1, <1>4 DEF OuterFails, Refuses
<1>5. CASE CheckInner(t)
  BY <1>1, <1>5 DEF CheckInner, Refuses
<1>6. CASE StartPsiphon(t)
  BY <1>1, <1>6 DEF StartPsiphon
<1>7. CASE PsiphonConnected(t)
  BY <1>1, <1>7 DEF PsiphonConnected
<1>8. CASE PsiphonFails(t)
  BY <1>1, <1>8 DEF PsiphonFails, Refuses
<1>9. QED
  BY <1>2, <1>3, <1>4, <1>5, <1>6, <1>7, <1>8 DEF Dials

\* The steps of the exits keep PageInv.
LEMMA PageEnables ==
  ASSUME Typed, Flags, Places, PageInv, NEW t \in Threads, Enables(t) PROVE PageInv'
<1> USE Kinds, PageKept DEF ui, locals, Go
<1>1. DOMAIN pc = Threads
  BY DEF Typed
<1>2. CASE OpenForwarder(t)
  BY <1>1, <1>2 DEF OpenForwarder, Refuses
<1>3. CASE ResumeProxy(t)
  BY <1>1, <1>3 DEF ResumeProxy
<1>4. CASE ResumeRaises(t)
  BY <1>1, <1>4 DEF ResumeRaises
<1>5. CASE OwnProxySession(t)
  BY <1>1, <1>5 DEF OwnProxySession
<1>6. CASE TunUnavailable(t)
  BY <1>1, <1>6 DEF TunUnavailable, FallBack
<1>7. CASE PrepareTun(t)
  BY <1>1, <1>7 DEF PrepareTun, Refuses
<1>8. CASE LaunchTun(t)
  BY <1>1, <1>8 DEF LaunchTun, Refuses
<1>9. CASE AssignTun(t)
  BY <1>1, <1>9 DEF AssignTun
<1>10. CASE VerifyStopped(t)
  BY <1>1, <1>10 DEF VerifyStopped, Refuses
<1>11. CASE TunVerified(t)
  BY <1>1, <1>11 DEF TunVerified
<1>12. CASE TunRejected(t)
  BY <1>1, <1>12 DEF TunRejected, FallBack
<1>13. QED
  BY <1>2, <1>3, <1>4, <1>5, <1>6, <1>7, <1>8, <1>9, <1>10, <1>11, <1>12 DEF Enables

\* The steps of the live switch keep PageInv.
LEMMA PageSwaps ==
  ASSUME Typed, Flags, Places, PageInv, NEW t \in Threads, Swaps(t) PROVE PageInv'
<1> USE Kinds, PageKept DEF ui, locals, Go
<1>1. DOMAIN pc = Threads
  BY DEF Typed
<1>2. CASE SwitchNothing(t)
  BY <1>1, <1>2 DEF SwitchNothing, Leave
<1>3. CASE SwitchBegins(t)
  BY <1>1, <1>3 DEF SwitchBegins
<1>4. CASE SwitchDone(t)
  BY <1>1, <1>4 DEF SwitchDone, Leave
<1>5. CASE SwitchStopped(t)
  BY <1>1, <1>5 DEF SwitchStopped, Leave
<1>6. CASE SwitchRetries(t)
  BY <1>1, <1>6 DEF SwitchRetries
<1>7. CASE SwitchRaises(t)
  BY <1>1, <1>7 DEF SwitchRaises, Leave
<1>8. CASE SwitchFails(t)
  BY <1>1, <1>8 DEF SwitchFails, Leave
<1>9. QED
  BY <1>2, <1>3, <1>4, <1>5, <1>6, <1>7, <1>8 DEF Swaps

\* The steps of the watchdog keep PageInv.
LEMMA PageWatches ==
  ASSUME Typed, Flags, Places, PageInv, NEW t \in Threads, Watches(t) PROVE PageInv'
<1> USE Kinds, PageKept DEF ui, locals, Go
<1>1. DOMAIN pc = Threads
  BY DEF Typed
<1>2. CASE WatchdogEnds(t)
  BY <1>1, <1>2 DEF WatchdogEnds, Places, Keeping, Recovering, Healing
<1>3. CASE LegLost(t)
  BY <1>1, <1>3 DEF LegLost, Watching, Places, Keeping, Recovering, Healing
<1>4. CASE RecoverStopped(t)
  BY <1>1, <1>4 DEF RecoverStopped, RecoverEnds, Places, Keeping, Recovering, Healing
<1>5. CASE RebuildLegs(t)
  BY <1>1, <1>5 DEF RebuildLegs, Places, Keeping, Recovering, Healing
<1>6. CASE RecoverRefused(t)
  BY <1>1, <1>6 DEF RecoverRefused, Refuses, Places, Keeping, Recovering, Healing
<1>7. CASE RecoverKeepsExit(t)
  BY <1>1, <1>7 DEF RecoverKeepsExit, Places, Keeping, Recovering, Healing
<1>8. CASE RecoverRebuildsExit(t)
  BY <1>1, <1>8 DEF RecoverRebuildsExit, Places, Keeping, Recovering, Healing
<1>9. CASE Recovered(t)
  BY <1>1, <1>9 DEF Recovered, Places, Keeping, Recovering, Healing
<1>10. CASE RecoverFails(t)
  BY <1>1, <1>10 DEF RecoverFails, RecoverEnds, Places, Keeping, Recovering, Healing
<1>11. CASE RetrySoon(t)
  BY <1>1, <1>11 DEF RetrySoon, Places, Keeping, Recovering, Healing
<1>12. CASE ReleaseExit(t)
  BY <1>1, <1>12 DEF ReleaseExit, Places, Keeping, Recovering, Healing
<1>13. CASE TunLost(t)
  BY <1>1, <1>13 DEF TunLost, Watching, Places, Keeping, Recovering, Healing
<1>14. CASE HealBegins(t)
  BY <1>1, <1>14 DEF HealBegins, Places, Keeping, Recovering, Healing
<1>15. CASE HealLaunches(t)
  BY <1>1, <1>15 DEF HealLaunches, Places, Keeping, Recovering, Healing
<1>16. CASE HealAssigns(t)
  BY <1>1, <1>16 DEF HealAssigns, Places, Keeping, Recovering, Healing
<1>17. CASE Healed(t)
  BY <1>1, <1>17 DEF Healed, Places, Keeping, Recovering, Healing
<1>18. CASE NotHealed(t)
  BY <1>1, <1>18 DEF NotHealed, Places, Keeping, Recovering, Healing
<1>19. CASE HealFails(t)
  BY <1>1, <1>19 DEF HealFails, Places, Keeping, Recovering, Healing
<1>20. QED
  BY <1>2, <1>3, <1>4, <1>5, <1>6, <1>7, <1>8, <1>9, <1>10, <1>11, <1>12, <1>13, <1>14, <1>15,
     <1>16, <1>17, <1>18, <1>19 DEF Watches

\* The steps of the clicks keep PageInv.
LEMMA PageClicks ==
  ASSUME Typed, Flags, Places, PageInv, NEW t \in Threads, Clicks(t) PROVE PageInv'
<1> USE Kinds, PageKept DEF ui, locals, Go
<1>1. DOMAIN pc = Threads
  BY DEF Typed
<1>2. CASE Connect(t)
  BY <1>1, <1>2 DEF Connect, PageInv, Ended
<1>3. CASE Disconnect(t)
  BY <1>1, <1>3 DEF Disconnect
<1>4. CASE SetExitMode(t)
  <2>1. t \notin Mains
    BY <1>4 DEF SetExitMode, Swappers, Mains
  <2>2. QED
    BY <1>1, <1>4, <2>1 DEF SetExitMode
<1>5. QED
  BY <1>2, <1>3, <1>4 DEF Clicks

-----------------------------------------------------------------------------
PowInv == Typed /\ Flags /\ Places /\ AetherInv /\ PageInv

\* The invariant holds at first.
LEMMA PowInit == Init => PowInv
<1> SUFFICES ASSUME Init PROVE PowInv
  OBVIOUS
<1>0. pc \in [Threads -> {"new", "done"}]
  <2>1. PICK plan \in Plans :
          pc = [t \in Threads |-> IF t \in plan \union Dogs THEN "new" ELSE "done"]
    BY DEF Init
  <2>2. QED
    BY <2>1
<1>1. Typed
  BY <1>0, Labels DEF Init, Typed
<1>2. Flags
  BY DEF Init, Flags
<1>3. Places /\ AetherInv /\ PageInv
  BY <1>0 DEF Init, PageInv, Places, AetherInv, Opening, Keeping, Dialling, Cancelling,
     Recovering, Healing
<1>4. QED
  BY <1>1, <1>2, <1>3 DEF PowInv

\* What dies by itself keeps the invariant.
LEMMA PowDeaths == PowInv /\ (LegDies \/ TunDies) => PowInv'
<1> SUFFICES ASSUME PowInv, LegDies \/ TunDies PROVE PowInv'
  OBVIOUS
<1> USE DEF PowInv, control, legs, tun, proxy, mode, sync, locals, ui
<1>1. CASE LegDies
  <2>1. Typed'
    BY <1>1 DEF LegDies, Typed
  <2>2. Flags'
    BY <1>1 DEF LegDies, Flags
  <2>3. Places' /\ AetherInv' /\ PageInv'
    BY <1>1 DEF LegDies, Places, AetherInv, Pending, PageInv, Ended
  <2>4. QED
    BY <2>1, <2>2, <2>3
<1>2. CASE TunDies
  <2>1. Typed'
    BY <1>2 DEF TunDies, Typed
  <2>2. Flags'
    BY <1>2 DEF TunDies, Flags
  <2>3. Places' /\ AetherInv' /\ PageInv'
    BY <1>2 DEF TunDies, Places, AetherInv, Pending, PageInv, Ended
  <2>4. QED
    BY <2>1, <2>2, <2>3
<1>3. QED
  BY <1>1, <1>2

\* Every step keeps the invariant.
LEMMA PowNext == PowInv /\ [Next]_vars => PowInv'
<1> SUFFICES ASSUME PowInv, [Next]_vars PROVE PowInv'
  OBVIOUS
<1>1. ASSUME NEW t \in Threads, Step(t) PROVE PowInv'
  <2> USE DEF PowInv
  <2>1. CASE Cancels(t)
    BY <2>1, TypeCancels, FlagsCancels, AetherCancels, PageCancels
  <2>2. CASE Connecting(t)
    BY <2>2, TypeConnecting, FlagsConnecting, AetherConnecting, PageConnecting
  <2>3. CASE Dials(t)
    BY <2>3, TypeDials, FlagsDials, AetherDials, PageDials
  <2>4. CASE Enables(t)
    BY <2>4, TypeEnables, FlagsEnables, AetherEnables, PageEnables
  <2>5. CASE Swaps(t)
    BY <2>5, TypeSwaps, FlagsSwaps, AetherSwaps, PageSwaps
  <2>6. CASE Watches(t)
    BY <2>6, TypeWatches, FlagsWatches, AetherWatches, PageWatches
  <2>7. QED
    BY <1>1, <2>1, <2>2, <2>3, <2>4, <2>5, <2>6 DEF Step
<1>2. ASSUME NEW t \in Threads, Clicks(t) PROVE PowInv'
  BY <1>2, TypeClicks, FlagsClicks, AetherClicks, PageClicks DEF PowInv
<1>3. CASE LegDies \/ TunDies
  BY <1>3, PowDeaths
<1>4. CASE UNCHANGED vars
  <2> USE DEF PowInv, vars, control, legs, tun, proxy, mode, sync, locals, ui
  <2>1. Typed'
    BY <1>4 DEF Typed
  <2>2. Flags'
    BY <1>4 DEF Flags
  <2>3. Places' /\ AetherInv' /\ PageInv'
    BY <1>4 DEF Places, AetherInv, Pending, PageInv, Ended
  <2>4. QED
    BY <2>1, <2>2, <2>3
<1>5. QED
  BY <1>1, <1>2, <1>3, <1>4 DEF Next

\* The invariant holds in every behaviour.
LEMMA PowInvariant == Spec => []PowInv
<1>1. QED
  BY PowInit, PowNext, PTL DEF Spec
-----------------------------------------------------------------------------
(***************************************************************************)
(* Every variable keeps its type: only a connect starts a watchdog, only   *)
(* watchdogs are joined, and only they give the exit up while retrying.    *)
(***************************************************************************)
THEOREM TypeCorrect == Spec => []TypeOK
<1>1. PowInv => TypeOK
  BY DEF PowInv, Typed, Flags, TypeOK
<1>2. QED
  BY <1>1, PowInvariant, PTL

(***************************************************************************)
(* When the last thing asked for was to disconnect and all threads have    *)
(* ended, the WARP process does not run, however many connects, reconnects *)
(* and disconnects overlapped: _raise_outer_leg compares the epoch under   *)
(* _lock (coordinator.py), and a disconnect takes a new epoch first.       *)
(***************************************************************************)
THEOREM NoWarpAfterDisconnect == Spec => []AetherDown
<1>1. PowInv => AetherDown
  <2> SUFFICES ASSUME PowInv, Disconnected PROVE ~aether
    BY DEF AetherDown
  <2>1. \A d \in Enders : ~Pending(d)
    BY Kinds DEF Disconnected, Quiet, Ended, Pending
  <2>2. QED
    BY <2>1 DEF PowInv, AetherInv, Disconnected
<1>2. QED
  BY <1>1, PowInvariant, PTL

(***************************************************************************)
(* When no thread runs any more the page is not "connecting": whichever    *)
(* connects were overtaken or raised, the newest one's finally clears it.  *)
(***************************************************************************)
THEOREM PageReleased == Spec => []PageNotStuck
<1>1. PowInv => PageNotStuck
  BY Kinds DEF PowInv, PageInv, PageNotStuck, Quiet
<1>2. QED
  BY <1>1, PowInvariant, PTL
=============================================================================
