----------------------- MODULE GatewayRecoveryProofs -----------------------
(***************************************************************************)
(* Theorems about GatewayRecovery, for any LAN, any number of sessions and *)
(* lives and any failures: type correctness, that the settings of the      *)
(* gateway are always backed by a state file with the user's, and that     *)
(* this file lists the devices whose traffic is redirected.                *)
(***************************************************************************)
EXTENDS GatewayRecovery, TLAPS

(***************************************************************************)
(* The inductive invariant                                                 *)
(***************************************************************************)
\* Where start is when its state file is written, and when a restore runs.
Started == {"launch", "forward", "apply", "respond", "redirect", "activate"}
Restoring == {"unanswer", "arp", "windows"}

\* Each token is a session of the bounds; a start that recovers first still
\* has its own.
SessionsLeft ==
  /\ left.sessions + tokens <= MaxSessions
  /\ why[Main] = "start" \/ pc[Main] \in {"detect", "snapshot"} => left.sessions > 0
  /\ why[Main] = "start" => pc[Main] \in Restoring

\* Nobody holds other settings than the user's to put back.
OnlyUserShots == file.shot = "user" /\ \A p \in Processes : held[p].shot = "user"

\* Before the state file of a session is written Windows is as the user had it.
UserBefore == pc[Main] \in {"detect", "snapshot", "write"} => windows = "user"

\* A state has the token of its session, that of a start the newest.
TokensNamed ==
  /\ file.token = 0 => file = NoFile
  /\ active => token # 0
  /\ owner = 0 => pc[Main] = "idle"
  /\ pc[Main] \in Restoring \union {"join"} => held[Main].token # 0
  /\ pc[Main] \in Started \union {"write"} =>
       tokens > 0 /\ held[Main].token = tokens /\ held[Main].owner = owner
  /\ pc[Main] \in Started => file.token = tokens

\* A watchdog restores the state of its own token only, and that of the newest
\* session does nothing while its application starts the gateway.
WatchdogsApart ==
  /\ \A t \in Tokens :
       /\ pc[t] \in {"arp", "windows"} => held[t].token = t
       /\ t > tokens => pc[t] = "idle"
  /\ pc[Main] \in {"write", "launch"} => pc[tokens] = "idle"
  /\ pc[Main] \in Started \ {"launch"} => pc[tokens] = "watch" /\ held[tokens].owner = owner

\* There is no second session beside a watchdog whose restore fails: such a
\* watchdog writes its state over the new session's (gateway.py:2279).
NoOvertakenMiss == left.misses = 0 \/ left.sessions + tokens <= 1

BackedInv ==
  /\ SettingsBacked /\ OnlyUserShots /\ UserBefore
  /\ TokensNamed /\ WatchdogsApart /\ NoOvertakenMiss

(***************************************************************************)
(* The inductive invariant of RedirectedListed, relative to BackedInv      *)
(***************************************************************************)
\* The thread or watchdog p restores what is redirected, and then nothing is left of it.
PutsBack(p) ==
  /\ pc[p] = "unanswer" => p = Main
  /\ file.token = held[p].token =>
       /\ pc[p] \in {"unanswer", "arp"} => Redirected \subseteq held[p].devices
       /\ pc[p] = "windows" => Redirected = {}

\* The application restores the file there is, unless a watchdog has removed it.
RestoresFile == pc[Main] \in Restoring => file.token \in {0, held[Main].token}

\* A start finds nobody redirected, and until it returns the file is its own.
StartsClean ==
  /\ pc[Main] \in {"detect", "snapshot", "write"} => Redirected = {}
  /\ pc[Main] \in Started => file = held[Main]

\* While a gateway is active its fields are those of the file, its watchdog waits, and
\* the application does nothing but stop it.
ActiveKept ==
  active =>
    /\ owner # 0 /\ file.token = token /\ file.devices = devices
    /\ pc[token] = "watch" /\ held[token].owner = owner
    /\ \/ pc[Main] = "idle"
       \/ /\ stopping
          /\ pc[Main] = "join" \/ (pc[Main] \in Restoring /\ why[Main] = "stop")

\* No state has a token that was not drawn, and a discovery one of an earlier session
\* while start draws its own.
TokensDrawn ==
  /\ file.token <= tokens /\ token <= tokens
  /\ \A t \in Threads : held[t].token <= tokens
  /\ pc[Main] \in Started \union {"write"} => held[Discovery].token < tokens

\* What was recorded since a discovery of the session began is marked so.
RecordedFresh ==
  pc[Discovery] = "scan" /\ active /\ held[Discovery].token = token
    => devices \ target[Discovery] \subseteq fresh

ListedInv ==
  /\ RedirectedListed /\ (\A p \in Tokens \union {Main} : PutsBack(p)) /\ RestoresFile
  /\ StartsClean /\ ActiveKept /\ TokensDrawn /\ RecordedFresh

-----------------------------------------------------------------------------
\* The first state has the types.
LEMMA TypeInit == Init => TypeOK
<1> SUFFICES ASSUME Init PROVE TypeOK
  OBVIOUS
<1>1. left \in [sessions : 0..MaxSessions, crashes : Nat, fails : Nat, misses : Nat]
  BY BoundsAssumption DEF Init
<1>2. NoFile \in States
  BY BoundsAssumption DEF NoFile, States
<1>3. file \in States /\ held \in [Processes -> States]
  BY <1>2 DEF Init
<1>4. lock \in {None, Main} /\ (lock = Main <=> pc[Main] \notin {"idle", "join"})
  BY DEF Init, Processes, Threads, Main, None
<1>5. pc \in [Processes -> PCs]
  BY DEF Init, PCs
<1>6. /\ why \in [Processes -> {"startup", "start", "undo", "stop", "exit", "watchdog"}]
      /\ target \in [Processes -> SUBSET Devices]
  BY DEF Init
<1>7. /\ owner \in 0..life /\ life \in Nat /\ tokens \in 0..MaxSessions /\ token \in 0..MaxSessions
  BY BoundsAssumption DEF Init
<1>8. /\ swept \in BOOLEAN /\ active \in BOOLEAN /\ stopping \in BOOLEAN
      /\ stopEvent \in BOOLEAN /\ responder \in BOOLEAN /\ forwarder \in BOOLEAN
  BY DEF Init
<1>9. /\ windows \in {"user", "gateway"} /\ lan \subseteq Devices /\ away \subseteq Devices
      /\ stray \subseteq Devices /\ stuck \subseteq Devices
      /\ devices \subseteq Devices /\ fresh \subseteq Devices
  BY DEF Init
<1> QED BY <1>1, <1>3, <1>4, <1>5, <1>6, <1>7, <1>8, <1>9 DEF TypeOK

\* Every step keeps the types: by action, by variable.
LEMMA TypeNext == TypeOK /\ SessionsLeft /\ [Next]_vars => TypeOK'
<1> SUFFICES ASSUME TypeOK, SessionsLeft, [Next]_vars PROVE TypeOK'
  OBVIOUS
<1>nf. NoFile \in States
  BY BoundsAssumption DEF NoFile, States
<1> USE BoundsAssumption, <1>nf
    DEF TypeOK, States, PCs, disk, network, app, fields, helpers, local,
        Processes, Threads, Tokens, Main, Sniffer, Discovery, Worker, None
<1>st. CASE UNCHANGED vars
  BY <1>st DEF vars
<1>1. CASE Starts
  BY <1>1 DEF Starts, Go, Hold, Restore
<1>2. CASE Start
  BY <1>2 DEF Start, Go, Hold, OwnerAlive, Restore
<1>3. CASE Detect
  BY <1>3 DEF Detect, Go
<1>4. CASE DetectFails
  <2>1. /\ lock' \in {None, Main} /\ (lock' = Main <=> pc'[Main] \notin {"idle", "join"})
    BY <1>4 DEF DetectFails, Go, Forget
  <2>2. /\ swept' \in BOOLEAN /\ active' \in BOOLEAN /\ stopping' \in BOOLEAN
        /\ stopEvent' \in BOOLEAN /\ responder' \in BOOLEAN /\ forwarder' \in BOOLEAN
    BY <1>4 DEF DetectFails, Go, Forget
  <2> QED BY <2>1, <2>2, <1>4 DEF DetectFails, Go, Forget
<1>5. CASE Snapshot
  BY <1>5 DEF SessionsLeft, Snapshot, Go, Hold
<1>6. CASE WriteStarting
  BY <1>6 DEF WriteStarting, Go, Write
<1>7. CASE Launch
  BY <1>7 DEF Launch, LaunchWatchdog
<1>8. CASE Forward
  BY <1>8 DEF Forward, Go
<1>9. CASE Apply
  BY <1>9 DEF Apply, Go, Hold, Restore
<1>10. CASE StartResponder
  BY <1>10 DEF StartResponder, Go
<1>11. CASE StartRedirects
  BY <1>11 DEF StartRedirects, Go, Redirect
<1>12. CASE Activate
  <2>1. /\ lock' \in {None, Main} /\ (lock' = Main <=> pc'[Main] \notin {"idle", "join"})
    BY <1>12 DEF Activate, Go, Hold, Write
  <2>2. /\ swept' \in BOOLEAN /\ active' \in BOOLEAN /\ stopping' \in BOOLEAN
        /\ stopEvent' \in BOOLEAN /\ responder' \in BOOLEAN /\ forwarder' \in BOOLEAN
    BY <1>12 DEF Activate, Go, Hold, Write
  <2> QED BY <2>1, <2>2, <1>12 DEF Activate, Go, Hold, Write
<1>13. CASE StartFails
  BY <1>13 DEF StartFails, Go, Hold, Restore
<1>14. CASE Stop
  BY <1>14 DEF Stop, Go, Hold
<1>15. CASE StopGoesOn
  <2>1. /\ lock' \in {None, Main} /\ (lock' = Main <=> pc'[Main] \notin {"idle", "join"})
    BY <1>15 DEF StopGoesOn, Go, Hold, Forget, Restore, StillOwn
  <2>2. /\ swept' \in BOOLEAN /\ active' \in BOOLEAN /\ stopping' \in BOOLEAN
        /\ stopEvent' \in BOOLEAN /\ responder' \in BOOLEAN /\ forwarder' \in BOOLEAN
    BY <1>15 DEF StopGoesOn, Go, Hold, Forget, Restore, StillOwn
  <2> QED BY <2>1, <2>2, <1>15 DEF StopGoesOn, Go, Hold, Forget, Restore, StillOwn
<1>16. CASE RestoreUnanswers
  BY <1>16 DEF RestoreUnanswers, Go, StopsResponder
<1>17. CASE Exits
  BY <1>17 DEF Exits, Go, Hold, Restore
<1>18. CASE Heard
  BY <1>18 DEF Heard, Go, Aim
<1>19. CASE RecordDevice
  BY <1>19 DEF RecordDevice, Go, Hold, Write, Current, Recorded
<1>20. CASE Answer
  BY <1>20 DEF Answer, Go, Hold, Aim, Redirect, Current, Redirects
<1>21. CASE Discover
  BY <1>21 DEF Discover, Go, Hold, Aim, Current
<1>22. CASE Merged
  BY <1>22 DEF Merged, Go, Aim, Write, Current, Merge
<1>23. CASE DiscoveryChecks
  BY <1>23 DEF DiscoveryChecks, Go
<1>24. CASE DiscoveryRedirects
  BY <1>24 DEF DiscoveryRedirects, Go, Hold, Aim, Redirect, Current, Redirects
<1>25. CASE Round
  BY <1>25 DEF Round, Go, Hold, Aim, Current
<1>26. CASE RoundRedirects
  BY <1>26 DEF RoundRedirects, Go, Hold, Aim, Redirect, Current, Redirects
<1>27. CASE Killed
  <2>1. /\ lock' \in {None, Main} /\ (lock' = Main <=> pc'[Main] \notin {"idle", "join"})
    BY <1>27 DEF Killed, Forget
  <2>2. /\ swept' \in BOOLEAN /\ active' \in BOOLEAN /\ stopping' \in BOOLEAN
        /\ stopEvent' \in BOOLEAN /\ responder' \in BOOLEAN /\ forwarder' \in BOOLEAN
    BY <1>27 DEF Killed, Forget
  <2> QED BY <2>1, <2>2, <1>27 DEF Killed, Forget
<1>28. ASSUME NEW p \in Processes, RestoreArp(p) PROVE TypeOK'
  <2>1. lan' \subseteq Devices /\ stuck' \subseteq Devices
    BY <1>28 DEF RestoreArp, Named
  <2>2. swept' \in BOOLEAN
    BY <1>28 DEF RestoreArp
  <2> QED BY ZenonT(60), <1>28, <2>1, <2>2 DEF RestoreArp, Go
<1>32. ASSUME NEW p \in Processes, ArpFails(p) PROVE TypeOK'
  <2>1. lan' \subseteq Devices /\ stuck' \subseteq Devices
    BY <1>32 DEF ArpFails, Named
  <2>2. left' \in [sessions : 0..MaxSessions, crashes : Nat, fails : Nat, misses : Nat]
    BY <1>32 DEF ArpFails
  <2>3. pc' \in [Processes -> PCs] /\ (lock = Main <=> pc'[Main] \notin {"idle", "join"})
    BY <1>32 DEF ArpFails, Go
  <2> QED BY ZenonT(60), <1>32, <2>1, <2>2, <2>3 DEF ArpFails
<1>29. ASSUME NEW p \in Processes, RestoreWindows(p) PROVE TypeOK'
  <2>1. /\ lock' \in {None, Main} /\ (lock' = Main <=> pc'[Main] \notin {"idle", "join"})
    BY <1>29 DEF RestoreWindows, Go, Hold, RemoveState, Forget, After, Unlocks
  <2>2. /\ swept' \in BOOLEAN /\ active' \in BOOLEAN /\ stopping' \in BOOLEAN
        /\ stopEvent' \in BOOLEAN /\ responder' \in BOOLEAN /\ forwarder' \in BOOLEAN
    BY <1>29 DEF RestoreWindows, Go, Hold, RemoveState, Forget, After, Unlocks
  <2> QED BY <2>1, <2>2, <1>29 DEF RestoreWindows, Go, Hold, RemoveState, Forget, After, Unlocks
<1>30. ASSUME NEW p \in Processes, RestoreFails(p) PROVE TypeOK'
  <2>1. /\ lock' \in {None, Main} /\ (lock' = Main <=> pc'[Main] \notin {"idle", "join"})
    BY <1>30 DEF RestoreFails, Go, Write, Forget
  <2>2. /\ swept' \in BOOLEAN /\ active' \in BOOLEAN /\ stopping' \in BOOLEAN
        /\ stopEvent' \in BOOLEAN /\ responder' \in BOOLEAN /\ forwarder' \in BOOLEAN
    BY <1>30 DEF RestoreFails, Go, Write, Forget
  <2> QED BY <2>1, <2>2, <1>30 DEF RestoreFails, Go, Write, Forget
<1>31. ASSUME NEW t \in Tokens, WatchdogReads(t) PROVE TypeOK'
  BY <1>31 DEF WatchdogReads, Go, Hold, Restore
<1> QED
  BY <1>st, <1>1, <1>2, <1>3, <1>4, <1>5, <1>6, <1>7, <1>8, <1>9, <1>10, <1>11, <1>12, <1>13,
     <1>14, <1>15, <1>16, <1>17, <1>18, <1>19, <1>20, <1>21, <1>22, <1>23, <1>24, <1>25, <1>26,
     <1>27, <1>28, <1>29, <1>30, <1>31, <1>32
     DEF Next, MainSteps, SessionSteps, Watchdog, Processes, Threads

\* Every step keeps the tokens within the sessions that are left.
LEMMA SessionsNext == TypeOK /\ SessionsLeft /\ [Next]_vars => SessionsLeft'
<1> SUFFICES ASSUME TypeOK, SessionsLeft, [Next]_vars PROVE SessionsLeft'
  OBVIOUS
<1> USE DEF TypeOK, SessionsLeft, Restoring, disk, network, app, fields, helpers, local,
            Processes, Threads, Tokens, Main, Sniffer, Discovery, Worker
<1>st. CASE UNCHANGED vars
  BY <1>st DEF vars
<1>1. CASE Starts
  BY <1>1 DEF Starts, Go, Hold, Restore
<1>2. CASE Start
  BY <1>2 DEF Start, Go, Hold, OwnerAlive, Restore
<1>3. CASE Detect
  BY <1>3 DEF Detect, Go
<1>4. CASE DetectFails
  BY <1>4 DEF DetectFails, Go, Forget
<1>5. CASE Snapshot
  BY <1>5 DEF Snapshot, Go, Hold
<1>6. CASE WriteStarting
  BY <1>6 DEF WriteStarting, Go, Write
<1>7. CASE Launch
  BY <1>7 DEF Launch, LaunchWatchdog
<1>8. CASE Forward
  BY <1>8 DEF Forward, Go
<1>9. CASE Apply
  BY <1>9 DEF Apply, Go, Hold, Restore
<1>10. CASE StartResponder
  BY <1>10 DEF StartResponder, Go
<1>11. CASE StartRedirects
  BY <1>11 DEF StartRedirects, Go, Redirect
<1>12. CASE Activate
  BY <1>12 DEF Activate, Go, Hold, Write
<1>13. CASE StartFails
  BY <1>13 DEF StartFails, Go, Hold, Restore
<1>14. CASE Stop
  BY <1>14 DEF Stop, Go, Hold
<1>15. CASE StopGoesOn
  BY <1>15 DEF StopGoesOn, Go, Hold, Forget, Restore, StillOwn
<1>16. CASE RestoreUnanswers
  BY <1>16 DEF RestoreUnanswers, Go, StopsResponder
<1>17. CASE Exits
  BY <1>17 DEF Exits, Go, Hold, Restore
<1>18. CASE Heard
  BY <1>18 DEF Heard, Go, Aim
<1>19. CASE RecordDevice
  BY <1>19 DEF RecordDevice, Go, Hold, Write, Current, Recorded
<1>20. CASE Answer
  BY <1>20 DEF Answer, Go, Hold, Aim, Redirect, Current, Redirects
<1>21. CASE Discover
  BY <1>21 DEF Discover, Go, Hold, Aim, Current
<1>22. CASE Merged
  BY <1>22 DEF Merged, Go, Aim, Write, Current, Merge
<1>23. CASE DiscoveryChecks
  BY <1>23 DEF DiscoveryChecks, Go
<1>24. CASE DiscoveryRedirects
  BY <1>24 DEF DiscoveryRedirects, Go, Hold, Aim, Redirect, Current, Redirects
<1>25. CASE Round
  BY <1>25 DEF Round, Go, Hold, Aim, Current
<1>26. CASE RoundRedirects
  BY <1>26 DEF RoundRedirects, Go, Hold, Aim, Redirect, Current, Redirects
<1>27. CASE Killed
  BY <1>27 DEF Killed, Forget
<1>28. ASSUME NEW p \in Processes, RestoreArp(p) PROVE SessionsLeft'
  BY <1>28 DEF RestoreArp, Go
<1>32. ASSUME NEW p \in Processes, ArpFails(p) PROVE SessionsLeft'
  BY <1>32 DEF ArpFails, Go
<1>29. ASSUME NEW p \in Processes, RestoreWindows(p) PROVE SessionsLeft'
  BY <1>29 DEF RestoreWindows, Go, Hold, RemoveState, Forget, After, Unlocks
<1>30. ASSUME NEW p \in Processes, RestoreFails(p) PROVE SessionsLeft'
  BY <1>30 DEF RestoreFails, Go, Write, Forget
<1>31. ASSUME NEW t \in Tokens, WatchdogReads(t) PROVE SessionsLeft'
  BY <1>31 DEF WatchdogReads, Go, Hold, Restore
<1> QED
  BY <1>st, <1>1, <1>2, <1>3, <1>4, <1>5, <1>6, <1>7, <1>8, <1>9, <1>10, <1>11, <1>12, <1>13,
     <1>14, <1>15, <1>16, <1>17, <1>18, <1>19, <1>20, <1>21, <1>22, <1>23, <1>24, <1>25, <1>26,
     <1>27, <1>28, <1>29, <1>30, <1>31, <1>32
     DEF Next, MainSteps, SessionSteps, Watchdog, Processes, Threads

\* Every step keeps the state file in front of what was changed: by action.
LEMMA BackedNext == TypeOK /\ SessionsLeft /\ BackedInv /\ [Next]_vars => BackedInv'
<1> SUFFICES ASSUME TypeOK, SessionsLeft, BackedInv, [Next]_vars PROVE BackedInv'
  OBVIOUS
<1> USE DEF BackedInv, SettingsBacked, OnlyUserShots, UserBefore, TokensNamed, WatchdogsApart,
            NoOvertakenMiss, Started, Restoring, TypeOK, NoFile,
            disk, network, app, fields, helpers, local,
            Processes, Threads, Tokens, Main, Sniffer, Discovery, Worker, None
<1>st. CASE UNCHANGED vars
  BY <1>st DEF vars
<1>1. CASE Starts
  BY <1>1 DEF Starts, Go, Hold, Restore
<1>2. CASE Start
  BY <1>2 DEF Start, Go, Hold, OwnerAlive, Restore
<1>3. CASE Detect
  BY <1>3 DEF Detect, Go
<1>4. CASE DetectFails
  BY <1>4 DEF DetectFails, Go, Forget
<1>5. CASE Snapshot
  <2>1. SettingsBacked'
    BY <1>5, BoundsAssumption DEF Snapshot, Go, Hold, States, SessionsLeft
  <2>2. OnlyUserShots'
    BY <1>5, BoundsAssumption DEF Snapshot, Go, Hold, States, SessionsLeft
  <2>3. UserBefore'
    BY <1>5, BoundsAssumption DEF Snapshot, Go, Hold, States, SessionsLeft
  <2>4. TokensNamed'
    BY <1>5, BoundsAssumption DEF Snapshot, Go, Hold, States, SessionsLeft
  <2>5. WatchdogsApart'
    BY <1>5, BoundsAssumption DEF Snapshot, Go, Hold, States, SessionsLeft
  <2>6. NoOvertakenMiss'
    BY <1>5, BoundsAssumption DEF Snapshot, Go, Hold, States, SessionsLeft
  <2> QED BY <2>1, <2>2, <2>3, <2>4, <2>5, <2>6
<1>6. CASE WriteStarting
  BY <1>6 DEF WriteStarting, Go, Write
<1>7. CASE Launch
  BY <1>7 DEF Launch, LaunchWatchdog
<1>8. CASE Forward
  BY <1>8 DEF Forward, Go
<1>9. CASE Apply
  BY <1>9 DEF Apply, Go, Hold, Restore
<1>10. CASE StartResponder
  BY <1>10 DEF StartResponder, Go
<1>11. CASE StartRedirects
  BY <1>11 DEF StartRedirects, Go, Redirect
<1>12. CASE Activate
  BY <1>12 DEF Activate, Go, Hold, Write
<1>13. CASE StartFails
  BY <1>13 DEF StartFails, Go, Hold, Restore
<1>14. CASE Stop
  BY <1>14 DEF Stop, Go, Hold
<1>15. CASE StopGoesOn
  BY <1>15 DEF StopGoesOn, Go, Hold, Forget, Restore, StillOwn
<1>16. CASE RestoreUnanswers
  BY <1>16 DEF RestoreUnanswers, Go, StopsResponder
<1>17. CASE Exits
  BY <1>17 DEF Exits, Go, Hold, Restore
<1>18. CASE Heard
  BY <1>18 DEF Heard, Go, Aim
<1>19. CASE RecordDevice
  <2>1. SettingsBacked'
    BY <1>19 DEF RecordDevice, Go, Hold, Write, Current, Recorded, States
  <2>2. OnlyUserShots'
    BY <1>19 DEF RecordDevice, Go, Hold, Write, Current, Recorded, States
  <2>3. UserBefore'
    BY <1>19 DEF RecordDevice, Go, Hold, Write, Current, Recorded, States
  <2>4. TokensNamed'
    BY <1>19 DEF RecordDevice, Go, Hold, Write, Current, Recorded, States
  <2>5. WatchdogsApart'
    BY <1>19 DEF RecordDevice, Go, Hold, Write, Current, Recorded, States
  <2>6. NoOvertakenMiss'
    BY <1>19 DEF RecordDevice, Go, Hold, Write, Current, Recorded, States
  <2> QED BY <2>1, <2>2, <2>3, <2>4, <2>5, <2>6
<1>20. CASE Answer
  BY <1>20 DEF Answer, Go, Hold, Aim, Redirect, Current, Redirects
<1>21. CASE Discover
  BY <1>21 DEF Discover, Go, Hold, Aim, Current
<1>22. CASE Merged
  <2>1. SettingsBacked'
    BY <1>22 DEF Merged, Go, Aim, Write, Current, Merge, States
  <2>2. OnlyUserShots'
    BY <1>22 DEF Merged, Go, Aim, Write, Current, Merge, States
  <2>3. UserBefore'
    BY <1>22 DEF Merged, Go, Aim, Write, Current, Merge, States
  <2>4. TokensNamed'
    BY <1>22 DEF Merged, Go, Aim, Write, Current, Merge, States
  <2>5. WatchdogsApart'
    BY <1>22 DEF Merged, Go, Aim, Write, Current, Merge, States
  <2>6. NoOvertakenMiss'
    BY <1>22 DEF Merged, Go, Aim, Write, Current, Merge, States
  <2> QED BY <2>1, <2>2, <2>3, <2>4, <2>5, <2>6
<1>23. CASE DiscoveryChecks
  BY <1>23 DEF DiscoveryChecks, Go
<1>24. CASE DiscoveryRedirects
  BY <1>24 DEF DiscoveryRedirects, Go, Hold, Aim, Redirect, Current, Redirects
<1>25. CASE Round
  BY <1>25 DEF Round, Go, Hold, Aim, Current
<1>26. CASE RoundRedirects
  BY <1>26 DEF RoundRedirects, Go, Hold, Aim, Redirect, Current, Redirects
<1>27. CASE Killed
  BY <1>27 DEF Killed, Forget
<1>28. ASSUME NEW p \in Processes, RestoreArp(p) PROVE BackedInv'
  BY <1>28 DEF RestoreArp, Go
<1>34. ASSUME NEW p \in Processes, ArpFails(p) PROVE BackedInv'
  BY <1>34 DEF ArpFails, Go
<1>29. ASSUME RestoreWindows(Main) PROVE BackedInv'
  <2>1. SettingsBacked'
    BY <1>29 DEF RestoreWindows, Go, Hold, RemoveState, Forget, After, Unlocks
  <2>2. OnlyUserShots'
    BY <1>29 DEF RestoreWindows, Go, Hold, RemoveState, Forget, After, Unlocks
  <2>3. UserBefore'
    BY <1>29 DEF RestoreWindows, Go, Hold, RemoveState, Forget, After, Unlocks
  <2>4. TokensNamed'
    BY <1>29 DEF RestoreWindows, Go, Hold, RemoveState, Forget, After, Unlocks
  <2>5. WatchdogsApart'
    BY <1>29 DEF RestoreWindows, Go, Hold, RemoveState, Forget, After, Unlocks
  <2>6. NoOvertakenMiss'
    BY <1>29 DEF RestoreWindows, Go, Hold, RemoveState, Forget, After, Unlocks
  <2> QED BY <2>1, <2>2, <2>3, <2>4, <2>5, <2>6
<1>29t. ASSUME NEW t \in Tokens, RestoreWindows(t) PROVE BackedInv'
  <2>0. /\ t # Main /\ t # 0 /\ held[t].token = t
        /\ pc[Main] \in Started \union {"write"} => t # tokens
    BY <1>29t DEF RestoreWindows, TypeOK, WatchdogsApart, Started, Tokens, Main
  <2>1. SettingsBacked'
    BY <1>29t, <2>0 DEF RestoreWindows, Go, Hold, RemoveState, Forget, After, Unlocks
  <2>2. OnlyUserShots'
    BY <1>29t, <2>0 DEF RestoreWindows, Go, Hold, RemoveState, Forget, After, Unlocks
  <2>3. UserBefore'
    BY <1>29t, <2>0 DEF RestoreWindows, Go, Hold, RemoveState, Forget, After, Unlocks
  <2>4. TokensNamed'
    BY <1>29t, <2>0 DEF RestoreWindows, Go, Hold, RemoveState, Forget, After, Unlocks
  <2>5. WatchdogsApart'
    BY <1>29t, <2>0 DEF RestoreWindows, Go, Hold, RemoveState, Forget, After, Unlocks
  <2>6. NoOvertakenMiss'
    BY <1>29t, <2>0 DEF RestoreWindows, Go, Hold, RemoveState, Forget, After, Unlocks
  <2> QED BY <2>1, <2>2, <2>3, <2>4, <2>5, <2>6
<1>30. ASSUME RestoreFails(Main) PROVE BackedInv'
  <2>1. SettingsBacked'
    BY <1>30 DEF RestoreFails, Go, Write, Forget
  <2>2. OnlyUserShots'
    BY <1>30 DEF RestoreFails, Go, Write, Forget
  <2>3. UserBefore'
    BY <1>30 DEF RestoreFails, Go, Write, Forget
  <2>4. TokensNamed'
    BY <1>30 DEF RestoreFails, Go, Write, Forget
  <2>5. WatchdogsApart'
    BY <1>30 DEF RestoreFails, Go, Write, Forget
  <2>6. NoOvertakenMiss'
    BY <1>30 DEF RestoreFails, Go, Write, Forget
  <2> QED BY <2>1, <2>2, <2>3, <2>4, <2>5, <2>6
<1>30t. ASSUME NEW t \in Tokens, RestoreFails(t) PROVE BackedInv'
  <2>0. /\ t # Main /\ t # 0 /\ held[t].token = t
        /\ pc[Main] \in Started \union {"write"} => t # tokens
    BY <1>30t DEF RestoreFails, TypeOK, WatchdogsApart, Started, Tokens, Main
  <2>1. SettingsBacked'
    BY <1>30t, <2>0 DEF RestoreFails, Go, Write, Forget
  <2>2. OnlyUserShots'
    BY <1>30t, <2>0 DEF RestoreFails, Go, Write, Forget
  <2>3. UserBefore'
    BY <1>30t, <2>0 DEF RestoreFails, Go, Write, Forget
  <2>4. TokensNamed'
    BY <1>30t, <2>0 DEF RestoreFails, Go, Write, Forget
  <2>5. WatchdogsApart'
    BY <1>30t, <2>0 DEF RestoreFails, Go, Write, Forget
  <2>6. NoOvertakenMiss'
    BY <1>30t, <2>0 DEF RestoreFails, Go, Write, Forget
  <2> QED BY <2>1, <2>2, <2>3, <2>4, <2>5, <2>6
<1>31. ASSUME NEW t \in Tokens, WatchdogReads(t) PROVE BackedInv'
  BY <1>31 DEF WatchdogReads, Go, Hold, Restore
<1> QED
  BY <1>st, <1>1, <1>2, <1>3, <1>4, <1>5, <1>6, <1>7, <1>8, <1>9, <1>10, <1>11, <1>12, <1>13,
     <1>14, <1>15, <1>16, <1>17, <1>18, <1>19, <1>20, <1>21, <1>22, <1>23, <1>24, <1>25, <1>26,
     <1>27, <1>28, <1>29, <1>29t, <1>30, <1>30t, <1>31, <1>34
     DEF Next, MainSteps, SessionSteps, Watchdog, Processes, Threads

\* No session has a token at first.
LEMMA SessionsInit == Init => SessionsLeft
<1> SUFFICES ASSUME Init PROVE SessionsLeft
  OBVIOUS
<1>1. left \in [sessions : 0..MaxSessions, crashes : Nat, fails : Nat, misses : Nat]
  BY BoundsAssumption DEF Init
<1> QED BY <1>1, BoundsAssumption DEF Init, SessionsLeft, Main, Processes, Threads

\* The bounds leave out the step that breaks the property: a watchdog process
\* whose restore fails beside a second session.
SingleSessionOrNoMiss == \A b \in Bounds : b.misses = 0 \/ b.sessions <= 1

\* At first the file is empty and Windows is as the user had it.
LEMMA InvInit == Init /\ SingleSessionOrNoMiss => SessionsLeft /\ BackedInv
<1> SUFFICES ASSUME Init, SingleSessionOrNoMiss PROVE SessionsLeft /\ BackedInv
  OBVIOUS
<1>1. left \in [sessions : 0..MaxSessions, crashes : Nat, fails : Nat, misses : Nat]
  BY BoundsAssumption DEF Init
<1>2. SessionsLeft
  BY SessionsInit
<1>3. NoOvertakenMiss
  BY <1>1 DEF Init, NoOvertakenMiss, SingleSessionOrNoMiss
<1>4. SettingsBacked /\ OnlyUserShots /\ UserBefore
  BY DEF Init, SettingsBacked, OnlyUserShots, UserBefore, NoFile, Processes, Threads, Main
<1>5. TokensNamed /\ WatchdogsApart
  BY DEF Init, TokensNamed, WatchdogsApart, NoFile, Started, Restoring, Processes, Threads, Main
<1> QED BY <1>2, <1>3, <1>4, <1>5 DEF BackedInv

-----------------------------------------------------------------------------
\* Whoever asks for Current redirects for a session nobody restores: its watchdog waits.
LEMMA NobodyRestores ==
  ASSUME TypeOK, BackedInv, ListedInv, active, ~stopping, NEW p \in Tokens \union {Main}
  PROVE  file.token = held[p].token => pc[p] \notin Restoring
<1>1. CASE p = Main
  BY <1>1 DEF ListedInv, ActiveKept, Restoring
<1>2. CASE p \in Tokens
  <2>1. pc[p] \in Restoring => held[p].token = p /\ pc[p] # "watch"
    BY <1>2 DEF ListedInv, PutsBack, BackedInv, WatchdogsApart, Restoring, Tokens, Main
  <2> QED BY <2>1 DEF ListedInv, ActiveKept
<1> QED BY <1>1, <1>2
\* The list of devices starts empty, and so does the LAN.
LEMMA ListedInit == Init => ListedInv
<1> SUFFICES ASSUME Init PROVE ListedInv
  OBVIOUS
<1>1. RedirectedListed /\ (\A p \in Tokens \union {Main} : PutsBack(p)) /\ RestoresFile
  BY DEF Init, RedirectedListed, Redirected, PutsBack, RestoresFile, Restoring, NoFile, Processes, Threads,
     Main
<1>2. StartsClean /\ ActiveKept /\ TokensDrawn /\ RecordedFresh
  BY DEF Init, StartsClean, ActiveKept, TokensDrawn, RecordedFresh, Started, NoFile, Processes,
         Threads, Main, Discovery, Sniffer, Worker
<1> QED BY <1>1, <1>2 DEF ListedInv
\* Every step keeps the devices listed: by action, and by part of ListedInv.
LEMMA ListedNext ==
  TypeOK /\ SessionsLeft /\ BackedInv /\ ListedInv /\ [Next]_vars => ListedInv'
<1> SUFFICES ASSUME TypeOK, SessionsLeft, BackedInv, ListedInv, [Next]_vars PROVE ListedInv'
  OBVIOUS
<1> USE DEF ListedInv, RedirectedListed, Redirected, PutsBack, RestoresFile, StartsClean, ActiveKept,
            TokensDrawn, RecordedFresh, TokensNamed, WatchdogsApart, BackedInv, Started, Restoring,
            TypeOK, NoFile, States,
            disk, network, app, fields, helpers, local,
            Processes, Threads, Tokens, Main, Sniffer, Discovery, Worker, None
<1>st. CASE UNCHANGED vars
  BY <1>st DEF vars
<1>1. CASE Starts
  <2>1. RedirectedListed'
    BY <1>1 DEF Starts, Go, Hold, Restore
  <2>2. (\A p \in Tokens \union {Main} : PutsBack(p))'
    BY <1>1 DEF Starts, Go, Hold, Restore
  <2>3. RestoresFile'
    BY <1>1 DEF Starts, Go, Hold, Restore
  <2>4. StartsClean'
    BY <1>1 DEF Starts, Go, Hold, Restore
  <2>5. ActiveKept'
    BY <1>1 DEF Starts, Go, Hold, Restore
  <2>6. TokensDrawn'
    BY <1>1 DEF Starts, Go, Hold, Restore
  <2>7. RecordedFresh'
    BY <1>1 DEF Starts, Go, Hold, Restore
  <2> QED BY <2>1, <2>2, <2>3, <2>4, <2>5, <2>6, <2>7
<1>2. CASE Start
  <2>1. RedirectedListed'
    BY <1>2 DEF Start, Go, Hold, OwnerAlive, Restore
  <2>2. (\A p \in Tokens \union {Main} : PutsBack(p))'
    BY <1>2 DEF Start, Go, Hold, OwnerAlive, Restore
  <2>3. RestoresFile'
    BY <1>2 DEF Start, Go, Hold, OwnerAlive, Restore
  <2>4. StartsClean'
    BY <1>2 DEF Start, Go, Hold, OwnerAlive, Restore
  <2>5. ActiveKept'
    BY <1>2 DEF Start, Go, Hold, OwnerAlive, Restore
  <2>6. TokensDrawn'
    <3>1. /\ UNCHANGED <<file, token, tokens>> /\ pc'[Main] \notin Started \union {"write"}
          /\ \A t \in Threads : held'[t] \in {held[t], file}
      BY <1>2 DEF Start, Go, Hold, Restore
    <3> QED BY <3>1
  <2>7. RecordedFresh'
    BY <1>2 DEF Start, Go, Hold, OwnerAlive, Restore
  <2> QED BY <2>1, <2>2, <2>3, <2>4, <2>5, <2>6, <2>7
<1>3. CASE Detect
  BY <1>3 DEF Detect, Go
<1>4. CASE DetectFails
  BY <1>4 DEF DetectFails, Go, Forget
<1>5. CASE Snapshot
  BY <1>5 DEF Snapshot, Go, Hold
<1>6. CASE WriteStarting
  <2>1. RedirectedListed'
    BY <1>6 DEF WriteStarting, Go, Write
  <2>2. (\A p \in Tokens \union {Main} : PutsBack(p))'
    BY <1>6 DEF WriteStarting, Go, Write
  <2>3. RestoresFile'
    BY <1>6 DEF WriteStarting, Go, Write
  <2>4. StartsClean'
    BY <1>6 DEF WriteStarting, Go, Write
  <2>5. ActiveKept'
    <3>1. ~active /\ UNCHANGED active
      BY <1>6 DEF WriteStarting
    <3> QED BY <3>1
  <2>6. TokensDrawn'
    BY <1>6 DEF WriteStarting, Go, Write
  <2>7. RecordedFresh'
    BY <1>6 DEF WriteStarting, Go, Write
  <2> QED BY <2>1, <2>2, <2>3, <2>4, <2>5, <2>6, <2>7
<1>7. CASE Launch
  <2>1. RedirectedListed'
    BY <1>7 DEF Launch, LaunchWatchdog
  <2>2. (\A p \in Tokens \union {Main} : PutsBack(p))'
    BY <1>7 DEF Launch, LaunchWatchdog
  <2>3. RestoresFile'
    BY <1>7 DEF Launch, LaunchWatchdog
  <2>4. StartsClean'
    BY <1>7 DEF Launch, LaunchWatchdog
  <2>5. ActiveKept'
    BY <1>7 DEF Launch, LaunchWatchdog
  <2>6. TokensDrawn'
    BY <1>7 DEF Launch, LaunchWatchdog
  <2>7. RecordedFresh'
    BY <1>7 DEF Launch, LaunchWatchdog
  <2> QED BY <2>1, <2>2, <2>3, <2>4, <2>5, <2>6, <2>7
<1>8. CASE Forward
  BY <1>8 DEF Forward, Go
<1>9. CASE Apply
  <2>1. RedirectedListed'
    BY <1>9 DEF Apply, Go, Hold, Restore
  <2>2. (\A p \in Tokens \union {Main} : PutsBack(p))'
    <3>1. /\ pc[Main] = "apply" /\ UNCHANGED <<lan, stray, stuck, file>>
          /\ \A t \in Tokens : pc'[t] = pc[t] /\ held'[t] = held[t]
      BY <1>9 DEF Apply, Go, Hold, Restore
    <3>2. pc'[Main] \in {"respond", "unanswer"} /\ held'[Main] = held[Main]
      BY <1>9 DEF Apply, Go, Hold, Restore
    <3>3. PutsBack(Main)'
      BY <3>1, <3>2
    <3>4. ASSUME NEW t \in Tokens PROVE PutsBack(t)'
      BY <3>1
    <3> QED BY <3>3, <3>4
  <2>3. RestoresFile'
    BY <1>9 DEF Apply, Go, Hold, Restore
  <2>4. StartsClean'
    BY <1>9 DEF Apply, Go, Hold, Restore
  <2>5. ActiveKept'
    <3>1. ~active /\ UNCHANGED active
      BY <1>9 DEF Apply
    <3> QED BY <3>1
  <2>6. TokensDrawn'
    BY <1>9 DEF Apply, Go, Hold, Restore
  <2>7. RecordedFresh'
    BY <1>9 DEF Apply, Go, Hold, Restore
  <2> QED BY <2>1, <2>2, <2>3, <2>4, <2>5, <2>6, <2>7
<1>10. CASE StartResponder
  BY <1>10 DEF StartResponder, Go
<1>11. CASE StartRedirects
  <2>1. RedirectedListed'
    BY <1>11 DEF StartRedirects, Go, Redirect
  <2>2. (\A p \in Tokens \union {Main} : PutsBack(p))'
    <3>1. /\ pc[Main] = "redirect" /\ pc'[Main] = "activate"
          /\ \A t \in Tokens : pc'[t] = pc[t]
          /\ UNCHANGED <<file, held>>
      BY <1>11 DEF StartRedirects, Go
    <3>2. ASSUME NEW t \in Tokens, pc[t] \in Restoring PROVE file.token # held[t].token
      <4>1. t # Main /\ pc[t] \in {"arp", "windows"} /\ held[t].token = t
        BY <3>2
      <4>2. file.token = tokens /\ pc[tokens] = "watch"
        BY <3>1
      <4> QED BY <3>2, <4>1, <4>2
    <3> QED BY <3>1, <3>2
  <2>3. RestoresFile'
    BY <1>11 DEF StartRedirects, Go, Redirect
  <2>4. StartsClean'
    BY <1>11 DEF StartRedirects, Go, Redirect
  <2>5. ActiveKept'
    BY <1>11 DEF StartRedirects, Go, Redirect
  <2>6. TokensDrawn'
    BY <1>11 DEF StartRedirects, Go, Redirect
  <2>7. RecordedFresh'
    BY <1>11 DEF StartRedirects, Go, Redirect
  <2> QED BY <2>1, <2>2, <2>3, <2>4, <2>5, <2>6, <2>7
<1>12. CASE Activate
  BY <1>12 DEF Activate, Go, Hold, Write
<1>13. CASE StartFails
  <2>1. RedirectedListed'
    BY <1>13 DEF StartFails, Go, Hold, Restore
  <2>2. (\A p \in Tokens \union {Main} : PutsBack(p))'
    BY <1>13 DEF StartFails, Go, Hold, Restore
  <2>3. RestoresFile'
    BY <1>13 DEF StartFails, Go, Hold, Restore
  <2>4. StartsClean'
    BY <1>13 DEF StartFails, Go, Hold, Restore
  <2>5. ActiveKept'
    <3>1. ~active /\ UNCHANGED active
      BY <1>13 DEF StartFails
    <3> QED BY <3>1
  <2>6. TokensDrawn'
    BY <1>13 DEF StartFails, Go, Hold, Restore
  <2>7. RecordedFresh'
    BY <1>13 DEF StartFails, Go, Hold, Restore
  <2> QED BY <2>1, <2>2, <2>3, <2>4, <2>5, <2>6, <2>7
<1>14. CASE Stop
  BY <1>14 DEF Stop, Go, Hold
<1>15. CASE StopGoesOn
  <2>1. RedirectedListed'
    BY <1>15 DEF StopGoesOn, Go, Hold, Forget, Restore, StillOwn
  <2>2. (\A p \in Tokens \union {Main} : PutsBack(p))'
    BY <1>15 DEF StopGoesOn, Go, Hold, Forget, Restore, StillOwn
  <2>3. RestoresFile'
    BY <1>15 DEF StopGoesOn, Go, Hold, Forget, Restore, StillOwn
  <2>4. StartsClean'
    BY <1>15 DEF StopGoesOn, Go, Hold, Forget, Restore, StillOwn
  <2>5. ActiveKept'
    <3>1. /\ UNCHANGED <<file, owner>> /\ (active' => UNCHANGED <<active, token, devices>>)
          /\ \A t \in Tokens : pc'[t] = pc[t] /\ held'[t] = held[t]
      BY <1>15 DEF StopGoesOn, Go, Hold, Forget, Restore
    <3>2. active' => \/ pc'[Main] = "idle"
                     \/ stopping' /\ pc'[Main] \in Restoring /\ why'[Main] = "stop"
      <4>1. CASE UNCHANGED stopping /\ Restore(Main, IF file # NoFile THEN file ELSE held[Main], "stop")
        BY <1>15, <4>1 DEF StopGoesOn, Go, Restore
      <4>2. CASE Go(Main, "idle")
        BY <4>2 DEF Go
      <4> QED
        BY <1>15, <4>1, <4>2 DEF StopGoesOn
    <3>3. ASSUME active PROVE token \in Tokens
      <4>1. token # 0 /\ token \in 0..MaxSessions
        BY <3>3
      <4> QED BY <4>1, BoundsAssumption
    <3>4. ASSUME active'
          PROVE  /\ owner' # 0 /\ file'.token = token' /\ file'.devices = devices'
                 /\ pc'[token'] = "watch" /\ held'[token'].owner = owner'
      <4>1. active /\ token \in Tokens /\ UNCHANGED <<owner, file, token, devices>>
        BY <3>1, <3>3, <3>4
      <4>2. pc'[token] = "watch" /\ held'[token].owner = owner
        BY <3>1, <4>1
      <4> QED BY <4>1, <4>2
    <3> QED BY <3>2, <3>4
  <2>6. TokensDrawn'
    <3>1. /\ UNCHANGED <<file, tokens>> /\ token' \in {token, 0}
          /\ pc'[Main] \notin Started \union {"write"}
          /\ \A t \in Threads : held'[t] \in {held[t], file}
      BY <1>15 DEF StopGoesOn, Go, Hold, Forget, Restore
    <3> QED BY <3>1
  <2>7. RecordedFresh'
    <3>1. /\ UNCHANGED <<fresh, target>> /\ (active' => UNCHANGED <<active, token, devices>>)
          /\ pc'[Discovery] = pc[Discovery] /\ held'[Discovery] = held[Discovery]
      BY <1>15 DEF StopGoesOn, Go, Hold, Forget, Restore
    <3> QED BY <3>1
  <2> QED BY <2>1, <2>2, <2>3, <2>4, <2>5, <2>6, <2>7
<1>16. CASE RestoreUnanswers
  BY <1>16 DEF RestoreUnanswers, Go, StopsResponder
<1>17. CASE Exits
  <2>1. RedirectedListed'
    BY <1>17 DEF Exits, Go, Hold, Restore
  <2>2. (\A p \in Tokens \union {Main} : PutsBack(p))'
    BY <1>17 DEF Exits, Go, Hold, Restore
  <2>3. RestoresFile'
    BY <1>17 DEF Exits, Go, Hold, Restore
  <2>4. StartsClean'
    BY <1>17 DEF Exits, Go, Hold, Restore
  <2>5. ActiveKept'
    BY <1>17 DEF Exits, Go, Hold, Restore
  <2>6. TokensDrawn'
    <3>1. /\ UNCHANGED <<file, token, tokens>> /\ pc'[Main] \notin Started \union {"write"}
          /\ \A t \in Threads : held'[t] \in {held[t], file}
      BY <1>17 DEF Exits, Go, Hold, Restore
    <3> QED BY <3>1
  <2>7. RecordedFresh'
    BY <1>17 DEF Exits, Go, Hold, Restore
  <2> QED BY <2>1, <2>2, <2>3, <2>4, <2>5, <2>6, <2>7
<1>18. CASE Heard
  BY <1>18 DEF Heard, Go, Aim
<1>19. CASE RecordDevice
  <2>1. RedirectedListed'
    BY <1>19 DEF RecordDevice, Go, Hold, Write, Current, Recorded
  <2>2. (\A p \in Tokens \union {Main} : PutsBack(p))'
    BY <1>19 DEF RecordDevice, Go, Hold, Write, Current, Recorded
  <2>3. RestoresFile'
    BY <1>19 DEF RecordDevice, Go, Hold, Write, Current, Recorded
  <2>4. StartsClean'
    BY <1>19 DEF RecordDevice, Go, Hold, Write, Current, Recorded
  <2>5. ActiveKept'
    <3>1. /\ UNCHANGED <<active, owner, token, why, stopping>> /\ pc'[Main] = pc[Main]
          /\ \A t \in Tokens : pc'[t] = pc[t] /\ held'[t] = held[t]
      BY <1>19 DEF RecordDevice, Go, Hold, Write, Current, Recorded
    <3>2. file'.token = file.token /\ (active => file'.devices = devices')
      BY <1>19 DEF RecordDevice, Go, Hold, Write, Current, Recorded
    <3>3. ASSUME active PROVE token \in Tokens
      <4>1. token # 0 /\ token \in 0..MaxSessions
        BY <3>3
      <4> QED BY <4>1, BoundsAssumption
    <3> QED BY <3>1, <3>2, <3>3
  <2>6. TokensDrawn'
    BY <1>19 DEF RecordDevice, Go, Hold, Write, Current, Recorded
  <2>7. RecordedFresh'
    BY <1>19 DEF RecordDevice, Go, Hold, Write, Current, Recorded
  <2> QED BY <2>1, <2>2, <2>3, <2>4, <2>5, <2>6, <2>7
<1>20. ASSUME NEW t \in {Sniffer, Discovery, Worker}, Redirects(t) PROVE ListedInv'
  <2>1. RedirectedListed'
    BY <1>20 DEF Redirects, Go, Hold, Aim, Redirect, Current
  <2>2. (\A p \in Tokens \union {Main} : PutsBack(p))'
    <3>1. /\ UNCHANGED file
          /\ (\A p \in Tokens \union {Main} : pc'[p] = pc[p] /\ held'[p] = held[p])
      BY <1>20 DEF Redirects, Go, Hold
    <3>2. CASE Current
      <4>1. \A p \in Tokens \union {Main} : file.token = held[p].token => pc[p] \notin Restoring
        BY <3>2, NobodyRestores DEF Current
      <4> QED BY <3>1, <4>1
    <3>3. CASE ~Current
      <4>1. Redirected' \subseteq Redirected
        BY <1>20, <3>3 DEF Redirects, Redirect
      <4> QED BY <3>1, <4>1
    <3> QED BY <3>2, <3>3
  <2>3. RestoresFile'
    BY <1>20 DEF Redirects, Go, Hold, Aim, Redirect, Current
  <2>4. StartsClean'
    BY <1>20 DEF Redirects, Go, Hold, Aim, Redirect, Current
  <2>5. ActiveKept'
    BY <1>20 DEF Redirects, Go, Hold, Aim, Redirect, Current
  <2>6. TokensDrawn'
    BY <1>20 DEF Redirects, Go, Hold, Aim, Redirect, Current
  <2>7. RecordedFresh'
    BY <1>20 DEF Redirects, Go, Hold, Aim, Redirect, Current
  <2> QED BY <2>1, <2>2, <2>3, <2>4, <2>5, <2>6, <2>7
<1>21. CASE Discover
  BY <1>21 DEF Discover, Go, Hold, Aim, Current
<1>22. CASE Merged
  <2>1. RedirectedListed'
    BY <1>22 DEF Merged, Go, Aim, Write, Current, Merge
  <2>2. (\A p \in Tokens \union {Main} : PutsBack(p))'
    BY <1>22 DEF Merged, Go, Aim, Write, Current, Merge
  <2>3. RestoresFile'
    BY <1>22 DEF Merged, Go, Aim, Write, Current, Merge
  <2>4. StartsClean'
    BY <1>22 DEF Merged, Go, Aim, Write, Current, Merge
  <2>5. ActiveKept'
    <3>1. /\ UNCHANGED <<active, owner, token, why, stopping>> /\ pc'[Main] = pc[Main]
          /\ \A t \in Tokens : pc'[t] = pc[t] /\ held'[t] = held[t]
      BY <1>22 DEF Merged, Go, Aim, Write, Current, Merge
    <3>2. file'.token = file.token /\ (active => file'.devices = devices')
      <4>1. \/ UNCHANGED <<file, devices>>
            \/ \E now : devices' = now /\ file' = [file EXCEPT !.devices = now]
        BY <1>22 DEF Merged, Write
      <4> QED BY <4>1
    <3>3. ASSUME active PROVE token \in Tokens
      <4>1. token # 0 /\ token \in 0..MaxSessions
        BY <3>3
      <4> QED BY <4>1, BoundsAssumption
    <3> QED BY <3>1, <3>2, <3>3
  <2>6. TokensDrawn'
    BY <1>22 DEF Merged, Go, Aim, Write, Current, Merge
  <2>7. RecordedFresh'
    BY <1>22 DEF Merged, Go, Aim, Write, Current, Merge
  <2> QED BY <2>1, <2>2, <2>3, <2>4, <2>5, <2>6, <2>7
<1>23. CASE DiscoveryChecks
  BY <1>23 DEF DiscoveryChecks, Go
<1>25. CASE Round
  BY <1>25 DEF Round, Go, Hold, Aim, Current
<1>27. CASE Killed
  BY <1>27 DEF Killed, Forget
<1>28. ASSUME NEW p \in Tokens \union {Main}, RestoreArp(p) PROVE ListedInv'
  <2>1. Redirected' = Redirected \ Named(held[p])
    BY <1>28 DEF RestoreArp
  <2> QED BY <1>28, <2>1 DEF RestoreArp, Go, Named, Redirected
<1>34. ASSUME NEW p \in Tokens \union {Main}, ArpFails(p) PROVE ListedInv'
  <2>1. Redirected' \subseteq Redirected \ Named(held[p])
    BY <1>34 DEF ArpFails
  <2> QED BY <1>34, <2>1 DEF ArpFails, Go, Named, Redirected
<1>29. ASSUME RestoreWindows(Main) PROVE ListedInv'
  BY <1>29 DEF RestoreWindows, Go, Hold, RemoveState, Forget, After, Unlocks
<1>30. ASSUME NEW t \in Tokens, RestoreWindows(t) PROVE ListedInv'
  BY <1>30 DEF RestoreWindows, Go, Hold, RemoveState, Forget, After, Unlocks
<1>31. ASSUME RestoreFails(Main) PROVE ListedInv'
  BY <1>31 DEF RestoreFails, Go, Write, Forget
<1>32. ASSUME NEW t \in Tokens, RestoreFails(t) PROVE ListedInv'
  BY <1>32 DEF RestoreFails, NoOvertakenMiss, Go, Write, Forget
<1>33. ASSUME NEW t \in Tokens, WatchdogReads(t) PROVE ListedInv'
  <2>1. RedirectedListed'
    BY <1>33 DEF WatchdogReads, Go, Hold, Restore
  <2>2. (\A p \in Tokens \union {Main} : PutsBack(p))'
    <3>1. /\ UNCHANGED <<file, lan, stray, stuck>>
          /\ \A p \in Tokens \union {Main} : p # t => pc'[p] = pc[p] /\ held'[p] = held[p]
      BY <1>33 DEF WatchdogReads, Go, Hold, Restore
    <3>2. pc'[t] = "end" \/ (pc'[t] = "arp" /\ held'[t] = file)
      BY <1>33 DEF WatchdogReads, Go, Hold, Restore
    <3>3. PutsBack(t)'
      BY <3>1, <3>2
    <3> QED BY <3>1, <3>3
  <2>3. RestoresFile'
    BY <1>33 DEF WatchdogReads, Go, Hold, Restore
  <2>4. StartsClean'
    BY <1>33 DEF WatchdogReads, Go, Hold, Restore
  <2>5. ActiveKept'
    BY <1>33 DEF WatchdogReads, Go, Hold, Restore
  <2>6. TokensDrawn'
    BY <1>33 DEF WatchdogReads, Go, Hold, Restore
  <2>7. RecordedFresh'
    BY <1>33 DEF WatchdogReads, Go, Hold, Restore
  <2> QED BY <2>1, <2>2, <2>3, <2>4, <2>5, <2>6, <2>7
<1> QED
  BY <1>st, <1>1, <1>2, <1>3, <1>4, <1>5, <1>6, <1>7, <1>8, <1>9, <1>10, <1>11, <1>12, <1>13,
     <1>14, <1>15, <1>16, <1>17, <1>18, <1>19, <1>20, <1>21, <1>22, <1>23, <1>25, <1>27, <1>28,
     <1>29, <1>30, <1>31, <1>32, <1>33, <1>34
     DEF Next, MainSteps, SessionSteps, Answer, DiscoveryRedirects, RoundRedirects, Watchdog

-----------------------------------------------------------------------------
(***************************************************************************)
(* Theorems                                                                *)
(***************************************************************************)
\* The fields, the state file and what every thread and watchdog process holds
\* keep their types; the lock of the manager is held exactly while start, stop
\* or recover is between two steps of it.
THEOREM TypeCorrect == Spec => []TypeOK
<1>1. TypeOK /\ SessionsLeft /\ [Next]_vars => TypeOK' /\ SessionsLeft'
  BY TypeNext, SessionsNext
<1> QED BY TypeInit, SessionsInit, <1>1, PTL DEF Spec

\* Whenever Windows has the gateway's settings a state file holds the user's,
\* for any number of devices, sessions, lives, forced ends and restores that
\* fail in the application, and any watchdog processes that work on the file at
\* the same time: if such a process fails, then for the only session there is.
THEOREM SettingsStayBacked == SingleSessionOrNoMiss => (Spec => []SettingsBacked)
<1> SUFFICES ASSUME SingleSessionOrNoMiss PROVE Spec => []SettingsBacked
  OBVIOUS
<1>1. Init => TypeOK /\ SessionsLeft /\ BackedInv
  BY TypeInit, InvInit
<1>2. TypeOK /\ SessionsLeft /\ BackedInv /\ [Next]_vars => TypeOK' /\ SessionsLeft' /\ BackedInv'
  BY TypeNext, SessionsNext, BackedNext
<1>3. BackedInv => SettingsBacked
  BY DEF BackedInv
<1> QED BY <1>1, <1>2, <1>3, PTL DEF Spec

\* What is redirected is in the state file until it is put back, for any number
\* of devices, sessions, lives and forced ends, while the responder, discoveries
\* and the redirect worker record, drop and redirect devices at the same time:
\* only a redirect that came late, and one whose restore failed, is in no list. A watchdog that fails writes
\* the list it has read over a newer one, hence the same hypothesis.
THEOREM RedirectsStayListed == SingleSessionOrNoMiss => (Spec => []RedirectedListed)
<1> SUFFICES ASSUME SingleSessionOrNoMiss PROVE Spec => []RedirectedListed
  OBVIOUS
<1>1. Init => TypeOK /\ SessionsLeft /\ BackedInv /\ ListedInv
  BY TypeInit, InvInit, ListedInit
<1>2. TypeOK /\ SessionsLeft /\ BackedInv /\ ListedInv /\ [Next]_vars
        => TypeOK' /\ SessionsLeft' /\ BackedInv' /\ ListedInv'
  BY TypeNext, SessionsNext, BackedNext, ListedNext
<1>3. ListedInv => RedirectedListed
  BY DEF ListedInv
<1> QED BY <1>1, <1>2, <1>3, PTL DEF Spec
=============================================================================
