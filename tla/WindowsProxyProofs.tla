------------------------- MODULE WindowsProxyProofs -------------------------
(***************************************************************************)
(* Theorems about WindowsProxy.  For any number of instances, engines,     *)
(* failures and damages of the restore file: type correctness, that the    *)
(* override in Windows is backed by a restore file until the one-time data *)
(* reset of a start moves that file away, and that nobody touches the file *)
(* of a live instance but its owner and such a reset.  For one instance at *)
(* a time with one proxy object: that the file has exactly the user's      *)
(* settings, and that the module implements ProxyVault, which may lose a   *)
(* snapshot to the reset only.                                             *)
(***************************************************************************)
EXTENDS WindowsProxy, FiniteSetTheorems, TLAPS

\* What may happen beside the one-time reset of a start, and its steps.
Plain ==
  \/ \E p \in Procs : Run(p) \/ Request(p) \/ Disturb(p)
  \/ \E s \in UserSettings : UserEdits(s)
  \/ FileCorrupted

PlainStep == (Plain /\ UNCHANGED reset) \/ UNCHANGED vars

Resets(p) == Reset(p) \/ ResetFails(p)

\* Nothing else happens.
LEMMA StepCases == [Next]_vars => PlainStep \/ \E p \in Procs : Resets(p)
  BY DEF Next, Step, PlainStep, Plain, Resets

\* Beside the reset nothing sets its two variables.
LEMMA PlainKeeps == PlainStep => UNCHANGED <<marker, orphaned>>
  BY DEF PlainStep, reset, vars

\* All that a step of the reset does: it moves one instance on, and it may take
\* the restore file.
LEMMA ResetFrame ==
  ASSUME VarsTyped, NEW p \in Procs, Resets(p)
  PROVE  /\ UNCHANGED <<reg, user, guard, session, pc, call, mem, tmp, snap>>
         /\ pc[p] = "idle" /\ life[p] \in Resetting \union {"mutex"}
         /\ \E l \in Resetting \union {"mutex", "boot2", "dead"} : life' = [life EXCEPT ![p] = l]
         /\ spent' \in [tok : Nat, fail : Nat, edit : Nat, corrupt : Nat] /\ spent'.tok = spent.tok
         /\ marker' \in BOOLEAN /\ orphaned' \in BOOLEAN /\ (orphaned => orphaned')
         /\ (file' = file /\ orphaned' = orphaned) \/ ResetMoves(p)
<1>1. CASE ResetChecks(p)
  BY <1>1 DEF ResetChecks, Advance, Resetting, reset, VarsTyped
<1>2. CASE ResetMoves(p)
  BY <1>2 DEF ResetMoves, Advance, Needed, Resetting, VarsTyped
<1>3. CASE ResetMarks(p)
  BY <1>3 DEF ResetMarks, Advance, Resetting, VarsTyped
<1>4. CASE EnterMutex(p)
  BY <1>4 DEF EnterMutex, Advance, Resetting, reset, VarsTyped
<1>5. CASE ResetFails(p)
  <2>1. spent' \in [tok : Nat, fail : Nat, edit : Nat, corrupt : Nat] /\ spent'.tok = spent.tok
    BY <1>5 DEF ResetFails, VarsTyped
  <2>2. UNCHANGED <<file, marker, orphaned>>
    BY <1>5 DEF ResetFails, reset
  <2>3. /\ life[p] \in Resetting
        /\ Advance(p, "marking") \/ Advance(p, "mutex")
    BY <1>5 DEF ResetFails, Resetting
  <2> QED BY <2>1, <2>2, <2>3 DEF Advance, Resetting, VarsTyped
<1> QED BY <1>1, <1>2, <1>3, <1>4, <1>5 DEF Resets, Reset

\* A reset moves a file that was needed, or one that has what Windows has.
LEMMA MovesFrame ==
  ASSUME NEW p \in Procs, ResetMoves(p), ~orphaned'
  PROVE  /\ file' = NoSnap /\ ~orphaned
         /\ file # NoSnap => reg = file.vals /\ \A q \in Procs : pc[q] \notin Writing
  BY DEF ResetMoves, Needed

(* A restore has a snapshot to restore, a write has a snapshot to undo it.  *)
HasSnap ==
  \A p \in Procs : /\ pc[p] \in Restoring => snap[p] # NoSnap
                   /\ pc[p] \in Writing => Previous(p) # NoSnap

Sound == Guarded /\ HasSnap

\* What holds while no reset took a needed file.
Backed == Guarded /\ Intact

\* The snapshots and the locals that the code works on have their types.
LEMMA LocalsTyped ==
  ASSUME VarsTyped, NEW p \in Procs
  PROVE  /\ Previous(p) \in Snaps \union {NoSnap}
         /\ OwnedPending(p) \in Snaps \union {NoSnap}
         /\ StateToRestore(p) \in Snaps \union {NoSnap}
  BY DEF VarsTyped, Previous, OwnedPending, StateToRestore

\* The ways a call ends leave the types as they are.
LEMMA FinishTyped ==
  ASSUME VarsTyped, NEW p \in Procs, NEW ok \in BOOLEAN, Finish(p, ok)
  PROVE  /\ guard' \in Procs \union {Free}
         /\ life' \in [Procs -> Lives]
         /\ session' \in [Procs -> {"none", "xray", "pow"}]
         /\ pc' \in [Procs -> PCs]
         /\ call' \in [Procs -> Calls]
         /\ tmp' \in [Procs -> Snaps \union {NoSnap}]
         /\ snap' \in [Procs -> Snaps \union {NoSnap}]
<1>1. AfterCall(p, ok) \in Lives
  BY DEF VarsTyped, AfterCall, Lives, Resetting
<1>2. SessionAfter(p, ok) \in {"none", "xray", "pow"}
  BY DEF VarsTyped, SessionAfter
<1>3. NoCall \in Calls
  BY DEF NoCall, Calls, Ops
<1> QED BY <1>1, <1>2, <1>3 DEF VarsTyped, Finish, Forget, PCs

\* The types hold at first.
LEMMA TypeInit == Init => VarsTyped
<1> SUFFICES ASSUME Init PROVE VarsTyped
  OBVIOUS
<1>1. UserSettings \subseteq Settings
  BY ConstAssumption DEF Settings, Texts
<1>2. AppOverride \in Settings
  BY DEF AppOverride, Settings, Switches, Texts, AppText
<1>3. NoCall \in Calls
  BY DEF NoCall, Calls, Ops
<1>4. marker \in BOOLEAN /\ orphaned \in BOOLEAN
  BY DEF Init
<1>5. /\ reg \in Settings /\ file \in Snaps \union {NoSnap} /\ user \in UserSettings
      /\ spent \in [tok : Nat, fail : Nat, edit : Nat, corrupt : Nat]
  BY <1>1, <1>2 DEF Init, Snaps
<1>6. /\ guard \in Procs \union {Free} /\ life \in [Procs -> Lives]
      /\ session \in [Procs -> {"none", "xray", "pow"}] /\ pc \in [Procs -> PCs]
      /\ call \in [Procs -> Calls] /\ mem \in [Procs -> Snaps \union {NoSnap}]
      /\ tmp \in [Procs -> Snaps \union {NoSnap}] /\ snap \in [Procs -> Snaps \union {NoSnap}]
  BY <1>3 DEF Init, Lives, PCs
<1> QED BY <1>4, <1>5, <1>6 DEF VarsTyped

\* Every step keeps the types; a restore needs its snapshot for that.
LEMMA TypePlain == VarsTyped /\ Sound /\ PlainStep => VarsTyped'
<1> SUFFICES ASSUME VarsTyped, Sound, PlainStep, UNCHANGED <<marker, orphaned>> PROVE VarsTyped'
  BY PlainKeeps
<1>st. CASE UNCHANGED vars
  BY <1>st DEF vars, VarsTyped, world
<1>us. ASSUME NEW s \in UserSettings, UserEdits(s) PROVE VarsTyped'
  BY <1>us, ConstAssumption DEF UserEdits, VarsTyped, Settings, Texts
<1>fc. CASE FileCorrupted
  <2>1. CorruptSnap \in Snaps
    BY DEF CorruptSnap, Snaps, Settings, Switches, Texts
  <2> QED BY <1>fc, <2>1 DEF FileCorrupted, VarsTyped
<1>1. ASSUME NEW p \in Procs, RecoverSkips(p) PROVE VarsTyped'
  <2>1. Finish(p, TRUE)
    BY <1>1 DEF RecoverSkips
  <2> QED BY <1>1, <2>1, FinishTyped DEF RecoverSkips, VarsTyped, world
<1>2. ASSUME NEW p \in Procs, GuardTimeout(p) PROVE VarsTyped'
  <2>1. Finish(p, FALSE)
    BY <1>2 DEF GuardTimeout
  <2> QED BY <1>2, <2>1, FinishTyped DEF GuardTimeout, VarsTyped, world
<1>3. ASSUME NEW p \in Procs, NothingToSuspend(p) PROVE VarsTyped'
  <2>1. Finish(p, TRUE)
    BY <1>3 DEF NothingToSuspend
  <2> QED BY <1>3, <2>1, FinishTyped DEF NothingToSuspend, VarsTyped, world
<1>4. ASSUME NEW p \in Procs, EnableRefused(p) PROVE VarsTyped'
  <2>1. Finish(p, FALSE)
    BY <1>4 DEF EnableRefused
  <2> QED BY <1>4, <2>1, FinishTyped DEF EnableRefused, VarsTyped, world
<1>5. ASSUME NEW p \in Procs, DisableSkips(p) PROVE VarsTyped'
  <2>1. Finish(p, TRUE)
    BY <1>5 DEF DisableSkips
  <2> QED BY <1>5, <2>1, FinishTyped DEF DisableSkips, VarsTyped, world
<1>6. ASSUME NEW p \in Procs, ExitStops(p) PROVE VarsTyped'
  BY <1>6 DEF ExitStops, Invoke, VarsTyped, world, Calls, Ops, PCs
<1>7. ASSUME NEW p \in Procs, EngineResume(p) PROVE VarsTyped'
  BY <1>7 DEF EngineResume, Invoke, VarsTyped, world, Calls, Ops, PCs
<1>8. ASSUME NEW p \in Procs, EngineSuspendForTun(p) PROVE VarsTyped'
  BY <1>8 DEF EngineSuspendForTun, Invoke, VarsTyped, world, Calls, Ops, PCs
<1>9. ASSUME NEW p \in Procs, EngineSuspend(p) PROVE VarsTyped'
  BY <1>9 DEF EngineSuspend, Invoke, VarsTyped, world, Calls, Ops, PCs
<1>10. ASSUME NEW p \in Procs, EngineStop(p) PROVE VarsTyped'
  BY <1>10 DEF EngineStop, Invoke, VarsTyped, world, Calls, Ops, PCs
<1>11. ASSUME NEW p \in Procs, PowResume(p) PROVE VarsTyped'
  BY <1>11 DEF PowResume, Invoke, VarsTyped, world, Calls, Ops, PCs
<1>12. ASSUME NEW p \in Procs, PowRestore(p) PROVE VarsTyped'
  BY <1>12 DEF PowRestore, Invoke, VarsTyped, world, Calls, Ops, PCs
<1>13. ASSUME NEW p \in Procs, RecoverLoads(p) PROVE VarsTyped'
  BY <1>13 DEF RecoverLoads, Invoke, VarsTyped, world, Calls, Ops, PCs, Recoverable
<1>14. ASSUME NEW p \in Procs, Start(p) PROVE VarsTyped'
  BY <1>14 DEF Start, VarsTyped, world, Lives
<1>15. ASSUME NEW p \in Procs, Quit(p) PROVE VarsTyped'
  BY <1>15 DEF Quit, VarsTyped, world, Lives
<1>16. ASSUME NEW p \in Procs, Acquire(p) PROVE VarsTyped'
  BY <1>16 DEF Acquire, VarsTyped, world, PCs
<1>17. ASSUME NEW p \in Procs, AdoptOwned(p) PROVE VarsTyped'
  BY <1>17, LocalsTyped DEF AdoptOwned, Remember, Goto, VarsTyped, world, PCs, Writing
<1>18. ASSUME NEW p \in Procs, EnableFresh(p) PROVE VarsTyped'
  BY <1>18 DEF EnableFresh, Continue, Goto, VarsTyped, world, PCs
<1>19. ASSUME NEW p \in Procs, EnableRecovers(p) PROVE VarsTyped'
  BY ZenonT(60), <1>19 DEF EnableRecovers, Goto, VarsTyped, world, PCs, Restoring, Calls
<1>20. ASSUME NEW p \in Procs, TakeSnapshot(p) PROVE VarsTyped'
  <2>1. [owner |-> p, tok |-> spent.tok + 1, vals |-> reg] \in Snaps
    BY DEF VarsTyped, Snaps
  <2>2. mem' \in [Procs -> Snaps \union {NoSnap}] /\ tmp' \in [Procs -> Snaps \union {NoSnap}]
    BY <1>20, <2>1 DEF TakeSnapshot, Remember, VarsTyped
  <2>3. call' \in [Procs -> Calls] /\ pc' \in [Procs -> PCs]
    BY ZenonT(60), <1>20 DEF TakeSnapshot, Goto, VarsTyped, PCs, Writing, Calls
  <2>4. spent' \in [tok : Nat, fail : Nat, edit : Nat, corrupt : Nat]
    BY <1>20 DEF TakeSnapshot, VarsTyped
  <2> QED BY <1>20, <2>1, <2>2, <2>3, <2>4 DEF TakeSnapshot, Goto, VarsTyped
<1>21. ASSUME NEW p \in Procs, WriteOff(p) PROVE VarsTyped'
  <2>1. CASE call[p].op = "suspend"
    <3>1. Finish(p, TRUE)
      BY <1>21, <2>1 DEF WriteOff
    <3> QED BY <1>21, <3>1, FinishTyped DEF WriteOff, VarsTyped, Settings, Switches
  <2>2. CASE call[p].op # "suspend"
    BY <1>21, <2>2
       DEF VarsTyped, Continue, Goto, PCs, Writing, Restoring, Settings, Switches, Texts, AppText,
           WriteOff
  <2> QED BY <2>1, <2>2
<1>22. ASSUME NEW p \in Procs, WriteServer(p) PROVE VarsTyped'
  BY <1>22
     DEF VarsTyped, Continue, Goto, PCs, Writing, Restoring, Settings, Switches, Texts, AppText,
         WriteServer
<1>23. ASSUME NEW p \in Procs, WriteOverride(p) PROVE VarsTyped'
  <2>1. CASE call[p].op # "resume"
    <3>1. Finish(p, TRUE)
      BY <1>23, <2>1 DEF WriteOverride
    <3> QED BY <1>23, <3>1, FinishTyped DEF WriteOverride, VarsTyped, Settings, Texts, AppText
  <2>2. CASE call[p].op = "resume"
    BY <1>23, <2>2
       DEF VarsTyped, Continue, Goto, PCs, Writing, Restoring, Settings, Switches, Texts, AppText,
           WriteOverride
  <2> QED BY <2>1, <2>2
<1>24. ASSUME NEW p \in Procs, WriteOn(p) PROVE VarsTyped'
  <2>1. Finish(p, TRUE)
    BY <1>24 DEF WriteOn
  <2> QED BY <1>24, <2>1, FinishTyped DEF WriteOn, VarsTyped, Settings, Switches
<1>25. ASSUME NEW p \in Procs, DisableBegins(p) PROVE VarsTyped'
  BY <1>25, LocalsTyped DEF DisableBegins, Goto, VarsTyped, world, PCs, Restoring
<1>26. ASSUME NEW p \in Procs, RestoreOff(p) PROVE VarsTyped'
  BY <1>26
     DEF VarsTyped, Continue, Goto, PCs, Writing, Restoring, Settings, Switches, Texts, AppText,
         RestoreOff
<1>27. ASSUME NEW p \in Procs, RestoreServer(p) PROVE VarsTyped'
  <2>1. snap[p] \in Snaps
    BY <1>27 DEF RestoreServer, Sound, HasSnap, VarsTyped, Restoring
  <2> QED
    BY <1>27, <2>1
       DEF VarsTyped, Continue, Goto, PCs, Writing, Restoring, Settings, Switches, Texts, AppText,
           RestoreServer, Given, Snaps
<1>28. ASSUME NEW p \in Procs, RestoreOverride(p) PROVE VarsTyped'
  <2>1. snap[p] \in Snaps
    BY <1>28 DEF RestoreOverride, Sound, HasSnap, VarsTyped, Restoring
  <2> QED
    BY <1>28, <2>1
       DEF VarsTyped, Continue, Goto, PCs, Writing, Restoring, Settings, Switches, Texts, AppText,
           RestoreOverride, Given, Snaps
<1>29. ASSUME NEW p \in Procs, RestoreEnable(p) PROVE VarsTyped'
  <2>1. snap[p] \in Snaps
    BY <1>29 DEF RestoreEnable, Sound, HasSnap, VarsTyped, Restoring
  <2> QED
    BY <1>29, <2>1
       DEF VarsTyped, Continue, Goto, PCs, Writing, Restoring, Settings, Switches, Texts, AppText,
           RestoreEnable, Snaps
<1>30. ASSUME NEW p \in Procs, Unlink(p) PROVE VarsTyped'
  <2>1. CASE call[p].then = "snapshot"
    <3>0. pc' \in [Procs -> PCs]
      BY <1>30, <2>1 DEF Unlink, Goto, VarsTyped, PCs
    <3>1. call' \in [Procs -> Calls]
      <4>1. [call[p] EXCEPT !.then = "return"] \in Calls
        BY DEF VarsTyped, Calls
      <4>2. call' = [call EXCEPT ![p] = [call[p] EXCEPT !.then = "return"]]
        BY <1>30, <2>1 DEF Unlink, VarsTyped
      <4> QED BY <4>1, <4>2 DEF VarsTyped
    <3>2. UNCHANGED <<reg, user, guard, life, session, spent>>
      BY <1>30, <2>1 DEF Unlink, Goto
    <3> QED BY <1>30, <2>1, <3>0, <3>1, <3>2 DEF Unlink, VarsTyped
  <2>2. CASE call[p].then # "snapshot"
    <3>1. (call[p].then = "return") \in BOOLEAN
      OBVIOUS
    <3>2. Finish(p, call[p].then = "return")
      BY <1>30, <2>2 DEF Unlink
    <3> QED BY <1>30, <3>1, <3>2, FinishTyped DEF Unlink, VarsTyped
  <2> QED BY <2>1, <2>2
<1>31. ASSUME NEW p \in Procs, FailsPlain(p) PROVE VarsTyped'
  <2>1. Finish(p, FALSE)
    BY <1>31 DEF FailsPlain
  <2>2. spent' \in [tok : Nat, fail : Nat, edit : Nat, corrupt : Nat]
    BY <1>31 DEF FailsPlain, VarsTyped
  <2> QED BY <1>31, <2>1, <2>2, FinishTyped DEF FailsPlain, VarsTyped, world
<1>32. ASSUME NEW p \in Procs, FailsAndRollsBack(p) PROVE VarsTyped'
  <2>1. spent' \in [tok : Nat, fail : Nat, edit : Nat, corrupt : Nat]
    BY <1>32 DEF FailsAndRollsBack, VarsTyped
  <2>2. snap' \in [Procs -> Snaps \union {NoSnap}]
    <3>1. StateToRestore(p) \in Snaps \union {NoSnap}
      BY <1>32, LocalsTyped
    <3> QED BY <1>32, <3>1 DEF FailsAndRollsBack, VarsTyped
  <2>3. call' \in [Procs -> Calls]
    BY <1>32 DEF FailsAndRollsBack, VarsTyped, Calls
  <2>4. pc' \in [Procs -> PCs]
    BY <1>32 DEF FailsAndRollsBack, Goto, VarsTyped, PCs, Restoring
  <2> QED BY <1>32, <2>1, <2>2, <2>3, <2>4 DEF FailsAndRollsBack, Goto, VarsTyped, world
<1>33. ASSUME NEW p \in Procs, Crash(p) PROVE VarsTyped'
  BY <1>33 DEF Crash, Forget, VarsTyped, world, PCs, Lives, NoCall, Calls, Ops
<1> QED
  BY <1>st, <1>us, <1>fc, <1>1, <1>2, <1>3, <1>4, <1>5, <1>6, <1>7, <1>8, <1>9, <1>10, <1>11,
     <1>12, <1>13, <1>14, <1>15, <1>16, <1>17, <1>18, <1>19, <1>20, <1>21, <1>22, <1>23, <1>24,
     <1>25, <1>26, <1>27, <1>28, <1>29, <1>30, <1>31, <1>32, <1>33
     DEF PlainStep, Plain, Run, Request, Disturb

\* So does a step of the reset.
LEMMA TypeNext == VarsTyped /\ Sound /\ [Next]_vars => VarsTyped'
<1> SUFFICES ASSUME VarsTyped, Sound, NEW p \in Procs, Resets(p) PROVE VarsTyped'
  BY StepCases, TypePlain
<1>1. PICK l \in Lives : life' = [life EXCEPT ![p] = l]
  BY ResetFrame DEF Lives
<1>2. file' \in {file, NoSnap}
  BY ResetFrame DEF ResetMoves
<1> QED BY <1>1, <1>2, ResetFrame DEF VarsTyped

-----------------------------------------------------------------------------
\* What the code works on is as safe as what is stored.
LEMMA LocalsSafe ==
  ASSUME VarsTyped, Backed, NEW p \in Procs
  PROVE  /\ Previous(p) # NoSnap => SafeSnap(Previous(p))
         /\ OwnedPending(p) # NoSnap => SafeSnap(OwnedPending(p))
         /\ StateToRestore(p) # NoSnap => SafeSnap(StateToRestore(p))
  BY DEF Backed, Intact, SafeSnaps, Previous, OwnedPending, StateToRestore

\* A damaged file reads as a snapshot.
LEMMA CorruptIsSnap == CorruptSnap \in Snaps /\ CorruptSnap # NoSnap
<1>1. CorruptSnap \in Snaps
  BY DEF CorruptSnap, Snaps, Settings, Switches, Texts
<1> QED BY <1>1, NoSnapAssumption

\* The guard has one holder and a restore a snapshot, whatever the reset took.
LEMMA SoundInit == Init => Sound
  BY DEF Init, Sound, Guarded, HasSnap, Writing, Restoring

\* A step that leaves the others alone, and where p ends with what it needs.
LEMMA SoundFrame ==
  ASSUME Sound, NEW p \in Procs, VarsTyped,
         \A q \in Procs \ {p} : /\ pc'[q] = pc[q] /\ call'[q] = call[q] /\ snap'[q] = snap[q]
                                /\ mem'[q] = mem[q] /\ tmp'[q] = tmp[q]
                                /\ guard = q => guard' = q,
         pc'[p] \notin {"idle", "lock"} => guard' = p,
         pc'[p] \in Restoring => snap'[p] # NoSnap,
         pc'[p] \in Writing => Previous(p)' # NoSnap
  PROVE  Sound'
  BY DEF Sound, Guarded, HasSnap, Previous, Engines

\* Every step beside the reset keeps Sound.
LEMMA SoundPlain == VarsTyped /\ Sound /\ PlainStep => Sound'
<1> SUFFICES ASSUME VarsTyped, Sound, PlainStep PROVE Sound'
  OBVIOUS
<1>st. CASE UNCHANGED vars
  BY <1>st DEF vars, Sound, Guarded, HasSnap, Previous, Engines
<1>us. ASSUME NEW s \in UserSettings, UserEdits(s) PROVE Sound'
  BY <1>us DEF UserEdits, Sound, Guarded, HasSnap, Previous, Engines
<1>fc. CASE FileCorrupted
  BY <1>fc DEF FileCorrupted, Sound, Guarded, HasSnap, Previous, Engines
<1>1. ASSUME NEW p \in Procs, RecoverSkips(p) PROVE Sound'
  BY <1>1
     DEF RecoverSkips, Finish, Forget, Sound, Guarded, HasSnap, Previous, Engines, VarsTyped,
         world, Writing, Restoring
<1>2. ASSUME NEW p \in Procs, GuardTimeout(p) PROVE Sound'
  BY <1>2
     DEF GuardTimeout, Finish, Forget, Sound, Guarded, HasSnap, Previous, Engines, VarsTyped,
         world, Writing, Restoring
<1>3. ASSUME NEW p \in Procs, NothingToSuspend(p) PROVE Sound'
  BY <1>3
     DEF NothingToSuspend, Finish, Forget, Sound, Guarded, HasSnap, Previous, Engines,
         VarsTyped, world, Writing, Restoring
<1>4. ASSUME NEW p \in Procs, EnableRefused(p) PROVE Sound'
  BY <1>4
     DEF EnableRefused, Finish, Forget, Sound, Guarded, HasSnap, Previous, Engines, VarsTyped,
         world, Writing, Restoring
<1>5. ASSUME NEW p \in Procs, DisableSkips(p) PROVE Sound'
  BY <1>5
     DEF DisableSkips, Finish, Forget, Sound, Guarded, HasSnap, Previous, Engines, VarsTyped,
         world, Writing, Restoring
<1>6. ASSUME NEW p \in Procs, FailsPlain(p) PROVE Sound'
  BY <1>6
     DEF FailsPlain, Finish, Forget, Sound, Guarded, HasSnap, Previous, Engines, VarsTyped,
         world, Writing, Restoring
<1>7. ASSUME NEW p \in Procs, Crash(p) PROVE Sound'
  BY <1>7
     DEF Crash, Forget, Sound, Guarded, HasSnap, Previous, Engines, VarsTyped, world, Writing,
         Restoring
<1>8. ASSUME NEW p \in Procs, ExitStops(p) PROVE Sound'
  BY <1>8
     DEF ExitStops, Invoke, Sound, Guarded, HasSnap, Previous, Engines, VarsTyped, world,
         Writing, Restoring
<1>9. ASSUME NEW p \in Procs, EngineResume(p) PROVE Sound'
  BY <1>9
     DEF EngineResume, Invoke, Sound, Guarded, HasSnap, Previous, Engines, VarsTyped, world,
         Writing, Restoring
<1>10. ASSUME NEW p \in Procs, EngineSuspendForTun(p) PROVE Sound'
  BY <1>10
     DEF EngineSuspendForTun, Invoke, Sound, Guarded, HasSnap, Previous, Engines, VarsTyped,
         world, Writing, Restoring
<1>11. ASSUME NEW p \in Procs, EngineSuspend(p) PROVE Sound'
  BY <1>11
     DEF EngineSuspend, Invoke, Sound, Guarded, HasSnap, Previous, Engines, VarsTyped, world,
         Writing, Restoring
<1>12. ASSUME NEW p \in Procs, EngineStop(p) PROVE Sound'
  BY <1>12
     DEF EngineStop, Invoke, Sound, Guarded, HasSnap, Previous, Engines, VarsTyped, world,
         Writing, Restoring
<1>13. ASSUME NEW p \in Procs, PowResume(p) PROVE Sound'
  BY <1>13
     DEF PowResume, Invoke, Sound, Guarded, HasSnap, Previous, Engines, VarsTyped, world,
         Writing, Restoring
<1>14. ASSUME NEW p \in Procs, PowRestore(p) PROVE Sound'
  BY <1>14
     DEF PowRestore, Invoke, Sound, Guarded, HasSnap, Previous, Engines, VarsTyped, world,
         Writing, Restoring
<1>15. ASSUME NEW p \in Procs, RecoverLoads(p) PROVE Sound'
  BY <1>15
     DEF RecoverLoads, Invoke, Sound, Guarded, HasSnap, Previous, Engines, VarsTyped, world,
         Writing, Restoring
<1>16. ASSUME NEW p \in Procs, Start(p) PROVE Sound'
  BY <1>16
     DEF Start, Sound, Guarded, HasSnap, Previous, Engines, VarsTyped, world, Writing,
         Restoring
<1>17. ASSUME NEW p \in Procs, Quit(p) PROVE Sound'
  BY <1>17
     DEF Quit, Sound, Guarded, HasSnap, Previous, Engines, VarsTyped, world, Writing,
         Restoring
<1>18. ASSUME NEW p \in Procs, Acquire(p) PROVE Sound'
  BY <1>18, ConstAssumption
     DEF Acquire, Sound, Guarded, HasSnap, Previous, Engines, VarsTyped, world, Writing,
         Restoring
<1>19. ASSUME NEW p \in Procs, EnableFresh(p) PROVE Sound'
  BY <1>19
     DEF EnableFresh, Enabling, Continue, Goto, Sound, Guarded, HasSnap, Previous, Engines,
         VarsTyped, world, Writing, Restoring
<1>20. ASSUME NEW p \in Procs, EnableRecovers(p) PROVE Sound'
  BY <1>20
     DEF EnableRecovers, Enabling, Goto, Sound, Guarded, HasSnap, Previous, Engines,
         VarsTyped, world, Writing, Restoring
<1>21. ASSUME NEW p \in Procs, WriteServer(p) PROVE Sound'
  BY <1>21
     DEF WriteServer, Continue, Goto, Sound, Guarded, HasSnap, Previous, Engines, VarsTyped,
         world, Writing, Restoring
<1>22. ASSUME NEW p \in Procs, WriteOn(p) PROVE Sound'
  BY <1>22
     DEF WriteOn, Finish, Forget, Sound, Guarded, HasSnap, Previous, Engines, VarsTyped,
         world, Writing, Restoring
<1>23. ASSUME NEW p \in Procs, DisableBegins(p) PROVE Sound'
  BY <1>23
     DEF DisableBegins, Disabling, Goto, Sound, Guarded, HasSnap, Previous, Engines,
         VarsTyped, world, Writing, Restoring
<1>24. ASSUME NEW p \in Procs, RestoreOff(p) PROVE Sound'
  BY <1>24
     DEF RestoreOff, Continue, Goto, Sound, Guarded, HasSnap, Previous, Engines, VarsTyped,
         world, Writing, Restoring
<1>25. ASSUME NEW p \in Procs, RestoreServer(p) PROVE Sound'
  BY <1>25
     DEF RestoreServer, Continue, Goto, Sound, Guarded, HasSnap, Previous, Engines, VarsTyped,
         world, Writing, Restoring
<1>26. ASSUME NEW p \in Procs, RestoreOverride(p) PROVE Sound'
  BY <1>26
     DEF RestoreOverride, Continue, Goto, Sound, Guarded, HasSnap, Previous, Engines,
         VarsTyped, world, Writing, Restoring
<1>27. ASSUME NEW p \in Procs, RestoreEnable(p) PROVE Sound'
  BY <1>27
     DEF RestoreEnable, Continue, Goto, Sound, Guarded, HasSnap, Previous, Engines, VarsTyped,
         world, Writing, Restoring
<1>28. ASSUME NEW p \in Procs, AdoptOwned(p) PROVE Sound'
  <2>1. Previous(p)' # NoSnap
    BY <1>28 DEF AdoptOwned, Remember, Goto, Previous, Engines, VarsTyped, world
  <2> QED
    BY <1>28, <2>1, SoundFrame
       DEF AdoptOwned, Remember, Goto, Sound, Guarded, VarsTyped, world, Writing, Restoring
<1>29. ASSUME NEW p \in Procs, TakeSnapshot(p) PROVE Sound'
  <2>s. [owner |-> p, tok |-> spent.tok + 1, vals |-> reg] \in Snaps
    BY DEF VarsTyped, Snaps
  <2>t. PICK s \in Snaps : s = [owner |-> p, tok |-> spent.tok + 1, vals |-> reg]
    BY <2>s
  <2>1. /\ pc[p] = "snapshot" /\ pc' = [pc EXCEPT ![p] = "w_off"] /\ Remember(p, s)
        /\ call' = [call EXCEPT ![p].fresh = TRUE] /\ UNCHANGED <<guard, snap>>
    BY <1>29, <2>t DEF TakeSnapshot, Goto
  <2>2. call'[p].obj = call[p].obj /\ call'[p].then = call[p].then
    BY <2>1 DEF VarsTyped, Calls
  <2>3. Previous(p)' # NoSnap
    BY <2>1, <2>2, NoSnapAssumption DEF Remember, Previous, Engines, VarsTyped
  <2> QED
    BY <2>1, <2>3, SoundFrame DEF Remember, Sound, Guarded, VarsTyped, Writing, Restoring
<1>30. ASSUME NEW p \in Procs, WriteOff(p) PROVE Sound'
  <2>1. CASE call[p].op = "suspend"
    BY <1>30, <2>1, SoundFrame
       DEF WriteOff, Finish, Forget, Sound, Guarded, VarsTyped, Writing, Restoring
  <2>2. CASE call[p].op # "suspend"
    BY <1>30, <2>2
       DEF WriteOff, Continue, Goto, Sound, Guarded, HasSnap, Previous, Engines, VarsTyped,
           Writing, Restoring
  <2> QED BY <2>1, <2>2
<1>31. ASSUME NEW p \in Procs, WriteOverride(p) PROVE Sound'
  <2>1. CASE call[p].op # "resume"
    BY <1>31, <2>1, SoundFrame
       DEF WriteOverride, Finish, Forget, Sound, Guarded, VarsTyped, Writing, Restoring
  <2>2. CASE call[p].op = "resume"
    BY <1>31, <2>2
       DEF WriteOverride, Continue, Goto, Sound, Guarded, HasSnap, Previous, Engines, VarsTyped,
           Writing, Restoring
  <2> QED BY <2>1, <2>2
<1>32. ASSUME NEW p \in Procs, Unlink(p) PROVE Sound'
  <2>1. CASE call[p].then = "snapshot"
    BY <1>32, <2>1, SoundFrame
       DEF Unlink, Goto, Sound, Guarded, VarsTyped, Writing, Restoring
  <2>2. CASE call[p].then # "snapshot"
    BY <1>32, <2>2, SoundFrame
       DEF Unlink, Finish, Forget, Sound, Guarded, VarsTyped, Writing, Restoring
  <2> QED BY <2>1, <2>2
<1>33. ASSUME NEW p \in Procs, FailsAndRollsBack(p) PROVE Sound'
  <2>1. StateToRestore(p) # NoSnap
    BY <1>33 DEF FailsAndRollsBack, StateToRestore, MemoryExact, Sound, HasSnap
  <2> QED
    BY <1>33, <2>1, SoundFrame
       DEF FailsAndRollsBack, Goto, Sound, Guarded, VarsTyped, world, Writing, Restoring
<1> QED
  BY <1>st, <1>us, <1>fc, <1>1, <1>2, <1>3, <1>4, <1>5, <1>6, <1>7, <1>8, <1>9, <1>10, <1>11,
     <1>12, <1>13, <1>14, <1>15, <1>16, <1>17, <1>18, <1>19, <1>20, <1>21, <1>22, <1>23, <1>24,
     <1>25, <1>26, <1>27, <1>28, <1>29, <1>30, <1>31, <1>32, <1>33
     DEF PlainStep, Plain, Run, Request, Disturb

\* So does a step of the reset.
LEMMA SoundNext == VarsTyped /\ Sound /\ [Next]_vars => Sound'
<1>1. ASSUME VarsTyped, Sound, NEW p \in Procs, Resets(p) PROVE Sound'
  <2>1. UNCHANGED <<guard, pc, call, mem, tmp, snap>>
    BY <1>1, ResetFrame
  <2> QED BY <1>1, <2>1 DEF Sound, Guarded, HasSnap, Previous, Engines
<1> QED BY <1>1, StepCases, SoundPlain

\* The invariant of OverrideBacked holds at first.
LEMMA BackedInit == Init => Backed
<1> SUFFICES ASSUME Init PROVE Backed
  OBVIOUS
<1>1. ~AppOn(user) /\ user.ProxyServer # "missing"
  BY ConstAssumption DEF Init, AppOn, AppText
<1>2. NoSnap # [owner |-> NoOwner, tok |-> 0, vals |-> user]
  <2>1. user \in Settings
    BY ConstAssumption DEF Init, Settings, Texts
  <2> QED BY <2>1, NoSnapAssumption DEF Snaps
<1> QED BY <1>1, <1>2 DEF Init, Backed, Guarded, SafeSnaps, SafeSnap, RestoreProgress,
       Intact, AppOverride, AppText, Writing, Restoring

\* Every step keeps it.
LEMMA BackedNext == VarsTyped /\ Backed /\ PlainStep => Backed'
<1> SUFFICES ASSUME VarsTyped, Backed, PlainStep PROVE Backed'
  OBVIOUS
<1> USE DEF AppOn, SafeSnap
<1>st. CASE UNCHANGED vars
  BY <1>st DEF vars, world, Backed, Guarded, SafeSnaps, RestoreProgress, Intact
<1>us. ASSUME NEW s \in UserSettings, UserEdits(s) PROVE Backed'
  <2>1. \A q \in Procs : pc[q] \in {"idle", "lock"}
    BY <1>us, ConstAssumption DEF UserEdits, Backed, Intact, Guarded
  <2>2. s.ProxyServer # AppText /\ s.ProxyServer # "missing"
    BY ConstAssumption DEF AppText
  <2> QED BY <1>us, <2>1, <2>2 DEF UserEdits, Backed, Guarded, SafeSnaps, RestoreProgress,
         Intact, Writing, Restoring
<1>fc. CASE FileCorrupted
  <2>1. SafeSnap(CorruptSnap)
    BY DEF CorruptSnap
  <2> QED
    BY <1>fc, <2>1, CorruptIsSnap
       DEF FileCorrupted, Backed, Guarded, SafeSnaps, RestoreProgress,
         Intact
<1>1. ASSUME NEW p \in Procs, RecoverSkips(p) PROVE Backed'
  BY <1>1
     DEF RecoverSkips, Finish, Forget, Backed, Guarded, SafeSnaps, RestoreProgress,
         Intact, VarsTyped, world, Writing, Restoring
<1>2. ASSUME NEW p \in Procs, GuardTimeout(p) PROVE Backed'
  BY <1>2
     DEF GuardTimeout, Finish, Forget, Backed, Guarded, SafeSnaps, RestoreProgress,
         Intact, VarsTyped, world, Writing, Restoring
<1>3. ASSUME NEW p \in Procs, NothingToSuspend(p) PROVE Backed'
  BY <1>3
     DEF NothingToSuspend, Finish, Forget, Backed, Guarded, SafeSnaps, RestoreProgress,
         Intact, VarsTyped, world, Writing, Restoring
<1>4. ASSUME NEW p \in Procs, EnableRefused(p) PROVE Backed'
  BY <1>4
     DEF EnableRefused, Finish, Forget, Backed, Guarded, SafeSnaps, RestoreProgress,
         Intact, VarsTyped, world, Writing, Restoring
<1>5. ASSUME NEW p \in Procs, DisableSkips(p) PROVE Backed'
  BY <1>5
     DEF DisableSkips, Finish, Forget, Backed, Guarded, SafeSnaps, RestoreProgress,
         Intact, VarsTyped, world, Writing, Restoring
<1>6. ASSUME NEW p \in Procs, FailsPlain(p) PROVE Backed'
  BY <1>6
     DEF FailsPlain, Finish, Forget, Backed, Guarded, SafeSnaps, RestoreProgress,
         Intact, VarsTyped, world, Writing, Restoring
<1>7. ASSUME NEW p \in Procs, Crash(p) PROVE Backed'
  BY <1>7
     DEF Crash, Forget, Backed, Guarded, SafeSnaps, RestoreProgress, Intact,
         VarsTyped,
         world, Writing, Restoring
<1>8. ASSUME NEW p \in Procs, ExitStops(p) PROVE Backed'
  BY <1>8
     DEF ExitStops, Invoke, Backed, Guarded, SafeSnaps, RestoreProgress, Intact,
         VarsTyped, world, Writing, Restoring
<1>9. ASSUME NEW p \in Procs, EngineResume(p) PROVE Backed'
  BY <1>9
     DEF EngineResume, Invoke, Backed, Guarded, SafeSnaps, RestoreProgress, Intact,
         VarsTyped, world, Writing, Restoring
<1>10. ASSUME NEW p \in Procs, EngineSuspendForTun(p) PROVE Backed'
  BY <1>10
     DEF EngineSuspendForTun, Invoke, Backed, Guarded, SafeSnaps, RestoreProgress,
         Intact, VarsTyped, world, Writing, Restoring
<1>11. ASSUME NEW p \in Procs, EngineSuspend(p) PROVE Backed'
  BY <1>11
     DEF EngineSuspend, Invoke, Backed, Guarded, SafeSnaps, RestoreProgress, Intact,
         VarsTyped, world, Writing, Restoring
<1>12. ASSUME NEW p \in Procs, EngineStop(p) PROVE Backed'
  BY <1>12
     DEF EngineStop, Invoke, Backed, Guarded, SafeSnaps, RestoreProgress, Intact,
         VarsTyped, world, Writing, Restoring
<1>13. ASSUME NEW p \in Procs, PowResume(p) PROVE Backed'
  BY <1>13
     DEF PowResume, Invoke, Backed, Guarded, SafeSnaps, RestoreProgress, Intact,
         VarsTyped, world, Writing, Restoring
<1>14. ASSUME NEW p \in Procs, PowRestore(p) PROVE Backed'
  BY <1>14
     DEF PowRestore, Invoke, Backed, Guarded, SafeSnaps, RestoreProgress, Intact,
         VarsTyped, world, Writing, Restoring
<1>15. ASSUME NEW p \in Procs, RecoverLoads(p) PROVE Backed'
  BY <1>15
     DEF RecoverLoads, Recoverable, Invoke, Backed, Guarded, SafeSnaps, RestoreProgress,
         Intact, VarsTyped, world, Writing, Restoring
<1>16. ASSUME NEW p \in Procs, Start(p) PROVE Backed'
  BY <1>16, ConstAssumption
     DEF Start, Backed, Guarded, SafeSnaps, RestoreProgress, Intact, VarsTyped, world,
         Writing, Restoring
<1>17. ASSUME NEW p \in Procs, Quit(p) PROVE Backed'
  BY <1>17, ConstAssumption
     DEF Quit, Backed, Guarded, SafeSnaps, RestoreProgress, Intact, VarsTyped, world,
         Writing, Restoring
<1>18. ASSUME NEW p \in Procs, Acquire(p) PROVE Backed'
  BY <1>18, ConstAssumption
     DEF Acquire, Backed, Guarded, SafeSnaps, RestoreProgress, Intact, VarsTyped,
         world, Writing, Restoring
<1>19. ASSUME NEW p \in Procs, AdoptOwned(p) PROVE Backed'
  <2>1. file # NoSnap
    BY <1>19, CorruptIsSnap DEF AdoptOwned, OwnedPending
  <2> QED
    BY <1>19, <2>1, LocalsSafe
       DEF AdoptOwned, Remember, Goto, Backed, Guarded, SafeSnaps, RestoreProgress,
           Intact, VarsTyped, world, Writing, Restoring
<1>20. ASSUME NEW p \in Procs, EnableFresh(p) PROVE Backed'
  BY <1>20
     DEF EnableFresh, Enabling, Continue, Goto, Backed, Guarded, SafeSnaps, RestoreProgress,
         Intact, VarsTyped, world, Writing, Restoring
<1>21. ASSUME NEW p \in Procs, EnableRecovers(p) PROVE Backed'
  BY <1>21
     DEF EnableRecovers, Enabling, Goto, Backed, Guarded, SafeSnaps, RestoreProgress,
         Intact, VarsTyped, world, Writing, Restoring
<1>22. ASSUME NEW p \in Procs, TakeSnapshot(p) PROVE Backed'
  <2> DEFINE s == [owner |-> p, tok |-> spent.tok + 1, vals |-> reg]
  <2>1. s \in Snaps /\ s # NoSnap
    BY NoSnapAssumption DEF VarsTyped, Snaps
  <2>2. SafeSnap(s)
    BY <1>22 DEF TakeSnapshot, Backed, Intact, RestoreProgress
  <2> QED
    BY <1>22, <2>1, <2>2
       DEF TakeSnapshot, Remember, Goto, Backed, Guarded, SafeSnaps, RestoreProgress,
           Intact, VarsTyped, world, Writing, Restoring
<1>23. ASSUME NEW p \in Procs, WriteOff(p) PROVE Backed'
  <2>1. CASE call[p].op = "suspend"
    BY <1>23, <2>1
       DEF WriteOff, Finish, Forget, Backed, Guarded, SafeSnaps, RestoreProgress,
           Intact, VarsTyped, world, Writing, Restoring
  <2>2. CASE call[p].op # "suspend"
    BY <1>23, <2>2
       DEF WriteOff, Continue, Goto, Backed, Guarded, SafeSnaps, RestoreProgress,
           Intact, VarsTyped, world, Writing, Restoring
  <2> QED BY <2>1, <2>2
<1>24. ASSUME NEW p \in Procs, WriteOverride(p) PROVE Backed'
  <2>1. CASE call[p].op # "resume"
    BY <1>24, <2>1
       DEF WriteOverride, Finish, Forget, Backed, Guarded, SafeSnaps, RestoreProgress,
           Intact, VarsTyped, world, Writing, Restoring
  <2>2. CASE call[p].op = "resume"
    BY <1>24, <2>2
       DEF WriteOverride, Continue, Goto, Backed, Guarded, SafeSnaps, RestoreProgress,
           Intact, VarsTyped, world, Writing, Restoring
  <2> QED BY <2>1, <2>2
<1>25. ASSUME NEW p \in Procs, WriteServer(p) PROVE Backed'
  BY <1>25
     DEF WriteServer, Continue, Goto, AppText, Backed, Guarded, SafeSnaps, RestoreProgress,
         Intact, VarsTyped, world, Writing, Restoring
<1>26. ASSUME NEW p \in Procs, WriteOn(p) PROVE Backed'
  BY <1>26
     DEF WriteOn, Finish, Forget, Backed, Guarded, SafeSnaps, RestoreProgress, Intact,
         VarsTyped, world, Writing, Restoring
<1>27. ASSUME NEW p \in Procs, DisableBegins(p) PROVE Backed'
  BY <1>27, LocalsSafe
     DEF DisableBegins, Disabling, Goto, Backed, Guarded, SafeSnaps, RestoreProgress,
         Intact, VarsTyped, world, Writing, Restoring
<1>28. ASSUME NEW p \in Procs, RestoreOff(p) PROVE Backed'
  BY <1>28
     DEF RestoreOff, Continue, Goto, Given, Backed, Guarded, SafeSnaps, RestoreProgress,
         Intact, VarsTyped, world, Writing, Restoring
<1>29. ASSUME NEW p \in Procs, RestoreServer(p) PROVE Backed'
  BY <1>29
     DEF RestoreServer, Continue, Goto, Given, Backed, Guarded, SafeSnaps, RestoreProgress,
         Intact, VarsTyped, world, Writing, Restoring
<1>30. ASSUME NEW p \in Procs, RestoreOverride(p) PROVE Backed'
  BY <1>30
     DEF RestoreOverride, Continue, Goto, Given, Backed, Guarded, SafeSnaps, RestoreProgress,
         Intact, VarsTyped, world, Writing, Restoring
<1>31. ASSUME NEW p \in Procs, RestoreEnable(p) PROVE Backed'
  BY <1>31
     DEF RestoreEnable, Continue, Goto, Given, Backed, Guarded, SafeSnaps, RestoreProgress,
         Intact, VarsTyped, world, Writing, Restoring
<1>32. ASSUME NEW p \in Procs, Unlink(p) PROVE Backed'
  <2>1. ~AppOn(reg)
    BY <1>32 DEF Unlink, Backed, Intact, RestoreProgress
  <2>2. CASE call[p].then = "snapshot"
    <3>1. /\ pc' = [pc EXCEPT ![p] = "snapshot"] /\ UNCHANGED <<reg, guard, mem>>
          /\ tmp' = [tmp EXCEPT ![p] = NoSnap] /\ snap' = [snap EXCEPT ![p] = NoSnap]
      BY <1>32, <2>2 DEF Unlink, Goto, Engines
    <3>2. guard = p /\ file' \in {file, NoSnap}
      BY <1>32 DEF Unlink, Backed, Intact, Guarded
    <3> QED
      BY <3>1, <3>2, <2>1
         DEF Backed, Guarded, SafeSnaps, RestoreProgress, Intact, VarsTyped, world,
             Writing, Restoring
  <2>3. CASE call[p].then # "snapshot"
    <3>1. /\ pc' = [pc EXCEPT ![p] = "idle"] /\ UNCHANGED reg
          /\ tmp' = [tmp EXCEPT ![p] = NoSnap] /\ snap' = [snap EXCEPT ![p] = NoSnap]
          /\ mem' \in {mem, [mem EXCEPT ![p] = NoSnap]}
      BY <1>32, <2>3 DEF Unlink, Finish, Forget
    <3>2. guard = p /\ file' \in {file, NoSnap}
      BY <1>32 DEF Unlink, Backed, Intact, Guarded
    <3> QED
      BY <3>1, <3>2, <2>1
         DEF Backed, Guarded, SafeSnaps, RestoreProgress, Intact, VarsTyped, world,
             Writing, Restoring
  <2> QED BY <2>2, <2>3
<1>33. ASSUME NEW p \in Procs, FailsAndRollsBack(p) PROVE Backed'
  <2>1. StateToRestore(p) # NoSnap
    BY <1>33 DEF FailsAndRollsBack, StateToRestore, MemoryExact, Backed, Intact
  <2> QED
    BY <1>33, <2>1, LocalsSafe
       DEF FailsAndRollsBack, Goto, Backed, Guarded, SafeSnaps, RestoreProgress,
           Intact, VarsTyped, world, Writing, Restoring
<1> QED
  BY <1>st, <1>us, <1>fc, <1>1, <1>2, <1>3, <1>4, <1>5, <1>6, <1>7, <1>8, <1>9, <1>10, <1>11,
     <1>12, <1>13, <1>14, <1>15, <1>16, <1>17, <1>18, <1>19, <1>20, <1>21, <1>22, <1>23, <1>24,
     <1>25, <1>26, <1>27, <1>28, <1>29, <1>30, <1>31, <1>32, <1>33
     DEF PlainStep, Plain, Run, Request, Disturb

\* While no needed file was taken, the reset makes nothing unsafe.
LEMMA RestoreNext == VarsTyped /\ Sound /\ RestoreInv /\ [Next]_vars => RestoreInv'
<1> SUFFICES ASSUME VarsTyped, Sound, RestoreInv, [Next]_vars PROVE RestoreInv'
  OBVIOUS
<1>g. Guarded'
  BY SoundNext DEF Sound
<1>1. ASSUME PlainStep, ~orphaned' PROVE Intact'
  <2>1. orphaned' = orphaned
    BY <1>1, PlainKeeps
  <2> QED BY <1>1, <2>1, BackedNext DEF RestoreInv, Backed
<1>2. ASSUME NEW p \in Procs, Resets(p), ~orphaned' PROVE Intact'
  <2>1. Intact /\ UNCHANGED <<reg, pc, mem, tmp, snap>>
    BY <1>2, ResetFrame DEF RestoreInv, VarsTyped
  <2>2. CASE file' = file
    BY <2>1, <2>2 DEF Intact, SafeSnaps, RestoreProgress
  <2>3. CASE file' # file
    <3>1. ResetMoves(p)
      BY <1>2, <2>3, ResetFrame
    <3>2. file' = NoSnap /\ file # NoSnap /\ reg = file.vals /\ \A q \in Procs : pc[q] \notin Writing
      BY <1>2, <2>3, <3>1, MovesFrame
    <3>3. ~AppOn(reg)
      BY <2>1, <3>2 DEF Intact, SafeSnaps, SafeSnap
    <3> QED BY <2>1, <3>2, <3>3 DEF Intact, SafeSnaps, RestoreProgress
  <2> QED BY <2>2, <2>3
<1> QED BY <1>g, <1>1, <1>2, StepCases DEF RestoreInv

\* The three together are inductive.
LEMMA RestoreInvariant == Spec => [](VarsTyped /\ Sound /\ RestoreInv)
<1>1. Init => VarsTyped /\ Sound /\ RestoreInv
  BY TypeInit, SoundInit, BackedInit DEF Backed, RestoreInv
<1>2. VarsTyped /\ Sound /\ RestoreInv /\ [Next]_vars => VarsTyped' /\ Sound' /\ RestoreInv'
  BY TypeNext, SoundNext, RestoreNext
<1> QED BY <1>1, <1>2, PTL DEF Spec

(* The variables keep their types; in particular a restore always has a     *)
(* snapshot to restore, also after the reset took the restore file.         *)
THEOREM TypeCorrect == Spec => []TypeOK
<1>1. VarsTyped /\ Sound => TypeOK
  BY DEF TypeOK, Sound, HasSnap
<1> QED BY RestoreInvariant, <1>1, PTL

(* Whenever Windows is told to use this app's local proxy, a restore file   *)
(* exists from which the next start gives the user's settings back, unless  *)
(* the reset of a start moved it away while it was needed.                  *)
THEOREM OverrideIsBacked == Spec => []OverrideBacked
<1>1. RestoreInv => OverrideBacked
  BY DEF RestoreInv, Intact, OverrideBacked
<1> QED BY RestoreInvariant, <1>1, PTL

\* What makes OverrideBacked inductive holds as well: the guard has one holder and,
\* while no needed file was taken, no stored snapshot turns the app's proxy on and
\* nobody writes without a file.
THEOREM RestoresAreSafe == Spec => []RestoreInv
  BY RestoreInvariant, PTL

-----------------------------------------------------------------------------
(***************************************************************************)
(* The inductive invariant of OwnerOnly                                    *)
(***************************************************************************)
\* Where a call may write the file or has to leave it.
Holding == {"snapshot"} \union Writing \union Restoring

\* A token is given by an instance that was started, the empty one by nobody.
Traced(s) ==
  s # NoSnap =>
    /\ s.tok <= spent.tok /\ (s.tok = 0 <=> s.owner = NoOwner)
    /\ s.owner \in Procs => life[s.owner] # "new"

\* Who has the token of the file has the owner of the file.
SameToken(s) == s # NoSnap /\ file # NoSnap /\ s.tok # 0 /\ s.tok = file.tok => s.owner = file.owner

\* No other live instance owns it.
MayRestore(p, s) == s # NoSnap => s.owner \in {p, NoOwner} \/ ~Alive(s.owner)

OwnerInv ==
  /\ Traced(file) /\ \A p \in Procs : Traced(mem[p]) /\ Traced(tmp[p])
  /\ \A p \in Procs : SameToken(mem[p]) /\ SameToken(tmp[p])
  /\ \A p \in Procs : mem[p] # NoSnap => mem[p].owner = p
  /\ \A p \in Procs : MayRestore(p, tmp[p])
  /\ \A p \in Procs : pc[p] \in Holding => MayRestore(p, file)
  /\ \A p \in Procs : pc[p] # "idle" => Alive(p)

\* An instance is started once and never lives again.
LivesOn == \A q \in Procs : /\ life[q] = "dead" => life'[q] = "dead"
                            /\ life[q] # "new" => life'[q] # "new"

\* A step that writes no new file and stores only what it has the right to restore.
LEMMA OwnerFrame ==
  ASSUME VarsTyped, VarsTyped', OwnerInv, LivesOn, spent'.tok = spent.tok,
         file' \in {file, NoSnap, CorruptSnap},
         \A q \in Procs : mem'[q] \in {mem[q], NoSnap} \/ (mem'[q] = file /\ file.owner = q),
         \A q \in Procs : tmp'[q] \in {tmp[q], NoSnap} \/ (tmp'[q] = file /\ MayRestore(q, file)),
         \A q \in Procs : pc'[q] \in Holding => MayRestore(q, file),
         \A q \in Procs : pc'[q] # "idle" => life'[q] \notin {"new", "dead"}
  PROVE  OwnerInv'
<1>1. CorruptSnap.tok = 0 /\ CorruptSnap.owner = NoOwner /\ NoOwner \notin Procs
  BY ConstAssumption DEF CorruptSnap
<1>3. \A s \in Snaps \union {NoSnap} : Traced(s) => Traced(s)'
  BY DEF Snaps, Traced, LivesOn
<1>4. \A s \in Snaps \union {NoSnap}, q \in Procs :
        Traced(s) /\ MayRestore(q, s) => (s # NoSnap => s.owner \in {q, NoOwner} \/ life'[s.owner] \in {"new", "dead"})
  BY DEF Snaps, Traced, LivesOn, MayRestore, Alive
<1>5. Traced(file)' /\ \A q \in Procs : Traced(mem[q])' /\ Traced(tmp[q])'
  <2>1. Traced(CorruptSnap)'
    BY <1>1 DEF Traced, VarsTyped
  <2>2. Traced(NoSnap)'
    BY DEF Traced
  <2>. QED BY <1>3, <2>1, <2>2 DEF OwnerInv, VarsTyped, Traced
<1>6. \A q \in Procs : SameToken(mem[q])' /\ SameToken(tmp[q])'
  <2> SUFFICES ASSUME NEW q \in Procs PROVE SameToken(mem[q])' /\ SameToken(tmp[q])'
    OBVIOUS
  <2>1. CASE file' = file
    BY <2>1 DEF OwnerInv, SameToken
  <2>2. CASE file' # file
    BY <2>2, <1>1 DEF SameToken
  <2> QED BY <2>1, <2>2
<1>7. \A q \in Procs : (mem[q] # NoSnap => mem[q].owner = q)'
  BY DEF OwnerInv
<1>8. \A q \in Procs : MayRestore(q, tmp[q])'
  <2> SUFFICES ASSUME NEW q \in Procs, tmp'[q] # NoSnap PROVE tmp'[q].owner \in {q, NoOwner} \/ ~Alive(tmp[q].owner)'
    BY DEF MayRestore
  <2>1. tmp'[q] \in {tmp[q], file} /\ MayRestore(q, tmp'[q]) /\ Traced(tmp'[q])
    BY DEF OwnerInv
  <2>2. tmp'[q] \in Snaps \union {NoSnap}
    BY DEF VarsTyped
  <2> QED BY <1>4, <2>1, <2>2 DEF Alive, Snaps
<1>9. \A q \in Procs : pc'[q] \in Holding => MayRestore(q, file)'
  <2> SUFFICES ASSUME NEW q \in Procs, pc'[q] \in Holding, file' # NoSnap
               PROVE  file'.owner \in {q, NoOwner} \/ ~Alive(file.owner)'
    BY DEF MayRestore
  <2>1. CASE file' = CorruptSnap
    BY <2>1, <1>1
  <2>2. CASE file' = file
    BY <2>2, <1>4 DEF OwnerInv, Alive, Snaps, VarsTyped
  <2> QED BY <2>1, <2>2
<1> QED
  BY <1>5, <1>6, <1>7, <1>8, <1>9 DEF OwnerInv, Alive

\* The life of an instance whose call returns goes on or ends.
LEMMA FinishLivesOn ==
  ASSUME VarsTyped, OwnerInv, NEW p \in Procs, NEW ok \in BOOLEAN, Finish(p, ok), life[p] # "new" \/ pc[p] # "idle"
  PROVE  /\ LivesOn
         /\ \A q \in Procs : pc'[q] \in {pc[q], "idle"} /\ tmp'[q] \in {tmp[q], NoSnap}
         /\ \A q \in Procs : pc'[q] # "idle" => life'[q] \notin {"new", "dead"}
<1>1. life[p] = "dead" => AfterCall(p, ok) = "dead"
  BY DEF AfterCall
<1>2. AfterCall(p, ok) # "new"
  BY DEF AfterCall, OwnerInv, Alive
<1> QED BY <1>1, <1>2 DEF Finish, Forget, LivesOn, VarsTyped, OwnerInv, Alive

\* The invariant of OwnerOnly holds at first.
LEMMA OwnerInit == Init => OwnerInv
<1> SUFFICES ASSUME Init PROVE OwnerInv
  OBVIOUS
<1>1. file # NoSnap => file.tok = 0 /\ file.owner = NoOwner
  BY DEF Init
<1>2. NoOwner \notin Procs
  BY ConstAssumption
<1> QED
  BY <1>1, <1>2
     DEF Init, OwnerInv, Traced, SameToken, MayRestore, Holding, Writing, Restoring

\* Every step beside the reset keeps OwnerInv.
LEMMA OwnerPlain == VarsTyped /\ VarsTyped' /\ Sound /\ OwnerInv /\ PlainStep => OwnerInv'
<1> SUFFICES ASSUME VarsTyped, VarsTyped', Sound, OwnerInv, PlainStep PROVE OwnerInv'
  OBVIOUS
<1>st. CASE UNCHANGED vars
  BY <1>st DEF vars, world, OwnerInv, Traced, SameToken, MayRestore, Alive
<1>us. ASSUME NEW s \in UserSettings, UserEdits(s) PROVE OwnerInv'
  BY <1>us, OwnerFrame DEF UserEdits, OwnerInv, LivesOn, VarsTyped, Alive
<1>fc. CASE FileCorrupted
  BY <1>fc, OwnerFrame DEF FileCorrupted, OwnerInv, LivesOn, VarsTyped, Alive
<1>1. ASSUME NEW p \in Procs, RecoverSkips(p) PROVE OwnerInv'
  <2>1. Finish(p, TRUE) /\ TRUE \in BOOLEAN /\ (life[p] # "new" \/ pc[p] # "idle")
    BY <1>1 DEF RecoverSkips
  <2>2. file' = file /\ mem' = mem /\ spent'.tok = spent.tok
    BY <1>1 DEF RecoverSkips, world, VarsTyped
  <2> QED BY <2>1, <2>2, FinishLivesOn, OwnerFrame DEF OwnerInv, Holding, Writing, Restoring
<1>2. ASSUME NEW p \in Procs, GuardTimeout(p) PROVE OwnerInv'
  <2>1. Finish(p, FALSE) /\ FALSE \in BOOLEAN /\ (life[p] # "new" \/ pc[p] # "idle")
    BY <1>2 DEF GuardTimeout
  <2>2. file' = file /\ mem' = mem /\ spent'.tok = spent.tok
    BY <1>2 DEF GuardTimeout, world, VarsTyped
  <2> QED BY <2>1, <2>2, FinishLivesOn, OwnerFrame DEF OwnerInv, Holding, Writing, Restoring
<1>3. ASSUME NEW p \in Procs, NothingToSuspend(p) PROVE OwnerInv'
  <2>1. Finish(p, TRUE) /\ TRUE \in BOOLEAN /\ (life[p] # "new" \/ pc[p] # "idle")
    BY <1>3 DEF NothingToSuspend
  <2>2. file' = file /\ mem' = mem /\ spent'.tok = spent.tok
    BY <1>3 DEF NothingToSuspend, world, VarsTyped
  <2> QED BY <2>1, <2>2, FinishLivesOn, OwnerFrame DEF OwnerInv, Holding, Writing, Restoring
<1>4. ASSUME NEW p \in Procs, EnableRefused(p) PROVE OwnerInv'
  <2>1. Finish(p, FALSE) /\ FALSE \in BOOLEAN /\ (life[p] # "new" \/ pc[p] # "idle")
    BY <1>4 DEF EnableRefused, Enabling
  <2>2. file' = file /\ mem' = mem /\ spent'.tok = spent.tok
    BY <1>4 DEF EnableRefused, world, VarsTyped
  <2> QED BY <2>1, <2>2, FinishLivesOn, OwnerFrame DEF OwnerInv, Holding, Writing, Restoring
<1>5. ASSUME NEW p \in Procs, DisableSkips(p) PROVE OwnerInv'
  <2>1. Finish(p, TRUE) /\ TRUE \in BOOLEAN /\ (life[p] # "new" \/ pc[p] # "idle")
    BY <1>5 DEF DisableSkips, Disabling
  <2>2. file' = file /\ mem' = mem /\ spent'.tok = spent.tok
    BY <1>5 DEF DisableSkips, world, VarsTyped
  <2> QED BY <2>1, <2>2, FinishLivesOn, OwnerFrame DEF OwnerInv, Holding, Writing, Restoring
<1>6. ASSUME NEW p \in Procs, WriteOn(p) PROVE OwnerInv'
  <2>1. Finish(p, TRUE) /\ TRUE \in BOOLEAN /\ (life[p] # "new" \/ pc[p] # "idle")
    BY <1>6 DEF WriteOn
  <2>2. file' = file /\ mem' = mem /\ spent'.tok = spent.tok
    BY <1>6 DEF WriteOn, world, VarsTyped
  <2> QED BY <2>1, <2>2, FinishLivesOn, OwnerFrame DEF OwnerInv, Holding, Writing, Restoring
<1>7. ASSUME NEW p \in Procs, FailsPlain(p) PROVE OwnerInv'
  <2>1. Finish(p, FALSE) /\ FALSE \in BOOLEAN /\ (life[p] # "new" \/ pc[p] # "idle")
    BY <1>7 DEF FailsPlain, Writing, Restoring
  <2>2. file' = file /\ mem' = mem /\ spent'.tok = spent.tok
    BY <1>7 DEF FailsPlain, world, VarsTyped
  <2> QED BY <2>1, <2>2, FinishLivesOn, OwnerFrame DEF OwnerInv, Holding, Writing, Restoring
<1>8. ASSUME NEW p \in Procs, EngineResume(p) PROVE OwnerInv'
  <2>1. /\ life[p] \notin {"new", "dead"} /\ pc' = [pc EXCEPT ![p] = "lock"]
        /\ tmp' \in {tmp, [tmp EXCEPT ![p] = NoSnap]} /\ UNCHANGED <<file, mem, life, spent>>
    BY <1>8 DEF EngineResume, Invoke, world
  <2> QED BY <2>1, OwnerFrame DEF OwnerInv, Holding, Writing, Restoring, LivesOn, Alive, VarsTyped
<1>9. ASSUME NEW p \in Procs, EngineSuspendForTun(p) PROVE OwnerInv'
  <2>1. /\ life[p] \notin {"new", "dead"} /\ pc' = [pc EXCEPT ![p] = "lock"]
        /\ tmp' \in {tmp, [tmp EXCEPT ![p] = NoSnap]} /\ UNCHANGED <<file, mem, life, spent>>
    BY <1>9 DEF EngineSuspendForTun, Invoke, world
  <2> QED BY <2>1, OwnerFrame DEF OwnerInv, Holding, Writing, Restoring, LivesOn, Alive, VarsTyped
<1>10. ASSUME NEW p \in Procs, EngineSuspend(p) PROVE OwnerInv'
  <2>1. /\ life[p] \notin {"new", "dead"} /\ pc' = [pc EXCEPT ![p] = "lock"]
        /\ tmp' \in {tmp, [tmp EXCEPT ![p] = NoSnap]} /\ UNCHANGED <<file, mem, life, spent>>
    BY <1>10 DEF EngineSuspend, Invoke, world
  <2> QED BY <2>1, OwnerFrame DEF OwnerInv, Holding, Writing, Restoring, LivesOn, Alive, VarsTyped
<1>11. ASSUME NEW p \in Procs, EngineStop(p) PROVE OwnerInv'
  <2>1. /\ life[p] \notin {"new", "dead"} /\ pc' = [pc EXCEPT ![p] = "lock"]
        /\ tmp' \in {tmp, [tmp EXCEPT ![p] = NoSnap]} /\ UNCHANGED <<file, mem, life, spent>>
    BY <1>11 DEF EngineStop, Invoke, world
  <2> QED BY <2>1, OwnerFrame DEF OwnerInv, Holding, Writing, Restoring, LivesOn, Alive, VarsTyped
<1>12. ASSUME NEW p \in Procs, PowResume(p) PROVE OwnerInv'
  <2>1. /\ life[p] \notin {"new", "dead"} /\ pc' = [pc EXCEPT ![p] = "lock"]
        /\ tmp' \in {tmp, [tmp EXCEPT ![p] = NoSnap]} /\ UNCHANGED <<file, mem, life, spent>>
    BY <1>12 DEF PowResume, Invoke, world
  <2> QED BY <2>1, OwnerFrame DEF OwnerInv, Holding, Writing, Restoring, LivesOn, Alive, VarsTyped
<1>13. ASSUME NEW p \in Procs, PowRestore(p) PROVE OwnerInv'
  <2>1. /\ life[p] \notin {"new", "dead"} /\ pc' = [pc EXCEPT ![p] = "lock"]
        /\ tmp' \in {tmp, [tmp EXCEPT ![p] = NoSnap]} /\ UNCHANGED <<file, mem, life, spent>>
    BY <1>13 DEF PowRestore, Invoke, world
  <2> QED BY <2>1, OwnerFrame DEF OwnerInv, Holding, Writing, Restoring, LivesOn, Alive, VarsTyped
<1>14. ASSUME NEW p \in Procs, ExitStops(p) PROVE OwnerInv'
  <2>1. /\ life[p] \notin {"new", "dead"} /\ pc' = [pc EXCEPT ![p] = "lock"]
        /\ tmp' \in {tmp, [tmp EXCEPT ![p] = NoSnap]} /\ UNCHANGED <<file, mem, life, spent>>
    BY <1>14 DEF ExitStops, Invoke, world
  <2> QED BY <2>1, OwnerFrame DEF OwnerInv, Holding, Writing, Restoring, LivesOn, Alive, VarsTyped
<1>15. ASSUME NEW p \in Procs, WriteServer(p) PROVE OwnerInv'
  <2>1. /\ pc[p] \in Holding /\ pc' \in [Procs -> PCs] /\ \A q \in Procs \ {p} : pc'[q] = pc[q]
        /\ UNCHANGED <<file, mem, tmp, life>> /\ spent'.tok = spent.tok
    BY <1>15 DEF WriteServer, Continue, Goto, Holding, Writing, Restoring, VarsTyped, world
  <2> QED BY <2>1, OwnerFrame DEF OwnerInv, Holding, Writing, Restoring, LivesOn, Alive
<1>16. ASSUME NEW p \in Procs, RestoreOff(p) PROVE OwnerInv'
  <2>1. /\ pc[p] \in Holding /\ pc' \in [Procs -> PCs] /\ \A q \in Procs \ {p} : pc'[q] = pc[q]
        /\ UNCHANGED <<file, mem, tmp, life>> /\ spent'.tok = spent.tok
    BY <1>16 DEF RestoreOff, Continue, Goto, Holding, Writing, Restoring, VarsTyped, world
  <2> QED BY <2>1, OwnerFrame DEF OwnerInv, Holding, Writing, Restoring, LivesOn, Alive
<1>17. ASSUME NEW p \in Procs, RestoreServer(p) PROVE OwnerInv'
  <2>1. /\ pc[p] \in Holding /\ pc' \in [Procs -> PCs] /\ \A q \in Procs \ {p} : pc'[q] = pc[q]
        /\ UNCHANGED <<file, mem, tmp, life>> /\ spent'.tok = spent.tok
    BY <1>17 DEF RestoreServer, Continue, Goto, Holding, Writing, Restoring, VarsTyped, world
  <2> QED BY <2>1, OwnerFrame DEF OwnerInv, Holding, Writing, Restoring, LivesOn, Alive
<1>18. ASSUME NEW p \in Procs, RestoreOverride(p) PROVE OwnerInv'
  <2>1. /\ pc[p] \in Holding /\ pc' \in [Procs -> PCs] /\ \A q \in Procs \ {p} : pc'[q] = pc[q]
        /\ UNCHANGED <<file, mem, tmp, life>> /\ spent'.tok = spent.tok
    BY <1>18 DEF RestoreOverride, Continue, Goto, Holding, Writing, Restoring, VarsTyped, world
  <2> QED BY <2>1, OwnerFrame DEF OwnerInv, Holding, Writing, Restoring, LivesOn, Alive
<1>19. ASSUME NEW p \in Procs, RestoreEnable(p) PROVE OwnerInv'
  <2>1. /\ pc[p] \in Holding /\ pc' \in [Procs -> PCs] /\ \A q \in Procs \ {p} : pc'[q] = pc[q]
        /\ UNCHANGED <<file, mem, tmp, life>> /\ spent'.tok = spent.tok
    BY <1>19 DEF RestoreEnable, Continue, Goto, Holding, Writing, Restoring, VarsTyped, world
  <2> QED BY <2>1, OwnerFrame DEF OwnerInv, Holding, Writing, Restoring, LivesOn, Alive
<1>20. ASSUME NEW p \in Procs, FailsAndRollsBack(p) PROVE OwnerInv'
  <2>1. /\ pc[p] \in Holding /\ pc' \in [Procs -> PCs] /\ \A q \in Procs \ {p} : pc'[q] = pc[q]
        /\ UNCHANGED <<file, mem, tmp, life>> /\ spent'.tok = spent.tok
    BY <1>20 DEF FailsAndRollsBack, Goto, Holding, Writing, Restoring, VarsTyped, world
  <2> QED BY <2>1, OwnerFrame DEF OwnerInv, Holding, Writing, Restoring, LivesOn, Alive
<1>21. ASSUME NEW p \in Procs, WriteOff(p) PROVE OwnerInv'
  <2>1. CASE call[p].op = "suspend"
    <3>1. Finish(p, TRUE) /\ TRUE \in BOOLEAN /\ pc[p] # "idle" /\ file' = file /\ mem' = mem /\ spent' = spent
      BY <1>21, <2>1 DEF WriteOff
    <3> QED BY <3>1, FinishLivesOn, OwnerFrame DEF OwnerInv, Holding, Writing, Restoring
  <2>2. CASE call[p].op # "suspend"
    <3>1. /\ pc[p] \in Holding /\ pc' \in [Procs -> PCs] /\ \A q \in Procs \ {p} : pc'[q] = pc[q]
          /\ UNCHANGED <<file, mem, tmp, life, spent>>
      BY <1>21, <2>2 DEF WriteOff, Continue, Goto, Holding, Writing, VarsTyped
    <3> QED BY <3>1, OwnerFrame DEF OwnerInv, Holding, Writing, Restoring, LivesOn, Alive
  <2> QED BY <2>1, <2>2
<1>22. ASSUME NEW p \in Procs, WriteOverride(p) PROVE OwnerInv'
  <2>1. CASE call[p].op # "resume"
    <3>1. Finish(p, TRUE) /\ TRUE \in BOOLEAN /\ pc[p] # "idle" /\ file' = file /\ mem' = mem /\ spent' = spent
      BY <1>22, <2>1 DEF WriteOverride
    <3> QED BY <3>1, FinishLivesOn, OwnerFrame DEF OwnerInv, Holding, Writing, Restoring
  <2>2. CASE call[p].op = "resume"
    <3>1. /\ pc[p] \in Holding /\ pc' \in [Procs -> PCs] /\ \A q \in Procs \ {p} : pc'[q] = pc[q]
          /\ UNCHANGED <<file, mem, tmp, life, spent>>
      BY <1>22, <2>2 DEF WriteOverride, Continue, Goto, Holding, Writing, VarsTyped
    <3> QED BY <3>1, OwnerFrame DEF OwnerInv, Holding, Writing, Restoring, LivesOn, Alive
  <2> QED BY <2>1, <2>2
<1>23. ASSUME NEW p \in Procs, Start(p) PROVE OwnerInv'
  <2>1. life[p] = "new" /\ life' = [life EXCEPT ![p] = "boot1"] /\ UNCHANGED <<file, mem, tmp, pc, spent>>
    BY <1>23 DEF Start, world
  <2>2. \A q \in Procs : life[q] # "new" => life'[q] = life[q]
    BY <2>1 DEF VarsTyped
  <2> QED BY <2>1, <2>2, OwnerFrame DEF OwnerInv, LivesOn, Alive, VarsTyped
<1>24. ASSUME NEW p \in Procs, Quit(p) PROVE OwnerInv'
  BY <1>24, OwnerFrame DEF Quit, OwnerInv, LivesOn, Alive, VarsTyped, world
<1>25. ASSUME NEW p \in Procs, Crash(p) PROVE OwnerInv'
  <2>1. /\ life' = [life EXCEPT ![p] = "dead"] /\ pc' = [pc EXCEPT ![p] = "idle"]
        /\ mem' = [mem EXCEPT ![p] = NoSnap] /\ tmp' = [tmp EXCEPT ![p] = NoSnap]
        /\ UNCHANGED <<file, spent>>
    BY <1>25 DEF Crash, Forget, world
  <2>2. LivesOn /\ \A q \in Procs : pc'[q] # "idle" => life'[q] \notin {"new", "dead"}
    BY <2>1 DEF LivesOn, OwnerInv, Alive, VarsTyped
  <2>3. /\ \A q \in Procs : mem'[q] \in {mem[q], NoSnap} /\ tmp'[q] \in {tmp[q], NoSnap}
        /\ \A q \in Procs : pc'[q] \in Holding => MayRestore(q, file)
    BY <2>1 DEF OwnerInv, VarsTyped, Holding, Writing, Restoring
  <2> QED BY <2>1, <2>2, <2>3, OwnerFrame
<1>26. ASSUME NEW p \in Procs, Acquire(p) PROVE OwnerInv'
  <2>1. /\ pc[p] = "lock" /\ pc' = [pc EXCEPT ![p] = "body"] /\ UNCHANGED <<file, mem, tmp, life, spent>>
    BY <1>26 DEF Acquire, world
  <2> QED BY <2>1, OwnerFrame DEF OwnerInv, Holding, Writing, Restoring, LivesOn, Alive, VarsTyped
<1>27. ASSUME NEW p \in Procs, RecoverLoads(p) PROVE OwnerInv'
  <2>1. MayRestore(p, file)
    BY <1>27 DEF RecoverLoads, Recoverable, MayRestore, Stale
  <2>2. /\ life[p] \notin {"new", "dead"} /\ pc' = [pc EXCEPT ![p] = "lock"]
        /\ tmp' = [tmp EXCEPT ![p] = file] /\ UNCHANGED <<file, mem, life, spent>>
    BY <1>27 DEF RecoverLoads, Invoke, world
  <2> QED
    BY <2>1, <2>2, OwnerFrame
       DEF OwnerInv, Holding, Writing, Restoring, LivesOn, Alive, VarsTyped
<1>28. ASSUME NEW p \in Procs, AdoptOwned(p) PROVE OwnerInv'
  <2>1. OwnedPending(p) \in {file, Previous(p)} /\ OwnedPending(p).owner = p
    BY <1>28 DEF AdoptOwned, OwnedPending
  <2>2. MayRestore(p, file)
    BY <1>28, CorruptIsSnap DEF AdoptOwned, OwnedPending, MayRestore, CorruptSnap
  <2>3. /\ pc[p] = "body" /\ pc' = [pc EXCEPT ![p] = "w_off"] /\ UNCHANGED <<file, life, spent>>
        /\ Remember(p, OwnedPending(p)) /\ OwnedPending(p) # NoSnap
    BY <1>28 DEF AdoptOwned, Goto, world
  <2>4. CASE Engines(p)
    BY <2>1, <2>2, <2>3, <2>4, OwnerFrame
       DEF Remember, Previous, OwnerInv, Holding, Writing, Restoring, LivesOn, Alive, VarsTyped
  <2>5. CASE ~Engines(p)
    BY <2>1, <2>2, <2>3, <2>5, OwnerFrame
       DEF Remember, Previous, OwnerInv, Holding, Writing, Restoring, LivesOn, Alive, VarsTyped
  <2> QED BY <2>4, <2>5
<1>29. ASSUME NEW p \in Procs, EnableFresh(p) PROVE OwnerInv'
  <2>1. /\ pc[p] = "body" /\ pc' = [pc EXCEPT ![p] = "snapshot"] /\ MayRestore(p, file)
        /\ UNCHANGED <<file, mem, tmp, life, spent>>
    BY <1>29 DEF EnableFresh, Enabling, Continue, Goto, MayRestore, world
  <2> QED BY <2>1, OwnerFrame DEF OwnerInv, Holding, Writing, Restoring, LivesOn, Alive, VarsTyped
<1>30. ASSUME NEW p \in Procs, EnableRecovers(p) PROVE OwnerInv'
  <2>1. MayRestore(p, file)
    BY <1>30 DEF EnableRecovers, MayRestore, Stale
  <2>2. /\ pc[p] = "body" /\ pc' = [pc EXCEPT ![p] = "r_off"]
        /\ tmp' = [tmp EXCEPT ![p] = file] /\ UNCHANGED <<file, mem, life, spent>>
    BY <1>30 DEF EnableRecovers, Enabling, Goto, world
  <2> QED
    BY <2>1, <2>2, OwnerFrame
       DEF OwnerInv, Holding, Writing, Restoring, LivesOn, Alive, VarsTyped
<1>31. ASSUME NEW p \in Procs, DisableBegins(p) PROVE OwnerInv'
  <2>1. MayRestore(p, file)
    <3>1. MayRestore(p, Previous(p)) /\ SameToken(Previous(p))
      BY DEF OwnerInv, Previous, MayRestore
    <3>2. ~Foreign(p)
      BY <1>31 DEF DisableBegins
    <3>3. ASSUME file # NoSnap, file # CorruptSnap PROVE MayRestore(p, file)
      <4>1. CASE Token(Previous(p)) # 0
        BY <3>1, <3>2, <3>3, <4>1, CorruptIsSnap DEF Foreign, MayRestore, SameToken, Token
      <4>2. CASE Token(Previous(p)) = 0
        BY <3>2, <3>3, <4>2 DEF Foreign, MayRestore
      <4> QED BY <4>1, <4>2
    <3> QED BY <3>3 DEF MayRestore, CorruptSnap
  <2>2. /\ pc[p] = "body" /\ pc' = [pc EXCEPT ![p] = "r_off"] /\ UNCHANGED <<file, mem, tmp, life, spent>>
    BY <1>31 DEF DisableBegins, Disabling, Goto, world
  <2> QED
    BY <2>1, <2>2, OwnerFrame
       DEF OwnerInv, Holding, Writing, Restoring, LivesOn, Alive, VarsTyped
<1>32. ASSUME NEW p \in Procs, Unlink(p) PROVE OwnerInv'
  <2>1. /\ pc[p] \in Holding /\ file' \in {file, NoSnap} /\ spent' = spent
        /\ \A q \in Procs : mem'[q] \in {mem[q], NoSnap}
    BY <1>32 DEF Unlink, Holding, Restoring, VarsTyped
  <2>2. CASE call[p].then = "snapshot"
    <3>1. /\ pc' = [pc EXCEPT ![p] = "snapshot"] /\ life' = life
          /\ tmp' = [tmp EXCEPT ![p] = NoSnap]
      BY <1>32, <2>2 DEF Unlink, Goto
    <3> QED
      BY <2>1, <3>1, OwnerFrame
         DEF OwnerInv, Holding, Writing, Restoring, LivesOn, Alive, VarsTyped
  <2>3. CASE call[p].then # "snapshot"
    <3>1. Finish(p, call[p].then = "return") /\ (call[p].then = "return") \in BOOLEAN /\ pc[p] # "idle"
      BY <1>32, <2>3 DEF Unlink
    <3> QED BY <2>1, <3>1, FinishLivesOn, OwnerFrame DEF OwnerInv, Holding, Writing, Restoring
  <2> QED BY <2>2, <2>3
<1>33. ASSUME NEW p \in Procs, TakeSnapshot(p) PROVE OwnerInv'
  <2>s. [owner |-> p, tok |-> spent.tok + 1, vals |-> reg] \in Snaps
    BY DEF VarsTyped, Snaps
  <2>t. PICK s \in Snaps : s = [owner |-> p, tok |-> spent.tok + 1, vals |-> reg]
    BY <2>s
  <2>1. /\ pc[p] = "snapshot" /\ pc' = [pc EXCEPT ![p] = "w_off"] /\ file' = s /\ life' = life
        /\ spent'.tok = spent.tok + 1 /\ Remember(p, s)
    BY <1>33, <2>t DEF TakeSnapshot, Goto, VarsTyped
  <2>2. s \in Snaps /\ s # NoSnap /\ p # NoOwner /\ Alive(p) /\ Alive(p)'
    BY <2>1, <2>t, NoSnapAssumption, ConstAssumption DEF VarsTyped, Snaps, OwnerInv, Alive
  <2>3. \A r \in Snaps \union {NoSnap} : Traced(r) => Traced(r)' /\ (r # NoSnap => r.tok # s.tok)
    BY <2>1, <2>t DEF Snaps, Traced, VarsTyped
  <2>4. Traced(s)'
    BY <2>1, <2>2, <2>t DEF Traced, VarsTyped, Alive
  <2>5. \A q \in Procs : mem'[q] \in {mem[q], s} /\ tmp'[q] \in {tmp[q], s}
    BY <2>1 DEF Remember, VarsTyped
  <2>6. \A q \in Procs : q # p => mem'[q] = mem[q] /\ tmp'[q] = tmp[q]
    BY <2>1 DEF Remember, VarsTyped
  <2>7. \A q \in Procs : q # p => pc[q] \notin Holding
    BY <2>1 DEF Sound, Guarded, Holding, Writing, Restoring
  <2>8. Traced(file)' /\ \A q \in Procs : Traced(mem[q])' /\ Traced(tmp[q])'
    <3>1. Traced(file)'
      BY <2>1, <2>4 DEF Traced
    <3>2. ASSUME NEW q \in Procs PROVE Traced(mem[q])' /\ Traced(tmp[q])'
      <4>1. Traced(mem[q]) /\ Traced(tmp[q]) /\ mem[q] \in Snaps \union {NoSnap} /\ tmp[q] \in Snaps \union {NoSnap}
        BY DEF OwnerInv, VarsTyped
      <4>2. mem'[q] \in {mem[q], s} /\ tmp'[q] \in {tmp[q], s}
        BY <2>5
      <4> QED BY <4>1, <4>2, <2>3, <2>4 DEF Traced
    <3> QED BY <3>1, <3>2
  <2>9. \A q \in Procs : SameToken(mem[q])' /\ SameToken(tmp[q])'
    BY <2>1, <2>t, <2>3, <2>5 DEF SameToken, OwnerInv, VarsTyped
  <2>10. \A q \in Procs : (mem[q] # NoSnap => mem[q].owner = q)' /\ MayRestore(q, tmp[q])'
    BY <2>1, <2>2, <2>t, <2>5, <2>6 DEF OwnerInv, MayRestore, Alive
  <2>11. \A q \in Procs : pc'[q] \in Holding => MayRestore(q, file)'
    BY <2>1, <2>t, <2>7 DEF MayRestore, VarsTyped
  <2>12. \A q \in Procs : pc'[q] # "idle" => Alive(q)'
    BY <2>1, <2>2 DEF OwnerInv, VarsTyped, Alive
  <2> QED BY <2>8, <2>9, <2>10, <2>11, <2>12 DEF OwnerInv
<1> QED
  BY <1>st, <1>us, <1>fc, <1>1, <1>2, <1>3, <1>4, <1>5, <1>6, <1>7, <1>8, <1>9, <1>10, <1>11,
     <1>12, <1>13, <1>14, <1>15, <1>16, <1>17, <1>18, <1>19, <1>20, <1>21, <1>22, <1>23, <1>24,
     <1>25, <1>26, <1>27, <1>28, <1>29, <1>30, <1>31, <1>32, <1>33
     DEF PlainStep, Plain, Run, Request, Disturb

\* The reset moves an instance on and may take the file.
LEMMA OwnerNext == VarsTyped /\ VarsTyped' /\ Sound /\ OwnerInv /\ [Next]_vars => OwnerInv'
<1>1. ASSUME VarsTyped, VarsTyped', OwnerInv, NEW p \in Procs, Resets(p) PROVE OwnerInv'
  <2>1. UNCHANGED <<pc, mem, tmp>> /\ spent'.tok = spent.tok /\ file' \in {file, NoSnap}
    BY <1>1, ResetFrame DEF ResetMoves
  <2>2. PICK l \in Resetting \union {"mutex", "boot2", "dead"} : life' = [life EXCEPT ![p] = l]
    BY <1>1, ResetFrame
  <2>3. pc[p] = "idle" /\ life[p] \in Resetting \union {"mutex"}
    BY <1>1, ResetFrame
  <2>4. LivesOn
    BY <2>2, <2>3 DEF LivesOn, VarsTyped, Resetting
  <2>5. \A q \in Procs : pc'[q] # "idle" => life'[q] \notin {"new", "dead"}
    BY <1>1, <2>1, <2>2, <2>3 DEF OwnerInv, Alive, VarsTyped
  <2> QED BY <1>1, <2>1, <2>4, <2>5, OwnerFrame DEF OwnerInv
<1> QED BY <1>1, StepCases, OwnerPlain

\* Only the instance that owns the restore file replaces or removes it while it
\* lives, for any instances, engines, failures, crashes and damaged files; nobody
\* else takes it but the reset of a start that did not see that instance.
THEOREM OthersFilesUntouched == Spec => OwnerOnly
<1>1. VarsTyped /\ Sound /\ OwnerInv /\ [Next]_vars => VarsTyped' /\ Sound' /\ OwnerInv'
  BY TypeNext, SoundNext, OwnerNext
<1>2. VarsTyped /\ Sound /\ OwnerInv /\ [Next]_vars =>
        [file # NoSnap /\ file' # file /\ file' # CorruptSnap /\ file.owner \in Procs /\ Alive(file.owner)
          => guard = file.owner \/ \E p \in Procs : ResetMoves(p)]_vars
  <2> SUFFICES ASSUME VarsTyped, Sound, OwnerInv, Next, file # NoSnap, file' # file,
                      file' # CorruptSnap, file.owner \in Procs, Alive(file.owner)
               PROVE  guard = file.owner \/ \E p \in Procs : ResetMoves(p)
    OBVIOUS
  <2>1. \A p \in Procs : pc[p] \in Holding => guard = p /\ (p = file.owner \/ file.owner = NoOwner)
    BY DEF Sound, Guarded, Holding, Writing, Restoring, OwnerInv, MayRestore
  <2>2. NoOwner \notin Procs
    BY ConstAssumption
  <2>3. \E p \in Procs : TakeSnapshot(p) \/ Unlink(p) \/ ResetMoves(p)
    BY DEF Next, Step, Run, Reset, Request, Disturb, world, RecoverSkips, RecoverLoads, ExitStops, Acquire,
       GuardTimeout, AdoptOwned, NothingToSuspend, EnableFresh, EnableRefused, EnableRecovers,
       WriteOff, WriteServer, WriteOverride, WriteOn, DisableSkips, DisableBegins, RestoreOff,
       RestoreServer, RestoreOverride, RestoreEnable, Start, Quit, EngineResume,
       EngineSuspendForTun, EngineSuspend, EngineStop, PowResume, PowRestore, FailsPlain,
       FailsAndRollsBack, Crash, UserEdits, FileCorrupted, ResetChecks, ResetMarks, EnterMutex,
       ResetFails
  <2> QED BY <2>1, <2>2, <2>3 DEF TakeSnapshot, Unlink, Holding, Restoring
<1> QED BY TypeInit, SoundInit, OwnerInit, <1>1, <1>2, PTL DEF Spec, OwnerOnly
-----------------------------------------------------------------------------
(***************************************************************************)
(* One instance at a time, with one proxy object                           *)
(***************************************************************************)
\* Under these the restore file never mixes the app's settings with the user's;
\* without any of them SnapshotExact fails.
OneAtATime == /\ MaxAlive = 1 /\ IsFiniteSet(Procs)
              /\ ~PowUsed /\ MaxCorrupt = 0

\* A recovery uses an object of its own at the two ends of main(), every other
\* call the engine's object in between.
CallFits(p) ==
  pc[p] # "idle" =>
    IF call[p].op = "recover"
    THEN call[p].obj = "temp" /\ life[p] \in {"boot1", "boot2", "exit2"}
    ELSE call[p].obj = "engine" /\ life[p] \in {"up", "exit1"}

\* Only an enable takes a snapshot.
EnableCall(p) ==
  pc[p] = "snapshot" \/ call[p].then = "snapshot" => call[p].op \in {"resume", "suspend_for_tun"}

SoleInv ==
  /\ \A p, q \in Procs : Alive(p) /\ Alive(q) => p = q
  /\ \A p \in Procs : (~Alive(p) => pc[p] = "idle") /\ session[p] # "pow"
                      /\ CallFits(p) /\ EnableCall(p)

\* Every copy of the snapshot that a call may still use is the one in the file.
CopyInv ==
  /\ \A p \in Procs : life[p] \notin {"up", "exit1", "exit2", "dead"} => mem[p] = NoSnap
  /\ \A p \in Procs : life[p] \in {"up", "exit1"} => mem[p] \in {NoSnap, file}
  /\ \A p \in Procs : tmp[p] \in {NoSnap, file} /\ (pc[p] = "idle" => tmp[p] = NoSnap)
  /\ \A p \in Procs : pc[p] \in Restoring => snap[p] = file /\ file # NoSnap
  /\ \A p \in Procs : pc[p] = "snapshot" => file = NoSnap
  /\ \A p \in Procs : pc[p] # "idle" /\ call[p].then = "snapshot" => pc[p] \in Restoring /\ mem[p] = NoSnap

\* The file has the user's settings, and a restore brings them back one by one.
UndoInv ==
  /\ file # NoSnap => file.vals = user
  /\ file = NoSnap => reg = user
  /\ \A p \in Procs :
       /\ pc[p] \in {"r_override", "r_enable", "unlink"} => reg.ProxyServer = user.ProxyServer
       /\ pc[p] \in {"r_enable", "unlink"} => reg.ProxyOverride = user.ProxyOverride
       /\ pc[p] = "unlink" => reg.ProxyEnable = user.ProxyEnable

\* The end of a call keeps the instance the only one.
LEMMA FinishSole ==
  ASSUME VarsTyped, SoleInv, NEW p \in Procs, NEW ok \in BOOLEAN, Finish(p, ok), Alive(p),
         pc[p] = "idle" => life[p] # "up"
  PROVE  SoleInv'
<1>1. \A q \in Procs : pc'[q] \in {pc[q], "idle"} /\ (q # p => life'[q] = life[q])
  BY DEF Finish, VarsTyped
<1>2. \A q \in Procs : session'[q] # "pow"
  <2>1. SessionAfter(p, ok) # "pow"
    BY DEF SessionAfter, SoleInv, CallFits
  <2> QED BY <2>1 DEF Finish, SoleInv, VarsTyped
<1>3. \A q \in Procs : ~Alive(q)' => pc'[q] = "idle"
  BY <1>1 DEF Finish, SoleInv, VarsTyped, Alive
<1>4. \A q \in Procs : CallFits(q)' /\ EnableCall(q)'
  BY <1>1 DEF Finish, Forget, SoleInv, CallFits, EnableCall, NoCall, VarsTyped
<1>5. \A q, r \in Procs : Alive(q)' /\ Alive(r)' => q = r
  BY <1>1 DEF SoleInv, Alive
<1> QED BY <1>2, <1>3, <1>4, <1>5 DEF SoleInv

\* An instance starts only when none is alive.
LEMMA StartsAlone ==
  ASSUME OneAtATime, NEW p \in Procs, Start(p)
  PROVE  \A q \in Procs : ~Alive(q)
<1>1. {q \in Procs : Alive(q)} \subseteq Procs /\ IsFiniteSet(Procs)
  BY DEF OneAtATime
<1>2. IsFiniteSet({q \in Procs : Alive(q)})
  BY <1>1, FS_Subset
<1>3. Cardinality({q \in Procs : Alive(q)}) < 1
  BY DEF Start, OneAtATime
<1>4. Cardinality({q \in Procs : Alive(q)}) = 0
  BY <1>2, <1>3, FS_CardinalityType
<1>5. {q \in Procs : Alive(q)} = {}
  BY <1>2, <1>4, FS_EmptySet
<1> QED BY <1>5

\* The three invariants of one instance at a time hold at first.
LEMMA SoleInit == Init => SoleInv /\ CopyInv /\ UndoInv
<1> SUFFICES ASSUME Init PROVE SoleInv /\ CopyInv /\ UndoInv
  OBVIOUS
<1>1. [owner |-> NoOwner, tok |-> 0, vals |-> user] # NoSnap
  <2>1. user \in Settings
    BY ConstAssumption DEF Init, Settings, Texts
  <2> QED BY <2>1, NoSnapAssumption DEF Snaps
<1> QED
  BY <1>1
     DEF Init, NoCall, SoleInv, CallFits, EnableCall, CopyInv, UndoInv, Alive, Restoring

\* Every step beside the reset keeps SoleInv.
LEMMA SolePlain ==
  ASSUME OneAtATime, VarsTyped, OwnerInv, SoleInv, PlainStep
  PROVE  SoleInv'
<1>st. CASE UNCHANGED vars
  BY <1>st DEF vars, world, SoleInv, CallFits, EnableCall, Alive
<1>us. ASSUME NEW s \in UserSettings, UserEdits(s) PROVE SoleInv'
  BY <1>us DEF UserEdits, SoleInv, CallFits, EnableCall, Alive
<1>fc. CASE FileCorrupted
  BY <1>fc DEF FileCorrupted, SoleInv, CallFits, EnableCall, Alive
<1>1. ASSUME NEW p \in Procs, RecoverSkips(p) PROVE SoleInv'
  <2>1. Finish(p, TRUE) /\ TRUE \in BOOLEAN /\ Alive(p) /\ (pc[p] = "idle" => life[p] # "up")
    BY <1>1 DEF RecoverSkips, OwnerInv, Alive
  <2> QED BY <2>1, FinishSole
<1>2. ASSUME NEW p \in Procs, GuardTimeout(p) PROVE SoleInv'
  <2>1. Finish(p, FALSE) /\ FALSE \in BOOLEAN /\ Alive(p) /\ (pc[p] = "idle" => life[p] # "up")
    BY <1>2 DEF GuardTimeout, OwnerInv, Alive
  <2> QED BY <2>1, FinishSole
<1>3. ASSUME NEW p \in Procs, NothingToSuspend(p) PROVE SoleInv'
  <2>1. Finish(p, TRUE) /\ TRUE \in BOOLEAN /\ Alive(p) /\ (pc[p] = "idle" => life[p] # "up")
    BY <1>3 DEF NothingToSuspend, OwnerInv, Alive
  <2> QED BY <2>1, FinishSole
<1>4. ASSUME NEW p \in Procs, EnableRefused(p) PROVE SoleInv'
  <2>1. Finish(p, FALSE) /\ FALSE \in BOOLEAN /\ Alive(p) /\ (pc[p] = "idle" => life[p] # "up")
    BY <1>4 DEF EnableRefused, Enabling, OwnerInv, Alive
  <2> QED BY <2>1, FinishSole
<1>5. ASSUME NEW p \in Procs, DisableSkips(p) PROVE SoleInv'
  <2>1. Finish(p, TRUE) /\ TRUE \in BOOLEAN /\ Alive(p) /\ (pc[p] = "idle" => life[p] # "up")
    BY <1>5 DEF DisableSkips, Disabling, OwnerInv, Alive
  <2> QED BY <2>1, FinishSole
<1>6. ASSUME NEW p \in Procs, WriteOn(p) PROVE SoleInv'
  <2>1. Finish(p, TRUE) /\ TRUE \in BOOLEAN /\ Alive(p) /\ (pc[p] = "idle" => life[p] # "up")
    BY <1>6 DEF WriteOn, OwnerInv, Alive
  <2> QED BY <2>1, FinishSole
<1>7. ASSUME NEW p \in Procs, FailsPlain(p) PROVE SoleInv'
  <2>1. Finish(p, FALSE) /\ FALSE \in BOOLEAN /\ Alive(p) /\ (pc[p] = "idle" => life[p] # "up")
    BY <1>7 DEF FailsPlain, Writing, Restoring, OwnerInv, Alive
  <2> QED BY <2>1, FinishSole
<1>8. ASSUME NEW p \in Procs, EngineResume(p) PROVE SoleInv'
  BY <1>8 DEF EngineResume, Invoke, SoleInv, CallFits, EnableCall, Alive, VarsTyped, OneAtATime
<1>9. ASSUME NEW p \in Procs, EngineSuspendForTun(p) PROVE SoleInv'
  BY <1>9
     DEF EngineSuspendForTun, Invoke, SoleInv, CallFits, EnableCall, Alive, VarsTyped, OneAtATime
<1>10. ASSUME NEW p \in Procs, EngineSuspend(p) PROVE SoleInv'
  BY <1>10 DEF EngineSuspend, Invoke, SoleInv, CallFits, EnableCall, Alive, VarsTyped, OneAtATime
<1>11. ASSUME NEW p \in Procs, EngineStop(p) PROVE SoleInv'
  BY <1>11 DEF EngineStop, Invoke, SoleInv, CallFits, EnableCall, Alive, VarsTyped, OneAtATime
<1>12. ASSUME NEW p \in Procs, PowResume(p) PROVE SoleInv'
  BY <1>12 DEF PowResume, Invoke, SoleInv, CallFits, EnableCall, Alive, VarsTyped, OneAtATime
<1>13. ASSUME NEW p \in Procs, PowRestore(p) PROVE SoleInv'
  BY <1>13 DEF PowRestore, Invoke, SoleInv, CallFits, EnableCall, Alive, VarsTyped, OneAtATime
<1>14. ASSUME NEW p \in Procs, ExitStops(p) PROVE SoleInv'
  BY <1>14 DEF ExitStops, Invoke, SoleInv, CallFits, EnableCall, Alive, VarsTyped, OneAtATime
<1>15. ASSUME NEW p \in Procs, RecoverLoads(p) PROVE SoleInv'
  BY <1>15 DEF RecoverLoads, Invoke, SoleInv, CallFits, EnableCall, Alive, VarsTyped, OneAtATime
<1>16. ASSUME NEW p \in Procs, Acquire(p) PROVE SoleInv'
  BY <1>16 DEF Acquire, SoleInv, CallFits, EnableCall, Alive, VarsTyped
<1>17. ASSUME NEW p \in Procs, AdoptOwned(p) PROVE SoleInv'
  BY <1>17 DEF AdoptOwned, Remember, Goto, SoleInv, CallFits, EnableCall, Alive, VarsTyped
<1>18. ASSUME NEW p \in Procs, EnableFresh(p) PROVE SoleInv'
  BY <1>18
     DEF EnableFresh, Enabling, Continue, Goto, SoleInv, CallFits, EnableCall, Alive, VarsTyped
<1>19. ASSUME NEW p \in Procs, EnableRecovers(p) PROVE SoleInv'
  BY <1>19 DEF EnableRecovers, Enabling, Goto, SoleInv, CallFits, EnableCall, Alive, VarsTyped
<1>20. ASSUME NEW p \in Procs, TakeSnapshot(p) PROVE SoleInv'
  BY <1>20 DEF TakeSnapshot, Remember, Goto, SoleInv, CallFits, EnableCall, Alive, VarsTyped
<1>21. ASSUME NEW p \in Procs, WriteServer(p) PROVE SoleInv'
  BY <1>21 DEF WriteServer, Continue, Goto, SoleInv, CallFits, EnableCall, Alive, VarsTyped
<1>22. ASSUME NEW p \in Procs, DisableBegins(p) PROVE SoleInv'
  BY <1>22 DEF DisableBegins, Disabling, Goto, SoleInv, CallFits, EnableCall, Alive, VarsTyped
<1>23. ASSUME NEW p \in Procs, RestoreOff(p) PROVE SoleInv'
  BY <1>23 DEF RestoreOff, Continue, Goto, SoleInv, CallFits, EnableCall, Alive, VarsTyped
<1>24. ASSUME NEW p \in Procs, RestoreServer(p) PROVE SoleInv'
  BY <1>24 DEF RestoreServer, Continue, Goto, SoleInv, CallFits, EnableCall, Alive, VarsTyped
<1>25. ASSUME NEW p \in Procs, RestoreOverride(p) PROVE SoleInv'
  BY <1>25 DEF RestoreOverride, Continue, Goto, SoleInv, CallFits, EnableCall, Alive, VarsTyped
<1>26. ASSUME NEW p \in Procs, RestoreEnable(p) PROVE SoleInv'
  BY <1>26 DEF RestoreEnable, Continue, Goto, SoleInv, CallFits, EnableCall, Alive, VarsTyped
<1>27. ASSUME NEW p \in Procs, FailsAndRollsBack(p) PROVE SoleInv'
  BY <1>27 DEF FailsAndRollsBack, Writing, Goto, SoleInv, CallFits, EnableCall, Alive, VarsTyped
<1>28. ASSUME NEW p \in Procs, Start(p) PROVE SoleInv'
  <2>1. \A q \in Procs : ~Alive(q) /\ pc[q] = "idle"
    BY <1>28, StartsAlone DEF SoleInv
  <2>2. \A q \in Procs : life'[q] = IF q = p THEN "boot1" ELSE life[q]
    BY <1>28 DEF Start, VarsTyped
  <2>3. UNCHANGED <<pc, call, session>>
    BY <1>28 DEF Start
  <2> QED BY <2>1, <2>2, <2>3 DEF SoleInv, CallFits, EnableCall, Alive, VarsTyped
<1>29. ASSUME NEW p \in Procs, Quit(p) PROVE SoleInv'
  BY <1>29 DEF Quit, SoleInv, CallFits, EnableCall, Alive, VarsTyped
<1>30. ASSUME NEW p \in Procs, Crash(p) PROVE SoleInv'
  BY <1>30 DEF Crash, Forget, NoCall, SoleInv, CallFits, EnableCall, Alive, VarsTyped
<1>31. ASSUME NEW p \in Procs, WriteOff(p) PROVE SoleInv'
  <2>1. CASE call[p].op = "suspend"
    <3>1. Finish(p, TRUE) /\ TRUE \in BOOLEAN /\ Alive(p) /\ (pc[p] = "idle" => life[p] # "up")
      BY <1>31, <2>1 DEF WriteOff, OwnerInv, Alive
    <3> QED BY <3>1, FinishSole
  <2>2. CASE call[p].op # "suspend"
    BY <1>31, <2>2 DEF WriteOff, Continue, Goto, SoleInv, CallFits, EnableCall, Alive, VarsTyped
  <2> QED BY <2>1, <2>2
<1>32. ASSUME NEW p \in Procs, WriteOverride(p) PROVE SoleInv'
  <2>1. CASE call[p].op # "resume"
    <3>1. Finish(p, TRUE) /\ TRUE \in BOOLEAN /\ Alive(p) /\ (pc[p] = "idle" => life[p] # "up")
      BY <1>32, <2>1 DEF WriteOverride, OwnerInv, Alive
    <3> QED BY <3>1, FinishSole
  <2>2. CASE call[p].op = "resume"
    BY <1>32, <2>2
       DEF WriteOverride, Continue, Goto, SoleInv, CallFits, EnableCall, Alive, VarsTyped
  <2> QED BY <2>1, <2>2
<1>33. ASSUME NEW p \in Procs, Unlink(p) PROVE SoleInv'
  <2>1. CASE call[p].then # "snapshot"
    <3>1. /\ Finish(p, call[p].then = "return") /\ (call[p].then = "return") \in BOOLEAN
          /\ Alive(p) /\ (pc[p] = "idle" => life[p] # "up")
      BY <1>33, <2>1 DEF Unlink, OwnerInv, Alive
    <3> QED BY <3>1, FinishSole
  <2>2. CASE call[p].then = "snapshot"
    <3>1. /\ call' = [call EXCEPT ![p] = [call[p] EXCEPT !.then = "return"]]
          /\ UNCHANGED <<life, session>> /\ pc' = [pc EXCEPT ![p] = "snapshot"]
      BY <1>33, <2>2 DEF Unlink, Goto
    <3>2. \A q \in Procs : call'[q].op = call[q].op /\ call'[q].obj = call[q].obj
      BY <3>1 DEF VarsTyped, Calls
    <3>3. Alive(p) /\ pc[p] # "idle"
      BY <1>33 DEF Unlink, OwnerInv
    <3> QED BY <2>2, <3>1, <3>2, <3>3 DEF SoleInv, CallFits, EnableCall, Alive, VarsTyped
  <2> QED BY <2>1, <2>2
<1> QED
  BY <1>st, <1>us, <1>fc, <1>1, <1>2, <1>3, <1>4, <1>5, <1>6, <1>7, <1>8, <1>9, <1>10, <1>11,
     <1>12, <1>13, <1>14, <1>15, <1>16, <1>17, <1>18, <1>19, <1>20, <1>21, <1>22, <1>23, <1>24,
     <1>25, <1>26, <1>27, <1>28, <1>29, <1>30, <1>31, <1>32, <1>33
     DEF PlainStep, Plain, Run, Request, Disturb

\* So does a step of the reset: it moves on the instance that is at work.
LEMMA SoleNext ==
  ASSUME OneAtATime, VarsTyped, OwnerInv, SoleInv, [Next]_vars
  PROVE  SoleInv'
<1>1. ASSUME NEW p \in Procs, Resets(p) PROVE SoleInv'
  <2>1. /\ UNCHANGED <<session, pc, call>> /\ pc[p] = "idle" /\ Alive(p)
        /\ \A q \in Procs \ {p} : life'[q] = life[q]
    BY <1>1, ResetFrame DEF Alive, VarsTyped, Resetting
  <2> QED BY <2>1 DEF SoleInv, CallFits, EnableCall, Alive
<1> QED BY <1>1, StepCases, SolePlain

\* Nobody else is at work.
LEMMA Alone ==
  ASSUME SoleInv, NEW p \in Procs, Alive(p)
  PROVE  \A q \in Procs \ {p} : ~Alive(q) /\ pc[q] = "idle"
  BY DEF SoleInv

\* The snapshot in the file is never the one of a damaged file.
LEMMA FileWhole ==
  ASSUME UndoInv, VarsTyped
  PROVE  file # CorruptSnap
  BY ConstAssumption, NoSnapAssumption, CorruptIsSnap DEF UndoInv, CorruptSnap, VarsTyped

\* A call has only the snapshot in the file to work on.
LEMMA OneSnapshot ==
  ASSUME VarsTyped, OwnerInv, SoleInv, CopyInv, UndoInv, NEW p \in Procs, pc[p] # "idle"
  PROVE  /\ Previous(p) \in {NoSnap, file}
         /\ OwnedPending(p) \in {NoSnap, file}
         /\ StateToRestore(p) = file
         /\ OwnedPending(p) = NoSnap /\ Engines(p) => mem[p] = NoSnap
<1>1. Alive(p)
  BY DEF OwnerInv
<1>2. Previous(p) \in {NoSnap, file}
  BY <1>1 DEF Previous, Engines, SoleInv, CallFits, EnableCall, CopyInv
<1>3. OwnedPending(p) \in {NoSnap, file} /\ StateToRestore(p) = file
  BY <1>2, FileWhole DEF OwnedPending, StateToRestore
<1>4. ASSUME OwnedPending(p) = NoSnap, Engines(p), mem[p] # NoSnap PROVE FALSE
  <2>1. Previous(p) = file /\ file # NoSnap /\ file.owner = p
    BY <1>2, <1>4 DEF Previous, OwnerInv
  <2> QED BY <2>1, <1>4, FileWhole DEF OwnedPending, Token
<1> QED BY <1>2, <1>3, <1>4

\* The end of a call that changes no snapshot keeps the copies.
LEMMA FinishCopy ==
  ASSUME VarsTyped, SoleInv, CopyInv, NEW p \in Procs, NEW ok \in BOOLEAN, Finish(p, ok), Alive(p),
         UNCHANGED <<file, mem>>
  PROVE  CopyInv'
<1>1. \A q \in Procs \ {p} : life'[q] = life[q] /\ pc'[q] = pc[q] /\ tmp'[q] = tmp[q]
                             /\ snap'[q] = snap[q] /\ call'[q] = call[q]
  BY DEF Finish, Forget, VarsTyped
<1>2. pc'[p] = "idle" /\ tmp'[p] = NoSnap
  BY DEF Finish, Forget, VarsTyped
<1>3. \/ life'[p] \in {"up", "exit1", "exit2", "dead"}
      \/ life[p] \notin {"up", "exit1", "exit2", "dead"}
  BY DEF Finish, AfterCall, VarsTyped, Lives, Resetting
<1>4. life'[p] \in {"up", "exit1"} => life[p] \in {"up", "exit1", "boot1", "boot2"}
  BY DEF Finish, AfterCall, VarsTyped, Lives, Resetting
<1> QED BY <1>1, <1>2, <1>3, <1>4 DEF CopyInv, Restoring

\* Every step beside the reset keeps CopyInv.
LEMMA CopyPlain ==
  ASSUME OneAtATime, VarsTyped, VarsTyped', Backed, OwnerInv, SoleInv, CopyInv, UndoInv, PlainStep
  PROVE  CopyInv'
<1>st. CASE UNCHANGED vars
  BY <1>st DEF vars, world, CopyInv
<1>us. ASSUME NEW s \in UserSettings, UserEdits(s) PROVE CopyInv'
  BY <1>us DEF UserEdits, CopyInv
<1>fc. CASE FileCorrupted
  BY <1>fc DEF FileCorrupted, OneAtATime, VarsTyped
<1>1. ASSUME NEW p \in Procs, RecoverSkips(p) PROVE CopyInv'
  <2>1. Finish(p, TRUE) /\ TRUE \in BOOLEAN /\ Alive(p) /\ UNCHANGED <<file, mem>>
    BY <1>1 DEF RecoverSkips, OwnerInv, Alive, world
  <2> QED BY <2>1, FinishCopy
<1>2. ASSUME NEW p \in Procs, GuardTimeout(p) PROVE CopyInv'
  <2>1. Finish(p, FALSE) /\ FALSE \in BOOLEAN /\ Alive(p) /\ UNCHANGED <<file, mem>>
    BY <1>2 DEF GuardTimeout, OwnerInv, Alive, world
  <2> QED BY <2>1, FinishCopy
<1>3. ASSUME NEW p \in Procs, NothingToSuspend(p) PROVE CopyInv'
  <2>1. Finish(p, TRUE) /\ TRUE \in BOOLEAN /\ Alive(p) /\ UNCHANGED <<file, mem>>
    BY <1>3 DEF NothingToSuspend, OwnerInv, Alive, world
  <2> QED BY <2>1, FinishCopy
<1>4. ASSUME NEW p \in Procs, EnableRefused(p) PROVE CopyInv'
  <2>1. Finish(p, FALSE) /\ FALSE \in BOOLEAN /\ Alive(p) /\ UNCHANGED <<file, mem>>
    BY <1>4 DEF EnableRefused, Enabling, OwnerInv, Alive, world
  <2> QED BY <2>1, FinishCopy
<1>5. ASSUME NEW p \in Procs, DisableSkips(p) PROVE CopyInv'
  <2>1. Finish(p, TRUE) /\ TRUE \in BOOLEAN /\ Alive(p) /\ UNCHANGED <<file, mem>>
    BY <1>5 DEF DisableSkips, Disabling, OwnerInv, Alive, world
  <2> QED BY <2>1, FinishCopy
<1>6. ASSUME NEW p \in Procs, WriteOn(p) PROVE CopyInv'
  <2>1. Finish(p, TRUE) /\ TRUE \in BOOLEAN /\ Alive(p) /\ UNCHANGED <<file, mem>>
    BY <1>6 DEF WriteOn, OwnerInv, Alive, world
  <2> QED BY <2>1, FinishCopy
<1>7. ASSUME NEW p \in Procs, FailsPlain(p) PROVE CopyInv'
  <2>1. Finish(p, FALSE) /\ FALSE \in BOOLEAN /\ Alive(p) /\ UNCHANGED <<file, mem>>
    BY <1>7 DEF FailsPlain, Writing, Restoring, OwnerInv, Alive, world
  <2> QED BY <2>1, FinishCopy
<1>8. ASSUME NEW p \in Procs, EngineResume(p) PROVE CopyInv'
  BY <1>8 DEF EngineResume, Invoke, CopyInv, VarsTyped, world, Restoring
<1>9. ASSUME NEW p \in Procs, EngineSuspendForTun(p) PROVE CopyInv'
  BY <1>9 DEF EngineSuspendForTun, Invoke, CopyInv, VarsTyped, world, Restoring
<1>10. ASSUME NEW p \in Procs, EngineSuspend(p) PROVE CopyInv'
  BY <1>10 DEF EngineSuspend, Invoke, CopyInv, VarsTyped, world, Restoring
<1>11. ASSUME NEW p \in Procs, EngineStop(p) PROVE CopyInv'
  BY <1>11 DEF EngineStop, Invoke, CopyInv, VarsTyped, world, Restoring
<1>12. ASSUME NEW p \in Procs, PowResume(p) PROVE CopyInv'
  BY <1>12 DEF PowResume, Invoke, CopyInv, VarsTyped, world, Restoring
<1>13. ASSUME NEW p \in Procs, PowRestore(p) PROVE CopyInv'
  BY <1>13 DEF PowRestore, Invoke, CopyInv, VarsTyped, world, Restoring
<1>14. ASSUME NEW p \in Procs, ExitStops(p) PROVE CopyInv'
  BY <1>14 DEF ExitStops, Invoke, CopyInv, VarsTyped, world, Restoring
<1>15. ASSUME NEW p \in Procs, RecoverLoads(p) PROVE CopyInv'
  BY <1>15 DEF RecoverLoads, Invoke, CopyInv, VarsTyped, world, Restoring
<1>16. ASSUME NEW p \in Procs, Acquire(p) PROVE CopyInv'
  BY <1>16 DEF Acquire, CopyInv, VarsTyped, world, Restoring
<1>17. ASSUME NEW p \in Procs, EnableFresh(p) PROVE CopyInv'
  BY <1>17 DEF EnableFresh, Enabling, Continue, Goto, CopyInv, VarsTyped, world, Restoring
<1>18. ASSUME NEW p \in Procs, WriteServer(p) PROVE CopyInv'
  BY <1>18 DEF WriteServer, Continue, Goto, CopyInv, VarsTyped, world, Restoring
<1>19. ASSUME NEW p \in Procs, RestoreOff(p) PROVE CopyInv'
  BY <1>19 DEF RestoreOff, Continue, Goto, CopyInv, VarsTyped, world, Restoring
<1>20. ASSUME NEW p \in Procs, RestoreServer(p) PROVE CopyInv'
  BY <1>20 DEF RestoreServer, Continue, Goto, CopyInv, VarsTyped, world, Restoring
<1>21. ASSUME NEW p \in Procs, RestoreOverride(p) PROVE CopyInv'
  BY <1>21 DEF RestoreOverride, Continue, Goto, CopyInv, VarsTyped, world, Restoring
<1>22. ASSUME NEW p \in Procs, RestoreEnable(p) PROVE CopyInv'
  BY <1>22 DEF RestoreEnable, Continue, Goto, CopyInv, VarsTyped, world, Restoring
<1>23. ASSUME NEW p \in Procs, AdoptOwned(p) PROVE CopyInv'
  <2>1. OwnedPending(p) = file /\ Engines(p) /\ call[p].then # "snapshot"
    BY <1>23, OneSnapshot
       DEF AdoptOwned, Engines, SoleInv, CallFits, EnableCall, CopyInv, Restoring
  <2>2. /\ pc' = [pc EXCEPT ![p] = "w_off"] /\ mem' = [mem EXCEPT ![p] = file]
        /\ UNCHANGED <<file, life, tmp, snap, call>>
    BY <1>23, <2>1 DEF AdoptOwned, Remember, Goto, world
  <2>3. life[p] \in {"up", "exit1"}
    BY <1>23 DEF AdoptOwned, SoleInv, CallFits
  <2> QED BY <2>1, <2>2, <2>3 DEF CopyInv, VarsTyped, Restoring
<1>24. ASSUME NEW p \in Procs, EnableRecovers(p) PROVE CopyInv'
  <2>1. mem[p] = NoSnap
    BY <1>24, OneSnapshot
       DEF EnableRecovers, Enabling, Engines, SoleInv, CallFits, EnableCall, CopyInv, Restoring
  <2>2. /\ pc' = [pc EXCEPT ![p] = "r_off"] /\ tmp' = [tmp EXCEPT ![p] = file]
        /\ snap' = [snap EXCEPT ![p] = file] /\ file # NoSnap
        /\ \A q \in Procs \ {p} : call'[q] = call[q]
        /\ UNCHANGED <<file, life, mem>>
    BY <1>24 DEF EnableRecovers, Enabling, Goto, world, VarsTyped
  <2> QED BY <2>1, <2>2 DEF CopyInv, VarsTyped, Restoring
<1>25. ASSUME NEW p \in Procs, TakeSnapshot(p) PROVE CopyInv'
  <2>1. Engines(p) /\ call[p].then # "snapshot" /\ life[p] \in {"up", "exit1"} /\ Alive(p)
    BY <1>25
       DEF TakeSnapshot, Engines, SoleInv, CallFits, EnableCall, CopyInv, Restoring, OwnerInv,
           Backed, Intact
  <2>2. /\ pc' = [pc EXCEPT ![p] = "w_off"] /\ mem' = [mem EXCEPT ![p] = file'] /\ file = NoSnap
        /\ \A q \in Procs \ {p} : call'[q] = call[q]
        /\ call'[p].then = call[p].then
        /\ UNCHANGED <<life, tmp, snap>>
    BY <1>25, <2>1 DEF TakeSnapshot, Remember, Goto, VarsTyped, Calls, CopyInv
  <2>3. \A q \in Procs \ {p} : life[q] \notin {"up", "exit1"} /\ pc[q] = "idle"
    BY <2>1, Alone DEF Alive
  <2> QED BY <2>1, <2>2, <2>3 DEF CopyInv, VarsTyped, Restoring
<1>26. ASSUME NEW p \in Procs, DisableBegins(p) PROVE CopyInv'
  <2>1. /\ pc' = [pc EXCEPT ![p] = "r_off"] /\ snap' = [snap EXCEPT ![p] = file] /\ file # NoSnap
        /\ UNCHANGED <<file, life, mem, tmp, call>>
    BY <1>26, OneSnapshot DEF DisableBegins, Disabling, Goto, world
  <2> QED BY <1>26, <2>1 DEF DisableBegins, Disabling, CopyInv, VarsTyped, Restoring
<1>27. ASSUME NEW p \in Procs, FailsAndRollsBack(p) PROVE CopyInv'
  <2>1. /\ pc' = [pc EXCEPT ![p] = "r_off"] /\ snap' = [snap EXCEPT ![p] = file] /\ file # NoSnap
        /\ UNCHANGED <<file, life, mem, tmp>>
    BY <1>27, OneSnapshot DEF FailsAndRollsBack, Goto, world, Writing, Backed, Intact
  <2>2. call' = [call EXCEPT ![p] = [call[p] EXCEPT !.then = "raise"]]
    BY <1>27 DEF FailsAndRollsBack
  <2>3. call'[p].then = "raise" /\ \A q \in Procs \ {p} : call'[q] = call[q]
    BY <2>2 DEF VarsTyped, Calls
  <2> QED BY <2>1, <2>3 DEF CopyInv, VarsTyped, Restoring
<1>28. ASSUME NEW p \in Procs, Start(p) PROVE CopyInv'
  BY <1>28 DEF Start, CopyInv, VarsTyped, world
<1>29. ASSUME NEW p \in Procs, Quit(p) PROVE CopyInv'
  BY <1>29 DEF Quit, CopyInv, VarsTyped, world
<1>30. ASSUME NEW p \in Procs, Crash(p) PROVE CopyInv'
  BY <1>30 DEF Crash, Forget, CopyInv, VarsTyped, world, Restoring
<1>31. ASSUME NEW p \in Procs, WriteOff(p) PROVE CopyInv'
  <2>1. CASE call[p].op = "suspend"
    <3>1. Finish(p, TRUE) /\ TRUE \in BOOLEAN /\ Alive(p) /\ UNCHANGED <<file, mem>>
      BY <1>31, <2>1 DEF WriteOff, OwnerInv
    <3> QED BY <3>1, FinishCopy
  <2>2. CASE call[p].op # "suspend"
    BY <1>31, <2>2 DEF WriteOff, Continue, Goto, CopyInv, VarsTyped, Restoring
  <2> QED BY <2>1, <2>2
<1>32. ASSUME NEW p \in Procs, WriteOverride(p) PROVE CopyInv'
  <2>1. CASE call[p].op # "resume"
    <3>1. Finish(p, TRUE) /\ TRUE \in BOOLEAN /\ Alive(p) /\ UNCHANGED <<file, mem>>
      BY <1>32, <2>1 DEF WriteOverride, OwnerInv
    <3> QED BY <3>1, FinishCopy
  <2>2. CASE call[p].op = "resume"
    BY <1>32, <2>2 DEF WriteOverride, Continue, Goto, CopyInv, VarsTyped, Restoring
  <2> QED BY <2>1, <2>2
<1>33. ASSUME NEW p \in Procs, Unlink(p) PROVE CopyInv'
  <2>1. file' = NoSnap /\ Alive(p)
    BY <1>33 DEF Unlink, CopyInv, Restoring, Token, OwnerInv
  <2>2. \A q \in Procs \ {p} : life[q] \notin {"up", "exit1"} /\ pc[q] = "idle" /\ tmp[q] = NoSnap
    BY <2>1, Alone DEF CopyInv, Alive
  <2>3. \A q \in Procs \ {p} : /\ mem'[q] = mem[q] /\ life'[q] = life[q] /\ pc'[q] = pc[q]
                                /\ tmp'[q] = tmp[q]
    BY <1>33 DEF Unlink, Goto, Finish, Forget, VarsTyped
  <2>4. pc'[p] \in {"idle", "snapshot"} /\ tmp'[p] = NoSnap
    BY <1>33 DEF Unlink, Goto, Finish, Forget, VarsTyped
  <2>5. call'[p].then # "snapshot"
    BY <1>33 DEF Unlink, Finish, Forget, NoCall, VarsTyped, Calls
  <2>6. CASE life[p] \in {"up", "exit1"}
    <3>1. mem'[p] = NoSnap
      BY <1>33, <2>6 DEF Unlink, Engines, SoleInv, CallFits, CopyInv, VarsTyped, Restoring
    <3> QED BY <2>1, <2>2, <2>3, <2>4, <2>5, <3>1 DEF CopyInv, Restoring
  <2>7. CASE life[p] \notin {"up", "exit1"}
    <3>1. call[p].op = "recover" /\ mem'[p] = mem[p] /\ call[p].then # "snapshot"
      BY <1>33, <2>7 DEF Unlink, Engines, SoleInv, CallFits, EnableCall, Restoring, VarsTyped
    <3>2. life'[p] \notin {"exit2", "dead"} => mem[p] = NoSnap
      BY <1>33, <2>1, <2>7, <3>1 DEF Unlink, Finish, AfterCall, CopyInv, VarsTyped, Alive
    <3> QED BY <2>1, <2>2, <2>3, <2>4, <2>5, <3>1, <3>2 DEF CopyInv, Restoring
  <2> QED BY <2>6, <2>7
<1> QED
  BY <1>st, <1>us, <1>fc, <1>1, <1>2, <1>3, <1>4, <1>5, <1>6, <1>7, <1>8, <1>9, <1>10, <1>11,
     <1>12, <1>13, <1>14, <1>15, <1>16, <1>17, <1>18, <1>19, <1>20, <1>21, <1>22, <1>23, <1>24,
     <1>25, <1>26, <1>27, <1>28, <1>29, <1>30, <1>31, <1>32, <1>33
     DEF PlainStep, Plain, Run, Request, Disturb


\* A step that leaves the registry, the file and the progress of a restore alone.
LEMMA UndoFrame ==
  ASSUME UndoInv, UNCHANGED <<reg, file, user>>,
         \A q \in Procs : pc'[q] = pc[q] \/ pc'[q] \notin {"r_override", "r_enable", "unlink"}
  PROVE  UndoInv'
  BY DEF UndoInv

\* Every step beside the reset keeps UndoInv.
LEMMA UndoPlain ==
  ASSUME OneAtATime, VarsTyped, VarsTyped', Backed, OwnerInv, SoleInv, CopyInv, UndoInv, PlainStep
  PROVE  UndoInv'
<1>t. user.ProxyServer # "missing" /\ user.ProxyOverride # "missing"
  BY ConstAssumption DEF VarsTyped
<1>o. \A p, q \in Procs : pc[p] \notin {"idle", "lock"} /\ p # q => pc[q] \in {"idle", "lock"}
  BY DEF Backed, Guarded
<1>st. CASE UNCHANGED vars
  BY <1>st, UndoFrame DEF vars, world
<1>us. ASSUME NEW s \in UserSettings, UserEdits(s) PROVE UndoInv'
  <2>1. \A q \in Procs : pc[q] \in {"idle", "lock"}
    BY <1>us, ConstAssumption DEF UserEdits, Backed, Guarded
  <2> QED BY <1>us, <2>1 DEF UserEdits, UndoInv
<1>fc. CASE FileCorrupted
  BY <1>fc DEF FileCorrupted, OneAtATime, VarsTyped
<1>1. ASSUME NEW p \in Procs, RecoverSkips(p) PROVE UndoInv'
  BY <1>1, UndoFrame DEF RecoverSkips, Finish, VarsTyped, world
<1>2. ASSUME NEW p \in Procs, GuardTimeout(p) PROVE UndoInv'
  BY <1>2, UndoFrame DEF GuardTimeout, Finish, VarsTyped, world
<1>3. ASSUME NEW p \in Procs, NothingToSuspend(p) PROVE UndoInv'
  BY <1>3, UndoFrame DEF NothingToSuspend, Finish, VarsTyped, world
<1>4. ASSUME NEW p \in Procs, EnableRefused(p) PROVE UndoInv'
  BY <1>4, UndoFrame DEF EnableRefused, Finish, VarsTyped, world
<1>5. ASSUME NEW p \in Procs, DisableSkips(p) PROVE UndoInv'
  BY <1>5, UndoFrame DEF DisableSkips, Finish, VarsTyped, world
<1>6. ASSUME NEW p \in Procs, FailsPlain(p) PROVE UndoInv'
  BY <1>6, UndoFrame DEF FailsPlain, Finish, VarsTyped, world
<1>7. ASSUME NEW p \in Procs, EngineResume(p) PROVE UndoInv'
  BY <1>7, UndoFrame DEF EngineResume, Invoke, VarsTyped, world
<1>8. ASSUME NEW p \in Procs, EngineSuspendForTun(p) PROVE UndoInv'
  BY <1>8, UndoFrame DEF EngineSuspendForTun, Invoke, VarsTyped, world
<1>9. ASSUME NEW p \in Procs, EngineSuspend(p) PROVE UndoInv'
  BY <1>9, UndoFrame DEF EngineSuspend, Invoke, VarsTyped, world
<1>10. ASSUME NEW p \in Procs, EngineStop(p) PROVE UndoInv'
  BY <1>10, UndoFrame DEF EngineStop, Invoke, VarsTyped, world
<1>11. ASSUME NEW p \in Procs, PowResume(p) PROVE UndoInv'
  BY <1>11, UndoFrame DEF PowResume, Invoke, VarsTyped, world
<1>12. ASSUME NEW p \in Procs, PowRestore(p) PROVE UndoInv'
  BY <1>12, UndoFrame DEF PowRestore, Invoke, VarsTyped, world
<1>13. ASSUME NEW p \in Procs, ExitStops(p) PROVE UndoInv'
  BY <1>13, UndoFrame DEF ExitStops, Invoke, VarsTyped, world
<1>14. ASSUME NEW p \in Procs, RecoverLoads(p) PROVE UndoInv'
  BY <1>14, UndoFrame DEF RecoverLoads, Invoke, VarsTyped, world
<1>15. ASSUME NEW p \in Procs, Acquire(p) PROVE UndoInv'
  BY <1>15, UndoFrame DEF Acquire, Continue, Goto, VarsTyped, world
<1>16. ASSUME NEW p \in Procs, AdoptOwned(p) PROVE UndoInv'
  BY <1>16, UndoFrame DEF AdoptOwned, Continue, Goto, VarsTyped, world
<1>17. ASSUME NEW p \in Procs, EnableFresh(p) PROVE UndoInv'
  BY <1>17, UndoFrame DEF EnableFresh, Continue, Goto, VarsTyped, world
<1>18. ASSUME NEW p \in Procs, EnableRecovers(p) PROVE UndoInv'
  BY <1>18, UndoFrame DEF EnableRecovers, Continue, Goto, VarsTyped, world
<1>19. ASSUME NEW p \in Procs, DisableBegins(p) PROVE UndoInv'
  BY <1>19, UndoFrame DEF DisableBegins, Continue, Goto, VarsTyped, world
<1>20. ASSUME NEW p \in Procs, FailsAndRollsBack(p) PROVE UndoInv'
  BY <1>20, UndoFrame DEF FailsAndRollsBack, Continue, Goto, VarsTyped, world
<1>21. ASSUME NEW p \in Procs, Start(p) PROVE UndoInv'
  BY <1>21, UndoFrame DEF Start, VarsTyped, world
<1>22. ASSUME NEW p \in Procs, Quit(p) PROVE UndoInv'
  BY <1>22, UndoFrame DEF Quit, VarsTyped, world
<1>23. ASSUME NEW p \in Procs, Crash(p) PROVE UndoInv'
  BY <1>23, UndoFrame DEF Crash, VarsTyped, world
<1>24. ASSUME NEW p \in Procs, WriteOff(p) PROVE UndoInv'
  <2>1. file # NoSnap /\ UNCHANGED <<file, user>> /\ pc[p] \in Writing
    BY <1>24 DEF WriteOff, Writing, Backed, Intact
  <2>2. pc'[p] \in {"idle"} \union Writing /\ \A q \in Procs \ {p} : pc'[q] = pc[q]
    BY <1>24 DEF WriteOff, Continue, Goto, Finish, VarsTyped, Writing
  <2>3. \A q \in Procs : pc'[q] \notin {"r_override", "r_enable", "unlink"}
    BY <1>o, <2>1, <2>2 DEF Writing
  <2> QED BY <2>1, <2>3 DEF UndoInv
<1>25. ASSUME NEW p \in Procs, WriteServer(p) PROVE UndoInv'
  <2>1. file # NoSnap /\ UNCHANGED <<file, user>> /\ pc[p] \in Writing
    BY <1>25 DEF WriteServer, Writing, Backed, Intact
  <2>2. pc'[p] \in {"idle"} \union Writing /\ \A q \in Procs \ {p} : pc'[q] = pc[q]
    BY <1>25 DEF WriteServer, Continue, Goto, Finish, VarsTyped, Writing
  <2>3. \A q \in Procs : pc'[q] \notin {"r_override", "r_enable", "unlink"}
    BY <1>o, <2>1, <2>2 DEF Writing
  <2> QED BY <2>1, <2>3 DEF UndoInv
<1>26. ASSUME NEW p \in Procs, WriteOverride(p) PROVE UndoInv'
  <2>1. file # NoSnap /\ UNCHANGED <<file, user>> /\ pc[p] \in Writing
    BY <1>26 DEF WriteOverride, Writing, Backed, Intact
  <2>2. pc'[p] \in {"idle"} \union Writing /\ \A q \in Procs \ {p} : pc'[q] = pc[q]
    <3>1. PICK l \in {"idle", "w_on"} : pc' = [pc EXCEPT ![p] = l]
      BY <1>26 DEF WriteOverride, Continue, Goto, Finish
    <3> QED
      BY <3>1 DEF VarsTyped, Writing
  <2>3. \A q \in Procs : pc'[q] \notin {"r_override", "r_enable", "unlink"}
    BY <1>o, <2>1, <2>2 DEF Writing
  <2> QED BY <2>1, <2>3 DEF UndoInv
<1>27. ASSUME NEW p \in Procs, WriteOn(p) PROVE UndoInv'
  <2>1. file # NoSnap /\ UNCHANGED <<file, user>> /\ pc[p] \in Writing
    BY <1>27 DEF WriteOn, Writing, Backed, Intact
  <2>2. pc'[p] \in {"idle"} \union Writing /\ \A q \in Procs \ {p} : pc'[q] = pc[q]
    BY <1>27 DEF WriteOn, Continue, Goto, Finish, VarsTyped, Writing
  <2>3. \A q \in Procs : pc'[q] \notin {"r_override", "r_enable", "unlink"}
    BY <1>o, <2>1, <2>2 DEF Writing
  <2> QED BY <2>1, <2>3 DEF UndoInv
<1>28. ASSUME NEW p \in Procs, RestoreOff(p) PROVE UndoInv'
  <2>1. file # NoSnap /\ UNCHANGED <<file, user>> /\ snap[p].vals = user
    BY <1>28 DEF RestoreOff, Restoring, CopyInv, UndoInv
  <2>2. \A q \in Procs \ {p} : pc'[q] \notin {"r_override", "r_enable", "unlink"}
    BY <1>28, <1>o DEF RestoreOff, Continue, Goto, VarsTyped
  <2> QED
    BY <1>28, <1>t, <2>1, <2>2
       DEF RestoreOff, Continue, Goto, Given, UndoInv, VarsTyped, Settings
<1>29. ASSUME NEW p \in Procs, RestoreServer(p) PROVE UndoInv'
  <2>1. file # NoSnap /\ UNCHANGED <<file, user>> /\ snap[p].vals = user
    BY <1>29 DEF RestoreServer, Restoring, CopyInv, UndoInv
  <2>2. \A q \in Procs \ {p} : pc'[q] \notin {"r_override", "r_enable", "unlink"}
    BY <1>29, <1>o DEF RestoreServer, Continue, Goto, VarsTyped
  <2> QED
    BY <1>29, <1>t, <2>1, <2>2
       DEF RestoreServer, Continue, Goto, Given, UndoInv, VarsTyped, Settings
<1>30. ASSUME NEW p \in Procs, RestoreOverride(p) PROVE UndoInv'
  <2>1. file # NoSnap /\ UNCHANGED <<file, user>> /\ snap[p].vals = user
    BY <1>30 DEF RestoreOverride, Restoring, CopyInv, UndoInv
  <2>2. \A q \in Procs \ {p} : pc'[q] \notin {"r_override", "r_enable", "unlink"}
    BY <1>30, <1>o DEF RestoreOverride, Continue, Goto, VarsTyped
  <2> QED
    BY <1>30, <1>t, <2>1, <2>2
       DEF RestoreOverride, Continue, Goto, Given, UndoInv, VarsTyped, Settings
<1>31. ASSUME NEW p \in Procs, RestoreEnable(p) PROVE UndoInv'
  <2>1. file # NoSnap /\ UNCHANGED <<file, user>> /\ snap[p].vals = user
    BY <1>31 DEF RestoreEnable, Restoring, CopyInv, UndoInv
  <2>2. \A q \in Procs \ {p} : pc'[q] \notin {"r_override", "r_enable", "unlink"}
    BY <1>31, <1>o DEF RestoreEnable, Continue, Goto, VarsTyped
  <2> QED
    BY <1>31, <1>t, <2>1, <2>2
       DEF RestoreEnable, Continue, Goto, Given, UndoInv, VarsTyped, Settings
<1>32. ASSUME NEW p \in Procs, TakeSnapshot(p) PROVE UndoInv'
  <2>1. file = NoSnap /\ reg = user /\ file'.vals = reg /\ file' # NoSnap /\ UNCHANGED <<reg, user>>
    <3>1. [owner |-> p, tok |-> spent.tok + 1, vals |-> reg] \in Snaps
      BY DEF VarsTyped, Snaps
    <3> QED BY <1>32, <3>1, NoSnapAssumption DEF TakeSnapshot, CopyInv, UndoInv
  <2>2. \A q \in Procs : pc'[q] \notin {"r_override", "r_enable", "unlink"}
    BY <1>32, <1>o DEF TakeSnapshot, Goto, VarsTyped
  <2> QED BY <2>1, <2>2 DEF UndoInv
<1>33. ASSUME NEW p \in Procs, Unlink(p) PROVE UndoInv'
  <2>1. file' = NoSnap /\ UNCHANGED <<reg, user>>
    BY <1>33 DEF Unlink, CopyInv, Restoring, Token
  <2>2. reg = user
    BY <1>33, ConstAssumption DEF Unlink, UndoInv, VarsTyped, Settings
  <2>3. \A q \in Procs : pc'[q] \notin {"r_override", "r_enable", "unlink"}
    BY <1>33, <1>o DEF Unlink, Goto, Finish, VarsTyped
  <2> QED BY <2>1, <2>2, <2>3 DEF UndoInv
<1> QED
  BY <1>st, <1>us, <1>fc, <1>1, <1>2, <1>3, <1>4, <1>5, <1>6, <1>7, <1>8, <1>9, <1>10, <1>11,
     <1>12, <1>13, <1>14, <1>15, <1>16, <1>17, <1>18, <1>19, <1>20, <1>21, <1>22, <1>23, <1>24,
     <1>25, <1>26, <1>27, <1>28, <1>29, <1>30, <1>31, <1>32, <1>33
     DEF PlainStep, Plain, Run, Request, Disturb

\* A file that was not needed may go.
LEMMA ResetCopy ==
  ASSUME VarsTyped, SoleInv, Intact, CopyInv, UndoInv, NEW p \in Procs, Resets(p), ~orphaned'
  PROVE  CopyInv' /\ UndoInv'
<1>1. /\ UNCHANGED <<reg, user, pc, call, mem, tmp, snap>> /\ pc[p] = "idle" /\ Alive(p)
      /\ life[p] \in Resetting \union {"mutex"}
  BY ResetFrame DEF Alive, Resetting
<1>2. PICK l \in Resetting \union {"mutex", "boot2", "dead"} : life' = [life EXCEPT ![p] = l]
  BY ResetFrame
<1>3. \A q \in Procs : pc[q] = "idle"
  BY <1>1 DEF SoleInv
<1>4. mem[p] = NoSnap /\ \A q \in Procs \ {p} : life[q] \in {"new", "dead"} /\ life'[q] = life[q]
  BY <1>1, <1>2 DEF SoleInv, CopyInv, Alive, VarsTyped, Resetting
<1>5. life'[p] = l
  BY <1>2 DEF VarsTyped
<1>6. CopyInv'
  BY <1>1, <1>3, <1>4, <1>5 DEF CopyInv, Resetting, Restoring
<1>7. UndoInv'
  <2>1. CASE file' = file
    BY <1>1, <2>1 DEF UndoInv
  <2>2. CASE file' # file
    <3>1. file' = NoSnap /\ file # NoSnap /\ reg = file.vals
      BY <2>2, ResetFrame, MovesFrame
    <3> QED BY <1>1, <1>3, <3>1 DEF UndoInv
  <2> QED BY <2>1, <2>2
<1> QED BY <1>6, <1>7

\* All that holds of one instance at a time, while no needed file was taken.
Untaken == Intact /\ CopyInv /\ UndoInv
AloneInv == VarsTyped /\ Sound /\ OwnerInv /\ SoleInv /\ (~orphaned => Untaken)

\* Every step keeps it.
LEMMA AloneNext == ASSUME OneAtATime, AloneInv, [Next]_vars PROVE AloneInv'
<1>1. VarsTyped' /\ Sound' /\ OwnerInv' /\ SoleInv'
  BY TypeNext, SoundNext, OwnerNext, SoleNext DEF AloneInv
<1>2. ASSUME PlainStep, ~orphaned' PROVE Untaken'
  <2>1. Untaken
    BY <1>2, PlainKeeps DEF AloneInv
  <2>2. Backed
    BY <2>1 DEF Untaken, Backed, AloneInv, Sound
  <2>3. Intact'
    BY <1>2, <2>2, BackedNext DEF Backed, AloneInv
  <2>4. CopyInv' /\ UndoInv'
    BY <1>1, <1>2, <2>1, <2>2, CopyPlain, UndoPlain DEF Untaken, AloneInv
  <2> QED BY <2>3, <2>4 DEF Untaken
<1>3. ASSUME NEW p \in Procs, Resets(p), ~orphaned' PROVE Untaken'
  <2>1. Untaken
    BY <1>3, ResetFrame DEF AloneInv, VarsTyped
  <2>2. RestoreInv
    BY <2>1 DEF RestoreInv, AloneInv, Sound, Untaken
  <2>3. Intact'
    BY <1>3, <2>2, RestoreNext DEF AloneInv, RestoreInv
  <2>4. CopyInv' /\ UndoInv'
    BY <1>3, <2>1, ResetCopy DEF AloneInv, Untaken
  <2> QED BY <2>3, <2>4 DEF Untaken
<1> QED BY <1>1, <1>2, <1>3, StepCases DEF AloneInv

\* They hold in every behaviour of one instance at a time.
LEMMA AloneInvariant == ASSUME OneAtATime PROVE Spec => []AloneInv
<1>1. Init => AloneInv
  BY TypeInit, SoundInit, BackedInit, OwnerInit, SoleInit DEF AloneInv, Untaken, Backed
<1>2. AloneInv /\ [Next]_vars => AloneInv'
  BY AloneNext
<1> QED BY <1>1, <1>2, PTL DEF Spec

\* The restore file has exactly the user's own settings from before the first change
\* until every one of them is back, whatever fails and whenever the instance dies
\* (engine.py:378), as long as no reset moved a file that was needed.
THEOREM SnapshotIsExact == OneAtATime => (Spec => []SnapshotExact)
<1> SUFFICES ASSUME OneAtATime PROVE Spec => []SnapshotExact
  OBVIOUS
<1>1. AloneInv => SnapshotExact
  BY DEF AloneInv, Untaken, UndoInv, SnapshotExact
<1> QED BY AloneInvariant, <1>1, PTL

-----------------------------------------------------------------------------
(***************************************************************************)
(* The refinement of ProxyVault                                            *)
(***************************************************************************)
\* What the vault has.
Kept == IF file = NoSnap THEN NoSnap ELSE file.vals

\* The vault is empty when there is no file.
LEMMA KeptEmpty ==
  ASSUME AloneInv
  PROVE  Kept = NoSnap <=> file = NoSnap
  BY NoSnapAssumption DEF AloneInv, VarsTyped, Kept, Snaps

\* An instance with the file of the user's settings may change them.
LEMMA Changes ==
  ASSUME AloneInv, file # NoSnap, UNCHANGED file
  PROVE  Vault!Change
  BY KeptEmpty DEF Kept, Vault!Change

\* A vault begins empty or full.
LEMMA VaultInit == Init => Vault!Init
<1> SUFFICES ASSUME Init PROVE Vault!Init
  OBVIOUS
<1>1. [owner |-> NoOwner, tok |-> 0, vals |-> user] # NoSnap
  <2>1. user \in Settings
    BY ConstAssumption DEF Init, Settings, Texts
  <2> QED BY <2>1, NoSnapAssumption DEF Snaps
<1> QED BY <1>1 DEF Init, Vault!Init

\* Every step beside the reset is a step of the vault or leaves it alone.
LEMMA VaultPlain ==
  ASSUME AloneInv, Untaken, OneAtATime, PlainStep
  PROVE  Vault!Keep \/ UNCHANGED <<reg, file>>
<1> USE DEF Vault!Keep
<1>st. CASE UNCHANGED vars
  BY <1>st DEF vars, world
<1>us. ASSUME NEW s \in UserSettings, UserEdits(s) PROVE Vault!Choose
  BY <1>us DEF UserEdits, Vault!Choose
<1>fc. CASE FileCorrupted
  BY <1>fc DEF FileCorrupted, OneAtATime, AloneInv, VarsTyped
<1>ts. ASSUME NEW p \in Procs, TakeSnapshot(p) PROVE Vault!Save
  <2>1. [owner |-> p, tok |-> spent.tok + 1, vals |-> reg] \in Snaps
    BY DEF AloneInv, VarsTyped, Snaps
  <2> QED BY <1>ts, <2>1, NoSnapAssumption DEF TakeSnapshot, Untaken, CopyInv, Vault!Save
<1>ul. ASSUME NEW p \in Procs, Unlink(p) PROVE Vault!Release
  <2>1. file # NoSnap /\ file' = NoSnap /\ UNCHANGED reg
    BY <1>ul DEF Unlink, Untaken, CopyInv, Restoring, Token
  <2>2. reg = user /\ file.vals = user
    BY <1>ul, <2>1, ConstAssumption DEF Unlink, AloneInv, Untaken, UndoInv, VarsTyped, Settings
  <2> QED BY <2>1, <2>2, KeptEmpty DEF Kept, Vault!Release
<1>wr. ASSUME NEW p \in Procs, WriteOff(p) \/ WriteServer(p) \/ WriteOverride(p) \/ WriteOn(p)
       PROVE  Vault!Change
  <2>1. file # NoSnap /\ UNCHANGED file
    BY <1>wr DEF WriteOff, WriteServer, WriteOverride, WriteOn, Writing, Untaken, Intact
  <2> QED BY <2>1, Changes
<1>re. ASSUME NEW p \in Procs,
              RestoreOff(p) \/ RestoreServer(p) \/ RestoreOverride(p) \/ RestoreEnable(p)
       PROVE  Vault!Change
  <2>1. file # NoSnap /\ UNCHANGED file
    BY <1>re
       DEF RestoreOff, RestoreServer, RestoreOverride, RestoreEnable, Restoring, Untaken, CopyInv
  <2> QED BY <2>1, Changes
<1>other. ASSUME NEW p \in Procs,
                 \/ RecoverSkips(p) \/ RecoverLoads(p) \/ ExitStops(p)
                 \/ Acquire(p) \/ GuardTimeout(p) \/ AdoptOwned(p) \/ NothingToSuspend(p)
                 \/ EnableFresh(p) \/ EnableRefused(p) \/ EnableRecovers(p)
                 \/ DisableSkips(p) \/ DisableBegins(p) \/ Request(p) \/ Disturb(p)
          PROVE  UNCHANGED <<reg, file>>
  BY <1>other
     DEF Request, Disturb, world, RecoverSkips, RecoverLoads, ExitStops, Acquire, GuardTimeout,
         AdoptOwned, NothingToSuspend, EnableFresh, EnableRefused, EnableRecovers, DisableSkips,
         DisableBegins, Start, Quit, EngineResume, EngineSuspendForTun, EngineSuspend, EngineStop,
         PowResume, PowRestore, FailsPlain, FailsAndRollsBack, Crash
<1> QED
  BY <1>st, <1>us, <1>fc, <1>ts, <1>ul, <1>wr, <1>re, <1>other DEF PlainStep, Plain, Run

\* A step of the reset leaves the vault alone, lets it go or takes it away.
LEMMA VaultNext == AloneInv /\ AloneInv' /\ OneAtATime /\ [Next]_vars => [Vault!Next]_(Vault!vars)
<1> SUFFICES ASSUME AloneInv, AloneInv', OneAtATime, [Next]_vars
             PROVE  Vault!Next \/ UNCHANGED <<reg, file, orphaned>>
  BY DEF Vault!vars
<1>b. orphaned \in BOOLEAN /\ orphaned' \in BOOLEAN
  BY DEF AloneInv, VarsTyped
<1>1. CASE orphaned
  <2>1. orphaned'
    BY <1>1, StepCases, PlainKeeps, ResetFrame DEF AloneInv
  <2> QED BY <1>1, <2>1 DEF Vault!Next
<1>2. CASE ~orphaned /\ PlainStep
  BY <1>2, VaultPlain, PlainKeeps DEF AloneInv, Vault!Next
<1>3. ASSUME NEW p \in Procs, Resets(p), ~orphaned PROVE Vault!Next \/ UNCHANGED <<reg, file, orphaned>>
  <2>1. UNCHANGED <<reg, pc>> /\ ((file' = file /\ orphaned' = orphaned) \/ ResetMoves(p))
    BY <1>3, ResetFrame DEF AloneInv
  <2>2. CASE ResetMoves(p) /\ file # NoSnap
    <3>1. \A q \in Procs : pc[q] = "idle"
      BY <1>3, <2>1, ResetFrame DEF AloneInv, SoleInv, Alive, Resetting
    <3>2. file' = NoSnap /\ (orphaned' <=> reg # file.vals)
      BY <1>3, <2>2, <3>1 DEF ResetMoves, Needed, Writing
    <3>3. CASE reg = file.vals
      BY <1>b, <1>3, <2>1, <2>2, <3>2, <3>3, KeptEmpty DEF Kept, Vault!Next, Vault!Keep, Vault!Release
    <3>4. CASE reg # file.vals
      BY <1>3, <2>1, <2>2, <3>2, <3>4, KeptEmpty DEF Kept, Vault!Next, Vault!Lose
    <3> QED BY <3>3, <3>4
  <2>3. CASE ResetMoves(p) /\ file = NoSnap
    BY <1>b, <2>1, <2>3 DEF ResetMoves, Needed
  <2> QED BY <2>1, <2>2, <2>3
<1> QED BY <1>1, <1>2, <1>3, StepCases

\* The class does what ProxyVault promises: the settings found before the first change
\* are kept, changes happen only while they are, and they are let go when they are live,
\* or once taken away by the reset, after which nothing is promised.
THEOREM VaultImplemented == OneAtATime => (Spec => VaultSpec)
<1> SUFFICES ASSUME OneAtATime PROVE Spec => VaultSpec
  OBVIOUS
<1> QED BY AloneInvariant, VaultInit, VaultNext, PTL DEF Spec, VaultSpec, Vault!Spec

=============================================================================
