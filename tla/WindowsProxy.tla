---------------------------- MODULE WindowsProxy ----------------------------
(***************************************************************************)
(* class WindowsProxy of uac_desktop/engine.py and its callers in main.py, *)
(* Engine and PowCoordinator: the override of the user's WinINET proxy     *)
(* settings, the restore file that makes it undoable, and the start-up,    *)
(* shutdown and crash of the application instances that share both; with   *)
(* the one-time reset of uac_desktop/data_reset.py, which main() runs      *)
(* between the two recoveries of a start and which may move the restore    *)
(* file away.                                                              *)
(*                                                                         *)
(* Every registry write, the replacement of the restore file and its       *)
(* removal are steps of their own, so that an instance may die between any *)
(* two of them.  Abstractions:                                             *)
(*   - a process identity (pid and creation time) is an element of Procs,  *)
(*     used once: a restarted application is another element;              *)
(*   - a token is a number, 0 for the empty token;                         *)
(*   - a registry entry is one value, its type included; "absent" is an    *)
(*     entry that does not exist, "missing" an entry that a restore file   *)
(*     does not mention;                                                   *)
(*   - an instance runs one WindowsProxy call at a time: calls of its      *)
(*     threads are serialised by _PROXY_GUARD, and the only code outside   *)
(*     the guard (recover_stale's load) runs in main() alone.              *)
(***************************************************************************)
EXTENDS Integers, FiniteSets

CONSTANTS
  Procs,          \* application instances
  Free,           \* the guard is not held
  NoOwner,        \* owner of a restore file written by a release <= 1.4
  NoSnap,         \* no restore file, or an empty _previous
  UserTexts,      \* server and bypass strings a user may have
  UserSettings,   \* settings a user may choose
  MaxAlive,       \* instances that are alive at once
  OneSession,     \* all instances share a logon session, hence the mutex
  PowUsed,        \* the second engine (PowCoordinator) uses the proxy too
  MaxTok, MaxFail, MaxEdit, MaxCorrupt    \* bounds on what may happen

AppText == "app"             \* the server and bypass strings this app writes
Texts == UserTexts \union {AppText, "absent", "missing"}
Switches == {"on", "off", "absent"}
Settings == [ProxyEnable : Switches, ProxyServer : Texts, ProxyOverride : Texts]

ASSUME ConstAssumption ==
  /\ Free \notin Procs /\ NoOwner \notin Procs
  /\ UserTexts \intersect {AppText, "missing"} = {}
  /\ UserSettings \subseteq
       [ProxyEnable : Switches,
        ProxyServer : UserTexts \union {"absent"},
        ProxyOverride : UserTexts \union {"absent"}]
  /\ OneSession \in BOOLEAN /\ PowUsed \in BOOLEAN
  /\ MaxAlive \in Nat /\ MaxTok \in Nat /\ MaxFail \in Nat
  /\ MaxEdit \in Nat /\ MaxCorrupt \in Nat

\* What _load_state returns for a file that exists.
Snaps == [owner : Procs \union {NoOwner}, tok : Nat, vals : Settings]

ASSUME NoSnapAssumption == NoSnap \notin Snaps \union Settings

\* _normalize_state({}) with the _corrupt mark: only ProxyEnable, off.
CorruptSnap == [owner |-> NoOwner, tok |-> 0,
                vals |-> [ProxyEnable |-> "off", ProxyServer |-> "missing",
                          ProxyOverride |-> "missing"]]

AppOverride == [ProxyEnable |-> "on", ProxyServer |-> AppText,
                ProxyOverride |-> AppText]

VARIABLES
  reg,       \* HKCU Internet Settings
  file,      \* windows-proxy-restore.json, as _load_state reads it
  user,      \* history: the settings the user last chose
  guard,     \* holder of _proxy_state_guard
  life,      \* where each instance is in main()
  session,   \* the engine whose session uses the proxy
  pc, call,  \* the WindowsProxy call each instance runs
  mem,       \* _previous and _state_token of Engine.system_proxy
  tmp,       \* the same two of a short-lived WindowsProxy object
  snap,      \* the local `state` of _disable_locked
  spent,     \* how much of each bound is used
  marker,    \* the one-time reset has left its marker file
  orphaned   \* history: a reset moved a restore file that was still needed

world == <<reg, file, user>>
reset == <<marker, orphaned>>
vars == <<reg, file, user, guard, life, session, pc, call, mem, tmp, snap, spent,
          marker, orphaned>>

Ops == {"resume", "suspend_for_tun", "suspend", "disable", "recover"}
Calls == [op : Ops, obj : {"engine", "temp"},
          then : {"return", "snapshot", "raise"}, fresh : BOOLEAN]
NoCall == [op |-> "disable", obj |-> "temp", then |-> "return", fresh |-> FALSE]

Writing == {"w_off", "w_server", "w_override", "w_on"}
Restoring == {"r_off", "r_server", "r_override", "r_enable", "unlink"}
PCs == {"idle", "lock", "body", "snapshot"} \union Writing \union Restoring
Resetting == {"reset", "moving", "marking"}
Lives == {"new", "boot1"} \union Resetting
           \union {"mutex", "boot2", "up", "exit1", "exit2", "dead"}

VarsTyped ==
  /\ reg \in Settings
  /\ file \in Snaps \union {NoSnap}
  /\ user \in UserSettings
  /\ guard \in Procs \union {Free}
  /\ life \in [Procs -> Lives]
  /\ session \in [Procs -> {"none", "xray", "pow"}]
  /\ pc \in [Procs -> PCs]
  /\ call \in [Procs -> Calls]
  /\ mem \in [Procs -> Snaps \union {NoSnap}]
  /\ tmp \in [Procs -> Snaps \union {NoSnap}]
  /\ snap \in [Procs -> Snaps \union {NoSnap}]
  /\ spent \in [tok : Nat, fail : Nat, edit : Nat, corrupt : Nat]
  /\ marker \in BOOLEAN
  /\ orphaned \in BOOLEAN

\* The types, and that a restore has a snapshot to restore.
TypeOK == VarsTyped /\ \A p \in Procs : pc[p] \in Restoring => snap[p] # NoSnap

Alive(p) == life[p] \notin {"new", "dead"}

Init ==
  /\ user \in UserSettings
  /\ \/ reg = user /\ file = NoSnap
     \/ /\ reg = AppOverride         \* an old release ended while overriding
        /\ file = [owner |-> NoOwner, tok |-> 0, vals |-> user]
  /\ guard = Free
  /\ life = [p \in Procs |-> "new"]
  /\ session = [p \in Procs |-> "none"]
  /\ pc = [p \in Procs |-> "idle"]
  /\ call = [p \in Procs |-> NoCall]
  /\ mem = [p \in Procs |-> NoSnap]
  /\ tmp = [p \in Procs |-> NoSnap]
  /\ snap = [p \in Procs |-> NoSnap]
  /\ spent = [tok |-> 0, fail |-> 0, edit |-> 0, corrupt |-> 0]
  /\ marker \in BOOLEAN
  /\ orphaned = FALSE
-----------------------------------------------------------------------------
(* The object a call works on.  recover_stale, also when _enable_locked    *)
(* calls it, restores through a helper object of its own.                  *)
Engines(p) == call[p].obj = "engine" /\ call[p].then # "snapshot"
Previous(p) == IF Engines(p) THEN mem[p] ELSE tmp[p]
Remember(p, s) ==
  IF Engines(p) THEN mem' = [mem EXCEPT ![p] = s] /\ UNCHANGED tmp
                ELSE tmp' = [tmp EXCEPT ![p] = s] /\ UNCHANGED mem
Token(s) == IF s = NoSnap THEN 0 ELSE s.tok

\* _owned_pending_state, without its assignments.
OwnedPending(p) ==
  LET m == Previous(p)
      st == IF file = CorruptSnap /\ m # NoSnap THEN m ELSE file
  IN IF \/ st = NoSnap
        \/ st.owner # p
        \/ Token(m) # 0 /\ st.tok # Token(m)
     THEN NoSnap ELSE st

MemoryExact(p) == Previous(p) \notin {NoSnap, CorruptSnap}

\* Faulty: an object without a token restores whoever owns the file.
Foreign_AnyOwner(p) ==
  /\ file # NoSnap /\ Token(Previous(p)) # 0
  /\ file.tok # Token(Previous(p))

\* The ownership test of _disable_locked: TRUE when it returns False.
Foreign(p) ==
  LET m == Previous(p) IN
  /\ file # NoSnap
  /\ ~(file = CorruptSnap /\ MemoryExact(p))
  /\ IF Token(m) # 0 THEN file.tok # Token(m)
                     ELSE file.owner \notin {NoOwner, p}

\* The `state` that _disable_locked restores.
StateToRestore(p) ==
  IF file = NoSnap \/ (file = CorruptSnap /\ MemoryExact(p))
  THEN Previous(p) ELSE file

\* Faulty: a file of a release <= 1.4 is never recovered.
Stale_NoLegacy(p, s) == s.owner # NoOwner /\ ~Alive(s.owner)

\* recover_stale's test on a file without a strict owner.
Stale(p, s) ==
  IF s.owner # NoOwner THEN ~Alive(s.owner)
                       ELSE \A q \in Procs \ {p} : ~Alive(q)
-----------------------------------------------------------------------------
(* Where main() goes when a call of its own returns or raises.             *)
MutexTaken ==                    \* acquire_single_instance
  OneSession /\ \E q \in Procs : life[q] \in {"boot2", "up", "exit1", "exit2"}

AfterCall(p, ok) ==
  IF life[p] = "boot1" THEN "reset"        \* main.py:87, in a try
  ELSE IF life[p] = "boot2" THEN IF ok THEN "up" ELSE "dead"  \* not in a try
  ELSE IF life[p] = "exit1" THEN "exit2"
  ELSE IF life[p] = "exit2" THEN "dead"
  ELSE life[p]

SessionAfter(p, ok) ==
  IF life[p] # "up" \/ call[p].op = "suspend" THEN session[p]
  ELSE IF call[p].op = "disable" THEN "none"
  ELSE IF call[p].obj = "engine" THEN "xray"
  ELSE IF ok THEN "pow" ELSE session[p]

\* The call's locals are gone.
Forget(p) ==
  /\ call' = [call EXCEPT ![p] = NoCall]
  /\ tmp' = [tmp EXCEPT ![p] = NoSnap]
  /\ snap' = [snap EXCEPT ![p] = NoSnap]

Finish(p, ok) ==
  /\ pc' = [pc EXCEPT ![p] = "idle"]
  /\ guard' = IF guard = p THEN Free ELSE guard
  /\ life' = [life EXCEPT ![p] = AfterCall(p, ok)]
  /\ session' = [session EXCEPT ![p] = SessionAfter(p, ok)]
  /\ Forget(p)

Goto(p, l) ==
  pc' = [pc EXCEPT ![p] = l] /\ UNCHANGED <<guard, life, session>>

Continue(p, l) == Goto(p, l) /\ UNCHANGED <<call, tmp, snap>>

Invoke(p, op, obj) ==
  /\ pc[p] = "idle"
  /\ pc' = [pc EXCEPT ![p] = "lock"]
  /\ call' = [call EXCEPT ![p] = [op |-> op, obj |-> obj, then |-> "return",
                                  fresh |-> FALSE]]
-----------------------------------------------------------------------------
Start(p) ==
  /\ life[p] = "new"
  /\ Cardinality({q \in Procs : Alive(q)}) < MaxAlive
  /\ life' = [life EXCEPT ![p] = "boot1"]
  /\ UNCHANGED <<world, guard, session, pc, call, mem, tmp, snap, spent>>

(* main() and run_event_loop: recover_stale() before and after the mutex,  *)
(* and recover_stale(expected_pid, expected_create_time) at the very end.  *)
(* The file is loaded and judged before the guard is taken.                *)
Recoverable(p) ==
  /\ file # NoSnap
  /\ IF life[p] = "exit2" THEN file.owner = p ELSE Stale(p, file)

RecoverSkips(p) ==
  /\ pc[p] = "idle" /\ life[p] \in {"boot1", "boot2", "exit2"}
  /\ ~Recoverable(p)
  /\ Finish(p, TRUE)
  /\ UNCHANGED <<world, mem, spent>>

RecoverLoads(p) ==
  /\ life[p] \in {"boot1", "boot2", "exit2"}
  /\ Recoverable(p)
  /\ Invoke(p, "recover", "temp")
  /\ tmp' = [tmp EXCEPT ![p] = file]
  /\ UNCHANGED <<world, guard, life, session, mem, snap, spent>>

(* data_reset.run(): once per data folder, never beside a running instance *)
(* of the session, and never under _PROXY_GUARD.                           *)
Advance(p, l) ==
  /\ pc[p] = "idle"
  /\ life' = [life EXCEPT ![p] = l]
  /\ UNCHANGED <<reg, user, guard, session, pc, call, mem, tmp, snap>>

ResetChecks(p) ==
  /\ life[p] = "reset"
  /\ Advance(p, IF marker \/ MutexTaken THEN "mutex"
                ELSE IF file # NoSnap THEN "moving" ELSE "marking")
  /\ UNCHANGED <<file, spent, reset>>

\* The restore file of a start still matters while Windows does not have the
\* settings in it, or while some instance is about to write its override.
Needed ==
  file # NoSnap /\ (reg # file.vals \/ \E q \in Procs : pc[q] \in Writing)

ResetMoves(p) ==
  /\ life[p] = "moving"
  /\ file' = NoSnap
  /\ orphaned' = (orphaned \/ Needed)
  /\ Advance(p, "marking")
  /\ UNCHANGED <<spent, marker>>

ResetMarks(p) ==
  /\ life[p] = "marking"
  /\ marker' = TRUE
  /\ Advance(p, "mutex")
  /\ UNCHANGED <<file, spent, orphaned>>

\* A file that cannot be moved stays; without a backup folder or when the
\* marker cannot be written, the next start tries again.
ResetFails(p) ==
  /\ spent.fail < MaxFail
  /\ spent' = [spent EXCEPT !.fail = @ + 1]
  /\ \/ life[p] = "moving" /\ Advance(p, "marking")
     \/ life[p] \in {"reset", "moving", "marking"} /\ Advance(p, "mutex")
  /\ UNCHANGED <<file, reset>>

\* main.py:110: a second instance of the session says so and ends.
EnterMutex(p) ==
  /\ life[p] = "mutex"
  /\ Advance(p, IF MutexTaken THEN "dead" ELSE "boot2")
  /\ UNCHANGED <<file, spent, reset>>

\* Engine.enable_system_proxy
EngineResume(p) ==
  /\ life[p] = "up" /\ session[p] # "pow" /\ spent.tok < MaxTok
  /\ Invoke(p, "resume", "engine")
  /\ UNCHANGED <<world, guard, life, session, mem, tmp, snap, spent>>

\* Engine.suspend_system_proxy_for_tun
EngineSuspendForTun(p) ==
  /\ life[p] = "up" /\ session[p] # "pow" /\ spent.tok < MaxTok
  /\ Invoke(p, "suspend_for_tun", "engine")
  /\ UNCHANGED <<world, guard, life, session, mem, tmp, snap, spent>>

\* Engine.disable_system_proxy
EngineSuspend(p) ==
  /\ life[p] = "up" /\ session[p] = "xray"
  /\ mem[p] # NoSnap \/ file # NoSnap
  /\ Invoke(p, "suspend", "engine")
  /\ UNCHANGED <<world, guard, life, session, mem, tmp, snap, spent>>

\* Engine._stop_locked, from stop() or from the next start()
EngineStop(p) ==
  /\ life[p] = "up" /\ session[p] # "pow"
  /\ session[p] = "xray" \/ mem[p] # NoSnap \/ file # NoSnap
  /\ Invoke(p, "disable", "engine")
  /\ UNCHANGED <<world, guard, life, session, mem, tmp, snap, spent>>

\* PowCoordinator._enable_proxy, after _stop_xray_first
PowResume(p) ==
  /\ PowUsed /\ life[p] = "up" /\ session[p] # "xray" /\ spent.tok < MaxTok
  /\ Invoke(p, "resume", "temp")
  /\ tmp' = [tmp EXCEPT ![p] = NoSnap]
  /\ UNCHANGED <<world, guard, life, session, mem, snap, spent>>

\* PowCoordinator._restore_windows_proxy
PowRestore(p) ==
  /\ life[p] = "up" /\ session[p] = "pow"
  /\ Invoke(p, "disable", "temp")
  /\ tmp' = [tmp EXCEPT ![p] = NoSnap]
  /\ UNCHANGED <<world, guard, life, session, mem, snap, spent>>

\* run_event_loop's finally: engine.stop(), which restores when it is pending.
Quit(p) ==
  /\ pc[p] = "idle" /\ life[p] = "up"
  /\ life' = [life EXCEPT ![p] = "exit1"]
  /\ UNCHANGED <<world, guard, session, pc, call, mem, tmp, snap, spent>>

ExitStops(p) ==
  /\ life[p] = "exit1"
  /\ Invoke(p, "disable", "engine")
  /\ UNCHANGED <<world, guard, life, session, mem, tmp, snap, spent>>
-----------------------------------------------------------------------------
\* Faulty: the guard is entered without waiting for its holder.
Acquire_NoWait(p) ==
  /\ pc[p] = "lock"
  /\ guard' = p
  /\ pc' = [pc EXCEPT ![p] = "body"]
  /\ UNCHANGED <<world, life, session, call, mem, tmp, snap, spent>>

(* _proxy_state_guard                                                      *)
Acquire(p) ==
  /\ pc[p] = "lock" /\ guard = Free
  /\ guard' = p
  /\ pc' = [pc EXCEPT ![p] = "body"]
  /\ UNCHANGED <<world, life, session, call, mem, tmp, snap, spent>>

GuardTimeout(p) ==
  /\ pc[p] = "lock" /\ guard \notin {Free, p}
  /\ Finish(p, FALSE)
  /\ UNCHANGED <<world, mem, spent>>

(* resume, suspend_for_tun and suspend on a state this process owns        *)
AdoptOwned(p) ==
  /\ pc[p] = "body" /\ call[p].op \in {"resume", "suspend_for_tun", "suspend"}
  /\ OwnedPending(p) # NoSnap
  /\ Remember(p, OwnedPending(p))
  /\ Goto(p, "w_off")
  /\ UNCHANGED <<world, call, snap, spent>>

NothingToSuspend(p) ==
  /\ pc[p] = "body" /\ call[p].op = "suspend" /\ OwnedPending(p) = NoSnap
  /\ Finish(p, TRUE)
  /\ UNCHANGED <<world, mem, spent>>

(* _enable_locked                                                          *)
Enabling(p) ==
  /\ pc[p] = "body" /\ call[p].op \in {"resume", "suspend_for_tun"}
  /\ OwnedPending(p) = NoSnap

\* Faulty: a stale file is overwritten instead of recovered.
EnableFresh_OverStale(p) ==
  /\ Enabling(p) /\ (file # NoSnap => Stale(p, file))
  /\ Continue(p, "snapshot")
  /\ UNCHANGED <<world, mem, spent>>

EnableFresh(p) ==
  /\ Enabling(p) /\ file = NoSnap
  /\ Continue(p, "snapshot")
  /\ UNCHANGED <<world, mem, spent>>

EnableRefused(p) ==
  /\ Enabling(p) /\ file # NoSnap /\ ~Stale(p, file)
  /\ Finish(p, FALSE)
  /\ UNCHANGED <<world, mem, spent>>

EnableRecovers(p) ==
  /\ Enabling(p) /\ file # NoSnap /\ Stale(p, file)
  /\ call' = [call EXCEPT ![p].then = "snapshot"]
  /\ tmp' = [tmp EXCEPT ![p] = file]
  /\ snap' = [snap EXCEPT ![p] = file]
  /\ Goto(p, "r_off")
  /\ UNCHANGED <<world, mem, spent>>

\* Faulty: the snapshot is read after the proxy was switched off.
TakeSnapshot_Late(p) ==
  LET s == [owner |-> p, tok |-> spent.tok + 1,
            vals |-> [reg EXCEPT !.ProxyEnable = "off"]] IN
  /\ pc[p] = "snapshot"
  /\ file' = s /\ reg' = s.vals
  /\ spent' = [spent EXCEPT !.tok = @ + 1]
  /\ call' = [call EXCEPT ![p].fresh = TRUE]
  /\ Remember(p, s)
  /\ Goto(p, "w_off")
  /\ UNCHANGED <<user, snap>>

\* The snapshot is written before anything else changes.
TakeSnapshot(p) ==
  LET s == [owner |-> p, tok |-> spent.tok + 1, vals |-> reg] IN
  /\ pc[p] = "snapshot"
  /\ file' = s
  /\ spent' = [spent EXCEPT !.tok = @ + 1]
  /\ call' = [call EXCEPT ![p].fresh = TRUE]
  /\ Remember(p, s)
  /\ Goto(p, "w_off")
  /\ UNCHANGED <<reg, user, snap>>

(* _write_app_proxy_values, and the single write of suspend                *)
WriteOff(p) ==
  /\ pc[p] = "w_off"
  /\ reg' = [reg EXCEPT !.ProxyEnable = "off"]
  /\ IF call[p].op = "suspend" THEN Finish(p, TRUE) ELSE Continue(p, "w_server")
  /\ UNCHANGED <<file, user, mem, spent>>

WriteServer(p) ==
  /\ pc[p] = "w_server"
  /\ reg' = [reg EXCEPT !.ProxyServer = AppText]
  /\ Continue(p, "w_override")
  /\ UNCHANGED <<file, user, mem, spent>>

WriteOverride(p) ==
  /\ pc[p] = "w_override"
  /\ reg' = [reg EXCEPT !.ProxyOverride = AppText]
  /\ IF call[p].op = "resume" THEN Continue(p, "w_on") ELSE Finish(p, TRUE)
  /\ UNCHANGED <<file, user, mem, spent>>

WriteOn(p) ==
  /\ pc[p] = "w_on"
  /\ reg' = [reg EXCEPT !.ProxyEnable = "on"]
  /\ Finish(p, TRUE)
  /\ UNCHANGED <<file, user, mem, spent>>
-----------------------------------------------------------------------------
(* _disable_locked                                                         *)
Disabling(p) == pc[p] = "body" /\ call[p].op \in {"disable", "recover"}

DisableSkips(p) ==
  /\ Disabling(p) /\ (Foreign(p) \/ StateToRestore(p) = NoSnap)
  /\ Finish(p, TRUE)
  /\ UNCHANGED <<world, mem, spent>>

\* Faulty: no early return when there is nothing to restore.
DisableBegins_Unchecked(p) ==
  /\ Disabling(p) /\ ~Foreign(p)
  /\ snap' = [snap EXCEPT ![p] = StateToRestore(p)]
  /\ Goto(p, "r_off")
  /\ UNCHANGED <<world, call, mem, tmp, spent>>

DisableBegins(p) ==
  /\ Disabling(p) /\ ~Foreign(p) /\ StateToRestore(p) # NoSnap
  /\ snap' = [snap EXCEPT ![p] = StateToRestore(p)]
  /\ Goto(p, "r_off")
  /\ UNCHANGED <<world, call, mem, tmp, spent>>

RestoreOff(p) ==
  /\ pc[p] = "r_off"
  /\ reg' = [reg EXCEPT !.ProxyEnable = "off"]
  /\ Continue(p, "r_server")
  /\ UNCHANGED <<file, user, mem, spent>>

\* Faulty: an entry that did not exist is not deleted again.
Given_NoDelete(old, new) == IF new \in {"missing", "absent"} THEN old ELSE new

Given(old, new) == IF new = "missing" THEN old ELSE new

RestoreServer(p) ==
  /\ pc[p] = "r_server"
  /\ reg' = [reg EXCEPT !.ProxyServer = Given(@, snap[p].vals.ProxyServer)]
  /\ Continue(p, "r_override")
  /\ UNCHANGED <<file, user, mem, spent>>

RestoreOverride(p) ==
  /\ pc[p] = "r_override"
  /\ reg' = [reg EXCEPT !.ProxyOverride = Given(@, snap[p].vals.ProxyOverride)]
  /\ Continue(p, "r_enable")
  /\ UNCHANGED <<file, user, mem, spent>>

RestoreEnable(p) ==
  /\ pc[p] = "r_enable"
  /\ reg' = [reg EXCEPT !.ProxyEnable = snap[p].vals.ProxyEnable]
  /\ Continue(p, "unlink")
  /\ UNCHANGED <<file, user, mem, spent>>

\* The restore file goes last, unless it is no longer the one restored.
Unlink(p) ==
  /\ pc[p] = "unlink"
  /\ file' = IF file = CorruptSnap \/ snap[p].tok \in {0, Token(file)}
             THEN NoSnap ELSE file
  /\ mem' = IF Engines(p) THEN [mem EXCEPT ![p] = NoSnap] ELSE mem
  /\ IF call[p].then = "snapshot"
     THEN /\ call' = [call EXCEPT ![p].then = "return"]
          /\ tmp' = [tmp EXCEPT ![p] = NoSnap]
          /\ snap' = [snap EXCEPT ![p] = NoSnap]
          /\ Goto(p, "snapshot")
     ELSE Finish(p, call[p].then = "return")
  /\ UNCHANGED <<reg, user, spent>>
-----------------------------------------------------------------------------
(* A registry or file operation raises OSError.                            *)
FailsPlain(p) ==
  /\ pc[p] \in {"snapshot"} \union Writing \union Restoring
  /\ ~(pc[p] \in Writing /\ call[p].fresh)
  /\ spent.fail < MaxFail
  /\ spent' = [spent EXCEPT !.fail = @ + 1]
  /\ Finish(p, FALSE)
  /\ UNCHANGED <<world, mem>>

\* A write of _enable_locked raises: it rolls back with disable().
FailsAndRollsBack(p) ==
  /\ pc[p] \in Writing /\ call[p].fresh
  /\ spent.fail < MaxFail
  /\ spent' = [spent EXCEPT !.fail = @ + 1]
  /\ call' = [call EXCEPT ![p].then = "raise"]
  /\ snap' = [snap EXCEPT ![p] = StateToRestore(p)]
  /\ Goto(p, "r_off")
  /\ UNCHANGED <<world, mem, tmp>>

\* A forced exit at any moment: Windows drops the guard's file lock.
Crash(p) ==
  /\ Alive(p)
  /\ life' = [life EXCEPT ![p] = "dead"]
  /\ session' = [session EXCEPT ![p] = "none"]
  /\ pc' = [pc EXCEPT ![p] = "idle"]
  /\ guard' = IF guard = p THEN Free ELSE guard
  /\ mem' = [mem EXCEPT ![p] = NoSnap]
  /\ Forget(p)
  /\ UNCHANGED <<world, spent>>

\* The user changes the proxy in Windows while nothing overrides it.
UserEdits(s) ==
  /\ guard = Free /\ file = NoSnap /\ spent.edit < MaxEdit
  /\ s # reg
  /\ reg' = s /\ user' = s
  /\ spent' = [spent EXCEPT !.edit = @ + 1]
  /\ UNCHANGED <<file, guard, life, session, pc, call, mem, tmp, snap>>

\* Something outside the application damages the restore file.
FileCorrupted ==
  /\ file \notin {NoSnap, CorruptSnap} /\ spent.corrupt < MaxCorrupt
  /\ file' = CorruptSnap
  /\ spent' = [spent EXCEPT !.corrupt = @ + 1]
  /\ UNCHANGED <<reg, user, guard, life, session, pc, call, mem, tmp, snap>>
-----------------------------------------------------------------------------
\* What main() runs between the two recoveries of a start.
Reset(p) == ResetChecks(p) \/ ResetMoves(p) \/ ResetMarks(p) \/ EnterMutex(p)

\* The code of a WindowsProxy call.
Run(p) ==
  \/ RecoverSkips(p) \/ RecoverLoads(p) \/ ExitStops(p)
  \/ Acquire(p) \/ GuardTimeout(p)
  \/ AdoptOwned(p) \/ NothingToSuspend(p)
  \/ EnableFresh(p) \/ EnableRefused(p) \/ EnableRecovers(p) \/ TakeSnapshot(p)
  \/ WriteOff(p) \/ WriteServer(p) \/ WriteOverride(p) \/ WriteOn(p)
  \/ DisableSkips(p) \/ DisableBegins(p)
  \/ RestoreOff(p) \/ RestoreServer(p) \/ RestoreOverride(p) \/ RestoreEnable(p)
  \/ Unlink(p)

\* The code an instance runs once it has something to run.
Step(p) == (Run(p) /\ UNCHANGED reset) \/ Reset(p)

\* What the user asks of an instance.
Request(p) ==
  \/ Start(p) \/ Quit(p)
  \/ EngineResume(p) \/ EngineSuspendForTun(p) \/ EngineSuspend(p) \/ EngineStop(p)
  \/ PowResume(p) \/ PowRestore(p)

Disturb(p) == FailsPlain(p) \/ FailsAndRollsBack(p) \/ Crash(p)

Next ==
  \/ \E p \in Procs :
       Step(p) \/ ResetFails(p) \/ ((Request(p) \/ Disturb(p)) /\ UNCHANGED reset)
  \/ (\E s \in UserSettings : UserEdits(s)) /\ UNCHANGED reset
  \/ FileCorrupted /\ UNCHANGED reset

Spec == Init /\ [][Next]_vars

\* Threads of a live instance are scheduled; users and crashes are not.
FairSpec == Spec /\ \A p \in Procs : WF_vars(Step(p))
-----------------------------------------------------------------------------
AppOn(s) == s.ProxyEnable = "on" /\ s.ProxyServer = AppText

(* While Windows sends traffic to this app's local proxy there is a restore *)
(* file, so the next start can undo it, whatever crashed, failed or was     *)
(* damaged, and whichever instances and engines shared the settings         *)
(* (_enable_locked, _disable_locked, recover_stale): unless the one-time    *)
(* reset of some start moved the file while it was needed.                  *)
OverrideBacked == AppOn(reg) => file # NoSnap \/ orphaned

(* Why OverrideBacked is inductive.  A snapshot never turns the app's own    *)
(* proxy on; whoever is past the guard's entry holds it; an override is      *)
(* written over an existing file only, a snapshot taken of and a file        *)
(* removed from a registry that does not point at this app.                  *)
SafeSnap(s) == /\ ~AppOn(s.vals)
               /\ s.vals.ProxyServer = "missing" => s.vals.ProxyEnable # "on"

SafeSnaps ==
  /\ file # NoSnap => SafeSnap(file)
  /\ \A p \in Procs : /\ mem[p] # NoSnap => SafeSnap(mem[p])
                      /\ tmp[p] # NoSnap => SafeSnap(tmp[p])
                      /\ snap[p] # NoSnap => SafeSnap(snap[p])

Guarded == \A p \in Procs : pc[p] \notin {"idle", "lock"} => guard = p

RestoreProgress(p) ==
  /\ pc[p] \in Restoring => snap[p] # NoSnap
  /\ pc[p] \in {"r_server", "r_override", "r_enable"} => reg.ProxyEnable = "off"
  /\ (pc[p] \in {"r_override", "r_enable"} /\ snap[p].vals.ProxyServer # "missing")
       => reg.ProxyServer = snap[p].vals.ProxyServer
  /\ pc[p] \in {"snapshot", "unlink"} => ~AppOn(reg)

Intact ==
  /\ SafeSnaps
  /\ reg.ProxyServer # "missing"
  /\ \A p \in Procs : pc[p] \in Writing => file # NoSnap
  /\ \A p \in Procs : RestoreProgress(p)
  /\ AppOn(reg) => file # NoSnap

RestoreInv == Guarded /\ (~orphaned => Intact)

(* engine.py:378: the restore file exists from before the first registry    *)
(* mutation until every original value is back, and it holds the user's own *)
(* settings, never a mixture with the app's: no sequence of failed enables, *)
(* rollbacks and recoveries makes _enable_locked take its snapshot from a   *)
(* half-written registry.  The one-time reset may break it (main.py:98): it *)
(* moves the file of a start whose recovery failed.                         *)
SnapshotExact ==
  ~orphaned => /\ reg # user => file # NoSnap
               /\ file # NoSnap => file.vals = user

(* engine.py:381: "without touching a newer app instance's proxy snapshot": *)
(* the restore file of a live instance is replaced or removed only by that  *)
(* instance (the ownership tests of _disable_locked and _enable_locked), or *)
(* moved by the one-time reset of a start that did not see that instance.   *)
OwnerOnly ==
  [][ (/\ file # NoSnap /\ file' # file /\ file' # CorruptSnap
       /\ file.owner \in Procs /\ Alive(file.owner))
      => guard = file.owner \/ \E p \in Procs : ResetMoves(p) ]_vars

(* What the class promises, free of its details: see ProxyVault.            *)
Vault == INSTANCE ProxyVault
           WITH live <- reg, Empty <- NoSnap, lost <- orphaned,
                saved <- IF file = NoSnap THEN NoSnap ELSE file.vals
VaultSpec == Vault!Spec

(* main.py:87 and 115: an instance that starts gives the user's settings    *)
(* back before it does anything else, or it dies trying; when a write of    *)
(* the first recovery failed, the one-time reset may take the settings away *)
(* before the second one can give them back.                                *)
StartupHeals ==
  \A p \in Procs :
    life[p] = "boot1" ~> \/ life[p] = "dead"
                         \/ life[p] = "up" /\ reg = user
                         \/ life[p] = "up" /\ orphaned /\ spent.fail > 0
=============================================================================
