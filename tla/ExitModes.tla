------------------------------ MODULE ExitModes ------------------------------
(***************************************************************************)
(* How the traffic of a running Xray connection leaves Windows: through    *)
(* the system proxy or through a sing-box TUN, as the two switches of the  *)
(* home page say (uac_desktop/ui.py, uac_desktop/engine.py).  The switches *)
(* may be moved at any time: the connect thread applies them once its      *)
(* route is up, afterwards a short thread per move does, and what these    *)
(* threads report is taken by the page later.  Abstractions: the engine's  *)
(* calls are atomic, as its _lifecycle_lock makes them; the gateway's      *)
(* lease on the TUN is in EngineGateway.tla; giving the proxy back does    *)
(* not fail here, see WindowsProxy.tla; a connect never runs out of its    *)
(* four attempts, because Moves is below four.                             *)
(***************************************************************************)
EXTENDS Naturals, Sequences

CONSTANTS
  Workers,        \* proxy-mode and tun-mode threads there may be at once
  MaxRun,         \* runs and stops of the engine
  Moves,          \* moves of a switch
  Faults          \* steps that fail

VARIABLES
  page,           \* "off", "connecting" or "on": connecting and _ui_running
  want,           \* the saved switches proxy_mode and tun_mode
  active, run,    \* Engine.running and run_id
  tun, proxy,     \* tun_running and _proxy_enabled
  gen,            \* _mode_apply_generation
  lock,           \* who holds _proxy_mode_apply_lock
  conn,           \* the connect thread: its step and its run
  work,           \* the workers
  queue,          \* Bridge signals the page has not taken
  reader,         \* a log reader that has decided to stop the engine
  left            \* moves and failures left; told: an error of the proxy was shown

vars == <<page, want, active, run, tun, proxy, gen, lock, conn, work, queue, reader, left>>
engine == <<active, run, tun, proxy>>
user == <<page, want, gen, left>>

Free == 0
Connecting == 100
Asleep == [pc |-> "idle", tun |-> FALSE, value |-> FALSE, gen |-> 0, run |-> 0]
Steps == {"idle", "start", "probe", "suspend", "undo", "drop", "good", "bad"}

TypeOK ==
  /\ page \in {"off", "connecting", "on"} /\ want \in [proxy : BOOLEAN, tun : BOOLEAN]
  /\ active \in BOOLEAN /\ run \in 0..MaxRun /\ tun \in BOOLEAN /\ proxy \in BOOLEAN
  /\ gen \in Nat /\ lock \in Workers \union {Free, Connecting}
  /\ conn \in [pc : {"idle", "apply", "enabled", "probed", "proxied", "done", "fail"}, run : 0..MaxRun]
  /\ work \in [Workers -> [pc : Steps, tun : BOOLEAN, value : BOOLEAN, gen : Nat, run : 0..MaxRun]]
  /\ queue \in Seq([of : {"proxy", "tun", "state"}, ok : BOOLEAN, value : BOOLEAN,
                    gen : Nat, run : 0..MaxRun])
  /\ reader \in BOOLEAN /\ left \in [moves : 0..Moves, faults : 0..Faults, told : BOOLEAN]

Init ==
  /\ page = "off" /\ want \in [proxy : BOOLEAN, tun : BOOLEAN]
  /\ active = FALSE /\ run = 0 /\ tun = FALSE /\ proxy = FALSE
  /\ gen = 0 /\ lock = Free /\ conn = [pc |-> "idle", run |-> 0]
  /\ work = [w \in Workers |-> Asleep] /\ queue = <<>> /\ reader = FALSE
  /\ left = [moves |-> Moves, faults |-> Faults, told |-> FALSE]
-----------------------------------------------------------------------------
(***************************************************************************)
(* The engine's calls                                                      *)
(***************************************************************************)
EngineStop == /\ run < MaxRun /\ run' = run + 1
              /\ active' = FALSE /\ tun' = FALSE /\ proxy' = FALSE

\* enable_system_proxy or disable_system_proxy, as the switch says.
SetProxy(on) == proxy' = on /\ UNCHANGED <<active, run, tun>>
StartTun == tun' = TRUE /\ UNCHANGED <<active, run, proxy>>
StopTun == tun' = FALSE /\ UNCHANGED <<active, run, proxy>>
SuspendProxy == proxy' = FALSE /\ UNCHANGED <<active, run, tun>>

Fails == left.faults > 0 /\ left' = [left EXCEPT !.faults = @ - 1]
ResumeFails == left.faults > 0 /\ left' = [left EXCEPT !.faults = @ - 1, !.told = TRUE]

Emit(of, ok, value, g, r) ==
  queue' = Append(queue, [of |-> of, ok |-> ok, value |-> value, gen |-> g, run |-> r])
-----------------------------------------------------------------------------
(***************************************************************************)
(* The switches                                                            *)
(***************************************************************************)
\* _begin_mode_apply: every older worker is cancelled.
Begin(isTun) ==
  /\ gen' = gen + 1
  /\ \E w \in Workers :
       /\ work[w].pc = "idle"
       /\ work' = [work EXCEPT ![w] = [pc |-> "start", tun |-> isTun, value |-> FALSE,
                                      gen |-> gen + 1, run |-> run]]

\* _proxy_mode_changed and _tun_mode_changed; the proxy switch is off limits
\* while the TUN is chosen.  Until the page shows a connection the choice is
\* only saved.
Move(isTun) ==
  /\ left.moves > 0 /\ left' = [left EXCEPT !.moves = @ - 1]
  /\ isTun \/ ~want.tun
  /\ want' = IF isTun THEN [want EXCEPT !.tun = ~@] ELSE [want EXCEPT !.proxy = ~@]
  /\ IF page # "connecting" /\ active THEN Begin(isTun) ELSE UNCHANGED <<gen, work>>
  /\ UNCHANGED <<page, engine, lock, conn, queue, reader>>

Connect ==
  /\ page = "off" /\ ~active /\ conn.pc = "idle" /\ run < MaxRun
  /\ page' = "connecting" /\ gen' = gen + 1
  /\ run' = run + 1 /\ active' = TRUE /\ conn' = [pc |-> "apply", run |-> run + 1]
  /\ lock = Free /\ lock' = Connecting
  /\ UNCHANGED <<want, tun, proxy, work, queue, reader, left>>

\* A click on a connection, made or in the making: _cancel_connect_attempt.
Disconnect ==
  /\ page # "off" /\ EngineStop /\ gen' = gen + 1 /\ page' = "off"
  /\ UNCHANGED <<want, lock, conn, work, queue, reader, left>>
-----------------------------------------------------------------------------
(***************************************************************************)
(* _apply_connection_mode_after_probe, by the connect thread               *)
(***************************************************************************)
Alive == conn.run = run
At(pc) == conn.pc = pc /\ Alive
To(pc) == conn' = [conn EXCEPT !.pc = pc]
Rest == UNCHANGED <<page, want, gen, lock, work, queue, reader>>

ConnTun ==
  /\ At("apply") /\ want.tun
  /\ \/ active /\ StartTun /\ To("enabled") /\ UNCHANGED left
     \/ Fails /\ To("fail") /\ UNCHANGED engine
  /\ Rest

\* The choice is looked at again before and after the probe of the TUN.
ConnProbe ==
  /\ At("enabled") /\ want.tun
  /\ \/ To("probed") /\ UNCHANGED left
     \/ Fails /\ To("fail")
  /\ UNCHANGED engine /\ Rest

ConnChangedMind ==
  /\ conn.pc \in {"enabled", "probed"} /\ Alive /\ ~want.tun
  /\ tun' = FALSE /\ proxy' = (proxy \/ (want.proxy /\ active)) /\ To("apply")
  /\ UNCHANGED <<active, run, left>> /\ Rest

ConnSuspends ==
  /\ At("probed") /\ want.tun
  /\ IF tun THEN SuspendProxy /\ To("done") ELSE To("fail") /\ UNCHANGED engine
  /\ UNCHANGED left /\ Rest

\* Without the TUN: what an earlier attempt left of it goes, and the proxy is
\* enabled if it is chosen, and given back if it is not chosen any more.
ConnProxy ==
  /\ At("apply") /\ ~want.tun
  /\ \/ /\ tun' = FALSE /\ proxy' = (proxy \/ (want.proxy /\ active)) /\ UNCHANGED <<active, run>>
        /\ To(IF active THEN "proxied" ELSE "fail") /\ UNCHANGED left
     \/ want.proxy /\ ~proxy /\ ResumeFails /\ To("fail") /\ UNCHANGED engine
  /\ Rest

ConnProxied ==
  /\ At("proxied") /\ SetProxy(proxy /\ want.proxy)
  /\ To(IF want.tun THEN "apply" ELSE "done") /\ UNCHANGED left /\ Rest

\* The attempt is over: the page is told of a connection that still works.
ConnDone ==
  /\ conn.pc = "done" /\ Alive /\ active /\ conn' = [conn EXCEPT !.pc = "idle"]
  /\ lock' = Free /\ Emit("state", TRUE, TRUE, 0, run)
  /\ UNCHANGED <<engine, user, work, reader>>

\* No attempt is left, or the user gave up: the engine is stopped.
ConnFails ==
  /\ conn.pc # "idle" /\ (conn.pc = "fail" \/ ~Alive \/ (conn.pc = "done" /\ ~active))
  /\ conn' = [conn EXCEPT !.pc = "idle"] /\ lock' = Free
  /\ IF Alive THEN EngineStop /\ Emit("state", TRUE, FALSE, 0, run)
     ELSE UNCHANGED <<engine, queue>>
  /\ UNCHANGED <<user, work, reader>>
-----------------------------------------------------------------------------
(***************************************************************************)
(* _queue_proxy_mode_apply and _queue_tun_mode_apply: one worker w         *)
(***************************************************************************)
\* Faulty: a worker goes on although a newer move has taken its place.
Current_Run(w) == active /\ work[w].run = run

Current(w) == active /\ work[w].run = run /\ work[w].gen = gen

Enter(w, pc) == work[w].pc = pc /\ lock = Free /\ Current(w)
Then(w, pc, value) == work' = [work EXCEPT ![w].pc = pc, ![w].value = value]
Quiet == UNCHANGED <<page, want, gen, conn, queue, reader>>

\* _apply_proxy_mode_live
ProxyApplies(w) ==
  /\ Enter(w, "start") /\ ~work[w].tun
  /\ LET on == want.proxy /\ ~want.tun IN
       \/ SetProxy(on) /\ Then(w, "good", on) /\ UNCHANGED left
       \/ on /\ ~proxy /\ ResumeFails /\ Then(w, "bad", on) /\ UNCHANGED engine
  /\ UNCHANGED lock /\ Quiet

\* _apply_tun_mode_live, first branch
TunStarts(w) ==
  /\ Enter(w, "start") /\ work[w].tun /\ want.tun
  /\ \/ StartTun /\ Then(w, "probe", TRUE) /\ UNCHANGED left
     \/ ~tun /\ Fails /\ Then(w, "undo", TRUE) /\ UNCHANGED engine
  /\ UNCHANGED lock /\ Quiet

TunProbed(w) ==
  /\ work[w].pc = "probe" /\ Current(w)
  /\ \/ tun /\ Then(w, "suspend", TRUE) /\ UNCHANGED left
     \/ ~tun /\ Then(w, "undo", TRUE) /\ UNCHANGED left
     \/ tun /\ Fails /\ Then(w, "undo", TRUE)
  /\ UNCHANGED <<engine, lock>> /\ Quiet

TunSuspends(w) ==
  /\ Enter(w, "suspend") /\ want.tun
  /\ IF tun THEN SuspendProxy /\ Then(w, "good", TRUE)
     ELSE Then(w, "undo", TRUE) /\ UNCHANGED engine
  /\ UNCHANGED <<left, lock>> /\ Quiet

TunUndone(w) ==
  /\ Enter(w, "undo") /\ want.tun
  /\ tun' = FALSE /\ proxy' = (proxy \/ want.proxy) /\ Then(w, "bad", TRUE)
  /\ UNCHANGED <<active, run, left, lock>> /\ Quiet

\* Second branch: the proxy first, then the TUN goes, under one lock.
TunEnds(w) ==
  /\ Enter(w, "start") /\ work[w].tun /\ ~want.tun
  /\ \/ SetProxy(want.proxy) /\ Then(w, "drop", FALSE) /\ lock' = w /\ UNCHANGED left
     \/ want.proxy /\ ~proxy /\ ResumeFails /\ Then(w, "bad", FALSE) /\ UNCHANGED <<engine, lock>>
  /\ Quiet

TunDropped(w) ==
  /\ work[w].pc = "drop" /\ lock' = Free /\ UNCHANGED left
  /\ IF Current(w) /\ ~want.tun THEN StopTun /\ Then(w, "good", FALSE)
     ELSE work' = [work EXCEPT ![w] = Asleep] /\ UNCHANGED engine
  /\ Quiet

\* A worker that is no longer current, or whose choice changed, leaves.
Leaves(w) ==
  /\ work[w].pc \in {"start", "probe", "suspend", "undo", "good", "bad"}
  /\ ~Current(w) \/ (work[w].pc \in {"probe", "suspend", "undo"} /\ ~want.tun)
  /\ work' = [work EXCEPT ![w] = Asleep]
  /\ UNCHANGED <<engine, lock, left>> /\ Quiet

Reports(w) ==
  /\ work[w].pc \in {"good", "bad"} /\ Current(w)
  /\ Emit(IF work[w].tun THEN "tun" ELSE "proxy", work[w].pc = "good", work[w].value,
          work[w].gen, work[w].run)
  /\ work' = [work EXCEPT ![w] = Asleep]
  /\ UNCHANGED <<engine, user, lock, conn, reader>>
-----------------------------------------------------------------------------
(***************************************************************************)
(* The page takes a signal                                                 *)
(***************************************************************************)
Take(of) == queue # <<>> /\ Head(queue).of = of /\ queue' = Tail(queue)

\* _set_state: a connection that lacks the TUN it should have is shown as none.
SetState ==
  /\ Take("state")
  /\ page' = IF Head(queue).value /\ active /\ (want.tun => tun) THEN "on" ELSE "off"
  /\ IF page' = "on" /\ ~want.tun THEN Begin(FALSE) ELSE UNCHANGED <<gen, work>>
  /\ UNCHANGED <<want, engine, lock, conn, reader, left>>

\* _proxy_mode_apply_finished and _tun_mode_apply_finished: after a failure
\* the switch goes to what is the case.
Finished(of) ==
  /\ Take(of)
  /\ LET s == Head(queue) IN
       want' = IF s.gen = gen /\ s.run = run /\ ~s.ok /\ s.value = want[of]
               THEN [want EXCEPT ![of] = IF of = "tun" THEN tun ELSE ~s.value] ELSE want
  /\ UNCHANGED <<page, engine, gen, lock, conn, work, reader, left>>
-----------------------------------------------------------------------------
(***************************************************************************)
(* _read_logs and _read_tun_logs: a process ends by itself, and its reader *)
(* decides under the lock but stops the engine after it has left it        *)
(***************************************************************************)
ProcessDies ==
  /\ ~reader /\ reader' = TRUE /\ Fails
  /\ \/ tun /\ tun' = FALSE /\ UNCHANGED <<active, run, proxy>>
     \/ active /\ active' = FALSE /\ UNCHANGED <<run, tun, proxy>>
  /\ UNCHANGED <<page, want, gen, lock, conn, work, queue>>

ReaderStops ==
  /\ reader /\ reader' = FALSE /\ EngineStop /\ Emit("state", TRUE, FALSE, 0, run)
  /\ UNCHANGED <<user, lock, conn, work>>

Next ==
  \/ Connect \/ Disconnect \/ (\E isTun \in BOOLEAN : Move(isTun))
  \/ ConnTun \/ ConnProbe \/ ConnChangedMind \/ ConnSuspends \/ ConnProxy \/ ConnProxied
  \/ ConnDone \/ ConnFails
  \/ \E w \in Workers :
       \/ ProxyApplies(w) \/ TunStarts(w) \/ TunProbed(w) \/ TunSuspends(w) \/ TunUndone(w)
       \/ TunEnds(w) \/ TunDropped(w) \/ Leaves(w) \/ Reports(w)
  \/ SetState \/ Finished("proxy") \/ Finished("tun")
  \/ ProcessDies \/ ReaderStops

Spec == Init /\ [][Next]_vars
-----------------------------------------------------------------------------
Settled == /\ conn.pc = "idle" /\ queue = <<>> /\ ~reader /\ page = "on"
           /\ \A w \in Workers : work[w].pc = "idle"

(***************************************************************************)
(* However the switches were moved and whatever failed, once all is quiet  *)
(* the exit that is shown as chosen is there: with the TUN chosen it runs  *)
(* and the Windows proxy is given back, without it a proxy that is chosen  *)
(* is set for a connection that works, unless an error of setting it was   *)
(* shown.                                                                  *)
(***************************************************************************)
ChosenExitThere ==
  Settled => IF want.tun THEN tun /\ ~proxy ELSE active /\ want.proxy => proxy \/ left.told

(***************************************************************************)
(* Why it holds: whatever is missing while all may look quiet is owed by   *)
(* the one thread or signal that belongs to the latest move.               *)
(***************************************************************************)
Sent == {queue[i] : i \in DOMAIN queue}
StateSent == \E s \in Sent : s.of = "state"
Acting(w) == work[w].pc # "idle" /\ Current(w)
Fresh(s) == s.of # "state" /\ active /\ s.run = run /\ s.gen = gen

\* A move has one thread, and that thread one signal.
Gens ==
  /\ \A w \in Workers : work[w].pc # "idle" => work[w].gen \in 1..gen
  /\ \A v, w \in Workers : work[v].pc # "idle" /\ work[w].pc # "idle" /\ v # w => work[v].gen # work[w].gen
  /\ \A w \in Workers : work[w].pc \in {"probe", "suspend", "undo", "drop"} => work[w].tun
  /\ \A s \in Sent : s.of # "state" =>
       s.gen \in 1..gen /\ \A w \in Workers : work[w].pc # "idle" => work[w].gen # s.gen

\* While the connect thread holds the lock the threads of the moves wait for it.
Alone == (\A w \in Workers : ~Acting(w)) /\ (\A s \in Sent : ~Fresh(s))
Locked ==
  /\ conn.pc # "idle" => /\ lock = Connecting /\ (active => conn.run = run)
                         /\ \A w \in Workers : Acting(w) => work[w].pc = "start"
                         /\ \A s \in Sent : ~Fresh(s)
  /\ conn.pc = "proxied" => ~tun
  /\ conn.pc = "done" => ~(tun /\ proxy)
  /\ \A w \in Workers : work[w].pc = "drop" => lock = w
  /\ page = "connecting" => Alone /\ (active /\ conn.pc = "idle" => ~(tun /\ proxy))

\* What the switch will be set to after a failure is what is the case.
Settles(isTun, value) ==
  IF ~isTun THEN value /\ left.told
  ELSE IF value THEN want.proxy => proxy ELSE left.told /\ ~proxy
Failures ==
  /\ \A w \in Workers : Acting(w) /\ work[w].pc = "bad" => Settles(work[w].tun, work[w].value)
  /\ \A s \in Sent : Fresh(s) /\ ~s.ok => Settles(s.of = "tun", s.value)

Steady == active /\ conn.pc = "idle"
Underway(w) == Acting(w) /\ work[w].tun /\ work[w].pc \in {"start", "probe", "suspend", "undo"}
Owed ==
  /\ page = "on" /\ ~active => reader \/ StateSent
  /\ Steady /\ want.tun /\ tun /\ proxy => \E w \in Workers : Underway(w)
  /\ Steady /\ page = "on" /\ ~reader /\ ~StateSent /\ want.tun /\ ~tun =>
       \/ \E w \in Workers : Underway(w)
       \/ \E w \in Workers : Acting(w) /\ work[w].tun /\ work[w].pc = "bad" /\ work[w].value
       \/ \E s \in Sent : Fresh(s) /\ s.of = "tun" /\ ~s.ok /\ s.value
  /\ Steady /\ page = "on" /\ ~StateSent /\ ~want.tun /\ want.proxy /\ ~proxy /\ ~left.told =>
       \E w \in Workers : Acting(w) /\ work[w].pc = "start"

ExitInv == TypeOK /\ Gens /\ Locked /\ Failures /\ Owed
=============================================================================
