---------------------------- MODULE ParallelMasque ----------------------------
(***************************************************************************)
(* The aether processes of a UAC PoW session that runs Parallel MASQUE:    *)
(* the main one, the extra ones a background thread starts one after the   *)
(* other and joins to the sticky router, and the one that replaces a main  *)
(* session that died (uac_desktop/pow/coordinator.py).  A disconnect, a    *)
(* reconnect of the watchdog and a new connect work on the same fields     *)
(* without waiting for those threads.  An AetherProcess object is a        *)
(* number: starting it again ends the process it had.  Abstraction: which  *)
(* address a session uses, its port and where it exits are left out.       *)
(***************************************************************************)
EXTENDS Naturals

CONSTANTS
  MaxEpoch,       \* connects and disconnects
  MaxObject,      \* AetherProcess objects
  Growers,        \* grow threads there may be at once
  Ports           \* extra sessions one grow thread may start

VARIABLES
  epoch, stop,    \* _epoch and _stop
  session,        \* what connect, disconnect or the watchdog is doing
  router,         \* _router runs
  aether,         \* the object in _aether
  extras,         \* the objects in _extras
  alive,          \* objects whose process runs
  made,           \* objects made
  grow,           \* _grow_parallel threads: a reconnect starts another one
  back            \* _bring_back; it is not idle while _main_restarting is set

vars == <<epoch, stop, session, router, aether, extras, alive, made, grow, back>>

Objects == 1..MaxObject
None == 0
Asleep == [pc |-> "idle", epoch |-> 0, proc |-> None, left |-> 0]

TypeOK ==
  /\ epoch \in 0..MaxEpoch /\ stop \in BOOLEAN
  /\ session \in {"idle", "dialled", "up", "lost", "quiet", "again", "ending", "closing"}
  /\ router \in BOOLEAN /\ aether \in 1..made /\ extras \subseteq 1..made
  /\ alive \subseteq 1..made /\ made \in Objects
  /\ grow \in [Growers -> [pc : {"idle", "loop", "wait", "join"}, epoch : 0..MaxEpoch,
                           proc : Objects \union {None}, left : 0..Ports]]
  /\ back \in [pc : {"idle", "loop", "wait", "swap", "old"}, epoch : 0..MaxEpoch,
               proc : Objects \union {None}]

Init ==
  /\ epoch = 0 /\ stop = TRUE /\ session = "idle" /\ router = FALSE
  /\ aether = 1 /\ extras = {} /\ alive = {} /\ made = 1
  /\ grow = [g \in Growers |-> Asleep] /\ back = [pc |-> "idle", epoch |-> 0, proc |-> None]
-----------------------------------------------------------------------------
\* AetherProcess.start of a new object, by the thread that will hold it.
Launch == made < MaxObject /\ made' = made + 1 /\ alive' = alive \union {made + 1}

ParallelAlive(e) == router /\ epoch = e /\ ~stop

(***************************************************************************)
(* connect, disconnect and the reconnect of the watchdog                   *)
(***************************************************************************)
ConnectDials ==
  /\ session = "idle" /\ epoch < MaxEpoch /\ epoch' = epoch + 1 /\ stop' = FALSE
  /\ alive' = alive \union {aether} /\ session' = "dialled"
  /\ UNCHANGED <<router, aether, extras, made, grow, back>>

\* _start_parallel_masque
StartRouter ==
  /\ session = "dialled" /\ session' = "up" /\ router' = TRUE
  /\ \E g \in Growers :
       /\ grow[g].pc = "idle"
       /\ grow' = [grow EXCEPT ![g] = [pc |-> "loop", epoch |-> epoch, proc |-> None,
                                      left |-> Ports]]
  /\ UNCHANGED <<epoch, stop, aether, extras, alive, made, back>>

Disconnect ==
  /\ session \in {"dialled", "up"} /\ epoch < MaxEpoch
  /\ epoch' = epoch + 1 /\ stop' = TRUE /\ session' = "ending"
  /\ UNCHANGED <<router, aether, extras, alive, made, grow, back>>

DisconnectStops ==
  /\ session = "ending" /\ session' = "closing" /\ alive' = alive \ {aether}
  /\ UNCHANGED <<epoch, stop, router, aether, extras, made, grow, back>>

\* _stop_parallel_masque
StopParallel ==
  /\ session \in {"closing", "quiet"}
  /\ session' = IF session = "closing" THEN "idle" ELSE "again"
  /\ router' = FALSE /\ extras' = {} /\ alive' = alive \ extras
  /\ UNCHANGED <<epoch, stop, aether, made, grow, back>>

\* _watch finds the main session dead; _promote_parallel leaves the traffic to
\* the extra sessions, without them _raise_legs_again starts from the beginning.
AliveExtras == extras \intersect alive

Promote ==
  /\ session = "up" /\ aether \notin alive /\ router /\ AliveExtras # {}
  /\ back.pc = "idle" /\ back' = [pc |-> "loop", epoch |-> epoch, proc |-> None]
  /\ UNCHANGED <<epoch, stop, session, router, aether, extras, alive, made, grow>>

Lost ==
  /\ session = "up" /\ aether \notin alive /\ AliveExtras = {} /\ session' = "lost"
  /\ UNCHANGED <<epoch, stop, router, aether, extras, alive, made, grow, back>>

RaiseAgain ==
  /\ \/ session = "lost" /\ session' = "quiet" /\ alive' = alive \ {aether}
     \/ session = "again" /\ session' = "dialled" /\ alive' = alive \union {aether}
  /\ UNCHANGED <<epoch, stop, router, aether, extras, made, grow, back>>

ProcessDies ==
  /\ \E p \in alive : alive' = alive \ {p}
  /\ UNCHANGED <<epoch, stop, session, router, aether, extras, made, grow, back>>
-----------------------------------------------------------------------------
(***************************************************************************)
(* _grow_parallel: one address after the other                             *)
(***************************************************************************)
GrowLaunch(g) ==
  /\ grow[g].pc = "loop" /\ grow[g].left > 0 /\ ParallelAlive(grow[g].epoch) /\ Launch
  /\ grow' = [grow EXCEPT ![g].pc = "wait", ![g].proc = made + 1]
  /\ UNCHANGED <<epoch, stop, session, router, aether, extras, back>>

GrowEnds(g) ==
  /\ grow[g].pc = "loop" /\ (~ParallelAlive(grow[g].epoch) \/ grow[g].left = 0)
  /\ grow' = [grow EXCEPT ![g] = Asleep]
  /\ UNCHANGED <<epoch, stop, session, router, aether, extras, alive, made, back>>

GrowReady(g) ==
  /\ grow[g].pc = "wait" /\ grow[g].proc \in alive /\ ParallelAlive(grow[g].epoch)
  /\ grow' = [grow EXCEPT ![g].pc = "join"]
  /\ UNCHANGED <<epoch, stop, session, router, aether, extras, alive, made, back>>

GrowFails(g) ==
  /\ grow[g].pc = "wait" /\ alive' = alive \ {grow[g].proc}
  /\ grow' = [grow EXCEPT ![g].pc = "loop", ![g].proc = None, ![g].left = @ - 1]
  /\ UNCHANGED <<epoch, stop, session, router, aether, extras, made, back>>

\* Faulty: a session that comes late for its router is forgotten.
JoinRouter_Forgets(p) ==
  /\ extras' = IF router THEN extras \union {p} ELSE extras
  /\ UNCHANGED alive

\* _join_router: under _lock; without a router the process is stopped.
JoinRouter(p) ==
  IF router THEN extras' = extras \union {p} /\ UNCHANGED alive
  ELSE alive' = alive \ {p} /\ UNCHANGED extras

GrowJoins(g) ==
  /\ grow[g].pc = "join" /\ JoinRouter(grow[g].proc)
  /\ grow' = [grow EXCEPT ![g].pc = "loop", ![g].proc = None, ![g].left = @ - 1]
  /\ UNCHANGED <<epoch, stop, session, router, aether, made, back>>
-----------------------------------------------------------------------------
(***************************************************************************)
(* _bring_back: a new object becomes _aether, then the old one is stopped  *)
(***************************************************************************)
BackLaunches ==
  /\ back.pc = "loop" /\ ~stop /\ epoch = back.epoch /\ Launch
  /\ back' = [back EXCEPT !.pc = "wait", !.proc = made + 1]
  /\ UNCHANGED <<epoch, stop, session, router, aether, extras, grow>>

BackEnds ==
  /\ back.pc = "loop" /\ (stop \/ epoch # back.epoch \/ AliveExtras = {})
  /\ back' = [back EXCEPT !.pc = "idle"]
  /\ UNCHANGED <<epoch, stop, session, router, aether, extras, alive, made, grow>>

\* wait_ready looks at _stop before its last probe.
BackReady ==
  /\ back.pc = "wait" /\ ~stop /\ back.proc \in alive /\ back' = [back EXCEPT !.pc = "swap"]
  /\ UNCHANGED <<epoch, stop, session, router, aether, extras, alive, made, grow>>

BackFails ==
  /\ back.pc = "wait" /\ alive' = alive \ {back.proc}
  /\ back' = [back EXCEPT !.pc = "loop", !.proc = None]
  /\ UNCHANGED <<epoch, stop, session, router, aether, extras, made, grow>>

\* The thread holds the object it takes the place of.
BackSwaps ==
  /\ back.pc = "swap" /\ aether' = back.proc
  /\ back' = [back EXCEPT !.pc = "old", !.proc = aether]
  /\ UNCHANGED <<epoch, stop, session, router, extras, alive, made, grow>>

BackStopsOld ==
  /\ back.pc = "old" /\ alive' = alive \ {back.proc}
  /\ back' = [back EXCEPT !.pc = "idle", !.proc = None]
  /\ UNCHANGED <<epoch, stop, session, router, aether, extras, made, grow>>

Next ==
  \/ ConnectDials \/ StartRouter \/ Disconnect \/ DisconnectStops \/ StopParallel
  \/ Promote \/ Lost \/ RaiseAgain \/ ProcessDies
  \/ \E g \in Growers : GrowLaunch(g) \/ GrowEnds(g) \/ GrowReady(g) \/ GrowFails(g)
                       \/ GrowJoins(g)
  \/ BackLaunches \/ BackEnds \/ BackReady \/ BackFails \/ BackSwaps \/ BackStopsOld

Spec == Init /\ [][Next]_vars
-----------------------------------------------------------------------------
Held(p) == (\E g \in Growers : grow[g].proc = p) \/ back.proc = p

(***************************************************************************)
(* No aether process is forgotten: one that runs is the main one or an     *)
(* extra one, which the next disconnect stops, or a thread that is still   *)
(* at work will stop it or hand it over.                                   *)
(***************************************************************************)
NoOrphan == \A p \in alive : p = aether \/ p \in extras \/ Held(p)
=============================================================================
