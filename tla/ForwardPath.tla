----------------------------- MODULE ForwardPath -----------------------------
(***************************************************************************)
(* The forwarding filter of the Mobile Gateway (ForwardPathHelper of       *)
(* uac_desktop/gateway.py): a thread takes the packets that Windows        *)
(* forwards for the LAN, sends DNS questions for private servers to the    *)
(* resolver and gives the answers the sender they were asked of.  Its      *)
(* owners are "gate", the start and stop of the gateway, and the health    *)
(* checks: a worker starts the filter again when its thread has failed.    *)
(* GatewayRecovery leaves the filter out.  Abstractions: what else the     *)
(* filter does to one packet, the MSS of new connections, is left out; so  *)
(* are questions to other public resolvers, which it does not touch.       *)
(***************************************************************************)
EXTENDS Naturals, Sequences, FiniteSets

CONSTANTS
  Servers,      \* DNS servers of the LAN side: the router, other private ones
  Ports,        \* ports of the client
  MaxOpen,      \* bound on questions without an answer
  Workers,      \* health check threads
  MaxThread,    \* bound on filter threads
  Faults        \* bound on failures of the driver

VARIABLES
  gateway,      \* "off", "starting", "on" or "stopping"
  workers,      \* the health checks that run
  pc,           \* what each owner does
  mine,         \* the thread each owner waits for
  filter,       \* the filter threads: "opening", "taking", "failed", "over"
  told,         \* the threads that were told to stop
  thread,       \* the helper's: its thread, its handle,
  handle,       \* its startup error and whether it is configured
  error, lan,
  flows,        \* the DNS mappings: the server a port of the client asked
  wire,         \* questions and answers on their way
  asks,         \* history: the servers that a port asked since it began anew
  left          \* failures left

helper == <<thread, handle, error, lan>>
dns == <<flows, wire, asks>>
vars == <<gateway, workers, pc, mine, filter, told, helper, dns, left>>

Owners == {"gate"} \cup Workers
Threads == 1..Len(filter)
Alive(t) == t # 0 /\ filter[t] \in {"opening", "taking"}
Running == Alive(thread) /\ ~error
None == [f \in {} |-> 0]

Init ==
  /\ gateway = "off" /\ workers = {} /\ pc = [o \in Owners |-> "idle"] /\ mine = [o \in Owners |-> 0]
  /\ filter = <<>> /\ told = {} /\ thread = 0 /\ handle = 0 /\ error = FALSE /\ lan = FALSE
  /\ flows = None /\ wire = {} /\ asks = {} /\ left = Faults

Go(o, step) == pc' = [pc EXCEPT ![o] = step]

----------------------------------------------------------------------------
(* ForwardPathHelper.stop and start, by any owner. *)

\* stop: the thread is told, its handle is closed.
After == [close |-> "join", undo |-> "undone", end |-> "ended"]
Close(o) ==
  /\ pc[o] \in DOMAIN After
  /\ Go(o, After[pc[o]])
  /\ mine' = [mine EXCEPT ![o] = thread]
  /\ told' = told \cup ({thread} \ {0})
  /\ handle' = 0
  /\ UNCHANGED <<gateway, workers, filter, thread, error, lan, dns, left>>

\* The thread has two seconds to end.  One that still opens the driver may
\* take longer: the helper keeps it then.
Ended(o) ==
  /\ Alive(mine[o]) => filter[mine[o]] = "opening"
  /\ IF Alive(mine[o]) THEN UNCHANGED <<thread, flows, lan, error>>
     ELSE /\ thread' = IF thread = mine[o] THEN 0 ELSE thread
          /\ flows' = None /\ lan' = FALSE /\ error' = FALSE

\* start: after its own stop, a thread that has not ended is an error.
Joined(o) ==
  /\ pc[o] = "join" /\ Ended(o)
  /\ Go(o, IF Alive(thread') THEN "failed" ELSE "make")
  /\ UNCHANGED <<gateway, workers, mine, filter, told, handle, wire, asks, left>>

Make(o) ==
  /\ pc[o] = "make" /\ Len(filter) < MaxThread
  /\ filter' = Append(filter, "opening")
  /\ thread' = Len(filter) + 1 /\ mine' = [mine EXCEPT ![o] = Len(filter) + 1]
  /\ lan' = TRUE /\ error' = FALSE
  /\ Go(o, "wait")
  /\ UNCHANGED <<gateway, workers, told, handle, dns, left>>

\* It waits until its thread is ready, has failed or has ended, or for six
\* seconds; what it looks at then are the helper's fields.
Ready(o) ==
  /\ pc[o] = "wait"
  /\ Go(o, IF filter[mine[o]] # "opening" /\ Running THEN "done" ELSE "undo")
  /\ UNCHANGED <<gateway, workers, mine, filter, told, helper, dns, left>>

Undone(o) ==
  /\ pc[o] = "undone" /\ Ended(o) /\ Go(o, "failed")
  /\ UNCHANGED <<gateway, workers, mine, filter, told, handle, wire, asks, left>>

----------------------------------------------------------------------------
(* The filter thread. *)

Open(t) ==
  /\ filter[t] = "opening"
  /\ IF t \in told THEN filter' = [filter EXCEPT ![t] = "over"] /\ UNCHANGED handle
     ELSE filter' = [filter EXCEPT ![t] = "taking"] /\ handle' = t
  /\ UNCHANGED <<gateway, workers, pc, mine, told, thread, error, lan, dns, left>>

\* The driver fails: the thread ends, with an error if it is the helper's.
Fail(t) ==
  /\ Alive(t) /\ t \notin told /\ left > 0
  /\ filter' = [filter EXCEPT ![t] = "failed"] /\ left' = left - 1
  /\ error' = (thread = t \/ error)
  /\ handle' = IF handle = t THEN 0 ELSE handle
  /\ UNCHANGED <<gateway, workers, pc, mine, told, thread, lan, dns>>

\* Its handle was closed under it.
Over(t) ==
  /\ filter[t] = "taking" /\ t \in told
  /\ filter' = [filter EXCEPT ![t] = "over"]
  /\ UNCHANGED <<gateway, workers, pc, mine, told, helper, dns, left>>

----------------------------------------------------------------------------
(* The gateway, as far as it uses the filter. *)

Gate(from, to, step) ==
  /\ gateway = from /\ gateway' = to /\ Go("gate", step)
  /\ UNCHANGED <<mine, filter, told, helper, dns, left>>

Start == pc["gate"] = "idle" /\ Len(filter) < MaxThread /\ Gate("off", "starting", "close") /\ UNCHANGED workers

\* The filter runs: a worker begins.
Started ==
  /\ pc["gate"] = "done" /\ Gate("starting", "on", "idle")
  /\ \E w \in Workers \ workers : workers' = workers \cup {w}

\* A start that fails restores what it did, the filter with it.
StartFailed == pc["gate"] = "failed" /\ Gate("starting", "stopping", "end") /\ UNCHANGED workers

Stop == pc["gate"] = "idle" /\ Gate("on", "stopping", "await") /\ UNCHANGED workers

\* stop gives the worker two seconds, which only a wait for a filter that is
\* opening can outlast.
Opening(w) == pc[w] \in {"join", "wait", "undone"} /\ mine[w] # 0 /\ filter[mine[w]] = "opening"
Awaited_NoJoin ==
  /\ pc["gate"] = "await"
  /\ Gate("stopping", "stopping", "end") /\ UNCHANGED workers
Awaited ==
  /\ pc["gate"] = "await" /\ \A w \in workers : Opening(w)
  /\ Gate("stopping", "stopping", "end") /\ UNCHANGED workers

Stopped ==
  /\ pc["gate"] = "ended" /\ Ended("gate")
  /\ gateway' = "off" /\ Go("gate", "idle")
  /\ UNCHANGED <<workers, mine, filter, told, handle, wire, asks, left>>

\* The health check of an active gateway.
Ensure(w) ==
  /\ gateway = "on" /\ w \in workers /\ pc[w] = "idle" /\ ~Running /\ Len(filter) < MaxThread
  /\ Go(w, "close")
  /\ UNCHANGED <<gateway, workers, mine, filter, told, helper, dns, left>>

Ensured(w) ==
  /\ pc[w] \in {"done", "failed"} /\ Go(w, "idle")
  /\ UNCHANGED <<gateway, workers, mine, filter, told, helper, dns, left>>

\* Its loop looks at the stop event that the manager has now: a worker that
\* outlived its gateway goes on in the next one.
Leave(w) ==
  /\ w \in workers /\ pc[w] = "idle" /\ gateway # "on"
  /\ workers' = workers \ {w}
  /\ UNCHANGED <<gateway, pc, mine, filter, told, helper, dns, left>>

----------------------------------------------------------------------------
(* process_packet. *)

Taking == \E t \in Threads : filter[t] = "taking"

\* A question of a client to a private server goes to the resolver; one to the
\* resolver itself goes through as it is.  A port may ask again, the same server
\* or another one, before the answer came.
Private(s) == s \in Servers

\* History: a port begins anew that waits for no answer and has no mapping left.
Anew(protocol, p, s) ==
  /\ \A q \in wire : q.protocol # protocol \/ q.port # p
  /\ (lan /\ Private(s)) \/ <<protocol, p>> \notin DOMAIN flows
Before(protocol, p, s) ==
  IF Anew(protocol, p, s) THEN {a \in asks : a[1] # protocol \/ a[2] # p} ELSE asks
Ask(protocol, p, n, s) ==
  /\ Taking /\ \A q \in wire : q.n # n
  /\ \A m \in 1..(n - 1) : \E q \in wire : q.n = m
  /\ wire' = wire \cup {[kind |-> "question", protocol |-> protocol, port |-> p, n |-> n, asked |-> s,
                         server |-> IF lan /\ Private(s) THEN "resolver" ELSE s]}
  /\ flows' = IF lan /\ Private(s)
              THEN [f \in DOMAIN flows \cup {<<protocol, p>>} |->
                     IF f = <<protocol, p>> THEN s ELSE flows[f]] ELSE flows
  /\ asks' = Before(protocol, p, s) \cup {<<protocol, p, s>>}
  /\ UNCHANGED <<gateway, workers, pc, mine, filter, told, helper, left>>

\* A mapping that was not used for a minute is dropped.
Expire(f) ==
  /\ Taking /\ flows' = [g \in DOMAIN flows \ {f} |-> flows[g]]
  /\ UNCHANGED <<gateway, workers, pc, mine, filter, told, helper, wire, asks, left>>

\* The answer; the mapping of UDP is used once, without one the packet stays
\* as it is.
Original_Port(q) == IF \E f \in DOMAIN flows : f[2] = q.port
                    THEN flows[CHOOSE f \in DOMAIN flows : f[2] = q.port] ELSE q.server
Original(q) == IF <<q.protocol, q.port>> \in DOMAIN flows THEN flows[<<q.protocol, q.port>>] ELSE q.server
Answer(q) ==
  /\ q.kind = "question"
  /\ wire' = (wire \ {q}) \cup {[q EXCEPT !.kind = "answer", !.server =
                                  IF @ = "resolver" /\ Taking /\ lan THEN Original(q) ELSE @]}
  /\ flows' = IF q.protocol = "udp" /\ q.server = "resolver" /\ Taking /\ lan
              THEN [f \in DOMAIN flows \ {<<q.protocol, q.port>>} |-> flows[f]] ELSE flows
  /\ UNCHANGED <<gateway, workers, pc, mine, filter, told, helper, asks, left>>

Received(q) ==
  /\ q.kind = "answer" /\ wire' = wire \ {q}
  /\ UNCHANGED <<gateway, workers, pc, mine, filter, told, helper, flows, asks, left>>

----------------------------------------------------------------------------
Next ==
  \/ \E o \in Owners : Close(o) \/ Joined(o) \/ Make(o) \/ Ready(o) \/ Undone(o)
  \/ \E t \in Threads : Open(t) \/ Fail(t) \/ Over(t)
  \/ Start \/ Started \/ StartFailed \/ Stop \/ Awaited \/ Stopped
  \/ \E w \in Workers : Ensure(w) \/ Ensured(w) \/ Leave(w)
  \/ \E k \in {"udp", "tcp"}, p \in Ports, n \in 1..MaxOpen, s \in Servers \cup {"resolver"} : Ask(k, p, n, s)
  \/ \E f \in DOMAIN flows : Expire(f)
  \/ \E q \in wire : Answer(q) \/ Received(q)

Spec == Init /\ [][Next]_vars

TypeOK ==
  /\ gateway \in {"off", "starting", "on", "stopping"} /\ workers \subseteq Workers
  /\ thread \in {0} \cup Threads /\ handle \in {0} \cup Threads /\ told \subseteq Threads
  /\ mine \in [Owners -> {0} \cup Threads] /\ left \in 0..Faults

\* Once a stop of the gateway has returned no filter goes on taking the packets
\* of this computer's forwarding: each filter that is left has been told to
\* end, the one that was still opening its driver as well.
FilterGone ==
  gateway = "off" /\ (\A w \in Workers : pc[w] = "idle") =>
    \A t \in Threads : Alive(t) => t \in told

\* An answer never comes to a client in the name of a server that was not asked
\* over its protocol and from its port: it is the one the question was for, or
\* the resolver when nothing is known of it any more.  Another server's name it
\* has only when the port asked that server as well before it began anew: one
\* more question, or one to the resolver itself, while a mapping is alive.
AskedOf(q) == {a[3] : a \in {x \in asks : x[1] = q.protocol /\ x[2] = q.port}}
AnsweredByAsked ==
  \A q \in wire : q.kind = "answer" => q.server \in AskedOf(q) \cup {"resolver"}

\* The same of the packets on the wire and of the mappings.
Packets == [kind : {"question", "answer"}, protocol : {"udp", "tcp"}, port : Ports, n : 1..MaxOpen,
            asked : Servers \union {"resolver"}, server : Servers \union {"resolver"}]
Asks == {"udp", "tcp"} \X Ports \X (Servers \union {"resolver"})
Named(k, p, s) == s = "resolver" \/ <<k, p, s>> \in asks
WireInv ==
  /\ wire \subseteq Packets /\ asks \subseteq Asks
  /\ \A q \in wire : Named(q.protocol, q.port, q.server)
  /\ DOMAIN flows \subseteq {"udp", "tcp"} \X Ports
  /\ \A f \in DOMAIN flows : Named(f[1], f[2], flows[f])

\* Why, as long as there is one health check: a filter that takes packets and
\* was not told to end is the helper's, and a check that outlives its gateway
\* only waits for the filter it has begun.
States == {"opening", "taking", "failed", "over"}
Steps == {"idle", "close", "join", "make", "wait", "undo", "undone", "done", "failed"}
FilterTyped ==
  /\ filter \in Seq(States) /\ thread \in 0..Len(filter) /\ error \in BOOLEAN
  /\ mine \in [Owners -> 0..Len(filter)] /\ pc \in [Owners -> Steps \cup {"await", "end", "ended"}]
  /\ gateway \in {"off", "starting", "on", "stopping"}
Phases ==
  /\ gateway \in {"off", "on"} => pc["gate"] = "idle"
  /\ gateway = "starting" => pc["gate"] \in Steps \ {"idle"}
  /\ gateway = "stopping" => pc["gate"] \in {"await", "end", "ended"}
ToldOrOwn == \A t \in Threads : Alive(t) /\ t \notin told => t = thread
FreeToMake ==
  /\ \A o \in Owners : pc[o] = "make" => ~Alive(thread)
  /\ error => ~Alive(thread)
  /\ pc["gate"] = "ended" \/ gateway = "off" => ~Alive(thread) \/ thread \in told
ChecksWait ==
  \A w \in Workers :
    /\ pc[w] \in Steps /\ (pc[w] # "idle" => w \in workers)
    /\ gateway # "on" /\ pc["gate"] # "await" => pc[w] \notin {"close", "join", "make"}
    /\ pc[w] = "close" => ~Alive(thread)
    /\ pc[w] = "join" => ~Alive(mine[w])
FilterInv == FilterTyped /\ Phases /\ ToldOrOwn /\ FreeToMake /\ ChecksWait
=============================================================================
