----------------------------- MODULE PatternCore -----------------------------
(***************************************************************************)
(* The wrong-sequence injector and its local forwarder                     *)
(* (uac_desktop/pattern_core/core.py): sessions that share the choice of   *)
(* an edge address, the capture thread that follows their TCP handshakes   *)
(* and the pool threads that send the fake segment.  Abstractions: a       *)
(* sequence number is a number modulo Modulus, a session carries its       *)
(* ClientHello and nothing else, and what is sent in how many pieces and   *)
(* how the sockets are tuned is left out.  A stop is one step: it waits    *)
(* for the capture thread and the event loop, two seconds each.            *)
(***************************************************************************)
EXTENDS Naturals, Sequences, FiniteSets

CONSTANTS
  Sessions, MaxSessions,  \* clients, and how many may be before their relay
  LastEdge,               \* the edges are 1..LastEdge, in the order of the settings
  Modes,                  \* modes a start may ask for, see Mode
  Modulus, FirstSeq,      \* 2^32, and initial sequence numbers
  Repeat,                 \* fake_repeat
  Attempts,               \* handshakes of one ClientHello under failover
  Starts                  \* starts a behaviour may have

VARIABLES
  on,         \* the listener and the capture run
  mode,       \* what the start asked for
  preferred,  \* _preferred_edge, NoEdge if none
  failed,     \* edges with a _failed_until that is not over
  holder,     \* the session that holds _edge_lock
  pc,         \* where _handle is
  todo,       \* edges _connect_edge_unlocked has still to try, the first at work
  tries,      \* handshakes made for the ClientHello
  flow,       \* InjectiveConnection, with the packets and the wire
  starts

vars == <<on, mode, preferred, failed, holder, pc, todo, tries, flow, starts>>
life == <<on, mode, starts>>
choice == <<preferred, failed, holder>>

Edges == 1..LastEdge
NoEdge == 0
Nobody == "nobody"
NoSeq == Modulus

Mode == [fakes : BOOLEAN, pieces : BOOLEAN, failover : BOOLEAN]
Packet == [inbound : BOOLEAN, kind : {"syn", "synack", "ack", "rst"},
           seq : 0..Modulus - 1, ack : 0..Modulus - 1]
NoFlow == [monitor |-> FALSE, result |-> "", synSeq |-> NoSeq, synAckSeq |-> NoSeq,
           scheduled |-> FALSE, sent |-> FALSE, pool |-> "none", fakes |-> 0, acked |-> 0,
           wire |-> "none", isn |-> 0, captured |-> <<>>, odd |-> FALSE, broken |-> FALSE, late |-> FALSE]

TypeOK ==
  /\ on \in BOOLEAN /\ mode \in Mode /\ starts \in 0..Starts
  /\ preferred \in Edges \union {NoEdge} /\ failed \subseteq Edges
  /\ holder \in Sessions \union {Nobody}
  /\ pc \in [Sessions -> {"idle", "queued", "ask", "want", "try", "dial", "hello", "answer",
                          "relay"}]
  /\ todo \in [Sessions -> Seq(Edges)] /\ tries \in [Sessions -> 0..Attempts]
  /\ \A s \in Sessions :
       /\ flow[s].monitor \in BOOLEAN /\ flow[s].captured \in Seq(Packet)
       /\ flow[s].result \in {"", "fake_data_ack_recv", "unexpected_close"}
       /\ {flow[s].synSeq, flow[s].synAckSeq} \subseteq 0..Modulus
       /\ flow[s].pool \in {"none", "queued", "check", "send"}
       /\ flow[s].wire \in {"none", "syn", "synack", "open"}
       /\ flow[s].fakes \in 0..Repeat /\ flow[s].acked \in 0..Repeat

Quiet(s) == pc' = [pc EXCEPT ![s] = "idle"] /\ todo' = [todo EXCEPT ![s] = <<>>]

Init ==
  /\ on = FALSE /\ mode = [fakes |-> TRUE, pieces |-> FALSE, failover |-> FALSE]
  /\ preferred = NoEdge /\ failed = {} /\ holder = Nobody /\ starts = 0
  /\ pc = [s \in Sessions |-> "idle"] /\ todo = [s \in Sessions |-> <<>>]
  /\ tries = [s \in Sessions |-> 0] /\ flow = [s \in Sessions |-> NoFlow]
-----------------------------------------------------------------------------
(***************************************************************************)
(* start and stop                                                          *)
(***************************************************************************)
Start ==
  /\ ~on /\ starts < Starts /\ starts' = starts + 1 /\ on' = TRUE /\ mode' \in Modes
  /\ preferred' = NoEdge /\ failed' = {}
  /\ UNCHANGED <<holder, pc, todo, tries, flow>>

\* Every flow is given up and every session ends with the loop.
Stop ==
  /\ on /\ on' = FALSE /\ holder' = Nobody
  /\ pc' = [s \in Sessions |-> "idle"] /\ todo' = [s \in Sessions |-> <<>>]
  /\ tries' = [s \in Sessions |-> 0] /\ flow' = [s \in Sessions |-> NoFlow]
  /\ UNCHANGED <<mode, preferred, failed, starts>>
-----------------------------------------------------------------------------
(***************************************************************************)
(* _connect_edge: only one session at a time looks for an edge; while one  *)
(* is preferred every session tries that one alone first.                  *)
(***************************************************************************)
Accept(s) ==
  /\ on /\ pc[s] = "idle" /\ pc' = [pc EXCEPT ![s] = "queued"]
  /\ UNCHANGED <<life, choice, todo, tries, flow>>

Inside == {s \in Sessions : pc[s] \notin {"idle", "queued", "relay"}}

\* Faulty: the handshakes of the session before are counted.
Admit_Counting(s) ==
  /\ pc[s] = "queued" /\ Cardinality(Inside) < MaxSessions
  /\ pc' = [pc EXCEPT ![s] = "ask"] /\ UNCHANGED <<life, choice, todo, tries, flow>>

Admit(s) ==
  /\ pc[s] = "queued" /\ Cardinality(Inside) < MaxSessions
  /\ pc' = [pc EXCEPT ![s] = "ask"] /\ tries' = [tries EXCEPT ![s] = 0]
  /\ UNCHANGED <<life, choice, todo, flow>>

Ask(s) ==
  /\ pc[s] = "ask"
  /\ IF preferred = NoEdge THEN pc' = [pc EXCEPT ![s] = "want"] /\ UNCHANGED todo
     ELSE pc' = [pc EXCEPT ![s] = "try"] /\ todo' = [todo EXCEPT ![s] = <<preferred>>]
  /\ UNCHANGED <<life, choice, tries, flow>>

\* _ordered_edges under the lock, where no edge is preferred.
Sorted(S) == SelectSeq([e \in Edges |-> e], LAMBDA e : e \in S)
OrderedEdges == IF Edges \subseteq failed THEN Sorted(Edges) ELSE Sorted(Edges \ failed)

TakeEdgeLock(s) ==
  /\ pc[s] = "want" /\ holder = Nobody
  /\ IF preferred # NoEdge THEN pc' = [pc EXCEPT ![s] = "ask"] /\ UNCHANGED <<todo, holder>>
     ELSE /\ pc' = [pc EXCEPT ![s] = "try"] /\ todo' = [todo EXCEPT ![s] = OrderedEdges]
          /\ holder' = s
  /\ UNCHANGED <<life, preferred, failed, tries, flow>>

Unlocked(s) == IF holder = s THEN Nobody ELSE holder

\* No edge is left: the session ends, or looks at the others.
NoEdgeLeft(s) ==
  /\ pc[s] = "try" /\ todo[s] = <<>> /\ holder' = Unlocked(s)
  /\ pc' = [pc EXCEPT ![s] = IF holder = s THEN "idle" ELSE "want"]
  /\ UNCHANGED <<life, preferred, failed, todo, tries, flow>>

\* _connect_edge_unlocked: the flow is registered before the connection is made.
Dial(s) ==
  /\ pc[s] = "try" /\ todo[s] # <<>> /\ pc' = [pc EXCEPT ![s] = "dial"]
  /\ IF mode.fakes
     THEN \E n, p \in FirstSeq :
            flow' = [flow EXCEPT ![s] = [NoFlow EXCEPT
                       !.monitor = TRUE, !.wire = "syn", !.isn = p,
                       !.captured = <<[inbound |-> FALSE, kind |-> "syn", seq |-> n,
                                       ack |-> 0]>>]]
     ELSE flow' = [flow EXCEPT ![s] = NoFlow]
  /\ UNCHANGED <<life, choice, todo, tries>>

\* Faulty: the edge stays preferred although it failed.
Blame_Keeps(e) == failed' = failed \union {e} /\ UNCHANGED preferred
Blame(e) ==
  /\ failed' = failed \union {e}
  /\ preferred' = IF preferred = e THEN NoEdge ELSE preferred

\* A timeout, a refusal, or a handshake the capture thread gave up.
DialFails(s) ==
  /\ pc[s] = "dial" /\ flow[s].result # "fake_data_ack_recv"
  /\ Blame(Head(todo[s]))
  /\ pc' = [pc EXCEPT ![s] = "try"] /\ todo' = [todo EXCEPT ![s] = Tail(@)]
  /\ flow' = [flow EXCEPT ![s].monitor = FALSE]
  /\ UNCHANGED <<life, holder, tries>>

Connected(s) ==
  /\ pc[s] = "dial" /\ (mode.fakes => flow[s].result = "fake_data_ack_recv")
  /\ preferred' = Head(todo[s]) /\ failed' = failed \ {Head(todo[s])}
  /\ holder' = Unlocked(s) /\ flow' = [flow EXCEPT ![s].monitor = FALSE]
  /\ pc' = [pc EXCEPT ![s] = "hello"]
  /\ UNCHANGED <<life, todo, tries>>
-----------------------------------------------------------------------------
(***************************************************************************)
(* The rest of _handle                                                     *)
(***************************************************************************)
Hello(s) ==
  /\ pc[s] = "hello"
  /\ pc' = [pc EXCEPT ![s] = IF mode.pieces /\ mode.failover THEN "answer" ELSE "relay"]
  /\ UNCHANGED <<life, choice, todo, tries, flow>>

Answered(s) ==
  /\ pc[s] = "answer" /\ pc' = [pc EXCEPT ![s] = "relay"]
  /\ UNCHANGED <<life, choice, todo, tries, flow>>

\* A socket that cannot name its peer any more blames the preferred edge.
NoAnswer(s) ==
  /\ pc[s] = "answer"
  /\ \/ Blame(Head(todo[s]))
     \/ IF preferred = NoEdge THEN UNCHANGED <<failed, preferred>> ELSE Blame(preferred)
  /\ tries' = [tries EXCEPT ![s] = @ + 1]
  /\ pc' = [pc EXCEPT ![s] = IF tries[s] + 1 < Attempts THEN "ask" ELSE "idle"]
  /\ UNCHANGED <<life, holder, todo, flow>>

\* _relay_pair ends, or the client goes away before.
SessionEnds(s) ==
  /\ pc[s] \in {"hello", "relay"} /\ Quiet(s) /\ flow' = [flow EXCEPT ![s] = NoFlow]
  /\ UNCHANGED <<life, choice, tries>>

Cool(e) ==
  /\ e \in failed /\ failed' = failed \ {e}
  /\ UNCHANGED <<life, preferred, holder, pc, todo, tries, flow>>
-----------------------------------------------------------------------------
(***************************************************************************)
(* The wire (external): packets with a payload are not captured, the fake  *)
(* ones neither.  Strange adds what an orderly handshake does not have.    *)
(***************************************************************************)
After(n) == (n + 1) % Modulus
Captured(s, p) == flow' = [flow EXCEPT ![s].captured = Append(@, p)]
FlowOnly == UNCHANGED <<life, choice, pc, todo, tries>>
Live(s) == pc[s] = "dial" /\ flow[s].wire # "none"

\* The sequence number of the connection: of its SYN, which was the first packet.
Own(s) == IF flow[s].synSeq # NoSeq THEN flow[s].synSeq ELSE flow[s].captured[1].seq
AnAck(s) == [inbound |-> FALSE, kind |-> "ack", seq |-> After(Own(s)),
             ack |-> After(flow[s].isn)]
ASynAck(s) == [inbound |-> TRUE, kind |-> "synack", seq |-> flow[s].isn,
               ack |-> After(Own(s))]

PeerAccepts(s) ==
  /\ Live(s) /\ flow[s].wire = "syn"
  /\ flow' = [flow EXCEPT ![s].wire = "synack", ![s].captured = Append(@, ASynAck(s))]
  /\ FlowOnly

Handshaken(s) ==
  /\ Live(s) /\ flow[s].wire = "synack"
  /\ flow' = [flow EXCEPT ![s].wire = "open", ![s].captured = Append(@, AnAck(s))]
  /\ FlowOnly

\* The peer answers the segment, which is below its window, with where it stands.
PeerAcksFake(s) ==
  /\ Live(s) /\ flow[s].acked < flow[s].fakes
  /\ flow' = [flow EXCEPT ![s].acked = @ + 1, ![s].captured = Append(@,
       [inbound |-> TRUE, kind |-> "ack", seq |-> After(flow[s].isn), ack |-> After(Own(s))])]
  /\ FlowOnly

Strange(s) ==
  /\ Live(s) /\ ~flow[s].odd /\ flow[s].wire # "syn"
  /\ \E p \in {AnAck(s), ASynAck(s), [ASynAck(s) EXCEPT !.kind = "rst"],
               [AnAck(s) EXCEPT !.inbound = TRUE]} :
       flow' = [flow EXCEPT ![s].odd = TRUE, ![s].captured = Append(@, p)]
  /\ FlowOnly
-----------------------------------------------------------------------------
(***************************************************************************)
(* The capture thread, PacketInjector._inject                              *)
(***************************************************************************)
\* connection.lock is held by a pool thread from its first check to its end.
\* Faulty: nobody waits for it.
Unheld_Always(s) == TRUE
Unheld(s) == flow[s].pool \notin {"check", "send"}

\* The numbers of a packet against those of the handshake.
\* Faulty: no wrap.
Follows_NoWrap(n, of) == of # NoSeq /\ n = of + 1
Follows(n, of) == of # NoSeq /\ n = After(of)

Rest(s) == [flow[s] EXCEPT !.captured = Tail(@)]
Abort(s) == [Rest(s) EXCEPT !.monitor = FALSE, !.result = "unexpected_close"]

Inbound(s, p) ==
  LET f == flow[s]
  IN  CASE p.kind = "synack" /\ Follows(p.ack, f.synSeq) ->
             [Rest(s) EXCEPT !.synAckSeq = p.seq]
        [] /\ p.kind = "ack" /\ f.sent /\ Follows(p.seq, f.synAckSeq)
           /\ Follows(p.ack, f.synSeq) ->
             [Rest(s) EXCEPT !.monitor = FALSE, !.result = "fake_data_ack_recv"]
        [] OTHER -> Abort(s)

Outbound(s, p) ==
  LET f == flow[s]
  IN  CASE f.scheduled -> Abort(s)
        [] p.kind = "syn" /\ ~f.scheduled -> [Rest(s) EXCEPT !.synSeq = p.seq]
        [] /\ p.kind = "ack" /\ ~f.scheduled
           /\ Follows(p.seq, f.synSeq) /\ Follows(p.ack, f.synAckSeq) ->
             [Rest(s) EXCEPT !.scheduled = TRUE, !.pool = "queued"]
        [] OTHER -> Abort(s)

Inject(s) ==
  /\ flow[s].captured # <<>> /\ Unheld(s)
  /\ LET p == Head(flow[s].captured)
     IN  flow' = [flow EXCEPT ![s] = IF ~flow[s].monitor THEN Rest(s)
                                     ELSE IF p.inbound THEN Inbound(s, p)
                                     ELSE Outbound(s, p)]
  /\ FlowOnly
-----------------------------------------------------------------------------
(***************************************************************************)
(* _fake_send, a pool thread.  The event loop clears monitor without the   *)
(* lock, so it may do so between the check and the send.                   *)
(***************************************************************************)
FakeBegins(s) ==
  /\ flow[s].pool = "queued" /\ flow' = [flow EXCEPT ![s].pool = "check"] /\ FlowOnly

FakeChecks(s) ==
  /\ flow[s].pool = "check"
  /\ flow' = [flow EXCEPT ![s].pool = IF flow[s].monitor THEN "send" ELSE "none"]
  /\ FlowOnly

\* It is late when the session already speaks on this connection.
FakeSends(s) ==
  /\ flow[s].pool = "send"
  /\ flow' = [flow EXCEPT
       ![s].fakes = @ + 1,
       ![s].late = @ \/ pc[s] \in {"hello", "answer", "relay"},
       ![s].pool = IF flow[s].fakes + 1 < Repeat THEN "check" ELSE "none",
       ![s].sent = flow[s].fakes + 1 = Repeat]
  /\ FlowOnly

\* The driver refuses one: the pool thread ends there, with what was sent so far.
\* History: broken.
FakeFails(s) ==
  /\ flow[s].pool = "send"
  /\ flow' = [flow EXCEPT ![s].pool = "none", ![s].broken = TRUE]
  /\ FlowOnly

Next ==
  \/ Start \/ Stop
  \/ \E s \in Sessions :
       \/ Accept(s) \/ Admit(s) \/ Ask(s) \/ TakeEdgeLock(s) \/ NoEdgeLeft(s) \/ Dial(s)
       \/ DialFails(s) \/ Connected(s) \/ Hello(s) \/ Answered(s) \/ NoAnswer(s)
       \/ SessionEnds(s)
       \/ PeerAccepts(s) \/ Handshaken(s) \/ PeerAcksFake(s) \/ Strange(s)
       \/ Inject(s) \/ FakeBegins(s) \/ FakeChecks(s) \/ FakeSends(s) \/ FakeFails(s)
  \/ \E e \in Edges : Cool(e)

Spec == Init /\ [][Next]_vars
-----------------------------------------------------------------------------
(***************************************************************************)
(* An orderly handshake is never given up: the capture thread aborts a     *)
(* flow only when something strange was on the wire or a fake segment      *)
(* could not be sent, also where the numbers wrap and while a pool thread  *)
(* is still sending.                                                       *)
(***************************************************************************)
OrderlySpoofed ==
  \A s \in Sessions : flow[s].result = "unexpected_close" => flow[s].odd \/ flow[s].broken

(***************************************************************************)
(* The real ClientHello follows every fake segment: when the session       *)
(* speaks all of them were sent, and none is sent later.                   *)
(***************************************************************************)
FakeBeforeHello ==
  \A s \in Sessions :
    /\ mode.fakes /\ pc[s] \in {"hello", "answer", "relay"} => flow[s].fakes = Repeat
    /\ ~flow[s].late

(***************************************************************************)
(* No session is led to an edge another session found broken.              *)
(***************************************************************************)
PreferredHealthy == preferred # NoEdge => preferred \notin failed

(***************************************************************************)
(* Why the handshake is orderly, per flow f of a session at a place        *)
(***************************************************************************)
Results == {"", "fake_data_ack_recv", "unexpected_close"}
Flow == [monitor : BOOLEAN, result : Results,
         synSeq : 0..Modulus, synAckSeq : 0..Modulus, scheduled : BOOLEAN, sent : BOOLEAN,
         pool : {"none", "queued", "check", "send"}, fakes : 0..Repeat, acked : 0..Repeat,
         wire : {"none", "syn", "synack", "open"}, isn : 0..Modulus - 1,
         captured : Seq(Packet), odd : BOOLEAN, broken : BOOLEAN, late : BOOLEAN]

\* The pool thread of a flow works while fakes are missing.
PoolInv(f) ==
  /\ f.acked <= f.fakes
  /\ f.sent => f.fakes = Repeat /\ f.pool = "none"
  /\ f.pool # "none" => f.scheduled /\ f.fakes < Repeat
  /\ f.pool = "queued" => f.fakes = 0
  /\ ~f.scheduled => f.fakes = 0
  /\ f.monitor /\ f.scheduled => f.pool # "none" \/ f.sent \/ f.broken
  /\ f.broken => f.scheduled /\ ~f.sent /\ f.pool = "none"

\* A flow is watched while its session dials, and the session speaks after the last fake.
PlaceInv(f, at, fakes) ==
  /\ f.monitor => /\ at = "dial" /\ f.wire # "none"
                  /\ f.result \notin {"fake_data_ack_recv", "unexpected_close"}
  /\ f.result = "fake_data_ack_recv" => f.sent
  /\ at = "dial" /\ ~fakes => f = NoFlow
  /\ at \in {"hello", "answer", "relay"} =>
       IF fakes THEN f.result = "fake_data_ack_recv" ELSE f.pool = "none"

\* The first packet the capture thread takes is the SYN.
SynFirst(f, at) ==
  at = "dial" /\ f.wire # "none" /\ f.synSeq = NoSeq =>
    /\ f.monitor /\ ~f.scheduled /\ f.captured # <<>>
    /\ f.captured[1].kind = "syn" /\ ~f.captured[1].inbound
    /\ f.captured[1].seq \in 0..Modulus - 1

\* What is captured and not yet taken of an orderly handshake with own as its number.
Waiting(f, own) ==
  LET syn == [inbound |-> FALSE, kind |-> "syn", seq |-> own, ack |-> 0]
      synAck == [inbound |-> TRUE, kind |-> "synack", seq |-> f.isn, ack |-> After(own)]
      ack == [inbound |-> FALSE, kind |-> "ack", seq |-> After(own), ack |-> After(f.isn)]
  IN  \/ f.wire = "syn" /\ f.synSeq = NoSeq /\ f.captured = <<syn>>
      \/ f.wire = "syn" /\ f.synSeq = own /\ f.captured = <<>>
      \/ f.wire = "synack" /\ f.synSeq = NoSeq /\ f.captured = <<syn, synAck>>
      \/ f.wire = "synack" /\ f.synSeq = own /\ f.captured = <<synAck>>
      \/ f.wire = "synack" /\ f.synSeq = own /\ f.synAckSeq = f.isn /\ f.captured = <<>>
      \/ f.wire = "open" /\ f.synSeq = NoSeq /\ f.captured = <<syn, synAck, ack>>
      \/ f.wire = "open" /\ f.synSeq = own /\ f.captured = <<synAck, ack>>
      \/ f.wire = "open" /\ f.synSeq = own /\ f.synAckSeq = f.isn /\ f.captured = <<ack>>

\* Then come answers to the fakes, none before the first is sent.
Answers(f) ==
  /\ f.wire = "open" /\ f.synSeq # NoSeq /\ f.synAckSeq = f.isn
  /\ \A i \in 1..Len(f.captured) :
       f.captured[i] = [inbound |-> TRUE, kind |-> "ack", seq |-> After(f.isn),
                        ack |-> After(f.synSeq)]
  /\ f.captured # <<>> => f.fakes > 0

Orderly(f) ==
  /\ f.result = "unexpected_close" => f.odd \/ f.broken
  /\ f.monitor /\ ~f.odd =>
       IF f.scheduled THEN Answers(f) ELSE \E own \in 0..Modulus - 1 : Waiting(f, own)

FlowInv(f, at, fakes) ==
  /\ f \in Flow /\ PoolInv(f) /\ PlaceInv(f, at, fakes) /\ SynFirst(f, at) /\ Orderly(f)
  /\ ~f.late

HandshakeInv ==
  /\ pc \in [Sessions -> {"idle", "queued", "ask", "want", "try", "dial", "hello", "answer",
                          "relay"}]
  /\ flow \in [Sessions -> Flow]
  /\ ~on => \A s \in Sessions : pc[s] = "idle"
  /\ \A s \in Sessions : FlowInv(flow[s], pc[s], mode.fakes)
=============================================================================
