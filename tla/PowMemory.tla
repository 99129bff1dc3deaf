------------------------------ MODULE PowMemory ------------------------------
(***************************************************************************)
(* What UAC PoW learns about a network and uses at the next connect        *)
(* (uac_desktop/pow/store.py, speed.py and their use in coordinator.py and *)
(* pow_ui.py): the Psiphon strategy that won and how fast each was, for    *)
(* each leg, and the clean MASQUE addresses.  The network is detected by a *)
(* thread of each connect; the ladder, the pool writers and the "Forget"   *)
(* button of the settings work on one document under one lock.             *)
(* Abstractions: an RTT is measured or not and the fastest strategy any of *)
(* the measured; the ranking of addresses is left out; of the seconds a    *)
(* network was seen only their order is kept.                              *)
(***************************************************************************)
EXTENDS Naturals, Sequences, FiniteSets, SequencesExt

CONSTANTS
  Networks,     \* networks the device moves between
  Peers,        \* MASQUE addresses
  MaxNetworks,  \* _MAX_NETWORKS
  Connects      \* bound on connects

VARIABLES
  net,          \* where the device is
  memory,       \* per network: winner, measured strategies and address pool
  seen,         \* the networks in the memory, the one seen last at the end
  last,         \* the winner of the document as a whole
  file,         \* the list of clean addresses that the core reads
  key, ready,   \* the coordinator's: the network it believes in, and the event
  asked,        \* detections under way: the network each was asked on
  session,      \* "off", "outer", "inner", "up"
  leg, network, \* of the session's Psiphon: behind WARP or not, its network
  start,        \* the index the ladder started at, then that of the winner
  accepted,     \* addresses that the core accepted in this session
  rank,         \* a pool writer: the pool it read and probes now
  won,          \* history: strategies that won, by leg
  connects

doc == <<memory, seen, last>>
detection == <<key, ready, asked>>
vars == <<net, doc, file, detection, session, leg, network, start, accepted, rank, won, connects>>

Keys == Networks \cup {"default"}
Legs == {"chained", "direct"}
strategy_ladder(l) == IF l = "direct" THEN <<"A", "F">> ELSE <<"F", "A">>
signature(l) == l
Blank == [shape |-> "", index |-> 0, rtt |-> {}, pool |-> {}]
Idle == [pool |-> {}, network |-> ""]

Init ==
  /\ net \in Networks
  /\ memory = [n \in {} |-> Blank] /\ seen = <<>> /\ last = [shape |-> "", index |-> 0]
  /\ file = {} /\ key = "default" /\ ready = FALSE /\ asked = <<>>
  /\ session = "off" /\ leg = "chained" /\ network = "default" /\ start = 0
  /\ accepted = {} /\ rank = Idle /\ won = [l \in Legs |-> {}] /\ connects = 0

----------------------------------------------------------------------------
(* The document: PowStore. *)

Entry(n) == IF n \in DOMAIN memory THEN memory[n] ELSE Blank

\* A network that is written is the one seen last; a new one takes the place
\* of the oldest when the memory is full.
Store(n, entry) ==
  LET full == n \notin DOMAIN memory /\ Cardinality(DOMAIN memory) >= MaxNetworks
      kept == IF full THEN DOMAIN memory \ {Head(seen)} ELSE DOMAIN memory
  IN /\ memory' = [x \in kept \cup {n} |-> IF x = n THEN entry ELSE memory[x]]
     /\ seen' = Append(SelectSeq(seen, LAMBDA x: x \in kept /\ x # n), n)

\* network_strategy_index, then remembered_strategy_index, which forgets a
\* winner of another ladder.
Winner_AnyShape(n, l) ==
  IF Entry(n).index \in 1..Len(strategy_ladder(l)) THEN Entry(n).index ELSE 0
Winner(n, l) ==
  IF Entry(n).shape = signature(l) /\ Entry(n).index \in 1..Len(strategy_ladder(l)) THEN Entry(n).index ELSE 0
Remembered(n, l) ==
  IF Winner(n, l) # 0 THEN Winner(n, l)
  ELSE IF n = "default" /\ last.shape = signature(l) THEN last.index ELSE 0
Resets(n, l) == Winner(n, l) = 0 /\ n = "default" /\ last.shape # signature(l)

\* The settings' "Forget learned routes".
Forget ==
  /\ memory # [n \in {} |-> Blank]
  /\ memory' = [n \in {} |-> Blank] /\ seen' = <<>> /\ last' = [shape |-> "", index |-> 0]
  /\ UNCHANGED <<net, file, detection, session, leg, network, start, accepted, rank, won, connects>>

----------------------------------------------------------------------------
(* The session. *)

\* The user's device comes to another network; a session does not survive it
\* for long, but nothing ends it at once.
Move(n) ==
  /\ n # net /\ net' = n
  /\ UNCHANGED <<doc, file, detection, session, leg, network, start, accepted, rank, won, connects>>

Connect(l) ==
  /\ session = "off" /\ connects < Connects
  /\ connects' = connects + 1 /\ session' = "outer" /\ leg' = l /\ network' = "default" /\ start' = 0
  /\ accepted' = {}
  /\ key' = "default" /\ ready' = FALSE /\ asked' = Append(asked, net)
  /\ UNCHANGED <<net, doc, file, rank, won>>

\* A detection ends, that of an earlier connect as well.
Detected(i, n) ==
  /\ i \in 1..Len(asked) /\ n \in {asked[i], "default"}
  /\ key' = n /\ ready' = TRUE /\ asked' = RemoveAt(asked, i)
  /\ UNCHANGED <<net, doc, file, session, leg, network, start, accepted, rank, won, connects>>

\* _note_peer: the core accepts an address, and saves the one that won.
Accept(p) ==
  /\ session = "outer" /\ p \notin accepted
  /\ accepted' = accepted \cup {p} /\ file' = file \cup {p}
  /\ UNCHANGED <<net, doc, detection, session, leg, network, start, rank, won, connects>>

\* _prefer_lowest_rtt_ip and the round of _start_clean_ip_memory: the pool is
\* read, the candidates are probed for seconds,
Read ==
  /\ session \in {"outer", "up"} /\ rank = Idle
  /\ rank' = [network |-> key, pool |-> Entry(key).pool]
  /\ UNCHANGED <<net, doc, file, detection, session, leg, network, start, accepted, won, connects>>

\* and the answers are added to what was read and stored.
Probed(answers) ==
  /\ rank # Idle
  /\ IF answers = {} THEN UNCHANGED <<memory, seen, file>>
     ELSE /\ Store(rank.network, [Entry(rank.network) EXCEPT !.pool = rank.pool \cup answers])
          /\ file' = file \cup answers
  /\ rank' = Idle
  /\ UNCHANGED <<net, last, detection, session, leg, network, start, accepted, won, connects>>

\* The outer leg is up: the ladder asks which network this is, for five
\* seconds, and where to start.
Inner(fastest) ==
  /\ session = "outer"
  /\ session' = "inner" /\ network' = key
  /\ LET n == key
         rtt == {s \in Entry(n).rtt : s[1] = leg}
         at == {i \in 1..Len(strategy_ladder(leg)) : <<leg, strategy_ladder(leg)[i]>> \in rtt}
     IN /\ fastest \in (IF Cardinality(at) >= 2 THEN at ELSE {0})
        /\ start' = IF fastest # 0 THEN fastest
                    ELSE IF Remembered(n, leg) # 0 THEN Remembered(n, leg) ELSE 1
        /\ last' = IF Resets(n, leg) THEN [shape |-> signature(leg), index |-> 1] ELSE last
  /\ UNCHANGED <<net, memory, seen, file, detection, leg, accepted, rank, won, connects>>

\* A strategy connects: save_network_strategy, and the addresses accepted join
\* the pool of the network.
Wins(i) ==
  /\ session = "inner"
  /\ session' = "up" /\ start' = i
  /\ last' = [shape |-> signature(leg), index |-> i]
  /\ Store(network, [Entry(network) EXCEPT !.shape = signature(leg), !.index = i,
                                           !.pool = @ \cup accepted])
  /\ won' = [won EXCEPT ![leg] = @ \cup {strategy_ladder(leg)[i]}]
  /\ UNCHANGED <<net, file, detection, leg, network, accepted, rank, connects>>

\* _after_psiphon_connected: the RTT through the tunnel.
Measured ==
  /\ session = "up"
  /\ Store(network, [Entry(network) EXCEPT !.rtt = @ \cup {<<leg, strategy_ladder(leg)[start]>>}])
  /\ UNCHANGED <<net, last, file, detection, session, leg, network, start, accepted, rank, won, connects>>

Disconnect ==
  /\ session # "off" /\ session' = "off" /\ start' = 0
  /\ UNCHANGED <<net, doc, file, detection, leg, network, accepted, rank, won, connects>>

----------------------------------------------------------------------------
Next ==
  \/ Forget
  \/ \E n \in Networks : Move(n)
  \/ \E l \in Legs : Connect(l)
  \/ \E i \in 1..Connects, n \in Keys : Detected(i, n)
  \/ \E p \in Peers : Accept(p)
  \/ Read \/ \E a \in SUBSET (file \cup rank.pool) : Probed(a)
  \/ \E f \in 0..2 : Inner(f)
  \/ \E i \in 1..2 : Wins(i)
  \/ Measured \/ Disconnect

Spec == Init /\ [][Next]_vars

TypeOK ==
  /\ net \in Networks /\ key \in Keys /\ network \in Keys
  /\ session \in {"off", "outer", "inner", "up"} /\ leg \in Legs /\ start \in 0..2
  /\ DOMAIN memory = ToSet(seen) /\ Cardinality(DOMAIN memory) <= MaxNetworks
  /\ accepted \subseteq Peers /\ file \subseteq Peers

\* The ladder starts at its own head or at a strategy that once won on this
\* very leg: the order of the strategies is another one behind WARP, so an
\* index of the other leg would start the slow one.
StartIsKnown ==
  session = "inner" => start = 1 \/ strategy_ladder(leg)[start] \in won[leg]
-----------------------------------------------------------------------------
\* What the property rests on: whatever is stored as a winner or as measured
\* names its leg, and won there.
WonAt(l, i) == i \in 1..2 /\ strategy_ladder(l)[i] \in won[l]
EntryTrue(e) ==
  /\ DOMAIN e = DOMAIN Blank
  /\ e.shape \in Legs => WonAt(e.shape, e.index)
  /\ \A s \in e.rtt : s[1] \in Legs => s[2] \in won[s[1]]
MemoryInv ==
  /\ leg \in Legs /\ won \in [Legs -> SUBSET {"A", "F"}]
  /\ \A n \in DOMAIN memory : EntryTrue(memory[n])
  /\ last.shape \in Legs => last.index = 1 \/ WonAt(last.shape, last.index)
  /\ session = "up" => WonAt(leg, start)
  /\ StartIsKnown
=============================================================================
