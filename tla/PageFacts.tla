------------------------------ MODULE PageFacts ------------------------------
(***************************************************************************)
(* What the home page says of a connection: the public IP and the latency  *)
(* (uac_desktop/ui.py, ip_info.py, pow_ui.py).  Each is asked for by a     *)
(* thread of its own and comes back after the connection may have changed, *)
(* so the page numbers its questions and throws late answers away; while   *)
(* UAC PoW is connected its controller owns the IP card and fills it from  *)
(* what the coordinator found.  Abstractions: an address is the connection *)
(* it was found through; a cached answer of a connection is like a fresh   *)
(* one, except that the cache of the direct address is kept as a variable; *)
(* flags, badges and texts are left out.                                   *)
(***************************************************************************)
EXTENDS Naturals, Sequences

CONSTANTS
  MaxRun,         \* connections of either engine
  MaxAsk,         \* IP questions
  Exits           \* exits an Xray connection may take: "proxy", "tun"

VARIABLES
  mode,           \* engine_mode
  page,           \* the Xray connection as shown: "off", "connecting", "on" or "error"
  link,           \* the connection there is and its exit; run 0: none
  made,           \* connections made
  timer, gen,     \* _ip_timer is running; _ip_gen
  asked,          \* open IP questions
  cache,          \* the cached direct address: None or the run it was found through
  answers,        \* Bridge.ip signals
  card, owned,    \* what the IP card shows; _ip_owned
  exitInfo,       \* PowCoordinator._exit_info: None or the run it is of
  ping            \* _target_latency_*: busy, pending, the question, the value shown

vars == <<mode, page, link, made, timer, gen, asked, cache, answers, card, owned, exitInfo, ping>>
ipLine == <<timer, gen, asked, cache, answers, card>>

None == MaxRun + 1
NoLink == [run |-> 0, exit |-> "direct"]
Blank == [of |-> "", run |-> 0]
Runs == 0..(MaxRun + 1)

TypeOK ==
  /\ mode \in {"xray", "pow"} /\ page \in {"off", "connecting", "on", "error"}
  /\ link \in [run : 0..MaxRun, exit : {"direct", "pow"} \union Exits] /\ made \in 0..MaxRun
  /\ timer \in BOOLEAN /\ gen \in Nat /\ cache \in Runs /\ exitInfo \in Runs
  /\ asked \subseteq [gen : Nat, of : {"direct", "xray"}, run : Runs]
  /\ answers \in Seq([gen : Nat, of : {"direct", "xray"}, run : Runs])
  /\ card \in [of : {"", "direct", "xray", "pow"}, run : Runs] /\ owned \in BOOLEAN
  /\ ping \in [busy : BOOLEAN, again : BOOLEAN, ask : [exit : STRING, run : Runs],
               shown : [exit : STRING, run : Runs]]

Init ==
  /\ mode \in {"xray", "pow"} /\ page = "off" /\ link = NoLink /\ made = 0
  /\ timer = TRUE /\ gen = 0 /\ asked = {} /\ cache = None /\ answers = <<>>
  /\ card = Blank /\ owned = FALSE /\ exitInfo = None
  /\ ping = [busy |-> FALSE, again |-> FALSE, ask |-> NoLink, shown |-> [exit |-> "", run |-> 0]]
-----------------------------------------------------------------------------
\* _ip_mode
IpMode == IF mode = "pow" THEN IF link.run > 0 THEN "pow" ELSE "direct"
          ELSE IF link.run > 0 /\ page = "on" THEN "xray" ELSE "direct"

\* What a request without a proxy finds: a TUN carries it too.
Through == IF link.exit = "tun" THEN link.run ELSE 0

\* _queue_target_latency_probe: one question at a time, a later one waits.
Ask(l) == ping' = IF ping.busy THEN [ping EXCEPT !.again = TRUE]
                  ELSE [ping EXCEPT !.busy = TRUE, !.again = FALSE, !.ask = l]
-----------------------------------------------------------------------------
(***************************************************************************)
(* Connections.  _set_connection_visual has the card filled again when a   *)
(* connection is shown as made or ended, not when it failed.               *)
(***************************************************************************)
Connect ==
  /\ mode = "xray" /\ page # "connecting" /\ page' = "connecting" /\ link' = NoLink
  /\ UNCHANGED <<mode, made, ipLine, owned, exitInfo, ping>>

Connected ==
  /\ page = "connecting" /\ made < MaxRun /\ made' = made + 1 /\ page' = "on"
  /\ \E e \in Exits : link' = [run |-> made + 1, exit |-> e]
  /\ timer' = TRUE /\ Ask(link')
  /\ UNCHANGED <<mode, gen, asked, cache, answers, card, owned, exitInfo>>

ConnectFails ==
  /\ page = "connecting" /\ page' = "error" /\ Ask(NoLink)
  /\ UNCHANGED <<mode, link, made, ipLine, owned, exitInfo>>

Disconnect ==
  /\ page \in {"connecting", "on"} /\ page' = "off" /\ link' = NoLink
  /\ timer' = TRUE /\ Ask(NoLink)
  /\ UNCHANGED <<mode, made, gen, asked, cache, answers, card, owned, exitInfo>>

SwitchEngine ==
  /\ link.run = 0 /\ page # "connecting" /\ mode' = (IF mode = "xray" THEN "pow" ELSE "xray")
  /\ page' = "off" /\ timer' = TRUE
  /\ UNCHANGED <<link, made, gen, asked, cache, answers, card, owned, exitInfo, ping>>

PowConnected ==
  /\ mode = "pow" /\ link.run = 0 /\ made < MaxRun /\ made' = made + 1
  /\ link' = [run |-> made + 1, exit |-> "pow"]
  /\ UNCHANGED <<mode, page, ipLine, owned, exitInfo, ping>>

\* The controller's timer ticks at least once in a connection.
PowDisconnects ==
  /\ mode = "pow" /\ link.run > 0 /\ owned /\ link' = NoLink /\ exitInfo' = None
  /\ UNCHANGED <<mode, page, made, ipLine, owned, ping>>
-----------------------------------------------------------------------------
(***************************************************************************)
(* The IP card                                                             *)
(***************************************************************************)
\* _refresh_ip_card: in between, the next state is waited for.
Refresh ==
  /\ timer /\ timer' = FALSE /\ gen < MaxAsk
  /\ IF IpMode = "pow" \/ page = "connecting" THEN UNCHANGED <<gen, asked>>
     ELSE /\ gen' = gen + 1
          /\ asked' = asked \union {[gen |-> gen + 1, of |-> IpMode,
                                    run |-> IF IpMode = "xray" THEN link.run
                                            ELSE IF cache # None THEN cache ELSE None]}
  /\ UNCHANGED <<mode, page, link, made, cache, answers, card, owned, exitInfo, ping>>

\* The thread: a direct address that is not cached is looked up when its turn
\* comes, by direct_identity, and cached.
Answered ==
  /\ \E q \in asked :
       LET found == IF q.of = "direct" /\ q.run = None THEN Through ELSE q.run IN
         /\ asked' = asked \ {q} /\ answers' = Append(answers, [q EXCEPT !.run = found])
         /\ cache' = IF q.of = "direct" THEN found ELSE cache
  /\ UNCHANGED <<mode, page, link, made, timer, gen, card, owned, exitInfo, ping>>

\* Nothing found: the page asks once more.
NotAnswered ==
  /\ \E q \in asked :
       /\ asked' = asked \ {q}
       /\ timer' = (timer \/ (q.gen = gen /\ q.of = IpMode /\ ~owned))
  /\ UNCHANGED <<mode, page, link, made, gen, cache, answers, card, owned, exitInfo, ping>>

\* Faulty: an answer is shown if it is of the right kind, however late.
Fresh_Kind(a) == a.of = IpMode

Fresh(a) == a.gen = gen /\ a.of = IpMode

\* _ip_checked
IpChecked ==
  /\ answers # <<>> /\ answers' = Tail(answers)
  /\ card' = IF Fresh(Head(answers)) /\ ~owned
             THEN [of |-> Head(answers).of, run |-> Head(answers).run] ELSE card
  /\ UNCHANGED <<mode, page, link, made, timer, gen, asked, cache, owned, exitInfo, ping>>

\* refresh_exit_info: a trace through the exit of this connection.
ExitTraced ==
  /\ IpMode = "pow" /\ exitInfo' = link.run
  /\ UNCHANGED <<mode, page, link, made, ipLine, owned, ping>>

ExitCard == IF exitInfo = None THEN Blank ELSE [of |-> "pow", run |-> exitInfo]

\* _sync_ip_card, at every tick of the PoW controller.
PowTakesCard ==
  /\ IpMode = "pow" /\ owned' = TRUE
  /\ card' = ExitCard
  /\ UNCHANGED <<mode, page, link, made, timer, gen, asked, cache, answers, exitInfo, ping>>

PowLeavesCard ==
  /\ IpMode # "pow" /\ owned /\ owned' = FALSE /\ card' = Blank /\ timer' = TRUE
  /\ UNCHANGED <<mode, page, link, made, gen, asked, cache, answers, exitInfo, ping>>
-----------------------------------------------------------------------------
(***************************************************************************)
(* The latency: measured through the exit there was when it was asked for  *)
(***************************************************************************)
Stale == ping.ask # link /\ ~(mode = "pow" /\ ping.ask = NoLink)

\* _target_latency_finished
Measured ==
  /\ ping.busy
  /\ LET value == IF Stale THEN ping.shown ELSE ping.ask IN
       ping' = IF Stale \/ ping.again
               THEN [busy |-> TRUE, again |-> FALSE, shown |-> value,
                     ask |-> IF mode = "pow" THEN NoLink ELSE link]
               ELSE [ping EXCEPT !.busy = FALSE, !.shown = value]
  /\ UNCHANGED <<mode, page, link, made, ipLine, owned, exitInfo>>

\* A move of a switch changes the exit of a connection and asks again.
ExitMoves ==
  /\ page = "on" /\ \E e \in Exits : e # link.exit /\ link' = [link EXCEPT !.exit = e]
  /\ Ask(link')
  /\ UNCHANGED <<mode, page, made, ipLine, owned, exitInfo>>

Next ==
  \/ Connect \/ Connected \/ ConnectFails \/ Disconnect \/ SwitchEngine
  \/ PowConnected \/ PowDisconnects
  \/ Refresh \/ Answered \/ NotAnswered \/ IpChecked \/ ExitTraced \/ PowTakesCard \/ PowLeavesCard
  \/ Measured \/ ExitMoves

Spec == Init /\ [][Next]_vars
-----------------------------------------------------------------------------
Quiet == /\ ~timer /\ asked = {} /\ answers = <<>> /\ ~ping.busy /\ page # "connecting"
         /\ IF IpMode = "pow" THEN owned /\ card = ExitCard ELSE ~owned

(***************************************************************************)
(* Once all is quiet the card is about the connection there is: an address *)
(* found for it or none, however late older answers came and whoever owned *)
(* the card in between, and the latency is that of its exit.  A connect    *)
(* that failed is left out: the card is not filled again after it.         *)
(***************************************************************************)
FactsCurrent ==
  Quiet /\ page # "error" =>
    /\ card.of \in {"xray", "pow"} => card.run = link.run
    /\ card.of \in {"", IpMode}
    /\ mode = "xray" /\ link.run > 0 => ping.shown = link

(***************************************************************************)
(* "Direct IP when disconnected, Xray exit IP when connected (PoW owns its *)
(* own)" (ui.py:5107): an address shown as the direct one was not found    *)
(* through a tunnel.                                                       *)
(***************************************************************************)
DirectIsDirect == card.of = "direct" => card.run = 0

(***************************************************************************)
(* What FactsCurrent rests on: once the timer has fired, a question or an  *)
(* answer with the last number that the page would still take is about the *)
(* connection there is, and while none is left the card is.                *)
(***************************************************************************)
Questions == [gen : Nat, of : {"direct", "xray"}, run : Runs]
Pending == asked \union {answers[i] : i \in 1..Len(answers)}
Right(q) == q.of = IpMode /\ (q.of = "xray" => q.run = link.run)
Settled == ~timer /\ ~owned /\ page \notin {"connecting", "error"} /\ IpMode # "pow"

Numbered ==
  /\ gen \in Nat /\ asked \subseteq Questions /\ answers \in Seq(Questions)
  /\ \A q \in Pending : q.gen <= gen
  /\ timer \in BOOLEAN /\ owned \in BOOLEAN /\ cache \in Runs
  /\ made \in 0..MaxRun /\ link \in [run : 0..MaxRun, exit : {"direct", "pow"} \union Exits]
  /\ mode \in {"xray", "pow"} /\ (mode = "pow" => page = "off")
TraceIsOfLink == exitInfo # None => mode = "pow" /\ link.run > 0 /\ exitInfo = link.run
LastAnswerRight ==
  Settled => /\ \A q \in Pending : q.gen = gen /\ q.of = IpMode => Right(q)
             /\ Right(card) \/ \E q \in Pending : q.gen = gen /\ Right(q)
PingOfLink ==
  /\ ping = [busy |-> ping.busy, again |-> ping.again, ask |-> ping.ask, shown |-> ping.shown]
  /\ ping.busy \in BOOLEAN
  /\ mode = "xray" /\ link.run > 0 /\ ~ping.busy => ping.shown = link
FactsInv == Numbered /\ TraceIsOfLink /\ LastAnswerRight /\ PingOfLink
=============================================================================
