------------------------------ MODULE PowLadder ------------------------------
(***************************************************************************)
(* How a UAC PoW connect of uac_desktop/pow/coordinator.py finds a route:  *)
(* Psiphon on its own first if the user asked for it, then the WARP        *)
(* protocols in order, each with its key and its transports, then Psiphon  *)
(* through what came up, strategy by strategy.  A session that lost its    *)
(* route climbs the same ladder again.  One thread at a time does this;    *)
(* who may stop it and when is in PowSession.tla.  Abstractions: a dial    *)
(* comes up, fails or cannot start; times, labels, IP scans and log lines  *)
(* are left out; RECIPE_* are the three kinds of plan they lead to.        *)
(***************************************************************************)
EXTENDS Naturals, Sequences

CONSTANTS
  Options,        \* settings a connect may find
  Strategies,     \* Psiphon strategies in the ladder
  Connects        \* connects and reconnects a behaviour may have

VARIABLES
  opt,            \* _speed, the settings of this connect
  order,          \* WARP protocols left to try, the current one first
  lanes,          \* key routes left for the current protocol
  vias,           \* MASQUE transports left for the current protocol
  aether,         \* the outer process: protocol and transport, or Off
  psiphon,        \* the Psiphon process: "off", "direct" or "chained"
  tries,          \* Psiphon attempts left
  says,           \* what the session says of itself
  kept,           \* on disk: identity with certificate, last good protocol
  stop, pc,
  runs            \* connects made

vars == <<opt, order, lanes, vias, aether, psiphon, tries, says, kept, stop, pc, runs>>
dial == <<order, lanes, vias>>

Protocols == {"masque", "gool", "wireguard"}
Off == [proto |-> "", via |-> ""]
Silent == [proto |-> "", via |-> "", direct |-> FALSE, warpOnly |-> FALSE, exit |-> "none"]

TypeOK ==
  /\ opt \in Options /\ order \in Seq(Protocols) /\ Len(order) <= 3
  /\ lanes \in Seq({"net", "auto", "oob", "ech"}) /\ vias \in Seq({"", "h2", "h3"})
  /\ aether \in [proto : Protocols \union {""}, via : {"", "h2", "h3"}]
  /\ psiphon \in {"off", "direct", "chained"} /\ tries \in 0..(Strategies + 1)
  /\ says \in [proto : Protocols \union {""}, via : {"", "h2", "h3"}, direct : BOOLEAN,
               warpOnly : BOOLEAN, exit : {"none", "warp", "psiphon"}]
  /\ kept \in [identity : BOOLEAN, outer : Protocols \union {""}] /\ stop \in BOOLEAN
  /\ pc \in {"idle", "fast", "next", "key", "dial", "wait", "none", "inner", "bridge",
             "up", "failed"}
  /\ runs \in 0..Connects

Init ==
  /\ opt \in Options /\ order = <<>> /\ lanes = <<>> /\ vias = <<>>
  /\ aether = Off /\ psiphon = "off" /\ tries = 0 /\ says = Silent
  /\ kept = [identity |-> FALSE, outer |-> ""]
  /\ stop = FALSE /\ pc = "idle" /\ runs = 0
-----------------------------------------------------------------------------
\* outer_plan: the protocols, and the transport MASQUE uses.
Plan(o) == CASE o.recipe = "h2" -> <<"masque">>
             [] o.recipe = "wireguard" -> <<"wireguard">>
             [] o.recipe = "auto" /\ o.mci -> <<"masque">>
             [] OTHER -> <<"masque", "gool", "wireguard">>
PlanVia(o) == IF o.recipe = "h2" \/ (o.recipe = "auto" /\ o.mci) THEN "h2" ELSE "h3"

Front(p, s) == <<p>> \o SelectSeq(s, LAMBDA q : q # p)

\* _order_ladder: the protocol that worked last is tried first, if it is planned.
Remembered(s) == IF \E i \in DOMAIN s : s[i] = kept.outer THEN Front(kept.outer, s) ELSE s

\* _apply_transport_choice: the user's, unless a recipe pins the plan.
Chosen(o, s) == IF o.choice = "auto" \/ o.recipe # "auto" THEN s ELSE Front(o.choice, s)

\* _fetch_key: the .NET lane runs first where the core often gets no answer.
Lanes(o, p) ==
  (IF p = "masque" /\ o.fetch \in {"auto", "oob"} THEN <<"net">> ELSE <<>>)
  \o (IF o.fetch = "auto" THEN <<"auto", "ech">> ELSE <<o.fetch>>)

\* _irancell_h3_applies
Vias(o, p) ==
  CASE p = "masque" /\ o.h3 /\ ~o.mci /\ o.recipe = "auto" -> <<"h3", "h2">>
    [] p = "masque" -> <<PlanVia(o)>>
    [] OTHER -> <<"">>

\* Faulty: the process of a dial that did not come up is left alone.
StopAether_Not == UNCHANGED aether

StopAether == aether' = Off

Raises == /\ pc' = "failed"
          /\ UNCHANGED <<opt, dial, aether, psiphon, tries, says, kept, stop, runs>>
-----------------------------------------------------------------------------
(***************************************************************************)
(* connect, disconnect and the watchdog's reconnect                        *)
(***************************************************************************)
Connect ==
  /\ pc = "idle" /\ runs < Connects /\ runs' = runs + 1
  /\ stop' = FALSE /\ opt' \in Options
  /\ order' = Chosen(opt', Remembered(Plan(opt')))
  /\ pc' = IF opt'.fast /\ opt'.chain THEN "fast" ELSE "next"
  /\ UNCHANGED <<lanes, vias, aether, psiphon, tries, says, kept>>

\* _raise_legs_again: a session that runs on Psiphon alone does not try WARP.
Reconnect ==
  /\ pc = "up" /\ ~stop /\ runs < Connects /\ runs' = runs + 1
  /\ psiphon' = "off" /\ StopAether
  /\ order' = Chosen(opt, Remembered(Plan(opt)))
  /\ pc' = IF says.direct /\ ~says.warpOnly THEN "inner" ELSE "next"
  /\ tries' = IF pc' = "inner" THEN Strategies ELSE 0
  /\ UNCHANGED <<opt, lanes, vias, says, kept, stop>>

Cancel == /\ pc # "idle" /\ ~stop /\ stop' = TRUE
          /\ UNCHANGED <<opt, dial, aether, psiphon, tries, says, kept, pc, runs>>

Disconnect ==
  /\ pc \in {"up", "failed"}
  /\ psiphon' = "off" /\ StopAether /\ says' = Silent /\ stop' = TRUE /\ pc' = "idle"
  /\ UNCHANGED <<opt, dial, tries, kept, runs>>
-----------------------------------------------------------------------------
\* _try_direct_psiphon_fast: one short try without WARP.
FastWins ==
  /\ pc = "fast" /\ ~stop
  /\ psiphon' = "direct" /\ says' = [says EXCEPT !.direct = TRUE] /\ pc' = "bridge"
  /\ UNCHANGED <<opt, dial, aether, tries, kept, stop, runs>>

FastFails ==
  /\ pc = "fast" /\ psiphon' = "off" /\ pc' = "next"
  /\ UNCHANGED <<opt, dial, aether, tries, says, kept, stop, runs>>

\* _raise_outer_leg: the next protocol, which for MASQUE may have its key.
NextProtocol ==
  /\ pc = "next" /\ order # <<>> /\ ~stop
  /\ IF Head(order) = "masque" /\ kept.identity
       THEN pc' = "dial" /\ lanes' = <<>> ELSE pc' = "key" /\ lanes' = Lanes(opt, Head(order))
  /\ vias' = Vias(opt, Head(order))
  /\ UNCHANGED <<opt, order, aether, psiphon, tries, says, kept, stop, runs>>

LastProtocol ==
  /\ pc = "next" /\ order = <<>> /\ pc' = "none"
  /\ UNCHANGED <<opt, dial, aether, psiphon, tries, says, kept, stop, runs>>

\* MASQUE that fails ends the climb, another protocol goes on to the next.
GivesUp(p) == IF p = "masque" THEN pc' = "none" /\ UNCHANGED order
              ELSE pc' = "next" /\ order' = Tail(order)

\* prepare_identity and _net_key_lane: only the .NET lane insists on the
\* certificate, and only MASQUE asks for one.
KeyArrives ==
  /\ pc = "key" /\ lanes # <<>> /\ ~stop /\ pc' = "dial" /\ lanes' = <<>>
  /\ \E certificate \in {Head(order) = "masque", Head(lanes) = "net"} :
       kept' = [kept EXCEPT !.identity = @ \/ certificate]
  /\ UNCHANGED <<opt, order, vias, aether, psiphon, tries, says, stop, runs>>

KeyLaneFails ==
  /\ pc = "key" /\ lanes # <<>> /\ lanes' = Tail(lanes)
  /\ UNCHANGED <<opt, order, vias, aether, psiphon, tries, says, kept, stop, pc, runs>>

KeyFails ==
  /\ pc = "key" /\ lanes = <<>> /\ ~stop /\ GivesUp(Head(order))
  /\ UNCHANGED <<opt, lanes, vias, aether, psiphon, tries, says, kept, stop, runs>>

\* AetherProcess.start ends the process there was.
Dial ==
  /\ pc = "dial" /\ ~stop /\ vias # <<>>
  /\ aether' = [proto |-> Head(order), via |-> Head(vias)] /\ pc' = "wait"
  /\ UNCHANGED <<opt, dial, psiphon, tries, says, kept, stop, runs>>

DialCannotStart ==
  /\ pc = "dial" /\ ~stop /\ vias # <<>> /\ StopAether /\ vias' = Tail(vias)
  /\ UNCHANGED <<opt, order, lanes, psiphon, tries, says, kept, stop, pc, runs>>

DialReady ==
  /\ pc = "wait" /\ ~stop
  /\ says' = [says EXCEPT !.proto = Head(order), !.via = Head(vias)]
  /\ kept' = [kept EXCEPT !.outer = Head(order)] /\ pc' = "none"
  /\ UNCHANGED <<opt, dial, aether, psiphon, tries, stop, runs>>

DialFails ==
  /\ pc = "wait" /\ ~stop /\ StopAether /\ vias' = Tail(vias) /\ pc' = "dial"
  /\ UNCHANGED <<opt, order, lanes, psiphon, tries, says, kept, stop, runs>>

DialsUp ==
  /\ pc = "dial" /\ vias = <<>> /\ GivesUp(Head(order))
  /\ UNCHANGED <<opt, lanes, vias, aether, psiphon, tries, says, kept, stop, runs>>

\* Every climb is left by an exception once the session is being stopped.
Stopped == /\ stop /\ pc \in {"next", "key", "dial", "wait", "none", "inner", "bridge"}
           /\ Raises
-----------------------------------------------------------------------------
Raised == aether # Off

\* The outer leg is decided: no WARP ends a connect without the Psiphon chain,
\* and ends every reconnect that asked for WARP.
Outer ==
  /\ pc = "none" /\ ~stop
  /\ IF Raised \/ (opt.chain /\ says.exit = "none")
       THEN /\ pc' = IF opt.chain THEN "inner" ELSE "bridge"
            /\ tries' \in IF ~opt.chain THEN {0}
                          ELSE IF opt.region THEN {Strategies + 1}
                          ELSE IF Raised THEN {Strategies, Strategies + 1} ELSE {Strategies}
            /\ says' = [says EXCEPT !.direct = opt.chain /\ ~Raised, !.warpOnly = ~opt.chain]
       ELSE pc' = "failed" /\ UNCHANGED <<tries, says>>
  /\ UNCHANGED <<opt, dial, aether, psiphon, kept, stop, runs>>

\* _start_psiphon_tunnel: each attempt may connect, fail or not start.
PsiphonConnects ==
  /\ pc = "inner" /\ ~stop /\ tries > 0
  /\ psiphon' = (IF says.direct THEN "direct" ELSE "chained") /\ pc' = "bridge"
  /\ UNCHANGED <<opt, dial, aether, tries, says, kept, stop, runs>>

PsiphonFails ==
  /\ pc = "inner" /\ ~stop /\ tries > 0 /\ psiphon' = "off" /\ tries' = tries - 1
  /\ UNCHANGED <<opt, dial, aether, says, kept, stop, pc, runs>>

PsiphonGivesUp == /\ pc = "inner" /\ ~stop /\ tries = 0 /\ Raises

\* The Windows proxy or the TUN is pointed at the exit port.
Bridge ==
  /\ pc = "bridge" /\ ~stop
  /\ says' = [says EXCEPT !.exit = IF says.warpOnly THEN "warp" ELSE "psiphon"]
  /\ pc' = "up"
  /\ UNCHANGED <<opt, dial, aether, psiphon, tries, kept, stop, runs>>

Next ==
  \/ Connect \/ Reconnect \/ Cancel \/ Disconnect
  \/ FastWins \/ FastFails \/ NextProtocol \/ LastProtocol
  \/ KeyArrives \/ KeyLaneFails \/ KeyFails
  \/ Dial \/ DialCannotStart \/ DialReady \/ DialFails \/ DialsUp \/ Stopped
  \/ Outer \/ PsiphonConnects \/ PsiphonFails \/ PsiphonGivesUp \/ Bridge

Spec == Init /\ [][Next]_vars
-----------------------------------------------------------------------------
(***************************************************************************)
(* A session that is up is carried by what it shows: Psiphon alone only    *)
(* when no WARP process is left over from the climb, otherwise the WARP    *)
(* protocol and transport that are named, and the exit port is that of the *)
(* last hop, after any mixture of failed dials and reconnects.             *)
(***************************************************************************)
CarriedAsShown ==
  pc = "up" =>
    /\ says.direct = ~Raised
    /\ Raised => says.proto = aether.proto /\ says.via = aether.via
    /\ psiphon = (IF says.warpOnly THEN "off" ELSE IF says.direct THEN "direct" ELSE "chained")
    /\ says.exit = (IF says.warpOnly THEN "warp" ELSE "psiphon")

(***************************************************************************)
(* "An explicit Transport choice is tried first and the plan stays as the  *)
(* fallback" (coordinator.py:575): a climb that ends without a route has   *)
(* tried all of the plan.                                                  *)
(***************************************************************************)
PlanIsFallback == pc = "none" /\ ~Raised => Len(order) <= 1
-----------------------------------------------------------------------------
\* What the properties rest on: a climb starts with nothing up, its process is
\* that of the dial under way, and what is shown is decided where it ends.
Climbing == {"next", "key", "dial", "wait", "none"}
Bare == {"idle", "fast", "next", "key", "dial"}
LadderInv ==
  /\ pc \in Bare => aether = Off
  /\ pc = "wait" => aether = [proto |-> Head(order), via |-> Head(vias)]
  /\ pc \in {"idle"} \union Climbing => psiphon = "off"
  /\ DOMAIN says = DOMAIN Silent /\ (pc \in {"idle", "fast"} => says = Silent)
  /\ pc \in {"none", "inner", "bridge", "up"} =>
       (Raised => says.proto = aether.proto /\ says.via = aether.via)
  /\ pc \in {"inner", "bridge", "up"} => says.direct = ~Raised
  /\ pc = "inner" => ~says.warpOnly
  /\ pc \in {"bridge", "up"} =>
       psiphon = (IF says.warpOnly THEN "off" ELSE IF says.direct THEN "direct" ELSE "chained")
  /\ pc = "up" => says.exit = (IF says.warpOnly THEN "warp" ELSE "psiphon")
=============================================================================
