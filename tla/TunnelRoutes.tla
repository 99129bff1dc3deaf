---------------------------- MODULE TunnelRoutes ----------------------------
(***************************************************************************)
(* The way of a packet through what the app sets up (uac_desktop/engine.py *)
(* and its use by pow/coordinator.py): the sing-box TUN or the Windows     *)
(* proxy, Xray or the PoW exit, the Pattern core, the wire.  Each hop      *)
(* follows the rules of the configuration that the app writes, the first   *)
(* rule that matches first.  Abstractions: an address is the kind of place *)
(* it belongs to; loopback is not captured by a TUN; a session table, a    *)
(* cipher or a transport is left out, what matters is who dials what; the  *)
(* name of a host that is sniffed is as good as its address.               *)
(***************************************************************************)
EXTENDS Naturals, Sequences

VARIABLES
  setup,          \* the connection and the settings it was made with
  from, to,       \* the process or LAN device that sends, and the place it sends to
  at,             \* where the packet is now
  exit,           \* how it left: "", "direct", "tunnel" or "refused"
  path            \* the hops it took

vars == <<setup, from, to, at, exit, path>>

\* "browser" and "game" are the user's, "game" is in App Bypass; "device" is
\* on the LAN; the others belong to the connection.
App == "app"
Users == {"browser", "game", "device"}
Helpers == IF setup.engine = "xray" THEN {"xray"} ELSE {"aether"}
Places == {"site", "iran", "lan", "edge", "server", "dns", "quic", "icmp"}
Hops == {"host", "tun", "socks", "bypass", "core", "wire", "lost"}

TypeOK ==
  /\ setup \in [engine : {"xray", "pow"}, mode : {"proxy", "tun", "gateway"},
                route : {"pattern", "finalmask", "ech", "reality"},
                iran : BOOLEAN, viaPattern : BOOLEAN, vmess : BOOLEAN]
  /\ from \in Users \union {App, "xray", "aether", "singbox"} /\ to \in Places
  /\ at \in Hops /\ exit \in {"", "direct", "tunnel", "refused"} /\ path \in Seq(Hops)

Init ==
  /\ \/ setup \in [engine : {"xray"}, mode : {"proxy", "tun", "gateway"},
                   route : {"pattern", "finalmask", "ech", "reality"},
                   iran : BOOLEAN, viaPattern : BOOLEAN, vmess : BOOLEAN]
     \/ setup \in [engine : {"pow"}, mode : {"proxy", "tun"}, route : {"pattern"},
                   iran : {FALSE}, viaPattern : {FALSE}, vmess : {FALSE}]
  /\ from \in Users /\ to \in Places \ {"edge", "server"}
  /\ from = "device" => setup.mode = "gateway"
  /\ to \in {"quic", "icmp"} => setup.mode # "proxy"
  /\ at = "host" /\ exit = "" /\ path = <<>>
-----------------------------------------------------------------------------
(***************************************************************************)
(* What Engine.start decides of a config                                   *)
(***************************************************************************)
Direct == setup.route \in {"ech", "reality"}
FinalMask == setup.route = "finalmask"

\* plan_ech_via_pattern: only ECH over TLS; the core dials the config's server.
EchPlanned == setup.viaPattern /\ setup.route = "ech"

\* _fragment_required: the core listens on the port that is handed to it.
CoreListens == (~Direct /\ ~FinalMask) \/ EchPlanned

\* resolve_xray_upstream and the edge of a built-in config on MCI
Upstream == CASE EchPlanned -> "core" [] FinalMask -> "edge" [] Direct -> "server" [] OTHER -> "core"

\* build_xray_config: the port of the outbound; vmess keeps the one of its link.
DialsCore == Upstream = "core" /\ CoreListens /\ ~(EchPlanned /\ setup.vmess)

\* edge_addresses of the core and active_upstream_address, kept out of the TUN.
Edges == (IF CoreListens THEN {IF EchPlanned THEN "server" ELSE "edge"} ELSE {})
           \union (IF FinalMask THEN {"edge"} ELSE {})
-----------------------------------------------------------------------------
Go(hop) == at' = hop /\ path' = Append(path, hop)
Sends(who, place) == from' = who /\ to' = place
Leave(how) == Go("wire") /\ exit' = (IF exit = "" THEN how ELSE exit) /\ UNCHANGED <<setup, from, to>>

\* A packet of the host, or of a device that takes the host for its gateway,
\* is captured unless its address is excluded; a program under the Windows
\* proxy asks the local proxy.
Captured ==
  /\ at = "host" /\ setup.mode # "proxy" /\ to \notin Edges
  /\ Go("tun") /\ UNCHANGED <<setup, from, to, exit>>

NotCaptured ==
  /\ at = "host" /\ (setup.mode = "proxy" \/ to \in Edges) /\ from \notin Users
  /\ Leave("tunnel")

Proxied ==
  /\ at = "host" /\ setup.mode = "proxy" /\ from \in Users
  /\ Go(IF setup.engine = "pow" THEN "bypass" ELSE "socks") /\ UNCHANGED <<setup, from, to, exit>>
-----------------------------------------------------------------------------
(***************************************************************************)
(* build_singbox_tun_config: the rules in their order                      *)
(***************************************************************************)
Lan == setup.mode = "gateway"
Scoped == Lan => from = "device"

Rule(match, action) == [match |-> match, action |-> action]

\* Faulty: the helpers are not kept out of the tunnel they carry.
TunRules_NoHelpers ==
  << Rule(from = App /\ to \in Edges, "direct"),
     Rule(Scoped /\ to = "dns", "dns"),
     Rule(Lan /\ from = "device" /\ to \in {"quic", "icmp"}, "reject"),
     Rule(~Lan /\ to = "icmp", "direct"),
     Rule(from = "game", "direct"),
     Rule(Lan /\ from = "device" /\ to = "lan", "direct"),
     Rule(Lan /\ from = "device", "proxy"),
     Rule(~Lan /\ to = "lan", "direct"),
     Rule(TRUE, "proxy") >>

TunRules ==
  << Rule(from = App /\ to \in Edges, "direct"),
     Rule(from \in Helpers, "direct"),
     Rule(Scoped /\ to = "dns", "dns"),
     Rule(Lan /\ from = "device" /\ to \in {"quic", "icmp"}, "reject"),
     Rule(~Lan /\ to = "icmp", "direct"),
     Rule(from = "game", "direct"),
     Rule(Lan /\ from = "device" /\ to = "lan", "direct"),
     Rule(Lan /\ from = "device", "proxy"),
     Rule(~Lan /\ to = "lan", "direct"),
     Rule(TRUE, "proxy") >>

First(rules) == rules[CHOOSE i \in DOMAIN rules : /\ rules[i].match
                                                  /\ \A j \in 1..(i - 1) : ~rules[j].match].action

TunDirect == at = "tun" /\ First(TunRules) = "direct"
             /\ Leave(IF from \in Users THEN "direct" ELSE "tunnel")
TunRefuses == at = "tun" /\ First(TunRules) = "reject" /\ Leave("refused")

\* A hijacked question is asked again over TCP, by sing-box and by the proxy.
TunProxies ==
  /\ at = "tun" /\ First(TunRules) \in {"proxy", "dns"} /\ Go("socks")
  /\ Sends("singbox", IF First(TunRules) = "dns" THEN "site" ELSE to) /\ UNCHANGED <<setup, exit>>

\* build_singbox_proxy_bypass_config, before the exit of PoW
BypassRules == << Rule(from \in Helpers, "direct"), Rule(from = "game", "direct"), Rule(TRUE, "proxy") >>

BypassRoutes ==
  /\ at = "bypass"
  /\ IF First(BypassRules) = "direct" THEN Leave("direct")
     ELSE Go("socks") /\ Sends("singbox", to) /\ UNCHANGED <<setup, exit>>
-----------------------------------------------------------------------------
(***************************************************************************)
(* The proxy at the SOCKS port                                             *)
(***************************************************************************)
\* build_xray_config and iran_direct_rules
XrayRules ==
  << Rule(from = "game", "direct"),
     Rule(setup.iran /\ to \in {"lan", "iran"}, "direct"),
     Rule(TRUE, "proxy") >>

\* Xray dials: as a process of its own it may be captured again.
XrayDirect ==
  /\ at = "socks" /\ setup.engine = "xray" /\ First(XrayRules) = "direct"
  /\ Go("host") /\ Sends("xray", to) /\ exit' = "direct" /\ UNCHANGED setup

XrayDials ==
  /\ at = "socks" /\ setup.engine = "xray" /\ First(XrayRules) = "proxy"
  /\ IF Upstream = "core" THEN Go(IF DialsCore THEN "core" ELSE "lost") /\ UNCHANGED to
     ELSE Go("host") /\ to' = Upstream
  /\ from' = "xray" /\ exit' = "tunnel" /\ UNCHANGED setup

\* The core runs in the app and dials the edge it spoofs.
CoreDials ==
  /\ at = "core" /\ Go("host") /\ Sends(App, IF EchPlanned THEN "server" ELSE "edge")
  /\ UNCHANGED <<setup, exit>>

PowDials ==
  /\ at = "socks" /\ setup.engine = "pow"
  /\ Go("host") /\ Sends("aether", "server") /\ exit' = "tunnel" /\ UNCHANGED setup

Next ==
  \/ Captured \/ NotCaptured \/ Proxied \/ TunDirect \/ TunRefuses \/ TunProxies \/ BypassRoutes
  \/ XrayDirect \/ XrayDials \/ CoreDials \/ PowDials

Spec == Init /\ [][Next]_vars
-----------------------------------------------------------------------------
(***************************************************************************)
(* The tunnel never carries itself: what the helpers and the app's core    *)
(* send reaches the wire without passing a proxy again, and the way of any *)
(* packet ends.  Only a vmess config that is sent to the local core does   *)
(* not reach it: its outbound keeps the port of its link (engine.py:912).  *)
(***************************************************************************)
NoLoop == /\ at \in {"socks", "bypass"} => from \in Users \union {"singbox"}
          /\ Len(path) <= 6
          /\ at = "lost" => setup.vmess /\ EchPlanned

\* Where a packet can be after some hops, and who has sent it: what a helper or
\* the core sends has one way, out.
After(hops) ==
  \/ at = "host" /\ from \in Users /\ hops = 0
  \/ at \in {"tun", "bypass"} /\ from \in Users /\ hops = 1
  \/ at = "socks" /\ from \in Users \union {"singbox"} /\ hops <= 2
  \/ at = "core" /\ CoreListens /\ hops <= 3
  \/ at = "host" /\ from \in Helpers /\ hops <= 3
  \/ at = "host" /\ from = App /\ to \in Edges /\ hops <= 4
  \/ at = "tun" /\ from \in Helpers /\ hops <= 4
  \/ at = "wire" /\ hops <= 5
  \/ at = "lost" /\ setup.vmess /\ EchPlanned /\ hops <= 5

OnItsWay == /\ setup.engine \in {"xray", "pow"} /\ path \in Seq(Hops)
            /\ \E hops \in Nat : hops = Len(path) /\ After(hops)
=============================================================================
