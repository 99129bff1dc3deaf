------------------------------- MODULE MCParts -------------------------------
(***************************************************************************)
(* Values of the constants of Parts that a configuration cannot write.     *)
(***************************************************************************)
EXTENDS Parts

\* recipe, MASQUE choice and carrier of the ladders of UAC PoW.
LadderRoutes ==
  {<<"auto", "auto", FALSE>>, <<"auto", "auto", TRUE>>, <<"auto", "wireguard", FALSE>>,
   <<"auto", "wireguard", TRUE>>, <<"auto", "masque", FALSE>>,
   <<"h2", "wireguard", FALSE>>, <<"wireguard", "auto", FALSE>>}

Ladders ==
  {[recipe |-> r[1], choice |-> r[2], mci |-> r[3], chain |-> c, fast |-> c /\ f, h3 |-> f,
    fetch |-> IF f THEN "oob" ELSE "auto", region |-> c]
     : r \in LadderRoutes, c \in BOOLEAN, f \in BOOLEAN}

CoreMode(f, p, o) == [fakes |-> f, pieces |-> p, failover |-> o]
ModesOfWire == {CoreMode(TRUE, FALSE, FALSE), CoreMode(TRUE, TRUE, TRUE)}
EdgeModes == {CoreMode(FALSE, TRUE, TRUE), CoreMode(FALSE, TRUE, FALSE)}

\* A strategy file: repeated ids, cuts before, in and after the SNI, methods
\* that are no plan, strategies that were not confirmed, ops that are no ops, an
\* unsafe op behind the last one that is kept.
GeneOp(k, s, d, o) == [kind |-> k, size |-> s, delay |-> d, offset |-> o]
Strategy(i, m, o, c, sc) == [id |-> i, method |-> m, ops |-> o, confirmed |-> c, score |-> sc]
GeneFile ==
  {Strategy("a", "primitive", <<GeneOp("record_cut", 2, 0, 0), GeneOp("tcp_frag", 3, 1, 0),
                                GeneOp("delay", 0, 2, 0), GeneOp("sni_cut", 0, 0, 1)>>, TRUE, 2),
   Strategy("b", "primitive", <<GeneOp("tcp_frag", 1, 0, 0), GeneOp("sni_cut", 0, 0, 0),
                                GeneOp("sni_cut", 0, 0, 2), GeneOp("tcp_frag", 9, 1, 0),
                                GeneOp("pad_ext", 1, 0, 0)>>, TRUE, 1),
   Strategy("b", "primitive", <<GeneOp("delay", 0, 1, 0), GeneOp("", 0, 0, 0), GeneOp("record_cut", 9, 0, 0),
                                GeneOp("record_cut", 1, 0, 0)>>, TRUE, 2),
   Strategy("c", "primitive", <<GeneOp("tcp_frag", 1, 0, 0), GeneOp("pad_ext", 1, 0, 0)>>, TRUE, 3),
   Strategy("c", "full", <<>>, TRUE, 1), Strategy("d", "sni_split", <<>>, TRUE, 2),
   Strategy("d", "sni_boundary", <<>>, FALSE, 2), Strategy("e", "tls_sni_records", <<>>, TRUE, 2),
   Strategy("f", "plain", <<>>, TRUE, 1), Strategy("f", "primitive", <<>>, TRUE, 1)}
SniSpan == <<3, 5>>

\* Connects on three carriers: several genes, none, and a locked strategy.
FlowOption(c, a, l, g, m) == [carrier |-> c, auto |-> a, locked |-> l, multi |-> g, mux |-> m]
Flows ==
  {FlowOption("auto", TRUE, FALSE, TRUE, TRUE), FlowOption("mci", FALSE, FALSE, FALSE, TRUE),
   FlowOption("irancell", FALSE, TRUE, TRUE, FALSE)}

ListOrigin == <<"suggested", "user", "user-config", "user">>
ListCode == <<"a", "", "a", "">>
=============================================================================
