--------------------------- MODULE MCEngineGateway ---------------------------
(***************************************************************************)
(* Small instances of EngineGateway for TLC.                               *)
(***************************************************************************)
EXTENDS EngineGateway, TLC

Symmetry == Permutations(Applies) \union Permutations(Workers)

B(runs, fails, deaths, switches, stale) ==
  [runs |-> runs, fails |-> fails, deaths |-> deaths, switches |-> switches,
   stale |-> stale]

\* Two runs without faults, one run with any of the faults.
EachFault ==
  {B(2, 0, 0, 0, FALSE), B(1, 1, 0, 0, FALSE), B(1, 1, 0, 0, TRUE),
   B(1, 0, 1, 0, FALSE), B(1, 0, 0, 1, FALSE)}

\* A restore that fails, and nothing else.
OneFail == {B(1, 1, 0, 0, FALSE)}
=============================================================================
