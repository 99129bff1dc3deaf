---------------------------- MODULE MCPowSession ----------------------------
(***************************************************************************)
(* Small instances of PowSession for TLC: one or two clicks on each of the *)
(* three buttons, which are interchangeable.                               *)
(***************************************************************************)
EXTENDS PowSession, TLC

Symmetry == Permutations(Connects) \union Permutations(Switches)

\* The user makes every click of the instance.
Whole == {EveryClick}

\* Two connects and a disconnect, or one connect, a disconnect and the switches.
Overlaps == {EveryClick \ Swappers} \union {EveryClick \ {m} : m \in Mains}
=============================================================================
