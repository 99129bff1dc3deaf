-------------------------- MODULE MCGatewayRecovery --------------------------
(***************************************************************************)
(* Small instances of GatewayRecovery for TLC.                             *)
(***************************************************************************)
EXTENDS GatewayRecovery, TLC

B(sessions, crashes, fails, misses) ==
  [sessions |-> sessions, crashes |-> crashes, fails |-> fails, misses |-> misses]

\* Two sessions with a forced end and a restore that fails in the application,
\* one session whose watchdog fails as well.
EachFault == {B(2, 1, 1, 0), B(1, 1, 1, 1)}

\* One session.
NoFault == {B(1, 0, 0, 0)}
=============================================================================
