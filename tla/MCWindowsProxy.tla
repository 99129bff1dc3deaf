--------------------------- MODULE MCWindowsProxy ---------------------------
(***************************************************************************)
(* Small instances of WindowsProxy for TLC: two users' settings, one with  *)
(* a proxy of their own and a bypass list that does not exist, one without *)
(* any proxy.                                                              *)
(***************************************************************************)
EXTENDS WindowsProxy, TLC

MCUserTexts == {"corp"}

MCUserSettings ==
  { [ProxyEnable |-> "on", ProxyServer |-> "corp", ProxyOverride |-> "absent"],
    [ProxyEnable |-> "absent", ProxyServer |-> "absent", ProxyOverride |-> "absent"] }

Symmetry == Permutations(Procs)
=============================================================================
