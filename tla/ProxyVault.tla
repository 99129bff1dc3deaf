----------------------------- MODULE ProxyVault -----------------------------
(***************************************************************************)
(* What the Windows proxy override promises the user, with nothing of how  *)
(* it is done: the settings found before the first change are kept in a    *)
(* vault, the live settings may be changed only while the vault holds      *)
(* them, and the vault is emptied only when they are live again.  A vault  *)
(* may be taken away once; nothing is promised after that.                 *)
(* WindowsProxy.tla (class WindowsProxy of uac_desktop/engine.py) is shown *)
(* to implement this module when one instance at a time uses one proxy     *)
(* object.                                                                 *)
(***************************************************************************)
CONSTANTS
  UserSettings,   \* the settings a user may choose in Windows
  Empty           \* the vault holds nothing

VARIABLES
  live,           \* the settings Windows applies now
  saved,          \* Empty, or the settings to give back
  lost            \* the vault was taken away with settings that were not live

vars == <<live, saved, lost>>

\* A restore file left by a release that ran before is a full vault.
Init == /\ \/ live \in UserSettings /\ saved = Empty
           \/ saved \in UserSettings
        /\ lost = FALSE

Choose == saved = Empty /\ live' \in UserSettings /\ UNCHANGED saved

Save == saved = Empty /\ saved' = live /\ UNCHANGED live

Change == saved # Empty /\ UNCHANGED saved

Release == saved # Empty /\ live = saved /\ saved' = Empty /\ UNCHANGED live

Keep == Choose \/ Save \/ Change \/ Release

Lose == /\ saved # Empty /\ live # saved
        /\ saved' = Empty /\ lost' = TRUE /\ UNCHANGED live

Next == \/ ~lost /\ Keep /\ UNCHANGED lost
        \/ ~lost /\ Lose
        \/ lost /\ lost'

Spec == Init /\ [][Next]_vars
=============================================================================
