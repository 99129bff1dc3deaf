------------------------------ MODULE DataReset ------------------------------
(***************************************************************************)
(* The start and the end of the application (main.py) around the one-time  *)
(* data reset of data_reset.py: restore what a dead instance left, move    *)
(* the old data to a backup folder, write the marker, take the instance    *)
(* mutex, run.  Several instances may be started and each may be killed    *)
(* between any two steps; entries may be locked by another program.        *)
(*                                                                         *)
(* The proxy record (windows-proxy-restore.json) is one of the entries.    *)
(* How it is written and read is the subject of WindowsProxy.  Here an     *)
(* instance connects only while Windows has no override.                   *)
(***************************************************************************)
EXTENDS Integers, FiniteSets

CONSTANTS
  Dirs,       \* entries of the data folder that are directories
  Files,      \* entries that are files, "record" among them
  Procs,      \* the instances that may be started
  Faults      \* how many locked entries, full disks, failing writes or failing restores

Entries == Dirs \cup Files
None == "none"
Old == 0      \* the instance of the version before: its data, its processes
Users == Procs \cup {Old}

VARIABLES
  marker,     \* the marker file of the reset exists
  folder,     \* what an entry of the data folder holds: none, old or new data
  backup,     \* <<entry, data>> in the backup folders
  pc,         \* where an instance is in main()
  todo,       \* the entries an instance still has to move
  proxy,      \* the instance Windows' proxy settings point to, or none 
  engines,    \* the instances whose engine processes run
  left,       \* faults left
  torn        \* old folders that were removed and not wholly copied (history)

vars == <<marker, folder, backup, pc, todo, proxy, engines, left, torn>>

Nobody == -1
Steps == {"off", "start", "reset", "engines", "move", "mark", "gui", "run", "box", "ended"}

TypeOK ==
  /\ marker \in BOOLEAN
  /\ folder \in [Entries -> {None, "old", "new"}]
  /\ backup \subseteq Entries \X {"old", "new"}
  /\ pc \in [Procs -> Steps]
  /\ todo \in [Procs -> SUBSET Entries]
  /\ proxy \in Users \cup {Nobody}
  /\ engines \subseteq Users
  /\ left \in 0..Faults
  /\ torn \subseteq Dirs

\* The version before was killed while connected, or it ended properly.
Init ==
  /\ marker = FALSE
  /\ \E dead \in BOOLEAN :
       /\ proxy = IF dead THEN Old ELSE Nobody
       /\ engines = IF dead THEN {Old} ELSE {}
       /\ folder = [e \in Entries |-> IF e = "record" /\ ~dead THEN None ELSE "old"]
  /\ backup = {}
  /\ pc = [p \in Procs |-> "off"]
  /\ todo = [p \in Procs |-> {}]
  /\ left = Faults
  /\ torn = {}

Goes(p, from, to) == pc[p] = from /\ pc' = [pc EXCEPT ![p] = to]
Fault == left > 0 /\ left' = left - 1

\* The mutex exists while any process holds a handle of it: also one that
\* shows "already running".
Holders == {p \in Procs : pc[p] \in {"run", "box"}}
Alive(p) == p \in Procs /\ pc[p] \notin {"off", "ended"}

Start(p) == /\ Goes(p, "off", "start")
            /\ UNCHANGED <<marker, folder, backup, todo, proxy, engines, left, torn>>

(***************************************************************************)
(* WindowsProxy.recover_stale of the start: a record whose owner is dead   *)
(* is put back and removed; a failing restore leaves it where it is.       *)
(***************************************************************************)
Stale == folder["record"] # None /\ proxy # Nobody /\ ~Alive(proxy)

Restore ==
  \/ /\ Stale
     /\ proxy' = Nobody
     /\ folder' = [folder EXCEPT !["record"] = None]
     /\ UNCHANGED left
  \/ Stale /\ Fault /\ UNCHANGED <<proxy, folder>>
  \/ ~Stale /\ UNCHANGED <<proxy, folder, left>>

Recover(p) == /\ Goes(p, "start", "reset")
              /\ Restore
              /\ UNCHANGED <<marker, backup, todo, engines, torn>>

\* The first lines of run: the marker, the mutex of a running instance and
\* the list of the entries, taken once.
Present == {e \in Entries : folder[e] # None}

Look(p) ==
  /\ pc[p] = "reset"
  /\ IF marker \/ Holders # {}
       THEN pc' = [pc EXCEPT ![p] = "gui"] /\ UNCHANGED todo
       ELSE /\ pc' = [pc EXCEPT ![p] = IF Present = {} THEN "mark" ELSE "engines"]
            /\ todo' = [todo EXCEPT ![p] = Present]
  /\ UNCHANGED <<marker, folder, backup, proxy, engines, left, torn>>

\* _stop_old_engines: everything started from the bin folder, whoever owns it.
StopOldEngines(p) ==
  /\ Goes(p, "engines", "move")
  /\ engines' = {}
  /\ UNCHANGED <<marker, folder, backup, todo, proxy, left, torn>>

(***************************************************************************)
(* _move_entry.  A rename; or, when that fails (the entry or something in  *)
(* it is open), a copy after which the original is removed unless it is    *)
(* locked.  A file that cannot be copied stays; in a directory _safe_copy  *)
(* passes over a file it cannot copy (the disk is full, the file cannot be *)
(* read) and rmtree removes the tree all the same.                         *)
(***************************************************************************)
Copied(e) == backup' = backup \cup {<<e, folder[e]>>}
Gone(e) == folder' = [folder EXCEPT ![e] = None]
Whole == UNCHANGED torn

Renamed(e) == folder[e] # None /\ Copied(e) /\ Gone(e) /\ Whole /\ UNCHANGED left
Locked(e) == folder[e] # None /\ Fault /\ Copied(e) /\ Whole /\ UNCHANGED folder
\* Faulty: what cannot be moved is removed all the same.
Unreadable_Unlinks(e) == folder[e] # None /\ Fault /\ Gone(e) /\ Whole /\ UNCHANGED backup
Unreadable(e) == folder[e] # None /\ Fault /\ Whole /\ UNCHANGED <<backup, folder>>
Swallowed(e) ==
  /\ e \in Dirs /\ folder[e] # None /\ Fault
  /\ Gone(e) /\ torn' = torn \cup (IF folder[e] = "old" THEN {e} ELSE {}) /\ UNCHANGED backup
Vanished(e) == folder[e] = None /\ Whole /\ UNCHANGED <<backup, folder, left>>

MoveEntry(p, e) ==
  /\ pc[p] = "move" /\ e \in todo[p]
  /\ Renamed(e) \/ Locked(e) \/ Unreadable(e) \/ Swallowed(e) \/ Vanished(e)
  /\ todo' = [todo EXCEPT ![p] = @ \ {e}]
  /\ UNCHANGED <<marker, pc, proxy, engines>>

Moved(p) == /\ todo[p] = {}
            /\ Goes(p, "move", "mark")
            /\ UNCHANGED <<marker, folder, backup, todo, proxy, engines, left, torn>>

\* marker.write_text; an error ends the reset without stopping the start.
Mark(p) ==
  /\ Goes(p, "mark", "gui")
  /\ \/ marker' = TRUE /\ UNCHANGED left
     \/ Fault /\ UNCHANGED marker
  /\ UNCHANGED <<folder, backup, todo, proxy, engines, torn>>

\* acquire_single_instance, and the second recover_stale of the one that got it.
Acquire(p) ==
  /\ Holders = {}
  /\ Goes(p, "gui", "run")
  /\ Restore
  /\ UNCHANGED <<marker, backup, todo, engines, torn>>

AlreadyRunning(p) ==
  /\ Holders # {}
  /\ Goes(p, "gui", "box")
  /\ UNCHANGED <<marker, folder, backup, todo, proxy, engines, left, torn>>

Dismiss(p) == /\ Goes(p, "box", "ended")
              /\ UNCHANGED <<marker, folder, backup, todo, proxy, engines, left, torn>>

\* The running window saves settings and profiles ...
Save(p, e) ==
  /\ pc[p] = "run" /\ e # "record" /\ folder[e] = None
  /\ folder' = [folder EXCEPT ![e] = "new"]
  /\ UNCHANGED <<marker, backup, pc, todo, proxy, engines, left, torn>>

\* ... connects (the record is written before Windows is changed) ...
Connect(p) ==
  /\ pc[p] = "run" /\ proxy = Nobody
  /\ proxy' = p
  /\ folder' = [folder EXCEPT !["record"] = "new"]
  /\ engines' = engines \cup {p}
  /\ UNCHANGED <<marker, backup, pc, todo, left, torn>>

\* ... and run_event_loop's finally: the engine is stopped, the helpers of the
\* bin folder are ended, the proxy is restored once more by its identity.
Quit(p) ==
  /\ Goes(p, "run", "ended")
  /\ engines' = engines \ {p}
  /\ IF proxy = p /\ folder["record"] # None
       THEN \/ /\ proxy' = Nobody
               /\ folder' = [folder EXCEPT !["record"] = None]
               /\ UNCHANGED left
            \/ Fault /\ UNCHANGED <<proxy, folder>>
       ELSE UNCHANGED <<proxy, folder, left>>
  /\ UNCHANGED <<marker, backup, todo, torn>>

Killed(p) == /\ Alive(p)
             /\ pc' = [pc EXCEPT ![p] = "ended"]
             /\ UNCHANGED <<marker, folder, backup, todo, proxy, engines, left, torn>>

Next ==
  \E p \in Procs :
    \/ Start(p) \/ Recover(p) \/ Look(p) \/ StopOldEngines(p) \/ Moved(p) \/ Mark(p)
    \/ Acquire(p) \/ AlreadyRunning(p) \/ Dismiss(p) \/ Connect(p) \/ Quit(p) \/ Killed(p)
    \/ \E e \in Entries : MoveEntry(p, e) \/ Save(p, e)

Spec == Init /\ [][Next]_vars

(***************************************************************************)
(* Properties                                                              *)
(***************************************************************************)

\* Whatever is locked, whoever else is started and wherever an instance is
\* killed, a file the version before stored is in the data folder or in a
\* backup, and so is a folder of it, unless it could neither be renamed nor
\* wholly be copied: then what was not copied is deleted, against "MOVED to a
\* sibling folder, never deleted".  (The record is removed when it has served.)
OldDataKept ==
  \A e \in Entries \ {"record"} :
    folder[e] = "old" \/ <<e, "old">> \in backup \/ e \in Dirs \cap torn

\* What it rests on: an entry of the old data is only ever moved.
OldDataInv == folder \in [Entries -> {None, "old", "new"}] /\ OldDataKept

\* As long as Windows points to an instance that is dead, its record is where
\* the next start looks for it.
RecordStays ==
  proxy # Nobody /\ ~Alive(proxy) => folder["record"] # None

\* A reset never moves the data of a running instance nor ends its engines.
LiveDataStays ==
  [][\A p \in Procs : pc[p] = "run" /\ pc'[p] = "run" =>
       /\ engines \cap {p} \subseteq engines'
       /\ \A e \in Entries : folder[e] = "new" => folder'[e] # None \/ e = "record"]_vars
=============================================================================
