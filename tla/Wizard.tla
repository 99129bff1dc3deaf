-------------------------------- MODULE Wizard --------------------------------
(***************************************************************************)
(* The quick-start wizard: it probes how the line filters, then fetches,   *)
(* tests and adds configurations by driving the SNI Maker                  *)
(* (uac_desktop/first_run_wizard.py, the wizard's half of                  *)
(* uac_desktop/ui.py).  The dialog is modal: the user moves in the main    *)
(* window only while it is closed.  Abstractions: a list is "mine" (the    *)
(* user's own) or "list" (the one the wizard fetches); a test of it finds  *)
(* healthy configurations or none; wording and progress are left out.      *)
(***************************************************************************)
EXTENDS Naturals, Sequences, FiniteSets

CONSTANTS
  Edges,                  \* the most edges the line's probe reaches
  Flows, Imports, Tests   \* flows of the wizard, imports and tests of the user

VARIABLES
  engine,    \* the tunnel runs or is being connected
  page,      \* "closed" or the page of the dialog
  kind,      \* how the line filters: "sni", "ip"
  phase,     \* _wizard_phase
  lastOk,    \* last_ok
  scans,     \* clean address searches under way
  launching, \* a test the event loop is about to launch: its list
  table,     \* the SNI Maker's table: the list in it, and whether rows are healthy
  maker,     \* the SNI Maker's test: running, its list, cancelled
  imports,   \* imports under way: generation and list
  current,   \* _maker_import_generation
  queue,     \* signals on their way to the main window
  left       \* flows, imports and tests left

vars == <<engine, page, kind, phase, lastOk, scans, launching, table, maker, imports,
          current, queue, left>>
making == <<launching, table, maker, imports, current, queue>>

Lists == {"none", "mine", "list"}
Pages == {"closed", "hello", "check", "verdict", "run", "done"}

TypeOK ==
  /\ engine \in BOOLEAN /\ page \in Pages /\ kind \in {"sni", "ip"}
  /\ phase \in {"", "scan", "fetch", "test"} /\ lastOk \in BOOLEAN
  /\ scans \in 0..Flows /\ launching \in Lists
  /\ table \in [of : Lists, healthy : BOOLEAN]
  /\ maker \in [on : BOOLEAN, of : Lists, cancel : BOOLEAN]
  /\ imports \subseteq [gen : 1..current, of : Lists \ {"none"}] /\ current \in 0..Imports + Flows
  /\ \A i \in DOMAIN queue : queue[i].kind \in {"imported", "done", "failed"}
  /\ left.flows \in 0..Flows /\ left.imports \in 0..Imports /\ left.tests \in 0..Tests

Init ==
  /\ engine = FALSE /\ page = "closed" /\ kind = "sni" /\ phase = "" /\ lastOk = TRUE
  /\ scans = 0 /\ launching = "none" /\ table = [of |-> "none", healthy |-> FALSE]
  /\ maker = [on |-> FALSE, of |-> "none", cancel |-> FALSE] /\ imports = {} /\ current = 0
  /\ queue = <<>> /\ left = [flows |-> Flows, imports |-> Imports, tests |-> Tests]
-----------------------------------------------------------------------------
(***************************************************************************)
(* How the line filters                                                    *)
(***************************************************************************)
\* classify_dpi: what the probe saw, or what the carrier is known for.
Classify(reachable, fragmented, family) ==
  IF reachable >= 2 THEN IF 100 * fragmented >= 34 * reachable THEN "ip" ELSE "sni"
  ELSE IF family = "irancell" THEN "ip" ELSE "sni"

\* _detect and show_verdict.  Through a tunnel nothing is probed.
Detected ==
  /\ page = "check" /\ page' = "verdict"
  /\ \E r \in IF engine THEN {0} ELSE 0..Edges, family \in {"mci", "irancell", "isp"} :
       \E f \in 0..r : kind' = Classify(r, f, family)
  /\ UNCHANGED <<engine, phase, lastOk, scans, making, left>>
-----------------------------------------------------------------------------
(***************************************************************************)
(* The main window, while the wizard is closed                             *)
(***************************************************************************)
Connects ==
  /\ page = "closed" /\ ~maker.on /\ engine' = ~engine
  /\ UNCHANGED <<page, kind, phase, lastOk, scans, making, left>>

\* _maker_import_worker: the import before it is not current any more.
ImportStarts(what) ==
  /\ current' = current + 1 /\ imports' = imports \union {[gen |-> current + 1, of |-> what]}

Imported ==
  /\ page = "closed" /\ ~maker.on /\ left.imports > 0
  /\ left' = [left EXCEPT !.imports = @ - 1] /\ ImportStarts("mine")
  /\ UNCHANGED <<engine, page, kind, phase, lastOk, scans, launching, table, maker, queue>>

\* _maker_launch_test, which does nothing while a test runs.
Launches(what) ==
  IF maker.on THEN UNCHANGED maker
  ELSE maker' = [on |-> TRUE, of |-> what, cancel |-> FALSE]

UserTests ==
  /\ page = "closed" /\ ~engine /\ ~maker.on /\ table.of # "none" /\ left.tests > 0
  /\ left' = [left EXCEPT !.tests = @ - 1] /\ Launches(table.of)
  /\ UNCHANGED <<engine, page, kind, phase, lastOk, scans, launching, table, imports, current, queue>>
-----------------------------------------------------------------------------
(***************************************************************************)
(* The dialog                                                              *)
(***************************************************************************)
Turns(from, to) ==
  /\ page = from /\ page' = to /\ UNCHANGED <<engine, kind, lastOk, scans, making, left>>

\* _open_wizard
Open == left.flows > 0 /\ Turns("closed", "hello") /\ phase' = ""
StartCheck == Turns("hello", "check") /\ UNCHANGED phase

\* flow_finished: the run page gives way to the last one.
Finishes(ok) == phase' = "" /\ lastOk' = ok /\ page' = "done"

\* _wizard_start_patterniha: stop the user's test, fetch the list.
Fetches ==
  /\ phase' = "fetch" /\ ImportStarts("list")
  /\ maker' = IF maker.on THEN [maker EXCEPT !.cancel = TRUE] ELSE maker

\* start_flow and wizard_start_flow, also "try again" on the last page.
StartFlow ==
  /\ page = "verdict" \/ (page = "done" /\ ~lastOk)
  /\ left.flows > 0 /\ left' = [left EXCEPT !.flows = @ - 1]
  /\ IF engine THEN Finishes(FALSE) /\ UNCHANGED <<scans, maker, imports, current>>
     ELSE /\ page' = "run" /\ UNCHANGED lastOk
          /\ IF kind = "sni" THEN Fetches /\ UNCHANGED scans
             ELSE phase' = "scan" /\ scans' = scans + 1 /\ UNCHANGED <<maker, imports, current>>
  /\ UNCHANGED <<engine, kind, launching, table, queue>>

\* _wizard_scan_done: for whichever flow is scanning now.
ScanDone ==
  /\ scans > 0 /\ scans' = scans - 1
  /\ IF phase = "scan" THEN Fetches ELSE UNCHANGED <<phase, maker, imports, current>>
  /\ UNCHANGED <<engine, page, kind, lastOk, launching, table, queue, left>>

\* reject and wizard_stop_flow: a test is stopped only if it was launched.
Close ==
  /\ page # "closed" /\ page' = "closed" /\ phase' = ""
  /\ maker' = IF phase = "test" /\ maker.on THEN [maker EXCEPT !.cancel = TRUE] ELSE maker
  /\ UNCHANGED <<engine, kind, lastOk, scans, launching, table, imports, current, queue, left>>
-----------------------------------------------------------------------------
(***************************************************************************)
(* The SNI Maker's threads                                                 *)
(***************************************************************************)
Emit(signal) == queue' = Append(queue, signal)
Signal(k, g, what, ok) == [kind |-> k, gen |-> g, of |-> what, ok |-> ok]

ImportEnds ==
  /\ \E i \in imports, ok \in BOOLEAN :
       imports' = imports \ {i} /\ Emit(Signal("imported", i.gen, i.of, ok))
  /\ UNCHANGED <<engine, page, kind, phase, lastOk, scans, launching, table, maker, current, left>>

\* run_all_modes ends: maker_done or, if it raised, maker_failed.
TestEnds ==
  /\ maker.on /\ maker.of # "none"
  /\ \E k \in {"done", "failed"}, found \in BOOLEAN :
       Emit(Signal(k, 0, maker.of, found)) /\ maker' = [maker EXCEPT !.of = "none"]
  /\ UNCHANGED <<engine, page, kind, phase, lastOk, scans, launching, table, imports, current, left>>
-----------------------------------------------------------------------------
(***************************************************************************)
(* Signals: the main window takes each first, then the wizard              *)
(***************************************************************************)
Takes(k) == queue # <<>> /\ Head(queue).kind = k /\ queue' = Tail(queue)

\* _maker_import_finished ignores an import that is not current;
\* _wizard_on_imported does not, and launches a test of the table.
TakeImported ==
  LET s == Head(queue)
      new == IF s.gen = current /\ s.ok THEN [of |-> s.of, healthy |-> FALSE] ELSE table
  IN  /\ Takes("imported") /\ table' = new
      /\ IF phase # "fetch" THEN UNCHANGED <<phase, lastOk, page, launching>>
         ELSE IF ~s.ok \/ new.of = "none" THEN Finishes(FALSE) /\ UNCHANGED launching
         ELSE phase' = "test" /\ launching' = new.of /\ UNCHANGED <<lastOk, page>>
      /\ UNCHANGED <<engine, kind, scans, maker, imports, current, left>>

Launch ==
  /\ launching # "none" /\ launching' = "none" /\ Launches(launching)
  /\ UNCHANGED <<engine, page, kind, phase, lastOk, scans, table, imports, current, queue, left>>

\* _maker_test_done and _wizard_on_done: any test's end ends the flow.
TakeDone ==
  LET s == Head(queue)
      rows == [table EXCEPT !.healthy = @ \/ (s.ok /\ s.of = table.of)]
  IN  /\ Takes("done") /\ table' = rows /\ maker' = [maker EXCEPT !.on = FALSE]
      /\ IF phase = "test" THEN Finishes(rows.healthy) ELSE UNCHANGED <<phase, lastOk, page>>
      /\ UNCHANGED <<engine, kind, scans, launching, imports, current, left>>

\* _maker_failed and _wizard_on_failed.  Faulty: only while the list is fetched.
Fails_InFetch == phase = "fetch"
Fails == phase \in {"test", "fetch"}
TakeFailed ==
  /\ Takes("failed") /\ maker' = [maker EXCEPT !.on = FALSE]
  /\ IF Fails THEN Finishes(FALSE) ELSE UNCHANGED <<phase, lastOk, page>>
  /\ UNCHANGED <<engine, kind, scans, launching, table, imports, current, left>>

Next ==
  \/ Detected \/ Connects \/ Imported \/ UserTests
  \/ Open \/ StartCheck \/ StartFlow \/ ScanDone \/ Close
  \/ ImportEnds \/ TestEnds \/ TakeImported \/ Launch \/ TakeDone \/ TakeFailed

Spec == Init /\ [][Next]_vars
-----------------------------------------------------------------------------
Sent(k) == \E i \in DOMAIN queue : queue[i].kind = k
Testing == maker.on \/ launching # "none"

(***************************************************************************)
(* A flow that is shown as running is never left alone: something under    *)
(* way will still move it on, whatever other imports, tests and searches   *)
(* end in between (the wizard does not tell them from its own).            *)
(***************************************************************************)
FlowUnderWay ==
  /\ page = "run" <=> phase # ""
  /\ phase = "scan" => scans > 0
  /\ phase = "fetch" => Sent("imported") \/ imports # {}
  /\ phase = "test" => Testing

\* The signals on their way and what they were sent for have their types.
Signals == [kind : {"imported", "done", "failed"}, gen : Nat, of : Lists, ok : BOOLEAN]
Sources ==
  /\ queue \in Seq(Signals) /\ scans \in Nat /\ current \in Nat
  /\ imports \subseteq [gen : Nat, of : Lists] /\ launching \in Lists
  /\ table \in [of : Lists, healthy : BOOLEAN]
  /\ maker \in [on : BOOLEAN, of : Lists, cancel : BOOLEAN]
FlowInv == Sources /\ FlowUnderWay
=============================================================================
