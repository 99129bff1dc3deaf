------------------------------- MODULE SniMaker -------------------------------
(***************************************************************************)
(* The SNI Maker: configurations imported into a table, and the live test  *)
(* of the table that tries every carrier and method in rounds              *)
(* (uac_desktop/sni_batch.py, the SNI Maker page of uac_desktop/ui.py).    *)
(* Abstractions: a configuration is its signature, a round starts one Xray *)
(* and either fails as a whole or gives a result per configuration; ports, *)
(* edges and probe requests are left out.  The generation number of a test *)
(* is left out too: Clear, the only one to change it besides a launch, is  *)
(* disabled while a test runs, and its end is the last signal of a test.   *)
(***************************************************************************)
EXTENDS Naturals, Sequences, FiniteSets

CONSTANTS
  Profiles, Ech,      \* configurations, and those with an ECH route
  Rounds,             \* the plans of run_all_modes, 1..Rounds; 0 is the ECH round
  Launches, Imports   \* tests and imports a behaviour may have

VARIABLES
  rows,       \* the table: the status of every configuration, "absent" if not in it
  verified,   \* profiles with route_is_verified
  page,       \* "idle", "dialog" (the clean address check, modal) or "running"
  given,      \* the profiles the test was started with
  cancel,     \* _maker_cancel_event
  tester,     \* the thread of the test
  queue,      \* its signals, on their way to the page
  importing,  \* the import whose generation is current
  ended,      \* how the last test ended
  missed,     \* history: rows the last test was not given
  left        \* launches and imports left

vars == <<rows, verified, page, given, cancel, tester, queue, importing, ended, missed, left>>
table == <<rows, verified>>
test == <<given, ended, missed>>

Statuses == {"absent", "ready", "testing", "retrying", "healthy", "failed"}
Shown == {p \in Profiles : rows[p] # "absent"}
Asleep == [pc |-> "idle", round |-> 0, todo |-> {}, found |-> {}, pending |-> {},
           winners |-> {}, nowhere |-> {}]
NoImport == [on |-> FALSE, replace |-> FALSE]

TypeOK ==
  /\ rows \in [Profiles -> Statuses] /\ verified \subseteq Profiles
  /\ page \in {"idle", "dialog", "running"} /\ given \subseteq Profiles /\ cancel \in BOOLEAN
  /\ tester.pc \in {"idle", "rounds", "probes", "final", "done"}
  /\ tester.round \in 0..Rounds + 1
  /\ tester.winners \intersect tester.pending = {} /\ tester.nowhere \subseteq Ech
  /\ \A i \in DOMAIN queue : queue[i].kind \in {"batch", "done", "failed"}
  /\ importing \in [on : BOOLEAN, replace : BOOLEAN]
  /\ ended \in {"", "complete", "cancelled", "error"} /\ missed \subseteq Profiles
  /\ left.tests \in 0..Launches /\ left.imports \in 0..Imports

Init ==
  /\ rows = [p \in Profiles |-> "absent"] /\ verified = {} /\ page = "idle" /\ given = {}
  /\ cancel = FALSE /\ tester = Asleep /\ queue = <<>> /\ importing = NoImport
  /\ ended = "" /\ missed = {} /\ left = [tests |-> Launches, imports |-> Imports]
-----------------------------------------------------------------------------
(***************************************************************************)
(* The table                                                               *)
(***************************************************************************)
\* _maker_import_worker: an import that still runs is not current any more.
ImportStarts ==
  /\ page = "idle" /\ left.imports > 0 /\ left' = [left EXCEPT !.imports = @ - 1]
  /\ \E r \in BOOLEAN : importing' = [on |-> TRUE, replace |-> r]
  /\ UNCHANGED <<table, page, test, cancel, tester, queue>>

\* _maker_import_finished, also while a dialog is open or a test runs.
ImportFinished ==
  /\ importing.on /\ importing' = NoImport
  /\ \E S \in SUBSET Profiles :
       LET kept == IF importing.replace THEN {} ELSE Shown
       IN  /\ rows' = [p \in Profiles |-> IF p \in kept THEN rows[p]
                                          ELSE IF p \in S THEN "ready" ELSE "absent"]
           /\ verified' = verified \intersect kept
           /\ given' = IF page = "dialog" THEN given ELSE given \intersect kept
  /\ UNCHANGED <<page, cancel, tester, queue, ended, missed, left>>

ImportFails ==
  /\ importing.on /\ importing' = NoImport
  /\ UNCHANGED <<table, page, test, cancel, tester, queue, left>>

Clear ==
  /\ page = "idle" /\ Shown # {} /\ importing' = NoImport
  /\ rows' = [p \in Profiles |-> "absent"] /\ verified' = {} /\ given' = {} /\ ended' = ""
  /\ UNCHANGED <<page, cancel, tester, queue, missed, left>>
-----------------------------------------------------------------------------
(***************************************************************************)
(* Start and stop of a test                                                *)
(***************************************************************************)
\* _maker_start_test takes the profiles before the dialog opens.
StartTest ==
  /\ page = "idle" /\ Shown # {} /\ left.tests > 0
  /\ left' = [left EXCEPT !.tests = @ - 1]
  /\ given' = Shown /\ page' = "dialog"
  /\ UNCHANGED <<table, cancel, tester, queue, importing, ended, missed>>

\* _maker_launch_test, after the dialog: every row is "testing".
Launch ==
  /\ page = "dialog" /\ page' = "running" /\ cancel' = FALSE /\ ended' = ""
  /\ rows' = [p \in Profiles |-> IF p \in Shown THEN "testing" ELSE "absent"]
  /\ tester' = [Asleep EXCEPT !.pc = "rounds", !.pending = given]
  /\ missed' = Shown \ given /\ given' = given \intersect Shown
  /\ UNCHANGED <<verified, queue, importing, left>>

StopTest ==
  /\ page = "running" /\ ~cancel /\ cancel' = TRUE
  /\ UNCHANGED <<table, page, test, tester, queue, importing, left>>
-----------------------------------------------------------------------------
(***************************************************************************)
(* run_all_modes, in the thread of the test                                *)
(***************************************************************************)
TesterOnly == UNCHANGED <<table, page, test, cancel, importing, left>>
Emit(signal) == queue' = Append(queue, signal)
EmitBatch(b) == Emit([kind |-> "batch", results |-> b, cancelled |-> FALSE])

\* The ECH round is for the ECH profiles, the others for what is pending.
InRound == IF tester.round = 0 THEN tester.pending \intersect Ech ELSE tester.pending \ Ech

NextRound ==
  /\ tester.pc = "rounds"
  /\ tester' =
       CASE cancel \/ tester.round > Rounds \/ (tester.round > 0 /\ InRound = {}) ->
              [tester EXCEPT !.pc = "final"]
         [] ~cancel /\ tester.round = 0 /\ InRound = {} -> [tester EXCEPT !.round = 1]
         [] OTHER -> [tester EXCEPT !.pc = "probes", !.todo = InRound, !.found = {}]
  /\ UNCHANGED queue /\ TesterOnly

\* run: Xray does not start, or a cancel comes before the probes.
RoundFails ==
  /\ tester.pc = "probes" /\ tester.todo = InRound
  /\ tester' = [tester EXCEPT !.pc = "rounds", !.round = @ + 1, !.todo = {}]
  /\ UNCHANGED queue /\ TesterOnly

\* A probe is answered.  Only the ECH round takes a route without a country.
Probed ==
  /\ tester.pc = "probes"
  /\ \E p \in tester.todo, ok \in BOOLEAN, where \in BOOLEAN :
       /\ ~where => ok /\ tester.round = 0
       /\ tester' = [tester EXCEPT !.todo = @ \ {p},
                       !.found = IF ok THEN @ \union {p} ELSE @,
                       !.nowhere = IF where THEN @ ELSE @ \union {p}]
       /\ EmitBatch([q \in {p} |-> IF ok /\ where THEN "healthy" ELSE "retrying"])
  /\ TesterOnly

RoundEnds ==
  /\ tester.pc = "probes" /\ tester.todo = {}
  /\ tester' = [tester EXCEPT !.pc = "rounds", !.round = @ + 1, !.found = {},
                  !.winners = @ \union tester.found, !.pending = @ \ tester.found]
  /\ UNCHANGED queue /\ TesterOnly

\* Faulty: the ECH profiles that failed their only round are forgotten.
Unresolved_Spoofed == tester.pending \ Ech
Unresolved == tester.pending

Final ==
  /\ tester.pc = "final" /\ tester' = [tester EXCEPT !.pc = "done"]
  /\ IF cancel \/ Unresolved = {} THEN UNCHANGED queue
     ELSE EmitBatch([p \in Unresolved |-> "failed"])
  /\ TesterOnly

Done ==
  /\ tester.pc = "done" /\ tester' = [tester EXCEPT !.pc = "idle"]
  /\ Emit([kind |-> "done", results |-> <<>>, cancelled |-> cancel]) /\ TesterOnly

\* Anything else that raises ends the test as a whole.
TesterRaises ==
  /\ tester.pc = "rounds" /\ tester.round = 0 /\ tester' = [tester EXCEPT !.pc = "idle"]
  /\ Emit([kind |-> "failed", results |-> <<>>, cancelled |-> FALSE]) /\ TesterOnly
-----------------------------------------------------------------------------
(***************************************************************************)
(* The page takes the signals in the order they were sent                  *)
(***************************************************************************)
Takes(kind) == queue # <<>> /\ Head(queue).kind = kind /\ queue' = Tail(queue)

\* _maker_test_batch: a result for a row that is gone is dropped.
TakeBatch ==
  /\ Takes("batch")
  /\ LET b == Head(queue).results
         known == DOMAIN b \intersect Shown
     IN  /\ rows' = [p \in Profiles |-> IF p \in known THEN b[p] ELSE rows[p]]
         /\ verified' = (verified \ {p \in known : b[p] = "failed"})
                          \union {p \in known : b[p] = "healthy"}
  /\ UNCHANGED <<page, test, cancel, tester, importing, left>>

\* _maker_test_done and _maker_failed put back the rows that are still testing.
Reset(S) == [p \in Profiles |->
  IF rows[p] # "testing" THEN rows[p] ELSE IF p \in S THEN "healthy" ELSE "ready"]

TakeDone ==
  /\ Takes("done") /\ page' = "idle"
  /\ IF Head(queue).cancelled THEN rows' = Reset(verified) /\ ended' = "cancelled"
     ELSE ended' = "complete" /\ UNCHANGED rows
  /\ UNCHANGED <<verified, given, cancel, tester, importing, missed, left>>

TakeFailed ==
  /\ Takes("failed") /\ page' = "idle" /\ rows' = Reset({}) /\ ended' = "error"
  /\ UNCHANGED <<verified, given, cancel, tester, importing, missed, left>>

Next ==
  \/ ImportStarts \/ ImportFinished \/ ImportFails \/ Clear
  \/ StartTest \/ Launch \/ StopTest
  \/ NextRound \/ RoundFails \/ Probed \/ RoundEnds \/ Final \/ Done \/ TesterRaises
  \/ TakeBatch \/ TakeDone \/ TakeFailed

Spec == Init /\ [][Next]_vars
-----------------------------------------------------------------------------
Found(p) ==
  IF p \notin tester.winners THEN "failed"
  ELSE IF p \in tester.nowhere THEN "retrying" ELSE "healthy"

(***************************************************************************)
(* After a complete test every row it was given shows what was found over  *)
(* all the rounds, and after any end no row is left testing.  Not so a row *)
(* imported while the dialog was open, which the test marks and does not   *)
(* try; and a route without a country is shown as still being retried.     *)
(***************************************************************************)
RowsAsFound ==
  page = "idle" /\ ended # "" =>
    /\ ended = "complete" => \A p \in given : rows[p] = Found(p)
    /\ \A p \in Profiles : rows[p] = "testing" => p \in missed

(***************************************************************************)
(* Why it holds: what a row will show once the batches under way are taken *)
(* is already what the rounds have found.                                  *)
(***************************************************************************)
Results == UNION {[S -> {"healthy", "retrying", "failed"}] : S \in SUBSET Profiles}
Messages == [kind : {"batch", "done", "failed"}, results : Results \union {<<>>}, cancelled : BOOLEAN]
Testers == [pc : {"idle", "rounds", "probes", "final", "done"}, round : Nat,
            todo : SUBSET Profiles, found : SUBSET Profiles, pending : SUBSET Profiles,
            winners : SUBSET Profiles, nowhere : SUBSET Profiles]
Typed ==
  /\ rows \in [Profiles -> Statuses] /\ given \subseteq Profiles /\ missed \subseteq Profiles
  /\ cancel \in BOOLEAN /\ tester \in Testers /\ queue \in Seq(Messages)
  /\ \A i \in DOMAIN queue : queue[i].kind = "batch" => queue[i].results \in Results

\* The end of a test is its last signal.
Batches == \A i \in DOMAIN queue : queue[i].kind = "batch"
EndIsLast ==
  /\ page # "running" => queue = <<>> /\ tester.pc = "idle"
  /\ tester.pc # "idle" => Batches
  /\ page = "running" /\ tester.pc = "idle" =>
       \E n \in DOMAIN queue : /\ queue[n].kind # "batch"
                              /\ \A i \in DOMAIN queue : i = n \/ (i < n /\ queue[i].kind = "batch")

RoundInv ==
  /\ tester.winners \intersect tester.pending = {} /\ tester.found \subseteq tester.pending
  /\ tester.nowhere \subseteq tester.found \union tester.winners
  /\ IF tester.pc = "probes" THEN tester.todo \subseteq InRound /\ tester.found \subseteq InRound \ tester.todo
     ELSE tester.found = {}

Mentions(p) == {i \in DOMAIN queue : queue[i].kind = "batch" /\ p \in DOMAIN queue[i].results}
WillShow(p, v) ==
  \/ Mentions(p) = {} /\ rows[p] = v
  \/ \E i \in Mentions(p) : queue[i].results[p] = v /\ \A j \in Mentions(p) : j <= i

Complete == \A p \in given : WillShow(p, Found(p))
Progress ==
  IF page = "running" THEN
    /\ given \subseteq Shown /\ given \subseteq tester.pending \union tester.winners
    /\ \A p \in given \intersect (tester.found \union tester.winners) :
         WillShow(p, IF p \in tester.nowhere THEN "retrying" ELSE "healthy")
    /\ tester.pc = "done" /\ ~cancel => Complete
    /\ (\E i \in DOMAIN queue : queue[i].kind = "done" /\ ~queue[i].cancelled) => Complete
    /\ \A p \in Profiles : rows[p] = "testing" => p \in given \union missed
  ELSE
    /\ page = "idle" /\ ended = "complete" => \A p \in given : rows[p] = Found(p)
    /\ \A p \in Profiles : rows[p] = "testing" => p \in missed

MakerInv == Typed /\ EndIsLast /\ RoundInv /\ Progress
=============================================================================
