------------------------------- MODULE SniScan -------------------------------
(***************************************************************************)
(* The SNI page (uac_desktop/ui.py, network.py): a scan measures domains   *)
(* through the edge of the carrier it was started on, its results reach    *)
(* the page one by one and are kept in a repository; the user pins a       *)
(* result on the active config or on all suggested ones, on the carrier    *)
(* that is active by then, and may undo it.  Saving the settings can fail. *)
(* Abstraction: a result has a domain, a carrier and an edge; its scores   *)
(* are left out (any of the chosen results may be the best).               *)
(***************************************************************************)
EXTENDS Naturals, Sequences, FiniteSets

CONSTANTS
  Domains, Carriers, Edges,
  Profiles,             \* the suggested configs
  Steps,                \* scans, applies, switches and undos, at most
  Faults                \* saves that fail

VARIABLES
  settings,             \* carrier, pins, globals and tuning of every carrier
  file,                 \* the settings file
  undo,                 \* sni_undo_snapshot
  scan,                 \* the scan thread: what it measures and found so far
  scanning, cancelled,  \* the flag of the page and the event of the thread
  table, repo, marks,   \* results on the page, scan_results, bookmarks
  queue,                \* signals of the thread
  tested,               \* what was measured: domain, carrier and edge
  said,                 \* the last message of an apply, and the settings before it
  left, faults,
  unchecked             \* carriers and domains of best rows that no config was given (history)

prefs == <<settings, file, undo, said, unchecked>>
vars == <<settings, file, undo, scan, scanning, cancelled, table, repo, marks, queue, tested,
          said, left, faults, unchecked>>

None == "none"
Results == [domain : Domains, carrier : Carriers, edge : Edges]
Tunings == [sni : Domains \union {None}, edge : Edges, rest : SUBSET Edges]
Settings == [carrier : Carriers, pins : [Carriers -> [Profiles -> Domains \union {None}]],
             global : [Carriers -> Domains \union {None}], tuning : [Carriers -> Tunings]]

TypeOK ==
  /\ settings \in Settings /\ file \in Settings
  /\ table \subseteq Results /\ repo \subseteq Results /\ marks \subseteq Results
  /\ tested \subseteq Results /\ scanning \in BOOLEAN /\ cancelled \in BOOLEAN
  /\ scan.todo \subseteq Domains /\ scan.found \subseteq Domains
  /\ said.kind \in {None, "applied", "failed"} /\ said.before \in Settings
  /\ left \in 0..Steps /\ faults \in 0..Faults /\ unchecked \subseteq Carriers \X Domains

\* Every carrier starts from an edge of its own.
Init ==
  /\ \E c \in Carriers, e \in [Carriers -> Edges] :
       settings = [carrier |-> c, pins |-> [x \in Carriers |-> [p \in Profiles |-> None]],
                   global |-> [x \in Carriers |-> None],
                   tuning |-> [x \in Carriers |-> [sni |-> None, edge |-> e[x], rest |-> {}]]]
  /\ file = settings /\ undo = {} /\ said = [kind |-> None, before |-> settings]
  /\ scan = [on |-> FALSE, carrier |-> settings.carrier,
             edge |-> settings.tuning[settings.carrier].edge, todo |-> {}, found |-> {}]
  /\ scanning = FALSE /\ cancelled = FALSE /\ table = {} /\ repo = {} /\ marks = {}
  /\ queue = <<>> /\ tested = {} /\ left = Steps /\ faults = 0 /\ unchecked = {}
-----------------------------------------------------------------------------
Acts == left > 0 /\ left' = left - 1

\* save_settings: the file is replaced, or it raises.
Saves(s, ok) ==
  /\ settings' = s
  /\ IF ok THEN file' = s /\ UNCHANGED faults
     ELSE faults < Faults /\ faults' = faults + 1 /\ UNCHANGED file

(***************************************************************************)
(* The scan                                                                *)
(***************************************************************************)
\* toggle_scan: the tuning of this moment
StartScan ==
  /\ Acts /\ ~scanning /\ scanning' = TRUE /\ cancelled' = FALSE /\ table' = {}
  /\ \E todo \in SUBSET Domains \ {{}} :
       scan' = [on |-> TRUE, carrier |-> settings.carrier,
                edge |-> settings.tuning[settings.carrier].edge, todo |-> todo, found |-> {}]
  /\ UNCHANGED <<prefs, repo, marks, queue, tested, faults>>

StopScan ==
  /\ Acts /\ scanning /\ ~cancelled /\ cancelled' = TRUE
  /\ UNCHANGED <<prefs, scan, scanning, table, repo, marks, queue, tested, faults>>

\* scan_domain, and what scan_domains makes of it
Measure ==
  /\ scan.on /\ ~cancelled
  /\ \E d \in scan.todo, ok \in BOOLEAN :
       /\ scan' = [scan EXCEPT !.todo = @ \ {d}, !.found = IF ok THEN @ \union {d} ELSE @]
       /\ queue' = IF ok THEN Append(queue, <<"progress", {d}>>) ELSE queue
       /\ tested' = IF ok THEN tested \union {[domain |-> d, carrier |-> scan.carrier,
                                               edge |-> scan.edge]}
                    ELSE tested
  /\ UNCHANGED <<prefs, scanning, cancelled, table, repo, marks, left, faults>>

EndScan ==
  /\ scan.on /\ (scan.todo = {} \/ cancelled)
  /\ scan' = [scan EXCEPT !.on = FALSE]
  /\ queue' = Append(queue, <<"done", scan.found>>)
  /\ UNCHANGED <<prefs, scanning, cancelled, table, repo, marks, tested, left, faults>>

\* _scan_progress, _scan_done: a result is of the carrier in _scan_context.
Context_Now == settings.carrier
Context == scan.carrier
Tagged(ds) == {[domain |-> d, carrier |-> Context, edge |-> scan.edge] : d \in ds}

Upsert(rs) == {r \in table : \A n \in rs : n.domain # r.domain} \union rs

Received ==
  /\ queue # <<>> /\ queue' = Tail(queue)
  /\ LET ds == Head(queue)[2] IN
     IF Head(queue)[1] = "progress"
     THEN /\ table' = (IF scanning THEN Upsert(Tagged(ds)) ELSE table)
          /\ UNCHANGED <<scanning, cancelled, repo>>
     ELSE /\ table' = Upsert(Tagged(ds)) /\ repo' = repo \union table'  \* _persist_scan_repository
          /\ scanning' = FALSE /\ cancelled' = TRUE
  /\ UNCHANGED <<prefs, scan, marks, tested, left, faults>>

Bookmark ==
  /\ \E r \in table : r \notin marks /\ marks' = marks \union {r}
  /\ UNCHANGED <<prefs, scan, scanning, cancelled, table, repo, queue, tested, left, faults>>
-----------------------------------------------------------------------------
(***************************************************************************)
(* Pinning a result                                                        *)
(***************************************************************************)
\* What the three entries of one carrier become.
Changed(s, c, pins, global, tuning) ==
  [s EXCEPT !.pins[c] = pins, !.global[c] = global, !.tuning[c] = tuning]

Snapshot(s) ==
  {[carrier |-> s.carrier, pins |-> s.pins[s.carrier], global |-> s.global[s.carrier],
    tuning |-> s.tuning[s.carrier]]}

\* _restore_sni_snapshot: the carrier it was taken on
Restored_Active(s, u) ==
  [s EXCEPT !.pins[s.carrier] = u.pins, !.global[s.carrier] = u.global,
            !.tuning[s.carrier] = u.tuning]
Restored_KeepsGlobal(s, u) ==
  [s EXCEPT !.pins[u.carrier] = u.pins, !.tuning[u.carrier] = u.tuning]
Restored(s, u) == Changed(s, u.carrier, u.pins, u.global, u.tuning)

\* _bind_verified_sni_route: the edge measured first, the old one among the rest
Bound(t, r) ==
  [sni |-> r.domain, edge |-> r.edge, rest |-> (t.rest \union {t.edge}) \ {r.edge}]

\* _apply_carrier_sni refuses a result of another carrier that a config is given; the
\* best result, which the carrier and its tuning get, it does not look at.
Allowed_Any(assigned) == TRUE
Allowed(assigned) == \A p \in DOMAIN assigned : assigned[p].carrier = settings.carrier

Applied(s, assigned, best) ==
  LET c == s.carrier IN
  Changed(s, c, [p \in Profiles |-> IF p \in DOMAIN assigned THEN assigned[p].domain
                                    ELSE s.pins[c][p]],
          best.domain, Bound(s.tuning[c], best))

\* ... when saving fails the settings in memory are put back, and saved again.
Try(assigned, best) ==
  \/ /\ Allowed(assigned) /\ Saves(Applied(settings, assigned, best), TRUE)
     /\ undo' = Snapshot(settings) /\ said' = [kind |-> "applied", before |-> settings]
  \/ /\ Allowed(assigned) /\ faults < Faults /\ faults' = faults + 1
     /\ \E u \in Snapshot(settings) :
          settings' = Restored(Applied(settings, assigned, best), u)
     /\ file' \in {file, settings'} /\ UNCHANGED undo
     /\ said' = [kind |-> "failed", before |-> settings]
  \/ /\ ~Allowed(assigned) /\ said' = [kind |-> "failed", before |-> settings]
     /\ UNCHANGED <<settings, file, undo, faults>>

ApplySelected ==
  /\ Acts /\ \E r \in table \union marks, p \in Profiles :
               Try([x \in {p} |-> r], r)
  /\ UNCHANGED <<scan, scanning, cancelled, table, repo, marks, queue, tested, unchecked>>

\* Rows are dealt to the configs in turn: each row to some, or, of more rows than there
\* are configs, the first ones, each to one.
Given(order) == {order[p] : p \in Profiles}
Dealt(order, rows) ==
  IF Cardinality(rows) <= Cardinality(Profiles) THEN rows \subseteq Given(order)
  ELSE Cardinality(Given(order)) = Cardinality(Profiles)

\* The best of the selected rows, or all in order, and then the best for the carrier and
\* its tuning; without rows (ApplyBest) the best result of the active carrier from the
\* last scan, the repository or the bookmarks.
ApplyToAll ==
  /\ Acts /\ Profiles # {}
  /\ \E from \in {table, marks} : \E best \in from :
       \/ Try([p \in Profiles |-> best], best) /\ UNCHANGED unchecked
       \/ \E rows \in SUBSET from : \E order \in [Profiles -> rows] :
            /\ best \in rows /\ Dealt(order, rows) /\ Try(order, best)
            /\ unchecked' = IF best \in Given(order) THEN unchecked
                            ELSE unchecked \union {<<settings.carrier, best.domain>>}
  /\ UNCHANGED <<scan, scanning, cancelled, table, repo, marks, queue, tested>>

ApplyBest ==
  /\ Acts /\ Profiles # {} /\ table = {}
  /\ \E r \in repo \union marks :
       r.carrier = settings.carrier /\ Try([p \in Profiles |-> r], r)
  /\ UNCHANGED <<scan, scanning, cancelled, table, repo, marks, queue, tested, unchecked>>

\* undo_sni_apply: only once
Undo ==
  /\ Acts /\ undo # {}
  /\ \E u \in undo, ok \in BOOLEAN :
       Saves(Restored(settings, u), ok) /\ undo' = IF ok THEN {} ELSE undo
  /\ said' = [kind |-> None, before |-> said.before]
  /\ UNCHANGED <<scan, scanning, cancelled, table, repo, marks, queue, tested, unchecked>>

\* _carrier_changed, and an edge written in the advanced settings
SwitchCarrier ==
  /\ Acts /\ \E c \in Carriers \ {settings.carrier} :
               \E ok \in BOOLEAN : Saves([settings EXCEPT !.carrier = c], ok)
  /\ said' = [kind |-> None, before |-> said.before]
  /\ UNCHANGED <<undo, scan, scanning, cancelled, table, repo, marks, queue, tested, unchecked>>
-----------------------------------------------------------------------------
Next ==
  \/ StartScan \/ StopScan \/ Measure \/ EndScan \/ Received \/ Bookmark
  \/ ApplySelected \/ ApplyToAll \/ ApplyBest \/ Undo \/ SwitchCarrier

Spec == Init /\ [][Next]_vars
-----------------------------------------------------------------------------
(***************************************************************************)
(* Safety                                                                  *)
(***************************************************************************)
\* A SNI pinned on a config of a carrier was measured on that carrier, also when the
\* user changed the carrier during the scan or before the apply or the undo (ui.py: "The
\* SNI result belongs to another carrier; scan again on the active carrier").  So was the
\* one the carrier has for all of them and in its tuning, unless it was the best of more
\* rows than there are configs and fell to none of them: that row is not looked at.
TestedHere(c, d) == d = None \/ \E r \in tested : r.domain = d /\ r.carrier = c
TestedOr(c, d, extra) == TestedHere(c, d) \/ <<c, d>> \in extra
PinnedWhereTested ==
  \A c \in Carriers :
    /\ \A p \in Profiles : TestedHere(c, settings.pins[c][p])
    /\ TestedOr(c, settings.global[c], unchecked)
    /\ TestedOr(c, settings.tuning[c].sni, unchecked)

\* An apply that failed half way left everything as it was (ui.py: "SNI apply
\* failed; previous values were preserved").
FailedApplyKeeps == said.kind = "failed" => settings = said.before

\* What they rest on: a signal belongs to the scan there is, as the page starts none before
\* it has taken the last signal of the one before; so a result is tagged as it was tested.
Signals == {"progress", "done"} \X SUBSET Domains
ScanTagged ==
  /\ scan \in [on : BOOLEAN, carrier : Carriers, edge : Edges, todo : SUBSET Domains,
               found : SUBSET Domains]
  /\ tested \subseteq Results /\ table \union repo \union marks \subseteq tested
  /\ \A d \in scan.found : [domain |-> d, carrier |-> scan.carrier, edge |-> scan.edge] \in tested
  /\ queue \in Seq(Signals)
  /\ \A i \in 1..Len(queue) :
       /\ queue[i][2] \subseteq scan.found
       /\ queue[i][1] = "done" => i = Len(queue) /\ ~scan.on
  /\ scanning \in BOOLEAN /\ (~scanning => ~scan.on /\ queue = <<>>)

\* What a carrier has, and what an undo would give it, was tested on it, or is one of extra.
OwnSni(c, pins, global, tuning, extra) ==
  /\ pins \in [Profiles -> Domains \union {None}] /\ \A p \in Profiles : TestedHere(c, pins[p])
  /\ global \in Domains \union {None} /\ TestedOr(c, global, extra)
  /\ tuning \in Tunings /\ TestedOr(c, tuning.sni, extra)
OwnSnis ==
  /\ settings \in Settings
  /\ \A c \in Carriers :
       OwnSni(c, settings.pins[c], settings.global[c], settings.tuning[c], unchecked)
  /\ \A u \in undo : /\ u.carrier \in Carriers
                       /\ OwnSni(u.carrier, u.pins, u.global, u.tuning, unchecked)
=============================================================================
