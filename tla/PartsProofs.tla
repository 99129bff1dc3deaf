------------------------------ MODULE PartsProofs ------------------------------
(***************************************************************************)
(* What holds of the parts for all values of their constants: for each     *)
(* property of Parts an invariant of the part it is about (defined beside  *)
(* the property in the part's module), that each of the part's steps keeps *)
(* it, and that no step leaves the part.                                   *)
(***************************************************************************)
EXTENDS Parts, SequenceTheorems, TLAPS

\* A behaviour is of one part from its first state to its last.
LEMMA PartStays == [Next]_vars => part' = part
BY DEF Next, vars

(***************************************************************************)
(* The engine switch                                                       *)
(***************************************************************************)
\* A window starts with what its engine's settings say, on pages of its theme.
LEMMA SwitchInit == Switch!Init => Switch!WindowInv
<1> SUFFICES ASSUME Switch!Init PROVE Switch!WindowInv
  OBVIOUS
<1> USE DEF Switch!Init, Switch!Engines, Switch!Pages
<1>1. Switch!OneEngine /\ Switch!SettingsShown
  BY DEF Switch!OneEngine, Switch!SettingsShown
<1>2. Switch!Both(s1) \in [1..2 -> Switch!Engines]
  BY DEF Switch!Both
<1>3. Switch!Themed
  BY <1>2 DEF Switch!Themed, Switch!None
<1>4. Switch!Chosen
  <2>1. PICK v \in BOOLEAN : s19 = [stored |-> v, widget |-> FALSE, chosen |-> v]
    OBVIOUS
  <2> QED
    BY <2>1 DEF Switch!Chosen
<1> QED
  BY <1>1, <1>3, <1>4 DEF Switch!WindowInv

USE DEF Switch!Engines, Switch!Pages, Switch!None, Switch!Other, Switch!PowBusy

\* toggle_connection, whoever calls it, keeps to one engine.
LEMMA SwitchToggles ==
  ASSUME Switch!OneEngine, NEW who, Switch!Toggle(who)
  PROVE  Switch!OneEngine'
BY DEF Switch!OneEngine, Switch!Toggle, Switch!PowConnects, Switch!XrayStops

\* Whatever happens, one engine is off: the two are never up together.
LEMMA SwitchOneEngine ==
  ASSUME Switch!OneEngine, Switch!Next
  PROVE  Switch!OneEngine'
<1> USE DEF Switch!OneEngine
<1>1. CASE Switch!ClickConnect
  BY <1>1, SwitchToggles DEF Switch!ClickConnect
<1>2. CASE \/ Switch!ReconnectPow \/ Switch!WorkerEnds \/ Switch!PowMoves \/ Switch!Refused
           \/ Switch!Finished \/ Switch!GivesUp
  BY <1>2 DEF Switch!ReconnectPow, Switch!WorkerEnds, Switch!PowMoves, Switch!Refused,
    Switch!Finished, Switch!GivesUp, Switch!life
<1>3. ASSUME NEW t \in {"retry", "country", "bypass", "pow"}, Switch!Fires(t)
      PROVE  Switch!OneEngine'
  <2>1. CASE t = "pow"
    BY <1>3, <2>1 DEF Switch!Fires, Switch!PowConnects, Switch!XrayStops
  <2>2. CASE t # "pow"
    BY <1>3, <2>2, SwitchToggles DEF Switch!Fires
  <2> QED
    BY <2>1, <2>2
<1>4. ASSUME NEW t \in {"retry", "country", "bypass", "pow"}, Switch!Dropped(t)
      PROVE  Switch!OneEngine'
  BY <1>4 DEF Switch!Dropped
<1>5. ASSUME NEW t \in {"country", "bypass"}, Switch!ReconnectXray(t)
      PROVE  Switch!OneEngine'
  BY <1>5 DEF Switch!ReconnectXray, Switch!XrayStops
<1>6. ASSUME NEW up \in BOOLEAN, Switch!XrayEnds(up)
      PROVE  Switch!OneEngine'
  BY <1>6 DEF Switch!XrayEnds
<1>7. CASE Switch!Agreed
  BY <1>7 DEF Switch!Agreed, Switch!XrayStops
<1>8. CASE Switch!Finish
  BY <1>8 DEF Switch!Finish, Switch!Busy
<1>9. CASE Switch!ClickSwitch \/ Switch!Poll
  BY <1>9 DEF Switch!ClickSwitch, Switch!Poll, Switch!Begin, Switch!life
<1>10. CASE \/ Switch!ShowPage \/ Switch!Restyle \/ Switch!ChangeLanguage \/ Switch!MoveSwitch
            \/ Switch!OpenSettings \/ Switch!Emits \/ Switch!Filled \/ Switch!Chooses
            \/ Switch!CloseSettings
  BY <1>10 DEF Switch!ShowPage, Switch!Restyle, Switch!ChangeLanguage, Switch!MoveSwitch,
    Switch!OpenSettings, Switch!Emits, Switch!Filled, Switch!Chooses, Switch!CloseSettings,
    Switch!life
<1> QED
  BY <1>1, <1>2, <1>3, <1>4, <1>5, <1>6, <1>7, <1>8, <1>9, <1>10 DEF Switch!Next

\* The steps of the connection and of the switch's question leave the window alone.
LEMMA SwitchWindowSteps ==
  ASSUME Switch!Next
  PROVE  \/ UNCHANGED <<s1, s2, Switch!look, Switch!values>>
         \/ Switch!Begin
         \/ Switch!Finish \/ Switch!Finished
         \/ Switch!ShowPage \/ Switch!Restyle \/ Switch!ChangeLanguage
         \/ Switch!MoveSwitch \/ Switch!OpenSettings \/ Switch!Emits \/ Switch!Filled
         \/ Switch!Chooses \/ Switch!CloseSettings
BY DEF Switch!Next, Switch!ClickConnect, Switch!ReconnectPow, Switch!WorkerEnds, Switch!PowMoves,
  Switch!Fires, Switch!Dropped, Switch!ReconnectXray, Switch!XrayEnds, Switch!ClickSwitch,
  Switch!Refused, Switch!Agreed, Switch!Poll, Switch!GivesUp

\* A page whose first batch has the theme has it when the second has it too.
LEMMA SwitchBatches ==
  ASSUME NEW S, NEW f \in [1..2 -> S], NEW e, f[1] = e
  PROVE  [f EXCEPT ![2] = e] = Switch!Both(e)
<1> DEFINE g == [f EXCEPT ![2] = e]
<1>1. DOMAIN g = 1..2 /\ g = [b \in 1..2 |-> g[b]]
  OBVIOUS
<1>2. g[1] = e /\ g[2] = e
  OBVIOUS
<1>3. \A b \in 1..2 : b = 1 \/ b = 2
  OBVIOUS
<1> HIDE DEF g
<1>4. \A b \in 1..2 : g[b] = e
  BY <1>2, <1>3
<1>5. g = [b \in 1..2 |-> e]
  BY <1>1, <1>4
<1> QED
  BY <1>5 DEF g, Switch!Both

\* Showing a page brings it up to date.
LEMMA SwitchShows ==
  ASSUME Switch!Themed, NEW p \in Switch!Pages, Switch!Show(p, s1), s1' = s1
  PROVE  Switch!Themed'
<1> USE DEF Switch!Themed, Switch!Show, Switch!Freshen
<1>1. Switch!Both(s1) \in [1..2 -> Switch!Engines]
  BY DEF Switch!Both
<1> HIDE DEF Switch!Pages, Switch!Engines
<1>2. CASE p \notin s14
  BY <1>2
<1>3. CASE p \in s14 /\ s15 = p
  <2>0. s13[p] \in [1..2 -> Switch!Engines] /\ s13[p][1] = s1
    BY <1>3
  <2>1. [s13[p] EXCEPT ![2] = s1] = Switch!Both(s1)
    BY <2>0, SwitchBatches
  <2>2. s13' = [s13 EXCEPT ![p] = Switch!Both(s1)]
    BY <1>3, <2>1
  <2>3. s14' = s14 \ {p} /\ s15' = Switch!None /\ s12' = p
    BY <1>3
  <2>4. s13' \in [Switch!Pages -> [1..2 -> Switch!Engines]]
        /\ \A q \in Switch!Pages \ s14' : s13'[q] = Switch!Both(s1)
    BY <1>1, <2>2, <2>3
  <2> QED
    BY <2>3, <2>4 DEF Switch!Pages
<1>4. CASE p \in s14 /\ s15 # p
  BY <1>1, <1>4
<1> QED
  BY <1>2, <1>3, <1>4

\* One batch of widgets of one page: the second completes the page.
LEMMA SwitchRestyles ==
  ASSUME Switch!Themed, Switch!Restyle
  PROVE  Switch!Themed'
<1> USE DEF Switch!Themed
<1>1. PICK p \in s14 :
        /\ s15 \in s14 => p = s15
        /\ IF s15 = p
           THEN /\ s13' = [s13 EXCEPT ![p][2] = s1]
                /\ s14' = s14 \ {p} /\ s15' = Switch!None
           ELSE /\ s13' = [s13 EXCEPT ![p][1] = s1] /\ s15' = p /\ UNCHANGED s14
  BY DEF Switch!Restyle
<1>2. s1' = s1 /\ s12' = s12
  BY DEF Switch!Restyle
<1>3. s13' \in [Switch!Pages -> [1..2 -> Switch!Engines]]
  BY <1>1
<1>4. CASE s15 = p
  <2>1. [s13[p] EXCEPT ![2] = s1] = Switch!Both(s1)
    BY <1>1, <1>4 DEF Switch!Both
  <2>2. s13' = [s13 EXCEPT ![p] = Switch!Both(s1)]
    BY <1>1, <1>4, <2>1
  <2> HIDE DEF Switch!Engines
  <2> QED
    BY <1>1, <1>2, <1>3, <1>4, <2>2
<1>5. CASE s15 # p
  <2> HIDE DEF Switch!Pages, Switch!Engines
  <2>1. s13'[p][1] = s1 /\ \A q \in Switch!Pages \ {p} : s13'[q] = s13[q]
    BY <1>1, <1>5
  <2> QED
    BY <1>1, <1>2, <1>3, <1>5, <2>1
<1> QED
  BY <1>4, <1>5

\* The page on screen is of the engine, and so is each page that is not stale.
LEMMA SwitchThemed ==
  ASSUME Switch!Themed, Switch!Next
  PROVE  Switch!Themed'
<1>1. CASE UNCHANGED <<s1, s2, Switch!look, Switch!values>>
  BY <1>1 DEF Switch!Themed, Switch!look
<1>2. CASE Switch!Begin
  <2>1. Switch!Both(s1') \in [1..2 -> Switch!Engines] /\ s15' \notin Switch!Pages
    BY <1>2 DEF Switch!Begin, Switch!Both, Switch!Themed, Switch!Flip
  <2> HIDE DEF Switch!Pages
  <2> QED
    BY <1>2, <2>1 DEF Switch!Begin, Switch!Flip, Switch!Themed
<1>3. CASE Switch!Finish
  BY <1>3, SwitchShows DEF Switch!Finish
<1>4. CASE Switch!ShowPage
  BY <1>4, SwitchShows DEF Switch!ShowPage
<1>5. CASE Switch!Restyle
  BY <1>5, SwitchRestyles
<1>6. CASE Switch!ChangeLanguage
  <2>1. Switch!Both(s1) \in [1..2 -> Switch!Engines]
    BY DEF Switch!Both, Switch!Themed
  <2> HIDE DEF Switch!Pages
  <2> QED
    BY <1>6, <2>1 DEF Switch!ChangeLanguage, Switch!Themed
<1>7. CASE \/ Switch!Finished \/ Switch!MoveSwitch \/ Switch!OpenSettings \/ Switch!Emits
           \/ Switch!Filled \/ Switch!Chooses \/ Switch!CloseSettings
  BY <1>7 DEF Switch!Finished, Switch!MoveSwitch, Switch!OpenSettings, Switch!Emits,
    Switch!Filled, Switch!Chooses, Switch!CloseSettings, Switch!look, Switch!Themed
<1> QED
  BY <1>1, <1>2, <1>3, <1>4, <1>5, <1>6, <1>7, SwitchWindowSteps

\* Home shows the setting of the engine, the dialog stores what was chosen.
LEMMA SwitchSettings ==
  ASSUME Switch!Themed, Switch!SettingsShown, Switch!Chosen, Switch!Next
  PROVE  Switch!SettingsShown' /\ Switch!Chosen'
<1> USE DEF Switch!SettingsShown, Switch!Chosen, Switch!values
<1>0. s1 \in Switch!Engines
  BY DEF Switch!Themed
<1>1. CASE UNCHANGED <<s1, s2, Switch!look, Switch!values>>
  BY <1>1
<1>2. CASE Switch!Begin \/ Switch!Finished \/ Switch!ShowPage \/ Switch!Restyle
  BY <1>2 DEF Switch!Begin, Switch!Finished, Switch!ShowPage, Switch!Restyle
<1>3. CASE Switch!Finish \/ Switch!ChangeLanguage
  BY <1>0, <1>3 DEF Switch!Finish, Switch!ChangeLanguage, Switch!LoadHome
<1>4. CASE Switch!MoveSwitch
  BY <1>0, <1>4 DEF Switch!MoveSwitch
<1>5. CASE Switch!OpenSettings \/ Switch!Filled \/ Switch!CloseSettings
  BY <1>5 DEF Switch!OpenSettings, Switch!Filled, Switch!CloseSettings
<1>6. CASE Switch!Emits
  BY <1>6 DEF Switch!Emits, Switch!FieldChanged, Switch!Editing
<1>7. CASE Switch!Chooses
  BY <1>7 DEF Switch!Chooses, Switch!FieldChanged, Switch!Editing
<1> QED
  BY <1>1, <1>2, <1>3, <1>4, <1>5, <1>6, <1>7, SwitchWindowSteps

\* A step of a behaviour of the switch is one of its actions.
LEMMA SwitchPart ==
  ASSUME [Next]_vars, part = "switch"
  PROVE  Switch!Next \/ UNCHANGED Switch!vars
BY DEF Next, vars, Switch!vars, Switch!life, Switch!look, Switch!values

\* However often the user switches between the engines, and whatever connects, ends or is
\* repolished meanwhile: one engine runs, and the window and its settings are that one's.
THEOREM WindowIsOfEngine == Spec => []WindowOfEngine
<1> DEFINE Inv == part = "switch" => Switch!WindowInv
<1>1. Init => Inv
  BY SwitchInit DEF Init
<1>2. Inv /\ [Next]_vars => Inv'
  <2> SUFFICES ASSUME Inv, [Next]_vars, part' = "switch" PROVE Switch!WindowInv'
    OBVIOUS
  <2>1. part = "switch" /\ Switch!WindowInv
    BY PartStays
  <2>2. CASE Switch!Next
    BY <2>1, <2>2, SwitchOneEngine, SwitchThemed, SwitchSettings DEF Switch!WindowInv
  <2>3. CASE UNCHANGED Switch!vars
    BY <2>1, <2>3 DEF Switch!WindowInv, Switch!OneEngine, Switch!Themed, Switch!SettingsShown,
      Switch!Chosen, Switch!vars, Switch!life, Switch!look, Switch!values
  <2> QED
    BY <2>1, <2>2, <2>3, SwitchPart
<1>3. Inv => WindowOfEngine
  BY DEF Switch!WindowInv, Switch!OneEngine, Switch!Themed, Switch!SettingsShown, Switch!Chosen,
    WindowOfEngine, Switch!WindowOfEngine
<1> QED
  BY <1>1, <1>2, <1>3, PTL DEF Spec

(***************************************************************************)
(* The profile list                                                        *)
(***************************************************************************)
\* A step of a behaviour of the profile list is one of its actions.
LEMMA ChoicePart ==
  ASSUME [Next]_vars, part = "choice"
  PROVE  Choice!Next \/ UNCHANGED Choice!vars
BY DEF Next, vars, Choice!vars

\* Only a click on "Activate" queues a switch, and it queues the one clicked.
LEMMA ChoiceStep ==
  ASSUME Choice!WaitsForWanted, Choice!Next
  PROVE  Choice!WaitsForWanted'
<1> USE DEF Choice!WaitsForWanted, Choice!Rest, Choice!links
<1>1. CASE Choice!ClickConnect
  BY <1>1 DEF Choice!ClickConnect
<1>2. CASE Choice!Orders \/ Choice!Fails \/ Choice!Ends
  BY <1>2 DEF Choice!Orders, Choice!Fails, Choice!Ends
<1>3. CASE Choice!ResumeSwitch
  <2>1. s9' = FALSE /\ s1' = s1
    BY <1>3 DEF Choice!ResumeSwitch
  <2> QED
    BY <2>1
<1>12. CASE Choice!ResumeRetry \/ Choice!StartCountry
  <2>1. UNCHANGED <<s1, s8, s9, s13>>
    BY <1>12 DEF Choice!ResumeRetry, Choice!StartCountry
  <2> QED
    BY <2>1
<1>4. CASE \/ Choice!AutoMode \/ Choice!PingList \/ Choice!PingsFinished
  BY <1>4 DEF Choice!AutoMode, Choice!PingList, Choice!PingsFinished
<1>5. CASE Choice!DeleteAllUserConfigs \/ Choice!RestoreOriginals
  BY <1>5, ChoiceAssumption DEF Choice!DeleteAllUserConfigs, Choice!RestoreOriginals, Choice!Of,
    Choice!Ids
<1>6. ASSUME NEW p \in Choice!Ids, NEW c \in ChoiceCodes, Choice!Wins(p, c)
      PROVE  Choice!WaitsForWanted'
  BY <1>6 DEF Choice!Wins
<1>7. ASSUME NEW p \in Choice!Ids, Choice!Activate(p)
      PROVE  Choice!WaitsForWanted'
  BY <1>7 DEF Choice!Activate, Choice!Queue
<1>8. ASSUME NEW p \in Choice!Ids,
             Choice!ClickRow(p) \/ Choice!AddProfile(p) \/ Choice!MakerAdds(p) \/ Choice!DeleteProfile(p)
      PROVE  Choice!WaitsForWanted'
  BY <1>8 DEF Choice!ClickRow, Choice!AddProfile, Choice!MakerAdds, Choice!DeleteProfile
<1>9. ASSUME NEW s \in {"user-config", "suggested"}, Choice!RouteSource(s)
      PROVE  Choice!WaitsForWanted'
  BY <1>9 DEF Choice!RouteSource
<1>10. ASSUME NEW c \in ChoiceCodes \cup {Choice!All}, Choice!PickCountry(c)
       PROVE  Choice!WaitsForWanted'
  BY <1>10 DEF Choice!PickCountry
<1>11. ASSUME NEW list \in Choice!Lists, Choice!ClickTab(list)
       PROVE  Choice!WaitsForWanted'
  BY <1>11 DEF Choice!ClickTab
<1> QED
  BY <1>1, <1>2, <1>3, <1>4, <1>5, <1>6, <1>7, <1>8, <1>9, <1>10, <1>11, <1>12 DEF Choice!Next

\* The attempt that a queued switch starts is bound to the profile it is for.
LEMMA ChoiceLands ==
  ASSUME Choice!WaitsForWanted
  PROVE  Choice!Lands
<1> SUFFICES ASSUME Choice!ResumeSwitch, s13 \in s1, s5 = "off"
             PROVE  s5' = "connecting" /\ s7'.forced = s13
  BY DEF Choice!Lands
<1>1. s8 = s13 /\ s8 # 0 /\ s6 = "none"
  BY ChoiceAssumption DEF Choice!WaitsForWanted, Choice!ResumeSwitch, Choice!Ids
<1>2. Choice!Begin([s3 EXCEPT !.selected = s8], s8)
  BY <1>1 DEF Choice!ResumeSwitch, Choice!Toggle, Choice!Lingers
<1> QED
  BY <1>1, <1>2 DEF Choice!Begin, Choice!Candidates

\* However many profiles are activated while an old attempt is being given up, the attempt
\* that the queued switch starts is bound to the one activated last.
THEOREM QueuedSwitchLands == Spec => SwitchLands
<1> DEFINE Inv == part = "choice" => Choice!WaitsForWanted
<1>1. Init => Inv
  BY ChoiceAssumption DEF Init, Choice!Init, Choice!WaitsForWanted, Choice!Ids
<1>2. Inv /\ [Next]_vars => Inv'
  BY PartStays, ChoicePart, ChoiceStep DEF Choice!WaitsForWanted, Choice!vars
<1>3. Inv /\ [Next]_vars => [part = "choice" => Choice!Lands]_vars
  BY ChoiceLands
<1> QED
  BY <1>1, <1>2, <1>3, PTL DEF Spec, SwitchLands

(***************************************************************************)
(* The one-time data reset                                                 *)
(***************************************************************************)
\* A step of a behaviour of the reset is one of its actions.
LEMMA ResetPart ==
  ASSUME [Next]_vars, part = "reset"
  PROVE  Reset!Next \/ UNCHANGED Reset!vars
BY DEF Next, vars, Reset!vars

\* No entry of the old data is lost to a move, to a lock or to the new data.
LEMMA ResetStep ==
  ASSUME Reset!OldDataInv, Reset!Next
  PROVE  Reset!OldDataInv'
<1> USE DEF Reset!OldDataInv, Reset!OldDataKept, Reset!None
<1> PICK p \in ResetProcs :
      \/ Reset!Start(p) \/ Reset!Recover(p) \/ Reset!Look(p) \/ Reset!StopOldEngines(p)
      \/ Reset!Moved(p) \/ Reset!Mark(p) \/ Reset!Acquire(p) \/ Reset!AlreadyRunning(p)
      \/ Reset!Dismiss(p) \/ Reset!Connect(p) \/ Reset!Quit(p) \/ Reset!Killed(p)
      \/ \E e \in Reset!Entries : Reset!MoveEntry(p, e) \/ Reset!Save(p, e)
  BY DEF Reset!Next
<1>1. CASE \/ Reset!Start(p) \/ Reset!Look(p) \/ Reset!StopOldEngines(p) \/ Reset!Moved(p)
           \/ Reset!Mark(p) \/ Reset!AlreadyRunning(p) \/ Reset!Dismiss(p) \/ Reset!Killed(p)
  BY <1>1 DEF Reset!Start, Reset!Look, Reset!StopOldEngines, Reset!Moved, Reset!Mark,
    Reset!AlreadyRunning, Reset!Dismiss, Reset!Killed
<1>2. CASE Reset!Recover(p) \/ Reset!Acquire(p) \/ Reset!Connect(p) \/ Reset!Quit(p)
  BY <1>2 DEF Reset!Recover, Reset!Acquire, Reset!Connect, Reset!Quit, Reset!Restore
<1>3. ASSUME NEW e \in Reset!Entries, Reset!MoveEntry(p, e)
      PROVE  Reset!OldDataInv'
  BY <1>3 DEF Reset!MoveEntry, Reset!Renamed, Reset!Locked, Reset!Unreadable, Reset!Swallowed,
    Reset!Vanished, Reset!Copied, Reset!Gone, Reset!Whole
<1>4. ASSUME NEW e \in Reset!Entries, Reset!Save(p, e)
      PROVE  Reset!OldDataInv'
  BY <1>4 DEF Reset!Save
<1> QED
  BY <1>1, <1>2, <1>3, <1>4

\* At first the old data is where it was.
LEMMA ResetInit == Reset!Init => Reset!OldDataInv
BY DEF Reset!Init, Reset!OldDataInv, Reset!OldDataKept, Reset!None

(***************************************************************************)
(* The SNI search                                                          *)
(***************************************************************************)
\* A step of a behaviour of the SNI search is one of its actions.
LEMMA ScanPart ==
  ASSUME [Next]_vars, part = "scan"
  PROVE  Scan!Next \/ UNCHANGED Scan!vars
BY DEF Next, vars, Scan!vars, Scan!prefs

\* At first no result is there and nothing is pinned.
LEMMA ScanInit == Scan!Init => Scan!ScanTagged /\ Scan!OwnSnis /\ Scan!FailedApplyKeeps
<1> SUFFICES ASSUME Scan!Init PROVE Scan!ScanTagged /\ Scan!OwnSnis /\ Scan!FailedApplyKeeps
  OBVIOUS
<1>1. PICK c \in ScanCarriers, e \in [ScanCarriers -> ScanEdges] :
        s1 = [carrier |-> c, pins |-> [x \in ScanCarriers |-> [p \in ScanProfiles |-> Scan!None]],
              global |-> [x \in ScanCarriers |-> Scan!None],
              tuning |-> [x \in ScanCarriers |-> [sni |-> Scan!None, edge |-> e[x], rest |-> {}]]]
  BY DEF Scan!Init
<1>2. s1 \in Scan!Settings
  BY <1>1 DEF Scan!Settings, Scan!Tunings
<1>3. s10 = <<>> /\ s3 = {} /\ s7 = {} /\ s8 = {} /\ s9 = {} /\ s11 = {} /\ s15 = {} /\ s5 = FALSE
      /\ s12.kind = Scan!None
      /\ s4 = [on |-> FALSE, carrier |-> s1.carrier, edge |-> s1.tuning[s1.carrier].edge,
               todo |-> {}, found |-> {}]
  BY DEF Scan!Init
<1>4. s1.carrier \in ScanCarriers /\ s1.tuning[s1.carrier].edge \in ScanEdges
  BY <1>1
<1>5. Scan!ScanTagged
  <2>1. s10 \in Seq(Scan!Signals) /\ Len(s10) = 0
    BY <1>3
  <2>2. s4 \in [on : BOOLEAN, carrier : ScanCarriers, edge : ScanEdges,
                todo : SUBSET ScanDomains, found : SUBSET ScanDomains]
        /\ s4.found = {} /\ s4.on = FALSE
    BY <1>3, <1>4
  <2>3. \A i \in 1..Len(s10) : FALSE
    BY <2>1
  <2> QED
    BY <1>3, <2>1, <2>2, <2>3 DEF Scan!ScanTagged
<1>6. Scan!OwnSnis
  BY <1>1, <1>2, <1>3 DEF Scan!OwnSnis, Scan!OwnSni, Scan!TestedOr, Scan!TestedHere, Scan!Tunings
<1> QED
  BY <1>3, <1>5, <1>6 DEF Scan!FailedApplyKeeps, Scan!None

\* The scan, its signals and the page keep a result with the carrier it was tested on.
LEMMA ScanTagging ==
  ASSUME Scan!ScanTagged, Scan!OwnSnis, Scan!Next
  PROVE  Scan!ScanTagged' /\ s11 \subseteq s11'
<1> USE DEF Scan!ScanTagged
<1>1. CASE Scan!StartScan
  <2>1. s1.carrier \in ScanCarriers /\ s1.tuning[s1.carrier].edge \in ScanEdges
    BY DEF Scan!OwnSnis, Scan!Settings, Scan!Tunings
  <2>2. PICK todo \in SUBSET ScanDomains :
          s4' = [on |-> TRUE, carrier |-> s1.carrier, edge |-> s1.tuning[s1.carrier].edge,
                 todo |-> todo, found |-> {}]
    BY <1>1 DEF Scan!StartScan
  <2>3. s10 = <<>> /\ s10' = <<>> /\ s5' = TRUE /\ s7' = {} /\ s11' = s11 /\ s8' = s8 /\ s9' = s9
    BY <1>1 DEF Scan!StartScan
  <2> QED
    BY <2>1, <2>2, <2>3
<1>2. CASE Scan!StopScan
  BY <1>2 DEF Scan!StopScan
<1>3. CASE Scan!Measure
  <2>1. PICK d \in s4.todo, ok \in BOOLEAN :
          /\ s4' = [s4 EXCEPT !.todo = @ \ {d}, !.found = IF ok THEN @ \union {d} ELSE @]
          /\ s10' = IF ok THEN Append(s10, <<"progress", {d}>>) ELSE s10
          /\ s11' = IF ok THEN s11 \union {[domain |-> d, carrier |-> s4.carrier, edge |-> s4.edge]}
                    ELSE s11
    BY <1>3 DEF Scan!Measure
  <2>2. s4.on /\ s5' = s5 /\ s7' = s7 /\ s8' = s8 /\ s9' = s9
    BY <1>3 DEF Scan!Measure
  <2>3. d \in ScanDomains /\ s4'.on = s4.on /\ s4'.carrier = s4.carrier /\ s4'.edge = s4.edge
        /\ s4'.found = (IF ok THEN s4.found \union {d} ELSE s4.found)
        /\ s4' \in [on : BOOLEAN, carrier : ScanCarriers, edge : ScanEdges,
                    todo : SUBSET ScanDomains, found : SUBSET ScanDomains]
    BY <2>1
  <2>4. s11 \subseteq s11' /\ s11' \subseteq Scan!Results
    BY <2>1, <2>3 DEF Scan!Results
  <2>5. CASE ok
    <3>1. <<"progress", {d}>> \in Scan!Signals
      BY <2>3 DEF Scan!Signals
    <3>2. s10' \in Seq(Scan!Signals) /\ Len(s10') = Len(s10) + 1
          /\ s10'[Len(s10) + 1] = <<"progress", {d}>>
          /\ \A i \in 1..Len(s10) : s10'[i] = s10[i]
      BY <2>1, <2>5, <3>1
    <3>3. \A i \in 1..Len(s10) : s10[i][1] # "done"
      BY <2>2
    <3>4. \A i \in 1..Len(s10') : s10'[i][2] \subseteq s4'.found /\ s10'[i][1] # "done"
      BY <2>3, <2>5, <3>2, <3>3
    <3>5. \A x \in s4'.found :
            [domain |-> x, carrier |-> s4'.carrier, edge |-> s4'.edge] \in s11'
      BY <2>1, <2>3, <2>5
    <3> QED
      BY <2>2, <2>3, <2>4, <3>2, <3>4, <3>5
  <2>6. CASE ~ok
    BY <2>1, <2>2, <2>3, <2>4, <2>6
  <2> QED
    BY <2>5, <2>6
<1>4. CASE Scan!EndScan
  <2>1. s4.on /\ s4' = [s4 EXCEPT !.on = FALSE] /\ s10' = Append(s10, <<"done", s4.found>>)
        /\ UNCHANGED <<s5, s7, s8, s9, s11>>
    BY <1>4 DEF Scan!EndScan
  <2>2. <<"done", s4.found>> \in Scan!Signals
    BY DEF Scan!Signals
  <2>3. s10' \in Seq(Scan!Signals) /\ Len(s10') = Len(s10) + 1
        /\ s10'[Len(s10) + 1] = <<"done", s4.found>>
        /\ \A i \in 1..Len(s10) : s10'[i] = s10[i]
    BY <2>1, <2>2
  <2>4. \A i \in 1..Len(s10) : s10[i][1] # "done"
    BY <2>1
  <2>5. \A i \in 1..Len(s10') : s10'[i][2] \subseteq s4.found
                                /\ (s10'[i][1] = "done" => i = Len(s10'))
    BY <2>3, <2>4
  <2>6. s4'.found = s4.found /\ s4'.carrier = s4.carrier /\ s4'.edge = s4.edge /\ s4'.on = FALSE
        /\ s4' \in [on : BOOLEAN, carrier : ScanCarriers, edge : ScanEdges,
                    todo : SUBSET ScanDomains, found : SUBSET ScanDomains]
    BY <2>1
  <2> QED
    BY <2>1, <2>3, <2>5, <2>6
<1>5. CASE Scan!Received
  <2> DEFINE ds == Head(s10)[2]
  <2>1. s10 # <<>> /\ s10' = Tail(s10) /\ UNCHANGED <<s4, s9, s11>>
    BY <1>5 DEF Scan!Received
  <2>2. s10' \in Seq(Scan!Signals) /\ Len(s10') = Len(s10) - 1
        /\ \A i \in 1..Len(s10') : i + 1 \in 1..Len(s10) /\ s10'[i] = s10[i + 1]
    BY <2>1
  <2>3. 1 \in 1..Len(s10) /\ Head(s10) = s10[1]
    BY <2>1
  <2>4. Scan!Tagged(ds) \subseteq s11
    BY <2>3 DEF Scan!Tagged, Scan!Context
  <2>5. Scan!Upsert(Scan!Tagged(ds)) \subseteq s11
    BY <2>4 DEF Scan!Upsert
  <2>6. CASE Head(s10)[1] = "progress"
    <3>1. s7' \subseteq s11 /\ s5' = s5 /\ s8' = s8
      BY <1>5, <2>5, <2>6 DEF Scan!Received
    <3>2. \A i \in 1..Len(s10') : /\ s10'[i][2] \subseteq s4.found
                                  /\ s10'[i][1] = "done" => i = Len(s10') /\ ~s4.on
      <4> SUFFICES ASSUME NEW i \in 1..Len(s10')
                   PROVE  /\ s10'[i][2] \subseteq s4.found
                          /\ s10'[i][1] = "done" => i = Len(s10') /\ ~s4.on
        OBVIOUS
      <4>1. i + 1 \in 1..Len(s10) /\ s10'[i] = s10[i + 1]
        BY <2>2
      <4>2. /\ s10[i + 1][2] \subseteq s4.found
            /\ s10[i + 1][1] = "done" => i + 1 = Len(s10) /\ ~s4.on
        BY <4>1
      <4>3. Len(s10) \in Nat /\ i \in Nat /\ Len(s10') = Len(s10) - 1
        BY <2>2
      <4> QED
        BY <4>1, <4>2, <4>3
    <3>3. s10 # <<>> => s5
      OBVIOUS
    <3> QED
      BY <2>1, <2>2, <3>1, <3>2, <3>3
  <2>7. CASE Head(s10)[1] # "progress"
    <3>1. s7' \subseteq s11 /\ s8' \subseteq s11 /\ s5' = FALSE
      BY <1>5, <2>5, <2>7 DEF Scan!Received
    <3>2. s10[1][1] = "done"
      BY <2>3, <2>7 DEF Scan!Signals
    <3>3. Len(s10) = 1 /\ ~s4.on
      BY <2>3, <3>2
    <3>4. s10' = <<>>
      BY <2>2, <3>3
    <3>5. \A i \in 1..Len(s10') : FALSE
      BY <3>4
    <3> QED
      BY <2>1, <2>2, <3>1, <3>3, <3>4, <3>5
  <2> QED
    BY <2>6, <2>7
<1>6. CASE Scan!Bookmark
  BY <1>6 DEF Scan!Bookmark
<1>7. CASE Scan!ApplySelected \/ Scan!ApplyToAll \/ Scan!ApplyBest \/ Scan!Undo \/ Scan!SwitchCarrier
  BY <1>7 DEF Scan!ApplySelected, Scan!ApplyToAll, Scan!ApplyBest, Scan!Undo, Scan!SwitchCarrier
<1> QED
  BY <1>1, <1>2, <1>3, <1>4, <1>5, <1>6, <1>7 DEF Scan!Next

\* A change of what one carrier has is one of three functions of the settings.
LEMMA ScanRecord ==
  ASSUME NEW s \in Scan!Settings, NEW c, NEW pins, NEW global, NEW tuning
  PROVE  Scan!Changed(s, c, pins, global, tuning)
           = [carrier |-> s.carrier, pins |-> [s.pins EXCEPT ![c] = pins],
              global |-> [s.global EXCEPT ![c] = global],
              tuning |-> [s.tuning EXCEPT ![c] = tuning]]
<1> DEFINE t == Scan!Changed(s, c, pins, global, tuning)
<1> USE DEF Scan!Settings, Scan!Changed
<1>1. t.carrier = s.carrier
  OBVIOUS
<1>2. t.pins = [s.pins EXCEPT ![c] = pins]
  OBVIOUS
<1>3. t.global = [s.global EXCEPT ![c] = global]
  OBVIOUS
<1>4. t.tuning = [s.tuning EXCEPT ![c] = tuning]
  OBVIOUS
<1>5. DOMAIN t = {"carrier", "pins", "global", "tuning"}
  OBVIOUS
<1>6. t = [x \in {"carrier", "pins", "global", "tuning"} |-> t[x]]
  <2>1. t = [s EXCEPT !.pins[c] = pins, !.global[c] = global, !.tuning[c] = tuning]
    BY DEF Scan!Changed
  <2> QED
    BY ONLY <1>5 DEF Scan!Changed
<1> HIDE DEF t
<1>7. t = [carrier |-> t.carrier, pins |-> t.pins, global |-> t.global, tuning |-> t.tuning]
  BY <1>6
<1> HIDE DEF Scan!Changed
<1>8. t = [carrier |-> s.carrier, pins |-> [s.pins EXCEPT ![c] = pins],
           global |-> [s.global EXCEPT ![c] = global],
           tuning |-> [s.tuning EXCEPT ![c] = tuning]]
  BY <1>1, <1>2, <1>3, <1>4, <1>7
<1> QED
  BY <1>8 DEF t

\* The settings keep their type, the other carriers what they have.
LEMMA ScanChanged ==
  ASSUME NEW s \in Scan!Settings, NEW c \in ScanCarriers, NEW pins, NEW global, NEW tuning,
         NEW extra,
         Scan!OwnSni(c, pins, global, tuning, extra),
         \A d \in ScanCarriers : Scan!OwnSni(d, s.pins[d], s.global[d], s.tuning[d], extra),
         NEW t, t = Scan!Changed(s, c, pins, global, tuning)
  PROVE  /\ t \in Scan!Settings
         /\ t.carrier = s.carrier
         /\ \A d \in ScanCarriers : Scan!OwnSni(d, t.pins[d], t.global[d], t.tuning[d], extra)
<1>1. /\ t.pins = [s.pins EXCEPT ![c] = pins]
      /\ t.global = [s.global EXCEPT ![c] = global]
      /\ t.tuning = [s.tuning EXCEPT ![c] = tuning]
      /\ t.carrier = s.carrier
      /\ t = [carrier |-> t.carrier, pins |-> t.pins, global |-> t.global, tuning |-> t.tuning]
  BY ScanRecord
<1>2. /\ pins \in [ScanProfiles -> ScanDomains \union {Scan!None}]
      /\ global \in ScanDomains \union {Scan!None} /\ tuning \in Scan!Tunings
  BY DEF Scan!OwnSni
<1>3. /\ s.pins \in [ScanCarriers -> [ScanProfiles -> ScanDomains \union {Scan!None}]]
      /\ s.global \in [ScanCarriers -> ScanDomains \union {Scan!None}]
      /\ s.tuning \in [ScanCarriers -> Scan!Tunings] /\ s.carrier \in ScanCarriers
  BY DEF Scan!Settings
<1>4. /\ t.pins \in [ScanCarriers -> [ScanProfiles -> ScanDomains \union {Scan!None}]]
      /\ t.global \in [ScanCarriers -> ScanDomains \union {Scan!None}]
      /\ t.tuning \in [ScanCarriers -> Scan!Tunings]
  BY <1>1, <1>2, <1>3
<1>5. t \in Scan!Settings
  BY <1>1, <1>3, <1>4 DEF Scan!Settings
<1>6. ASSUME NEW d \in ScanCarriers
      PROVE  Scan!OwnSni(d, t.pins[d], t.global[d], t.tuning[d], extra)
  <2>1. CASE d = c
    <3>1. t.pins[d] = pins /\ t.global[d] = global /\ t.tuning[d] = tuning
      BY <1>1, <1>3, <2>1
    <3> QED
      BY <2>1, <3>1
  <2>2. CASE d # c
    <3>1. t.pins[d] = s.pins[d] /\ t.global[d] = s.global[d] /\ t.tuning[d] = s.tuning[d]
      BY <1>1, <1>3, <2>2
    <3> QED
      BY <3>1
  <2> QED
    BY <2>1, <2>2
<1> QED
  BY <1>1, <1>5, <1>6

\* What a carrier may have when some are excepted it may have when more are.
LEMMA ScanWider ==
  ASSUME NEW c, NEW pins, NEW global, NEW tuning, NEW extra, NEW more, extra \subseteq more,
         Scan!OwnSni(c, pins, global, tuning, extra)
  PROVE  Scan!OwnSni(c, pins, global, tuning, more)
BY DEF Scan!OwnSni, Scan!TestedOr

\* Results tested on the active carrier are applied to what that carrier has.
LEMMA ScanApplied ==
  ASSUME Scan!OwnSnis, Scan!ScanTagged, NEW assigned, NEW best, NEW extra, s15 \subseteq extra,
         DOMAIN assigned \subseteq ScanProfiles,
         \A p \in DOMAIN assigned : assigned[p] \in s11 /\ assigned[p].carrier = s1.carrier,
         best \in s11, best.carrier = s1.carrier \/ <<s1.carrier, best.domain>> \in extra,
         NEW t, t = Scan!Applied(s1, assigned, best)
  PROVE  /\ t \in Scan!Settings
         /\ t.carrier = s1.carrier
         /\ \A d \in ScanCarriers : Scan!OwnSni(d, t.pins[d], t.global[d], t.tuning[d], extra)
<1> DEFINE c == s1.carrier
           pins == [p \in ScanProfiles |-> IF p \in DOMAIN assigned THEN assigned[p].domain
                                           ELSE s1.pins[c][p]]
           tuning == Scan!Bound(s1.tuning[c], best)
<1>1. s1 \in Scan!Settings /\ c \in ScanCarriers
      /\ Scan!OwnSni(c, s1.pins[c], s1.global[c], s1.tuning[c], s15)
  BY DEF Scan!OwnSnis, Scan!Settings
<1>2. s11 \subseteq Scan!Results
  BY DEF Scan!ScanTagged
<1>3. Scan!OwnSni(c, pins, best.domain, tuning, extra)
  <2>1. \A p \in ScanProfiles : pins[p] \in ScanDomains \union {Scan!None}
                                /\ Scan!TestedHere(c, pins[p])
    BY <1>1, <1>2 DEF Scan!OwnSni, Scan!TestedHere, Scan!Results
  <2>2. best.domain \in ScanDomains /\ best.edge \in ScanEdges
    BY <1>2 DEF Scan!Results
  <2>3. Scan!TestedOr(c, best.domain, extra)
    BY DEF Scan!TestedOr, Scan!TestedHere
  <2>4. tuning \in Scan!Tunings /\ tuning.sni = best.domain
    BY <1>1, <2>2 DEF Scan!OwnSni, Scan!Bound, Scan!Tunings
  <2>5. pins \in [ScanProfiles -> ScanDomains \union {Scan!None}]
    BY <2>1
  <2> HIDE DEF pins, tuning
  <2> QED
    BY <2>1, <2>2, <2>3, <2>4, <2>5 DEF Scan!OwnSni
<1>4. t = Scan!Changed(s1, c, pins, best.domain, tuning)
  BY DEF Scan!Applied
<1>5. \A d \in ScanCarriers : Scan!OwnSni(d, s1.pins[d], s1.global[d], s1.tuning[d], extra)
  <2> SUFFICES ASSUME NEW d \in ScanCarriers
               PROVE  Scan!OwnSni(d, s1.pins[d], s1.global[d], s1.tuning[d], extra)
    OBVIOUS
  <2>1. Scan!OwnSni(d, s1.pins[d], s1.global[d], s1.tuning[d], s15)
    BY DEF Scan!OwnSnis
  <2> QED
    BY <2>1, ScanWider
<1> HIDE DEF pins, tuning
<1> QED
  BY <1>1, <1>3, <1>4, <1>5, ScanChanged

\* What is put back is what the carrier it was taken on had.
LEMMA ScanRestored ==
  ASSUME NEW s \in Scan!Settings, NEW u, u.carrier \in ScanCarriers, NEW extra,
         Scan!OwnSni(u.carrier, u.pins, u.global, u.tuning, extra),
         \A d \in ScanCarriers : Scan!OwnSni(d, s.pins[d], s.global[d], s.tuning[d], extra),
         NEW t, t = Scan!Restored(s, u)
  PROVE  /\ t \in Scan!Settings
         /\ \A d \in ScanCarriers : Scan!OwnSni(d, t.pins[d], t.global[d], t.tuning[d], extra)
BY ScanChanged DEF Scan!Restored

\* Put back after a save that failed, the settings are what they were before the apply.
LEMMA ScanPutBack ==
  ASSUME NEW s \in Scan!Settings, NEW pins, NEW global, NEW tuning, NEW u \in Scan!Snapshot(s),
         NEW t, t = Scan!Changed(s, s.carrier, pins, global, tuning), t \in Scan!Settings
  PROVE  Scan!Restored(t, u) = s
<1> DEFINE c == s.carrier
           r == Scan!Restored(t, u)
<1>1. u.carrier = c /\ u.pins = s.pins[c] /\ u.global = s.global[c] /\ u.tuning = s.tuning[c]
      /\ c \in ScanCarriers
  BY DEF Scan!Snapshot, Scan!Settings
<1>2. t.carrier = s.carrier /\ t.pins = [s.pins EXCEPT ![c] = pins]
      /\ t.global = [s.global EXCEPT ![c] = global] /\ t.tuning = [s.tuning EXCEPT ![c] = tuning]
  BY ScanRecord
<1>3. r = [carrier |-> t.carrier, pins |-> [t.pins EXCEPT ![c] = s.pins[c]],
           global |-> [t.global EXCEPT ![c] = s.global[c]],
           tuning |-> [t.tuning EXCEPT ![c] = s.tuning[c]]]
  BY <1>1, ScanRecord DEF Scan!Restored
<1>4. /\ [t.pins EXCEPT ![c] = s.pins[c]] = s.pins
      /\ [t.global EXCEPT ![c] = s.global[c]] = s.global
      /\ [t.tuning EXCEPT ![c] = s.tuning[c]] = s.tuning
  BY <1>1, <1>2 DEF Scan!Settings
<1>5. s = [carrier |-> c, pins |-> s.pins, global |-> s.global, tuning |-> s.tuning]
  BY DEF Scan!Settings
<1> HIDE DEF r
<1>6. r = s
  BY <1>2, <1>3, <1>4, <1>5
<1> QED
  BY <1>6 DEF r

\* A SNI of a carrier stays one that was tested on it.
LEMMA ScanMore ==
  ASSUME s11 \subseteq s11', NEW c, NEW pins, NEW global, NEW tuning, NEW extra,
         Scan!OwnSni(c, pins, global, tuning, extra)
  PROVE  Scan!OwnSni(c, pins, global, tuning, extra)'
BY DEF Scan!OwnSni, Scan!TestedOr, Scan!TestedHere

\* The settings and the undo of the next state have only what was tested there, or what
\* is excepted.
LEMMA ScanOwn ==
  ASSUME s11 \subseteq s11', s1' \in Scan!Settings, NEW extra, extra = s15',
         \A c \in ScanCarriers : Scan!OwnSni(c, s1'.pins[c], s1'.global[c], s1'.tuning[c], extra),
         \A u \in s3' : u.carrier \in ScanCarriers
                        /\ Scan!OwnSni(u.carrier, u.pins, u.global, u.tuning, extra)
  PROVE  Scan!OwnSnis'
<1>1. ASSUME NEW c \in ScanCarriers
      PROVE  Scan!OwnSni(c, s1.pins[c], s1.global[c], s1.tuning[c], s15)'
  <2>1. PICK pins, global, tuning :
          pins = s1'.pins[c] /\ global = s1'.global[c] /\ tuning = s1'.tuning[c]
    OBVIOUS
  <2>2. Scan!OwnSni(c, pins, global, tuning, extra)
    BY <2>1
  <2>3. Scan!OwnSni(c, pins, global, tuning, extra)'
    BY <2>2, ScanMore
  <2> QED
    BY <2>1, <2>3 DEF Scan!OwnSni, Scan!TestedOr, Scan!TestedHere
<1>2. ASSUME NEW u \in s3'
      PROVE  u.carrier \in ScanCarriers
             /\ Scan!OwnSni(u.carrier, u.pins, u.global, u.tuning, s15)'
  <2>1. Scan!OwnSni(u.carrier, u.pins, u.global, u.tuning, extra)'
    BY <1>2, ScanMore
  <2> QED
    BY <1>2, <2>1 DEF Scan!OwnSni, Scan!TestedOr, Scan!TestedHere
<1> QED
  BY <1>1, <1>2 DEF Scan!OwnSnis

\* An apply takes effect as a whole, with results of the active carrier, or not at all.
LEMMA ScanTry ==
  ASSUME Scan!ScanTagged, Scan!OwnSnis, NEW assigned, NEW best, Scan!Try(assigned, best),
         DOMAIN assigned \subseteq ScanProfiles, \A p \in DOMAIN assigned : assigned[p] \in s11,
         best \in s11, s11' = s11, NEW extra, extra = s15', s15 \subseteq extra,
         Scan!Allowed(assigned) =>
           best.carrier = s1.carrier \/ <<s1.carrier, best.domain>> \in extra
  PROVE  Scan!OwnSnis' /\ Scan!FailedApplyKeeps'
<1> DEFINE t == Scan!Applied(s1, assigned, best)
<1>0. s1 \in Scan!Settings /\ s1.carrier \in ScanCarriers
      /\ (\A c \in ScanCarriers : Scan!OwnSni(c, s1.pins[c], s1.global[c], s1.tuning[c], extra))
      /\ \A u \in s3 \union Scan!Snapshot(s1) :
           u.carrier \in ScanCarriers /\ Scan!OwnSni(u.carrier, u.pins, u.global, u.tuning, extra)
  <2>1. s1 \in Scan!Settings /\ s1.carrier \in ScanCarriers
        /\ (\A c \in ScanCarriers : Scan!OwnSni(c, s1.pins[c], s1.global[c], s1.tuning[c], s15))
        /\ \A u \in s3 \union Scan!Snapshot(s1) :
             u.carrier \in ScanCarriers /\ Scan!OwnSni(u.carrier, u.pins, u.global, u.tuning, s15)
    BY DEF Scan!OwnSnis, Scan!Settings, Scan!Snapshot
  <2> QED
    BY <2>1, ScanWider
<1>1. ASSUME Scan!Allowed(assigned)
      PROVE  /\ t \in Scan!Settings
             /\ \A d \in ScanCarriers : Scan!OwnSni(d, t.pins[d], t.global[d], t.tuning[d], extra)
  <2>1. \A p \in DOMAIN assigned : assigned[p].carrier = s1.carrier
    BY <1>1 DEF Scan!Allowed
  <2> QED
    BY <1>1, <2>1, ScanApplied
<1>2. ASSUME Scan!Allowed(assigned), NEW u \in Scan!Snapshot(s1)
      PROVE  Scan!Restored(t, u) = s1
  <2>1. PICK pins, global, tuning :
          t = Scan!Changed(s1, s1.carrier, pins, global, tuning)
    BY DEF Scan!Applied
  <2> HIDE DEF t
  <2> QED
    BY <1>0, <1>1, <1>2, <2>1, ScanPutBack
<1> HIDE DEF t
<1>3. CASE Scan!Allowed(assigned) /\ Scan!Saves(t, TRUE) /\ s3' = Scan!Snapshot(s1)
           /\ s12' = [kind |-> "applied", before |-> s1]
  <2>1. s1' = t
    BY <1>3 DEF Scan!Saves
  <2> QED
    BY <1>0, <1>1, <1>3, <2>1, ScanOwn DEF Scan!FailedApplyKeeps
<1>4. CASE /\ Scan!Allowed(assigned) /\ s3' = s3 /\ s12' = [kind |-> "failed", before |-> s1]
           /\ \E u \in Scan!Snapshot(s1) : s1' = Scan!Restored(t, u)
  <2>1. s1' = s1
    BY <1>2, <1>4
  <2> QED
    BY <1>0, <1>4, <2>1, ScanOwn DEF Scan!FailedApplyKeeps
<1>5. CASE s12' = [kind |-> "failed", before |-> s1] /\ s1' = s1 /\ s3' = s3
  BY <1>0, <1>5, ScanOwn DEF Scan!FailedApplyKeeps
<1> QED
  BY <1>3, <1>4, <1>5 DEF Scan!Try, t

\* ... when one result is applied to every config there is.
LEMMA ScanAll ==
  ASSUME Scan!ScanTagged, Scan!OwnSnis, NEW r \in s11, Scan!Try([p \in ScanProfiles |-> r], r),
         ScanProfiles # {}, s11' = s11, s15' = s15
  PROVE  Scan!OwnSnis' /\ Scan!FailedApplyKeeps'
<1> DEFINE assigned == [p \in ScanProfiles |-> r]
<1>1. DOMAIN assigned = ScanProfiles /\ \A p \in ScanProfiles : assigned[p] = r
  OBVIOUS
<1>2. Scan!Try(assigned, r)
  OBVIOUS
<1> HIDE DEF assigned
<1> QED
  BY <1>1, <1>2, ScanTry DEF Scan!Allowed

\* No step of the page mixes the carriers or leaves half of a failed apply.
LEMMA ScanStep ==
  ASSUME Scan!ScanTagged, Scan!OwnSnis, Scan!FailedApplyKeeps, Scan!Next
  PROVE  Scan!ScanTagged' /\ Scan!OwnSnis' /\ Scan!FailedApplyKeeps'
<1>1. Scan!ScanTagged' /\ s11 \subseteq s11'
  BY ScanTagging
<1>2. s1 \in Scan!Settings /\ s1.carrier \in ScanCarriers
      /\ (\A c \in ScanCarriers : Scan!OwnSni(c, s1.pins[c], s1.global[c], s1.tuning[c], s15))
      /\ \A u \in s3 : u.carrier \in ScanCarriers
                       /\ Scan!OwnSni(u.carrier, u.pins, u.global, u.tuning, s15)
  BY DEF Scan!OwnSnis, Scan!Settings
<1>3. s7 \union s8 \union s9 \subseteq s11
  BY DEF Scan!ScanTagged
<1>4. CASE \/ Scan!StartScan \/ Scan!StopScan \/ Scan!Measure \/ Scan!EndScan \/ Scan!Received
           \/ Scan!Bookmark
  <2>1. s1' = s1 /\ s3' = s3 /\ s12' = s12 /\ s15' = s15
    BY <1>4 DEF Scan!StartScan, Scan!StopScan, Scan!Measure, Scan!EndScan, Scan!Received,
      Scan!Bookmark, Scan!prefs
  <2> QED
    BY <1>1, <1>2, <2>1, ScanOwn DEF Scan!FailedApplyKeeps
<1>5. CASE Scan!ApplySelected
  <2>1. PICK r \in s7 \union s9, p \in ScanProfiles : Scan!Try([x \in {p} |-> r], r)
    BY <1>5 DEF Scan!ApplySelected
  <2> DEFINE assigned == [x \in {p} |-> r]
  <2>2. s11' = s11 /\ s15' = s15
    BY <1>5 DEF Scan!ApplySelected
  <2>3. DOMAIN assigned = {p} /\ assigned[p] = r
    OBVIOUS
  <2> HIDE DEF assigned
  <2>4. Scan!Try(assigned, r)
    BY <2>1 DEF assigned
  <2> QED
    BY <1>1, <1>3, <2>2, <2>3, <2>4, ScanTry DEF Scan!Allowed
<1>6. CASE Scan!ApplyToAll
  <2>0. PICK from \in {s7, s9} : \E best \in from :
          \/ Scan!Try([p \in ScanProfiles |-> best], best) /\ s15' = s15
          \/ \E rows \in SUBSET from : \E order \in [ScanProfiles -> rows] :
               /\ Scan!Try(order, best)
               /\ s15' = IF best \in Scan!Given(order) THEN s15
                         ELSE s15 \union {<<s1.carrier, best.domain>>}
    BY <1>6 DEF Scan!ApplyToAll
  <2>1. PICK best \in from :
          \/ Scan!Try([p \in ScanProfiles |-> best], best) /\ s15' = s15
          \/ \E rows \in SUBSET from : \E order \in [ScanProfiles -> rows] :
               /\ Scan!Try(order, best)
               /\ s15' = IF best \in Scan!Given(order) THEN s15
                         ELSE s15 \union {<<s1.carrier, best.domain>>}
    BY <2>0
  <2>2. ScanProfiles # {} /\ s11' = s11
    BY <1>6 DEF Scan!ApplyToAll
  <2>3. CASE Scan!Try([p \in ScanProfiles |-> best], best) /\ s15' = s15
    BY <1>1, <1>3, <2>1, <2>2, <2>3, ScanAll
  <2>4. ASSUME NEW rows \in SUBSET from, NEW order \in [ScanProfiles -> rows],
               Scan!Try(order, best),
               s15' = IF best \in Scan!Given(order) THEN s15
                      ELSE s15 \union {<<s1.carrier, best.domain>>}
        PROVE  Scan!OwnSnis' /\ Scan!FailedApplyKeeps'
    <3>1. s15 \subseteq s15'
      BY <2>4
    <3>2. ASSUME Scan!Allowed(order)
          PROVE  best.carrier = s1.carrier \/ <<s1.carrier, best.domain>> \in s15'
      <4>1. CASE best \in Scan!Given(order)
        BY <3>2, <4>1 DEF Scan!Given, Scan!Allowed
      <4>2. CASE best \notin Scan!Given(order)
        BY <2>4, <4>2
      <4> QED
        BY <4>1, <4>2
    <3>3. DOMAIN order = ScanProfiles /\ (\A p \in ScanProfiles : order[p] \in s11) /\ best \in s11
      BY <1>3, <2>4
    <3> QED
      BY <2>2, <2>4, <3>1, <3>2, <3>3, ScanTry
  <2> QED
    BY <1>1, <2>1, <2>3, <2>4
<1>7. CASE Scan!ApplyBest
  <2>1. PICK r \in s8 \union s9 : Scan!Try([p \in ScanProfiles |-> r], r)
    BY <1>7 DEF Scan!ApplyBest
  <2>2. ScanProfiles # {} /\ s11' = s11 /\ s15' = s15
    BY <1>7 DEF Scan!ApplyBest
  <2> QED
    BY <1>1, <1>3, <2>1, <2>2, ScanAll
<1>8. CASE Scan!Undo
  <2>1. PICK u \in s3, ok \in BOOLEAN :
          Scan!Saves(Scan!Restored(s1, u), ok) /\ s3' = IF ok THEN {} ELSE s3
    BY <1>8 DEF Scan!Undo
  <2>2. s12' = [kind |-> Scan!None, before |-> s12.before] /\ s11' = s11 /\ s15' = s15
    BY <1>8 DEF Scan!Undo
  <2>3. s1' = Scan!Restored(s1, u) /\ s3' \subseteq s3
    BY <2>1 DEF Scan!Saves
  <2>4. u.carrier \in ScanCarriers /\ Scan!OwnSni(u.carrier, u.pins, u.global, u.tuning, s15)
    BY <1>2
  <2>5. s1' \in Scan!Settings
        /\ \A c \in ScanCarriers : Scan!OwnSni(c, s1'.pins[c], s1'.global[c], s1'.tuning[c], s15)
    BY <1>2, <2>3, <2>4, ScanRestored
  <2>6. s12'.kind # "failed"
    BY <2>2 DEF Scan!None
  <2> QED
    BY <1>1, <1>2, <2>2, <2>3, <2>5, <2>6, ScanOwn DEF Scan!FailedApplyKeeps
<1>9. CASE Scan!SwitchCarrier
  <2>1. PICK c \in ScanCarriers : s1' = [s1 EXCEPT !.carrier = c]
    BY <1>9 DEF Scan!SwitchCarrier, Scan!Saves
  <2>2. s12' = [kind |-> Scan!None, before |-> s12.before] /\ s11' = s11 /\ s3' = s3 /\ s15' = s15
    BY <1>9 DEF Scan!SwitchCarrier
  <2>3. s1' \in Scan!Settings /\ s1'.pins = s1.pins /\ s1'.global = s1.global
        /\ s1'.tuning = s1.tuning
    BY <1>2, <2>1 DEF Scan!Settings
  <2>4. s12'.kind # "failed"
    BY <2>2 DEF Scan!None
  <2> QED
    BY <1>1, <1>2, <2>2, <2>3, <2>4, ScanOwn DEF Scan!FailedApplyKeeps
<1> QED
  BY <1>4, <1>5, <1>6, <1>7, <1>8, <1>9 DEF Scan!Next

(***************************************************************************)
(* The settings and their file                                             *)
(***************************************************************************)
\* A step of a behaviour of the settings is one of its actions.
LEMMA StorePart ==
  ASSUME [Next]_vars, part = "store"
  PROVE  Store!Next \/ UNCHANGED Store!vars
BY DEF Next, vars, Store!vars

\* Whatever a tuning was, enforced for a carrier it is one of that carrier's own.
LEMMA StoreEnforced ==
  ASSUME NEW c \in Store!Carriers, NEW t \in Store!Tunings
  PROVE  Store!Enforced(c, t) \in Store!OwnTunings /\ Store!Enforced(c, t).carrier = c
BY StoreAssumption DEF Store!Enforced, Store!OwnTunings, Store!Tunings, Store!Carriers

\* ... and one that is its own already is left as it is.
LEMMA StoreEnforcedOwn ==
  ASSUME NEW t \in Store!OwnTunings
  PROVE  Store!Enforced(t.carrier, t) = t
BY DEF Store!Enforced, Store!OwnTunings, Store!Tunings

\* A preset is a tuning of its carrier.
LEMMA StorePreset == \A c \in Store!Carriers : Store!Preset(c) \in Store!Tunings
BY StoreAssumption DEF Store!Preset, Store!Tunings

\* The settings a file is migrated to are each carrier's own.
LEMMA StoreMigrated ==
  ASSUME NEW raw, raw.buckets \in [Store!Carriers -> Store!Tunings], raw.active \in Store!Tunings,
         NEW has \in SUBSET Store!Carriers,
         raw \in [buckets : [Store!Carriers -> Store!Tunings], active : Store!Tunings,
                  genes : SUBSET StoreGenes, stats : SUBSET StoreGenes,
                  winner : StoreGenes \union {""}]
  PROVE  Store!Migrated(raw, has) \in Store!OwnMemories
<1> DEFINE c == raw.active.carrier
           own(d) == IF d \in has THEN raw.buckets[d] ELSE IF d = c THEN raw.active
                     ELSE Store!Preset(d)
           buckets == [d \in Store!Carriers |-> Store!Enforced(d, own(d))]
           active == Store!Enforced(c, IF c \in has THEN raw.active ELSE own(c))
<1>1. c \in Store!Carriers
  BY DEF Store!Tunings
<1>2. \A d \in Store!Carriers : own(d) \in Store!Tunings
  <2>1. \A d \in Store!Carriers : Store!Preset(d) \in Store!Tunings
    BY StorePreset
  <2> QED
    BY <2>1
<1> HIDE DEF own
<1>3. buckets \in Store!OwnBuckets
  BY <1>2, StoreEnforced DEF Store!OwnBuckets, Store!OwnTunings
<1>4. active \in Store!OwnTunings
  BY <1>1, <1>2, StoreEnforced
<1>5. Store!Migrated(raw, has) = [raw EXCEPT !.buckets = buckets, !.active = active]
  BY DEF Store!Migrated, own
<1> HIDE DEF buckets, active
<1>6. [raw EXCEPT !.buckets = buckets, !.active = active] \in Store!OwnMemories
  BY <1>3, <1>4 DEF Store!OwnMemories
<1> QED
  BY <1>5, <1>6

\* A file the program wrote is read back as it is.
LEMMA StoreReadBack ==
  ASSUME NEW raw \in Store!OwnMemories
  PROVE  Store!Migrated(raw, Store!Carriers) = raw
<1> DEFINE c == raw.active.carrier
           buckets == [d \in Store!Carriers |-> Store!Enforced(d, raw.buckets[d])]
<1>1. c \in Store!Carriers /\ raw.active \in Store!OwnTunings
  BY DEF Store!OwnMemories, Store!OwnTunings, Store!Tunings
<1>2. \A d \in Store!Carriers : raw.buckets[d] \in Store!OwnTunings /\ raw.buckets[d].carrier = d
  BY DEF Store!OwnMemories, Store!OwnBuckets
<1>3. \A d \in Store!Carriers : Store!Enforced(d, raw.buckets[d]) = raw.buckets[d]
  BY <1>2, StoreEnforcedOwn
<1>4. buckets = raw.buckets
  BY <1>3 DEF Store!OwnMemories, Store!OwnBuckets
<1>5. Store!Enforced(c, raw.active) = raw.active
  BY <1>1, StoreEnforcedOwn
<1>6. Store!Migrated(raw, Store!Carriers)
        = [raw EXCEPT !.buckets = buckets, !.active = Store!Enforced(c, raw.active)]
  BY <1>1 DEF Store!Migrated
<1> HIDE DEF buckets
<1>7. [raw EXCEPT !.buckets = raw.buckets, !.active = raw.active] = raw
  BY DEF Store!OwnMemories
<1> QED
  BY <1>4, <1>5, <1>6, <1>7

\* An assignment of a carrier's own entry leaves every carrier its own.
LEMMA StoreAssigned ==
  ASSUME NEW s \in Store!OwnMemories, NEW w \in Store!Writes
  PROVE  [s EXCEPT ![w.field] = w.entry] \in Store!OwnMemories
<1>1. CASE w.field = "buckets" /\ w.entry \in Store!OwnBuckets
  BY <1>1 DEF Store!OwnMemories
<1>2. CASE w.field = "active" /\ w.entry \in Store!OwnTunings
  BY <1>2 DEF Store!OwnMemories
<1>3. CASE w.field \in {"genes", "stats"} /\ w.entry \in SUBSET StoreGenes
  BY <1>3 DEF Store!OwnMemories
<1>4. CASE w.field = "winner" /\ w.entry \in StoreGenes \union {""}
  BY <1>4 DEF Store!OwnMemories
<1> QED
  BY <1>1, <1>2, <1>3, <1>4 DEF Store!Writes

\* What SetTuning assigns is of the tuning's carrier.
LEMMA StoreSetTuning ==
  ASSUME s1 \in Store!OwnMemories, NEW t \in Store!Tunings
  PROVE  Store!SetTuning(t) \in Seq(Store!Writes)
<1> DEFINE e == Store!Enforced(t.carrier, t)
           buckets == [s1.buckets EXCEPT ![t.carrier] = e]
<1>1. t.carrier \in Store!Carriers
  BY DEF Store!Tunings
<1>2. e \in Store!OwnTunings /\ e.carrier = t.carrier
  BY <1>1, StoreEnforced
<1> HIDE DEF e
<1>3. buckets \in Store!OwnBuckets
  BY <1>1, <1>2 DEF Store!OwnMemories, Store!OwnBuckets
<1>4. Store!Set("buckets", buckets) \in Store!Writes /\ Store!Set("active", e) \in Store!Writes
  BY <1>2, <1>3 DEF Store!Set, Store!Writes
<1>5. Store!SetTuning(t) = <<Store!Set("buckets", buckets), Store!Set("active", e)>>
  BY DEF Store!SetTuning, e
<1> QED
  BY <1>4, <1>5

\* What ActivateCarrier assigns keeps the old carrier's tuning with the old carrier.
LEMMA StoreActivate ==
  ASSUME s1 \in Store!OwnMemories, NEW c \in Store!Carriers
  PROVE  Store!ActivateCarrier(c) \in Seq(Store!Writes)
<1> DEFINE a == s1.active.carrier
           e == Store!Enforced(a, s1.active)
           f == Store!Enforced(c, s1.buckets[c])
           kept == [s1.buckets EXCEPT ![a] = e]
           buckets == [kept EXCEPT ![c] = f]
<1>1. a \in Store!Carriers /\ s1.active \in Store!Tunings /\ s1.buckets[c] \in Store!Tunings
      /\ s1.buckets \in Store!OwnBuckets
  BY DEF Store!OwnMemories, Store!OwnTunings, Store!OwnBuckets, Store!Tunings
<1>2. e \in Store!OwnTunings /\ e.carrier = a
  BY <1>1, StoreEnforced
<1>3. f \in Store!OwnTunings /\ f.carrier = c
  BY <1>1, StoreEnforced
<1> HIDE DEF e, f
<1>4. kept \in Store!OwnBuckets
  BY <1>1, <1>2 DEF Store!OwnBuckets
<1> HIDE DEF kept
<1>5. buckets \in Store!OwnBuckets
  BY <1>3, <1>4 DEF Store!OwnBuckets
<1>6. Store!ActivateCarrier(c) = <<Store!Set("buckets", buckets), Store!Set("active", f)>>
  BY DEF Store!ActivateCarrier, e, f, kept
<1> HIDE DEF buckets
<1>7. Store!Set("buckets", buckets) \in Store!Writes /\ Store!Set("active", f) \in Store!Writes
  BY <1>3, <1>5 DEF Store!Set, Store!Writes
<1> QED
  BY <1>6, <1>7

\* What SetCarrierTunings assigns is enforced, whatever the dialog gives it.
LEMMA StoreSetCarriers ==
  ASSUME NEW values \in [Store!Carriers -> Store!Tunings], NEW c \in Store!Carriers
  PROVE  Store!SetCarrierTunings(values, c) \in Seq(Store!Writes)
<1> DEFINE buckets == [d \in Store!Carriers |-> Store!Enforced(d, values[d])]
           e == Store!Enforced(c, values[c])
<1>1. buckets \in Store!OwnBuckets
  BY StoreEnforced DEF Store!OwnBuckets
<1>2. e \in Store!OwnTunings
  BY StoreEnforced
<1>3. Store!SetCarrierTunings(values, c) = <<Store!Set("buckets", buckets), Store!Set("active", e)>>
  BY DEF Store!SetCarrierTunings
<1> HIDE DEF buckets, e
<1>4. Store!Set("buckets", buckets) \in Store!Writes /\ Store!Set("active", e) \in Store!Writes
  BY <1>1, <1>2 DEF Store!Set, Store!Writes
<1> QED
  BY <1>3, <1>4

\* A few elements of a set make a sequence over it.
LEMMA FewInSeq ==
  ASSUME NEW S, NEW a \in S
  PROVE  /\ <<>> \in Seq(S) /\ <<a>> \in Seq(S)
         /\ \A b \in S : <<a, b>> \in Seq(S)
         /\ \A b, c \in S : <<a, b, c>> \in Seq(S)
OBVIOUS

\* ... and so do two sequences of them.
LEMMA TwoInSeq ==
  ASSUME NEW S, NEW a \in Seq(S), NEW b \in Seq(S)
  PROVE  a \o b \in Seq(S)
OBVIOUS

\* The results of the genes and the winner are of confirmed genes.
LEMMA StoreGeneWrites ==
  ASSUME s1 \in Store!OwnMemories
  PROVE  /\ \A S \in SUBSET StoreGenes : Store!SetGeneStrategies(S) \in Seq(Store!Writes)
         /\ \A g \in StoreGenes, ok \in BOOLEAN : Store!RecordGene(g, ok) \in Seq(Store!Writes)
<1> USE DEF Store!OwnMemories
<1>1. ASSUME NEW S \in SUBSET StoreGenes
      PROVE  Store!SetGeneStrategies(S) \in Seq(Store!Writes)
  <2>1. /\ Store!Set("genes", S) \in Store!Writes
        /\ Store!Set("stats", s1.stats \intersect S) \in Store!Writes
        /\ Store!Set("winner", IF s1.winner \in S THEN s1.winner ELSE "") \in Store!Writes
    BY DEF Store!Set, Store!Writes
  <2> QED
    BY <2>1, FewInSeq DEF Store!SetGeneStrategies
<1>2. ASSUME NEW g \in StoreGenes, NEW ok \in BOOLEAN
      PROVE  Store!RecordGene(g, ok) \in Seq(Store!Writes)
  <2>1. /\ Store!Set("stats", s1.stats \union {g}) \in Store!Writes
        /\ Store!Set("winner", g) \in Store!Writes
    BY DEF Store!Set, Store!Writes
  <2> DEFINE stats == <<Store!Set("stats", s1.stats \union {g})>>
             winner == IF ok THEN <<Store!Set("winner", g)>> ELSE <<>>
  <2>2. stats \in Seq(Store!Writes)
    BY <2>1, FewInSeq
  <2>3. winner \in Seq(Store!Writes)
    BY <2>1, FewInSeq
  <2>4. Store!RecordGene(g, ok) = stats \o winner
    BY DEF Store!RecordGene
  <2> HIDE DEF stats, winner
  <2> QED
    <3>1. stats \o winner \in Seq(Store!Writes)
      BY <2>2, <2>3, TwoInSeq
    <3> QED
      BY <2>4, <3>1, Zenon
<1> QED
  BY <1>1, <1>2

\* A first start, on a file of any earlier version.
LEMMA StoreInit == Store!Init => Store!OwnWrites /\ Store!SavesFollow
<1> SUFFICES ASSUME Store!Init PROVE Store!OwnWrites /\ Store!SavesFollow
  OBVIOUS
<1>1. PICK c \in Store!Carriers, has \in {{}, Store!Carriers} :
        s1 = Store!Migrated(Store!First(c), has)
  BY DEF Store!Init
<1> DEFINE raw == Store!First(c)
<1>2. /\ raw.buckets \in [Store!Carriers -> Store!Tunings] /\ raw.active \in Store!Tunings
      /\ raw \in [buckets : [Store!Carriers -> Store!Tunings], active : Store!Tunings,
                  genes : SUBSET StoreGenes, stats : SUBSET StoreGenes,
                  winner : StoreGenes \union {""}]
  <2>1. [d \in Store!Carriers |-> Store!Preset(d)] \in [Store!Carriers -> Store!Tunings]
    BY StorePreset
  <2>2. [carrier |-> c, value |-> 0] \in Store!Tunings
    BY StorePreset DEF Store!Preset
  <2> QED
    BY <2>1, <2>2 DEF Store!First
<1> HIDE DEF raw
<1>3. s1 \in Store!OwnMemories
  BY <1>1, <1>2, StoreMigrated DEF raw
<1>4. /\ s2 = s1 /\ s3 = s1 /\ s4 = "" /\ s5 = [t \in Store!Threads |-> Store!Nothing]
      /\ s6.carrier = "" /\ s7 = Store!Closed
  BY DEF Store!Init
<1>5. <<>> \in Seq(Store!Writes)
  BY FewInSeq
<1>6. Store!OwnWrites
  BY <1>3, <1>4, <1>5 DEF Store!OwnWrites, Store!Nothing
<1>7. Store!SavesFollow
  BY <1>4 DEF Store!SavesFollow, Store!FileCurrent, Store!Idle, Store!Nothing, Store!Threads
<1> QED
  BY <1>6, <1>7

\* A thread that takes up an operation has only own entries to assign.
LEMMA StoreDoes ==
  ASSUME Store!OwnWrites, NEW t \in Store!Threads, NEW writes \in Seq(Store!Writes), NEW after,
         Store!Does(t, writes, after), UNCHANGED <<s1, s2, s3>>,
         after = <<>> \/ /\ after[1].values \in [Store!Carriers -> Store!Tunings]
                         /\ after[1].active \in Store!Carriers,
         s6' = s6 \/ s6'.carrier = "", s7' = s7 \/ s7' = Store!Closed
  PROVE  Store!OwnWrites'
<1> DEFINE does == [writes |-> writes, save |-> TRUE, after |-> after]
<1>1. s5' = [s5 EXCEPT ![t] = does]
  BY DEF Store!Does
<1>2. \A u \in Store!Threads : s5'[u] = IF u = t THEN does ELSE s5[u]
  BY <1>1 DEF Store!OwnWrites
<1>3. s5' = [u \in Store!Threads |-> [writes |-> s5'[u].writes, save |-> s5'[u].save,
                                      after |-> s5'[u].after]]
  BY <1>1, <1>2 DEF Store!OwnWrites
<1>4. ASSUME NEW u \in Store!Threads
      PROVE  /\ s5'[u].writes \in Seq(Store!Writes)
             /\ s5'[u].after = <<>> \/
                  /\ s5'[u].after[1].values \in [Store!Carriers -> Store!Tunings]
                  /\ s5'[u].after[1].active \in Store!Carriers
  <2>1. CASE u = t
    <3>1. s5'[u] = does /\ does.writes = writes /\ does.after = after
      BY <1>2, <2>1
    <3> HIDE DEF does
    <3> QED
      BY <3>1
  <2>2. CASE u # t
    <3>1. s5'[u] = s5[u]
      BY <1>2, <2>2
    <3> QED
      BY <3>1 DEF Store!OwnWrites
  <2> QED
    BY <2>1, <2>2
<1> QED
  BY <1>3, <1>4 DEF Store!OwnWrites

\* The entries to be assigned, in memory and on disk are their carriers' own.
LEMMA StoreOwn ==
  ASSUME Store!OwnWrites, Store!Next
  PROVE  Store!OwnWrites'
<1>1. /\ s1 \in Store!OwnMemories /\ s2 \in Store!OwnMemories /\ s3 \in Store!OwnMemories
      /\ s1.active \in Store!Tunings /\ s1.active \in Store!OwnTunings
      /\ s1.buckets \in Store!OwnBuckets /\ s1.genes \subseteq StoreGenes
  BY DEF Store!OwnWrites, Store!OwnMemories, Store!OwnTunings
<1>w. "window" \in Store!Threads /\ "connect" \in Store!Threads
  BY DEF Store!Threads
<1>2. CASE Store!CarrierChanged
  BY <1>1, <1>2, <1>w, StoreActivate, StoreDoes DEF Store!CarrierChanged, Store!file
<1>3. CASE Store!ApplySni
  <2>1. PICK v \in 0..StoreValues :
          Store!Does("window", Store!SetTuning([s1.active EXCEPT !.value = v]), <<>>)
    BY <1>3 DEF Store!ApplySni
  <2>2. [s1.active EXCEPT !.value = v] \in Store!Tunings
    BY <1>1 DEF Store!Tunings
  <2> QED
    BY <1>1, <1>3, <1>w, <2>1, <2>2, StoreSetTuning, StoreDoes DEF Store!ApplySni, Store!file
<1>4. CASE Store!OpenDialog
  BY <1>1, <1>4 DEF Store!OpenDialog, Store!OwnWrites, Store!file
<1>5. CASE Store!SaveDialog
  <2>1. PICK c \in Store!Carriers, S \in SUBSET s7.genes, v \in 0..StoreValues :
          Store!Does("window", Store!SetGeneStrategies(S),
            <<[values |-> [s7.buckets EXCEPT ![c].value = v], active |-> c]>>)
    BY <1>5 DEF Store!SaveDialog
  <2>2. s7.buckets \in Store!OwnBuckets /\ s7.genes \subseteq StoreGenes
    BY <1>5 DEF Store!SaveDialog, Store!OwnWrites
  <2> DEFINE values == [s7.buckets EXCEPT ![c].value = v]
             after == <<[values |-> values, active |-> c]>>
  <2>3. values \in [Store!Carriers -> Store!Tunings]
    BY <2>2 DEF Store!OwnBuckets, Store!OwnTunings, Store!Tunings
  <2> HIDE DEF values
  <2>4. after[1].values = values /\ after[1].active = c
    OBVIOUS
  <2> HIDE DEF after
  <2>5. Store!Does("window", Store!SetGeneStrategies(S), after)
    BY <2>1 DEF after, values
  <2> QED
    BY <1>1, <1>5, <1>w, <2>2, <2>3, <2>4, <2>5, StoreGeneWrites, StoreDoes
    DEF Store!SaveDialog, Store!file
<1>6. CASE Store!ConnectBegins
  BY <1>1, <1>6 DEF Store!ConnectBegins, Store!OwnWrites, Store!file
<1>7. CASE Store!GeneResult
  BY <1>1, <1>7, <1>w, StoreGeneWrites, StoreDoes DEF Store!GeneResult, Store!file
<1>8. CASE Store!KeepWorking
  <2>1. PICK v \in 0..StoreValues :
          Store!Does("connect", Store!SetTuning([s6 EXCEPT !.value = v]), <<>>)
    BY <1>8 DEF Store!KeepWorking
  <2>2. s6 \in Store!OwnTunings
    BY <1>8 DEF Store!KeepWorking, Store!OwnWrites
  <2>3. [s6 EXCEPT !.value = v] \in Store!Tunings
    BY <2>2 DEF Store!OwnTunings, Store!Tunings
  <2> QED
    BY <1>1, <1>8, <1>w, <2>1, <2>3, StoreSetTuning, StoreDoes DEF Store!KeepWorking, Store!file
<1>9. CASE Store!Restart
  <2>1. s1' \in Store!OwnMemories /\ s2' \in Store!OwnMemories /\ s3' \in Store!OwnMemories
    BY <1>1, <1>9, StoreReadBack DEF Store!Restart
  <2>2. s5' = [t \in Store!Threads |-> Store!Nothing] /\ s6'.carrier = "" /\ s7' = Store!Closed
    BY <1>9 DEF Store!Restart
  <2>3. <<>> \in Seq(Store!Writes)
    BY FewInSeq
  <2> QED
    BY <2>1, <2>2, <2>3 DEF Store!OwnWrites, Store!Nothing
<1>10. ASSUME NEW t \in Store!Threads, Store!Assign(t)
       PROVE  Store!OwnWrites'
  <2> DEFINE w == Head(s5[t].writes)
  <2>1. s5[t].writes \in Seq(Store!Writes) /\ s5[t].writes # <<>>
    BY <1>10 DEF Store!Assign, Store!OwnWrites
  <2>2. w \in Store!Writes /\ Tail(s5[t].writes) \in Seq(Store!Writes)
    BY <2>1
  <2>3. s1' = [s1 EXCEPT ![w.field] = w.entry]
    BY <1>10 DEF Store!Assign
  <2> HIDE DEF w
  <2>4. s1' \in Store!OwnMemories
    BY <1>1, <2>2, <2>3, StoreAssigned
  <2>5. s5' = [s5 EXCEPT ![t].writes = Tail(@)] /\ UNCHANGED <<s2, s3, s6, s7>>
    BY <1>10 DEF Store!Assign, Store!file
  <2>6. \A u \in Store!Threads :
          s5'[u] = [writes |-> IF u = t THEN Tail(s5[t].writes) ELSE s5[u].writes,
                    save |-> s5[u].save, after |-> s5[u].after]
    <3>1. \A u \in Store!Threads :
            s5[u] = [writes |-> s5[u].writes, save |-> s5[u].save, after |-> s5[u].after]
      BY DEF Store!OwnWrites
    <3>2. s5'[t] = [s5[t] EXCEPT !.writes = Tail(@)]
          /\ \A u \in Store!Threads \ {t} : s5'[u] = s5[u]
      BY <2>5 DEF Store!OwnWrites
    <3>3. [s5[t] EXCEPT !.writes = Tail(@)]
            = [writes |-> Tail(s5[t].writes), save |-> s5[t].save, after |-> s5[t].after]
      <4> DEFINE r == s5[t]
                 rest == Tail(r.writes)
      <4>1. r = [writes |-> r.writes, save |-> r.save, after |-> r.after]
        BY <3>1
      <4>2. [r EXCEPT !.writes = rest] = [writes |-> rest, save |-> r.save, after |-> r.after]
        <5> HIDE DEF rest, r
        <5> QED
          BY <4>1
      <4> QED
        BY <4>2
    <3> QED
      BY <3>1, <3>2, <3>3
  <2>7. s5' = [u \in Store!Threads |-> s5'[u]]
    <3>1. s5 = [u \in Store!Threads |-> s5[u]]
      BY DEF Store!OwnWrites
    <3>2. s5' = [u \in Store!Threads |-> IF u = t THEN [s5[t] EXCEPT !.writes = Tail(@)]
                                         ELSE s5[u]]
      BY <2>5, <3>1
    <3> QED
      BY <3>2
  <2>8. s5' = [u \in Store!Threads |-> [writes |-> s5'[u].writes, save |-> s5'[u].save,
                                        after |-> s5'[u].after]]
    BY <2>6, <2>7
  <2>9. ASSUME NEW u \in Store!Threads
        PROVE  /\ s5'[u].writes \in Seq(Store!Writes)
               /\ s5'[u].after = <<>> \/
                    /\ s5'[u].after[1].values \in [Store!Carriers -> Store!Tunings]
                    /\ s5'[u].after[1].active \in Store!Carriers
    <3> DEFINE writes == IF u = t THEN Tail(s5[t].writes) ELSE s5[u].writes
    <3>1. s5'[u] = [writes |-> writes, save |-> s5[u].save, after |-> s5[u].after]
      BY <2>6
    <3>2. writes \in Seq(Store!Writes)
      BY <2>2 DEF Store!OwnWrites
    <3> HIDE DEF writes
    <3>3. s5'[u].writes = writes /\ s5'[u].after = s5[u].after
      BY <3>1
    <3> QED
      BY <3>2, <3>3 DEF Store!OwnWrites
  <2> QED
    BY <2>4, <2>5, <2>8, <2>9 DEF Store!OwnWrites
<1>11. ASSUME NEW t \in Store!Threads, Store!SaveBegins(t)
       PROVE  Store!OwnWrites'
  <2>1. s3' \in Store!OwnMemories
    BY <1>1, <1>11 DEF Store!SaveBegins, Store!OwnMemories
  <2> QED
    BY <1>11, <2>1 DEF Store!SaveBegins, Store!OwnWrites
<1>12. ASSUME NEW t \in Store!Threads, Store!SaveEnds(t)
       PROVE  Store!OwnWrites'
  <2>1. Store!Serialised \in Store!OwnMemories
    BY <1>1 DEF Store!Serialised, Store!OwnMemories
  <2>2. s5' = [s5 EXCEPT ![t] = Store!After(t)] /\ s2' = Store!Serialised /\ s3' = Store!Serialised
        /\ UNCHANGED <<s1, s6, s7>>
    BY <1>12 DEF Store!SaveEnds
  <2>3. /\ Store!After(t) = [writes |-> Store!After(t).writes, save |-> Store!After(t).save,
                             after |-> Store!After(t).after]
        /\ Store!After(t).after = <<>> /\ Store!After(t).writes \in Seq(Store!Writes)
    <3>1. CASE s5[t].after = <<>>
      BY <3>1, FewInSeq DEF Store!After, Store!Nothing
    <3>2. CASE s5[t].after # <<>>
      <4> DEFINE writes == Store!SetCarrierTunings(s5[t].after[1].values, s5[t].after[1].active)
      <4>1. writes \in Seq(Store!Writes)
        BY <3>2, StoreSetCarriers DEF Store!OwnWrites
      <4>2. Store!After(t) = [writes |-> writes, save |-> TRUE, after |-> <<>>]
        BY <3>2 DEF Store!After
      <4> HIDE DEF writes
      <4> QED
        BY <4>1, <4>2
    <3> QED
      BY <3>1, <3>2
  <2>4. \A u \in Store!Threads : s5'[u] = IF u = t THEN Store!After(t) ELSE s5[u]
    BY <2>2 DEF Store!OwnWrites
  <2>5. s5' = [u \in Store!Threads |-> [writes |-> s5'[u].writes, save |-> s5'[u].save,
                                        after |-> s5'[u].after]]
    BY <2>2, <2>3, <2>4 DEF Store!OwnWrites
  <2>6. ASSUME NEW u \in Store!Threads
        PROVE  /\ s5'[u].writes \in Seq(Store!Writes)
               /\ s5'[u].after = <<>> \/
                    /\ s5'[u].after[1].values \in [Store!Carriers -> Store!Tunings]
                    /\ s5'[u].after[1].active \in Store!Carriers
    BY <2>3, <2>4 DEF Store!OwnWrites
  <2> QED
    BY <2>1, <2>2, <2>5, <2>6 DEF Store!OwnWrites
<1>13. ASSUME NEW t \in Store!Threads, Store!SaveRaises(t)
       PROVE  Store!OwnWrites'
  <2>1. s5' = [s5 EXCEPT ![t] = Store!Nothing] /\ s3' = s2 /\ UNCHANGED <<s1, s2, s6, s7>>
    BY <1>13 DEF Store!SaveRaises
  <2>2. \A u \in Store!Threads : s5'[u] = IF u = t THEN Store!Nothing ELSE s5[u]
    BY <2>1 DEF Store!OwnWrites
  <2>3. s5' = [u \in Store!Threads |-> [writes |-> s5'[u].writes, save |-> s5'[u].save,
                                        after |-> s5'[u].after]]
    BY <2>1, <2>2 DEF Store!OwnWrites, Store!Nothing
  <2>4. Store!Nothing.writes \in Seq(Store!Writes) /\ Store!Nothing.after = <<>>
    BY FewInSeq DEF Store!Nothing
  <2>5. ASSUME NEW u \in Store!Threads
        PROVE  /\ s5'[u].writes \in Seq(Store!Writes)
               /\ s5'[u].after = <<>> \/
                    /\ s5'[u].after[1].values \in [Store!Carriers -> Store!Tunings]
                    /\ s5'[u].after[1].active \in Store!Carriers
    BY <2>2, <2>4 DEF Store!OwnWrites
  <2> QED
    BY <2>1, <2>3, <2>5 DEF Store!OwnWrites
<1> QED
  BY <1>2, <1>3, <1>4, <1>5, <1>6, <1>7, <1>8, <1>9, <1>10, <1>11, <1>12, <1>13 DEF Store!Next

\* While one thread writes the file the other has changed nothing, or saves after it.
LEMMA StoreFollows ==
  ASSUME Store!OwnWrites, Store!SavesFollow, Store!Next
  PROVE  Store!SavesFollow'
<1>1. /\ s1 \in Store!OwnMemories /\ s2 \in Store!OwnMemories /\ s3 \in Store!OwnMemories
      /\ DOMAIN s5 = Store!Threads
  BY DEF Store!OwnWrites
<1>2. ASSUME NEW t \in Store!Threads, NEW writes, NEW after, Store!Does(t, writes, after),
             UNCHANGED <<s1, s2, s3, s4, s10>>
      PROVE  Store!SavesFollow'
  <2>1. \A u \in Store!Threads : s5'[u] = IF u = t
          THEN [writes |-> writes, save |-> TRUE, after |-> after] ELSE s5[u]
    BY <1>1, <1>2 DEF Store!Does
  <2>2. s5[t] = Store!Nothing /\ s4 # t
    <3>1. s5[t] = Store!Nothing
      BY <1>2 DEF Store!Does, Store!Idle
    <3>2. Store!Nothing.save = FALSE
      BY DEF Store!Nothing
    <3>3. s4 = t => s5[t].save = TRUE
      BY DEF Store!SavesFollow
    <3> QED
      BY <3>1, <3>2, <3>3
  <2>3. s5'[t].save = TRUE /\ s5'[t] # Store!Nothing
    BY <2>1 DEF Store!Nothing
  <2> QED
    BY <1>2, <2>1, <2>2, <2>3 DEF Store!SavesFollow, Store!FileCurrent, Store!Idle
<1>3. CASE \/ Store!CarrierChanged \/ Store!ApplySni \/ Store!SaveDialog \/ Store!GeneResult
           \/ Store!KeepWorking
  BY <1>2, <1>3 DEF Store!CarrierChanged, Store!ApplySni, Store!SaveDialog, Store!GeneResult,
    Store!KeepWorking, Store!file, Store!Threads
<1>4. CASE Store!OpenDialog \/ Store!ConnectBegins
  BY <1>4 DEF Store!OpenDialog, Store!ConnectBegins, Store!file, Store!SavesFollow,
    Store!FileCurrent, Store!Idle
<1>5. CASE Store!Restart
  <2>1. s1' = s2 /\ s2' = s2
    BY <1>1, <1>5, StoreReadBack DEF Store!Restart
  <2>2. s5' = [t \in Store!Threads |-> Store!Nothing] /\ s4' = ""
    BY <1>5 DEF Store!Restart
  <2> QED
    BY <2>1, <2>2 DEF Store!SavesFollow, Store!FileCurrent, Store!Idle, Store!Threads
<1>6. ASSUME NEW t \in Store!Threads, Store!Assign(t)
      PROVE  Store!SavesFollow'
  <2>1. s5[t].writes # <<>> /\ s4 # t /\ s5' = [s5 EXCEPT ![t].writes = Tail(@)]
        /\ UNCHANGED <<s2, s3, s4, s10>>
    BY <1>6 DEF Store!Assign, Store!file
  <2>2. s5[t].save = TRUE
    <3>1. Store!Nothing.writes = <<>>
      BY DEF Store!Nothing
    <3>2. s5[t].save = TRUE \/ s5[t] = Store!Nothing
      BY DEF Store!SavesFollow, Store!Idle
    <3> QED
      BY <2>1, <3>1, <3>2
  <2>3. s5[t] = [writes |-> s5[t].writes, save |-> TRUE, after |-> s5[t].after]
    BY <2>2 DEF Store!OwnWrites
  <2>4. s5'[t].save = TRUE /\ \A u \in Store!Threads \ {t} : s5'[u] = s5[u]
    BY <1>1, <2>1, <2>3
  <2>5. s5'[t] # Store!Nothing
    BY <2>4 DEF Store!Nothing
  <2>6. Store!FileCurrent'
    BY <2>5 DEF Store!FileCurrent, Store!Idle
  <2>7. ASSUME NEW u \in Store!Threads
        PROVE  s5'[u].save = TRUE \/ Store!Idle(u)'
    BY <2>4, <2>7 DEF Store!SavesFollow, Store!Idle
  <2>8. ASSUME NEW u \in Store!Threads, s4 = u
        PROVE  /\ s5'[u].save = TRUE /\ s5'[u].writes = <<>>
               /\ \E v \in Store!Threads \ {u} : s5'[v].save = TRUE
    <3>1. u # t
      BY <2>1, <2>8
    <3>2. s5'[u] = s5[u]
      BY <2>4, <3>1
    <3>3. s5[u].save = TRUE /\ s5[u].writes = <<>>
      BY <2>8 DEF Store!SavesFollow
    <3> QED
      BY <2>4, <3>1, <3>2, <3>3
  <2>9. s4' = s4 /\ s4' \in Store!Threads \union {""}
    BY <2>1, Zenon DEF Store!SavesFollow
  <2> QED
    BY <2>6, <2>7, <2>8, <2>9, Zenon DEF Store!SavesFollow
<1>7. ASSUME NEW t \in Store!Threads, Store!SaveBegins(t)
      PROVE  Store!SavesFollow'
  <2>1. s3'.buckets = s1.buckets /\ s3'.active = s1.active
    BY <1>1, <1>7 DEF Store!SaveBegins, Store!OwnMemories
  <2> QED
    BY <1>7, <2>1 DEF Store!SaveBegins, Store!SavesFollow, Store!FileCurrent, Store!Idle
<1>8. ASSUME NEW t \in Store!Threads, Store!SaveEnds(t)
      PROVE  Store!SavesFollow'
  <2>1. s4 = t /\ s4' = "" /\ s1' = s1 /\ s2' = Store!Serialised
        /\ s5' = [s5 EXCEPT ![t] = Store!After(t)]
    BY <1>8 DEF Store!SaveEnds
  <2>2. \A u \in Store!Threads : s5'[u] = IF u = t THEN Store!After(t) ELSE s5[u]
    BY <1>1, <2>1
  <2>3. Store!After(t).save = TRUE \/ Store!After(t) = Store!Nothing
    BY DEF Store!After
  <2>4. CASE s3.buckets = s1.buckets /\ s3.active = s1.active
    <3>1. Store!Serialised = s1
      BY <1>1, <2>4 DEF Store!Serialised, Store!OwnMemories
    <3> QED
      BY <2>1, <2>2, <2>3, <3>1 DEF Store!SavesFollow, Store!FileCurrent, Store!Idle, Store!Threads
  <2>5. CASE \E u \in Store!Threads \ {t} : s5[u].save = TRUE
    <3>1. PICK u \in Store!Threads : u # t /\ s5'[u].save = TRUE
      BY <2>2, <2>5
    <3>2. s5'[u] # Store!Nothing
      BY <3>1 DEF Store!Nothing
    <3> QED
      BY <2>1, <2>2, <2>3, <3>2 DEF Store!SavesFollow, Store!FileCurrent, Store!Idle, Store!Threads
  <2> QED
    BY <2>1, <2>4, <2>5 DEF Store!SavesFollow
<1>9. ASSUME NEW t \in Store!Threads, Store!SaveRaises(t)
      PROVE  Store!SavesFollow'
  <2>1. s4' = "" /\ s10' = TRUE /\ s5' = [s5 EXCEPT ![t] = Store!Nothing]
    BY <1>9 DEF Store!SaveRaises
  <2>2. \A u \in Store!Threads : s5'[u] = IF u = t THEN Store!Nothing ELSE s5[u]
    BY <1>1, <2>1
  <2> QED
    BY <2>1, <2>2 DEF Store!SavesFollow, Store!FileCurrent, Store!Idle, Store!Threads
<1> QED
  BY <1>3, <1>4, <1>5, <1>6, <1>7, <1>8, <1>9 DEF Store!Next

(***************************************************************************)
(* What the home page says of a connection                                 *)
(***************************************************************************)
\* A step of a behaviour of the home page is one of its actions.
LEMMA FactsPart ==
  ASSUME [Next]_vars, part = "facts"
  PROVE  Facts!Next \/ UNCHANGED Facts!vars
BY DEF Next, vars, Facts!vars

\* What is pending is a question.
LEMMA FactsPending == Facts!Numbered => Facts!Pending \subseteq Facts!Questions
<1> SUFFICES ASSUME Facts!Numbered PROVE Facts!Pending \subseteq Facts!Questions
  OBVIOUS
<1>1. s7 \subseteq Facts!Questions /\ s9 \in Seq(Facts!Questions)
  BY DEF Facts!Numbered
<1>2. \A i \in 1..Len(s9) : s9[i] \in Facts!Questions
  BY <1>1
<1> QED
  BY <1>1, <1>2 DEF Facts!Pending

\* The questions an answer may still come to, after a step that adds none.
LEMMA FactsSame ==
  ASSUME s7' = s7, s9' = s9
  PROVE  Facts!Pending' = Facts!Pending
BY DEF Facts!Pending

\* The answer of a question takes its place, with its number and its kind.
LEMMA FactsAnswered ==
  ASSUME Facts!Numbered, Facts!Answered
  PROVE  /\ \E q \in s7, found \in Facts!Runs :
              LET a == [q EXCEPT !.run = found]
              IN  /\ s7' = s7 \ {q} /\ s9' = Append(s9, a) /\ a \in Facts!Questions
                  /\ a.gen = q.gen /\ a.of = q.of /\ (q.of = "xray" => a.run = q.run)
                  /\ s8' \in Facts!Runs
         /\ \A a \in Facts!Pending' : \E q \in Facts!Pending :
              a.gen = q.gen /\ a.of = q.of /\ (q.of = "xray" => a.run = q.run)
         /\ \A q \in Facts!Pending : \E a \in Facts!Pending' :
              a.gen = q.gen /\ a.of = q.of /\ (q.of = "xray" => a.run = q.run)
<1>1. PICK q \in s7 :
        LET found == IF q.of = "direct" /\ q.run = Facts!None THEN Facts!Through ELSE q.run IN
          /\ s7' = s7 \ {q} /\ s9' = Append(s9, [q EXCEPT !.run = found])
          /\ s8' = IF q.of = "direct" THEN found ELSE s8
  BY DEF Facts!Answered
<1> DEFINE found == IF q.of = "direct" /\ q.run = Facts!None THEN Facts!Through ELSE q.run
           a == [q EXCEPT !.run = found]
<1>2. q \in Facts!Questions /\ s9 \in Seq(Facts!Questions) /\ s8 \in Facts!Runs
      /\ Facts!Through \in Facts!Runs
  BY FactsAssumption DEF Facts!Numbered, Facts!Through, Facts!Runs
<1>3. found \in Facts!Runs /\ (q.of = "xray" => found = q.run)
  BY <1>2 DEF Facts!Questions
<1>4. s7' = s7 \ {q} /\ s9' = Append(s9, a) /\ s8' \in Facts!Runs
  BY <1>1, <1>2, <1>3
<1> HIDE DEF found
<1>5. a \in Facts!Questions /\ a.gen = q.gen /\ a.of = q.of /\ a.run = found
  BY <1>2, <1>3 DEF Facts!Questions
<1> HIDE DEF a
<1>6. Len(s9') = Len(s9) + 1 /\ Len(s9) \in Nat /\ s9'[Len(s9) + 1] = a
      /\ \A i \in 1..Len(s9) : s9'[i] = s9[i]
  BY <1>2, <1>4, <1>5
<1>7. \A b \in Facts!Pending' : b \in Facts!Pending \/ b = a
  BY <1>4, <1>6 DEF Facts!Pending
<1>8. a \in Facts!Pending' /\ \A b \in Facts!Pending : b \in Facts!Pending' \/ b = q
  <2>1. Len(s9) + 1 \in 1..Len(s9')
    BY <1>6
  <2>2. a \in Facts!Pending'
    BY <1>6, <2>1 DEF Facts!Pending
  <2>3. \A i \in 1..Len(s9) : i \in 1..Len(s9') /\ s9'[i] = s9[i]
    BY <1>6
  <2> QED
    BY <1>4, <2>2, <2>3 DEF Facts!Pending
<1>9. q \in Facts!Pending
  BY DEF Facts!Pending
<1>10. \E x \in s7, f \in Facts!Runs :
         LET b == [x EXCEPT !.run = f]
         IN  /\ s7' = s7 \ {x} /\ s9' = Append(s9, b) /\ b \in Facts!Questions
             /\ b.gen = x.gen /\ b.of = x.of /\ (x.of = "xray" => b.run = x.run)
             /\ s8' \in Facts!Runs
  BY <1>3, <1>4, <1>5 DEF a
<1> QED
  BY <1>3, <1>5, <1>7, <1>8, <1>9, <1>10

\* The answer the page takes is one it waited for, and it waits for no other.
LEMMA FactsChecked ==
  ASSUME Facts!Numbered, Facts!IpChecked
  PROVE  /\ s9 # <<>> /\ s9' = Tail(s9) /\ s9' \in Seq(Facts!Questions)
         /\ Head(s9) \in Facts!Pending /\ Facts!Pending' \subseteq Facts!Pending
         /\ \A q \in Facts!Pending : q \in Facts!Pending' \/ q = Head(s9)
<1>1. s9 \in Seq(Facts!Questions) /\ s9 # <<>> /\ s9' = Tail(s9) /\ s7' = s7
  BY DEF Facts!Numbered, Facts!IpChecked
<1>2. s9' \in Seq(Facts!Questions) /\ Len(s9') = Len(s9) - 1 /\ Len(s9) \in Nat \ {0}
      /\ Head(s9) = s9[1] /\ \A i \in 1..Len(s9') : s9'[i] = s9[i + 1]
  BY <1>1
<1>3. Head(s9) \in Facts!Pending
  BY <1>2 DEF Facts!Pending
<1>4. Facts!Pending' \subseteq Facts!Pending
  <2>1. \A i \in 1..Len(s9') : i + 1 \in 1..Len(s9)
    BY <1>2
  <2> QED
    BY <1>1, <1>2, <2>1 DEF Facts!Pending
<1>5. ASSUME NEW i \in 1..Len(s9), i # 1
      PROVE  s9[i] \in Facts!Pending'
  <2>1. i - 1 \in 1..Len(s9') /\ s9[i] = s9'[i - 1]
    BY <1>2, <1>5
  <2> QED
    BY <2>1 DEF Facts!Pending
<1>6. \A q \in Facts!Pending : q \in Facts!Pending' \/ q = Head(s9)
  BY <1>1, <1>2, <1>5 DEF Facts!Pending
<1> QED
  BY <1>1, <1>2, <1>3, <1>4, <1>6

\* No question and no answer has a number the page has not given.
LEMMA FactsNumbered ==
  ASSUME Facts!Numbered, Facts!Next
  PROVE  Facts!Numbered'
<1>0. /\ s6 \in Nat /\ s3.run \in 0..FactsMaxRun /\ s4 \in 0..FactsMaxRun
      /\ 0 \in 0..FactsMaxRun /\ FactsMaxRun + 1 \in Facts!Runs /\ 0 \in Facts!Runs
      /\ s3.run \in Facts!Runs
  BY FactsAssumption DEF Facts!Numbered, Facts!Runs
<1>1. CASE \/ Facts!Connect \/ Facts!ConnectFails \/ Facts!Disconnect \/ Facts!SwitchEngine
           \/ Facts!PowDisconnects \/ Facts!ExitTraced \/ Facts!PowTakesCard
           \/ Facts!PowLeavesCard \/ Facts!Measured
  <2>1. s7' = s7 /\ s9' = s9 /\ s6' = s6 /\ s8' = s8 /\ s4' = s4
        /\ s5' \in BOOLEAN /\ s11' \in BOOLEAN
        /\ (s3' = s3 \/ s3' = Facts!NoLink) /\ s1' \in {"xray", "pow"}
        /\ (s1' = "pow" => s2' = "off")
    BY <1>1 DEF Facts!Connect, Facts!ConnectFails, Facts!Disconnect, Facts!SwitchEngine,
      Facts!PowDisconnects, Facts!ExitTraced, Facts!PowTakesCard, Facts!PowLeavesCard,
      Facts!Measured, Facts!ipLine, Facts!Numbered
  <2>2. s3' \in [run : 0..FactsMaxRun, exit : {"direct", "pow"} \union FactsExits]
    BY <1>0, <2>1 DEF Facts!NoLink, Facts!Numbered
  <2> QED
    BY <2>1, <2>2, FactsSame DEF Facts!Numbered
<1>2. CASE Facts!Connected \/ Facts!PowConnected \/ Facts!ExitMoves
  <2>1. s7' = s7 /\ s9' = s9 /\ s6' = s6 /\ s8' = s8
        /\ s5' \in BOOLEAN /\ s11' \in BOOLEAN /\ s1' \in {"xray", "pow"}
        /\ (s1' = "pow" => s2' = "off")
    BY <1>2 DEF Facts!Connected, Facts!PowConnected, Facts!ExitMoves, Facts!ipLine, Facts!Numbered
  <2>2. s4' \in 0..FactsMaxRun
        /\ s3' \in [run : 0..FactsMaxRun, exit : {"direct", "pow"} \union FactsExits]
    <3>1. s4 < FactsMaxRun => s4 + 1 \in 0..FactsMaxRun
      BY <1>0, FactsAssumption
    <3>2. CASE Facts!Connected
      BY <3>1, <3>2 DEF Facts!Connected
    <3>3. CASE Facts!PowConnected
      BY <3>1, <3>3 DEF Facts!PowConnected
    <3>4. CASE Facts!ExitMoves
      BY <3>4 DEF Facts!ExitMoves, Facts!Numbered
    <3> QED
      BY <1>2, <3>2, <3>3, <3>4
  <2> QED
    BY <2>1, <2>2, FactsSame DEF Facts!Numbered
<1>3. CASE Facts!Refresh
  <2>1. /\ s9' = s9 /\ s8' = s8 /\ s11' = s11 /\ s5' \in BOOLEAN
        /\ UNCHANGED <<s1, s2, s3, s4>>
    BY <1>3 DEF Facts!Refresh
  <2>2. CASE s7' = s7 /\ s6' = s6
    BY <2>1, <2>2, FactsSame DEF Facts!Numbered
  <2>3. CASE s7' # s7 \/ s6' # s6
    <3>1. PICK of, run : s6' = s6 + 1
            /\ s7' = s7 \union {[gen |-> s6 + 1, of |-> of, run |-> run]}
            /\ of \in {"direct", "xray"} /\ run \in Facts!Runs
      <4> DEFINE run == IF Facts!IpMode = "xray" THEN s3.run
                        ELSE IF s8 # Facts!None THEN s8 ELSE Facts!None
      <4>1. s6' = s6 + 1
            /\ s7' = s7 \union {[gen |-> s6 + 1, of |-> Facts!IpMode, run |-> run]}
            /\ Facts!IpMode # "pow"
        BY <1>3, <2>3 DEF Facts!Refresh
      <4>2. run \in Facts!Runs
        BY <1>0 DEF Facts!Numbered, Facts!None
      <4>3. Facts!IpMode \in {"direct", "xray"}
        BY <4>1 DEF Facts!IpMode
      <4> HIDE DEF run
      <4> QED
        BY <4>1, <4>2, <4>3
    <3>2. s6' \in Nat /\ s7' \subseteq Facts!Questions /\ s6' > s6
      BY <1>0, <3>1 DEF Facts!Numbered, Facts!Questions
    <3>3. \A q \in Facts!Pending' : q \in Facts!Pending \/ q.gen = s6 + 1
      BY <2>1, <3>1 DEF Facts!Pending
    <3>4. \A q \in Facts!Pending : q.gen \in Nat /\ q.gen <= s6
      BY FactsPending DEF Facts!Numbered, Facts!Questions
    <3>5. \A q \in Facts!Pending' : q.gen <= s6'
      BY <1>0, <3>1, <3>3, <3>4
    <3> QED
      BY <2>1, <3>2, <3>5 DEF Facts!Numbered
  <2> QED
    BY <2>2, <2>3
<1>4. CASE Facts!Answered
  <2>1. UNCHANGED <<s1, s2, s3, s4, s5, s6, s11>>
    BY <1>4 DEF Facts!Answered
  <2>2. s7' \subseteq Facts!Questions /\ s9' \in Seq(Facts!Questions) /\ s8' \in Facts!Runs
    <3>1. PICK q \in s7, a \in Facts!Questions :
            s7' = s7 \ {q} /\ s9' = Append(s9, a) /\ s8' \in Facts!Runs
      BY <1>4, FactsAnswered
    <3> QED
      BY <3>1 DEF Facts!Numbered
  <2>3. \A q \in Facts!Pending' : q.gen <= s6
    BY <1>4, FactsAnswered DEF Facts!Numbered
  <2> QED
    BY <2>1, <2>2, <2>3 DEF Facts!Numbered
<1>5. CASE Facts!NotAnswered
  <2>1. s7' \subseteq s7 /\ s9' = s9 /\ s5' \in BOOLEAN /\ UNCHANGED <<s1, s2, s3, s4, s6, s8, s11>>
    BY <1>5 DEF Facts!NotAnswered, Facts!Numbered
  <2>2. Facts!Pending' \subseteq Facts!Pending
    BY <2>1 DEF Facts!Pending
  <2> QED
    BY <2>1, <2>2 DEF Facts!Numbered
<1>6. CASE Facts!IpChecked
  <2>1. UNCHANGED <<s1, s2, s3, s4, s5, s6, s7, s8, s11>>
    BY <1>6 DEF Facts!IpChecked
  <2> QED
    BY <1>6, <2>1, FactsChecked DEF Facts!Numbered
<1> QED
  BY <1>1, <1>2, <1>3, <1>4, <1>5, <1>6 DEF Facts!Next

\* The exit that was traced is that of the connection there is.
LEMMA FactsTrace ==
  ASSUME Facts!Numbered, Facts!TraceIsOfLink, Facts!Next
  PROVE  Facts!TraceIsOfLink'
<1> USE DEF Facts!TraceIsOfLink, Facts!ipLine
<1>1. CASE Facts!Connect \/ Facts!Connected \/ Facts!ConnectFails \/ Facts!Disconnect
  BY <1>1 DEF Facts!Connect, Facts!Connected, Facts!ConnectFails, Facts!Disconnect, Facts!Numbered
<1>2. CASE Facts!SwitchEngine \/ Facts!PowConnected \/ Facts!PowDisconnects
  BY <1>2 DEF Facts!SwitchEngine, Facts!PowConnected, Facts!PowDisconnects, Facts!Numbered
<1>3. CASE Facts!Refresh \/ Facts!Answered \/ Facts!NotAnswered \/ Facts!IpChecked
           \/ Facts!PowTakesCard \/ Facts!PowLeavesCard \/ Facts!Measured
  BY <1>3 DEF Facts!Refresh, Facts!Answered, Facts!NotAnswered, Facts!IpChecked,
    Facts!PowTakesCard, Facts!PowLeavesCard, Facts!Measured
<1>4. CASE Facts!ExitTraced
  BY <1>4 DEF Facts!ExitTraced, Facts!IpMode
<1>5. CASE Facts!ExitMoves
  BY <1>5 DEF Facts!ExitMoves, Facts!Numbered
<1> QED
  BY <1>1, <1>2, <1>3, <1>4, <1>5 DEF Facts!Next

\* An answer that comes late has an older number, unless the timer is to fire again.
LEMMA FactsLast ==
  ASSUME Facts!Numbered, Facts!LastAnswerRight, Facts!Next
  PROVE  Facts!LastAnswerRight'
<1> USE DEF Facts!LastAnswerRight
<1>1. CASE \/ Facts!Connect \/ Facts!Connected \/ Facts!ConnectFails \/ Facts!Disconnect
           \/ Facts!SwitchEngine \/ Facts!PowConnected \/ Facts!PowDisconnects
           \/ Facts!PowTakesCard \/ Facts!PowLeavesCard
  <2>1. ~Facts!Settled'
    BY <1>1 DEF Facts!Connect, Facts!Connected, Facts!ConnectFails, Facts!Disconnect,
      Facts!SwitchEngine, Facts!PowConnected, Facts!PowDisconnects, Facts!PowTakesCard,
      Facts!PowLeavesCard, Facts!Settled, Facts!IpMode, Facts!Numbered, Facts!ipLine
  <2> QED
    BY <2>1
<1>2. CASE Facts!ExitTraced \/ Facts!Measured \/ Facts!ExitMoves
  <2>1. s7' = s7 /\ s9' = s9 /\ s6' = s6 /\ s10' = s10 /\ s5' = s5 /\ s11' = s11
        /\ s2' = s2 /\ s1' = s1 /\ s3'.run = s3.run
    BY <1>2 DEF Facts!ExitTraced, Facts!Measured, Facts!ExitMoves, Facts!ipLine, Facts!Numbered
  <2>2. Facts!Settled' = Facts!Settled /\ Facts!IpMode' = Facts!IpMode
    BY <2>1 DEF Facts!Settled, Facts!IpMode
  <2>3. Facts!Pending' = Facts!Pending
    BY <2>1, FactsSame
  <2>4. \A q : Facts!Right(q)' <=> Facts!Right(q)
    BY <2>1, <2>2 DEF Facts!Right
  <2>5. Facts!Right(s10)' <=> Facts!Right(s10)
    BY <2>1, <2>2 DEF Facts!Right
  <2> QED
    BY <2>1, <2>2, <2>3, <2>4, <2>5
<1>3. CASE Facts!Refresh
  <2>1. UNCHANGED <<s1, s2, s3, s9, s10, s11>>
    BY <1>3 DEF Facts!Refresh
  <2>2. CASE Facts!IpMode = "pow" \/ s2 = "connecting"
    BY <2>1, <2>2 DEF Facts!Settled, Facts!IpMode
  <2>3. CASE Facts!IpMode # "pow" /\ s2 # "connecting"
    <3>1. PICK q : s6' = s6 + 1 /\ s7' = s7 \union {q}
            /\ q = [gen |-> s6 + 1, of |-> Facts!IpMode,
                    run |-> IF Facts!IpMode = "xray" THEN s3.run
                            ELSE IF s8 # Facts!None THEN s8 ELSE Facts!None]
      BY <1>3, <2>3 DEF Facts!Refresh
    <3>2. q.gen = s6 + 1 /\ q.of = Facts!IpMode /\ (q.of = "xray" => q.run = s3.run)
      BY <3>1
    <3>3. q \in Facts!Pending' /\ \A x \in Facts!Pending' : x \in Facts!Pending \/ x = q
      BY <2>1, <3>1 DEF Facts!Pending
    <3>4. \A x \in Facts!Pending : x.gen # s6 + 1
      BY FactsPending DEF Facts!Numbered, Facts!Questions
    <3>5. Facts!IpMode' = Facts!IpMode
      BY <2>1 DEF Facts!IpMode
    <3>6. Facts!Right(q)'
      BY <2>1, <3>2, <3>5 DEF Facts!Right
    <3> QED
      BY <3>1, <3>2, <3>3, <3>4, <3>6
  <2> QED
    BY <2>2, <2>3
<1>4. CASE Facts!Answered
  <2>1. UNCHANGED <<s1, s2, s3, s5, s6, s10, s11>>
    BY <1>4 DEF Facts!Answered
  <2>2. Facts!Settled' = Facts!Settled /\ Facts!IpMode' = Facts!IpMode
    BY <2>1 DEF Facts!Settled, Facts!IpMode
  <2>3. /\ \A a \in Facts!Pending' : \E q \in Facts!Pending :
              a.gen = q.gen /\ a.of = q.of /\ (q.of = "xray" => a.run = q.run)
        /\ \A q \in Facts!Pending : \E a \in Facts!Pending' :
              a.gen = q.gen /\ a.of = q.of /\ (q.of = "xray" => a.run = q.run)
    BY <1>4, FactsAnswered
  <2>4. Facts!Right(s10)' <=> Facts!Right(s10)
    BY <2>1, <2>2 DEF Facts!Right
  <2>5. ASSUME Facts!Settled, NEW a \in Facts!Pending', a.gen = s6', a.of = Facts!IpMode'
        PROVE  Facts!Right(a)'
    BY <2>1, <2>2, <2>3, <2>5 DEF Facts!Right
  <2>6. ASSUME NEW q \in Facts!Pending, q.gen = s6, Facts!Right(q)
        PROVE  \E a \in Facts!Pending' : a.gen = s6' /\ Facts!Right(a)'
    BY <2>1, <2>2, <2>3, <2>6 DEF Facts!Right
  <2> QED
    BY <2>2, <2>4, <2>5, <2>6
<1>5. CASE Facts!NotAnswered
  <2>1. PICK q \in s7 : s7' = s7 \ {q}
          /\ s5' = (s5 \/ (q.gen = s6 /\ q.of = Facts!IpMode /\ ~s11))
    BY <1>5 DEF Facts!NotAnswered
  <2>2. UNCHANGED <<s1, s2, s3, s6, s9, s10, s11>>
    BY <1>5 DEF Facts!NotAnswered
  <2>3. Facts!IpMode' = Facts!IpMode
    BY <2>2 DEF Facts!IpMode
  <2>4. Facts!Settled' => Facts!Settled /\ ~(q.gen = s6 /\ q.of = Facts!IpMode)
    BY <2>1, <2>2, <2>3 DEF Facts!Settled, Facts!Numbered
  <2>5. Facts!Pending' \subseteq Facts!Pending
        /\ \A x \in Facts!Pending : x \in Facts!Pending' \/ x = q
    BY <2>1, <2>2 DEF Facts!Pending
  <2>6. Facts!Right(s10)' <=> Facts!Right(s10)
    BY <2>2, <2>3 DEF Facts!Right
  <2>7. \A x : Facts!Right(x)' <=> Facts!Right(x)
    BY <2>2, <2>3 DEF Facts!Right
  <2>8. Facts!Right(q) => q.of = Facts!IpMode
    BY DEF Facts!Right
  <2> QED
    BY <2>2, <2>3, <2>4, <2>5, <2>6, <2>7, <2>8
<1>6. CASE Facts!IpChecked
  <2> DEFINE h == Head(s9)
  <2>1. UNCHANGED <<s1, s2, s3, s5, s6, s7, s11>>
        /\ s10' = IF Facts!Fresh(h) /\ ~s11 THEN [of |-> h.of, run |-> h.run] ELSE s10
    BY <1>6 DEF Facts!IpChecked
  <2>2. Facts!Settled' = Facts!Settled /\ Facts!IpMode' = Facts!IpMode
    BY <2>1 DEF Facts!Settled, Facts!IpMode
  <2>3. h \in Facts!Pending /\ Facts!Pending' \subseteq Facts!Pending
        /\ \A q \in Facts!Pending : q \in Facts!Pending' \/ q = h
    BY <1>6, FactsChecked
  <2>4. \A x : Facts!Right(x)' <=> Facts!Right(x)
    BY <2>1, <2>2 DEF Facts!Right
  <2> HIDE DEF h
  <2>5. CASE Facts!Fresh(h) /\ ~s11
    <3>1. s10'.of = h.of /\ s10'.run = h.run
      BY <2>1, <2>5
    <3>2. Facts!Settled => Facts!Right(h)
      BY <2>3, <2>5 DEF Facts!Fresh
    <3>3. Facts!Settled => Facts!Right(s10)'
      BY <2>1, <2>2, <3>1, <3>2 DEF Facts!Right
    <3> QED
      BY <2>1, <2>2, <2>3, <2>4, <3>3
  <2>6. CASE ~(Facts!Fresh(h) /\ ~s11)
    <3>1. s10' = s10
      BY <2>1, <2>6
    <3>2. Facts!Settled => ~(h.gen = s6 /\ Facts!Right(h))
      BY <2>6 DEF Facts!Settled, Facts!Fresh, Facts!Right
    <3>3. Facts!Right(s10)' <=> Facts!Right(s10)
      BY <2>1, <2>2, <3>1 DEF Facts!Right
    <3> QED
      BY <2>1, <2>2, <2>3, <2>4, <3>2, <3>3
  <2> QED
    BY <2>5, <2>6
<1> QED
  BY <1>1, <1>2, <1>3, <1>4, <1>5, <1>6 DEF Facts!Next

\* A latency that is not being asked for anew is of the exit there is.
LEMMA FactsPing ==
  ASSUME Facts!Numbered, Facts!PingOfLink, Facts!Next
  PROVE  Facts!PingOfLink'
<1> USE DEF Facts!PingOfLink
<1>1. ASSUME NEW l, Facts!Ask(l)
      PROVE  s13' = [busy |-> s13'.busy, again |-> s13'.again, ask |-> s13'.ask,
                     shown |-> s13'.shown] /\ s13'.busy = TRUE
  <2>1. PICK b, g, k, v : s13 = [busy |-> b, again |-> g, ask |-> k, shown |-> v]
    OBVIOUS
  <2>2. CASE s13.busy
    <3>1. s13' = [s13 EXCEPT !.again = TRUE]
      BY <1>1, <2>2 DEF Facts!Ask
    <3> QED
      BY <2>1, <2>2, <3>1
  <2>3. CASE ~s13.busy
    <3>1. s13' = [s13 EXCEPT !.busy = TRUE, !.again = FALSE, !.ask = l]
      BY <1>1, <2>3 DEF Facts!Ask
    <3> QED
      BY <2>1, <3>1
  <2> QED
    BY <2>2, <2>3
<1>2. CASE Facts!Connected \/ Facts!ConnectFails \/ Facts!Disconnect \/ Facts!ExitMoves
  BY <1>1, <1>2 DEF Facts!Connected, Facts!ConnectFails, Facts!Disconnect, Facts!ExitMoves
<1>3. CASE \/ Facts!Connect \/ Facts!SwitchEngine \/ Facts!PowConnected \/ Facts!PowDisconnects
  <2>1. s13' = s13 /\ (s1' = "xray" => s3'.run = 0)
    BY <1>3 DEF Facts!Connect, Facts!SwitchEngine, Facts!PowConnected, Facts!PowDisconnects,
      Facts!NoLink, Facts!Numbered
  <2> QED
    BY <2>1
<1>4. CASE \/ Facts!Refresh \/ Facts!Answered \/ Facts!NotAnswered \/ Facts!IpChecked
           \/ Facts!ExitTraced \/ Facts!PowTakesCard \/ Facts!PowLeavesCard
  <2>1. s13' = s13 /\ s1' = s1 /\ s3' = s3
    BY <1>4 DEF Facts!Refresh, Facts!Answered, Facts!NotAnswered, Facts!IpChecked,
      Facts!ExitTraced, Facts!PowTakesCard, Facts!PowLeavesCard
  <2> QED
    BY <2>1
<1>5. CASE Facts!Measured
  <2> DEFINE value == IF Facts!Stale THEN s13.shown ELSE s13.ask
  <2>1. s1' = s1 /\ s3' = s3
    BY <1>5 DEF Facts!Measured
  <2>2. CASE Facts!Stale \/ s13.again
    <3>1. s13' = [busy |-> TRUE, again |-> FALSE, shown |-> value,
                  ask |-> IF s1 = "pow" THEN Facts!NoLink ELSE s3]
      BY <1>5, <2>2 DEF Facts!Measured
    <3> HIDE DEF value
    <3> QED
      BY <3>1
  <2>3. CASE ~(Facts!Stale \/ s13.again)
    <3>1. PICK b, g, k, v : s13 = [busy |-> b, again |-> g, ask |-> k, shown |-> v]
      OBVIOUS
    <3>2. s13' = [s13 EXCEPT !.busy = FALSE, !.shown = s13.ask]
      BY <1>5, <2>3 DEF Facts!Measured
    <3>3. s13' = [busy |-> FALSE, again |-> g, ask |-> k, shown |-> k]
      BY <3>1, <3>2
    <3>4. s1 = "xray" => k = s3
      BY <2>3, <3>1 DEF Facts!Stale
    <3> QED
      BY <2>1, <3>3, <3>4
  <2> QED
    BY <2>2, <2>3
<1> QED
  BY <1>2, <1>3, <1>4, <1>5 DEF Facts!Next

\* The home page starts with nothing shown and its timer to fire.
LEMMA FactsInit == Facts!Init => Facts!FactsInv
<1> SUFFICES ASSUME Facts!Init PROVE Facts!FactsInv
  OBVIOUS
<1>0. /\ s1 \in {"xray", "pow"} /\ s2 = "off" /\ s3 = Facts!NoLink /\ s4 = 0 /\ s5 = TRUE
      /\ s6 = 0 /\ s8 = Facts!None /\ s11 = FALSE /\ s12 = Facts!None
  BY DEF Facts!Init
<1>a. s7 = {} /\ s9 = <<>>
  BY DEF Facts!Init
<1>b. s13 = [busy |-> FALSE, again |-> FALSE, ask |-> Facts!NoLink,
                shown |-> [exit |-> "", run |-> 0]]
  BY DEF Facts!Init
<1>1. Facts!Numbered
  <2>1. s9 \in Seq(Facts!Questions) /\ Len(s9) = 0
    BY <1>a
  <2>2. Facts!Pending = {}
    BY <1>a, <2>1 DEF Facts!Pending
  <2>3. 0 \in 0..FactsMaxRun /\ s8 \in Facts!Runs
    BY <1>0, FactsAssumption DEF Facts!Runs, Facts!None
  <2>4. s3 \in [run : 0..FactsMaxRun, exit : {"direct", "pow"} \union FactsExits]
    BY <1>0, <2>3 DEF Facts!NoLink
  <2> QED
    BY <1>0, <1>a, <2>1, <2>2, <2>3, <2>4 DEF Facts!Numbered
<1>2. Facts!TraceIsOfLink /\ Facts!LastAnswerRight
  BY <1>0 DEF Facts!TraceIsOfLink, Facts!LastAnswerRight, Facts!Settled
<1>3. Facts!PingOfLink
  <2>1. s3.run = 0
    BY <1>0 DEF Facts!NoLink
  <2> QED
    <3>1. PICK k, v : s13 = [busy |-> FALSE, again |-> FALSE, ask |-> k, shown |-> v]
      BY <1>b
    <3>2. s13.busy = FALSE /\ s13 = [busy |-> s13.busy, again |-> s13.again, ask |-> s13.ask,
                                     shown |-> s13.shown]
      BY <3>1
    <3>3. ~(s3.run > 0)
      BY <2>1
    <3> QED
      BY <3>2, <3>3 DEF Facts!PingOfLink
<1> QED
  BY <1>1, <1>2, <1>3 DEF Facts!FactsInv

\* When nothing is asked for any more, the card has the last answer.
LEMMA FactsShown == Facts!FactsInv => Facts!FactsCurrent
<1> SUFFICES ASSUME Facts!FactsInv, Facts!Quiet, s2 # "error"
             PROVE  /\ s10.of \in {"xray", "pow"} => s10.run = s3.run
                    /\ s10.of \in {"", Facts!IpMode}
                    /\ s1 = "xray" /\ s3.run > 0 => s13.shown = s3
  BY DEF Facts!FactsCurrent
<1>1. CASE Facts!IpMode = "pow"
  <2>1. s10 = Facts!ExitCard
    BY <1>1 DEF Facts!Quiet
  <2>2. s1 = "pow"
    BY <1>1 DEF Facts!IpMode
  <2>3. CASE s12 = Facts!None
    <3>1. s10.of = ""
      BY <2>1, <2>3 DEF Facts!ExitCard, Facts!Blank
    <3> QED
      BY <2>2, <3>1
  <2>4. CASE s12 # Facts!None
    <3>1. s10.of = "pow" /\ s10.run = s12
      BY <2>1, <2>4 DEF Facts!ExitCard
    <3>2. s12 = s3.run
      BY <2>4 DEF Facts!FactsInv, Facts!TraceIsOfLink
    <3> QED
      BY <1>1, <2>2, <3>1, <3>2
  <2> QED
    BY <2>3, <2>4
<1>2. CASE Facts!IpMode # "pow"
  <2>1. Facts!Settled
    BY <1>2 DEF Facts!Quiet, Facts!Settled
  <2>2. s7 = {} /\ s9 = <<>> /\ Len(s9) = 0
    BY DEF Facts!Quiet
  <2>3. Facts!Pending = {}
    BY <2>2 DEF Facts!Pending
  <2>4. Facts!Right(s10)
    BY <2>1, <2>3 DEF Facts!FactsInv, Facts!LastAnswerRight
  <2> QED
    BY <1>2, <2>4 DEF Facts!FactsInv, Facts!Right, Facts!Quiet, Facts!PingOfLink
<1> QED
  BY <1>1, <1>2

\* Whatever late answers come, the page shows the address and the latency of the connection
\* there is once nothing is asked for any more.
THEOREM LateAnswersUnused == Spec => []FactsCurrent
<1> DEFINE Inv == part = "facts" => Facts!FactsInv
<1>1. Init => Inv
  BY FactsInit DEF Init
<1>2. Inv /\ [Next]_vars => Inv'
  <2> SUFFICES ASSUME Inv, [Next]_vars, part = "facts" PROVE Facts!FactsInv'
    BY PartStays
  <2>1. CASE Facts!Next
    BY <2>1, FactsNumbered, FactsTrace, FactsLast, FactsPing DEF Facts!FactsInv
  <2>2. CASE UNCHANGED Facts!vars
    BY <2>2 DEF Facts!vars, Facts!FactsInv, Facts!Numbered, Facts!TraceIsOfLink,
      Facts!LastAnswerRight, Facts!PingOfLink, Facts!Settled, Facts!Pending, Facts!Right,
      Facts!IpMode
  <2> QED
    BY <2>1, <2>2, FactsPart
<1>3. Inv => FactsCurrent
  BY FactsShown DEF FactsCurrent
<1> QED
  BY <1>1, <1>2, <1>3, PTL DEF Spec

(***************************************************************************)
(* The wizard                                                              *)
(***************************************************************************)
\* What an element that is added or taken does to the indices of a sequence.
LEMMA Indices ==
  ASSUME NEW S, NEW q \in Seq(S)
  PROVE  /\ \A x \in S : /\ Append(q, x) \in Seq(S) /\ DOMAIN Append(q, x) = 1..(Len(q) + 1)
                         /\ \A i \in DOMAIN q : i \in DOMAIN Append(q, x) /\ Append(q, x)[i] = q[i]
                         /\ Append(q, x)[Len(q) + 1] = x
         /\ DOMAIN q = 1..Len(q) /\ Len(q) \in Nat
         /\ \A i \in DOMAIN q : q[i] \in S
         /\ q # <<>> => /\ Tail(q) \in Seq(S) /\ DOMAIN Tail(q) = 1..(Len(q) - 1)
                        /\ \A i \in DOMAIN Tail(q) : i + 1 \in DOMAIN q /\ Tail(q)[i] = q[i + 1]
                        /\ \A i \in DOMAIN q : i = 1 \/ (i - 1 \in DOMAIN Tail(q) /\ Tail(q)[i - 1] = q[i])
                        /\ Head(q) = q[1] /\ 1 \in DOMAIN q
OBVIOUS

\* A wizard that is closed has nothing under way.
LEMMA GuideInit == Guide!Init => Guide!FlowInv
<1> SUFFICES ASSUME Guide!Init PROVE Guide!FlowInv
  OBVIOUS
<1>1. s8 \in [of : Guide!Lists, healthy : BOOLEAN] /\ s7 \in Guide!Lists
  BY DEF Guide!Init, Guide!Lists
<1>2. s9 \in [on : BOOLEAN, of : Guide!Lists, cancel : BOOLEAN]
  BY DEF Guide!Init, Guide!Lists
<1>3. s12 \in Seq(Guide!Signals) /\ s6 \in Nat /\ s11 \in Nat /\ s10 = {}
  <2>1. s12 = <<>> /\ s6 = 0 /\ s11 = 0 /\ s10 = {}
    BY DEF Guide!Init
  <2>2. <<>> \in Seq(Guide!Signals)
    OBVIOUS
  <2> QED
    BY <2>1, <2>2
<1>4. Guide!FlowUnderWay
  BY DEF Guide!Init, Guide!FlowUnderWay
<1> QED
  BY <1>1, <1>2, <1>3, <1>4 DEF Guide!FlowInv, Guide!Sources

\* A signal that is added is of the types, and is another's or the awaited one.
LEMMA GuideEmits ==
  ASSUME s12 \in Seq(Guide!Signals), NEW m \in Guide!Signals, s12' = Append(s12, m)
  PROVE  /\ s12' \in Seq(Guide!Signals)
         /\ \A k : Guide!Sent(k) => Guide!Sent(k)'
         /\ Guide!Sent(m.kind)'
<1>1. /\ s12' \in Seq(Guide!Signals) /\ DOMAIN s12' = 1..(Len(s12) + 1) /\ s12'[Len(s12) + 1] = m
      /\ \A i \in DOMAIN s12 : i \in DOMAIN s12' /\ s12'[i] = s12[i]
      /\ Len(s12) \in Nat
  BY Indices
<1>2. Guide!Sent(m.kind)'
  BY <1>1 DEF Guide!Sent
<1> QED
  BY <1>1, <1>2 DEF Guide!Sent

\* A signal that is taken leaves those of other kinds.
LEMMA GuideTakes ==
  ASSUME s12 \in Seq(Guide!Signals), NEW k, Guide!Takes(k)
  PROVE  /\ s12' \in Seq(Guide!Signals) /\ Head(s12) \in Guide!Signals
         /\ \A l : l # k /\ Guide!Sent(l) => Guide!Sent(l)'
<1>1. /\ s12 # <<>> /\ s12' = Tail(s12) /\ Head(s12).kind = k
  BY DEF Guide!Takes
<1>2. /\ s12' \in Seq(Guide!Signals) /\ Head(s12) = s12[1] /\ s12[1] \in Guide!Signals
      /\ \A i \in DOMAIN s12 : i = 1 \/ (i - 1 \in DOMAIN s12' /\ s12'[i - 1] = s12[i])
  BY <1>1, Indices
<1>3. ASSUME NEW l, l # k, Guide!Sent(l) PROVE Guide!Sent(l)'
  <2>1. PICK i \in DOMAIN s12 : s12[i].kind = l
    BY <1>3 DEF Guide!Sent
  <2>2. i # 1
    BY <1>1, <1>2, <1>3, <2>1
  <2> QED
    BY <1>2, <2>1, <2>2 DEF Guide!Sent
<1> QED
  BY <1>2, <1>3

\* Fetching begins an import that is current, and stops a test.
LEMMA GuideFetches ==
  ASSUME Guide!Sources, Guide!Fetches
  PROVE  /\ s4' = "fetch" /\ s11' \in Nat /\ s10' # {} /\ s10' \subseteq [gen : Nat, of : Guide!Lists]
         /\ s9' \in [on : BOOLEAN, of : Guide!Lists, cancel : BOOLEAN] /\ s9'.on = s9.on
<1>1. /\ s4' = "fetch" /\ s11' = s11 + 1 /\ s10' = s10 \union {[gen |-> s11 + 1, of |-> "list"]}
      /\ s9' = IF s9.on THEN [s9 EXCEPT !.cancel = TRUE] ELSE s9
  BY DEF Guide!Fetches, Guide!ImportStarts
<1>2. s9' \in [on : BOOLEAN, of : Guide!Lists, cancel : BOOLEAN] /\ s9'.on = s9.on
  BY <1>1 DEF Guide!Sources
<1>3. [gen |-> s11 + 1, of |-> "list"] \in [gen : Nat, of : Guide!Lists]
  BY DEF Guide!Sources, Guide!Lists
<1> QED
  BY <1>1, <1>2, <1>3 DEF Guide!Sources

\* Every step leaves a flow with something under way.
LEMMA GuideStep ==
  ASSUME Guide!FlowInv, Guide!Next
  PROVE  Guide!FlowInv'
<1> USE DEF Guide!FlowInv, Guide!making
<1>1. CASE Guide!Detected \/ Guide!Open \/ Guide!StartCheck
  <2>1. UNCHANGED <<s4, s5, s6, s7, s8, s9, s10, s11, s12>> \/ (s2 # "run" /\ s4' = "" /\ UNCHANGED <<s5, s6, s7, s8, s9, s10, s11, s12>>)
    BY <1>1 DEF Guide!Detected, Guide!Open, Guide!StartCheck, Guide!Turns
  <2>2. s2 # "run" /\ s2' # "run"
    BY <1>1 DEF Guide!Detected, Guide!Open, Guide!StartCheck, Guide!Turns
  <2> QED
    BY <2>1, <2>2 DEF Guide!Sources, Guide!FlowUnderWay, Guide!Sent, Guide!Testing
<1>2. CASE Guide!Connects
  BY <1>2 DEF Guide!Connects, Guide!Sources, Guide!FlowUnderWay, Guide!Sent, Guide!Testing
<1>3. CASE Guide!Imported
  <2>1. /\ s11' = s11 + 1 /\ s10' = s10 \union {[gen |-> s11 + 1, of |-> "mine"]}
        /\ UNCHANGED <<s2, s4, s6, s7, s8, s9, s12>>
    BY <1>3 DEF Guide!Imported, Guide!ImportStarts
  <2>2. [gen |-> s11 + 1, of |-> "mine"] \in [gen : Nat, of : Guide!Lists]
    BY DEF Guide!Sources, Guide!Lists
  <2> QED
    BY <2>1, <2>2 DEF Guide!Sources, Guide!FlowUnderWay, Guide!Sent, Guide!Testing
<1>4. CASE Guide!UserTests
  <2>1. /\ s9' = [on |-> TRUE, of |-> s8.of, cancel |-> FALSE]
        /\ UNCHANGED <<s2, s4, s6, s7, s8, s10, s11, s12>>
    BY <1>4 DEF Guide!UserTests, Guide!Launches
  <2>2. s9' \in [on : BOOLEAN, of : Guide!Lists, cancel : BOOLEAN] /\ s9'.on
    BY <2>1 DEF Guide!Sources
  <2> QED
    BY <2>1, <2>2 DEF Guide!Sources, Guide!FlowUnderWay, Guide!Sent, Guide!Testing
<1>5. CASE Guide!StartFlow
  <2>1. CASE s1
    <3>1. s4' = "" /\ s2' = "done" /\ UNCHANGED <<s6, s7, s8, s9, s10, s11, s12>>
      BY <1>5, <2>1 DEF Guide!StartFlow, Guide!Finishes
    <3> QED
      BY <3>1 DEF Guide!Sources, Guide!FlowUnderWay
  <2>2. CASE ~s1 /\ s3 = "sni"
    <3>1. Guide!Fetches /\ s2' = "run" /\ UNCHANGED <<s6, s7, s8, s12>>
      BY <1>5, <2>2 DEF Guide!StartFlow
    <3>2. /\ s4' = "fetch" /\ s11' \in Nat /\ s10' # {} /\ s10' \subseteq [gen : Nat, of : Guide!Lists]
          /\ s9' \in [on : BOOLEAN, of : Guide!Lists, cancel : BOOLEAN]
      BY <3>1, GuideFetches
    <3>3. Guide!Sources'
      BY <3>1, <3>2 DEF Guide!Sources
    <3>4. Guide!FlowUnderWay'
      BY <3>1, <3>2 DEF Guide!FlowUnderWay
    <3> QED
      BY <3>3, <3>4
  <2>3. CASE ~s1 /\ s3 # "sni"
    <3>1. s4' = "scan" /\ s6' = s6 + 1 /\ s2' = "run" /\ UNCHANGED <<s7, s8, s9, s10, s11, s12>>
      BY <1>5, <2>3 DEF Guide!StartFlow
    <3>2. s6' \in Nat /\ s6' > 0
      BY <3>1 DEF Guide!Sources
    <3>3. Guide!Sources'
      BY <3>1, <3>2 DEF Guide!Sources
    <3>4. Guide!FlowUnderWay'
      BY <3>1, <3>2 DEF Guide!FlowUnderWay
    <3> QED
      BY <3>3, <3>4
  <2> QED
    BY <2>1, <2>2, <2>3
<1>6. CASE Guide!ScanDone
  <2>1. s6' = s6 - 1 /\ s6' \in Nat /\ UNCHANGED <<s2, s7, s8, s12>>
    BY <1>6 DEF Guide!ScanDone, Guide!Sources
  <2>2. CASE s4 = "scan"
    <3>1. Guide!Fetches
      BY <1>6, <2>2 DEF Guide!ScanDone
    <3>2. /\ s4' = "fetch" /\ s11' \in Nat /\ s10' # {} /\ s10' \subseteq [gen : Nat, of : Guide!Lists]
          /\ s9' \in [on : BOOLEAN, of : Guide!Lists, cancel : BOOLEAN]
      BY <3>1, GuideFetches
    <3>3. Guide!Sources'
      BY <2>1, <3>2 DEF Guide!Sources
    <3>4. Guide!FlowUnderWay'
      BY <2>1, <2>2, <3>2 DEF Guide!FlowUnderWay
    <3> QED
      BY <3>3, <3>4
  <2>3. CASE s4 # "scan"
    <3>1. UNCHANGED <<s4, s9, s10, s11>>
      BY <1>6, <2>3 DEF Guide!ScanDone
    <3> QED
      <4>1. Guide!Sources'
        BY <2>1, <3>1 DEF Guide!Sources
      <4>2. Guide!FlowUnderWay'
        BY <2>1, <2>3, <3>1 DEF Guide!FlowUnderWay, Guide!Sent, Guide!Testing
      <4> QED
        BY <4>1, <4>2
  <2> QED
    BY <2>2, <2>3
<1>7. CASE Guide!Close
  <2>1. s9' \in [on : BOOLEAN, of : Guide!Lists, cancel : BOOLEAN]
    BY <1>7 DEF Guide!Close, Guide!Sources
  <2> QED
    BY <1>7, <2>1 DEF Guide!Close, Guide!Sources, Guide!FlowUnderWay
<1>8. CASE Guide!ImportEnds
  <2>1. PICK i \in s10, ok \in BOOLEAN :
          /\ s10' = s10 \ {i} /\ s12' = Append(s12, Guide!Signal("imported", i.gen, i.of, ok))
          /\ UNCHANGED <<s2, s4, s6, s7, s8, s9, s11>>
    BY <1>8 DEF Guide!ImportEnds, Guide!Emit
  <2>2. /\ Guide!Signal("imported", i.gen, i.of, ok) \in Guide!Signals
        /\ Guide!Signal("imported", i.gen, i.of, ok).kind = "imported"
    BY <2>1 DEF Guide!Signal, Guide!Signals, Guide!Sources
  <2>3. s12' \in Seq(Guide!Signals) /\ Guide!Sent("imported")'
    BY <2>1, <2>2, GuideEmits DEF Guide!Sources
  <2> QED
    BY <2>1, <2>3 DEF Guide!Sources, Guide!FlowUnderWay, Guide!Testing
<1>9. CASE Guide!TestEnds
  <2>1. PICK k \in {"done", "failed"}, found \in BOOLEAN :
          /\ s12' = Append(s12, Guide!Signal(k, 0, s9.of, found)) /\ s9' = [s9 EXCEPT !.of = "none"]
          /\ UNCHANGED <<s2, s4, s6, s7, s8, s10, s11>>
    BY <1>9 DEF Guide!TestEnds, Guide!Emit
  <2>2. Guide!Signal(k, 0, s9.of, found) \in Guide!Signals
    BY <2>1 DEF Guide!Signal, Guide!Signals, Guide!Sources
  <2>3. s12' \in Seq(Guide!Signals) /\ \A l : Guide!Sent(l) => Guide!Sent(l)'
    BY <2>1, <2>2, GuideEmits DEF Guide!Sources
  <2>4. s9' \in [on : BOOLEAN, of : Guide!Lists, cancel : BOOLEAN] /\ s9'.on = s9.on
    BY <2>1 DEF Guide!Sources, Guide!Lists
  <2> QED
    BY <2>1, <2>3, <2>4 DEF Guide!Sources, Guide!FlowUnderWay, Guide!Testing
<1>10. CASE Guide!TakeImported
  <2>1. s12' \in Seq(Guide!Signals) /\ Head(s12) \in Guide!Signals /\ UNCHANGED <<s6, s9, s10, s11>>
    BY <1>10, GuideTakes DEF Guide!TakeImported, Guide!Sources
  <2>2. s8' \in [of : Guide!Lists, healthy : BOOLEAN]
    BY <1>10, <2>1 DEF Guide!TakeImported, Guide!Sources, Guide!Signals
  <2>3. CASE s4 # "fetch"
    <3>1. UNCHANGED <<s2, s4, s7>>
      BY <1>10, <2>3 DEF Guide!TakeImported
    <3> QED
      BY <2>1, <2>2, <2>3, <3>1 DEF Guide!Sources, Guide!FlowUnderWay, Guide!Testing
  <2>4. CASE s4 = "fetch"
    <3>1. \/ s4' = "" /\ s2' = "done" /\ UNCHANGED s7
          \/ s4' = "test" /\ s7' = s8'.of /\ s8'.of # "none" /\ UNCHANGED s2
      BY <1>10, <2>4 DEF Guide!TakeImported, Guide!Finishes
    <3> QED
      BY <2>1, <2>2, <2>4, <3>1 DEF Guide!Sources, Guide!FlowUnderWay, Guide!Testing
  <2> QED
    BY <2>3, <2>4
<1>11. CASE Guide!Launch
  <2>1. s7 # "none" /\ s7' = "none" /\ UNCHANGED <<s2, s4, s6, s8, s10, s11, s12>>
    BY <1>11 DEF Guide!Launch
  <2>2. (s9' = s9 /\ s9.on) \/ s9' = [on |-> TRUE, of |-> s7, cancel |-> FALSE]
    BY <1>11 DEF Guide!Launch, Guide!Launches
  <2>3. s9' \in [on : BOOLEAN, of : Guide!Lists, cancel : BOOLEAN] /\ s9'.on
    <3>1. s7 \in Guide!Lists /\ s9 \in [on : BOOLEAN, of : Guide!Lists, cancel : BOOLEAN]
      BY DEF Guide!Sources
    <3>2. CASE s9' = [on |-> TRUE, of |-> s7, cancel |-> FALSE]
      BY <3>1, <3>2
    <3> QED
      BY <2>2, <3>1, <3>2
  <2> QED
    BY <2>1, <2>3 DEF Guide!Sources, Guide!FlowUnderWay, Guide!Sent, Guide!Testing, Guide!Lists
<1>12. CASE Guide!TakeDone
  <2>1. /\ s12' \in Seq(Guide!Signals) /\ UNCHANGED <<s6, s7, s10, s11>>
        /\ \A l : l # "done" /\ Guide!Sent(l) => Guide!Sent(l)'
    BY <1>12, GuideTakes DEF Guide!TakeDone, Guide!Sources
  <2>2. /\ s8' \in [of : Guide!Lists, healthy : BOOLEAN]
        /\ s9' \in [on : BOOLEAN, of : Guide!Lists, cancel : BOOLEAN]
    <3>1. s8' = [s8 EXCEPT !.healthy = @ \/ (Head(s12).ok /\ Head(s12).of = s8.of)]
      BY <1>12 DEF Guide!TakeDone
    <3>2. (s8.healthy \/ (Head(s12).ok /\ Head(s12).of = s8.of)) \in BOOLEAN
      OBVIOUS
    <3>3. s9' = [s9 EXCEPT !.on = FALSE]
      BY <1>12 DEF Guide!TakeDone
    <3> QED
      BY <3>1, <3>2, <3>3 DEF Guide!Sources
  <2>3. IF s4 = "test" THEN s4' = "" /\ s2' = "done" ELSE UNCHANGED <<s2, s4>>
    BY <1>12 DEF Guide!TakeDone, Guide!Finishes
  <2> QED
    BY <2>1, <2>2, <2>3 DEF Guide!Sources, Guide!FlowUnderWay, Guide!Testing
<1>13. CASE Guide!TakeFailed
  <2>1. /\ s12' \in Seq(Guide!Signals) /\ UNCHANGED <<s6, s7, s8, s10, s11>>
        /\ \A l : l # "failed" /\ Guide!Sent(l) => Guide!Sent(l)'
    BY <1>13, GuideTakes DEF Guide!TakeFailed, Guide!Sources
  <2>2. s9' \in [on : BOOLEAN, of : Guide!Lists, cancel : BOOLEAN]
    BY <1>13 DEF Guide!TakeFailed, Guide!Sources
  <2>3. IF s4 \in {"test", "fetch"} THEN s4' = "" /\ s2' = "done" ELSE UNCHANGED <<s2, s4>>
    BY <1>13 DEF Guide!TakeFailed, Guide!Finishes, Guide!Fails
  <2> QED
    BY <2>1, <2>2, <2>3 DEF Guide!Sources, Guide!FlowUnderWay, Guide!Testing
<1> QED
  BY <1>1, <1>2, <1>3, <1>4, <1>5, <1>6, <1>7, <1>8, <1>9, <1>10, <1>11, <1>12, <1>13
  DEF Guide!Next

\* What the composition does to the wizard.
LEMMA GuidePart ==
  ASSUME [Next]_vars, part = "guide"
  PROVE  Guide!Next \/ UNCHANGED Guide!vars
BY DEF Next, vars, Guide!vars

(***************************************************************************)
(* The SNI Maker                                                           *)
(***************************************************************************)
\* Before the first test there is nothing to show.
LEMMA MakerInit == Maker!Init => Maker!MakerInv
<1> SUFFICES ASSUME Maker!Init PROVE Maker!MakerInv
  OBVIOUS
<1>1. /\ s1 = [p \in MakerProfiles |-> "absent"] /\ s3 = "idle" /\ s4 = {} /\ s5 = FALSE
      /\ s6 = Maker!Asleep /\ s7 = <<>> /\ s9 = "" /\ s10 = {}
  BY DEF Maker!Init
<1>2. s6 \in Maker!Testers /\ s6.pc = "idle" /\ s6.found = {} /\ s6.winners = {} /\ s6.nowhere = {}
  BY <1>1 DEF Maker!Testers, Maker!Asleep
<1>3. <<>> \in Seq(Maker!Messages) /\ DOMAIN <<>> = {}
  OBVIOUS
<1>4. Maker!Typed
  BY <1>1, <1>2, <1>3 DEF Maker!Typed, Maker!Statuses
<1>5. Maker!EndIsLast /\ Maker!RoundInv
  BY <1>1, <1>2 DEF Maker!EndIsLast, Maker!RoundInv
<1>6. Maker!Progress
  BY <1>1 DEF Maker!Progress
<1> QED
  BY <1>4, <1>5, <1>6 DEF Maker!MakerInv

\* What is unchanged stays as it is.
LEMMA MakerSame ==
  ASSUME Maker!MakerInv, UNCHANGED <<s1, s3, s4, s5, s6, s7, s9, s10>>
  PROVE  Maker!MakerInv'
BY DEF Maker!MakerInv, Maker!Typed, Maker!EndIsLast, Maker!Batches, Maker!RoundInv, Maker!InRound,
  Maker!Progress, Maker!Shown, Maker!Complete, Maker!WillShow, Maker!Mentions, Maker!Found

\* A row that stays will show the same, while no signal is added or taken.
LEMMA MakerRowStays ==
  ASSUME s7' = s7, NEW p, s1'[p] = s1[p], NEW v, Maker!WillShow(p, v)
  PROVE  Maker!WillShow(p, v)'
BY DEF Maker!WillShow, Maker!Mentions

\* A batch that is sent decides for its rows; other signals, for none.
LEMMA MakerEmits ==
  ASSUME Maker!Typed, NEW m \in Maker!Messages, m.kind = "batch" => m.results \in Maker!Results,
         s7' = Append(s7, m), s1' = s1
  PROVE  /\ s7' \in Seq(Maker!Messages)
         /\ \A i \in DOMAIN s7' : s7'[i].kind = "batch" => s7'[i].results \in Maker!Results
         /\ DOMAIN s7' = 1..(Len(s7) + 1) /\ s7'[Len(s7) + 1] = m /\ DOMAIN s7 = 1..Len(s7) /\ Len(s7) \in Nat
         /\ \A i \in DOMAIN s7 : i \in DOMAIN s7' /\ s7'[i] = s7[i]
         /\ \A p, v : ~(m.kind = "batch" /\ p \in DOMAIN m.results) /\ Maker!WillShow(p, v)
                        => Maker!WillShow(p, v)'
         /\ m.kind = "batch" => \A p \in DOMAIN m.results : Maker!WillShow(p, m.results[p])'
<1>1. /\ s7' \in Seq(Maker!Messages) /\ DOMAIN s7' = 1..(Len(s7) + 1) /\ s7'[Len(s7) + 1] = m
      /\ DOMAIN s7 = 1..Len(s7) /\ Len(s7) \in Nat
      /\ \A i \in DOMAIN s7 : i \in DOMAIN s7' /\ s7'[i] = s7[i]
  BY Indices DEF Maker!Typed
<1>2. \A i \in DOMAIN s7' : i = Len(s7) + 1 \/ i \in DOMAIN s7
  BY <1>1
<1>3. ASSUME NEW p, NEW v, ~(m.kind = "batch" /\ p \in DOMAIN m.results), Maker!WillShow(p, v)
      PROVE  Maker!WillShow(p, v)'
  <2>1. Maker!Mentions(p)' = Maker!Mentions(p)
    BY <1>1, <1>2, <1>3 DEF Maker!Mentions
  <2>2. Maker!Mentions(p) \subseteq DOMAIN s7
    BY DEF Maker!Mentions
  <2> QED
    BY <1>1, <1>3, <2>1, <2>2 DEF Maker!WillShow
<1>4. ASSUME m.kind = "batch", NEW p \in DOMAIN m.results PROVE Maker!WillShow(p, m.results[p])'
  <2>1. Len(s7) + 1 \in Maker!Mentions(p)'
    BY <1>1, <1>4 DEF Maker!Mentions
  <2>2. \A j \in Maker!Mentions(p)' : j <= Len(s7) + 1
    BY <1>1 DEF Maker!Mentions
  <2> QED
    BY <1>1, <2>1, <2>2 DEF Maker!WillShow
<1>5. \A i \in DOMAIN s7' : s7'[i].kind = "batch" => s7'[i].results \in Maker!Results
  BY <1>1, <1>2 DEF Maker!Typed
<1> QED
  BY <1>1, <1>3, <1>4, <1>5

\* Signals that are left keep their order, and a row shows the last batch that names it.
LEMMA MakerTakes ==
  ASSUME Maker!Typed, NEW k, Maker!Takes(k)
  PROVE  /\ s7' \in Seq(Maker!Messages) /\ s7[1].kind = k /\ s7[1] = Head(s7) /\ 1 \in DOMAIN s7
         /\ DOMAIN s7' = 1..(Len(s7) - 1) /\ DOMAIN s7 = 1..Len(s7) /\ Len(s7) \in Nat
         /\ \A i \in DOMAIN s7' : i + 1 \in DOMAIN s7 /\ s7'[i] = s7[i + 1]
         /\ \A i \in DOMAIN s7 : i = 1 \/ (i - 1 \in DOMAIN s7' /\ s7'[i - 1] = s7[i])
         /\ \A i \in DOMAIN s7' : s7'[i].kind = "batch" => s7'[i].results \in Maker!Results
<1>1. s7 # <<>> /\ Head(s7).kind = k /\ s7' = Tail(s7) /\ s7 \in Seq(Maker!Messages)
  BY DEF Maker!Takes, Maker!Typed
<1>2. /\ s7' \in Seq(Maker!Messages) /\ s7[1] = Head(s7) /\ 1 \in DOMAIN s7
      /\ DOMAIN s7' = 1..(Len(s7) - 1) /\ DOMAIN s7 = 1..Len(s7) /\ Len(s7) \in Nat
      /\ \A i \in DOMAIN s7' : i + 1 \in DOMAIN s7 /\ s7'[i] = s7[i + 1]
      /\ \A i \in DOMAIN s7 : i = 1 \/ (i - 1 \in DOMAIN s7' /\ s7'[i - 1] = s7[i])
  BY <1>1, Indices
<1>3. \A i \in DOMAIN s7' : s7'[i].kind = "batch" => s7'[i].results \in Maker!Results
  BY <1>2 DEF Maker!Typed
<1> QED
  BY <1>1, <1>2, <1>3

\* A batch that is taken is shown, so what a row will show is the same.
LEMMA MakerShows ==
  ASSUME Maker!Typed, Maker!TakeBatch, NEW p \in Maker!Shown, NEW v, Maker!WillShow(p, v)
  PROVE  Maker!WillShow(p, v)'
<1>1. /\ s7[1].kind = "batch" /\ s7[1] = Head(s7) /\ 1 \in DOMAIN s7 /\ DOMAIN s7 = 1..Len(s7)
      /\ DOMAIN s7' = 1..(Len(s7) - 1) /\ Len(s7) \in Nat
      /\ \A i \in DOMAIN s7' : i + 1 \in DOMAIN s7 /\ s7'[i] = s7[i + 1]
      /\ \A i \in DOMAIN s7 : i = 1 \/ (i - 1 \in DOMAIN s7' /\ s7'[i - 1] = s7[i])
  BY MakerTakes DEF Maker!TakeBatch
<1>2. p \in MakerProfiles
  BY DEF Maker!Shown
<1>3. s1'[p] = IF p \in DOMAIN s7[1].results THEN s7[1].results[p] ELSE s1[p]
  BY <1>1, <1>2 DEF Maker!TakeBatch
<1>4. \A i : i \in Maker!Mentions(p)' => i + 1 \in Maker!Mentions(p)
  BY <1>1 DEF Maker!Mentions
<1>5. \A i \in Maker!Mentions(p) : i \in Nat /\ (i = 1 \/ i - 1 \in Maker!Mentions(p)')
  BY <1>1 DEF Maker!Mentions
<1>6. CASE Maker!Mentions(p) = {}
  <2>1. p \notin DOMAIN s7[1].results
    BY <1>1, <1>6 DEF Maker!Mentions
  <2>2. Maker!Mentions(p)' = {}
    BY <1>4, <1>6
  <2> QED
    BY <1>3, <1>6, <2>1, <2>2 DEF Maker!WillShow
<1>7. CASE Maker!Mentions(p) # {}
  <2>1. PICK i \in Maker!Mentions(p) : s7[i].results[p] = v /\ \A j \in Maker!Mentions(p) : j <= i
    BY <1>7 DEF Maker!WillShow
  <2>2. CASE i = 1
    <3>1. Maker!Mentions(p)' = {}
      <4>1. ASSUME NEW j \in Maker!Mentions(p)' PROVE FALSE
        <5>1. j + 1 <= 1 /\ j \in 1..(Len(s7) - 1)
          BY <1>1, <1>4, <2>1, <2>2, <4>1 DEF Maker!Mentions
        <5> QED
          BY <1>1, <5>1
      <4> QED
        BY <4>1
    <3>2. s1'[p] = v
      BY <1>3, <2>1, <2>2 DEF Maker!Mentions
    <3> QED
      BY <3>1, <3>2 DEF Maker!WillShow
  <2>3. CASE i # 1
    <3>1. i - 1 \in Maker!Mentions(p)' /\ s7'[i - 1].results[p] = v
      BY <1>1, <1>5, <2>1, <2>3 DEF Maker!Mentions
    <3>2. ASSUME NEW j \in Maker!Mentions(p)' PROVE j <= i - 1
      <4>1. j + 1 <= i /\ j \in Nat /\ i \in Nat
        BY <1>1, <1>4, <1>5, <2>1, <3>2 DEF Maker!Mentions
      <4> QED
        BY <4>1
    <3> QED
      BY <3>1, <3>2 DEF Maker!WillShow
  <2> QED
    BY <2>2, <2>3
<1> QED
  BY <1>6, <1>7

\* A step of the page that leaves the test and its signals alone.
LEMMA MakerPageStep ==
  ASSUME Maker!MakerInv,
         Maker!ImportStarts \/ Maker!ImportFinished \/ Maker!ImportFails \/ Maker!Clear
           \/ Maker!StartTest \/ Maker!StopTest
  PROVE  Maker!MakerInv'
<1> USE DEF Maker!MakerInv
<1>1. CASE Maker!ImportStarts \/ Maker!ImportFails
  <2>1. UNCHANGED <<s1, s3, s4, s5, s6, s7, s10>> /\ (s9' = s9 \/ s3 # "idle")
    BY <1>1 DEF Maker!ImportStarts, Maker!ImportFails, Maker!table, Maker!test
  <2> QED
    BY <2>1, MakerSame DEF Maker!Typed, Maker!EndIsLast, Maker!Batches, Maker!RoundInv, Maker!InRound,
      Maker!Progress, Maker!Shown, Maker!Complete, Maker!WillShow, Maker!Mentions, Maker!Found
<1>2. CASE Maker!ImportFinished
  <2>1. PICK kept \in SUBSET Maker!Shown, new \in SUBSET MakerProfiles :
          /\ s1' = [p \in MakerProfiles |-> IF p \in kept THEN s1[p] ELSE IF p \in new THEN "ready" ELSE "absent"]
          /\ s4' = (IF s3 = "dialog" THEN s4 ELSE s4 \intersect kept)
    BY <1>2 DEF Maker!ImportFinished
  <2>2. UNCHANGED <<s3, s5, s6, s7, s9, s10>>
    BY <1>2 DEF Maker!ImportFinished
  <2>3. kept \subseteq MakerProfiles /\ s1' \in [MakerProfiles -> Maker!Statuses]
    <3>1. kept \subseteq MakerProfiles
      BY <2>1 DEF Maker!Shown
    <3>2. \A p \in kept : s1[p] \in Maker!Statuses
      BY <3>1 DEF Maker!Typed
    <3>3. "ready" \in Maker!Statuses /\ "absent" \in Maker!Statuses
      BY DEF Maker!Statuses
    <3> QED
      BY <2>1, <3>1, <3>2, <3>3
  <2>4. Maker!Typed'
    BY <2>1, <2>2, <2>3 DEF Maker!Typed
  <2>5. Maker!EndIsLast' /\ Maker!RoundInv'
    BY <2>2 DEF Maker!EndIsLast, Maker!Batches, Maker!RoundInv, Maker!InRound
  <2>6. /\ \A p \in kept : s1'[p] = s1[p]
        /\ \A p \in MakerProfiles : s1'[p] = "testing" => s1[p] = "testing" /\ p \in kept
    BY <2>1, <2>3
  <2>7. CASE s3 = "running"
    <3>1. s4' = s4 \intersect kept
      BY <2>1, <2>7
    <3>2. \A p \in s4' : p \in s4 /\ s1'[p] = s1[p] /\ p \in MakerProfiles
      BY <2>3, <2>6, <3>1
    <3>3. s4' \subseteq Maker!Shown'
      BY <2>7, <3>2 DEF Maker!Progress, Maker!Shown
    <3>4. \A p \in s4' : \A v : Maker!WillShow(p, v) => Maker!WillShow(p, v)'
      BY <2>2, <3>2, MakerRowStays
    <3>5. \A p : Maker!Found(p)' = Maker!Found(p)
      BY <2>2 DEF Maker!Found
    <3>6. Maker!Complete => Maker!Complete'
      BY <3>2, <3>4, <3>5 DEF Maker!Complete
    <3>7. \A p \in MakerProfiles : s1'[p] = "testing" => p \in s4' \union s10'
      BY <2>2, <2>6, <2>7, <3>1 DEF Maker!Progress
    <3> QED
      BY <2>2, <2>4, <2>5, <2>7, <3>2, <3>3, <3>4, <3>6, <3>7 DEF Maker!Progress
  <2>8. CASE s3 # "running"
    <3>1. Maker!Progress'
      BY <2>1, <2>2, <2>6, <2>8 DEF Maker!Progress, Maker!Found
    <3> QED
      BY <2>4, <2>5, <3>1
  <2> QED
    BY <2>7, <2>8
<1>3. CASE Maker!Clear
  <2>1. /\ s3 = "idle" /\ s1' = [p \in MakerProfiles |-> "absent"] /\ s4' = {} /\ s9' = ""
        /\ UNCHANGED <<s3, s5, s6, s7, s10>>
    BY <1>3 DEF Maker!Clear
  <2>2. Maker!Typed'
    BY <2>1 DEF Maker!Typed, Maker!Statuses
  <2>3. Maker!EndIsLast' /\ Maker!RoundInv'
    BY <2>1 DEF Maker!EndIsLast, Maker!Batches, Maker!RoundInv, Maker!InRound
  <2>4. Maker!Progress'
    BY <2>1 DEF Maker!Progress
  <2> QED
    BY <2>2, <2>3, <2>4
<1>4. CASE Maker!StartTest
  <2>1. s3 = "idle" /\ s3' = "dialog" /\ s4' = Maker!Shown /\ UNCHANGED <<s1, s5, s6, s7, s9, s10>>
    BY <1>4 DEF Maker!StartTest, Maker!table
  <2>2. Maker!Typed'
    BY <2>1 DEF Maker!Typed, Maker!Shown
  <2>3. Maker!EndIsLast' /\ Maker!RoundInv'
    BY <2>1 DEF Maker!EndIsLast, Maker!Batches, Maker!RoundInv, Maker!InRound
  <2>4. Maker!Progress'
    BY <2>1 DEF Maker!Progress
  <2> QED
    BY <2>2, <2>3, <2>4
<1>5. CASE Maker!StopTest
  <2>1. s5' = TRUE /\ UNCHANGED <<s1, s3, s4, s6, s7, s9, s10>>
    BY <1>5 DEF Maker!StopTest, Maker!table, Maker!test
  <2>2. Maker!Typed' /\ Maker!EndIsLast' /\ Maker!RoundInv'
    BY <2>1 DEF Maker!Typed, Maker!EndIsLast, Maker!Batches, Maker!RoundInv, Maker!InRound
  <2>3. Maker!Progress'
    BY <2>1 DEF Maker!Progress, Maker!Shown, Maker!Complete, Maker!WillShow, Maker!Mentions, Maker!Found
  <2> QED
    BY <2>2, <2>3
<1> QED
  BY <1>1, <1>2, <1>3, <1>4, <1>5

\* A test is launched for what it was given and is still in the table.
LEMMA MakerLaunched ==
  ASSUME Maker!MakerInv, Maker!Launch
  PROVE  Maker!MakerInv'
<1> USE DEF Maker!MakerInv
<1>1. /\ s3 = "dialog" /\ s3' = "running" /\ s5' = FALSE /\ s7' = s7 /\ s7 = <<>>
      /\ s1' = [p \in MakerProfiles |-> IF p \in Maker!Shown THEN "testing" ELSE "absent"]
      /\ s10' = Maker!Shown \ s4 /\ s4' = s4 \intersect Maker!Shown
      /\ s6' = [Maker!Asleep EXCEPT !.pc = "rounds", !.pending = s4]
  BY DEF Maker!Launch, Maker!EndIsLast
<1>2. /\ s6'.pc = "rounds" /\ s6'.pending = s4 /\ s6'.found = {} /\ s6'.winners = {} /\ s6'.nowhere = {}
      /\ s6' \in Maker!Testers
  BY <1>1 DEF Maker!Asleep, Maker!Testers, Maker!Typed
<1>3. DOMAIN s7 = {}
  BY <1>1
<1>4. Maker!Shown \subseteq MakerProfiles
  BY DEF Maker!Shown
<1>5. Maker!Typed'
  BY <1>1, <1>2, <1>4 DEF Maker!Typed, Maker!Statuses
<1>6. Maker!EndIsLast' /\ Maker!RoundInv'
  BY <1>1, <1>2, <1>3 DEF Maker!EndIsLast, Maker!Batches, Maker!RoundInv
<1>7. \A p \in Maker!Shown : p \in Maker!Shown'
  BY <1>1, <1>4 DEF Maker!Shown
<1>8. \A p \in MakerProfiles : s1'[p] = "testing" => p \in Maker!Shown
  BY <1>1
<1>9. Maker!Progress'
  BY <1>1, <1>2, <1>3, <1>7, <1>8 DEF Maker!Progress
<1> QED
  BY <1>5, <1>6, <1>9

\* The tester runs only while the page waits for its end.
LEMMA MakerRuns ==
  ASSUME Maker!MakerInv, s6.pc # "idle"
  PROVE  s3 = "running" /\ Maker!Batches
BY DEF Maker!MakerInv, Maker!EndIsLast

\* A step of the tester that sends nothing.
LEMMA MakerSilentStep ==
  ASSUME Maker!MakerInv, Maker!NextRound \/ Maker!RoundFails \/ Maker!RoundEnds
  PROVE  Maker!MakerInv'
<1> USE DEF Maker!MakerInv
<1>1. s6.pc # "idle" /\ UNCHANGED <<s1, s3, s4, s5, s7, s9, s10>>
  BY DEF Maker!NextRound, Maker!RoundFails, Maker!RoundEnds, Maker!TesterOnly, Maker!table, Maker!test
<1>2. s3 = "running" /\ Maker!Batches
  BY <1>1, MakerRuns
<1>3. /\ s6' \in Maker!Testers /\ s6'.pc \in {"rounds", "probes", "final"} /\ s6'.nowhere = s6.nowhere
      /\ s6'.found \union s6'.winners = s6.found \union s6.winners
      /\ s6'.pending \union s6'.winners = s6.pending \union s6.winners
      /\ Maker!RoundInv'
  <2> USE DEF Maker!Typed
  <2>1. CASE Maker!NextRound
    <3>1. s6.pc = "rounds" /\ s6.found = {}
      BY <2>1 DEF Maker!NextRound, Maker!RoundInv
    <3>2. CASE s6' = [s6 EXCEPT !.pc = "final"]
      BY <3>1, <3>2 DEF Maker!Testers, Maker!RoundInv
    <3>3. CASE s6' = [s6 EXCEPT !.round = 1]
      BY <3>1, <3>3 DEF Maker!Testers, Maker!RoundInv
    <3>4. CASE s6' = [s6 EXCEPT !.pc = "probes", !.todo = Maker!InRound, !.found = {}]
      <4>1. Maker!InRound \in SUBSET MakerProfiles
        BY DEF Maker!InRound, Maker!Testers
      <4>2. /\ s6' \in Maker!Testers /\ s6'.pc = "probes" /\ s6'.todo = Maker!InRound /\ s6'.found = {}
            /\ s6'.pending = s6.pending /\ s6'.winners = s6.winners /\ s6'.nowhere = s6.nowhere
            /\ s6'.round = s6.round
        BY <3>4, <4>1 DEF Maker!Testers
      <4>3. Maker!InRound' = Maker!InRound
        BY <4>2 DEF Maker!InRound
      <4> QED
        BY <3>1, <4>2, <4>3 DEF Maker!RoundInv
    <3> QED
      BY <2>1, <3>2, <3>3, <3>4 DEF Maker!NextRound
  <2>2. CASE Maker!RoundFails
    <3>1. s6.pc = "probes" /\ s6.found = {} /\ s6' = [s6 EXCEPT !.pc = "rounds", !.round = @ + 1, !.todo = {}]
      BY <2>2 DEF Maker!RoundFails, Maker!RoundInv
    <3>2. s6.round + 1 \in Nat
      BY DEF Maker!Testers
    <3>3. /\ s6' \in Maker!Testers /\ s6'.pc = "rounds" /\ s6'.found = s6.found
          /\ s6'.winners = s6.winners /\ s6'.pending = s6.pending /\ s6'.nowhere = s6.nowhere
      BY <3>1, <3>2 DEF Maker!Testers
    <3> QED
      BY <3>1, <3>3 DEF Maker!RoundInv
  <2>3. CASE Maker!RoundEnds
    <3>1. s6' = [s6 EXCEPT !.pc = "rounds", !.round = @ + 1, !.found = {},
                   !.winners = @ \union s6.found, !.pending = @ \ s6.found]
      BY <2>3 DEF Maker!RoundEnds
    <3>2. /\ s6.round + 1 \in Nat /\ s6.winners \union s6.found \in SUBSET MakerProfiles
          /\ s6.pending \ s6.found \in SUBSET MakerProfiles
      BY DEF Maker!Testers
    <3>3. /\ s6' \in Maker!Testers /\ s6'.pc = "rounds" /\ s6'.found = {}
          /\ s6'.winners = s6.winners \union s6.found /\ s6'.pending = s6.pending \ s6.found
          /\ s6'.nowhere = s6.nowhere
      BY <3>1, <3>2 DEF Maker!Testers
    <3> QED
      BY <3>3 DEF Maker!RoundInv
  <2> QED
    BY <2>1, <2>2, <2>3
<1>4. Maker!Typed' /\ Maker!EndIsLast'
  BY <1>1, <1>2, <1>3 DEF Maker!Typed, Maker!EndIsLast, Maker!Batches
<1>5. \A p, v : Maker!WillShow(p, v)' <=> Maker!WillShow(p, v)
  BY <1>1 DEF Maker!WillShow, Maker!Mentions
<1>6. Maker!Shown' = Maker!Shown
  BY <1>1 DEF Maker!Shown
<1>7. \A i \in DOMAIN s7' : s7'[i].kind # "done"
  BY <1>1, <1>2 DEF Maker!Batches
<1>8. Maker!Progress'
  BY <1>1, <1>2, <1>3, <1>5, <1>6, <1>7 DEF Maker!Progress
<1> QED
  BY <1>3, <1>4, <1>8

\* A step of the tester that sends the result of one probe, or of those that failed all rounds.
LEMMA MakerBatchStep ==
  ASSUME Maker!MakerInv, Maker!Probed \/ Maker!Final
  PROVE  Maker!MakerInv'
<1> USE DEF Maker!MakerInv
<1>1. s6.pc # "idle" /\ UNCHANGED <<s1, s3, s4, s5, s9, s10>>
  BY DEF Maker!Probed, Maker!Final, Maker!TesterOnly, Maker!table, Maker!test
<1>2. s3 = "running" /\ Maker!Batches
  BY <1>1, MakerRuns
<1>3. Maker!Shown' = Maker!Shown
  BY <1>1 DEF Maker!Shown
<1>4. CASE Maker!Final /\ s7' = s7
  <2>1. s6' = [s6 EXCEPT !.pc = "done"] /\ (s5 \/ s6.pending = {}) /\ s6.pc = "final"
    BY <1>4 DEF Maker!Final, Maker!EmitBatch, Maker!Emit, Maker!Unresolved
  <2>2. /\ s6' \in Maker!Testers /\ s6'.pc = "done" /\ s6'.found = s6.found /\ s6'.pending = s6.pending
        /\ s6'.winners = s6.winners /\ s6'.nowhere = s6.nowhere
    BY <2>1 DEF Maker!Testers, Maker!Typed
  <2>3. s6.found = {}
    BY <2>1 DEF Maker!RoundInv
  <2>4. \A p, v : Maker!WillShow(p, v)' <=> Maker!WillShow(p, v)
    BY <1>1, <1>4 DEF Maker!WillShow, Maker!Mentions
  <2>5. ASSUME ~s5, NEW p \in s4 PROVE Maker!WillShow(p, Maker!Found(p))'
    <3>1. p \in s6.winners
      BY <1>2, <2>1, <2>5 DEF Maker!Progress
    <3>2. Maker!WillShow(p, IF p \in s6.nowhere THEN "retrying" ELSE "healthy")
      BY <1>2, <2>5, <3>1 DEF Maker!Progress
    <3>3. Maker!Found(p)' = IF p \in s6.nowhere THEN "retrying" ELSE "healthy"
      BY <2>2, <3>1 DEF Maker!Found
    <3> QED
      BY <2>4, <3>2, <3>3
  <2>6. Maker!Typed' /\ Maker!EndIsLast' /\ Maker!RoundInv'
    BY <1>1, <1>2, <1>4, <2>2, <2>3 DEF Maker!Typed, Maker!EndIsLast, Maker!Batches, Maker!RoundInv
  <2>7. \A i \in DOMAIN s7' : s7'[i].kind # "done"
    BY <1>2, <1>4 DEF Maker!Batches
  <2>8. Maker!Progress'
    BY <1>1, <1>2, <1>3, <2>2, <2>4, <2>5, <2>7 DEF Maker!Progress, Maker!Complete
  <2> QED
    BY <2>6, <2>8
<1>5. CASE Maker!Final /\ s7' # s7
  <2>1. PICK b \in Maker!Results : /\ s6' = [s6 EXCEPT !.pc = "done"] /\ s6.pc = "final"
                                   /\ b = [p \in s6.pending |-> "failed"]
                                   /\ s7' = Append(s7, [kind |-> "batch", results |-> b, cancelled |-> FALSE])
    <3>1. [p \in s6.pending |-> "failed"] \in Maker!Results
      <4>1. s6.pending \in SUBSET MakerProfiles
        BY DEF Maker!Typed, Maker!Testers
      <4>2. [p \in s6.pending |-> "failed"] \in [s6.pending -> {"healthy", "retrying", "failed"}]
        OBVIOUS
      <4> QED
        BY <4>1, <4>2 DEF Maker!Results
    <3> QED
      BY <1>5, <3>1 DEF Maker!Final, Maker!EmitBatch, Maker!Emit, Maker!Unresolved
  <2>2. /\ s6' \in Maker!Testers /\ s6'.pc = "done" /\ s6'.found = s6.found /\ s6'.pending = s6.pending
        /\ s6'.winners = s6.winners /\ s6'.nowhere = s6.nowhere
    BY <2>1 DEF Maker!Testers, Maker!Typed
  <2>3. s6.found = {}
    BY <2>1 DEF Maker!RoundInv
  <2>4. PICK m \in Maker!Messages : /\ m.kind = "batch" /\ m.results = b /\ s7' = Append(s7, m)
    BY <2>1 DEF Maker!Messages
  <2>5. /\ s7' \in Seq(Maker!Messages)
        /\ \A i \in DOMAIN s7' : s7'[i].kind = "batch" /\ s7'[i].results \in Maker!Results
        /\ \A p, v : p \notin s6.pending /\ Maker!WillShow(p, v) => Maker!WillShow(p, v)'
        /\ \A p \in s6.pending : Maker!WillShow(p, "failed")'
    <3>1. DOMAIN b = s6.pending /\ \A p \in s6.pending : b[p] = "failed"
      BY <2>1
    <3>2. /\ s7' \in Seq(Maker!Messages)
          /\ \A i \in DOMAIN s7' : s7'[i].kind = "batch" => s7'[i].results \in Maker!Results
          /\ DOMAIN s7' = 1..(Len(s7) + 1) /\ s7'[Len(s7) + 1] = m /\ DOMAIN s7 = 1..Len(s7) /\ Len(s7) \in Nat
          /\ \A i \in DOMAIN s7 : i \in DOMAIN s7' /\ s7'[i] = s7[i]
          /\ \A p, v : p \notin DOMAIN b /\ Maker!WillShow(p, v) => Maker!WillShow(p, v)'
          /\ \A p \in DOMAIN b : Maker!WillShow(p, b[p])'
      BY <1>1, <2>4, MakerEmits
    <3>3. \A i \in DOMAIN s7' : i = Len(s7) + 1 \/ i \in DOMAIN s7
      BY <3>2
    <3> QED
      BY <1>2, <2>4, <3>1, <3>2, <3>3 DEF Maker!Batches
  <2>6. ASSUME NEW p \in s4 PROVE Maker!WillShow(p, Maker!Found(p))'
    <3>1. CASE p \in s6.pending
      <4>1. p \notin s6.winners
        BY <3>1 DEF Maker!RoundInv
      <4> QED
        BY <2>2, <2>5, <3>1, <4>1 DEF Maker!Found
    <3>2. CASE p \notin s6.pending
      <4>1. p \in s6.winners
        BY <1>2, <2>6, <3>2 DEF Maker!Progress
      <4>2. Maker!WillShow(p, IF p \in s6.nowhere THEN "retrying" ELSE "healthy")
        BY <1>2, <2>6, <4>1 DEF Maker!Progress
      <4>3. Maker!Found(p)' = IF p \in s6.nowhere THEN "retrying" ELSE "healthy"
        BY <2>2, <4>1 DEF Maker!Found
      <4> QED
        BY <2>5, <3>2, <4>2, <4>3
    <3> QED
      BY <3>1, <3>2
  <2>7. Maker!Typed' /\ Maker!EndIsLast' /\ Maker!RoundInv'
    BY <1>1, <1>2, <2>2, <2>3, <2>5 DEF Maker!Typed, Maker!EndIsLast, Maker!Batches, Maker!RoundInv
  <2>8. \A i \in DOMAIN s7' : s7'[i].kind # "done"
    BY <2>5
  <2>9. \A p \in s4 \intersect s6.winners : p \notin s6.pending
    BY DEF Maker!RoundInv
  <2>10. Maker!Progress'
    BY <1>1, <1>2, <1>3, <2>2, <2>3, <2>5, <2>6, <2>8, <2>9 DEF Maker!Progress, Maker!Complete
  <2> QED
    BY <2>7, <2>10
<1>6. CASE Maker!Probed
  <2>0. PICK p \in s6.todo, ok \in BOOLEAN, where \in BOOLEAN :
          /\ ~where => ok /\ s6.round = 0
          /\ s6' = [s6 EXCEPT !.todo = @ \ {p}, !.found = IF ok THEN @ \union {p} ELSE @,
                       !.nowhere = IF where THEN @ ELSE @ \union {p}]
          /\ Maker!EmitBatch([q \in {p} |-> IF ok /\ where THEN "healthy" ELSE "retrying"])
    BY <1>6, Zenon DEF Maker!Probed
  <2>1. /\ s6.pc = "probes" /\ (~where => ok)
        /\ s6' = [s6 EXCEPT !.todo = @ \ {p}, !.found = IF ok THEN @ \union {p} ELSE @,
                     !.nowhere = IF where THEN @ ELSE @ \union {p}]
        /\ s7' = Append(s7, [kind |-> "batch",
                     results |-> [q \in {p} |-> IF ok /\ where THEN "healthy" ELSE "retrying"],
                     cancelled |-> FALSE])
    <3>1. s6.pc = "probes"
      BY <1>6, Zenon DEF Maker!Probed
    <3>2. s7' = Append(s7, [kind |-> "batch",
                     results |-> [q \in {p} |-> IF ok /\ where THEN "healthy" ELSE "retrying"],
                     cancelled |-> FALSE])
      BY <2>0, Zenon DEF Maker!EmitBatch, Maker!Emit
    <3> QED
      BY <2>0, <3>1, <3>2, Zenon
  <2>2. /\ s6.todo \in SUBSET MakerProfiles /\ s6.found \in SUBSET MakerProfiles
        /\ s6.nowhere \in SUBSET MakerProfiles /\ p \in MakerProfiles
    BY <2>1 DEF Maker!Typed, Maker!Testers
  <2>3. PICK todo \in SUBSET MakerProfiles, found \in SUBSET MakerProfiles, nowhere \in SUBSET MakerProfiles :
          /\ todo = s6.todo \ {p} /\ found = (IF ok THEN s6.found \union {p} ELSE s6.found)
          /\ nowhere = (IF where THEN s6.nowhere ELSE s6.nowhere \union {p})
    BY <2>2
  <2>4. s6' = [s6 EXCEPT !.todo = todo, !.found = found, !.nowhere = nowhere]
    BY <2>1, <2>3
  <2>5. /\ s6' \in Maker!Testers /\ s6'.pc = "probes" /\ s6'.todo = todo /\ s6'.found = found
        /\ s6'.nowhere = nowhere /\ s6'.pending = s6.pending /\ s6'.winners = s6.winners
        /\ s6'.round = s6.round
    BY <2>1, <2>4 DEF Maker!Typed, Maker!Testers
  <2>6. PICK b \in Maker!Results : b = [q \in {p} |-> IF ok /\ where THEN "healthy" ELSE "retrying"]
    <3>1. [q \in {p} |-> IF ok /\ where THEN "healthy" ELSE "retrying"] \in [{p} -> {"healthy", "retrying", "failed"}]
      OBVIOUS
    <3>2. {p} \in SUBSET MakerProfiles
      BY <2>2
    <3> QED
      BY <3>1, <3>2 DEF Maker!Results
  <2>7. PICK m \in Maker!Messages : m.kind = "batch" /\ m.results = b /\ s7' = Append(s7, m)
    BY <2>1, <2>6 DEF Maker!Messages
  <2>8. /\ s7' \in Seq(Maker!Messages)
        /\ \A i \in DOMAIN s7' : s7'[i].kind = "batch" /\ s7'[i].results \in Maker!Results
        /\ \A q, v : q # p /\ Maker!WillShow(q, v) => Maker!WillShow(q, v)'
        /\ Maker!WillShow(p, IF ok /\ where THEN "healthy" ELSE "retrying")'
    <3>1. DOMAIN b = {p} /\ b[p] = IF ok /\ where THEN "healthy" ELSE "retrying"
      BY <2>6
    <3>2. /\ s7' \in Seq(Maker!Messages)
          /\ \A i \in DOMAIN s7' : s7'[i].kind = "batch" => s7'[i].results \in Maker!Results
          /\ DOMAIN s7' = 1..(Len(s7) + 1) /\ s7'[Len(s7) + 1] = m /\ DOMAIN s7 = 1..Len(s7) /\ Len(s7) \in Nat
          /\ \A i \in DOMAIN s7 : i \in DOMAIN s7' /\ s7'[i] = s7[i]
          /\ \A q, v : q \notin DOMAIN b /\ Maker!WillShow(q, v) => Maker!WillShow(q, v)'
          /\ \A q \in DOMAIN b : Maker!WillShow(q, b[q])'
      BY <1>1, <2>7, MakerEmits
    <3>3. \A i \in DOMAIN s7' : i = Len(s7) + 1 \/ i \in DOMAIN s7
      BY <3>2
    <3> QED
      BY <1>2, <2>7, <3>1, <3>2, <3>3 DEF Maker!Batches
  <2>9. /\ s6.todo \subseteq Maker!InRound /\ s6.found \subseteq Maker!InRound \ s6.todo
        /\ Maker!InRound \subseteq s6.pending /\ Maker!InRound' = Maker!InRound
        /\ p \notin s6.winners /\ p \notin s6.found /\ p \notin s6.nowhere
    BY <2>1, <2>5 DEF Maker!RoundInv, Maker!InRound
  <2>10. Maker!RoundInv'
    <3>1. todo \subseteq Maker!InRound /\ found \subseteq Maker!InRound \ todo
      BY <2>1, <2>3, <2>9
    <3>2. found \subseteq s6.pending /\ nowhere \subseteq found \union s6.winners
      BY <2>1, <2>3, <2>9 DEF Maker!RoundInv
    <3> QED
      BY <2>5, <2>9, <3>1, <3>2 DEF Maker!RoundInv
  <2>11. Maker!Typed' /\ Maker!EndIsLast'
    BY <1>1, <1>2, <2>5, <2>8 DEF Maker!Typed, Maker!EndIsLast, Maker!Batches
  <2>12. ASSUME NEW q \in s4 \intersect (found \union s6.winners)
         PROVE  Maker!WillShow(q, IF q \in nowhere THEN "retrying" ELSE "healthy")'
    <3>1. CASE q = p
      <4>1. ok /\ (q \in nowhere <=> ~where)
        BY <2>3, <2>9, <2>12, <3>1
      <4> QED
        BY <2>8, <3>1, <4>1
    <3>2. CASE q # p
      <4>1. q \in s4 \intersect (s6.found \union s6.winners) /\ (q \in nowhere <=> q \in s6.nowhere)
        BY <2>3, <2>12, <3>2
      <4>2. Maker!WillShow(q, IF q \in s6.nowhere THEN "retrying" ELSE "healthy")
        BY <1>2, <4>1 DEF Maker!Progress
      <4>3. Maker!WillShow(q, IF q \in nowhere THEN "retrying" ELSE "healthy")
        BY <4>1, <4>2
      <4> QED
        BY <2>8, <3>2, <4>3
    <3> QED
      BY <3>1, <3>2
  <2>13. \A i \in DOMAIN s7' : s7'[i].kind # "done"
    BY <2>8
  <2>14. Maker!Progress'
    BY <1>1, <1>2, <1>3, <2>5, <2>12, <2>13 DEF Maker!Progress
  <2> QED
    BY <2>10, <2>11, <2>14
<1> QED
  BY <1>4, <1>5, <1>6

\* The test ends, as a whole or by an error: its last signal.
LEMMA MakerEnds ==
  ASSUME Maker!MakerInv, Maker!Done \/ Maker!TesterRaises
  PROVE  Maker!MakerInv'
<1> USE DEF Maker!MakerInv
<1>1. s6.pc # "idle" /\ UNCHANGED <<s1, s3, s4, s5, s9, s10>> /\ s6' = [s6 EXCEPT !.pc = "idle"]
  BY DEF Maker!Done, Maker!TesterRaises, Maker!TesterOnly, Maker!table, Maker!test
<1>2. s3 = "running" /\ Maker!Batches
  BY <1>1, MakerRuns
<1>3. /\ s6' \in Maker!Testers /\ s6'.pc = "idle" /\ s6'.found = s6.found /\ s6'.pending = s6.pending
      /\ s6'.winners = s6.winners /\ s6'.nowhere = s6.nowhere
  BY <1>1 DEF Maker!Testers, Maker!Typed
<1>4. s6.found = {}
  BY DEF Maker!RoundInv, Maker!Done, Maker!TesterRaises
<1>5. PICK m \in Maker!Messages : /\ m.kind # "batch" /\ s7' = Append(s7, m)
                                  /\ m.kind = "done" /\ ~m.cancelled => s6.pc = "done" /\ ~s5
  <2>1. s5 \in BOOLEAN
    BY DEF Maker!Typed
  <2>2. [kind |-> "done", results |-> <<>>, cancelled |-> s5] \in Maker!Messages
    BY <2>1 DEF Maker!Messages
  <2>3. [kind |-> "failed", results |-> <<>>, cancelled |-> FALSE] \in Maker!Messages
    BY DEF Maker!Messages
  <2>4. CASE Maker!Done
    BY <2>2, <2>4 DEF Maker!Done, Maker!Emit
  <2>5. CASE Maker!TesterRaises
    BY <2>3, <2>5 DEF Maker!TesterRaises, Maker!Emit
  <2> QED
    BY <2>4, <2>5
<1>6. /\ s7' \in Seq(Maker!Messages)
      /\ \A i \in DOMAIN s7' : s7'[i].kind = "batch" => s7'[i].results \in Maker!Results
      /\ DOMAIN s7' = 1..(Len(s7) + 1) /\ s7'[Len(s7) + 1] = m /\ DOMAIN s7 = 1..Len(s7) /\ Len(s7) \in Nat
      /\ \A i \in DOMAIN s7 : i \in DOMAIN s7' /\ s7'[i] = s7[i]
      /\ \A p, v : Maker!WillShow(p, v) => Maker!WillShow(p, v)'
  BY <1>1, <1>5, MakerEmits
<1>7. \A i \in DOMAIN s7' : i = Len(s7) + 1 \/ (i < Len(s7) + 1 /\ i \in DOMAIN s7 /\ s7'[i].kind = "batch")
  BY <1>2, <1>6 DEF Maker!Batches
<1>8. Len(s7) + 1 \in DOMAIN s7' /\ s7'[Len(s7) + 1].kind # "batch"
  BY <1>5, <1>6
<1>9. Maker!EndIsLast'
  BY <1>1, <1>2, <1>3, <1>7, <1>8 DEF Maker!EndIsLast
<1>10. Maker!Typed' /\ Maker!RoundInv'
  BY <1>1, <1>3, <1>4, <1>6 DEF Maker!Typed, Maker!RoundInv
<1>11. Maker!Complete => Maker!Complete'
  BY <1>1, <1>3, <1>6 DEF Maker!Complete, Maker!Found
<1>12. (\E i \in DOMAIN s7' : s7'[i].kind = "done" /\ ~s7'[i].cancelled) => Maker!Complete'
  <2> SUFFICES ASSUME NEW i \in DOMAIN s7', s7'[i].kind = "done", ~s7'[i].cancelled
               PROVE  Maker!Complete'
    OBVIOUS
  <2>1. s7'[i] = m
    BY <1>6, <1>7
  <2> QED
    BY <1>2, <1>5, <1>11, <2>1 DEF Maker!Progress
<1>13. Maker!Shown' = Maker!Shown
  BY <1>1 DEF Maker!Shown
<1>14. Maker!Progress'
  BY <1>1, <1>2, <1>3, <1>6, <1>12, <1>13 DEF Maker!Progress
<1> QED
  BY <1>9, <1>10, <1>14

\* The page takes a batch.
LEMMA MakerTakesBatch ==
  ASSUME Maker!MakerInv, Maker!TakeBatch
  PROVE  Maker!MakerInv'
<1> USE DEF Maker!MakerInv
<1>1. UNCHANGED <<s3, s4, s5, s6, s9, s10>>
  BY DEF Maker!TakeBatch, Maker!test
<1>2. /\ s7[1].kind = "batch" /\ s7[1] = Head(s7) /\ 1 \in DOMAIN s7 /\ DOMAIN s7 = 1..Len(s7)
      /\ s7' \in Seq(Maker!Messages)
      /\ DOMAIN s7' = 1..(Len(s7) - 1) /\ Len(s7) \in Nat
      /\ \A i \in DOMAIN s7' : i + 1 \in DOMAIN s7 /\ s7'[i] = s7[i + 1]
      /\ \A i \in DOMAIN s7 : i = 1 \/ (i - 1 \in DOMAIN s7' /\ s7'[i - 1] = s7[i])
      /\ \A i \in DOMAIN s7' : s7'[i].kind = "batch" => s7'[i].results \in Maker!Results
  BY MakerTakes DEF Maker!TakeBatch
<1>3. s3 = "running"
  BY <1>2 DEF Maker!EndIsLast
<1>4. PICK S \in SUBSET MakerProfiles : s7[1].results \in [S -> {"healthy", "retrying", "failed"}]
  BY <1>2 DEF Maker!Typed, Maker!Results
<1>5. s1' = [p \in MakerProfiles |-> IF p \in S \intersect Maker!Shown THEN s7[1].results[p] ELSE s1[p]]
  BY <1>2, <1>4 DEF Maker!TakeBatch
<1>6. \A p \in S : s7[1].results[p] \in {"healthy", "retrying", "failed"}
  BY <1>4
<1>7. /\ s1' \in [MakerProfiles -> Maker!Statuses]
      /\ \A p \in MakerProfiles : s1'[p] = s1[p] \/ (p \in Maker!Shown /\ s1'[p] \in {"healthy", "retrying", "failed"})
  <2>1. s1 \in [MakerProfiles -> Maker!Statuses]
    BY DEF Maker!Typed
  <2>2. \A p \in MakerProfiles : s1'[p] = IF p \in S \intersect Maker!Shown THEN s7[1].results[p] ELSE s1[p]
    BY <1>5
  <2>3. \A p \in MakerProfiles : s1'[p] \in Maker!Statuses
    BY <1>6, <2>1, <2>2 DEF Maker!Statuses
  <2> QED
    BY <1>5, <1>6, <2>2, <2>3
<1>8. Maker!Typed'
  BY <1>1, <1>2, <1>7 DEF Maker!Typed
<1>9. Maker!EndIsLast'
  <2>1. Maker!Batches => Maker!Batches'
    BY <1>2 DEF Maker!Batches
  <2>2. ASSUME s6.pc = "idle"
        PROVE  \E n \in DOMAIN s7' : /\ s7'[n].kind # "batch"
                                     /\ \A i \in DOMAIN s7' : i = n \/ (i < n /\ s7'[i].kind = "batch")
    <3>1. PICK n \in DOMAIN s7 : /\ s7[n].kind # "batch"
                                 /\ \A i \in DOMAIN s7 : i = n \/ (i < n /\ s7[i].kind = "batch")
      BY <1>3, <2>2 DEF Maker!EndIsLast
    <3>2. n # 1 /\ n - 1 \in DOMAIN s7' /\ s7'[n - 1].kind # "batch"
      BY <1>2, <3>1
    <3>3. ASSUME NEW i \in DOMAIN s7' PROVE i = n - 1 \/ (i < n - 1 /\ s7'[i].kind = "batch")
      <4>1. i + 1 = n \/ (i + 1 < n /\ s7'[i].kind = "batch")
        BY <1>2, <3>1
      <4>2. i \in Nat /\ n \in Nat
        BY <1>2
      <4> QED
        BY <4>1, <4>2
    <3> QED
      BY <3>2, <3>3
  <2> QED
    BY <1>1, <1>3, <2>1, <2>2 DEF Maker!EndIsLast
<1>10. Maker!RoundInv'
  BY <1>1 DEF Maker!RoundInv, Maker!InRound
<1>11. s4 \subseteq Maker!Shown /\ s4 \subseteq MakerProfiles
  BY <1>3 DEF Maker!Progress, Maker!Typed
<1>12. s4' \subseteq Maker!Shown'
  <2>1. \A p \in s4 : s1'[p] # "absent"
    BY <1>7, <1>11 DEF Maker!Shown
  <2> QED
    BY <1>1, <1>11, <2>1 DEF Maker!Shown
<1>13. \A p \in s4 : \A v : Maker!WillShow(p, v) => Maker!WillShow(p, v)'
  BY <1>11, MakerShows
<1>14. Maker!Complete => Maker!Complete'
  <2>1. \A p : Maker!Found(p)' = Maker!Found(p)
    BY <1>1 DEF Maker!Found
  <2> QED
    BY <1>1, <1>13, <2>1 DEF Maker!Complete
<1>15. (\E i \in DOMAIN s7' : s7'[i].kind = "done" /\ ~s7'[i].cancelled) => Maker!Complete'
  <2>1. (\E i \in DOMAIN s7' : s7'[i].kind = "done" /\ ~s7'[i].cancelled)
          => \E i \in DOMAIN s7 : s7[i].kind = "done" /\ ~s7[i].cancelled
    BY <1>2
  <2> QED
    BY <1>3, <1>14, <2>1 DEF Maker!Progress
<1>16. \A p \in MakerProfiles : s1'[p] = "testing" => p \in s4' \union s10'
  BY <1>1, <1>3, <1>7 DEF Maker!Progress
<1>17. Maker!Progress'
  BY <1>1, <1>3, <1>12, <1>13, <1>14, <1>15, <1>16 DEF Maker!Progress
<1> QED
  BY <1>8, <1>9, <1>10, <1>17

\* The page takes the end: the rows it leaves alone show what was found.
LEMMA MakerTakesEnd ==
  ASSUME Maker!MakerInv, Maker!TakeDone \/ Maker!TakeFailed
  PROVE  Maker!MakerInv'
<1> USE DEF Maker!MakerInv
<1>1. s3' = "idle" /\ UNCHANGED <<s4, s5, s6, s10>>
  BY DEF Maker!TakeDone, Maker!TakeFailed
<1>2. PICK k \in {"done", "failed"} : Maker!Takes(k) /\ (k = "failed" => Maker!TakeFailed)
                                      /\ (k = "done" => Maker!TakeDone)
  BY DEF Maker!TakeDone, Maker!TakeFailed
<1>3. /\ s7[1].kind = k /\ s7[1] = Head(s7) /\ 1 \in DOMAIN s7 /\ DOMAIN s7 = 1..Len(s7)
      /\ s7' \in Seq(Maker!Messages)
      /\ DOMAIN s7' = 1..(Len(s7) - 1) /\ Len(s7) \in Nat
      /\ \A i \in DOMAIN s7' : i + 1 \in DOMAIN s7 /\ s7'[i] = s7[i + 1]
      /\ \A i \in DOMAIN s7' : s7'[i].kind = "batch" => s7'[i].results \in Maker!Results
  BY <1>2, MakerTakes
<1>4. s3 = "running" /\ s6.pc = "idle"
  BY <1>2, <1>3 DEF Maker!EndIsLast, Maker!Batches
<1>5. \A i \in DOMAIN s7 : i = 1
  <2>1. PICK n \in DOMAIN s7 : /\ s7[n].kind # "batch"
                               /\ \A i \in DOMAIN s7 : i = n \/ (i < n /\ s7[i].kind = "batch")
    BY <1>4 DEF Maker!EndIsLast
  <2>2. n = 1
    BY <1>2, <1>3, <2>1
  <2> QED
    BY <1>3, <2>1, <2>2
<1>6. s7' = <<>>
  <2>1. Len(s7) = 1
    BY <1>3, <1>5
  <2>2. DOMAIN s7' = 1..0
    BY <1>3, <2>1
  <2> QED
    BY <1>3, <2>2
<1>7. /\ s1' \in [MakerProfiles -> Maker!Statuses]
      /\ s1' = s1 \/ \A p \in MakerProfiles : s1'[p] # "testing"
  <2>1. \A S : /\ Maker!Reset(S) \in [MakerProfiles -> Maker!Statuses]
               /\ \A p \in MakerProfiles : Maker!Reset(S)[p] # "testing"
    BY DEF Maker!Reset, Maker!Statuses, Maker!Typed
  <2>2. s1' = s1 \/ s1' = Maker!Reset(s2) \/ s1' = Maker!Reset({})
    BY DEF Maker!TakeDone, Maker!TakeFailed
  <2>3. s1 \in [MakerProfiles -> Maker!Statuses]
    BY DEF Maker!Typed
  <2> QED
    BY <2>1, <2>2, <2>3
<1>8. ASSUME s9' = "complete" \/ \E p \in MakerProfiles : s1'[p] = "testing" PROVE s1' = s1 /\ Maker!Complete
  <2>1. CASE Maker!TakeDone
    <3>1. ~s7[1].cancelled
      BY <1>3, <1>8, <2>1, <1>7 DEF Maker!TakeDone, Maker!Reset, Maker!Typed
    <3>2. s1' = s1 /\ s7[1].kind = "done"
      BY <1>3, <2>1, <3>1 DEF Maker!TakeDone, Maker!Takes
    <3> QED
      BY <1>3, <1>4, <3>1, <3>2 DEF Maker!Progress
  <2>2. CASE Maker!TakeFailed
    <3>1. s9' = "error" /\ s1' = Maker!Reset({})
      BY <2>2 DEF Maker!TakeFailed
    <3> QED
      BY <1>8, <3>1 DEF Maker!Reset
  <2> QED
    BY <2>1, <2>2
<1>9. \A p, v : Maker!WillShow(p, v) => s1[p] = v
  <2>1. \A p : Maker!Mentions(p) = {}
    BY <1>2, <1>3, <1>5 DEF Maker!Mentions
  <2> QED
    BY <2>1 DEF Maker!WillShow
<1>10. Maker!Complete => \A p \in s4 : s1[p] = Maker!Found(p) /\ s1[p] # "testing"
  BY <1>9 DEF Maker!Complete, Maker!Found
<1>11. Maker!Typed' /\ Maker!EndIsLast' /\ Maker!RoundInv'
  <2>1. Maker!Typed'
    BY <1>1, <1>3, <1>7 DEF Maker!Typed
  <2>2. Maker!EndIsLast'
    BY <1>1, <1>4, <1>6 DEF Maker!EndIsLast
  <2> QED
    BY <1>1, <2>1, <2>2 DEF Maker!RoundInv, Maker!InRound
<1>12. s9' = "complete" => \A p \in s4' : s1'[p] = Maker!Found(p)'
  BY <1>1, <1>8, <1>10 DEF Maker!Found
<1>13. \A p \in MakerProfiles : s1'[p] = "testing" => p \in s10'
  <2> SUFFICES ASSUME NEW p \in MakerProfiles, s1'[p] = "testing" PROVE p \in s10'
    OBVIOUS
  <2>1. s1' = s1 /\ Maker!Complete
    BY <1>8
  <2>2. p \in s4 \union s10
    BY <1>4, <2>1 DEF Maker!Progress
  <2>3. p \notin s4
    BY <1>10, <2>1
  <2> QED
    BY <1>1, <2>2, <2>3
<1>14. Maker!Progress'
  BY <1>1, <1>12, <1>13 DEF Maker!Progress
<1> QED
  BY <1>11, <1>14

\* Every step keeps it.
LEMMA MakerStep ==
  ASSUME Maker!MakerInv, Maker!Next
  PROVE  Maker!MakerInv'
BY MakerPageStep, MakerLaunched, MakerSilentStep, MakerBatchStep, MakerEnds, MakerTakesBatch,
   MakerTakesEnd DEF Maker!Next

\* It says what the rows show.
LEMMA MakerShowsFound == Maker!MakerInv => Maker!RowsAsFound
BY DEF Maker!MakerInv, Maker!Progress, Maker!RowsAsFound

\* What the composition does to the SNI Maker.
LEMMA MakerPart ==
  ASSUME [Next]_vars, part = "maker"
  PROVE  Maker!Next \/ UNCHANGED Maker!vars
BY DEF Next, vars, Maker!vars, Maker!table, Maker!test

\* The rows of the SNI Maker show what the rounds of their own test found, and a wizard
\* that is shown as running has something under way, whatever signals come in between.
THEOREM TestsAreShown == Spec => []TestsEndAsFound
<1> DEFINE Inv == (part = "maker" => Maker!MakerInv) /\ (part = "guide" => Guide!FlowInv)
<1>1. Init => Inv
  BY MakerInit, GuideInit DEF Init
<1>2. Inv /\ [Next]_vars => Inv'
  <2> SUFFICES ASSUME Inv, [Next]_vars PROVE Inv'
    OBVIOUS
  <2>1. part' = part
    BY PartStays
  <2>2. ASSUME part = "maker" PROVE Maker!MakerInv'
    <3>1. CASE Maker!Next
      BY <2>2, <3>1, MakerStep
    <3>2. CASE UNCHANGED Maker!vars
      <4>1. UNCHANGED <<s1, s3, s4, s5, s6, s7, s9, s10>>
        BY <3>2 DEF Maker!vars, Maker!table, Maker!test
      <4> QED
        BY <2>2, <4>1, MakerSame
    <3> QED
      BY <2>2, <3>1, <3>2, MakerPart
  <2>3. ASSUME part = "guide" PROVE Guide!FlowInv'
    <3>1. CASE Guide!Next
      BY <2>3, <3>1, GuideStep
    <3>2. CASE UNCHANGED Guide!vars
      <4>1. UNCHANGED <<s2, s4, s6, s7, s8, s9, s10, s11, s12>>
        BY <3>2 DEF Guide!vars
      <4> QED
        BY <2>3, <4>1 DEF Guide!FlowInv, Guide!Sources, Guide!FlowUnderWay, Guide!Sent, Guide!Testing
    <3> QED
      BY <2>3, <3>1, <3>2, GuidePart
  <2> QED
    BY <2>1, <2>2, <2>3
<1>3. Inv => TestsEndAsFound
  BY MakerShowsFound DEF TestsEndAsFound, Guide!FlowInv
<1> QED
  BY <1>1, <1>2, <1>3, PTL DEF Spec

(***************************************************************************)
(* Properties of several parts                                             *)
(***************************************************************************)
\* A name or a tuning of one carrier is never in use on another, however the scan, the
\* page and the threads that change the settings take turns; but for the best of more
\* rows than there are configs, whose carrier nobody looks at.
THEOREM NoCarrierMixed == Spec => []CarriersApart
<1> DEFINE Inv == /\ part = "scan" => Scan!ScanTagged /\ Scan!OwnSnis /\ Scan!FailedApplyKeeps
                  /\ part = "store" => Store!OwnWrites
<1>1. Init => Inv
  BY ScanInit, StoreInit DEF Init
<1>2. Inv /\ [Next]_vars => Inv'
  <2> SUFFICES ASSUME Inv, [Next]_vars PROVE Inv'
    OBVIOUS
  <2>1. part' = part
    BY PartStays
  <2>2. CASE part = "scan"
    <3>1. CASE Scan!Next
      BY <2>1, <2>2, <3>1, ScanStep
    <3>2. CASE UNCHANGED Scan!vars
      BY <2>1, <2>2, <3>2 DEF Scan!vars, Scan!prefs, Scan!ScanTagged, Scan!OwnSnis, Scan!OwnSni,
        Scan!TestedOr, Scan!TestedHere, Scan!FailedApplyKeeps
    <3> QED
      BY <2>2, <3>1, <3>2, ScanPart
  <2>3. CASE part = "store"
    <3>1. CASE Store!Next
      BY <2>1, <2>3, <3>1, StoreOwn
    <3>2. CASE UNCHANGED Store!vars
      BY <2>1, <2>3, <3>2 DEF Store!vars, Store!OwnWrites
    <3> QED
      BY <2>3, <3>1, <3>2, StorePart
  <2> QED
    BY <2>1, <2>2, <2>3
<1>3. Inv => CarriersApart
  <2> SUFFICES ASSUME Inv PROVE CarriersApart
    OBVIOUS
  <2>1. ASSUME part = "scan" PROVE Scan!PinnedWhereTested
    BY <2>1 DEF Scan!OwnSnis, Scan!OwnSni, Scan!PinnedWhereTested
  <2>2. ASSUME part = "store" PROVE Store!CarriersApart
    <3>1. \A s \in {s1, s2} : s.buckets \in Store!OwnBuckets /\ s.active \in Store!OwnTunings
      BY <2>2 DEF Store!OwnWrites, Store!OwnMemories
    <3> QED
      BY <3>1 DEF Store!CarriersApart, Store!OwnBuckets, Store!OwnTunings, Store!Carriers
  <2> QED
    BY <2>1, <2>2 DEF CarriersApart
<1> QED
  BY <1>1, <1>2, <1>3, PTL DEF Spec

\* No file is behind its memory for good, no failed apply leaves half of it, and no entry of
\* the old data is lost to the one-time reset but what of a folder could not be copied.
THEOREM NothingLost == Spec => []DataKept
<1> DEFINE Inv == /\ part = "scan" => Scan!ScanTagged /\ Scan!OwnSnis /\ Scan!FailedApplyKeeps
                  /\ part = "store" => Store!OwnWrites /\ Store!SavesFollow
                  /\ part = "reset" => Reset!OldDataInv
<1>1. Init => Inv
  BY ScanInit, StoreInit, ResetInit DEF Init
<1>2. Inv /\ [Next]_vars => Inv'
  <2> SUFFICES ASSUME Inv, [Next]_vars PROVE Inv'
    OBVIOUS
  <2>1. part' = part
    BY PartStays
  <2>2. CASE part = "scan"
    <3>1. CASE Scan!Next
      BY <2>1, <2>2, <3>1, ScanStep
    <3>2. CASE UNCHANGED Scan!vars
      BY <2>1, <2>2, <3>2 DEF Scan!vars, Scan!prefs, Scan!ScanTagged, Scan!OwnSnis, Scan!OwnSni,
        Scan!TestedOr, Scan!TestedHere, Scan!FailedApplyKeeps
    <3> QED
      BY <2>2, <3>1, <3>2, ScanPart
  <2>3. CASE part = "store"
    <3>1. CASE Store!Next
      BY <2>1, <2>3, <3>1, StoreOwn, StoreFollows
    <3>2. CASE UNCHANGED Store!vars
      BY <2>1, <2>3, <3>2 DEF Store!vars, Store!OwnWrites, Store!SavesFollow, Store!FileCurrent,
        Store!Idle
    <3> QED
      BY <2>3, <3>1, <3>2, StorePart
  <2>4. CASE part = "reset"
    <3>1. CASE Reset!Next
      BY <2>1, <2>4, <3>1, ResetStep
    <3>2. CASE UNCHANGED Reset!vars
      BY <2>1, <2>4, <3>2 DEF Reset!vars, Reset!OldDataInv, Reset!OldDataKept
    <3> QED
      BY <2>4, <3>1, <3>2, ResetPart
  <2> QED
    BY <2>1, <2>2, <2>3, <2>4
<1>3. Inv => DataKept
  BY DEF DataKept, Store!SavesFollow, Reset!OldDataInv
<1> QED
  BY <1>1, <1>2, <1>3, PTL DEF Spec
(***************************************************************************)
(* The wrong-sequence injector                                             *)
(***************************************************************************)
\* Append on a sequence that is written out.
LEMMA AppendToOne ==
  ASSUME NEW a, NEW b
  PROVE  Append(<<a>>, b) = <<a, b>>
<1>1. Append(<<a>>, b) \in Seq({a, b}) /\ <<a, b>> \in Seq({a, b})
  OBVIOUS
<1>2. Len(Append(<<a>>, b)) = 2 /\ \A i \in 1..2 : Append(<<a>>, b)[i] = <<a, b>>[i]
  OBVIOUS
<1> QED
  BY <1>1, <1>2, SeqEqual

\* The same for two elements.
LEMMA AppendToTwo ==
  ASSUME NEW a, NEW b, NEW c
  PROVE  Append(<<a, b>>, c) = <<a, b, c>>
<1>1. Append(<<a, b>>, c) \in Seq({a, b, c}) /\ <<a, b, c>> \in Seq({a, b, c})
  OBVIOUS
<1>2. Len(Append(<<a, b>>, c)) = 3 /\ \A i \in 1..3 : Append(<<a, b>>, c)[i] = <<a, b, c>>[i]
  OBVIOUS
<1> QED
  BY <1>1, <1>2, SeqEqual

\* The parts of a sequence of two, and of none.
LEMMA ListOfTwo ==
  ASSUME NEW a, NEW b
  PROVE  Tail(<<a, b>>) = <<b>> /\ <<a, b>>[1] = a /\ Len(<<>>) = 0
OBVIOUS

\* There is no number from 1 to 0.
LEMMA NoneBelowOne == \A i \in 1..0 : FALSE
OBVIOUS

\* An empty sequence, and what is left of a sequence that is written out.
LEMMA ListsOfPackets ==
  ASSUME NEW a, NEW b, NEW c
  PROVE  /\ Append(<<>>, a) = <<a>>
         /\ Tail(<<a>>) = <<>> /\ Tail(<<a, b>>) = <<b>> /\ Tail(<<a, b, c>>) = <<b, c>>
         /\ <<a>>[1] = a /\ <<a, b>>[1] = a /\ <<a, b, c>>[1] = a
OBVIOUS

\* Before a session dials there is no flow, and nothing is wrong with that.
LEMMA WireNoFlow ==
  ASSUME NEW at, NEW b, at \in {"hello", "answer", "relay"} => ~b
  PROVE  Wire!FlowInv(Wire!NoFlow, at, b)
<1>1. Wire!NoFlow \in Wire!Flow
  <2>1. /\ WireModulus \in 0..WireModulus /\ 0 \in 0..WireRepeat /\ 0 \in 0..WireModulus - 1
        /\ <<>> \in Seq(Wire!Packet)
    BY WireAssumption
  <2>2. FALSE \in BOOLEAN /\ "none" \in {"none", "queued", "check", "send"}
        /\ "none" \in {"none", "syn", "synack", "open"}
    OBVIOUS
  <2>3. "" \in Wire!Results
    BY Zenon DEF Wire!Results
  <2> QED
    BY <2>1, <2>2, <2>3, Zenon DEF Wire!Flow, Wire!NoFlow, Wire!NoSeq
<1>2. PICK f : f = Wire!NoFlow
  OBVIOUS
<1>3. /\ f.monitor = FALSE /\ f.scheduled = FALSE /\ f.sent = FALSE /\ f.pool = "none"
      /\ f.fakes = 0 /\ f.acked = 0 /\ f.wire = "none" /\ f.odd = FALSE /\ f.broken = FALSE /\ f.late = FALSE
      /\ f.result \notin {"fake_data_ack_recv", "unexpected_close"}
  BY <1>2, Zenon DEF Wire!NoFlow
<1>4. Wire!PoolInv(f)
  BY <1>3 DEF Wire!PoolInv
<1>5. Wire!PlaceInv(f, at, b)
  BY <1>2, <1>3 DEF Wire!PlaceInv
<1>6. Wire!SynFirst(f, at) /\ Wire!Orderly(f)
  BY <1>3 DEF Wire!SynFirst, Wire!Orderly
<1> QED
  BY <1>1, <1>2, <1>3, <1>4, <1>5, <1>6 DEF Wire!FlowInv

\* A session that neither begins nor ends to dial leaves its flow as it is.
LEMMA WirePlace ==
  ASSUME NEW f, NEW at, NEW to, NEW b, Wire!FlowInv(f, at, b), at # "dial", to # "dial",
         to \in {"hello", "answer", "relay"} => at \in {"hello", "answer", "relay"}
  PROVE  Wire!FlowInv(f, to, b)
<1>1. Wire!PlaceInv(f, to, b)
  BY DEF Wire!FlowInv, Wire!PlaceInv
<1>2. Wire!SynFirst(f, to)
  BY DEF Wire!SynFirst
<1> QED
  BY <1>1, <1>2 DEF Wire!FlowInv

\* The SYN is the first packet of a flow.
LEMMA WireDialled ==
  ASSUME NEW n \in 0..WireModulus - 1, NEW f \in Wire!Flow, NEW b, b,
         f.monitor, f.result \notin {"fake_data_ack_recv", "unexpected_close"}, f.synSeq = Wire!NoSeq, ~f.scheduled, ~f.sent,
         f.pool = "none", f.fakes = 0, f.acked = 0, f.wire = "syn", ~f.odd, ~f.broken, ~f.late,
         f.captured = <<[inbound |-> FALSE, kind |-> "syn", seq |-> n, ack |-> 0]>>
  PROVE  Wire!FlowInv(f, "dial", b)
<1>1. Wire!PoolInv(f)
  BY DEF Wire!PoolInv
<1>2. Wire!PlaceInv(f, "dial", b)
  BY DEF Wire!PlaceInv
<1>3. Wire!SynFirst(f, "dial")
  BY DEF Wire!SynFirst
<1>4. Wire!Waiting(f, n)
  BY DEF Wire!Waiting
<1>5. Wire!Orderly(f)
  BY <1>4 DEF Wire!Orderly
<1> QED
  BY <1>1, <1>2, <1>3, <1>5 DEF Wire!FlowInv

\* A flow that is no longer watched has nothing to be wrong about.
LEMMA WireLetGo ==
  ASSUME NEW f, NEW g \in Wire!Flow, NEW to, NEW b, Wire!FlowInv(f, "dial", b),
         to \in {"try", "hello"}, to = "hello" => (b => f.result = "fake_data_ack_recv"),
         ~g.monitor, g.result = f.result, g.scheduled = f.scheduled, g.sent = f.sent,
         g.pool = f.pool, g.fakes = f.fakes, g.acked = f.acked, g.odd = f.odd, g.broken = f.broken, g.late = f.late
  PROVE  Wire!FlowInv(g, to, b)
<1>1. Wire!PoolInv(g)
  BY DEF Wire!FlowInv, Wire!PoolInv
<1>2. Wire!PlaceInv(g, to, b)
  <2>1. ASSUME ~b PROVE f.pool = "none"
    <3>1. f = Wire!NoFlow
      BY <2>1 DEF Wire!FlowInv, Wire!PlaceInv
    <3> QED
      BY <3>1, Zenon DEF Wire!NoFlow
  <2> QED
    BY <2>1 DEF Wire!FlowInv, Wire!PlaceInv
<1>3. Wire!SynFirst(g, to) /\ Wire!Orderly(g)
  BY DEF Wire!FlowInv, Wire!SynFirst, Wire!Orderly
<1> QED
  BY <1>1, <1>2, <1>3 DEF Wire!FlowInv

\* What happens on the wire of a dialling session adds a packet at the end.
LEMMA WireAdds ==
  ASSUME NEW f, NEW g \in Wire!Flow, NEW p \in Wire!Packet, NEW b,
         Wire!FlowInv(f, "dial", b), f.wire # "none",
         g.captured = Append(f.captured, p), g.monitor = f.monitor, g.result = f.result,
         g.synSeq = f.synSeq, g.scheduled = f.scheduled, g.sent = f.sent, g.pool = f.pool,
         g.fakes = f.fakes, g.acked \in f.acked..f.fakes, g.wire # "none", g.late = f.late,
         g.broken = f.broken, Wire!Orderly(g)
  PROVE  Wire!FlowInv(g, "dial", b)
<1>1. Wire!PoolInv(g)
  BY DEF Wire!FlowInv, Wire!PoolInv, Wire!Flow
<1>2. b
  <2>1. Wire!NoFlow.wire = "none"
    BY Zenon DEF Wire!NoFlow
  <2> QED
    BY <2>1 DEF Wire!FlowInv, Wire!PlaceInv
<1>3. Wire!PlaceInv(g, "dial", b)
  BY <1>2 DEF Wire!FlowInv, Wire!PlaceInv
<1>4. Wire!SynFirst(g, "dial")
  <2> SUFFICES ASSUME f.synSeq = Wire!NoSeq PROVE Wire!SynFirst(g, "dial")
    BY DEF Wire!SynFirst
  <2>1. f.captured \in Seq(Wire!Packet) /\ f.captured # <<>>
    BY DEF Wire!FlowInv, Wire!SynFirst, Wire!Flow
  <2>2. g.captured # <<>> /\ g.captured[1] = f.captured[1]
    BY <2>1
  <2> QED
    BY <2>2 DEF Wire!FlowInv, Wire!SynFirst
<1> QED
  BY <1>1, <1>3, <1>4 DEF Wire!FlowInv

\* The number of a handshake is that of its SYN, whether it is still captured or taken.
LEMMA WireOwn ==
  ASSUME NEW f, NEW b, Wire!FlowInv(f, "dial", b), f.wire # "none"
  PROVE  (IF f.synSeq # Wire!NoSeq THEN f.synSeq ELSE f.captured[1].seq) \in 0..WireModulus - 1
<1>1. f.synSeq \in 0..WireModulus
  BY DEF Wire!FlowInv, Wire!Flow
<1> QED
  BY <1>1, WireAssumption DEF Wire!FlowInv, Wire!SynFirst, Wire!NoSeq

\* The peer answers the SYN, once.
LEMMA WireAccepts ==
  ASSUME NEW f, NEW g, NEW b, Wire!FlowInv(f, "dial", b), NEW own, NEW p, f.wire = "syn",
         own = IF f.synSeq # Wire!NoSeq THEN f.synSeq ELSE f.captured[1].seq,
         p = [inbound |-> TRUE, kind |-> "synack", seq |-> f.isn, ack |-> Wire!After(own)],
         g.captured = Append(f.captured, p),
         g.wire = "synack", g.monitor = f.monitor, g.result = f.result, g.odd = f.odd, g.broken = f.broken,
         g.scheduled = f.scheduled, g.synSeq = f.synSeq, g.synAckSeq = f.synAckSeq, g.isn = f.isn
  PROVE  Wire!Orderly(g)
<1> SUFFICES ASSUME g.monitor, ~g.odd PROVE Wire!Orderly(g)
  BY DEF Wire!Orderly, Wire!FlowInv
<1>1. PICK n \in 0..WireModulus - 1 : Wire!Waiting(f, n)
  BY DEF Wire!FlowInv, Wire!Orderly, Wire!Answers
<1>2. ~g.scheduled
  BY DEF Wire!FlowInv, Wire!Orderly, Wire!Answers
<1>3. n # Wire!NoSeq /\ own = n
  BY <1>1, WireAssumption DEF Wire!Waiting, Wire!NoSeq
<1>a. PICK syn : syn = [inbound |-> FALSE, kind |-> "syn", seq |-> n, ack |-> 0]
  OBVIOUS
<1>4. \/ f.synSeq = Wire!NoSeq /\ f.captured = <<syn>>
      \/ f.synSeq = n /\ f.captured = <<>>
  BY <1>1, <1>a DEF Wire!Waiting
<1>5. \/ f.synSeq = Wire!NoSeq /\ g.captured = <<syn, p>>
      \/ f.synSeq = n /\ g.captured = <<p>>
  <2>1. CASE f.synSeq = Wire!NoSeq /\ f.captured = <<syn>>
    <3>1. g.captured = Append(<<syn>>, p)
      BY <2>1
    <3> QED
      BY <2>1, <3>1, AppendToOne
  <2>2. CASE f.synSeq = n /\ f.captured = <<>>
    <3>1. g.captured = Append(<<>>, p)
      BY <2>2
    <3> QED
      BY <2>2, <3>1, ListsOfPackets
  <2> QED
    BY <1>4, <2>1, <2>2
<1>6. Wire!Waiting(g, n)
  BY <1>3, <1>a, <1>5 DEF Wire!Waiting
<1> QED
  BY <1>2, <1>6 DEF Wire!Orderly, Wire!FlowInv

\* The system answers the SYN-ACK, once.
LEMMA WireHandshaken ==
  ASSUME NEW f, NEW g, NEW b, Wire!FlowInv(f, "dial", b), NEW own, NEW p, f.wire = "synack",
         own = IF f.synSeq # Wire!NoSeq THEN f.synSeq ELSE f.captured[1].seq,
         p = [inbound |-> FALSE, kind |-> "ack", seq |-> Wire!After(own),
              ack |-> Wire!After(f.isn)],
         g.captured = Append(f.captured, p),
         g.wire = "open", g.monitor = f.monitor, g.result = f.result, g.odd = f.odd, g.broken = f.broken,
         g.scheduled = f.scheduled, g.synSeq = f.synSeq, g.synAckSeq = f.synAckSeq, g.isn = f.isn
  PROVE  Wire!Orderly(g)
<1> SUFFICES ASSUME g.monitor, ~g.odd PROVE Wire!Orderly(g)
  BY DEF Wire!Orderly, Wire!FlowInv
<1>1. PICK n \in 0..WireModulus - 1 : Wire!Waiting(f, n)
  BY DEF Wire!FlowInv, Wire!Orderly, Wire!Answers
<1>2. ~g.scheduled
  BY DEF Wire!FlowInv, Wire!Orderly, Wire!Answers
<1>3. n # Wire!NoSeq /\ own = n
  BY <1>1, WireAssumption DEF Wire!Waiting, Wire!NoSeq
<1>a. PICK syn : syn = [inbound |-> FALSE, kind |-> "syn", seq |-> n, ack |-> 0]
  OBVIOUS
<1>b. PICK answer : answer = [inbound |-> TRUE, kind |-> "synack", seq |-> f.isn,
                              ack |-> Wire!After(n)]
  OBVIOUS
<1>4. \/ f.synSeq = Wire!NoSeq /\ f.captured = <<syn, answer>>
      \/ f.synSeq = n /\ f.captured = <<answer>>
      \/ f.synSeq = n /\ f.synAckSeq = f.isn /\ f.captured = <<>>
  BY <1>1, <1>a, <1>b DEF Wire!Waiting
<1>5. \/ f.synSeq = Wire!NoSeq /\ g.captured = <<syn, answer, p>>
      \/ f.synSeq = n /\ g.captured = <<answer, p>>
      \/ f.synSeq = n /\ f.synAckSeq = f.isn /\ g.captured = <<p>>
  <2>1. CASE f.synSeq = Wire!NoSeq /\ f.captured = <<syn, answer>>
    <3>1. g.captured = Append(<<syn, answer>>, p)
      BY <2>1
    <3> QED
      BY <2>1, <3>1, AppendToTwo
  <2>2. CASE f.synSeq = n /\ f.captured = <<answer>>
    <3>1. g.captured = Append(<<answer>>, p)
      BY <2>2
    <3> QED
      BY <2>2, <3>1, AppendToOne
  <2>3. CASE f.synSeq = n /\ f.synAckSeq = f.isn /\ f.captured = <<>>
    <3>1. g.captured = Append(<<>>, p)
      BY <2>3
    <3> QED
      BY <2>3, <3>1, ListsOfPackets
  <2> QED
    BY <1>4, <2>1, <2>2, <2>3
<1>6. Wire!Waiting(g, n)
  BY <1>3, <1>a, <1>b, <1>5 DEF Wire!Waiting
<1> QED
  BY <1>2, <1>6 DEF Wire!Orderly, Wire!FlowInv

\* The peer answers fakes that were sent.
LEMMA WireAcksFake ==
  ASSUME NEW f, NEW g, NEW b, Wire!FlowInv(f, "dial", b), NEW own, NEW p, f.acked < f.fakes,
         own = IF f.synSeq # Wire!NoSeq THEN f.synSeq ELSE f.captured[1].seq,
         p = [inbound |-> TRUE, kind |-> "ack", seq |-> Wire!After(f.isn),
              ack |-> Wire!After(own)],
         g.captured = Append(f.captured, p),
         g.wire = f.wire, g.monitor = f.monitor, g.result = f.result, g.odd = f.odd, g.broken = f.broken,
         g.scheduled = f.scheduled, g.synSeq = f.synSeq, g.synAckSeq = f.synAckSeq,
         g.isn = f.isn, g.fakes = f.fakes
  PROVE  Wire!Orderly(g)
<1> SUFFICES ASSUME g.monitor, ~g.odd PROVE Wire!Orderly(g)
  BY DEF Wire!Orderly, Wire!FlowInv
<1>1. f.captured \in Seq(Wire!Packet) /\ f.acked \in Nat /\ f.fakes \in Nat
  BY WireAssumption DEF Wire!FlowInv, Wire!Flow
<1>2. f.scheduled
  BY <1>1 DEF Wire!FlowInv, Wire!PoolInv
<1>3. Wire!Answers(f)
  BY <1>2 DEF Wire!FlowInv, Wire!Orderly
<1>4. own = f.synSeq
  BY <1>3 DEF Wire!Answers
<1>5. Wire!Answers(g)
  <2>1. ASSUME NEW i \in 1..Len(g.captured)
        PROVE  g.captured[i] = p
    <3>1. i \in 1..Len(f.captured) \/ i = Len(f.captured) + 1
      BY <1>1
    <3>2. CASE i \in 1..Len(f.captured)
      <4>1. g.captured[i] = f.captured[i]
        BY <1>1, <3>2
      <4> QED
        BY <1>3, <1>4, <3>2, <4>1 DEF Wire!Answers
    <3>3. CASE i = Len(f.captured) + 1
      BY <1>1, <3>3
    <3> QED
      BY <3>1, <3>2, <3>3
  <2>2. g.fakes > 0
    BY <1>1
  <2> QED
    BY <1>3, <1>4, <2>1, <2>2 DEF Wire!Answers
<1> QED
  BY <1>2, <1>5 DEF Wire!Orderly, Wire!FlowInv

\* What the capture thread takes of a flow that is not watched changes nothing.
LEMMA WireIgnored ==
  ASSUME NEW f, NEW g \in Wire!Flow, NEW at, NEW b, Wire!FlowInv(f, at, b), ~f.monitor,
         f.captured # <<>>, g.monitor = f.monitor, g.result = f.result, g.sent = f.sent,
         g.synSeq = f.synSeq, g.scheduled = f.scheduled, g.pool = f.pool, g.fakes = f.fakes,
         g.acked = f.acked, g.wire = f.wire, g.odd = f.odd, g.broken = f.broken, g.late = f.late
  PROVE  Wire!FlowInv(g, at, b)
<1>1. Wire!PoolInv(g)
  BY DEF Wire!FlowInv, Wire!PoolInv
<1>2. at = "dial" => b
  <2>1. Wire!NoFlow.captured = <<>>
    BY Zenon DEF Wire!NoFlow
  <2> QED
    BY <2>1 DEF Wire!FlowInv, Wire!PlaceInv
<1>3. Wire!PlaceInv(g, at, b)
  BY <1>2 DEF Wire!FlowInv, Wire!PlaceInv
<1>4. Wire!SynFirst(g, at)
  BY DEF Wire!FlowInv, Wire!SynFirst
<1>5. Wire!Orderly(g)
  BY DEF Wire!FlowInv, Wire!Orderly
<1> QED
  BY <1>1, <1>3, <1>4, <1>5 DEF Wire!FlowInv

\* A watched flow belongs to a session that dials with fakes on.
LEMMA WireWatched ==
  ASSUME NEW f, NEW at, NEW b, Wire!FlowInv(f, at, b), f.monitor
  PROVE  at = "dial" /\ b /\ f.wire # "none"
<1>1. Wire!NoFlow.monitor = FALSE
  BY Zenon DEF Wire!NoFlow
<1> QED
  BY <1>1 DEF Wire!FlowInv, Wire!PlaceInv

\* A flow that ends, well or given up, leaves the rest as it is.
LEMMA WireEnds ==
  ASSUME NEW f, NEW g \in Wire!Flow, NEW at, NEW b, Wire!FlowInv(f, at, b), f.monitor,
         f.synSeq # Wire!NoSeq, ~g.monitor, g.sent = f.sent, g.synSeq = f.synSeq,
         g.scheduled = f.scheduled, g.pool = f.pool, g.fakes = f.fakes, g.acked = f.acked,
         g.wire = f.wire, g.odd = f.odd, g.broken = f.broken, g.late = f.late,
         g.result = "fake_data_ack_recv" => f.sent, g.result = "unexpected_close" => f.odd \/ f.broken
  PROVE  Wire!FlowInv(g, at, b)
<1>1. Wire!PoolInv(g)
  BY DEF Wire!FlowInv, Wire!PoolInv
<1>2. Wire!PlaceInv(g, at, b)
  BY WireWatched DEF Wire!PlaceInv
<1>3. Wire!SynFirst(g, at) /\ Wire!Orderly(g)
  BY DEF Wire!SynFirst, Wire!Orderly
<1> QED
  BY <1>1, <1>2, <1>3 DEF Wire!FlowInv

\* What the capture thread takes of a watched flow, and it stays watched: it keeps its place.
LEMMA WireTakes ==
  ASSUME NEW f, NEW g \in Wire!Flow, NEW at, NEW b, Wire!FlowInv(f, at, b), f.monitor,
         g.monitor, g.result = f.result, g.fakes = f.fakes, g.acked = f.acked,
         g.sent = f.sent, g.wire = f.wire, g.late = f.late, g.synSeq # Wire!NoSeq,
         Wire!PoolInv(g), Wire!Orderly(g)
  PROVE  Wire!FlowInv(g, at, b)
<1>1. Wire!PlaceInv(g, at, b)
  BY WireWatched DEF Wire!FlowInv, Wire!PlaceInv
<1>2. Wire!SynFirst(g, at)
  BY DEF Wire!SynFirst
<1> QED
  BY <1>1, <1>2 DEF Wire!FlowInv

\* The SYN gives the flow its number.
LEMMA WireTakesSyn ==
  ASSUME NEW f, NEW g \in Wire!Flow, NEW at, NEW b, Wire!FlowInv(f, at, b), f.monitor,
         f.synSeq = Wire!NoSeq, g.synSeq = f.captured[1].seq, g.captured = Tail(f.captured),
         g.monitor, g.result = f.result, g.fakes = f.fakes, g.acked = f.acked,
         g.sent = f.sent, g.wire = f.wire, g.late = f.late, g.odd = f.odd, g.broken = f.broken, g.pool = f.pool,
         g.scheduled = f.scheduled, g.synAckSeq = f.synAckSeq, g.isn = f.isn
  PROVE  Wire!FlowInv(g, at, b)
<1>1. ~f.scheduled /\ g.synSeq \in 0..WireModulus - 1
  BY WireWatched DEF Wire!FlowInv, Wire!SynFirst
<1>2. g.synSeq # Wire!NoSeq
  BY <1>1, WireAssumption DEF Wire!NoSeq
<1>3. Wire!PoolInv(g)
  BY DEF Wire!FlowInv, Wire!PoolInv
<1>4. ASSUME ~f.odd PROVE \E n \in 0..WireModulus - 1 : Wire!Waiting(g, n)
  <2>1. PICK n \in 0..WireModulus - 1 : Wire!Waiting(f, n)
    BY <1>1, <1>4 DEF Wire!FlowInv, Wire!Orderly
  <2>2. f.synSeq # n
    BY WireAssumption DEF Wire!NoSeq
  <2>a. PICK syn : syn = [inbound |-> FALSE, kind |-> "syn", seq |-> n, ack |-> 0]
    OBVIOUS
  <2>b. PICK answer : answer = [inbound |-> TRUE, kind |-> "synack", seq |-> f.isn,
                                ack |-> Wire!After(n)]
    OBVIOUS
  <2>c. PICK last : last = [inbound |-> FALSE, kind |-> "ack", seq |-> Wire!After(n),
                            ack |-> Wire!After(f.isn)]
    OBVIOUS
  <2>3. \/ f.wire = "syn" /\ f.captured = <<syn>>
        \/ f.wire = "synack" /\ f.captured = <<syn, answer>>
        \/ f.wire = "open" /\ f.captured = <<syn, answer, last>>
    BY <2>1, <2>2, <2>a, <2>b, <2>c DEF Wire!Waiting
  <2>4. /\ f.captured[1] = syn
        /\ \/ f.wire = "syn" /\ g.captured = <<>>
           \/ f.wire = "synack" /\ g.captured = <<answer>>
           \/ f.wire = "open" /\ g.captured = <<answer, last>>
    <3>1. CASE f.wire = "syn" /\ f.captured = <<syn>>
      BY <3>1, ListsOfPackets
    <3>2. CASE f.wire = "synack" /\ f.captured = <<syn, answer>>
      BY <3>2, ListsOfPackets
    <3>3. CASE f.wire = "open" /\ f.captured = <<syn, answer, last>>
      BY <3>3, ListsOfPackets
    <3> QED
      BY <2>3, <3>1, <3>2, <3>3
  <2>5. g.synSeq = n
    BY <2>4, <2>a
  <2>6. Wire!Waiting(g, n)
    BY <2>4, <2>5, <2>b, <2>c DEF Wire!Waiting
  <2> QED
    BY <2>6
<1>5. Wire!Orderly(g)
  BY <1>1, <1>4 DEF Wire!Orderly, Wire!FlowInv
<1> QED
  BY <1>2, <1>3, <1>5, WireTakes

\* Once the fakes are scheduled an orderly flow has their answers at its head.
LEMMA WireAnswered ==
  ASSUME NEW f, NEW at, NEW b, Wire!FlowInv(f, at, b), f.monitor, ~f.odd, ~f.broken, f.scheduled,
         f.captured # <<>>, f.pool \notin {"check", "send"}
  PROVE  /\ f.sent /\ f.synAckSeq = f.isn
         /\ f.captured[1] = [inbound |-> TRUE, kind |-> "ack", seq |-> Wire!After(f.isn),
                             ack |-> Wire!After(f.synSeq)]
<1>1. Wire!Answers(f)
  BY DEF Wire!FlowInv, Wire!Orderly
<1>2. f.captured \in Seq(Wire!Packet) /\ f.pool \in {"none", "queued", "check", "send"}
  BY DEF Wire!FlowInv, Wire!Flow
<1>3. 1 \in 1..Len(f.captured)
  BY <1>2
<1>4. f.fakes # 0
  BY <1>1 DEF Wire!Answers
<1>5. f.sent
  BY <1>2, <1>4 DEF Wire!FlowInv, Wire!PoolInv
<1> QED
  BY <1>1, <1>3, <1>5 DEF Wire!Answers

\* Before, it has what is left of the handshake.
LEMMA WireLeft ==
  ASSUME NEW f, NEW at, NEW b, Wire!FlowInv(f, at, b), f.monitor, ~f.odd, ~f.scheduled,
         f.synSeq # Wire!NoSeq, f.captured # <<>>, NEW answer, NEW last,
         answer = [inbound |-> TRUE, kind |-> "synack", seq |-> f.isn,
                   ack |-> Wire!After(f.synSeq)],
         last = [inbound |-> FALSE, kind |-> "ack", seq |-> Wire!After(f.synSeq),
                 ack |-> Wire!After(f.isn)]
  PROVE  \/ f.wire = "synack" /\ f.captured[1] = answer /\ Tail(f.captured) = <<>>
         \/ f.wire = "open" /\ f.captured[1] = answer /\ Tail(f.captured) = <<last>>
         \/ /\ f.wire = "open" /\ f.synAckSeq = f.isn /\ f.captured[1] = last
            /\ Tail(f.captured) = <<>>
<1>1. PICK n \in 0..WireModulus - 1 : Wire!Waiting(f, n)
  BY DEF Wire!FlowInv, Wire!Orderly
<1>2. \/ f.wire = "synack" /\ f.captured = <<answer>>
      \/ f.wire = "open" /\ f.captured = <<answer, last>>
      \/ f.wire = "open" /\ f.synAckSeq = f.isn /\ f.captured = <<last>>
  BY <1>1 DEF Wire!Waiting
<1>3. CASE f.wire = "synack" /\ f.captured = <<answer>>
  BY <1>3, ListsOfPackets
<1>4. CASE f.wire = "open" /\ f.captured = <<answer, last>>
  <2>1. <<answer, last>>[1] = answer /\ Tail(<<answer, last>>) = <<last>>
    BY ListOfTwo, Zenon
  <2> QED
    BY <1>4, <2>1
<1>5. CASE f.wire = "open" /\ f.synAckSeq = f.isn /\ f.captured = <<last>>
  BY <1>5, ListsOfPackets
<1> QED
  BY <1>2, <1>3, <1>4, <1>5

\* The SYN-ACK gives the flow the number of the peer.
LEMMA WireTakesAnswer ==
  ASSUME NEW f, NEW g \in Wire!Flow, NEW at, NEW b, Wire!FlowInv(f, at, b), f.monitor,
         f.synSeq # Wire!NoSeq, f.captured # <<>>, f.pool \notin {"check", "send"},
         f.captured[1].kind = "synack",
         g.synAckSeq = f.captured[1].seq, g.captured = Tail(f.captured),
         g.monitor, g.result = f.result, g.fakes = f.fakes, g.acked = f.acked,
         g.sent = f.sent, g.wire = f.wire, g.late = f.late, g.odd = f.odd, g.broken = f.broken, g.pool = f.pool,
         g.scheduled = f.scheduled, g.synSeq = f.synSeq, g.isn = f.isn
  PROVE  Wire!FlowInv(g, at, b)
<1>1. Wire!PoolInv(g)
  BY DEF Wire!FlowInv, Wire!PoolInv
<1>2. ASSUME ~f.odd
      PROVE  ~f.scheduled /\ \E n \in 0..WireModulus - 1 : Wire!Waiting(g, n)
  <2>1. ASSUME f.scheduled PROVE FALSE
    <3>1. f.captured[1] = [inbound |-> TRUE, kind |-> "ack", seq |-> Wire!After(f.isn),
                           ack |-> Wire!After(f.synSeq)]
      <4>1. Wire!Answers(f)
        BY <1>2, <2>1 DEF Wire!FlowInv, Wire!Orderly
      <4>2. 1 \in 1..Len(f.captured)
        BY DEF Wire!FlowInv, Wire!Flow
      <4> QED
        BY <4>1, <4>2 DEF Wire!Answers
    <3> QED
      BY <3>1
  <2>a. PICK answer : answer = [inbound |-> TRUE, kind |-> "synack", seq |-> f.isn,
                                ack |-> Wire!After(f.synSeq)]
    OBVIOUS
  <2>b. PICK last : last = [inbound |-> FALSE, kind |-> "ack", seq |-> Wire!After(f.synSeq),
                            ack |-> Wire!After(f.isn)]
    OBVIOUS
  <2>2. /\ f.captured[1] = answer
        /\ \/ f.wire = "synack" /\ g.captured = <<>>
           \/ f.wire = "open" /\ g.captured = <<last>>
    <3>1. last.kind # "synack"
      BY <2>b
    <3> QED
      BY <1>2, <2>1, <2>a, <2>b, <3>1, WireLeft
  <2>3. g.synAckSeq = f.isn
    BY <2>2, <2>a
  <2>4. Wire!Waiting(g, f.synSeq)
    BY <2>2, <2>3, <2>b DEF Wire!Waiting
  <2>5. f.synSeq \in 0..WireModulus - 1
    BY WireAssumption DEF Wire!FlowInv, Wire!Flow, Wire!NoSeq
  <2> QED
    BY <2>1, <2>4, <2>5
<1>3. Wire!Orderly(g)
  BY <1>2 DEF Wire!Orderly, Wire!FlowInv
<1> QED
  BY <1>1, <1>3, WireTakes

\* The last ACK of the handshake has the fakes scheduled.
LEMMA WireSchedules ==
  ASSUME NEW f, NEW g \in Wire!Flow, NEW at, NEW b, Wire!FlowInv(f, at, b), f.monitor,
         f.synSeq # Wire!NoSeq, f.captured # <<>>, f.pool \notin {"check", "send"},
         ~f.scheduled, ~f.captured[1].inbound,
         g.scheduled, g.pool = "queued", g.captured = Tail(f.captured),
         g.monitor, g.result = f.result, g.fakes = f.fakes, g.acked = f.acked,
         g.sent = f.sent, g.wire = f.wire, g.late = f.late, g.odd = f.odd, g.broken = f.broken,
         g.synSeq = f.synSeq, g.synAckSeq = f.synAckSeq, g.isn = f.isn
  PROVE  Wire!FlowInv(g, at, b)
<1>1. Wire!PoolInv(g)
  BY WireAssumption DEF Wire!FlowInv, Wire!PoolInv
<1>2. ASSUME ~f.odd PROVE Wire!Answers(g)
  <2>a. PICK answer : answer = [inbound |-> TRUE, kind |-> "synack", seq |-> f.isn,
                                ack |-> Wire!After(f.synSeq)]
    OBVIOUS
  <2>b. PICK last : last = [inbound |-> FALSE, kind |-> "ack", seq |-> Wire!After(f.synSeq),
                            ack |-> Wire!After(f.isn)]
    OBVIOUS
  <2>1. answer.inbound
    BY <2>a
  <2>2. f.wire = "open" /\ f.synAckSeq = f.isn /\ g.captured = <<>>
    BY <1>2, <2>a, <2>b, <2>1, WireLeft
  <2>3. Len(g.captured) = 0
    BY <2>2, ListOfTwo, Zenon
  <2>4. \A i \in 1..Len(g.captured) : FALSE
    BY <2>3, NoneBelowOne, Zenon
  <2> QED
    BY <2>2, <2>4, Zenon DEF Wire!Answers
<1>3. Wire!Orderly(g)
  BY <1>2 DEF Wire!Orderly, Wire!FlowInv
<1> QED
  BY <1>1, <1>3, WireTakes

\* The pool thread takes up its work and looks at the flow before each fake.
LEMMA WirePoolMoves ==
  ASSUME NEW f, NEW g \in Wire!Flow, NEW at, NEW b, Wire!FlowInv(f, at, b), f.pool # "none",
         g.pool \in {"check", "send", "none"}, g.pool = "none" => ~f.monitor,
         g.monitor = f.monitor, g.result = f.result, g.sent = f.sent, g.synSeq = f.synSeq,
         g.synAckSeq = f.synAckSeq, g.isn = f.isn, g.captured = f.captured,
         g.scheduled = f.scheduled, g.fakes = f.fakes, g.acked = f.acked, g.wire = f.wire,
         g.odd = f.odd, g.broken = f.broken, g.late = f.late
  PROVE  Wire!FlowInv(g, at, b)
<1>1. Wire!PoolInv(g)
  BY DEF Wire!FlowInv, Wire!PoolInv
<1>2. Wire!NoFlow.pool = "none"
  BY Zenon DEF Wire!NoFlow
<1>3. Wire!PlaceInv(g, at, b)
  BY <1>2 DEF Wire!FlowInv, Wire!PlaceInv, Wire!PoolInv
<1>4. Wire!SynFirst(g, at)
  BY DEF Wire!FlowInv, Wire!SynFirst
<1>5. f.scheduled /\ (Wire!Answers(f) => Wire!Answers(g))
  BY DEF Wire!FlowInv, Wire!PoolInv, Wire!Answers
<1>6. Wire!Orderly(g)
  BY <1>5 DEF Wire!FlowInv, Wire!Orderly
<1> QED
  BY <1>1, <1>3, <1>4, <1>6 DEF Wire!FlowInv

\* A fake is sent before the session speaks.
LEMMA WireSends ==
  ASSUME NEW f, NEW g \in Wire!Flow, NEW at, NEW b, Wire!FlowInv(f, at, b), f.pool = "send",
         g.fakes = f.fakes + 1, g.sent <=> f.fakes + 1 = WireRepeat,
         g.pool = IF f.fakes + 1 < WireRepeat THEN "check" ELSE "none",
         g.late <=> f.late \/ at \in {"hello", "answer", "relay"},
         g.monitor = f.monitor, g.result = f.result, g.synSeq = f.synSeq,
         g.synAckSeq = f.synAckSeq, g.isn = f.isn, g.captured = f.captured,
         g.scheduled = f.scheduled, g.acked = f.acked, g.wire = f.wire, g.odd = f.odd, g.broken = f.broken
  PROVE  Wire!FlowInv(g, at, b)
<1>1. f.fakes \in Nat /\ f.acked \in Nat /\ f.fakes < WireRepeat /\ f.scheduled /\ ~f.sent
  BY WireAssumption DEF Wire!FlowInv, Wire!PoolInv, Wire!Flow
<1>2. Wire!PoolInv(g)
  BY <1>1, WireAssumption DEF Wire!FlowInv, Wire!PoolInv
<1>3. Wire!NoFlow.pool = "none"
  BY Zenon DEF Wire!NoFlow
<1>4. at \notin {"hello", "answer", "relay"}
  BY <1>1 DEF Wire!FlowInv, Wire!PlaceInv
<1>5. Wire!PlaceInv(g, at, b)
  BY <1>1, <1>3, <1>4 DEF Wire!FlowInv, Wire!PlaceInv
<1>6. Wire!SynFirst(g, at)
  BY DEF Wire!FlowInv, Wire!SynFirst
<1>7. Wire!Answers(f) => Wire!Answers(g)
  <2>1. g.fakes > 0
    BY <1>1
  <2> QED
    BY <2>1 DEF Wire!Answers
<1>8. Wire!Orderly(g)
  BY <1>1, <1>7 DEF Wire!FlowInv, Wire!Orderly
<1> QED
  BY <1>2, <1>4, <1>5, <1>6, <1>8 DEF Wire!FlowInv

\* A step of one session leaves the others alone.
LEMMA WireMove ==
  ASSUME Wire!HandshakeInv, NEW s \in WireSessions, NEW g \in Wire!Flow, NEW to,
         to \in {"idle", "queued", "ask", "want", "try", "dial", "hello", "answer", "relay"},
         s1' = s1, s2' = s2, s6' = [s6 EXCEPT ![s] = to], s9' = [s9 EXCEPT ![s] = g],
         ~s1 => to = "idle", Wire!FlowInv(g, to, s2.fakes)
  PROVE  Wire!HandshakeInv'
<1>1. /\ s6' \in [WireSessions -> {"idle", "queued", "ask", "want", "try", "dial", "hello",
                                   "answer", "relay"}]
      /\ s9' \in [WireSessions -> Wire!Flow]
  BY DEF Wire!HandshakeInv
<1>2. s6'[s] = to /\ s9'[s] = g
  BY DEF Wire!HandshakeInv
<1>3. ASSUME NEW t \in WireSessions, t # s PROVE s6'[t] = s6[t] /\ s9'[t] = s9[t]
  BY <1>3 DEF Wire!HandshakeInv
<1>4. ASSUME NEW t \in WireSessions PROVE Wire!FlowInv(s9'[t], s6'[t], s2'.fakes)
  BY <1>2, <1>3 DEF Wire!HandshakeInv
<1>5. ~s1' => \A t \in WireSessions : s6'[t] = "idle"
  BY <1>2, <1>3 DEF Wire!HandshakeInv
<1> QED
  BY <1>1, <1>4, <1>5 DEF Wire!HandshakeInv

\* A session that waits, tries, speaks or relays takes its flow along.
LEMMA WirePlaces ==
  ASSUME Wire!HandshakeInv, NEW s \in WireSessions,
         \/ Wire!Accept(s) \/ Wire!Admit(s) \/ Wire!Ask(s) \/ Wire!TakeEdgeLock(s)
         \/ Wire!NoEdgeLeft(s) \/ Wire!Hello(s) \/ Wire!Answered(s) \/ Wire!NoAnswer(s)
  PROVE  Wire!HandshakeInv'
<1>1. PICK to \in {"idle", "queued", "ask", "want", "try", "answer", "relay"} :
        /\ s6' = [s6 EXCEPT ![s] = to] /\ s9' = s9 /\ s1' = s1 /\ s2' = s2 /\ s6[s] # "dial"
        /\ to \in {"answer", "relay"} => s6[s] \in {"hello", "answer"}
        /\ s1 \/ s6[s] # "idle"
  <2>1. CASE Wire!Accept(s) \/ Wire!Admit(s)
    BY <2>1 DEF Wire!Accept, Wire!Admit, Wire!life
  <2>2. CASE Wire!Ask(s) \/ Wire!TakeEdgeLock(s)
    BY <2>2 DEF Wire!Ask, Wire!TakeEdgeLock, Wire!life
  <2>3. CASE Wire!NoEdgeLeft(s) \/ Wire!NoAnswer(s)
    BY <2>3 DEF Wire!NoEdgeLeft, Wire!NoAnswer, Wire!life
  <2>4. CASE Wire!Hello(s) \/ Wire!Answered(s)
    BY <2>4 DEF Wire!Hello, Wire!Answered, Wire!life
  <2> QED
    BY <2>1, <2>2, <2>3, <2>4
<1>2. s9' = [s9 EXCEPT ![s] = s9[s]] /\ s9[s] \in Wire!Flow
  BY <1>1 DEF Wire!HandshakeInv
<1>3. Wire!FlowInv(s9[s], s6[s], s2.fakes) /\ (~s1 => s6[s] = "idle")
  BY DEF Wire!HandshakeInv
<1>4. Wire!FlowInv(s9[s], to, s2.fakes)
  BY <1>1, <1>3, WirePlace
<1>5. s1
  BY <1>1, <1>3
<1> QED
  BY <1>1, <1>2, <1>4, <1>5, WireMove

\* A start and a stop find no session, or end them all.
LEMMA WireLife ==
  ASSUME Wire!HandshakeInv, Wire!Start \/ Wire!Stop
  PROVE  Wire!HandshakeInv'
<1>1. CASE Wire!Start
  <2>1. s6' = s6 /\ s9' = s9 /\ s1' /\ \A t \in WireSessions : s6[t] = "idle"
    BY <1>1 DEF Wire!Start, Wire!HandshakeInv
  <2>2. ASSUME NEW t \in WireSessions PROVE Wire!FlowInv(s9[t], "idle", s2'.fakes)
    <3>1. Wire!FlowInv(s9[t], "idle", s2.fakes)
      BY <2>1 DEF Wire!HandshakeInv
    <3> QED
      BY <3>1 DEF Wire!FlowInv, Wire!PlaceInv
  <2> QED
    BY <2>1, <2>2 DEF Wire!HandshakeInv
<1>2. CASE Wire!Stop
  <2>1. /\ s6' = [t \in WireSessions |-> "idle"] /\ s9' = [t \in WireSessions |-> Wire!NoFlow]
        /\ s2' = s2
    BY <1>2 DEF Wire!Stop
  <2>2. Wire!FlowInv(Wire!NoFlow, "idle", s2.fakes)
    BY WireNoFlow
  <2>3. Wire!NoFlow \in Wire!Flow
    BY <2>2 DEF Wire!FlowInv
  <2> QED
    BY <2>1, <2>2, <2>3 DEF Wire!HandshakeInv
<1> QED
  BY <1>1, <1>2

\* A session that ends has no flow any more.
LEMMA WireOver ==
  ASSUME Wire!HandshakeInv, NEW s \in WireSessions, Wire!SessionEnds(s)
  PROVE  Wire!HandshakeInv'
<1>1. /\ s6' = [s6 EXCEPT ![s] = "idle"] /\ s9' = [s9 EXCEPT ![s] = Wire!NoFlow]
      /\ s1' = s1 /\ s2' = s2
  BY DEF Wire!SessionEnds, Wire!Quiet, Wire!life
<1>2. Wire!FlowInv(Wire!NoFlow, "idle", s2.fakes)
  BY WireNoFlow
<1>3. Wire!NoFlow \in Wire!Flow
  BY <1>2 DEF Wire!FlowInv
<1> QED
  BY <1>1, <1>2, <1>3, WireMove

\* A session dials, and waits for the end of the handshake.
LEMMA WireDials ==
  ASSUME Wire!HandshakeInv, NEW s \in WireSessions,
         Wire!Dial(s) \/ Wire!DialFails(s) \/ Wire!Connected(s)
  PROVE  Wire!HandshakeInv'
<1>0. s1
  <2>1. s6[s] # "idle"
    BY DEF Wire!Dial, Wire!DialFails, Wire!Connected
  <2> QED
    BY <2>1 DEF Wire!HandshakeInv
<1>1. CASE Wire!Dial(s) /\ ~s2.fakes
  <2>1. /\ s6' = [s6 EXCEPT ![s] = "dial"] /\ s9' = [s9 EXCEPT ![s] = Wire!NoFlow]
        /\ s1' = s1 /\ s2' = s2
    BY <1>1 DEF Wire!Dial, Wire!life
  <2>2. Wire!FlowInv(Wire!NoFlow, "dial", s2.fakes)
    BY WireNoFlow
  <2>3. Wire!NoFlow \in Wire!Flow
    BY <2>2 DEF Wire!FlowInv
  <2> QED
    BY <1>0, <2>1, <2>2, <2>3, WireMove
<1>2. CASE Wire!Dial(s) /\ s2.fakes
  <2>1. PICK n \in WireFirstSeq, p \in WireFirstSeq :
          s9' = [s9 EXCEPT ![s] = [Wire!NoFlow EXCEPT
                   !.monitor = TRUE, !.wire = "syn", !.isn = p,
                   !.captured = <<[inbound |-> FALSE, kind |-> "syn", seq |-> n, ack |-> 0]>>]]
    BY <1>2 DEF Wire!Dial
  <2>2. PICK syn : syn = [inbound |-> FALSE, kind |-> "syn", seq |-> n, ack |-> 0]
    OBVIOUS
  <2>3. PICK g : g = [Wire!NoFlow EXCEPT !.monitor = TRUE, !.wire = "syn", !.isn = p,
                        !.captured = <<syn>>]
    OBVIOUS
  <2>4. s6' = [s6 EXCEPT ![s] = "dial"] /\ s1' = s1 /\ s2' = s2
    BY <1>2 DEF Wire!Dial, Wire!life
  <2>5. /\ n \in 0..WireModulus - 1 /\ p \in 0..WireModulus - 1 /\ <<syn>> \in Seq(Wire!Packet)
    <3>1. n \in 0..WireModulus - 1 /\ p \in 0..WireModulus - 1 /\ 0 \in 0..WireModulus - 1
      BY WireAssumption
    <3>2. syn \in Wire!Packet
      BY <2>2, <3>1 DEF Wire!Packet
    <3> QED
      BY <3>1, <3>2
  <2>6. /\ g.monitor = TRUE /\ g.synSeq = Wire!NoSeq /\ g.scheduled = FALSE /\ g.sent = FALSE
        /\ g.pool = "none" /\ g.fakes = 0 /\ g.acked = 0 /\ g.wire = "syn" /\ g.odd = FALSE /\ g.broken = FALSE
        /\ g.late = FALSE /\ g.result \notin {"fake_data_ack_recv", "unexpected_close"}
        /\ g.captured = <<syn>>
    BY <2>3, Zenon DEF Wire!NoFlow
  <2>7. g \in Wire!Flow
    <3>1. Wire!NoFlow \in Wire!Flow
      BY WireNoFlow DEF Wire!FlowInv
    <3> QED
      BY <2>3, <2>5, <3>1 DEF Wire!Flow
  <2>8. g.captured = <<[inbound |-> FALSE, kind |-> "syn", seq |-> n, ack |-> 0]>>
    BY <2>2, <2>6
  <2>9. Wire!FlowInv(g, "dial", s2.fakes)
    BY <1>2, <2>5, <2>6, <2>7, <2>8, WireDialled
  <2>10. s9' = [s9 EXCEPT ![s] = g]
    BY <2>1, <2>2, <2>3
  <2> QED
    BY <1>0, <2>4, <2>7, <2>9, <2>10, WireMove
<1>3. CASE Wire!DialFails(s) \/ Wire!Connected(s)
  <2>1. PICK to \in {"try", "hello"} :
          /\ s6' = [s6 EXCEPT ![s] = to] /\ s9' = [s9 EXCEPT ![s].monitor = FALSE]
          /\ s1' = s1 /\ s2' = s2 /\ s6[s] = "dial"
          /\ to = "hello" => (s2.fakes => s9[s].result = "fake_data_ack_recv")
    BY <1>3 DEF Wire!DialFails, Wire!Connected, Wire!life
  <2>2. PICK f : f = s9[s]
    OBVIOUS
  <2>3. PICK g : g = [f EXCEPT !.monitor = FALSE]
    OBVIOUS
  <2>4. Wire!FlowInv(f, "dial", s2.fakes) /\ f \in Wire!Flow
    BY <2>1, <2>2 DEF Wire!HandshakeInv
  <2>5. s9' = [s9 EXCEPT ![s] = g]
    BY <2>1, <2>2, <2>3
  <2>6. /\ g \in Wire!Flow /\ ~g.monitor /\ g.result = f.result /\ g.sent = f.sent
        /\ g.fakes = f.fakes /\ g.acked = f.acked /\ g.pool = f.pool /\ g.odd = f.odd /\ g.broken = f.broken
        /\ g.scheduled = f.scheduled /\ g.late = f.late
    BY <2>3, <2>4 DEF Wire!Flow
  <2>7. Wire!FlowInv(g, to, s2.fakes)
    BY <2>1, <2>2, <2>4, <2>6, WireLetGo
  <2> QED
    BY <1>0, <2>1, <2>5, <2>6, <2>7, WireMove
<1> QED
  BY <1>1, <1>2, <1>3

\* The packets of a handshake have numbers below the modulus.
LEMMA WirePackets ==
  ASSUME NEW n \in 0..WireModulus - 1, NEW q \in 0..WireModulus - 1, NEW i \in BOOLEAN,
         NEW k \in {"syn", "synack", "ack", "rst"}
  PROVE  /\ Wire!After(n) \in 0..WireModulus - 1
         /\ [inbound |-> i, kind |-> k, seq |-> n, ack |-> q] \in Wire!Packet
BY WireAssumption DEF Wire!After, Wire!Packet

\* What is captured is a flow's like any other.
LEMMA WireCaptures ==
  ASSUME NEW f \in Wire!Flow, NEW p \in Wire!Packet
  PROVE  Append(f.captured, p) \in Seq(Wire!Packet)
BY DEF Wire!Flow

\* The network adds to what is captured of a session that dials.
LEMMA WireNetwork ==
  ASSUME Wire!HandshakeInv, NEW s \in WireSessions,
         Wire!PeerAccepts(s) \/ Wire!Handshaken(s) \/ Wire!PeerAcksFake(s) \/ Wire!Strange(s)
  PROVE  Wire!HandshakeInv'
<1>1. PICK f : f = s9[s]
  OBVIOUS
<1>2. PICK own : own = Wire!Own(s)
  OBVIOUS
<1>3. PICK ack : ack = Wire!AnAck(s)
  OBVIOUS
<1>4. PICK answer : answer = Wire!ASynAck(s)
  OBVIOUS
<1>5. /\ s6[s] = "dial" /\ f.wire # "none" /\ s6' = s6 /\ s1' = s1 /\ s2' = s2
  BY <1>1 DEF Wire!PeerAccepts, Wire!Handshaken, Wire!PeerAcksFake, Wire!Strange, Wire!Live,
    Wire!FlowOnly, Wire!life
<1>6. f \in Wire!Flow /\ Wire!FlowInv(f, "dial", s2.fakes) /\ s1
  BY <1>1, <1>5 DEF Wire!HandshakeInv
<1>7. own = IF f.synSeq # Wire!NoSeq THEN f.synSeq ELSE f.captured[1].seq
  BY <1>1, <1>2 DEF Wire!Own
<1>8. own \in 0..WireModulus - 1 /\ f.isn \in 0..WireModulus - 1
  BY <1>5, <1>6, <1>7, WireOwn DEF Wire!Flow
<1>9. /\ ack = [inbound |-> FALSE, kind |-> "ack", seq |-> Wire!After(own),
                ack |-> Wire!After(f.isn)]
      /\ answer = [inbound |-> TRUE, kind |-> "synack", seq |-> f.isn,
                   ack |-> Wire!After(own)]
  BY <1>1, <1>2, <1>3, <1>4 DEF Wire!AnAck, Wire!ASynAck
<1>10. Wire!After(own) \in 0..WireModulus - 1 /\ Wire!After(f.isn) \in 0..WireModulus - 1
  BY <1>8, WirePackets
<1>11. ack \in Wire!Packet /\ answer \in Wire!Packet
  BY <1>8, <1>9, <1>10 DEF Wire!Packet
<1>12. ASSUME NEW g \in Wire!Flow, s9' = [s9 EXCEPT ![s] = g],
              Wire!FlowInv(g, "dial", s2.fakes)
       PROVE  Wire!HandshakeInv'
  <2>1. s6' = [s6 EXCEPT ![s] = "dial"]
    BY <1>5 DEF Wire!HandshakeInv
  <2> QED
    BY <1>5, <1>6, <1>12, <2>1, WireMove
<1>13. CASE Wire!PeerAccepts(s)
  <2>1. PICK g : g = [f EXCEPT !.wire = "synack", !.captured = Append(f.captured, answer)]
    OBVIOUS
  <2>2. s9' = [s9 EXCEPT ![s] = g] /\ f.wire = "syn"
    BY <1>1, <1>4, <1>13, <2>1 DEF Wire!PeerAccepts
  <2>3. /\ g \in Wire!Flow /\ g.captured = Append(f.captured, answer) /\ g.wire = "synack"
        /\ g.monitor = f.monitor /\ g.result = f.result /\ g.odd = f.odd /\ g.broken = f.broken /\ g.sent = f.sent
        /\ g.scheduled = f.scheduled /\ g.synSeq = f.synSeq /\ g.synAckSeq = f.synAckSeq
        /\ g.isn = f.isn /\ g.pool = f.pool /\ g.fakes = f.fakes /\ g.acked = f.acked
        /\ g.late = f.late
    BY <1>6, <1>11, <2>1, WireCaptures DEF Wire!Flow
  <2>4. Wire!Orderly(g)
    BY <1>6, <1>7, <1>9, <2>2, <2>3, WireAccepts
  <2>5. g.acked \in f.acked..f.fakes
    BY <1>6, <2>3, WireAssumption DEF Wire!FlowInv, Wire!PoolInv, Wire!Flow
  <2>6. Wire!FlowInv(g, "dial", s2.fakes)
    BY <1>5, <1>6, <1>11, <2>3, <2>4, <2>5, WireAdds
  <2> QED
    BY <1>12, <2>2, <2>3, <2>6
<1>14. CASE Wire!Handshaken(s)
  <2>1. PICK g : g = [f EXCEPT !.wire = "open", !.captured = Append(f.captured, ack)]
    OBVIOUS
  <2>2. s9' = [s9 EXCEPT ![s] = g] /\ f.wire = "synack"
    BY <1>1, <1>3, <1>14, <2>1 DEF Wire!Handshaken
  <2>3. /\ g \in Wire!Flow /\ g.captured = Append(f.captured, ack) /\ g.wire = "open"
        /\ g.monitor = f.monitor /\ g.result = f.result /\ g.odd = f.odd /\ g.broken = f.broken /\ g.sent = f.sent
        /\ g.scheduled = f.scheduled /\ g.synSeq = f.synSeq /\ g.synAckSeq = f.synAckSeq
        /\ g.isn = f.isn /\ g.pool = f.pool /\ g.fakes = f.fakes /\ g.acked = f.acked
        /\ g.late = f.late
    BY <1>6, <1>11, <2>1, WireCaptures DEF Wire!Flow
  <2>4. Wire!Orderly(g)
    BY <1>6, <1>7, <1>9, <2>2, <2>3, WireHandshaken
  <2>5. g.acked \in f.acked..f.fakes
    BY <1>6, <2>3, WireAssumption DEF Wire!FlowInv, Wire!PoolInv, Wire!Flow
  <2>6. Wire!FlowInv(g, "dial", s2.fakes)
    BY <1>5, <1>6, <1>11, <2>3, <2>4, <2>5, WireAdds
  <2> QED
    BY <1>12, <2>2, <2>3, <2>6
<1>15. CASE Wire!PeerAcksFake(s)
  <2>0. PICK p : p = [inbound |-> TRUE, kind |-> "ack", seq |-> Wire!After(f.isn),
                      ack |-> Wire!After(own)]
    OBVIOUS
  <2>a. p \in Wire!Packet
    BY <1>10, <2>0 DEF Wire!Packet
  <2>1. PICK g : g = [f EXCEPT !.acked = f.acked + 1, !.captured = Append(f.captured, p)]
    OBVIOUS
  <2>2. s9' = [s9 EXCEPT ![s] = g] /\ f.acked < f.fakes
    BY <1>1, <1>2, <1>15, <2>0, <2>1 DEF Wire!PeerAcksFake
  <2>b. f.acked + 1 \in 0..WireRepeat /\ f.acked + 1 \in f.acked..f.fakes
    BY <1>6, <2>2, WireAssumption DEF Wire!Flow
  <2>3. /\ g \in Wire!Flow /\ g.captured = Append(f.captured, p) /\ g.wire = f.wire
        /\ g.monitor = f.monitor /\ g.result = f.result /\ g.odd = f.odd /\ g.broken = f.broken /\ g.sent = f.sent
        /\ g.scheduled = f.scheduled /\ g.synSeq = f.synSeq /\ g.synAckSeq = f.synAckSeq
        /\ g.isn = f.isn /\ g.pool = f.pool /\ g.fakes = f.fakes /\ g.acked = f.acked + 1
        /\ g.late = f.late
    BY <1>6, <2>a, <2>b, <2>1, WireCaptures DEF Wire!Flow
  <2>4. Wire!Orderly(g)
    BY <1>6, <1>7, <2>0, <2>2, <2>3, WireAcksFake
  <2>6. Wire!FlowInv(g, "dial", s2.fakes)
    BY <1>5, <1>6, <2>a, <2>b, <2>3, <2>4, WireAdds
  <2> QED
    BY <1>12, <2>2, <2>3, <2>6
<1>16. CASE Wire!Strange(s)
  <2>0. PICK p \in {ack, answer, [answer EXCEPT !.kind = "rst"], [ack EXCEPT !.inbound = TRUE]} :
          s9' = [s9 EXCEPT ![s].odd = TRUE, ![s].captured = Append(@, p)]
    BY <1>3, <1>4, <1>16 DEF Wire!Strange
  <2>a. p \in Wire!Packet
    BY <1>11, <2>0 DEF Wire!Packet
  <2>1. PICK g : g = [f EXCEPT !.odd = TRUE, !.captured = Append(f.captured, p)]
    OBVIOUS
  <2>2. s9' = [s9 EXCEPT ![s] = g]
    BY <1>1, <2>0, <2>1
  <2>3. /\ g \in Wire!Flow /\ g.captured = Append(f.captured, p) /\ g.wire = f.wire
        /\ g.monitor = f.monitor /\ g.result = f.result /\ g.odd = TRUE /\ g.broken = f.broken /\ g.sent = f.sent
        /\ g.scheduled = f.scheduled /\ g.synSeq = f.synSeq /\ g.synAckSeq = f.synAckSeq
        /\ g.isn = f.isn /\ g.pool = f.pool /\ g.fakes = f.fakes /\ g.acked = f.acked
        /\ g.late = f.late
    BY <1>6, <2>a, <2>1, WireCaptures DEF Wire!Flow
  <2>4. Wire!Orderly(g)
    BY <2>3 DEF Wire!Orderly
  <2>5. g.acked \in f.acked..f.fakes
    BY <1>6, <2>3, WireAssumption DEF Wire!FlowInv, Wire!PoolInv, Wire!Flow
  <2>6. Wire!FlowInv(g, "dial", s2.fakes)
    BY <1>5, <1>6, <2>a, <2>3, <2>4, <2>5, WireAdds
  <2> QED
    BY <1>12, <2>2, <2>3, <2>6
<1> QED
  BY <1>13, <1>14, <1>15, <1>16

\* A pool thread that fails leaves its flow as it was, and broken.
LEMMA WireBreaks ==
  ASSUME NEW f, NEW g \in Wire!Flow, NEW at, NEW b, Wire!FlowInv(f, at, b), f.pool = "send",
         g.pool = "none", g.broken, g.monitor = f.monitor, g.result = f.result, g.sent = f.sent,
         g.synSeq = f.synSeq, g.synAckSeq = f.synAckSeq, g.isn = f.isn, g.captured = f.captured,
         g.scheduled = f.scheduled, g.fakes = f.fakes, g.acked = f.acked, g.wire = f.wire,
         g.odd = f.odd, g.late = f.late
  PROVE  Wire!FlowInv(g, at, b)
<1>1. Wire!PoolInv(g)
  BY DEF Wire!FlowInv, Wire!PoolInv
<1>2. Wire!PlaceInv(g, at, b)
  <2>1. Wire!NoFlow.pool = "none"
    BY Zenon DEF Wire!NoFlow
  <2> QED
    BY <2>1 DEF Wire!FlowInv, Wire!PlaceInv
<1>3. Wire!SynFirst(g, at)
  BY DEF Wire!FlowInv, Wire!SynFirst
<1>4. Wire!Orderly(g)
  BY DEF Wire!FlowInv, Wire!PoolInv, Wire!Orderly, Wire!Answers
<1> QED
  BY <1>1, <1>2, <1>3, <1>4 DEF Wire!FlowInv

\* The pool thread sends the fakes, one after the other.
LEMMA WirePool ==
  ASSUME Wire!HandshakeInv, NEW s \in WireSessions,
         Wire!FakeBegins(s) \/ Wire!FakeChecks(s) \/ Wire!FakeSends(s) \/ Wire!FakeFails(s)
  PROVE  Wire!HandshakeInv'
<1>1. PICK f : f = s9[s]
  OBVIOUS
<1>2. s6' = s6 /\ s1' = s1 /\ s2' = s2
  BY DEF Wire!FakeBegins, Wire!FakeChecks, Wire!FakeSends, Wire!FakeFails, Wire!FlowOnly, Wire!life
<1>3. /\ f \in Wire!Flow /\ Wire!FlowInv(f, s6[s], s2.fakes) /\ (~s1 => s6[s] = "idle")
      /\ s6[s] \in {"idle", "queued", "ask", "want", "try", "dial", "hello", "answer", "relay"}
      /\ s6' = [s6 EXCEPT ![s] = s6[s]]
  BY <1>1, <1>2 DEF Wire!HandshakeInv
<1>4. ASSUME NEW g \in Wire!Flow, s9' = [s9 EXCEPT ![s] = g],
             Wire!FlowInv(g, s6[s], s2.fakes)
      PROVE  Wire!HandshakeInv'
  BY <1>2, <1>3, <1>4, WireMove
<1>5. CASE Wire!FakeBegins(s) \/ Wire!FakeChecks(s)
  <2>1. PICK to \in {"check", "send", "none"} :
          /\ s9' = [s9 EXCEPT ![s].pool = to] /\ f.pool # "none" /\ (to = "none" => ~f.monitor)
    BY <1>1, <1>5 DEF Wire!FakeBegins, Wire!FakeChecks
  <2>2. PICK g : g = [f EXCEPT !.pool = to]
    OBVIOUS
  <2>3. s9' = [s9 EXCEPT ![s] = g]
    BY <1>1, <2>1, <2>2
  <2>4. /\ g \in Wire!Flow /\ g.pool = to /\ g.monitor = f.monitor /\ g.result = f.result
        /\ g.sent = f.sent /\ g.synSeq = f.synSeq /\ g.synAckSeq = f.synAckSeq
        /\ g.isn = f.isn /\ g.captured = f.captured /\ g.scheduled = f.scheduled
        /\ g.fakes = f.fakes /\ g.acked = f.acked /\ g.wire = f.wire /\ g.odd = f.odd /\ g.broken = f.broken
        /\ g.late = f.late
    BY <1>3, <2>2 DEF Wire!Flow
  <2>5. Wire!FlowInv(g, s6[s], s2.fakes)
    BY <1>3, <2>1, <2>4, WirePoolMoves
  <2> QED
    BY <1>4, <2>3, <2>4, <2>5
<1>6. CASE Wire!FakeSends(s)
  <2>1. PICK late \in BOOLEAN : late <=> f.late \/ s6[s] \in {"hello", "answer", "relay"}
    OBVIOUS
  <2>2. PICK sent \in BOOLEAN : sent <=> f.fakes + 1 = WireRepeat
    OBVIOUS
  <2>3. PICK to \in {"check", "none"} : to = IF f.fakes + 1 < WireRepeat THEN "check" ELSE "none"
    OBVIOUS
  <2>4. PICK g : g = [f EXCEPT !.fakes = f.fakes + 1, !.late = late, !.pool = to, !.sent = sent]
    OBVIOUS
  <2>5. s9' = [s9 EXCEPT ![s] = g] /\ f.pool = "send"
    <3>1. /\ f.pool = "send"
          /\ s9' = [s9 EXCEPT ![s] = [f EXCEPT !.fakes = f.fakes + 1,
                       !.late = f.late \/ s6[s] \in {"hello", "answer", "relay"},
                       !.pool = IF f.fakes + 1 < WireRepeat THEN "check" ELSE "none",
                       !.sent = f.fakes + 1 = WireRepeat]]
      BY <1>1, <1>6 DEF Wire!FakeSends
    <3>2. /\ late = (f.late \/ s6[s] \in {"hello", "answer", "relay"})
          /\ sent = (f.fakes + 1 = WireRepeat)
      BY <1>3, <2>1, <2>2 DEF Wire!Flow
    <3> QED
      BY <2>3, <2>4, <3>1, <3>2
  <2>6. f.fakes + 1 \in 0..WireRepeat
    BY <1>3, <2>5, WireAssumption DEF Wire!FlowInv, Wire!PoolInv, Wire!Flow
  <2>7. /\ g \in Wire!Flow /\ g.pool = to /\ g.monitor = f.monitor /\ g.result = f.result
        /\ (g.sent <=> sent) /\ g.synSeq = f.synSeq /\ g.synAckSeq = f.synAckSeq
        /\ g.isn = f.isn /\ g.captured = f.captured /\ g.scheduled = f.scheduled
        /\ g.fakes = f.fakes + 1 /\ g.acked = f.acked /\ g.wire = f.wire /\ g.odd = f.odd /\ g.broken = f.broken
        /\ (g.late <=> late)
    BY <1>3, <2>4, <2>6 DEF Wire!Flow
  <2>8. Wire!FlowInv(g, s6[s], s2.fakes)
    BY <1>3, <2>1, <2>2, <2>3, <2>5, <2>7, WireSends
  <2> QED
    BY <1>4, <2>5, <2>7, <2>8
<1>7. CASE Wire!FakeFails(s)
  <2>1. PICK g : g = [f EXCEPT !.pool = "none", !.broken = TRUE]
    OBVIOUS
  <2>2. s9' = [s9 EXCEPT ![s] = g] /\ f.pool = "send"
    BY <1>1, <1>7, <2>1 DEF Wire!FakeFails
  <2>3. /\ g \in Wire!Flow /\ g.pool = "none" /\ g.monitor = f.monitor /\ g.result = f.result
        /\ g.sent = f.sent /\ g.synSeq = f.synSeq /\ g.synAckSeq = f.synAckSeq
        /\ g.isn = f.isn /\ g.captured = f.captured /\ g.scheduled = f.scheduled
        /\ g.fakes = f.fakes /\ g.acked = f.acked /\ g.wire = f.wire /\ g.odd = f.odd
        /\ g.broken /\ g.late = f.late
    BY <1>3, <2>1 DEF Wire!Flow
  <2>4. Wire!FlowInv(g, s6[s], s2.fakes)
    BY <1>3, <2>2, <2>3, WireBreaks
  <2> QED
    BY <1>4, <2>2, <2>3, <2>4
<1> QED
  BY <1>5, <1>6, <1>7

\* The capture thread gives a flow up only where it was odd or a fake could not be sent.
LEMMA WireAborts ==
  ASSUME NEW f, NEW at, NEW b, Wire!FlowInv(f, at, b), f.monitor, f.synSeq # Wire!NoSeq,
         f.captured # <<>>, f.pool \notin {"check", "send"}, NEW p, p = f.captured[1],
         ~(p.kind = "synack" /\ p.inbound /\ Wire!Follows(p.ack, f.synSeq)),
         ~(p.kind = "ack" /\ p.inbound /\ f.sent /\ Wire!Follows(p.seq, f.synAckSeq)
             /\ Wire!Follows(p.ack, f.synSeq)),
         ~(p.kind = "ack" /\ ~p.inbound /\ ~f.scheduled /\ Wire!Follows(p.seq, f.synSeq)
             /\ Wire!Follows(p.ack, f.synAckSeq))
  PROVE  f.odd \/ f.broken
<1> SUFFICES ASSUME ~f.odd, ~f.broken PROVE FALSE
  OBVIOUS
<1>1. f.isn # Wire!NoSeq
  BY WireAssumption DEF Wire!FlowInv, Wire!Flow, Wire!NoSeq
<1>2. CASE f.scheduled
  <2>1. /\ f.sent /\ f.synAckSeq = f.isn
        /\ p = [inbound |-> TRUE, kind |-> "ack", seq |-> Wire!After(f.isn),
                ack |-> Wire!After(f.synSeq)]
    BY <1>2, WireAnswered
  <2>2. p.kind = "ack" /\ p.inbound /\ p.seq = Wire!After(f.isn) /\ p.ack = Wire!After(f.synSeq)
    BY <2>1
  <2> QED
    BY <1>1, <2>1, <2>2 DEF Wire!Follows
<1>3. CASE ~f.scheduled
  <2>1. PICK answer : answer = [inbound |-> TRUE, kind |-> "synack", seq |-> f.isn,
                                ack |-> Wire!After(f.synSeq)]
    OBVIOUS
  <2>2. PICK last : last = [inbound |-> FALSE, kind |-> "ack", seq |-> Wire!After(f.synSeq),
                            ack |-> Wire!After(f.isn)]
    OBVIOUS
  <2>3. p = answer \/ (p = last /\ f.synAckSeq = f.isn)
    BY <1>3, <2>1, <2>2, WireLeft
  <2>4. CASE p = answer
    <3>1. p.kind = "synack" /\ p.inbound /\ p.ack = Wire!After(f.synSeq)
      BY <2>1, <2>4
    <3> QED
      BY <3>1 DEF Wire!Follows
  <2>5. CASE p = last /\ f.synAckSeq = f.isn
    <3>1. /\ p.kind = "ack" /\ ~p.inbound /\ p.seq = Wire!After(f.synSeq)
          /\ p.ack = Wire!After(f.isn)
      BY <2>2, <2>5
    <3> QED
      BY <1>1, <1>3, <2>5, <3>1 DEF Wire!Follows
  <2> QED
    BY <2>3, <2>4, <2>5
<1> QED
  BY <1>2, <1>3

\* Whatever the capture thread takes, an orderly flow stays on its way.
LEMMA WireInjects ==
  ASSUME Wire!HandshakeInv, NEW s \in WireSessions, Wire!Inject(s)
  PROVE  Wire!HandshakeInv'
<1>1. PICK f : f = s9[s]
  OBVIOUS
<1>2. s6' = s6 /\ s1' = s1 /\ s2' = s2 /\ f.captured # <<>> /\ f.pool \notin {"check", "send"}
  BY <1>1 DEF Wire!Inject, Wire!FlowOnly, Wire!life, Wire!Unheld
<1>3. /\ f \in Wire!Flow /\ Wire!FlowInv(f, s6[s], s2.fakes) /\ (~s1 => s6[s] = "idle")
      /\ s6[s] \in {"idle", "queued", "ask", "want", "try", "dial", "hello", "answer", "relay"}
      /\ s6' = [s6 EXCEPT ![s] = s6[s]]
  BY <1>1, <1>2 DEF Wire!HandshakeInv
<1>4. ASSUME NEW g \in Wire!Flow, s9' = [s9 EXCEPT ![s] = g],
             Wire!FlowInv(g, s6[s], s2.fakes)
      PROVE  Wire!HandshakeInv'
  BY <1>2, <1>3, <1>4, WireMove
<1>5. PICK p : p = f.captured[1]
  OBVIOUS
<1>6. /\ f.captured \in Seq(Wire!Packet) /\ Head(f.captured) = p /\ p \in Wire!Packet
      /\ Tail(f.captured) \in Seq(Wire!Packet)
  BY <1>2, <1>3, <1>5 DEF Wire!Flow
<1>7. PICK r : r = [f EXCEPT !.captured = Tail(f.captured)]
  OBVIOUS
<1>8. /\ r \in Wire!Flow /\ r.captured = Tail(f.captured) /\ r.pool = f.pool
      /\ r.monitor = f.monitor /\ r.result = f.result /\ r.sent = f.sent
      /\ r.synSeq = f.synSeq /\ r.synAckSeq = f.synAckSeq /\ r.isn = f.isn
      /\ r.scheduled = f.scheduled /\ r.fakes = f.fakes /\ r.acked = f.acked
      /\ r.wire = f.wire /\ r.odd = f.odd /\ r.broken = f.broken /\ r.late = f.late
  BY <1>3, <1>6, <1>7 DEF Wire!Flow
<1>9. r = Wire!Rest(s)
  BY <1>1, <1>7 DEF Wire!Rest
<1>10. s9' = [s9 EXCEPT ![s] = IF ~f.monitor THEN r
                               ELSE IF p.inbound THEN Wire!Inbound(s, p) ELSE Wire!Outbound(s, p)]
  BY <1>1, <1>6, <1>9 DEF Wire!Inject
<1>11. CASE ~f.monitor
  <2>1. s9' = [s9 EXCEPT ![s] = r]
    BY <1>10, <1>11
  <2>2. Wire!FlowInv(r, s6[s], s2.fakes)
    BY <1>2, <1>3, <1>8, <1>11, WireIgnored
  <2> QED
    BY <1>4, <1>8, <2>1, <2>2
<1>12. CASE f.monitor /\ f.synSeq = Wire!NoSeq
  <2>1. p.kind = "syn" /\ ~p.inbound /\ ~f.scheduled
    BY <1>3, <1>5, <1>12, WireWatched DEF Wire!FlowInv, Wire!SynFirst
  <2>2. PICK g : g = [r EXCEPT !.synSeq = p.seq]
    OBVIOUS
  <2>3. Wire!Outbound(s, p) = g
    BY <1>1, <1>9, <2>1, <2>2 DEF Wire!Outbound
  <2>4. s9' = [s9 EXCEPT ![s] = g]
    BY <1>10, <1>12, <2>1, <2>3
  <2>5. p.seq \in 0..WireModulus
    BY <1>6, WireAssumption DEF Wire!Packet
  <2>6. /\ g \in Wire!Flow /\ g.captured = Tail(f.captured) /\ g.pool = f.pool
        /\ g.monitor = f.monitor /\ g.result = f.result /\ g.sent = f.sent
        /\ g.synSeq = p.seq /\ g.synAckSeq = f.synAckSeq /\ g.isn = f.isn
        /\ g.scheduled = f.scheduled /\ g.fakes = f.fakes /\ g.acked = f.acked
        /\ g.wire = f.wire /\ g.odd = f.odd /\ g.broken = f.broken /\ g.late = f.late
    BY <1>8, <2>2, <2>5 DEF Wire!Flow
  <2>7. Wire!FlowInv(g, s6[s], s2.fakes)
    BY <1>3, <1>5, <1>12, <2>6, WireTakesSyn
  <2> QED
    BY <1>4, <2>4, <2>6, <2>7
<1>13. CASE f.monitor /\ f.synSeq # Wire!NoSeq
  <2> DEFINE IsAnswer == p.inbound /\ p.kind = "synack" /\ Wire!Follows(p.ack, f.synSeq)
             IsEnd == /\ p.inbound /\ p.kind = "ack" /\ f.sent
                      /\ Wire!Follows(p.seq, f.synAckSeq) /\ Wire!Follows(p.ack, f.synSeq)
             IsLast == /\ ~p.inbound /\ p.kind = "ack" /\ ~f.scheduled
                       /\ Wire!Follows(p.seq, f.synSeq) /\ Wire!Follows(p.ack, f.synAckSeq)
             IsSyn == ~p.inbound /\ ~f.scheduled /\ p.kind = "syn"
  <2>1. CASE IsAnswer
    <3>1. PICK g : g = [r EXCEPT !.synAckSeq = p.seq]
      OBVIOUS
    <3>2. Wire!Inbound(s, p) = g
      BY <1>1, <1>9, <2>1, <3>1 DEF Wire!Inbound
    <3>3. s9' = [s9 EXCEPT ![s] = g]
      BY <1>10, <1>13, <2>1, <3>2
    <3>4. p.seq \in 0..WireModulus
      BY <1>6, WireAssumption DEF Wire!Packet
    <3>5. /\ g \in Wire!Flow /\ g.captured = Tail(f.captured) /\ g.pool = f.pool
          /\ g.monitor = f.monitor /\ g.result = f.result /\ g.sent = f.sent
          /\ g.synSeq = f.synSeq /\ g.synAckSeq = p.seq /\ g.isn = f.isn
          /\ g.scheduled = f.scheduled /\ g.fakes = f.fakes /\ g.acked = f.acked
          /\ g.wire = f.wire /\ g.odd = f.odd /\ g.broken = f.broken /\ g.late = f.late
      BY <1>8, <3>1, <3>4 DEF Wire!Flow
    <3>6. Wire!FlowInv(g, s6[s], s2.fakes)
      BY <1>2, <1>3, <1>5, <1>13, <2>1, <3>5, WireTakesAnswer
    <3> QED
      BY <1>4, <3>3, <3>5, <3>6
  <2>2. CASE IsLast
    <3>1. PICK g : g = [r EXCEPT !.scheduled = TRUE, !.pool = "queued"]
      OBVIOUS
    <3>2. Wire!Outbound(s, p) = g
      BY <1>1, <1>9, <2>2, <3>1 DEF Wire!Outbound
    <3>3. s9' = [s9 EXCEPT ![s] = g]
      BY <1>10, <1>13, <2>2, <3>2
    <3>5. /\ g \in Wire!Flow /\ g.captured = Tail(f.captured) /\ g.pool = "queued"
          /\ g.monitor = f.monitor /\ g.result = f.result /\ g.sent = f.sent
          /\ g.synSeq = f.synSeq /\ g.synAckSeq = f.synAckSeq /\ g.isn = f.isn
          /\ g.scheduled /\ g.fakes = f.fakes /\ g.acked = f.acked
          /\ g.wire = f.wire /\ g.odd = f.odd /\ g.broken = f.broken /\ g.late = f.late
      BY <1>8, <3>1 DEF Wire!Flow
    <3>6. Wire!FlowInv(g, s6[s], s2.fakes)
      BY <1>2, <1>3, <1>5, <1>13, <2>2, <3>5, WireSchedules
    <3> QED
      BY <1>4, <3>3, <3>5, <3>6
  <2>3. CASE IsEnd
    <3>1. PICK g : g = [r EXCEPT !.monitor = FALSE, !.result = "fake_data_ack_recv"]
      OBVIOUS
    <3>2. Wire!Inbound(s, p) = g
      BY <1>1, <1>9, <2>3, <3>1 DEF Wire!Inbound
    <3>3. s9' = [s9 EXCEPT ![s] = g]
      BY <1>10, <1>13, <2>3, <3>2
    <3>4. "fake_data_ack_recv" \in Wire!Results
      BY Zenon DEF Wire!Results
    <3>5. /\ g \in Wire!Flow /\ g.pool = f.pool /\ ~g.monitor
          /\ g.result = "fake_data_ack_recv" /\ g.sent = f.sent /\ g.synSeq = f.synSeq
          /\ g.scheduled = f.scheduled /\ g.fakes = f.fakes /\ g.acked = f.acked
          /\ g.wire = f.wire /\ g.odd = f.odd /\ g.broken = f.broken /\ g.late = f.late
      BY <1>8, <3>1, <3>4 DEF Wire!Flow
    <3>6. Wire!FlowInv(g, s6[s], s2.fakes)
      BY <1>3, <1>13, <2>3, <3>5, WireEnds
    <3> QED
      BY <1>4, <3>3, <3>5, <3>6
  <2>4. CASE IsSyn
    <3>1. f.odd
      <4>1. f.odd \/ f.broken
        BY <1>2, <1>3, <1>5, <1>13, <2>4, WireAborts
      <4> QED
        BY <4>1, <1>3, <2>4 DEF Wire!FlowInv, Wire!PoolInv
    <3>2. PICK g : g = [r EXCEPT !.synSeq = p.seq]
      OBVIOUS
    <3>3. Wire!Outbound(s, p) = g
      BY <1>1, <1>9, <2>4, <3>2 DEF Wire!Outbound
    <3>4. s9' = [s9 EXCEPT ![s] = g]
      BY <1>10, <1>13, <2>4, <3>3
    <3>5. p.seq \in 0..WireModulus - 1
      BY <1>6 DEF Wire!Packet
    <3>6. p.seq \in 0..WireModulus /\ p.seq # Wire!NoSeq
      BY <3>5, WireAssumption DEF Wire!NoSeq
    <3>7. /\ g \in Wire!Flow /\ g.pool = f.pool /\ g.monitor = f.monitor /\ g.result = f.result
          /\ g.sent = f.sent /\ g.synSeq = p.seq /\ g.scheduled = f.scheduled
          /\ g.fakes = f.fakes /\ g.acked = f.acked /\ g.wire = f.wire /\ g.odd = f.odd /\ g.broken = f.broken
          /\ g.late = f.late
      BY <1>8, <3>2, <3>6 DEF Wire!Flow
    <3>8. Wire!PoolInv(g) /\ Wire!Orderly(g)
      BY <1>3, <3>1, <3>7 DEF Wire!FlowInv, Wire!PoolInv, Wire!Orderly
    <3>9. Wire!FlowInv(g, s6[s], s2.fakes)
      BY <1>3, <1>13, <3>6, <3>7, <3>8, WireTakes
    <3> QED
      BY <1>4, <3>4, <3>7, <3>9
  <2>5. CASE ~IsAnswer /\ ~IsLast /\ ~IsEnd /\ ~IsSyn
    <3>1. PICK g : g = [r EXCEPT !.monitor = FALSE, !.result = "unexpected_close"]
      OBVIOUS
    <3>2. g = Wire!Abort(s)
      BY <1>9, <3>1 DEF Wire!Abort
    <3>3. p.inbound => Wire!Inbound(s, p) = g
      BY <1>1, <2>5, <3>2 DEF Wire!Inbound
    <3>4. ~p.inbound => Wire!Outbound(s, p) = g
      BY <1>1, <2>5, <3>2 DEF Wire!Outbound
    <3>5. s9' = [s9 EXCEPT ![s] = g]
      BY <1>10, <1>13, <3>3, <3>4
    <3>6. "unexpected_close" \in Wire!Results
      BY Zenon DEF Wire!Results
    <3>7. /\ g \in Wire!Flow /\ g.pool = f.pool /\ ~g.monitor
          /\ g.result = "unexpected_close" /\ g.sent = f.sent /\ g.synSeq = f.synSeq
          /\ g.scheduled = f.scheduled /\ g.fakes = f.fakes /\ g.acked = f.acked
          /\ g.wire = f.wire /\ g.odd = f.odd /\ g.broken = f.broken /\ g.late = f.late
      BY <1>8, <3>1, <3>6 DEF Wire!Flow
    <3>8. f.odd \/ f.broken
      BY <1>2, <1>3, <1>5, <1>13, <2>5, WireAborts
    <3>9. Wire!FlowInv(g, s6[s], s2.fakes)
      BY <1>3, <1>13, <3>7, <3>8, WireEnds
    <3> QED
      BY <1>4, <3>5, <3>7, <3>9
  <2> QED
    BY <2>1, <2>2, <2>3, <2>4, <2>5
<1> QED
  BY <1>11, <1>12, <1>13

\* No step of the injector or its sessions breaks it.
LEMMA WireHandshakes ==
  ASSUME Wire!HandshakeInv, Wire!Next
  PROVE  Wire!HandshakeInv'
<1>1. CASE Wire!Start \/ Wire!Stop
  BY <1>1, WireLife
<1>2. ASSUME NEW s \in WireSessions,
             \/ Wire!Accept(s) \/ Wire!Admit(s) \/ Wire!Ask(s) \/ Wire!TakeEdgeLock(s)
             \/ Wire!NoEdgeLeft(s) \/ Wire!Hello(s) \/ Wire!Answered(s) \/ Wire!NoAnswer(s)
      PROVE  Wire!HandshakeInv'
  BY <1>2, WirePlaces
<1>3. ASSUME NEW s \in WireSessions, Wire!Dial(s) \/ Wire!DialFails(s) \/ Wire!Connected(s)
      PROVE  Wire!HandshakeInv'
  BY <1>3, WireDials
<1>4. ASSUME NEW s \in WireSessions, Wire!SessionEnds(s) PROVE Wire!HandshakeInv'
  BY <1>4, WireOver
<1>5. ASSUME NEW s \in WireSessions,
             Wire!PeerAccepts(s) \/ Wire!Handshaken(s) \/ Wire!PeerAcksFake(s) \/ Wire!Strange(s)
      PROVE  Wire!HandshakeInv'
  BY <1>5, WireNetwork
<1>6. ASSUME NEW s \in WireSessions, Wire!Inject(s) PROVE Wire!HandshakeInv'
  BY <1>6, WireInjects
<1>7. ASSUME NEW s \in WireSessions,
             Wire!FakeBegins(s) \/ Wire!FakeChecks(s) \/ Wire!FakeSends(s) \/ Wire!FakeFails(s)
      PROVE  Wire!HandshakeInv'
  BY <1>7, WirePool
<1>8. ASSUME NEW e, Wire!Cool(e) PROVE Wire!HandshakeInv'
  BY <1>8 DEF Wire!Cool, Wire!life, Wire!HandshakeInv
<1> QED
  BY <1>1, <1>2, <1>3, <1>4, <1>5, <1>6, <1>7, <1>8 DEF Wire!Next

\* An injector that was not started has no flow.
LEMMA WireBegins ==
  ASSUME Wire!Init
  PROVE  Wire!HandshakeInv
<1>1. /\ s6 = [t \in WireSessions |-> "idle"] /\ s9 = [t \in WireSessions |-> Wire!NoFlow]
  BY DEF Wire!Init
<1>2. Wire!FlowInv(Wire!NoFlow, "idle", s2.fakes)
  BY WireNoFlow
<1>3. Wire!NoFlow \in Wire!Flow
  BY <1>2 DEF Wire!FlowInv
<1> QED
  BY <1>1, <1>2, <1>3 DEF Wire!HandshakeInv

\* What the invariant is for.
LEMMA WireInOrder ==
  ASSUME Wire!HandshakeInv
  PROVE  Wire!OrderlySpoofed /\ Wire!FakeBeforeHello
<1>1. \A s \in WireSessions : Wire!FlowInv(s9[s], s6[s], s2.fakes)
  BY DEF Wire!HandshakeInv
<1> QED
  BY <1>1 DEF Wire!OrderlySpoofed, Wire!FakeBeforeHello, Wire!FlowInv, Wire!PoolInv,
    Wire!PlaceInv, Wire!Orderly

\* The steps of a part that is an injector.
LEMMA WirePart ==
  ASSUME [Next]_vars
  PROVE  part = "wire" => Wire!Next \/ UNCHANGED Wire!vars
BY DEF Next, vars, Wire!vars

\* Whatever the sessions dial and the network answers, every fake the profile asks for is on the
\* wire before the session speaks and none follows, and a handshake whose packets come in order
\* is spoofed, never given up, unless the injector is stopped or a fake could not be sent
\* (the injector thread, the pool's threads and the session of one flow).
THEOREM FakesComeFirst == Spec => [](part = "wire" => Wire!OrderlySpoofed /\ Wire!FakeBeforeHello)
<1> DEFINE Inv == part = "wire" => Wire!HandshakeInv
<1>1. Init => Inv
  BY WireBegins DEF Init
<1>2. Inv /\ [Next]_vars => Inv'
  <2> SUFFICES ASSUME Inv, [Next]_vars, part = "wire" PROVE Wire!HandshakeInv'
    BY PartStays
  <2>1. CASE Wire!Next
    BY <2>1, WireHandshakes
  <2>2. CASE UNCHANGED Wire!vars
    BY <2>2 DEF Wire!vars, Wire!HandshakeInv
  <2> QED
    BY <2>1, <2>2, WirePart
<1>3. Inv => (part = "wire" => Wire!OrderlySpoofed /\ Wire!FakeBeforeHello)
  BY WireInOrder
<1> QED
  BY <1>1, <1>2, <1>3, PTL DEF Spec
================================================================================
