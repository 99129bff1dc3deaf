----------------------------- MODULE EngineSwitch -----------------------------
(***************************************************************************)
(* The window switches between the Xray engine and UAC PoW                 *)
(* (uac_desktop/ui.py): it never runs both, asks before it ends a          *)
(* connection, waits for the old engine, changes the theme of the pages    *)
(* in pieces (pages not on screen are repolished when idle, or when        *)
(* shown) and reuses the switches of Home for the new engine's settings.   *)
(* Timers, signals of the connect thread and the PoW threads run between   *)
(* those steps.  Abstraction: Home has one switch, a page two batches of   *)
(* widgets; the engines' own threads are in EngineGateway and PowSession.  *)
(***************************************************************************)
EXTENDS Naturals

CONSTANTS Clicks        \* what the user does, at most

VARIABLES
  mode,                 \* engine_mode
  phase,                \* "still"; "first" and "moving" while _engine_switching
  asking, polls,        \* the question is open; polls of _disconnect_then_switch
  xray, flag, worker,   \* the engine, `connecting`, a cancelled thread still alive
  pow, asked,           \* the PoW session; the engine the user asked to connect last
  page,                 \* what _set_connection_visual shows
  later,                \* delayed calls that connect
  front, polished, stale, pending,  \* the page on screen, the theme of every batch of
                        \* widgets, _stale_pages, _stale_pending
  store, shown,         \* the setting of each engine; the value of Home's switch
  dialog, advanced,     \* PowSettingsDialog; a setting, its widget, the user's choice
  left                  \* clicks left

life == <<xray, flag, worker, pow, asked, page, later>>
look == <<front, polished, stale, pending>>
values == <<store, shown, dialog, advanced>>
vars == <<mode, phase, asking, polls, life, look, values, left>>

Engines == {"xray", "pow"}
Pages == {"home", "logs", "tools"}
None == "none"

TypeOK ==
  /\ mode \in Engines /\ phase \in {"still", "first", "moving"}
  /\ asking \in BOOLEAN /\ polls \in 0..2 /\ left \in 0..Clicks
  /\ xray \in {"off", "connecting", "on"} /\ flag \in BOOLEAN /\ worker \in BOOLEAN
  /\ pow \in {"off", "connecting", "on", "ending"} /\ asked \in Engines \union {None}
  /\ page \in {"disconnected", "connecting", "connected", "disconnecting", "error"}
  /\ later \subseteq {"retry", "country", "bypass", "pow"}
  /\ front \in Pages /\ polished \in [Pages -> [1..2 -> Engines]]
  /\ stale \subseteq Pages /\ pending \in Pages \union {None}
  /\ store \in [Engines -> BOOLEAN] /\ shown \in BOOLEAN
  /\ dialog \in {"closed", "filling", "open"}
  /\ advanced \in [stored : BOOLEAN, widget : BOOLEAN, chosen : BOOLEAN]

Both(e) == [b \in 1..2 |-> e]
Other(e) == IF e = "pow" THEN "xray" ELSE "pow"

\* resolve_startup_engine: the saved engine, PoW on the first start
Init ==
  /\ mode \in Engines /\ phase = "still" /\ asking = FALSE /\ polls = 0
  /\ xray = "off" /\ flag = FALSE /\ worker = FALSE /\ pow = "off" /\ asked = None
  /\ page = "disconnected" /\ later = {}
  /\ front = "home" /\ polished = [p \in Pages |-> Both(mode)] /\ stale = {}
  /\ pending = None /\ store \in [Engines -> BOOLEAN] /\ shown = store[mode]
  /\ dialog = "closed" /\ advanced \in {[stored |-> v, widget |-> FALSE, chosen |-> v] :
                                        v \in BOOLEAN}
  /\ left = Clicks
-----------------------------------------------------------------------------
PowBusy == pow # "off"
\* _engine_busy; a cancelled connect thread does not count
Busy == PowBusy \/ xray = "on" \/ flag

\* The user does something: no question or dialog is open, no overlay is up.
Acts == left > 0 /\ left' = left - 1 /\ ~asking /\ dialog = "closed" /\ phase = "still"

(***************************************************************************)
(* Connecting and disconnecting: toggle_connection, PowController.toggle   *)
(***************************************************************************)
\* _cancel_connect_attempt and the synchronous Engine.stop
XrayStops == xray' = "off" /\ worker' = (worker \/ xray = "connecting")

PowConnects ==
  /\ pow' = "connecting" /\ UNCHANGED <<page, flag>>
  /\ IF xray = "on" \/ flag THEN XrayStops ELSE UNCHANGED <<xray, worker>>  \* _stop_xray_first

Toggle(who) ==
  \/ /\ PowBusy /\ pow' \in {"ending"} \union (IF pow = "connecting" THEN {pow} ELSE {})
     /\ asked' = (IF who = "user" /\ pow' = "ending" THEN None ELSE asked)
     /\ later' = later \ {who} /\ UNCHANGED <<xray, flag, worker, page>>
  \/ /\ ~PowBusy /\ mode = "pow" /\ PowConnects
     /\ asked' = (IF who = "user" THEN "pow" ELSE asked) /\ later' = later \ {who}
  \/ /\ ~PowBusy /\ mode = "xray" /\ ~flag /\ worker     \* the old thread first
     /\ asked' = (IF who = "user" THEN "xray" ELSE asked) /\ XrayStops
     /\ later' = (later \ {who}) \union {"retry"} /\ UNCHANGED <<flag, pow, page>>
  \/ /\ ~PowBusy /\ mode = "xray" /\ (flag \/ (xray = "on" /\ ~worker))
     /\ asked' = (IF who = "user" THEN None ELSE asked)
     /\ XrayStops /\ flag' = FALSE /\ page' = "disconnected"
     /\ later' = later \ {who} /\ UNCHANGED pow
  \/ /\ ~PowBusy /\ mode = "xray" /\ ~flag /\ ~worker /\ xray = "off"
     /\ xray' = "connecting" /\ flag' = TRUE /\ page' = "connecting"
     /\ asked' = (IF who = "user" THEN "xray" ELSE asked)
     /\ later' = later \ {who} /\ UNCHANGED <<worker, pow>>

\* The button is disabled while the page says "disconnecting".
ClickConnect ==
  /\ Acts /\ page # "disconnecting" /\ Toggle("user")
  /\ UNCHANGED <<mode, phase, asking, polls, look, values>>

\* _resume_pending_connection, _start_selected_country, the reconnect of
\* _apply_bypass_changes: none looks at the engine shown
Fires(t) ==
  /\ t \in later
  /\ CASE t = "retry" -> ~worker
       [] t \in {"country", "bypass"} -> ~flag /\ xray # "on"
       [] t = "pow" -> ~PowBusy
  /\ IF t = "pow" THEN PowConnects /\ later' = later \ {t} /\ UNCHANGED asked ELSE Toggle(t)
  /\ UNCHANGED <<mode, phase, asking, polls, look, values, left>>

\* ... and what they do when they find an engine busy: nothing.
Dropped(t) ==
  /\ t \in later
  /\ CASE t = "retry" -> FALSE
       [] t \in {"country", "bypass"} -> flag \/ xray = "on"
       [] t = "pow" -> PowBusy
  /\ later' = later \ {t}
  /\ UNCHANGED <<mode, phase, asking, polls, xray, flag, worker, pow, asked, page, look,
                 values, left>>

\* _country_activated and _apply_bypass_changes end the connection and start it later.
ReconnectXray(t) ==
  /\ Acts /\ mode = "xray" /\ t \in {"country", "bypass"}
  /\ t = "bypass" => xray = "on" \/ flag
  /\ IF xray = "on" \/ flag
     THEN XrayStops /\ flag' = FALSE /\ page' = "disconnected"
     ELSE UNCHANGED <<xray, worker, flag, page>>
  /\ asked' = "xray" /\ later' = later \union {t}
  /\ UNCHANGED <<mode, phase, asking, polls, pow, look, values>>

ReconnectPow ==
  /\ Acts /\ mode = "pow" /\ PowBusy /\ pow' = "ending" /\ asked' = "pow"
  /\ later' = later \union {"pow"}
  /\ UNCHANGED <<mode, phase, asking, polls, xray, flag, worker, page, look, values>>

\* The connect thread ends; _set_state handles its signal, except on PoW.
XrayEnds(up) ==
  /\ xray = "connecting" /\ xray' = (IF up THEN "on" ELSE "off")
  /\ IF mode = "pow" THEN UNCHANGED <<flag, page>>
     ELSE flag' = FALSE /\ page' = IF up THEN "connected" ELSE "error"
  /\ UNCHANGED <<mode, phase, asking, polls, worker, pow, asked, later, look, values, left>>

WorkerEnds ==
  /\ worker /\ worker' = FALSE
  /\ UNCHANGED <<mode, phase, asking, polls, xray, flag, pow, asked, page, later, look,
                 values, left>>

PowMoves ==
  /\ \/ pow = "connecting" /\ pow' \in {"on", "off"}
     \/ pow = "on" /\ pow' = "off"
     \/ pow = "ending" /\ pow' = "off"
  /\ UNCHANGED <<mode, phase, asking, polls, xray, flag, worker, asked, page, later, look,
                 values, left>>
-----------------------------------------------------------------------------
(***************************************************************************)
(* The switch                                                              *)
(***************************************************************************)
NavVisible(p, e) == p # "tools" \/ e = "xray"

\* _flip_engine_property: what is on screen now, the rest is stale.
Flip_KeepsPending(e) ==
  /\ polished' = [polished EXCEPT ![front] = Both(e)]
  /\ stale' = Pages \ {front} /\ UNCHANGED <<front, pending>>
Flip(e) ==
  /\ polished' = [polished EXCEPT ![front] = Both(e)]
  /\ stale' = Pages \ {front} /\ pending' = None /\ UNCHANGED front

\* _freshen_page: what a restyle of this page left over, or all of it
Freshen(p, e) ==
  IF p \notin stale THEN UNCHANGED <<polished, stale, pending>>
  ELSE /\ polished' = [polished EXCEPT ![p] = IF pending = p THEN [@ EXCEPT ![2] = e]
                                              ELSE Both(e)]
       /\ stale' = stale \ {p} /\ pending' = IF pending = p THEN None ELSE pending

Show(p, e) == front' = p /\ Freshen(p, e)

\* _apply_engine_home: the switch of Home, with its signals blocked
LoadHome_PowOnly(e) == shown' = IF e = "pow" THEN store[e] ELSE shown
LoadHome(e) == shown' = store[e]

\* _switch_engine_now, up to the theme
Begin ==
  /\ phase' = "first" /\ mode' = Other(mode) /\ Flip(Other(mode))
  /\ UNCHANGED <<life, values>>

ClickSwitch ==
  /\ left > 0 /\ left' = left - 1 /\ ~asking /\ dialog = "closed"
  /\ IF phase # "still" THEN UNCHANGED <<mode, phase, asking, life, look, values>>
     ELSE IF Busy THEN asking' = TRUE /\ UNCHANGED <<mode, phase, life, look, values>>
     ELSE Begin /\ UNCHANGED asking
  /\ UNCHANGED polls

\* The next turn of the event loop: _finish_engine_switch_ui.
Finish ==
  /\ phase = "first" /\ phase' = "moving" /\ LoadHome(mode) /\ Show("home", mode)
  /\ IF Busy THEN UNCHANGED <<flag, page>>               \* _reset_connection_ui
     ELSE flag' = FALSE /\ page' = "disconnected"
  /\ UNCHANGED <<mode, asking, polls, xray, worker, pow, asked, later, store, dialog,
                 advanced, left>>

Finished ==
  /\ phase = "moving" /\ phase' = "still"
  /\ UNCHANGED <<mode, asking, polls, life, look, values, left>>

Refused ==
  /\ asking /\ asking' = FALSE
  /\ UNCHANGED <<mode, phase, polls, life, look, values, left>>

\* _guarded_switch, _disconnect_then_switch: `connecting` is left as it is
Agreed ==
  /\ asking /\ asking' = FALSE /\ polls < 2 /\ polls' = polls + 1
  /\ page' = "disconnecting" /\ pow' = (IF PowBusy THEN "ending" ELSE pow)
  /\ IF xray = "on" \/ flag THEN XrayStops ELSE UNCHANGED <<xray, worker>>
  /\ UNCHANGED <<mode, phase, flag, asked, later, look, values, left>>

Poll ==
  /\ polls > 0 /\ ~Busy /\ polls' = polls - 1
  /\ IF phase = "still" THEN Begin ELSE UNCHANGED <<mode, phase, life, look, values>>
  /\ UNCHANGED <<asking, left>>

GivesUp ==
  /\ polls > 0 /\ Busy /\ polls' = polls - 1
  /\ UNCHANGED <<mode, phase, asking, life, look, values, left>>
-----------------------------------------------------------------------------
(***************************************************************************)
(* Pages, language, switches and the settings dialog                       *)
(***************************************************************************)
ShowPage ==
  /\ Acts /\ \E p \in Pages : NavVisible(p, mode) /\ Show(p, mode)
  /\ UNCHANGED <<mode, phase, asking, polls, life, values>>

\* _restyle_next_stale_page: one batch
Restyle ==
  /\ phase = "still" /\ stale # {}
  /\ \E p \in stale :
       /\ pending \in stale => p = pending
       /\ IF pending = p
          THEN /\ polished' = [polished EXCEPT ![p][2] = mode]
               /\ stale' = stale \ {p} /\ pending' = None
          ELSE /\ polished' = [polished EXCEPT ![p][1] = mode]
               /\ pending' = p /\ UNCHANGED stale
  /\ UNCHANGED <<mode, phase, asking, polls, life, front, values, left>>

\* Another language installs the whole style sheet.
ChangeLanguage ==
  /\ Acts /\ polished' = [p \in Pages |-> Both(mode)] /\ stale' = {} /\ LoadHome(mode)
  /\ UNCHANGED <<mode, phase, asking, polls, life, front, pending, store, dialog, advanced>>

\* A switch of Home is moved: the setting of the engine shown
MoveSwitch ==
  /\ Acts /\ front = "home" /\ shown' = ~shown /\ store' = [store EXCEPT ![mode] = ~shown]
  /\ UNCHANGED <<mode, phase, asking, polls, life, look, dialog, advanced>>

\* PowSettingsDialog: its widgets are made unchecked and emit while they are filled.
OpenSettings ==
  /\ Acts /\ mode = "pow" /\ dialog' = "filling" /\ advanced' = [advanced EXCEPT !.widget = FALSE]
  /\ UNCHANGED <<mode, phase, asking, polls, life, look, store, shown>>

\* _field_changed: only after the stored settings are in the widgets
Editing_Always == dialog # "closed"
Editing == dialog = "open"
FieldChanged(w) ==
  [advanced EXCEPT !.stored = IF Editing THEN w ELSE @, !.widget = w]

Emits ==
  /\ dialog = "filling" /\ \E w \in BOOLEAN : advanced' = FieldChanged(w)
  /\ UNCHANGED <<mode, phase, asking, polls, life, look, store, shown, dialog, left>>

\* _load_settings_into_widgets, then the dialog is shown
Filled ==
  /\ dialog = "filling" /\ dialog' = "open"
  /\ advanced' = [advanced EXCEPT !.widget = advanced.stored]
  /\ UNCHANGED <<mode, phase, asking, polls, life, look, store, shown, left>>

Chooses ==
  /\ dialog = "open" /\ left > 0 /\ left' = left - 1
  /\ advanced' = [FieldChanged(~advanced.widget) EXCEPT !.chosen = ~advanced.widget]
  /\ UNCHANGED <<mode, phase, asking, polls, life, look, store, shown, dialog>>

CloseSettings ==
  /\ dialog = "open" /\ dialog' = "closed"
  /\ UNCHANGED <<mode, phase, asking, polls, life, look, store, shown, advanced, left>>
-----------------------------------------------------------------------------
Next ==
  \/ ClickConnect \/ ReconnectPow \/ WorkerEnds \/ PowMoves
  \/ \E t \in {"retry", "country", "bypass", "pow"} : Fires(t) \/ Dropped(t)
  \/ \E t \in {"country", "bypass"} : ReconnectXray(t)
  \/ \E up \in BOOLEAN : XrayEnds(up)
  \/ ClickSwitch \/ Finish \/ Finished \/ Refused \/ Agreed \/ Poll \/ GivesUp
  \/ ShowPage \/ Restyle \/ ChangeLanguage \/ MoveSwitch
  \/ OpenSettings \/ Emits \/ Filled \/ Chooses \/ CloseSettings

Spec == Init /\ [][Next]_vars
-----------------------------------------------------------------------------
(***************************************************************************)
(* Safety                                                                  *)
(***************************************************************************)
\* The window is of one engine: the two never run together, the page on screen
\* has the theme of the engine, and so has every page that is not marked stale
\* (as far as a restyle got); when the switch is over Home's switch shows the
\* engine's setting, and the settings dialog stores only what the user chose
\* (ui.py: _switch_engine_now, _flip_engine_property, _freshen_page,
\* _restyle_next_stale_page, _apply_engine_home; pow_ui.py: _field_changed).
WindowOfEngine ==
  /\ ~(xray = "on" /\ pow # "off")
  /\ \A p \in Pages \ stale : polished[p] = Both(mode)
  /\ front \notin stale
  /\ pending \in stale => polished[pending][1] = mode
  /\ phase = "still" => shown = store[mode]
  /\ advanced.stored = advanced.chosen

\* What WindowOfEngine needs to be inductive: an engine that is not off has the
\* other one off, and a connect of Xray is known to be one; the themes of the
\* pages; the switch of Home is only wrong until the second turn of the event loop.
OneEngine ==
  /\ xray \in {"off", "connecting", "on"} /\ (xray # "off" => pow = "off")
  /\ xray = "connecting" => flag
Themed ==
  /\ mode \in Engines /\ front \in Pages /\ stale \subseteq Pages
  /\ polished \in [Pages -> [1..2 -> Engines]]
  /\ \A p \in Pages \ stale : polished[p] = Both(mode)
  /\ front \notin stale /\ (pending \in stale => polished[pending][1] = mode)
SettingsShown ==
  /\ store \in [Engines -> BOOLEAN] /\ shown \in BOOLEAN
  /\ phase # "first" => shown = store[mode]
Chosen ==
  /\ advanced \in [stored : BOOLEAN, widget : BOOLEAN, chosen : BOOLEAN]
  /\ advanced.stored = advanced.chosen
WindowInv == OneEngine /\ Themed /\ SettingsShown /\ Chosen

\* The page of the Xray engine says "disconnecting" only while something ends: an engine, a
\* connect thread or a wait for them (engine_switch_guard.py: "I can disconnect
\* and take you to the other engine").
DisconnectingEnds ==
  page = "disconnecting" /\ mode = "xray" /\ phase = "still"
    => polls > 0 \/ PowBusy \/ xray = "on" \/ worker

\* An engine connects only when the user asked for that engine.
OnlyAsked == pow = "connecting" => asked = "pow"
=============================================================================
