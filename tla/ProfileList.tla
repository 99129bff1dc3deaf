----------------------------- MODULE ProfileList -----------------------------
(***************************************************************************)
(* The configurations of the main window and which of them Connect uses    *)
(* (ui.py): the three lists and their current rows, the active profile,    *)
(* Auto Mode with its source and country, the profile forced by "Activate" *)
(* and the timers that connect by themselves (a queued switch, a retry, a  *)
(* chosen country).  How one attempt runs is the subject of ConnectFlow.   *)
(*                                                                         *)
(* Profiles are numbers in the order of storage.profiles; the countries of *)
(* COUNTRIES are a small set, "" is a profile without a verified route.    *)
(***************************************************************************)
EXTENDS Integers, FiniteSets

CONSTANTS
  Origin,     \* origin of each profile: "user", "user-config" or "suggested"
  FirstCode,  \* its country code when the window opens
  Initial,    \* the profiles there are when the window opens
  Codes,      \* the country codes a tunnel may be observed in
  Changes,    \* how many clicks on lists, switches and buttons
  Connects    \* how many connect attempts

Ids == DOMAIN Origin
Direct == {"user", "user-config"}
Lists == Direct \cup {"suggested"}
All == "ALL"

VARIABLES
  profiles,   \* storage.profiles
  code,       \* profile.country_code
  home,       \* what the page and the settings hold about the choice
  forced,     \* _forced_profile_id, 0 is none
  conn,       \* "off", "connecting", "on": connecting and engine.running
  worker,     \* the connect thread: "none", "starting", "trying", "cancelled"
  run,        \* what the thread was started with and the profiles it tries
  pending,    \* _pending_profile_switch_id
  waiting,    \* _profile_switch_waiting
  retry,      \* _connection_retry_pending
  timer,      \* a chosen country is to be connected in 120 ms
  ping,       \* the list being pinged, or "none"
  wanted,     \* history: the profile activated last while a switch waits
  left        \* clicks and connects left

vars == <<profiles, code, home, forced, conn, worker, run, pending, waiting,
          retry, timer, ping, wanted, left>>
links == <<conn, worker, run, pending, waiting, retry, timer, wanted>>

TypeOK ==
  /\ profiles \subseteq Ids
  /\ code \in [Ids -> Codes \cup {""}]
  /\ home.selected \in Ids \cup {0} /\ home.row \in [Lists -> Ids \cup {0}]
  /\ home.tab \in Lists /\ home.auto \in BOOLEAN /\ home.source \in {"user-config", "suggested"}
  /\ home.filter \in Codes \cup {All} /\ home.direct \in Direct \cup {""}
  /\ home.last \in [Direct -> Ids \cup {0}]
  /\ {forced, pending, wanted} \subseteq Ids \cup {0}
  /\ conn \in {"off", "connecting", "on"}
  /\ worker \in {"none", "starting", "trying", "cancelled"}
  /\ run \in [forced : Ids \cup {0}, auto : BOOLEAN, tries : SUBSET Ids]
  /\ {waiting, retry, timer} \subseteq BOOLEAN
  /\ ping \in Lists \cup {"none"}
  /\ left \in [clicks : 0..Changes, connects : 0..Connects]

Of(list) == {p \in profiles : Origin[p] = list}
First(S) == IF S = {} THEN 0 ELSE CHOOSE p \in S : \A q \in S : p <= q

\* Storage.selected_id: an id that is gone stands for the first profile.
Selected(h) == IF h.selected \in profiles THEN h.selected ELSE First(profiles)

(***************************************************************************)
(* What the handlers do to the page's choice, as functions of it.          *)
(***************************************************************************)
Remember(h, p) ==
  IF p = 0 \/ p \notin Ids \/ Origin[p] \notin Direct THEN h
  ELSE [h EXCEPT !.direct = Origin[p], !.last[Origin[p]] = p]

DirectSource(h) ==
  IF h.direct # "" THEN h.direct
  ELSE IF Selected(h) # 0 /\ Origin[Selected(h)] \in Direct THEN Origin[Selected(h)]
  ELSE IF Of("user") # {} THEN "user" ELSE "user-config"

\* In manual mode the row that is current in the list shown becomes active.
TabChanged(h) ==
  IF h.tab \notin Direct \/ h.auto THEN h
  ELSE LET p == h.row[h.tab]
           g == [h EXCEPT !.direct = h.tab]
       IN IF p \in profiles THEN Remember([g EXCEPT !.selected = p], p) ELSE g

TabTo(h, list) == IF h.tab = list THEN h ELSE TabChanged([h EXCEPT !.tab = list])

\* The remembered profile of the direct source, its current row, the active
\* profile, the first of the source, the first of the other source.
SelectManual(h) ==
  LET o == DirectSource(h)
      wish == <<h.last[o], h.row[o], Selected(h)>>
      good == {i \in 1..3 : wish[i] \in Of(o)}
      p == IF good # {} THEN wish[First(good)]
           ELSE IF Of(o) # {} THEN First(Of(o))
           ELSE First(Of(CHOOSE d \in Direct : d # o))
  IN IF p = 0 THEN h
     ELSE Remember([h EXCEPT !.selected = p, !.row[Origin[p]] = p], p)

SyncAutoMode(h) ==
  IF h.auto THEN TabTo(h, h.source) ELSE SelectManual(TabTo(h, DirectSource(h)))

\* refresh_profiles clears the lists; only the active profile is current again.
Refreshed(h, ps) ==
  LET s == IF h.selected \in ps THEN h.selected ELSE First(ps)
  IN [h EXCEPT !.row = [l \in Lists |-> IF s # 0 /\ Origin[s] = l THEN s ELSE 0]]

Verified(p) == code[p] # ""
SourceProfiles == Of(home.source)
Country(h) == IF h.source = "user-config" /\ h.filter # All THEN h.filter ELSE ""
CountryProfiles(c) == {p \in SourceProfiles : code[p] = c}

Init ==
  /\ profiles = Initial
  /\ code = FirstCode
  /\ \E auto \in BOOLEAN, source \in {"user-config", "suggested"}, s \in Initial :
       home = Refreshed(SyncAutoMode(
                [selected |-> s, row |-> [l \in Lists |-> 0], tab |-> "user-config",
                 auto |-> auto, source |-> source, filter |-> All, direct |-> "",
                 last |-> [d \in Direct |-> 0]]), Initial)
  /\ forced = 0 /\ pending = 0 /\ wanted = 0
  /\ conn = "off" /\ worker = "none"
  /\ run = [forced |-> 0, auto |-> FALSE, tries |-> {}]
  /\ waiting = FALSE /\ retry = FALSE /\ timer = FALSE
  /\ ping = "none"
  /\ left = [clicks |-> Changes, connects |-> Connects]

Clicks == left.clicks > 0 /\ left' = [left EXCEPT !.clicks = @ - 1]

Cancelled == IF worker = "none" THEN "none" ELSE "cancelled"

(***************************************************************************)
(* toggle_connection.  It is the handler of the button and what every      *)
(* timer calls: with the connection up or coming up it ends it.            *)
(***************************************************************************)
Candidates(h, f) ==
  IF f # 0 THEN {f}
  ELSE IF ~h.auto THEN {Selected(h)} \cap (Of("user") \cup Of("user-config"))
  ELSE IF Country(h) # "" THEN CountryProfiles(Country(h))
  ELSE LET good == {p \in SourceProfiles : Verified(p)}
       IN IF h.source = "suggested" /\ good = {} THEN SourceProfiles ELSE good

Begin(h, f) ==
  LET known == IF f \in profiles THEN f ELSE 0
      g == IF ~h.auto /\ known = 0 /\ (Selected(h) = 0 \/ Origin[Selected(h)] = "suggested")
           THEN SelectManual(h) ELSE h
  IN /\ left.connects > 0 /\ left' = [left EXCEPT !.connects = @ - 1]
     /\ forced' = 0 /\ home' = g
     /\ IF Candidates(g, known) = {}
          THEN UNCHANGED <<conn, worker, run>>
          ELSE /\ conn' = "connecting" /\ worker' = "starting"
               /\ run' = [forced |-> known, auto |-> h.auto, tries |-> {}]

Lingers == conn = "off" /\ worker # "none"

Toggle(h, f) ==
  \/ /\ Lingers
     /\ worker' = IF retry THEN worker ELSE "cancelled"
     /\ home' = h /\ forced' = f
     /\ UNCHANGED <<conn, run, left>>
  \/ /\ conn # "off"
     /\ conn' = "off" /\ worker' = Cancelled
     /\ home' = h /\ forced' = f
     /\ UNCHANGED <<run, left>>
  \/ /\ conn = "off" /\ worker = "none"
     /\ Begin(h, f)

Rest == UNCHANGED <<profiles, code, ping>>

\* While a switch waits the page shows "disconnecting" and the button is off.
ClickConnect ==
  /\ ~waiting
  /\ Toggle(home, forced)
  /\ retry' = (retry \/ Lingers)
  /\ Rest /\ UNCHANGED <<pending, waiting, timer, wanted>>

\* The thread reads the page again when it orders the profiles ...
Orders ==
  /\ worker = "starting"
  /\ LET c == Candidates([home EXCEPT !.auto = run.auto], run.forced)
     IN IF c = {} THEN worker' = "none" /\ conn' = "off" /\ UNCHANGED run
        ELSE worker' = "trying" /\ run' = [run EXCEPT !.tries = c] /\ UNCHANGED conn
  /\ Rest /\ UNCHANGED <<home, forced, pending, waiting, retry, timer, wanted, left>>

\* ... and stores the country it came out in (_record_profile_location).
Wins(p, c) ==
  /\ worker = "trying" /\ p \in run.tries
  /\ code' = [code EXCEPT ![p] = c]
  /\ home' = IF code[p] = c THEN home ELSE Refreshed(home, profiles)
  /\ worker' = "none" /\ conn' = "on"
  /\ UNCHANGED <<profiles, forced, run, pending, waiting, retry, timer, ping, wanted, left>>

Fails == /\ worker = "trying"
         /\ worker' = "none" /\ conn' = "off"
         /\ Rest /\ UNCHANGED <<home, forced, run, pending, waiting, retry, timer, wanted, left>>

Ends == /\ worker = "cancelled"
        /\ worker' = "none"
        /\ Rest /\ UNCHANGED <<home, forced, conn, run, pending, waiting, retry, timer, wanted, left>>

(***************************************************************************)
(* "Activate" on a row, and the switch it queues while something runs.     *)
(***************************************************************************)
\* Faulty: a switch that waits keeps the profile it was queued for.
Queue_First(p) ==
  /\ pending' = IF waiting THEN pending ELSE p
  /\ IF waiting THEN UNCHANGED <<waiting, conn, worker>>
     ELSE waiting' = TRUE /\ conn' = "off" /\ worker' = Cancelled

Queue(p) ==
  /\ pending' = p
  /\ IF waiting THEN UNCHANGED <<waiting, conn, worker>>
     ELSE waiting' = TRUE /\ conn' = "off" /\ worker' = Cancelled

Activate(p) ==
  /\ Clicks /\ p \in Of(home.tab)
  /\ LET h == Remember([home EXCEPT !.selected = p], p)
         s == IF Origin[p] = "user" THEN h.source ELSE Origin[p]
     IN home' = [Refreshed([h EXCEPT !.source = s], profiles) EXCEPT !.row[Origin[p]] = p]
  /\ forced' = IF Origin[p] \in Direct THEN p ELSE forced
  /\ IF conn # "off" \/ waiting \/ worker # "none"
       THEN Queue(p) /\ wanted' = p
       ELSE UNCHANGED <<pending, waiting, conn, worker, wanted>>
  /\ Rest /\ UNCHANGED <<run, retry, timer>>

ResumeSwitch ==
  /\ waiting /\ worker = "none"
  /\ waiting' = FALSE /\ pending' = 0 /\ wanted' = 0
  /\ IF pending \in profiles
       THEN Toggle([home EXCEPT !.selected = pending], pending)
       ELSE UNCHANGED <<home, forced, conn, worker, run, left>>
  /\ Rest /\ UNCHANGED <<retry, timer>>

ResumeRetry ==
  /\ retry /\ worker = "none"
  /\ Toggle(home, forced) /\ retry' = FALSE
  /\ Rest /\ UNCHANGED <<pending, waiting, timer, wanted>>

(***************************************************************************)
(* Auto Mode, its source and its country                                   *)
(***************************************************************************)
AutoMode ==
  /\ Clicks
  /\ LET h == IF home.auto THEN home ELSE Remember(home, Selected(home))
     IN home' = Refreshed(SyncAutoMode([h EXCEPT !.auto = ~@]), profiles)
  /\ Rest /\ UNCHANGED <<forced, links>>

RouteSource(s) ==
  /\ Clicks /\ home.auto /\ s # home.source
  /\ home' = SyncAutoMode([home EXCEPT !.source = s])
  /\ Rest /\ UNCHANGED <<forced, links>>

PickCountry(c) ==
  /\ Clicks /\ home.auto /\ home.source = "user-config"
  /\ home' = Refreshed([home EXCEPT !.filter = c], profiles)
  /\ IF c = All THEN UNCHANGED <<conn, worker, timer>>
     ELSE timer' = TRUE /\ conn' = "off" /\ worker' = (IF conn = "off" THEN worker ELSE Cancelled)
  /\ Rest /\ UNCHANGED <<forced, run, pending, waiting, retry, wanted>>

StartCountry ==
  /\ timer /\ timer' = FALSE
  /\ IF home.auto /\ Country(home) # "" /\ conn = "off"
       THEN Toggle(home, forced) /\ retry' = (retry \/ Lingers)
       ELSE UNCHANGED <<home, forced, conn, worker, run, retry, left>>
  /\ Rest /\ UNCHANGED <<pending, waiting, wanted>>

(***************************************************************************)
(* The lists                                                               *)
(***************************************************************************)
ClickRow(p) ==
  /\ Clicks /\ p \in Of(home.tab)
  /\ home' = [home EXCEPT !.row[Origin[p]] = p]
  /\ Rest /\ UNCHANGED <<forced, links>>

ClickTab(list) ==
  /\ Clicks /\ list # home.tab
  /\ home' = TabTo(home, list)
  /\ Rest /\ UNCHANGED <<forced, links>>

AddProfile(p) ==
  /\ Clicks /\ p \notin profiles /\ Origin[p] = "user"
  /\ profiles' = profiles \cup {p}
  /\ home' = Refreshed(Remember([home EXCEPT !.selected = p], p), profiles')
  /\ UNCHANGED <<code, ping, forced, links>>

\* One healthy result of the SNI Maker is added to User Config.
MakerAdds(p) ==
  /\ Clicks /\ p \notin profiles /\ Origin[p] = "user-config"
  /\ profiles' = profiles \cup {p}
  /\ LET idle == conn = "off" /\ ~waiting
         h == IF home.source = "user-config" THEN home
              ELSE SyncAutoMode([home EXCEPT !.source = "user-config"])
         g == IF idle THEN Remember([h EXCEPT !.selected = p], p) ELSE h
     IN /\ home' = [TabTo(Refreshed(g, profiles'), "user-config") EXCEPT !.row["user-config"] = p]
        /\ forced' = IF idle THEN p ELSE forced
  /\ UNCHANGED <<code, ping, links>>

DeleteProfile(p) ==
  /\ Clicks /\ p \in Of(home.tab)
  /\ profiles' = profiles \ {p}
  /\ home' = Refreshed([home EXCEPT !.selected = IF Selected(home) = p THEN 0 ELSE @], profiles')
  /\ UNCHANGED <<code, ping, forced, links>>

DeleteAllUserConfigs ==
  /\ Clicks /\ Of("user-config") # {}
  /\ profiles' = profiles \ Of("user-config")
  /\ LET s == IF Selected(home) \in Of("user-config") THEN First(Of("user")) ELSE home.selected
     IN home' = Refreshed([home EXCEPT !.selected = s, !.last["user-config"] = 0], profiles')
  /\ UNCHANGED <<code, ping, forced, links>>

RestoreOriginals ==
  /\ Clicks
  /\ LET originals == {p \in Initial : Origin[p] = "suggested"}
     IN /\ profiles' = originals \cup Of("user") \cup Of("user-config")
        /\ home' = Refreshed([home EXCEPT !.selected =
                                IF @ \in profiles' THEN @ ELSE First(originals)], profiles')
  /\ UNCHANGED <<code, ping, forced, links>>

PingList ==
  /\ Clicks /\ ping = "none" /\ Of(home.tab) # {}
  /\ ping' = home.tab
  /\ UNCHANGED <<profiles, code, home, forced, links>>

PingsFinished ==
  /\ ping # "none" /\ ping' = "none"
  /\ home' = Refreshed(home, profiles)
  /\ UNCHANGED <<profiles, code, forced, links, left>>

Next ==
  \/ ClickConnect \/ Orders \/ Fails \/ Ends \/ ResumeSwitch \/ ResumeRetry
  \/ AutoMode \/ StartCountry \/ DeleteAllUserConfigs \/ RestoreOriginals
  \/ PingList \/ PingsFinished
  \/ \E p \in Ids, c \in Codes : Wins(p, c)
  \/ \E p \in Ids : Activate(p) \/ ClickRow(p) \/ AddProfile(p) \/ MakerAdds(p) \/ DeleteProfile(p)
  \/ \E s \in {"user-config", "suggested"} : RouteSource(s)
  \/ \E c \in Codes \cup {All} : PickCountry(c)
  \/ \E list \in Lists : ClickTab(list)

Spec == Init /\ [][Next]_vars

(***************************************************************************)
(* Properties                                                              *)
(***************************************************************************)

\* However many configurations are activated while an old attempt is being
\* given up, and whatever is added, deleted or switched meanwhile: the attempt
\* the queued switch starts is bound to the one activated last.
Lands ==
  ResumeSwitch /\ wanted \in profiles /\ conn = "off" =>
    conn' = "connecting" /\ run'.forced = wanted
SwitchLands == [][Lands]_vars
\* What it rests on: a switch that waits is for the profile activated last.
WaitsForWanted == profiles \subseteq Ids /\ (waiting => pending = wanted)

\* "Manual mode uses the selected Manual or User Config entry": a click on
\* Connect that is bound to one profile is bound to the one shown as active.
ConnectsActive ==
  [][ClickConnect /\ conn = "off" /\ conn' = "connecting" /\ run'.forced # 0 =>
       run'.forced = Selected(home)]_vars

\* A timer that connects never ends a connection that is up.
TimersOnlyConnect ==
  [][conn = "on" /\ conn' = "off" => left'.clicks < left.clicks \/ ClickConnect]_vars
=============================================================================
