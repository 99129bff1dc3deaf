-------------------------- MODULE EngineProcesses --------------------------
(***************************************************************************)
(* The helper processes of the first engine and the records by which a     *)
(* later run of the app finds them (uac_desktop/engine.py): Xray outlives  *)
(* an app that is killed and is looked for by its owner record and by its  *)
(* ports; sing-box is born inside a job and dies with the app, unless the  *)
(* next app is quicker.  Abstractions: a pair of local ports is a number;  *)
(* one app runs at a time, see WindowsProxy.tla; a process is identified   *)
(* by a number that is not used again, as pid and creation time do; what   *)
(* Xray is told to do is in TunnelRoutes.tla.                              *)
(***************************************************************************)
EXTENDS Naturals, FiniteSets

CONSTANTS
  MaxApp,         \* runs of the app
  MaxProc,        \* processes ever started
  Faults          \* kills that are denied, records not written, exits

\* SOCKS_PORT and HTTP_PORT, the pair of the settings, the first pair scanned.
Default == 1
Custom == 2
Scan == 3
Pairs == {Default, Custom, Scan}

VARIABLES
  app, pc,        \* the run of the app, 0: none before it; its step in Engine.start
  procs,          \* the live processes
  made,           \* processes ever started
  record,         \* xray owner record: [id, pair], or NoRecord
  tunRecord,      \* sing-box owner record: [id, app], or NoTunRecord
  mine, tun,      \* Engine.process and tun_process: a process number, or 0
  preferred,      \* preferred_ports
  pair,           \* socks_port and http_port
  owed,           \* Xrays the record named when their app died
  blocked,        \* who held the ports a start was refused for
  left            \* faults left

vars == <<app, pc, procs, made, record, tunRecord, mine, tun, preferred, pair, owed, blocked, left>>

NoRecord == [id |-> 0, pair |-> 0]
NoTunRecord == [id |-> 0, app |-> 0]
Steps == {"dead", "idle", "release", "choose", "reclaim", "recover", "spawn", "record", "check",
          "active", "key", "tun", "tuncheck"}

TypeOK ==
  /\ app \in 0..MaxApp /\ pc \in Steps
  /\ procs \subseteq [id : 1..MaxProc, kind : {"xray", "singbox", "other"}, pair : {0} \union Pairs]
  /\ made \in 0..MaxProc
  /\ record \in [id : 0..MaxProc, pair : {0} \union Pairs]
  /\ tunRecord \in [id : 0..MaxProc, app : 0..MaxApp]
  /\ mine \in 0..MaxProc /\ tun \in 0..MaxProc /\ preferred \in {Default, Custom} /\ pair \in Pairs
  /\ owed \subseteq 1..MaxProc /\ blocked \subseteq 1..MaxProc /\ left \in 0..Faults

Init ==
  /\ app = 0 /\ pc = "dead" /\ procs = {} /\ made = 0
  /\ record = NoRecord /\ tunRecord = NoTunRecord /\ mine = 0 /\ tun = 0
  /\ preferred \in {Default, Custom} /\ pair = Default
  /\ owed = {} /\ blocked = {} /\ left = Faults
-----------------------------------------------------------------------------
\* _listener_owners: a suspended or starting process does not listen yet.
Listeners(ports) == {p \in procs : p.pair \in ports}
Without(ids) == {p \in procs : p.id \notin ids}
Live(id) == \E p \in procs : p.id = id
Ids(ps) == {p.id : p \in ps}

\* _is_owned_xray: a record has to name the process, without one its binary does.
Owned(p) == p.kind = "xray" /\ record.id \in {0, p.id}

\* The app's own Xrays among the listeners that one pass finds: once the one
\* on record is gone, those that come after it count as owned.
Finds(ports) ==
  LET xrays == {p \in Listeners(ports) : p.kind = "xray"} IN
    {V \in SUBSET xrays : /\ {p \in xrays : Owned(p)} \subseteq V
                          /\ V = {} \/ \E p \in xrays : Owned(p)}

\* _remove_owner_record and _remove_singbox_owner_record
Unrecord(ids) == record' = IF record.id \in ids THEN NoRecord ELSE record
TunUnrecord(ids) == tunRecord' = IF tunRecord.id \in ids THEN NoTunRecord ELSE tunRecord

Fault == left > 0 /\ left' = left - 1
Spawned(kind, p) == /\ made < MaxProc /\ made' = made + 1
                    /\ procs' = procs \union {[id |-> made + 1, kind |-> kind, pair |-> p]}
-----------------------------------------------------------------------------
(***************************************************************************)
(* The app and its surroundings                                            *)
(***************************************************************************)
AppStarts ==
  /\ pc = "dead" /\ app < MaxApp /\ app' = app + 1 /\ pc' = "idle"
  /\ mine' = 0 /\ tun' = 0 /\ pair' = Default /\ preferred' \in {Default, Custom} /\ blocked' = {}
  /\ UNCHANGED <<procs, made, record, tunRecord, owed, left>>

\* Killed at any step: Xray runs on, the job of sing-box closes.
AppDies ==
  /\ pc # "dead" /\ app < MaxApp /\ pc' = "dead"
  /\ owed' = owed \union {p.id : p \in {q \in procs : q.id \in {mine} \intersect {record.id} /\ q.pair # 0}}
  /\ UNCHANGED <<app, procs, made, record, tunRecord, mine, tun, preferred, pair, blocked, left>>

\* _create_tun_job: the kernel kills what is left in a closed job.
JobKills ==
  /\ \E p \in procs : /\ p.kind = "singbox" /\ (pc = "dead" \/ p.id # tun)
                      /\ procs' = procs \ {p}
  /\ UNCHANGED <<app, pc, made, record, tunRecord, mine, tun, preferred, pair, owed, blocked, left>>

\* An Xray ends by itself: always when it could not bind its ports.
XrayDies ==
  /\ IF \E p \in procs : p.kind = "xray" /\ p.pair = 0 THEN UNCHANGED left ELSE Fault
  /\ \E p \in procs : /\ p.kind = "xray" /\ (left' = left => p.pair = 0)
                      /\ procs' = procs \ {p} /\ owed' = owed \ {p.id}
  /\ UNCHANGED <<app, pc, made, record, tunRecord, mine, tun, preferred, pair, blocked>>

\* Another program takes a port, also between the choice of a pair and its use.
OtherTakes ==
  /\ Fault /\ \E p \in Pairs : Listeners({p}) = {} /\ Spawned("other", p)
  /\ UNCHANGED <<app, pc, record, tunRecord, mine, tun, preferred, pair, owed, blocked>>
-----------------------------------------------------------------------------
(***************************************************************************)
(* Engine._stop_locked: it ends what the engine holds, also before a start *)
(* and after a failed one; a process that cannot be killed is given up.    *)
(***************************************************************************)
StopLocked(next) ==
  /\ \/ procs' = Without({mine, tun}) /\ pc' = next /\ UNCHANGED left
     \/ mine # 0 /\ Live(mine) /\ Fault /\ procs' = Without({tun}) /\ pc' = "idle"
  /\ Unrecord({mine}) /\ TunUnrecord({tun}) /\ mine' = 0 /\ tun' = 0

Start ==
  /\ pc \in {"idle", "active"} /\ StopLocked("release") /\ blocked' = {}
  /\ UNCHANGED <<app, made, preferred, pair, owed>>

Stop ==
  /\ pc = "active" /\ StopLocked("idle")
  /\ UNCHANGED <<app, made, preferred, pair, owed, blocked>>

\* Whatever raises after the stop, and a cancel between two steps.
StartFails ==
  /\ pc \in {"release", "choose", "reclaim", "recover", "record", "check", "key"}
  /\ StopLocked("idle") /\ UNCHANGED <<app, made, preferred, pair, owed, blocked>>
-----------------------------------------------------------------------------
\* Faulty: the ports in use are assumed to be the usual ones.
Known_Default == {pair, Default}

\* _release_owned_listeners: the last pair, the default pair, the one on record.
Known == {pair, Default} \union ({record.pair} \ {0})

\* One pass of killing: _release_owned_listeners, and reclaim_stale_listeners
\* after the choice.  A denied kill is skipped.
Kills(ports) ==
  \E V \in Finds(ports) :
    \/ /\ procs' = procs \ V /\ Unrecord(Ids(V)) /\ owed' = owed \ Ids(V) /\ UNCHANGED left
    \/ /\ V # {} /\ Fault /\ owed' = owed \ Ids(V) /\ UNCHANGED <<procs, record>>

Release ==
  /\ pc = "release" /\ Kills(Known) /\ pc' = "choose"
  /\ UNCHANGED <<app, made, tunRecord, mine, tun, preferred, pair, blocked>>

\* allocate_local_ports, or check_configured_ports for a pair of the settings.
Choose ==
  /\ pc = "choose"
  /\ LET foreign == {p \in Listeners({preferred}) : ~Owned(p)} IN
       IF preferred = Custom /\ foreign # {}
       THEN pc' = "idle" /\ blocked' = Ids(foreign) /\ UNCHANGED pair
       ELSE /\ pc' = "reclaim" /\ UNCHANGED blocked
            /\ pair' = IF preferred = Default /\ Listeners({Default}) # {} THEN Scan ELSE preferred
  /\ UNCHANGED <<app, procs, made, record, tunRecord, mine, tun, preferred, owed, left>>

\* reclaim_stale_listeners
Reclaim ==
  /\ pc = "reclaim" /\ Kills({pair})
  /\ LET still == Ids({p \in procs' : p.pair = pair}) IN
       /\ pc' = IF still = {} THEN "recover" ELSE "idle"
       /\ blocked' = still \ {p \in still : \E q \in procs : q.id = p /\ Owned(q)}
  /\ UNCHANGED <<app, made, tunRecord, mine, tun, preferred, pair>>

\* recover_stale_tun: only another app's sing-box, and only if it is denied
\* nothing does the record stay.
RecoverTun ==
  /\ pc = "recover" /\ pc' = "spawn"
  /\ IF tunRecord.app \in {0, app} THEN UNCHANGED <<procs, tunRecord, left>>
     ELSE \/ procs' = Without({tunRecord.id}) /\ tunRecord' = NoTunRecord /\ UNCHANGED left
          \/ Live(tunRecord.id) /\ Fault /\ UNCHANGED <<procs, tunRecord>>
  /\ UNCHANGED <<app, made, record, mine, tun, preferred, pair, owed, blocked>>

\* The new Xray ends at once if its ports were taken since; a cancel is seen first.
Spawn ==
  /\ pc = "spawn" /\ Spawned("xray", IF Listeners({pair}) = {} THEN pair ELSE 0)
  /\ mine' = made + 1 /\ pc' = "record"
  /\ UNCHANGED <<app, record, tunRecord, tun, preferred, pair, owed, blocked, left>>

\* _write_owner_record
Record ==
  /\ pc = "record" /\ pc' = "check"
  /\ \/ record' = [id |-> mine, pair |-> pair] /\ UNCHANGED left
     \/ Fault /\ UNCHANGED record
  /\ UNCHANGED <<app, procs, made, tunRecord, mine, tun, preferred, pair, owed, blocked>>

\* It still runs after a second; a cached ECH key may have to be replaced.
Check ==
  /\ pc = "check" /\ (\E p \in Listeners({pair}) : p.id = mine) /\ pc' \in {"active", "key"}
  /\ UNCHANGED <<app, procs, made, record, tunRecord, mine, tun, preferred, pair, owed, blocked, left>>

\* _ech_cached_key_check: Xray is started again with the fresh key, also when
\* the old one did not end in time.
KeyRefreshed ==
  /\ pc = "key"
  /\ \/ /\ made < MaxProc /\ made' = made + 1 /\ UNCHANGED left
        /\ procs' = Without({mine}) \union {[id |-> made + 1, kind |-> "xray", pair |-> pair]}
     \/ Live(mine) /\ Fault /\ Spawned("xray", 0)
  /\ mine' = made + 1 /\ pc' = "record"
  /\ UNCHANGED <<app, record, tunRecord, tun, preferred, pair, owed, blocked>>
-----------------------------------------------------------------------------
(***************************************************************************)
(* enable_tun: sing-box is born suspended in its job and recorded before   *)
(* it runs; what fails ends it again                                       *)
(***************************************************************************)
SpawnTun ==
  /\ pc = "active" /\ tun = 0 /\ Spawned("singbox", 0) /\ tun' = made + 1 /\ pc' = "tun"
  /\ UNCHANGED <<app, record, tunRecord, mine, preferred, pair, owed, blocked, left>>

RecordTun ==
  /\ pc = "tun" /\ pc' = "tuncheck" /\ tunRecord' = [id |-> tun, app |-> app]
  /\ UNCHANGED <<app, procs, made, record, mine, tun, preferred, pair, owed, blocked, left>>

TunRuns ==
  /\ pc = "tuncheck" /\ pc' = "active"
  /\ UNCHANGED <<app, procs, made, record, tunRecord, mine, tun, preferred, pair, owed, blocked, left>>

StopTun ==
  /\ pc \in {"tun", "tuncheck", "active"} /\ tun # 0 /\ pc' = "active"
  /\ procs' = Without({tun}) /\ TunUnrecord({tun}) /\ tun' = 0
  /\ UNCHANGED <<app, made, record, mine, preferred, pair, owed, blocked, left>>

Next ==
  \/ AppStarts \/ AppDies \/ JobKills \/ XrayDies \/ OtherTakes
  \/ Start \/ Stop \/ StartFails \/ Release \/ Choose \/ Reclaim \/ RecoverTun
  \/ Spawn \/ Record \/ Check \/ KeyRefreshed
  \/ SpawnTun \/ RecordTun \/ TunRuns \/ StopTun

Spec == Init /\ [][Next]_vars
-----------------------------------------------------------------------------
(***************************************************************************)
(* What a killed app leaves is found again: once an engine runs, no Xray   *)
(* that its app had on record when it died is left on any pair of ports,   *)
(* unless its end was denied, and none was ever the reason to refuse a     *)
(* start (_release_owned_listeners, reclaim_stale_listeners).              *)
(***************************************************************************)
LeftoversGone ==
  /\ pc \in {"check", "active"} => \A p \in procs : p.kind = "xray" => p.id \notin owed
  /\ blocked \intersect owed = {}

(***************************************************************************)
(* Why: an Xray that is owed is the one on record, under its pair, until   *)
(* the release of the next start ends it; the engine holds none before.    *)
(***************************************************************************)
OwedOnRecord ==
  \A p \in procs : p.id \in owed =>
    /\ pc \in {"dead", "idle", "release"}
    /\ p.kind = "xray" /\ p.id = record.id /\ p.pair = record.pair /\ p.pair # 0
HeldAsRecorded ==
  \A p \in procs :
    /\ p.id \in 1..made /\ (p.id = mine => p.kind = "xray")
    /\ p.id = record.id /\ p.pair # 0 => p.pair = record.pair
    /\ pc = "record" /\ p.id = mine => p.pair \in {0, pair}
LeftInv ==
  /\ made \in Nat /\ mine \in 0..made /\ record.id \in 0..made /\ owed \subseteq 1..made
  /\ \A p, q \in procs : p.id = q.id => p = q
  /\ OwedOnRecord /\ HeldAsRecorded /\ blocked \intersect owed = {}
  /\ pc \in {"idle", "release", "choose", "reclaim", "recover", "spawn"} => mine = 0
  /\ pc \notin {"dead", "idle"} => blocked = {}
=============================================================================
