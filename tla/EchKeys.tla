------------------------------ MODULE EchKeys ------------------------------
(***************************************************************************)
(* The ECH keys of the servers (uac_desktop/ech_keys.py): they are raced   *)
(* from many resolvers, cached in one file for all connections, and used   *)
(* by a connect of the first engine, by the SNI Maker and by UAC PoW,      *)
(* which takes what the cache has and refreshes it in the background.  A   *)
(* server changes its key now and then.  Abstractions: a key is a number,  *)
(* newer ones are larger; of a race only the winner counts, its losers are *)
(* dropped; a key in the link of a config needs none of this.  The threads *)
(* are those of one process, as _LOCK is: main.py lets one run at a time   *)
(* in a logon session.                                                     *)
(***************************************************************************)
EXTENDS Naturals

CONSTANTS
  Domains,        \* domains whose keys are asked for
  BuiltIn,        \* ECH_FALLBACK_DOMAINS: a key of theirs is built in
  Threads,        \* callers and refreshers there may be at once
  MaxKey          \* keys a server ever has

VARIABLES
  server,         \* the key a server has now
  disk,           \* ech_keys.json: the key of a domain, 0: none
  lock,           \* _LOCK: the thread that holds it, or Nobody
  thread,         \* step, purpose, domain and key of each thread; the server's key when it asked
  seen,           \* the file as a thread's put has loaded it
  xray,           \* Xray of the engine: domain, key, ech_state; the server's key at the race
  pow             \* the key handed to the PoW core

vars == <<server, disk, lock, thread, seen, xray, pow>>

Nobody == 0
Keys == 0..MaxKey
Some == CHOOSE d \in Domains : TRUE
Idle == [pc |-> "idle", use |-> "start", domain |-> Some, key |-> 0, since |-> 0]
Off == [domain |-> Some, key |-> 0, state |-> "", since |-> 0]
Empty == [d \in Domains |-> 0]

TypeOK ==
  /\ server \in [Domains -> 1..MaxKey] /\ disk \in [Domains -> Keys]
  /\ lock \in Threads \union {Nobody}
  /\ thread \in [Threads -> [pc : {"idle", "race", "put", "save", "found", "late", "probe"},
                             use : {"start", "check", "maker", "refresh"}, domain : Domains,
                             key : Keys, since : Keys]]
  /\ seen \in [Threads -> [Domains -> Keys]]
  /\ xray \in [domain : Domains, key : Keys, since : Keys,
               state : {"", "fresh", "cached", "fallback", "none"}]
  /\ pow \in Keys

Init ==
  /\ server = [d \in Domains |-> 1] /\ disk = Empty /\ lock = Nobody
  /\ thread = [t \in Threads |-> Idle] /\ seen = [t \in Threads |-> Empty]
  /\ xray = Off /\ pow = 0

At(t, pc) == thread[t].pc = pc
To(t, pc) == thread' = [thread EXCEPT ![t].pc = pc]
Ends(t) == thread' = [thread EXCEPT ![t] = Idle]
Race(use, d) == [pc |-> "race", use |-> use, domain |-> d, key |-> 0, since |-> server[d]]
Cache == UNCHANGED <<disk, lock, seen>>

\* EchKeyCache._load: the file, or nothing of it when it cannot be read (another
\* program has it open, os.replace is under way) or is no JSON.
Loads == {disk, Empty}

Rotates ==
  /\ \E d \in Domains : server[d] < MaxKey /\ server' = [server EXCEPT ![d] = @ + 1]
  /\ Cache /\ UNCHANGED <<thread, xray, pow>>
-----------------------------------------------------------------------------
(***************************************************************************)
(* resolve: a race of resolvers, then DoH, then the cache, then a built-in *)
(* key                                                                     *)
(***************************************************************************)
\* Engine.start
Start(t) ==
  /\ At(t, "idle") /\ \A u \in Threads : At(u, "idle") \/ thread[u].use \notin {"start", "check"}
  /\ \E d \in Domains : thread' = [thread EXCEPT ![t] = Race("start", d)]
  /\ xray' = Off /\ Cache /\ UNCHANGED <<server, pow>>

\* SniBatchTester.run
MakerAsks(t) ==
  /\ At(t, "idle") /\ \E d \in Domains : thread' = [thread EXCEPT ![t] = Race("maker", d)]
  /\ Cache /\ UNCHANGED <<server, xray, pow>>

\* prefetch_pow_key without blocking: what the cache has, and a refresh.
PowAsks(t) ==
  /\ At(t, "idle")
  /\ \E d \in Domains, cache \in Loads :
       pow' = cache[d] /\ thread' = [thread EXCEPT ![t] = Race("refresh", d)]
  /\ Cache /\ UNCHANGED <<server, xray>>

\* race: the first answer that is a key.
Answered(t) ==
  /\ At(t, "race")
  /\ thread' = [thread EXCEPT ![t].pc = "put", ![t].key = server[thread[t].domain]]
  /\ Cache /\ UNCHANGED <<server, xray, pow>>

NotAnswered(t) ==
  /\ At(t, "race") /\ (IF thread[t].use = "refresh" THEN Ends(t) ELSE To(t, "late"))
  /\ Cache /\ UNCHANGED <<server, xray, pow>>

\* Faulty: put does not wait for another writer.
Locked_Not == TRUE

Locked == lock = Nobody

\* EchKeyCache.put loads the file, changes its domain and replaces the whole file,
\* also when nothing was loaded; a write that fails is passed over.
PutLoads(t) ==
  /\ At(t, "put") /\ Locked /\ lock' = t /\ To(t, "save")
  /\ \E cache \in Loads : seen' = [seen EXCEPT ![t] = cache]
  /\ UNCHANGED <<server, disk, xray, pow>>

PutSaves(t) ==
  /\ At(t, "save") /\ lock' = Nobody /\ seen' = [seen EXCEPT ![t] = Empty]
  /\ (IF thread[t].use = "refresh" THEN Ends(t) ELSE To(t, "found"))
  /\ disk' \in {disk, [seen[t] EXCEPT ![thread[t].domain] = thread[t].key]}
  /\ UNCHANGED <<server, xray, pow>>
-----------------------------------------------------------------------------
(***************************************************************************)
(* What the engine does with the key                                       *)
(***************************************************************************)
Runs(t, key, state) == xray' = [domain |-> thread[t].domain, key |-> key, state |-> state,
                                since |-> thread[t].since]

\* start goes on: a key that was not fetched now is checked once Xray runs.
Fetched(t) ==
  /\ At(t, "found") /\ Ends(t)
  /\ (IF thread[t].use = "maker" \/ (thread[t].use = "check" /\ thread[t].key = xray.key)
      THEN UNCHANGED xray ELSE Runs(t, thread[t].key, "fresh"))
  /\ Cache /\ UNCHANGED <<server, pow>>

NotFetched(t) ==
  /\ At(t, "late")
  /\ \E cache \in Loads : LET d == thread[t].domain IN
       IF thread[t].use = "start" /\ (cache[d] # 0 \/ d \in BuiltIn)
       THEN /\ To(t, "probe")
            /\ IF cache[d] # 0 THEN Runs(t, cache[d], "cached") ELSE Runs(t, 1, "fallback")
       ELSE /\ Ends(t) /\ IF thread[t].use = "start" THEN Runs(t, 0, "none") ELSE UNCHANGED xray
  /\ Cache /\ UNCHANGED <<server, pow>>

\* _ech_cached_key_check: the probe fails with a key the server does not take,
\* and also without a reason; then the key is asked for once more.
Checked(t) ==
  /\ At(t, "probe")
  /\ \/ xray.key = server[xray.domain] /\ Ends(t)
     \/ thread' = [thread EXCEPT ![t] = Race("check", xray.domain)]
  /\ Cache /\ UNCHANGED <<server, xray, pow>>

Next ==
  \/ Rotates
  \/ \E t \in Threads :
       \/ Start(t) \/ MakerAsks(t) \/ PowAsks(t) \/ Answered(t) \/ NotAnswered(t)
       \/ PutLoads(t) \/ PutSaves(t) \/ Fetched(t) \/ NotFetched(t) \/ Checked(t)

Spec == Init /\ [][Next]_vars
-----------------------------------------------------------------------------
(***************************************************************************)
(* Connect, SNI Maker and the refreshes of PoW write one file: whichever   *)
(* of them writes when, the key of a domain is lost to the write of        *)
(* another domain's only where that write had found nothing in the file    *)
(* (_load passes over a file it cannot read, and put then replaces it).    *)
(* And what is shown as a fresh key was the server's when the connect      *)
(* asked for it or later.                                                  *)
(***************************************************************************)
FoundNothing(t) == At(t, "save") /\ lock = t /\ seen[t] = Empty
Kept ==
  (\E d \in Domains : disk[d] # 0 /\ disk'[d] = 0) => \E t \in Threads : FoundNothing(t)
KeysKept == [][Kept]_vars
FreshIsFresh == xray.state = "fresh" => xray.key >= xray.since
-----------------------------------------------------------------------------
\* An answer is a key: none is put that reads as a missing one.
AnswersAreKeys == \A t \in Threads : thread[t].pc \in {"put", "save"} => thread[t].key # 0

\* Between the load and the write of a put the file is as it was loaded, if it
\* could be.
LoadedIsCurrent == \A t \in Threads : At(t, "save") => lock = t /\ seen[t] \in Loads

EchInv == TypeOK /\ AnswersAreKeys /\ LoadedIsCurrent

\* A key that a race brought is not older than the question for it.
Fresh(r) ==
  /\ r.pc = "race" => r.since <= server[r.domain]
  /\ r.pc \in {"put", "save", "found"} => r.key >= r.since
FreshInv == (\A t \in Threads : Fresh(thread[t])) /\ FreshIsFresh
=============================================================================
