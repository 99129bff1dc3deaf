----------------------------- MODULE ConnectFlow -----------------------------
(***************************************************************************)
(* A UAC connect of uac_desktop/ui.py: the button, the connect thread that *)
(* tries profile after profile, each with its genes and SNIs, each attempt *)
(* with its fallbacks, and what the thread records for the next connect.   *)
(* The engine itself is in EngineGateway.tla.  Abstractions: an attempt is *)
(* its profile, gene, method and Mux; which edge, SNI and timing it uses   *)
(* and how the profiles are ranked are left out, except that a ranking     *)
(* keeps only the profiles that may be tried; a gene is named by its       *)
(* method, and an attempt the engine cannot start is one that fails.       *)
(***************************************************************************)
EXTENDS Naturals, Sequences, FiniteSets

CONSTANTS
  Profiles, Builtin, Direct,      \* all, those shipped, those without spoofing
  Genes, Primitive,               \* the gene pool, the genes made of operations
  Options,                        \* settings a connect may find
  PerProfile, GeneAttempts,       \* MAX_GENES_PER_PROFILE, MAX_GENE_ATTEMPTS_TOTAL
  Fails,                          \* FAILS_BEFORE_COOLDOWN
  Connects                        \* connects a behaviour may have

VARIABLES
  page,           \* what the window shows: "off", "connecting" or "on"
  again,          \* _connection_retry_pending
  thread,         \* where the connect thread is; "idle" when it is not alive
  cancel,         \* _attempt_cancelled of that thread
  opt,            \* the settings this connect works with
  queue,          \* profiles and, of the first, attempts and fallbacks left
  now,            \* the attempt as the thread knows it
  engine,         \* what the engine runs, Off if nothing
  pinned,         \* locked_strategy
  pool,           \* gene_pool_list and gene_attempts_used
  memory,         \* in the settings: gene failures in a row and cooldown, the
                  \* method and the profiles without Mux that worked, those that failed
  blamed,         \* history: what was recorded as failed after a cancel
  runs

vars == <<page, again, thread, cancel, opt, queue, now, engine, pinned, pool, memory,
          blamed, runs>>
button == <<page, again, cancel, runs>>
plan == <<opt, pool>>

Methods == {"wrong_seq", "full5", "tls"}
Off == [profile |-> "", gene |-> "", method |-> "", mux |-> FALSE]
Attempts == [profile : Profiles \union {""}, gene : Genes \union {""},
             method : Methods \union Genes \union {""}, mux : BOOLEAN]

TypeOK ==
  /\ page \in {"off", "connecting", "on"} /\ again \in BOOLEAN /\ cancel \in BOOLEAN
  /\ thread \in {"idle", "profile", "attempt", "start", "probe", "judge", "failed",
                 "apply", "record", "emit", "ending"}
  /\ opt \in Options /\ now \in Attempts /\ engine \in Attempts
  /\ queue.profiles \in Seq(Profiles) /\ queue.genes \in Seq(Genes \union {""})
  /\ queue.others \in Seq([method : Methods \union Genes, mux : BOOLEAN])
  /\ pinned \in Methods \union {""}
  /\ pool \in [genes : SUBSET Genes, used : 0..GeneAttempts]
  /\ memory.fails \in [Genes -> 0..Fails] /\ memory.cooled \subseteq Genes
  /\ memory.route \in [Profiles -> Methods \union Genes \union {""}]
  /\ memory.single \subseteq Profiles /\ memory.failed \subseteq Profiles
  /\ blamed \subseteq Genes \union Profiles
  /\ runs \in 0..Connects

NoQueue == [profiles |-> <<>>, genes |-> <<>>, others |-> <<>>]

Init ==
  /\ page = "off" /\ again = FALSE /\ thread = "idle" /\ cancel = TRUE /\ opt \in Options
  /\ queue = NoQueue /\ now = Off /\ engine = Off /\ pinned = ""
  /\ pool = [genes |-> {}, used |-> 0]
  /\ memory = [fails |-> [g \in Genes |-> 0], cooled |-> {},
               route |-> [p \in Profiles |-> ""], single |-> {}, failed |-> {}]
  /\ blamed = {} /\ runs = 0
-----------------------------------------------------------------------------
Orders(S) == {s \in [1..Cardinality(S) -> S] : \A i, j \in DOMAIN s : i # j => s[i] # s[j]}

\* _ordered_profiles: the forced or selected one, or all of the source, ranked.
Ordered(o) == IF o.auto THEN Orders(Profiles) ELSE {<<p>> : p \in Profiles}

\* plan_profile_genes and _plan_profile_attempts: "" is an attempt of its own.
Min2(a, b) == IF a < b THEN a ELSE b
GenesFor(p) ==
  IF ~opt.multi \/ pool.genes = {} \/ p \in Direct THEN {<<"">>}
  ELSE LET n == Min2(PerProfile, Min2(GeneAttempts - pool.used, Cardinality(pool.genes)))
       IN  {IF opt.locked THEN s ELSE Append(s, "") :
            s \in UNION {Orders(G) : G \in {H \in SUBSET pool.genes : Cardinality(H) = n}}}

MciBuiltin(p) == p \in Builtin /\ opt.carrier = "mci"

\* _profile_connection_strategy and _initial_connection_strategy
Default == CASE opt.carrier = "mci" -> "tls"
             [] opt.carrier = "irancell" -> "full5"
             [] OTHER -> "wrong_seq"
Usual(p) ==
  IF p \in Builtin /\ ~MciBuiltin(p) /\ memory.route[p] # "" THEN memory.route[p] ELSE Default

\* _profile_mux_enabled
Mux(p) == opt.mux /\ p \notin memory.single

\* _adaptive_strategies, what is left of them after the method that failed.
Adaptive(m) ==
  CASE m = "wrong_seq" -> <<"full5", "tls">>
    [] m = "full5" -> <<"wrong_seq", "tls">>
    [] m = "tls" -> IF opt.carrier = "irancell" THEN <<"full5", "wrong_seq">>
                    ELSE <<"wrong_seq", "full5">>
    [] OTHER -> <<"wrong_seq", "full5">>

\* What the thread tries when the first page of an attempt does not load.
Fallbacks(a) ==
  LET tls == opt.carrier = "mci" /\ ~opt.locked /\ a.method = "tls"
      m == IF tls THEN "wrong_seq" ELSE a.method
      rotates == opt.carrier # "mci" /\ a.profile \notin Direct /\ a.gene = "" /\ ~opt.locked
  IN  IF MciBuiltin(a.profile) THEN <<>>
      ELSE (IF tls THEN <<[method |-> m, mux |-> a.mux]>> ELSE <<>>)
           \o (IF a.mux THEN <<[method |-> m, mux |-> FALSE]>> ELSE <<>>)
           \o (IF rotates THEN [i \in 1..2 |-> [method |-> Adaptive(m)[i], mux |-> FALSE]]
               ELSE <<>>)
-----------------------------------------------------------------------------
(***************************************************************************)
(* toggle_connection and _resume_pending_connection, in the window's thread*)
(***************************************************************************)
Begins ==
  /\ runs < Connects /\ runs' = runs + 1 /\ page' = "connecting" /\ cancel' = FALSE
  /\ opt' \in Options /\ thread' = "profile"
  /\ \E s \in Ordered(opt') : queue' = [NoQueue EXCEPT !.profiles = s]
  /\ pool' = [genes |-> IF opt'.multi /\ opt'.carrier # "mci" THEN Genes \ memory.cooled
                        ELSE {}, used |-> 0]
  /\ pinned' = ""
  /\ UNCHANGED <<now, engine, memory, blamed>>

ClickConnect == page = "off" /\ thread = "idle" /\ ~again /\ engine = Off /\ Begins /\ UNCHANGED again

\* _cancel_connect_attempt: a new generation, the event, then the engine.
CancelAttempt == cancel' = TRUE /\ engine' = Off

ClickDisconnect ==
  /\ page # "off" /\ page' = "off" /\ CancelAttempt
  /\ UNCHANGED <<again, thread, plan, queue, now, pinned, memory, blamed, runs>>

\* The thread of an older attempt is still alive.
ClickTooEarly ==
  /\ page # "connecting" /\ thread # "idle" /\ ~again /\ runs < Connects
  /\ again' = TRUE /\ CancelAttempt
  /\ UNCHANGED <<page, thread, plan, queue, now, pinned, memory, blamed, runs>>

\* It is a click of its own, so it would stop an engine that runs; none does.
Resume == again /\ thread = "idle" /\ engine = Off /\ Begins /\ again' = FALSE
-----------------------------------------------------------------------------
(***************************************************************************)
(* work, the connect thread                                                *)
(***************************************************************************)
Cancelled ==
  /\ cancel /\ thread \in {"profile", "attempt", "start", "probe", "judge", "failed", "apply"}
  /\ thread' = "idle"
  /\ UNCHANGED <<button, plan, queue, now, engine, pinned, memory, blamed>>

NextProfile ==
  /\ thread = "profile" /\ ~cancel /\ queue.profiles # <<>>
  /\ \E s \in GenesFor(Head(queue.profiles)) :
       /\ queue' = [queue EXCEPT !.genes = s, !.others = <<>>]
       /\ pool' = [pool EXCEPT !.used = @ + Len(SelectSeq(s, LAMBDA g : g # ""))]
  /\ thread' = "attempt"
  /\ UNCHANGED <<button, opt, now, engine, pinned, memory, blamed>>

NoProfile ==
  /\ thread = "profile" /\ ~cancel /\ queue.profiles = <<>>
  /\ thread' = "idle" /\ page' = "off" /\ engine' = Off
  /\ UNCHANGED <<again, cancel, plan, queue, now, pinned, memory, blamed, runs>>

\* The method: of the gene, else of the profile or, with the lock, the pinned one.
NextAttempt ==
  /\ thread = "attempt" /\ ~cancel /\ queue.genes # <<>>
  /\ LET g == Head(queue.genes)
         p == Head(queue.profiles)
         m == IF g # "" THEN g ELSE IF opt.locked /\ pinned # "" THEN pinned ELSE Usual(p)
     IN  /\ now' = [profile |-> p, gene |-> g, method |-> m, mux |-> Mux(p)]
         /\ pinned' = IF opt.locked /\ g = "" THEN m ELSE pinned
         /\ queue' = [queue EXCEPT !.genes = Tail(@), !.others = Fallbacks(now')]
  /\ thread' = "start"
  /\ UNCHANGED <<button, plan, engine, memory, blamed>>

EngineStarts ==
  /\ thread = "start" /\ ~cancel /\ engine' = now /\ thread' = "probe"
  /\ UNCHANGED <<button, plan, queue, now, pinned, memory, blamed>>

EngineRaises ==
  /\ thread \in {"start", "probe", "apply", "record"} /\ engine' = Off /\ thread' = "failed"
  /\ UNCHANGED <<button, plan, queue, now, pinned, memory, blamed>>

\* The engine is stopped and started with the next fallback.  What works is
\* what the thread takes for its attempt.
ProbeFails ==
  /\ thread = "probe" /\ ~cancel
  /\ IF queue.others = <<>> THEN thread' = "failed" /\ UNCHANGED <<queue, engine>>
     ELSE /\ engine' = [engine EXCEPT !.method = Head(queue.others).method,
                                      !.mux = Head(queue.others).mux]
          /\ queue' = [queue EXCEPT !.others = Tail(@)] /\ UNCHANGED thread
  /\ UNCHANGED <<button, plan, now, pinned, memory, blamed>>

\* Faulty: the attempt keeps the method it began with.
Takes_First == now' = now
Takes == now' = engine

ProbeSucceeds ==
  /\ thread = "probe" /\ ~cancel /\ engine # Off /\ Takes /\ thread' = "judge"
  /\ UNCHANGED <<button, plan, queue, engine, pinned, memory, blamed>>

\* The payload of a shipped profile and the country of the exit.
Judged ==
  /\ thread = "judge" /\ ~cancel /\ thread' \in {"apply", "failed"}
  /\ UNCHANGED <<button, plan, queue, now, engine, pinned, memory, blamed>>

\* Faulty: the failure is recorded before anybody looks for a cancel.
Uncancelled_Not == TRUE
Uncancelled == ~cancel

\* record_gene_result(False); the thread stops the engine and goes on.
AttemptFailed ==
  /\ thread = "failed" /\ Uncancelled
  /\ LET g == now.gene
         streak == memory.fails[g] + 1
     IN  IF g = "" THEN UNCHANGED <<memory, pool, blamed>>
         ELSE /\ memory' = [memory EXCEPT
                   !.fails[g] = IF streak >= Fails THEN 0 ELSE streak,
                   !.cooled = IF streak >= Fails THEN @ \union {g} ELSE @]
              /\ pool' = [pool EXCEPT !.genes = IF streak >= Fails THEN @ \ {g} ELSE @]
              /\ blamed' = IF cancel THEN blamed \union {g} ELSE blamed
  /\ engine' = Off /\ thread' = "attempt"
  /\ UNCHANGED <<button, opt, queue, now, pinned>>

\* _save_profile_benchmark(False)
ProfileFailed ==
  /\ thread = "attempt" /\ queue.genes = <<>>
  /\ memory' = [memory EXCEPT !.failed = @ \union {Head(queue.profiles)}]
  /\ queue' = [queue EXCEPT !.profiles = Tail(@)] /\ thread' = "profile"
  /\ UNCHANGED <<button, plan, now, engine, pinned, blamed>>

\* _remember_builtin_route: the operations of a primitive gene are not kept.
Kept(m) == IF m \in Primitive THEN "wrong_seq" ELSE m

\* The Windows proxy or TUN is on; then what worked is saved.
Applied ==
  /\ thread = "apply" /\ ~cancel /\ engine # Off
  /\ memory' = [memory EXCEPT
       !.route[now.profile] = Kept(now.method),
       !.single = IF now.mux THEN @ \ {now.profile}
                  ELSE IF opt.mux \/ now.profile \in Builtin THEN @ \union {now.profile}
                  ELSE @,
       !.failed = @ \ {now.profile}]
  /\ thread' = "record"
  /\ UNCHANGED <<button, plan, queue, now, engine, pinned, blamed>>

RecordCancelled ==
  /\ thread = "record" /\ cancel /\ thread' = "idle"
  /\ UNCHANGED <<button, plan, queue, now, engine, pinned, memory, blamed>>

Connected ==
  /\ thread = "record" /\ ~cancel /\ engine # Off /\ thread' = "emit"
  /\ memory' = IF now.gene = "" THEN memory
               ELSE [memory EXCEPT !.fails[now.gene] = 0, !.cooled = @ \ {now.gene}]
  /\ UNCHANGED <<button, plan, queue, now, engine, pinned, blamed>>

\* The page answers to the signal of the thread, which is about to end.
ThreadEnds ==
  /\ thread = "ending" /\ thread' = "idle"
  /\ UNCHANGED <<button, plan, queue, now, engine, pinned, memory, blamed>>

ShowsOn ==
  /\ thread = "emit" /\ thread' = "ending"
  /\ page' = IF engine # Off THEN "on" ELSE "off"
  /\ UNCHANGED <<again, cancel, plan, queue, now, engine, pinned, memory, blamed, runs>>

Next ==
  \/ ClickConnect \/ ClickDisconnect \/ ClickTooEarly \/ Resume
  \/ Cancelled \/ NextProfile \/ NoProfile \/ NextAttempt \/ EngineStarts \/ EngineRaises
  \/ ProbeFails \/ ProbeSucceeds \/ Judged \/ AttemptFailed \/ ProfileFailed
  \/ Applied \/ RecordCancelled \/ Connected \/ ShowsOn \/ ThreadEnds

Spec == Init /\ [][Next]_vars
-----------------------------------------------------------------------------
(***************************************************************************)
(* What is remembered of a connection is what carries it: the method and   *)
(* Mux of the engine, after any fallback.  A method made of operations is  *)
(* remembered as wrong_seq, since the operations are not kept.             *)
(***************************************************************************)
Remembered ==
  /\ memory.route[engine.profile] = Kept(engine.method)
  /\ opt.mux \/ engine.profile \in Builtin =>
       (engine.profile \in memory.single <=> ~engine.mux)
RememberedAsRun == page = "on" /\ engine # Off => Remembered

(***************************************************************************)
(* An attempt that ended because the user cancelled it counts against no   *)
(* gene: three failures in a row take it out of the pool for three hours.  *)
(***************************************************************************)
NobodyBlamed == blamed = {}

(***************************************************************************)
(* What they rest on: from the first page that loads to the signal, what   *)
(* the engine runs is what the thread takes for its attempt, or nothing.   *)
(***************************************************************************)
Names == Methods \union Genes \union {""}
Typed ==
  /\ now \in [profile : Profiles \union {""}, gene : Genes \union {""}, method : Names, mux : BOOLEAN]
  /\ engine = Off \/ engine \in [profile : Profiles, gene : Genes \union {""}, method : Names,
                                 mux : BOOLEAN]
  /\ queue \in [profiles : Seq(Profiles), genes : Seq(Genes \union {""}),
                others : Seq([method : Names, mux : BOOLEAN])]
  /\ pinned \in Names /\ pool.genes \subseteq Genes /\ DOMAIN pool = {"genes", "used"}
  /\ DOMAIN memory = {"fails", "cooled", "route", "single", "failed"}
  /\ memory.route \in [Profiles -> Names]

RouteInv ==
  /\ Typed /\ NobodyBlamed
  /\ thread \in {"attempt", "start", "probe", "judge", "failed", "apply", "record"} =>
       queue.profiles # <<>>
  /\ thread = "start" => now.profile \in Profiles
  /\ thread = "probe" /\ ~cancel => engine # Off
  /\ thread \in {"judge", "apply", "record", "emit"} => engine \in {Off, now}
  /\ page = "on" => thread \in {"ending", "idle"}
  /\ (page = "on" \/ thread \in {"record", "emit"}) /\ engine # Off => Remembered
=============================================================================
