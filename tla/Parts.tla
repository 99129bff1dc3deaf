-------------------------------- MODULE Parts --------------------------------
(***************************************************************************)
(* The modules that model one part of the program each.  They share no     *)
(* state, so one behaviour is of one part: "part" says which, and s1 ...   *)
(* s20 hold its variables (the rest are 0).  The constants are those of    *)
(* the parts, with the part in front of the name; a property speaks of the *)
(* parts it names, and their modules say what its conjuncts mean.  MCParts *)
(* gives the constants small values, PartsProofs proves what holds for any *)
(***************************************************************************)
EXTENDS Integers, Sequences, FiniteSets

CONSTANTS
  LadderOptions, LadderStrategies, LadderConnects,
  ParallelMaxEpoch, ParallelMaxObject, ParallelGrowers, ParallelPorts,
  MemoryNetworks, MemoryPeers, MemoryMaxNetworks, MemoryConnects,
  WireSessions, WireMaxSessions, WireLastEdge, WireModes, WireModulus,
    WireFirstSeq, WireRepeat, WireAttempts, WireStarts,
  EdgesSessions, EdgesMaxSessions, EdgesLastEdge, EdgesModes, EdgesModulus,
    EdgesFirstSeq, EdgesRepeat, EdgesAttempts, EdgesStarts,
  ExitsWorkers, ExitsMaxRun, ExitsMoves, ExitsFaults,
  LeftMaxApp, LeftMaxProc, LeftFaults,
  EchDomains, EchBuiltIn, EchThreads, EchMaxKey,
  GeneHello, GeneName, GeneRaw, GeneMaxOps, GeneImports,
  ForwardServers, ForwardPorts, ForwardMaxOpen, ForwardWorkers, ForwardMaxThread, ForwardFaults,
  ResetDirs, ResetFiles, ResetProcs, ResetFaults,
  FlowProfiles, FlowBuiltin, FlowDirect, FlowGenes, FlowPrimitive, FlowOptions,
    FlowPerProfile, FlowGeneAttempts, FlowFails, FlowConnects,
  MakerProfiles, MakerEch, MakerRounds, MakerLaunches, MakerImports,
  StoreGenes, StoreChanges, StoreValues, StoreRestarts,
  FactsMaxRun, FactsMaxAsk, FactsExits,
  GuideEdges, GuideFlows, GuideImports, GuideTests,
  SwitchClicks,
  ScanDomains, ScanCarriers, ScanEdges, ScanProfiles, ScanSteps, ScanFaults,
  ChoiceOrigin, ChoiceFirstCode, ChoiceInitial, ChoiceCodes, ChoiceChanges,
    ChoiceConnects

\* A profile is numbered from 1, as 0 stands for none; the window opens with some of them.
ASSUME ChoiceAssumption ==
  0 \notin DOMAIN ChoiceOrigin /\ ChoiceInitial \subseteq DOMAIN ChoiceOrigin

\* A tuning that differs from the preset of its carrier has a value of 1 or more.
ASSUME StoreAssumption == StoreValues \in Nat

\* The connections of a behaviour are counted.
ASSUME FactsAssumption == FactsMaxRun \in Nat

\* There is a domain with a key to ask for, and no caller is the value that says nobody
\* holds _LOCK.
ASSUME EchAssumption == EchDomains # {} /\ EchMaxKey \in Nat \ {0} /\ 0 \notin EchThreads

\* The private servers a LAN client asks are others than the resolver that answers, and no
\* health check is the gateway's own start and stop.
ASSUME ForwardAssumption == "resolver" \notin ForwardServers /\ "gate" \notin ForwardWorkers

\* A fake is sent at least once (max(1, ...), core.py:152), and initial sequence numbers are
\* below the modulus.
ASSUME WireAssumption ==
  /\ WireRepeat \in Nat \ {0} /\ WireModulus \in Nat \ {0}
  /\ WireFirstSeq \subseteq 0..WireModulus - 1

\* There is the AetherProcess of the constructor, and what is bounded is counted.
ASSUME ParallelAssumption ==
  ParallelMaxObject \in Nat \ {0} /\ ParallelMaxEpoch \in Nat /\ ParallelPorts \in Nat

\* What is bounded is counted, and no thread of a move is the value that says nobody, or
\* the connect thread, holds _proxy_mode_apply_lock.
ASSUME ExitsAssumption ==
  /\ ExitsMaxRun \in Nat /\ ExitsMoves \in Nat /\ ExitsFaults \in Nat
  /\ 0 \notin ExitsWorkers /\ 100 \notin ExitsWorkers

\* There are only so many profiles and genes, and no profile is the empty name.
ASSUME FlowAssumption ==
  IsFiniteSet(FlowProfiles) /\ IsFiniteSet(FlowGenes) /\ "" \notin FlowProfiles

\* Scores are numbers.
ASSUME GeneAssumption == \A s \in GeneRaw : s.score \in Int

VARIABLES part, s1, s2, s3, s4, s5, s6, s7, s8, s9, s10, s11, s12, s13, s14,
          s15, s16, s17, s18, s19, s20

vars == <<part, s1, s2, s3, s4, s5, s6, s7, s8, s9, s10, s11, s12, s13, s14,
          s15, s16, s17, s18, s19, s20>>

(***************************************************************************)
(* The instances: each part runs on the slots s1 to s20, by itself.        *)
(***************************************************************************)
Ladder == INSTANCE PowLadder WITH
  Options <- LadderOptions, Strategies <- LadderStrategies, Connects <- LadderConnects,
  opt <- s1, order <- s2, lanes <- s3, vias <- s4, aether <- s5, psiphon <- s6, tries <- s7, says <- s8,
  kept <- s9, stop <- s10, pc <- s11, runs <- s12

Parallel == INSTANCE ParallelMasque WITH
  MaxEpoch <- ParallelMaxEpoch, MaxObject <- ParallelMaxObject,
  Growers <- ParallelGrowers, Ports <- ParallelPorts, epoch <- s1, stop <- s2, session <- s3,
  router <- s4, aether <- s5, extras <- s6, alive <- s7, made <- s8, grow <- s9, back <- s10

Memory == INSTANCE PowMemory WITH
  Networks <- MemoryNetworks, Peers <- MemoryPeers, MaxNetworks <- MemoryMaxNetworks,
  Connects <- MemoryConnects, net <- s1, memory <- s2, seen <- s3, last <- s4, file <- s5, key <- s6,
  ready <- s7, asked <- s8, session <- s9, leg <- s10, network <- s11, start <- s12, accepted <- s13,
  rank <- s14, won <- s15, connects <- s16

Wire == INSTANCE PatternCore WITH
  Sessions <- WireSessions, MaxSessions <- WireMaxSessions, LastEdge <- WireLastEdge,
  Modes <- WireModes, Modulus <- WireModulus, FirstSeq <- WireFirstSeq,
  Repeat <- WireRepeat, Attempts <- WireAttempts, Starts <- WireStarts, on <- s1, mode <- s2,
  preferred <- s3, failed <- s4, holder <- s5, pc <- s6, todo <- s7, tries <- s8, flow <- s9,
  starts <- s10

EdgeChoice == INSTANCE PatternCore WITH
  Sessions <- EdgesSessions, MaxSessions <- EdgesMaxSessions, LastEdge <- EdgesLastEdge,
  Modes <- EdgesModes, Modulus <- EdgesModulus, FirstSeq <- EdgesFirstSeq,
  Repeat <- EdgesRepeat, Attempts <- EdgesAttempts, Starts <- EdgesStarts, on <- s1,
  mode <- s2, preferred <- s3, failed <- s4, holder <- s5, pc <- s6, todo <- s7, tries <- s8,
  flow <- s9, starts <- s10

ExitMoves == INSTANCE ExitModes WITH
  Workers <- ExitsWorkers, MaxRun <- ExitsMaxRun, Moves <- ExitsMoves,
  Faults <- ExitsFaults, page <- s1, want <- s2, active <- s3, run <- s4, tun <- s5, proxy <- s6,
  gen <- s7, lock <- s8, conn <- s9, work <- s10, queue <- s11, reader <- s12, left <- s13

Leftovers == INSTANCE EngineProcesses WITH
  MaxApp <- LeftMaxApp, MaxProc <- LeftMaxProc, Faults <- LeftFaults, app <- s1, pc <- s2,
  procs <- s3, made <- s4, record <- s5, tunRecord <- s6, mine <- s7, tun <- s8, preferred <- s9,
  pair <- s10, owed <- s11, blocked <- s12, left <- s13

Routes == INSTANCE TunnelRoutes WITH
  setup <- s1, from <- s2, to <- s3, at <- s4, exit <- s5, path <- s6

EchCache == INSTANCE EchKeys WITH
  Domains <- EchDomains, BuiltIn <- EchBuiltIn, Threads <- EchThreads, MaxKey <- EchMaxKey,
  server <- s1, disk <- s2, lock <- s3, thread <- s4, seen <- s5, xray <- s6, pow <- s7

Gene == INSTANCE GenePlan WITH
  Hello <- GeneHello, Name <- GeneName, Raw <- GeneRaw, MaxOps <- GeneMaxOps,
  Imports <- GeneImports, list <- s1, selected <- s2, given <- s3, method <- s4, ops <- s5, plan <- s6, imports <- s7

Forward == INSTANCE ForwardPath WITH
  Servers <- ForwardServers, Ports <- ForwardPorts, MaxOpen <- ForwardMaxOpen, Workers <- ForwardWorkers,
  MaxThread <- ForwardMaxThread, Faults <- ForwardFaults, gateway <- s1, workers <- s2,
  pc <- s3, mine <- s4, filter <- s5, told <- s6, thread <- s7, handle <- s8, error <- s9, lan <- s10,
  flows <- s11, wire <- s12, left <- s13, asks <- s14

Reset == INSTANCE DataReset WITH
  Dirs <- ResetDirs, Files <- ResetFiles, Procs <- ResetProcs, Faults <- ResetFaults,
  marker <- s1, folder <- s2, backup <- s3, pc <- s4, todo <- s5, proxy <- s6, engines <- s7,
  left <- s8, torn <- s9

Flow == INSTANCE ConnectFlow WITH
  Profiles <- FlowProfiles, Builtin <- FlowBuiltin, Direct <- FlowDirect,
  Genes <- FlowGenes, Primitive <- FlowPrimitive, Options <- FlowOptions,
  PerProfile <- FlowPerProfile, GeneAttempts <- FlowGeneAttempts, Fails <- FlowFails,
  Connects <- FlowConnects, page <- s1, again <- s2, thread <- s3, cancel <- s4, opt <- s5,
  queue <- s6, now <- s7, engine <- s8, pinned <- s9, pool <- s10, memory <- s11, blamed <- s12,
  runs <- s13

Maker == INSTANCE SniMaker WITH
  Profiles <- MakerProfiles, Ech <- MakerEch, Rounds <- MakerRounds,
  Launches <- MakerLaunches, Imports <- MakerImports, rows <- s1, verified <- s2, page <- s3,
  given <- s4, cancel <- s5, tester <- s6, queue <- s7, importing <- s8, ended <- s9, missed <- s10,
  left <- s11

Store == INSTANCE Settings WITH
  Genes <- StoreGenes, Changes <- StoreChanges, Values <- StoreValues,
  Restarts <- StoreRestarts, memory <- s1, disk <- s2, image <- s3, lock <- s4, thread <- s5,
  base <- s6, dialog <- s7, done <- s8, restarts <- s9, unsaved <- s10

Facts == INSTANCE PageFacts WITH
  MaxRun <- FactsMaxRun, MaxAsk <- FactsMaxAsk, Exits <- FactsExits, mode <- s1, page <- s2,
  link <- s3, made <- s4, timer <- s5, gen <- s6, asked <- s7, cache <- s8, answers <- s9, card <- s10,
  owned <- s11, exitInfo <- s12, ping <- s13

Guide == INSTANCE Wizard WITH
  Edges <- GuideEdges, Flows <- GuideFlows, Imports <- GuideImports, Tests <- GuideTests,
  engine <- s1, page <- s2, kind <- s3, phase <- s4, lastOk <- s5, scans <- s6, launching <- s7,
  table <- s8, maker <- s9, imports <- s10, current <- s11, queue <- s12, left <- s13

Switch == INSTANCE EngineSwitch WITH
  Clicks <- SwitchClicks, mode <- s1, phase <- s2, asking <- s3, polls <- s4, xray <- s5, flag <- s6,
  worker <- s7, pow <- s8, asked <- s9, page <- s10, later <- s11, front <- s12, polished <- s13,
  stale <- s14, pending <- s15, store <- s16, shown <- s17, dialog <- s18, advanced <- s19,
  left <- s20

Scan == INSTANCE SniScan WITH
  Domains <- ScanDomains, Carriers <- ScanCarriers, Edges <- ScanEdges,
  Profiles <- ScanProfiles, Steps <- ScanSteps, Faults <- ScanFaults,
  settings <- s1, file <- s2, undo <- s3, scan <- s4, scanning <- s5, cancelled <- s6, table <- s7, repo <- s8,
  marks <- s9, queue <- s10, tested <- s11, said <- s12, left <- s13, faults <- s14, unchecked <- s15

Choice == INSTANCE ProfileList WITH
  Origin <- ChoiceOrigin, FirstCode <- ChoiceFirstCode, Initial <- ChoiceInitial,
  Codes <- ChoiceCodes, Changes <- ChoiceChanges, Connects <- ChoiceConnects,
  profiles <- s1, code <- s2, home <- s3, forced <- s4, conn <- s5, worker <- s6, run <- s7,
  pending <- s8, waiting <- s9, retry <- s10, timer <- s11, ping <- s12, wanted <- s13, left <- s14

(***************************************************************************)
(* A behaviour is one of one part                                          *)
(***************************************************************************)
After6 == <<s7, s8, s9, s10, s11, s12, s13, s14, s15, s16, s17, s18, s19, s20>>
After7 == <<s8, s9, s10, s11, s12, s13, s14, s15, s16, s17, s18, s19, s20>>
After9 == <<s10, s11, s12, s13, s14, s15, s16, s17, s18, s19, s20>>
After10 == <<s11, s12, s13, s14, s15, s16, s17, s18, s19, s20>>
After11 == <<s12, s13, s14, s15, s16, s17, s18, s19, s20>>
After12 == <<s13, s14, s15, s16, s17, s18, s19, s20>>
After13 == <<s14, s15, s16, s17, s18, s19, s20>>
After14 == <<s15, s16, s17, s18, s19, s20>>
After15 == <<s16, s17, s18, s19, s20>>
After16 == <<s17, s18, s19, s20>>

Blank19 == s20 = 0
Blank18 == s19 = 0 /\ Blank19
Blank17 == s18 = 0 /\ Blank18
Blank16 == s17 = 0 /\ Blank17
Blank15 == s16 = 0 /\ Blank16
Blank14 == s15 = 0 /\ Blank15
Blank13 == s14 = 0 /\ Blank14
Blank12 == s13 = 0 /\ Blank13
Blank11 == s12 = 0 /\ Blank12
Blank10 == s11 = 0 /\ Blank11
Blank9 == s10 = 0 /\ Blank10
Blank8 == s9 = 0 /\ Blank9
Blank7 == s8 = 0 /\ Blank8
Blank6 == s7 = 0 /\ Blank7

Init ==
  \/ part = "ladder" /\ Ladder!Init /\ Blank12
  \/ part = "parallel" /\ Parallel!Init /\ Blank10
  \/ part = "memory" /\ Memory!Init /\ Blank16
  \/ part = "wire" /\ Wire!Init /\ Blank10
  \/ part = "edges" /\ EdgeChoice!Init /\ Blank10
  \/ part = "exits" /\ ExitMoves!Init /\ Blank13
  \/ part = "leftovers" /\ Leftovers!Init /\ Blank13
  \/ part = "routes" /\ Routes!Init /\ Blank6
  \/ part = "ech" /\ EchCache!Init /\ Blank7
  \/ part = "gene" /\ Gene!Init /\ Blank7
  \/ part = "forward" /\ Forward!Init /\ Blank14
  \/ part = "reset" /\ Reset!Init /\ Blank9
  \/ part = "flow" /\ Flow!Init /\ Blank13
  \/ part = "maker" /\ Maker!Init /\ Blank11
  \/ part = "store" /\ Store!Init /\ Blank10
  \/ part = "facts" /\ Facts!Init /\ Blank13
  \/ part = "guide" /\ Guide!Init /\ Blank13
  \/ part = "switch" /\ Switch!Init
  \/ part = "scan" /\ Scan!Init /\ Blank15
  \/ part = "choice" /\ Choice!Init /\ Blank14

Next ==
  \/ part = "ladder" /\ Ladder!Next /\ UNCHANGED <<part, After12>>
  \/ part = "parallel" /\ Parallel!Next /\ UNCHANGED <<part, After10>>
  \/ part = "memory" /\ Memory!Next /\ UNCHANGED <<part, After16>>
  \/ part = "wire" /\ Wire!Next /\ UNCHANGED <<part, After10>>
  \/ part = "edges" /\ EdgeChoice!Next /\ UNCHANGED <<part, After10>>
  \/ part = "exits" /\ ExitMoves!Next /\ UNCHANGED <<part, After13>>
  \/ part = "leftovers" /\ Leftovers!Next /\ UNCHANGED <<part, After13>>
  \/ part = "routes" /\ Routes!Next /\ UNCHANGED <<part, After6>>
  \/ part = "ech" /\ EchCache!Next /\ UNCHANGED <<part, After7>>
  \/ part = "gene" /\ Gene!Next /\ UNCHANGED <<part, After7>>
  \/ part = "forward" /\ Forward!Next /\ UNCHANGED <<part, After14>>
  \/ part = "reset" /\ Reset!Next /\ UNCHANGED <<part, After9>>
  \/ part = "flow" /\ Flow!Next /\ UNCHANGED <<part, After13>>
  \/ part = "maker" /\ Maker!Next /\ UNCHANGED <<part, After11>>
  \/ part = "store" /\ Store!Next /\ UNCHANGED <<part, After10>>
  \/ part = "facts" /\ Facts!Next /\ UNCHANGED <<part, After13>>
  \/ part = "guide" /\ Guide!Next /\ UNCHANGED <<part, After13>>
  \/ part = "switch" /\ Switch!Next /\ UNCHANGED <<part>>
  \/ part = "scan" /\ Scan!Next /\ UNCHANGED <<part, After15>>
  \/ part = "choice" /\ Choice!Next /\ UNCHANGED <<part, After14>>

Spec == Init /\ [][Next]_vars

(***************************************************************************)
(* Properties                                                              *)
(***************************************************************************)

\* Every part keeps its variables in their types.
TypeOK ==
  /\ part = "ladder" => Ladder!TypeOK
  /\ part = "parallel" => Parallel!TypeOK
  /\ part = "memory" => Memory!TypeOK
  /\ part = "wire" => Wire!TypeOK
  /\ part = "edges" => EdgeChoice!TypeOK
  /\ part = "exits" => ExitMoves!TypeOK
  /\ part = "leftovers" => Leftovers!TypeOK
  /\ part = "routes" => Routes!TypeOK
  /\ part = "ech" => EchCache!TypeOK
  /\ part = "gene" => Gene!TypeOK
  /\ part = "forward" => Forward!TypeOK
  /\ part = "reset" => Reset!TypeOK
  /\ part = "flow" => Flow!TypeOK
  /\ part = "maker" => Maker!TypeOK
  /\ part = "store" => Store!TypeOK
  /\ part = "facts" => Facts!TypeOK
  /\ part = "guide" => Guide!TypeOK
  /\ part = "switch" => Switch!TypeOK
  /\ part = "scan" => Scan!TypeOK
  /\ part = "choice" => Choice!TypeOK

\* What a session of UAC PoW shows as its method is what carries it, the start
\* index it takes from memory is one of the leg it starts, and a key shown as
\* fresh was the server's when the connect asked for it or later.
KnownIsTrue ==
  /\ part = "ladder" => Ladder!CarriedAsShown
  /\ part = "memory" => Memory!StartIsKnown
  /\ part = "ech" => EchCache!FreshIsFresh

\* When a disconnect, a crash of the application or a stop of the gateway is
\* through, no tunnel process, no Xray and no packet filter of it is left over.
NothingLeftBehind ==
  /\ part = "parallel" => Parallel!NoOrphan
  /\ part = "leftovers" => Leftovers!LeftoversGone
  /\ part = "forward" => Forward!FilterGone

\* The injector sends the fake hello before the real one and the real one in
\* order and complete, and no plan of a gene loses a byte of the hello.
SpoofedInOrder ==
  /\ part = "wire" => Wire!OrderlySpoofed /\ Wire!FakeBeforeHello
  /\ part = "edges" => EdgeChoice!OrderlySpoofed /\ EdgeChoice!FakeBeforeHello
  /\ part = "gene" => Gene!HelloKept

\* The shared edge is not one that failed, an attempt the user cancelled counts
\* against no gene, the route remembered for a profile is the one that ran, and a
\* gene runs with all that the import kept of a strategy Gene Lab confirmed.
LearnedFromOwnRuns ==
  /\ part = "wire" => Wire!PreferredHealthy
  /\ part = "edges" => EdgeChoice!PreferredHealthy
  /\ part = "flow" => Flow!NobodyBlamed /\ Flow!RememberedAsRun
  /\ part = "gene" => Gene!RunAsConfirmed

\* The tunnel never carries its own engine's connections, and what is answered
\* to a LAN device came from whom it asked.
RoutesApart ==
  /\ part = "routes" => Routes!NoLoop
  /\ part = "forward" => Forward!AnsweredByAsked

\* When nothing is under way any more, the exit the switches show is the one
\* the machine is on.
ChosenExitThere == part = "exits" => ExitMoves!ChosenExitThere

\* Late answers about an earlier state of the connection are not shown.
FactsCurrent == part = "facts" => Facts!FactsCurrent

\* The window shown and its switches are those of the engine the clicks act on.
WindowOfEngine == part = "switch" => Switch!WindowOfEngine

\* The rows of the SNI Maker say what their own test found, and a wizard that
\* waits for a test or an import has one under way.
TestsEndAsFound ==
  /\ part = "maker" => Maker!RowsAsFound
  /\ part = "guide" => Guide!FlowUnderWay

\* A name found on one carrier, and what is tuned for one carrier, is not used
\* on another, but for a best row that was dealt to no config.
CarriersApart ==
  /\ part = "scan" => Scan!PinnedWhereTested
  /\ part = "store" => Store!CarriersApart

\* The settings file catches up with the memory, a save that fails half way
\* keeps what was there, and the data reset loses nothing but what it could not
\* copy of a folder.
DataKept ==
  /\ part = "store" => Store!FileCurrent
  /\ part = "scan" => Scan!FailedApplyKeeps
  /\ part = "reset" => Reset!OldDataKept

\* No write of one domain's key loses the key of another domain, unless it found
\* the file of the keys unreadable.
KeysKept == [][part = "ech" => EchCache!Kept]_vars

\* A queued switch of the profile lands on the one activated last.
SwitchLands == [][part = "choice" => Choice!Lands]_vars
=============================================================================
