--------------------------- MODULE EnginePartsProofs ---------------------------
(***************************************************************************)
(* What holds of the engines' parts for all values of their constants: the *)
(* ECH keys, the ways of a packet, the LAN packet filter, the exit, what   *)
(* UAC PoW shows and remembers, what is learned from an attempt, and what  *)
(* is left behind.  PartsProofs is about the window, what is stored and    *)
(* the searches; the theorems are laid out alike.                          *)
(***************************************************************************)
EXTENDS Parts, FiniteSetTheorems, TLAPS

\* A behaviour is of one part from its first state to its last.
LEMMA PartStays == [Next]_vars => part' = part
BY DEF Next, vars

\* What an element that is added or taken does to the indices of a sequence.
LEMMA Indices ==
  ASSUME NEW S, NEW q \in Seq(S)
  PROVE  /\ \A x \in S : /\ Append(q, x) \in Seq(S) /\ DOMAIN Append(q, x) = 1..(Len(q) + 1)
                         /\ \A i \in DOMAIN q : i \in DOMAIN Append(q, x) /\ Append(q, x)[i] = q[i]
                         /\ Append(q, x)[Len(q) + 1] = x
         /\ DOMAIN q = 1..Len(q) /\ Len(q) \in Nat
         /\ \A i \in DOMAIN q : q[i] \in S
         /\ q # <<>> => /\ Tail(q) \in Seq(S) /\ DOMAIN Tail(q) = 1..(Len(q) - 1)
                        /\ \A i \in DOMAIN Tail(q) : i + 1 \in DOMAIN q /\ Tail(q)[i] = q[i + 1]
                        /\ \A i \in DOMAIN q : i = 1 \/ (i - 1 \in DOMAIN Tail(q) /\ Tail(q)[i - 1] = q[i])
                        /\ Head(q) = q[1] /\ 1 \in DOMAIN q
OBVIOUS


(***************************************************************************)
(* ECH keys                                                                *)
(***************************************************************************)
\* The values the actions give a thread and Xray are of their types.
EchSteps == {"idle", "race", "put", "save", "found", "late", "probe"}
EchUses == {"start", "check", "maker", "refresh"}
EchStates == {"", "fresh", "cached", "fallback", "none"}
EchThreadStates == [pc : EchSteps, use : EchUses, domain : EchDomains, key : EchCache!Keys, since : EchCache!Keys]
EchXrayStates == [domain : EchDomains, key : EchCache!Keys, since : EchCache!Keys, state : EchStates]

\* No key, the first key and a server's key are keys.
LEMMA EchKeysTyped ==
  0 \in EchCache!Keys /\ 1 \in 1..EchMaxKey /\ \A k \in 1..EchMaxKey : k \in EchCache!Keys /\ k # 0
BY EchAssumption DEF EchCache!Keys

\* A thread that is idle, Xray that is off and the empty file have their types.
LEMMA EchConstantsTyped ==
  /\ EchCache!Idle \in EchThreadStates /\ EchCache!Idle.pc = "idle"
                   /\ EchCache!Off \in EchXrayStates
                   /\ EchCache!Empty \in [EchDomains -> EchCache!Keys]
<1>1. EchCache!Some \in EchDomains
  BY EchAssumption DEF EchCache!Some
<1>2. QED
  BY <1>1, EchKeysTyped DEF EchCache!Idle, EchCache!Off, EchCache!Empty, EchThreadStates, EchXrayStates, EchSteps, EchUses, EchStates

\* TypeOK with the types of the records named.
LEMMA EchTypeMeans ==
  EchCache!TypeOK <=> /\ s1 \in [EchDomains -> 1..EchMaxKey] /\ s2 \in [EchDomains -> EchCache!Keys]
             /\ s3 \in EchThreads \union {EchCache!Nobody}
             /\ s4 \in [EchThreads -> EchThreadStates]
             /\ s5 \in [EchThreads -> [EchDomains -> EchCache!Keys]]
             /\ s6 \in EchXrayStates /\ s7 \in EchCache!Keys
BY DEF EchCache!TypeOK, EchThreadStates, EchXrayStates, EchSteps, EchUses, EchStates

\* A thread that begins a race has its type.
LEMMA EchRaceTyped ==
  ASSUME EchCache!TypeOK, NEW d \in EchDomains, NEW use \in EchUses
  PROVE  EchCache!Race(use, d) \in EchThreadStates /\ EchCache!Race(use, d).pc = "race"
<1>1. s1[d] \in EchCache!Keys
  BY EchKeysTyped, EchTypeMeans
<1>2. QED
  BY <1>1, EchKeysTyped DEF EchCache!Race, EchThreadStates, EchSteps

\* Xray started with a key has its type.
LEMMA EchRunsTyped ==
  ASSUME EchCache!TypeOK, NEW t \in EchThreads, NEW k \in EchCache!Keys, NEW state \in EchStates, EchCache!Runs(t, k, state)
  PROVE  s6' \in EchXrayStates
<1>1. s4[t] \in EchThreadStates
  BY EchTypeMeans
<1>2. s4[t].domain \in EchDomains /\ s4[t].since \in EchCache!Keys
  BY <1>1 DEF EchThreadStates
<1>3. QED
  BY <1>2 DEF EchCache!Runs, EchXrayStates

\* The invariant holds at first.
LEMMA EchInit == EchCache!Init => EchCache!EchInv
<1> SUFFICES ASSUME EchCache!Init PROVE EchCache!EchInv
  OBVIOUS
<1>1. s1 \in [EchDomains -> 1..EchMaxKey] /\ s7 \in EchCache!Keys
  BY EchKeysTyped DEF EchCache!Init
<1>2. EchCache!TypeOK
  BY <1>1, EchConstantsTyped, EchTypeMeans DEF EchCache!Init
<1>3. EchCache!AnswersAreKeys /\ EchCache!LoadedIsCurrent
  BY EchConstantsTyped DEF EchCache!Init, EchCache!AnswersAreKeys, EchCache!LoadedIsCurrent, EchCache!At
<1>4. QED
  BY <1>2, <1>3 DEF EchCache!EchInv

\* The parts of TypeOK, for one step.
EchTypedNext ==
  /\ s1' \in [EchDomains -> 1..EchMaxKey] /\ s2' \in [EchDomains -> EchCache!Keys]
  /\ s3' \in EchThreads \union {EchCache!Nobody}
  /\ s4' \in [EchThreads -> EchThreadStates]
  /\ s5' \in [EchThreads -> [EchDomains -> EchCache!Keys]]
  /\ s6' \in EchXrayStates /\ s7' \in EchCache!Keys

\* Every step keeps the types: by action.
LEMMA EchTypeNext == EchCache!TypeOK /\ [EchCache!Next]_EchCache!vars => EchCache!TypeOK'
<1> SUFFICES ASSUME EchCache!TypeOK, [EchCache!Next]_EchCache!vars PROVE EchTypedNext
  BY DEF EchTypedNext, EchCache!TypeOK, EchThreadStates, EchXrayStates, EchSteps, EchUses, EchStates
<1>a. /\ s1 \in [EchDomains -> 1..EchMaxKey] /\ s2 \in [EchDomains -> EchCache!Keys]
      /\ s3 \in EchThreads \union {EchCache!Nobody}
      /\ s4 \in [EchThreads -> EchThreadStates]
      /\ s5 \in [EchThreads -> [EchDomains -> EchCache!Keys]]
      /\ s6 \in EchXrayStates /\ s7 \in EchCache!Keys
  BY EchTypeMeans
<1>b. \A t \in EchThreads : s4[t].domain \in EchDomains /\ s4[t].key \in EchCache!Keys
  BY <1>a DEF EchThreadStates
<1>c. \A d \in EchDomains : s1[d] \in EchCache!Keys
  BY <1>a, EchKeysTyped
<1>d. \A c \in EchCache!Loads : c \in [EchDomains -> EchCache!Keys]
  BY <1>a, EchConstantsTyped DEF EchCache!Loads
<1> USE <1>a, <1>b, <1>c, EchKeysTyped, EchConstantsTyped DEF EchTypedNext, EchCache!Cache
<1>1. CASE EchCache!Rotates
  BY <1>1, EchAssumption DEF EchCache!Rotates
<1>2. ASSUME NEW t \in EchThreads, EchCache!Start(t) PROVE EchTypedNext
  BY <1>2, EchRaceTyped DEF EchCache!Start, EchUses
<1>3. ASSUME NEW t \in EchThreads, EchCache!MakerAsks(t) PROVE EchTypedNext
  BY <1>3, EchRaceTyped DEF EchCache!MakerAsks, EchUses
<1>4. ASSUME NEW t \in EchThreads, EchCache!PowAsks(t) PROVE EchTypedNext
  <2>1. PICK d \in EchDomains, c \in EchCache!Loads :
             s7' = c[d] /\ s4' = [s4 EXCEPT ![t] = EchCache!Race("refresh", d)]
    BY <1>4 DEF EchCache!PowAsks
  <2>2. s7' \in EchCache!Keys /\ EchCache!Race("refresh", d) \in EchThreadStates
    BY <2>1, <1>d, EchRaceTyped DEF EchUses
  <2>3. QED
    BY <1>4, <2>1, <2>2 DEF EchCache!PowAsks
<1>5. ASSUME NEW t \in EchThreads, EchCache!Answered(t) PROVE EchTypedNext
  <2>1. s1[s4[t].domain] \in EchCache!Keys
    OBVIOUS
  <2>2. s4' \in [EchThreads -> EchThreadStates]
    BY <1>5, <2>1 DEF EchCache!Answered, EchThreadStates, EchSteps
  <2>3. QED
    BY <1>5, <2>2 DEF EchCache!Answered
<1>6. ASSUME NEW t \in EchThreads, EchCache!NotAnswered(t) PROVE EchTypedNext
  <2>1. s4' \in [EchThreads -> EchThreadStates]
    <3>1. CASE EchCache!Ends(t)
      BY <3>1 DEF EchCache!Ends
    <3>2. CASE EchCache!To(t, "late")
      BY <3>2 DEF EchCache!To, EchThreadStates, EchSteps
    <3>3. QED
      BY <1>6, <3>1, <3>2 DEF EchCache!NotAnswered
  <2>2. QED
    BY <1>6, <2>1 DEF EchCache!NotAnswered
<1>7. ASSUME NEW t \in EchThreads, EchCache!PutLoads(t) PROVE EchTypedNext
  <2>1. s4' \in [EchThreads -> EchThreadStates]
    BY <1>7 DEF EchCache!PutLoads, EchCache!To, EchThreadStates, EchSteps
  <2>2. s5' \in [EchThreads -> [EchDomains -> EchCache!Keys]]
    BY <1>7, <1>d DEF EchCache!PutLoads
  <2>3. QED
    BY <1>7, <2>1, <2>2 DEF EchCache!PutLoads
<1>8. ASSUME NEW t \in EchThreads, EchCache!PutSaves(t) PROVE EchTypedNext
  <2>1. s4' \in [EchThreads -> EchThreadStates]
    <3>1. CASE EchCache!Ends(t)
      BY <3>1 DEF EchCache!Ends
    <3>2. CASE EchCache!To(t, "found")
      BY <3>2 DEF EchCache!To, EchThreadStates, EchSteps
    <3>3. QED
      BY <1>8, <3>1, <3>2 DEF EchCache!PutSaves
  <2>2. s2' \in [EchDomains -> EchCache!Keys]
    <3>1. s5[t] \in [EchDomains -> EchCache!Keys] /\ s4[t].key \in EchCache!Keys /\ s4[t].domain \in EchDomains
      OBVIOUS
    <3>2. [s5[t] EXCEPT ![s4[t].domain] = s4[t].key] \in [EchDomains -> EchCache!Keys]
      BY <3>1
    <3>3. QED
      BY <1>8, <3>2 DEF EchCache!PutSaves
  <2>3. s5' \in [EchThreads -> [EchDomains -> EchCache!Keys]] /\ s3' \in EchThreads \union {EchCache!Nobody}
    BY <1>8 DEF EchCache!PutSaves
  <2>4. s1' = s1 /\ s6' = s6 /\ s7' = s7
    BY <1>8 DEF EchCache!PutSaves
  <2>5. QED
    BY <2>1, <2>2, <2>3, <2>4
<1>9. ASSUME NEW t \in EchThreads, EchCache!Fetched(t) PROVE EchTypedNext
  <2>1. s4' \in [EchThreads -> EchThreadStates]
    BY <1>9 DEF EchCache!Fetched, EchCache!Ends
  <2>2. s6' \in EchXrayStates
    <3>1. CASE EchCache!Runs(t, s4[t].key, "fresh")
      BY <3>1, EchRunsTyped DEF EchStates
    <3>2. QED
      BY <1>9, <3>1 DEF EchCache!Fetched
  <2>3. QED
    BY <1>9, <2>1, <2>2 DEF EchCache!Fetched
<1>10. ASSUME NEW t \in EchThreads, EchCache!NotFetched(t) PROVE EchTypedNext
  <2>1. s4' \in [EchThreads -> EchThreadStates]
    <3>1. CASE EchCache!Ends(t)
      BY <3>1 DEF EchCache!Ends
    <3>2. CASE EchCache!To(t, "probe")
      BY <3>2 DEF EchCache!To, EchThreadStates, EchSteps
    <3>3. QED
      BY <1>10, <3>1, <3>2 DEF EchCache!NotFetched
  <2>2. s6' \in EchXrayStates
    <3>1. 1 \in EchCache!Keys /\ \A c \in EchCache!Loads : c[s4[t].domain] \in EchCache!Keys
      BY <1>d
    <3>2. QED
      BY <1>10, <3>1, EchRunsTyped DEF EchCache!NotFetched, EchStates
  <2>3. QED
    BY <1>10, <2>1, <2>2 DEF EchCache!NotFetched
<1>11. ASSUME NEW t \in EchThreads, EchCache!Checked(t) PROVE EchTypedNext
  <2>1. s6.domain \in EchDomains
    BY DEF EchXrayStates
  <2>2. QED
    BY <1>11, <2>1, EchRaceTyped DEF EchCache!Checked, EchCache!Ends, EchUses
<1>12. CASE UNCHANGED EchCache!vars
  BY <1>12 DEF EchCache!vars
<1>13. QED
  BY <1>1, <1>2, <1>3, <1>4, <1>5, <1>6, <1>7, <1>8, <1>9, <1>10, <1>11, <1>12 DEF EchCache!Next

\* A step of one thread that leaves the lock and the file alone and does not
\* put it at an answer keeps the invariant.
LEMMA EchOneThread ==
  ASSUME EchCache!EchInv, NEW t \in EchThreads, NEW r, s4' = [s4 EXCEPT ![t] = r], EchCache!Cache,
         r.pc \notin {"put", "save"}
  PROVE  EchCache!AnswersAreKeys' /\ EchCache!LoadedIsCurrent'
<1>1. DOMAIN s4 = EchThreads
  BY EchTypeMeans DEF EchCache!EchInv
<1>2. \A u \in EchThreads : s4'[u] = IF u = t THEN r ELSE s4[u]
  BY <1>1
<1>3. QED
  BY <1>2 DEF EchCache!EchInv, EchCache!AnswersAreKeys, EchCache!LoadedIsCurrent, EchCache!Loads, EchCache!At, EchCache!Cache

\* Every step keeps the invariant: by action.
LEMMA EchNext == EchCache!EchInv /\ [EchCache!Next]_EchCache!vars => EchCache!EchInv'
<1> SUFFICES ASSUME EchCache!EchInv, [EchCache!Next]_EchCache!vars
             PROVE  EchCache!AnswersAreKeys' /\ EchCache!LoadedIsCurrent'
  BY EchTypeNext DEF EchCache!EchInv
<1>a. EchCache!TypeOK /\ DOMAIN s4 = EchThreads
  BY EchTypeMeans DEF EchCache!EchInv
<1>b. \A t \in EchThreads : DOMAIN s4[t] = {"pc", "use", "domain", "key", "since"}
  BY EchTypeMeans, <1>a DEF EchThreadStates
<1>1. CASE EchCache!Rotates
  BY <1>1 DEF EchCache!Rotates, EchCache!Cache, EchCache!EchInv, EchCache!AnswersAreKeys, EchCache!LoadedIsCurrent, EchCache!Loads, EchCache!At
<1>2. ASSUME NEW t \in EchThreads, EchCache!Start(t) PROVE EchCache!AnswersAreKeys' /\ EchCache!LoadedIsCurrent'
  BY <1>2, EchOneThread DEF EchCache!Start, EchCache!Race
<1>3. ASSUME NEW t \in EchThreads, EchCache!MakerAsks(t) PROVE EchCache!AnswersAreKeys' /\ EchCache!LoadedIsCurrent'
  BY <1>3, EchOneThread DEF EchCache!MakerAsks, EchCache!Race
<1>4. ASSUME NEW t \in EchThreads, EchCache!PowAsks(t) PROVE EchCache!AnswersAreKeys' /\ EchCache!LoadedIsCurrent'
  BY <1>4, EchOneThread DEF EchCache!PowAsks, EchCache!Race
<1>5. ASSUME NEW t \in EchThreads, EchCache!Answered(t) PROVE EchCache!AnswersAreKeys' /\ EchCache!LoadedIsCurrent'
  <2>1. s1[s4[t].domain] # 0
    BY <1>a, EchTypeMeans, EchKeysTyped DEF EchThreadStates
  <2>2. /\ s4'[t].pc = "put" /\ s4'[t].key # 0
        /\ \A u \in EchThreads \ {t} : s4'[u] = s4[u]
    BY <1>5, <1>a, <1>b, <2>1 DEF EchCache!Answered
  <2>3. QED
    BY <1>5, <2>2 DEF EchCache!Answered, EchCache!Cache, EchCache!EchInv, EchCache!AnswersAreKeys, EchCache!LoadedIsCurrent, EchCache!Loads, EchCache!At
<1>6. ASSUME NEW t \in EchThreads, EchCache!NotAnswered(t) PROVE EchCache!AnswersAreKeys' /\ EchCache!LoadedIsCurrent'
  <2>1. CASE EchCache!Ends(t)
    BY <1>6, <2>1, EchOneThread, EchConstantsTyped DEF EchCache!NotAnswered, EchCache!Ends
  <2>2. CASE EchCache!To(t, "late")
    BY <1>6, <2>2, <1>a, <1>b DEF EchCache!NotAnswered, EchCache!To, EchCache!Cache, EchCache!EchInv, EchCache!AnswersAreKeys,
       EchCache!LoadedIsCurrent, EchCache!Loads, EchCache!At
  <2>3. QED
    BY <1>6, <2>1, <2>2 DEF EchCache!NotAnswered
<1>7. ASSUME NEW t \in EchThreads, EchCache!PutLoads(t) PROVE EchCache!AnswersAreKeys' /\ EchCache!LoadedIsCurrent'
  <2>1. \A u \in EchThreads : ~EchCache!At(u, "save")
    BY <1>7, EchAssumption DEF EchCache!PutLoads, EchCache!Locked, EchCache!EchInv, EchCache!Nobody, EchCache!LoadedIsCurrent
  <2>2. /\ s4'[t].pc = "save" /\ s4'[t].key = s4[t].key
        /\ \A u \in EchThreads \ {t} : s4'[u] = s4[u]
    BY <1>7, <1>a, <1>b DEF EchCache!PutLoads, EchCache!To
  <2>3. s3' = t /\ s2' = s2 /\ s5'[t] \in EchCache!Loads'
    BY <1>7, <1>a, EchTypeMeans DEF EchCache!PutLoads, EchCache!Loads
  <2>4. s4[t].key # 0
    BY <1>7 DEF EchCache!PutLoads, EchCache!At, EchCache!EchInv, EchCache!AnswersAreKeys
  <2>5. QED
    BY <2>1, <2>2, <2>3, <2>4 DEF EchCache!EchInv, EchCache!AnswersAreKeys, EchCache!LoadedIsCurrent, EchCache!Loads, EchCache!At
<1>8. ASSUME NEW t \in EchThreads, EchCache!PutSaves(t) PROVE EchCache!AnswersAreKeys' /\ EchCache!LoadedIsCurrent'
  <2>1. \A u \in EchThreads \ {t} : ~EchCache!At(u, "save")
    BY <1>8 DEF EchCache!PutSaves, EchCache!EchInv, EchCache!LoadedIsCurrent
  <2>2. s4'[t].pc \notin {"put", "save"} /\ \A u \in EchThreads \ {t} : s4'[u] = s4[u]
    BY <1>8, <1>a, <1>b, EchConstantsTyped DEF EchCache!PutSaves, EchCache!To, EchCache!Ends
  <2>3. QED
    BY <2>1, <2>2 DEF EchCache!EchInv, EchCache!AnswersAreKeys, EchCache!LoadedIsCurrent, EchCache!Loads, EchCache!At
<1>9. ASSUME NEW t \in EchThreads, EchCache!Fetched(t) PROVE EchCache!AnswersAreKeys' /\ EchCache!LoadedIsCurrent'
  BY <1>9, EchOneThread, EchConstantsTyped DEF EchCache!Fetched, EchCache!Ends
<1>10. ASSUME NEW t \in EchThreads, EchCache!NotFetched(t) PROVE EchCache!AnswersAreKeys' /\ EchCache!LoadedIsCurrent'
  <2>1. CASE EchCache!Ends(t)
    BY <1>10, <2>1, EchOneThread, EchConstantsTyped DEF EchCache!NotFetched, EchCache!Ends
  <2>2. CASE EchCache!To(t, "probe")
    BY <1>10, <2>2, <1>a, <1>b DEF EchCache!NotFetched, EchCache!To, EchCache!Cache, EchCache!EchInv, EchCache!AnswersAreKeys,
       EchCache!LoadedIsCurrent, EchCache!Loads, EchCache!At
  <2>3. QED
    BY <1>10, <2>1, <2>2 DEF EchCache!NotFetched
<1>11. ASSUME NEW t \in EchThreads, EchCache!Checked(t) PROVE EchCache!AnswersAreKeys' /\ EchCache!LoadedIsCurrent'
  BY <1>11, EchOneThread, EchConstantsTyped DEF EchCache!Checked, EchCache!Ends, EchCache!Race
<1>12. CASE UNCHANGED EchCache!vars
  BY <1>12 DEF EchCache!vars, EchCache!EchInv, EchCache!AnswersAreKeys, EchCache!LoadedIsCurrent, EchCache!Loads, EchCache!At
<1>13. QED
  BY <1>1, <1>2, <1>3, <1>4, <1>5, <1>6, <1>7, <1>8, <1>9, <1>10, <1>11, <1>12 DEF EchCache!Next

\* Only the write of a put changes the file, and it writes what it loaded, the
\* file or nothing, with a key added.
LEMMA EchStepKeeps == EchCache!EchInv /\ [EchCache!Next]_EchCache!vars => EchCache!Kept
<1> SUFFICES ASSUME EchCache!EchInv, [EchCache!Next]_EchCache!vars PROVE EchCache!Kept
  OBVIOUS
<1>1. ASSUME NEW t \in EchThreads, EchCache!PutSaves(t) PROVE EchCache!Kept
  <2>1. s3 = t /\ s5[t] \in {s2, EchCache!Empty} /\ s4[t].key # 0 /\ s2 \in [EchDomains -> EchCache!Keys]
    BY <1>1 DEF EchCache!PutSaves, EchCache!EchInv, EchCache!TypeOK, EchCache!AnswersAreKeys, EchCache!LoadedIsCurrent, EchCache!Loads,
       EchCache!At
  <2>2. CASE s5[t] = s2
    BY <1>1, <2>1, <2>2 DEF EchCache!PutSaves, EchCache!Kept
  <2>3. CASE s5[t] = EchCache!Empty
    BY <1>1, <2>1, <2>3 DEF EchCache!PutSaves, EchCache!Kept, EchCache!FoundNothing
  <2>4. QED
    BY <2>1, <2>2, <2>3
<1>2. CASE s2' = s2
  BY <1>2 DEF EchCache!Kept
<1>3. QED
  BY <1>1, <1>2 DEF EchCache!Next, EchCache!vars, EchCache!Cache, EchCache!Rotates, EchCache!Start, EchCache!MakerAsks, EchCache!PowAsks, EchCache!Answered, EchCache!NotAnswered,
     EchCache!PutLoads, EchCache!Fetched, EchCache!NotFetched, EchCache!Checked

\* At first nobody has asked.
LEMMA EchFreshInit == EchCache!Init => EchCache!FreshInv
<1> SUFFICES ASSUME EchCache!Init PROVE EchCache!FreshInv
  OBVIOUS
<1>1. \A t \in EchThreads : s4[t] = EchCache!Idle
  BY DEF EchCache!Init
<1>2. EchCache!Idle.pc = "idle" /\ s6.state = ""
  BY DEF EchCache!Init, EchCache!Idle, EchCache!Off
<1> QED
  BY <1>1, <1>2 DEF EchCache!FreshInv, EchCache!Fresh, EchCache!FreshIsFresh

\* What one thread does leaves the others' answers as they are.
LEMMA EchFreshOne ==
  ASSUME EchCache!TypeOK, EchCache!FreshInv, NEW t \in EchThreads, NEW r, s4' = [s4 EXCEPT ![t] = r],
         s1' = s1, EchCache!Fresh(r)
  PROVE  \A u \in EchThreads : EchCache!Fresh(s4[u])'
<1>1. \A u \in EchThreads : s4'[u] = IF u = t THEN r ELSE s4[u]
  BY EchTypeMeans
<1> QED
  BY <1>1 DEF EchCache!FreshInv, EchCache!Fresh

\* Every step keeps it: by action.
LEMMA EchFreshNext == EchCache!TypeOK /\ EchCache!FreshInv /\ [EchCache!Next]_EchCache!vars => EchCache!FreshInv'
<1> SUFFICES ASSUME EchCache!TypeOK, EchCache!FreshInv, [EchCache!Next]_EchCache!vars PROVE EchCache!FreshInv'
  OBVIOUS
<1>a. /\ s1 \in [EchDomains -> 1..EchMaxKey] /\ s4 \in [EchThreads -> EchThreadStates] /\ s6 \in EchXrayStates
      /\ \A d \in EchDomains : s1[d] \in Nat
      /\ \A t \in EchThreads : s4[t] \in EchThreadStates /\ s4[t].domain \in EchDomains
      /\ \A t \in EchThreads : s4[t].key \in Nat /\ s4[t].since \in Nat
  BY EchTypeMeans, EchAssumption DEF EchThreadStates, EchCache!Keys
<1>b. \A use, d : d \in EchDomains => EchCache!Fresh(EchCache!Race(use, d))
  BY <1>a DEF EchCache!Fresh, EchCache!Race
<1>c. EchCache!Fresh(EchCache!Idle) /\ (\A u \in EchThreads : EchCache!Fresh(s4[u])) /\ EchCache!FreshIsFresh
  BY DEF EchCache!Fresh, EchCache!Idle, EchCache!FreshInv
<1>d. \A t \in EchThreads : \A p : [s4[t] EXCEPT !.pc = p].pc = p
                           /\ [s4[t] EXCEPT !.pc = p].key = s4[t].key
                           /\ [s4[t] EXCEPT !.pc = p].since = s4[t].since
  BY <1>a DEF EchThreadStates
<1>e. \A t \in EchThreads : \A p : p \notin {"race", "put", "save", "found"} => EchCache!Fresh([s4[t] EXCEPT !.pc = p])
  BY <1>d DEF EchCache!Fresh
<1>f. ASSUME NEW t \in EchThreads, EchCache!Ends(t), s1' = s1 PROVE \A u \in EchThreads : EchCache!Fresh(s4[u])'
  BY <1>f, <1>c, EchFreshOne DEF EchCache!Ends
<1>g. ASSUME NEW t \in EchThreads, NEW p, EchCache!To(t, p), s1' = s1, EchCache!Fresh([s4[t] EXCEPT !.pc = p])
      PROVE \A u \in EchThreads : EchCache!Fresh(s4[u])'
  BY <1>g, EchFreshOne DEF EchCache!To
<1>1. CASE EchCache!Rotates
  <2>1. \A d \in EchDomains : s1'[d] >= s1[d]
    BY <1>1, <1>a DEF EchCache!Rotates
  <2> QED
    BY <1>1, <1>a, <1>c, <2>1 DEF EchCache!Rotates, EchCache!FreshInv, EchCache!Fresh, EchCache!FreshIsFresh
<1>2. ASSUME NEW t \in EchThreads, EchCache!Start(t) \/ EchCache!MakerAsks(t) \/ EchCache!PowAsks(t) PROVE EchCache!FreshInv'
  <2>1. PICK use \in EchUses, d \in EchDomains : s4' = [s4 EXCEPT ![t] = EchCache!Race(use, d)]
    BY <1>2, Zenon DEF EchCache!Start, EchCache!MakerAsks, EchCache!PowAsks, EchUses
  <2>2. s1' = s1 /\ (s6' = s6 \/ s6' = EchCache!Off)
    BY <1>2 DEF EchCache!Start, EchCache!MakerAsks, EchCache!PowAsks
  <2>3. EchCache!Fresh(EchCache!Race(use, d))
    BY <1>b
  <2>4. EchCache!Off.state = ""
    BY DEF EchCache!Off
  <2>5. EchCache!FreshIsFresh'
    BY <1>c, <2>2, <2>4 DEF EchCache!FreshIsFresh
  <2> QED
    BY <2>1, <2>2, <2>3, <2>5, EchFreshOne DEF EchCache!FreshInv
<1>3. ASSUME NEW t \in EchThreads, EchCache!Answered(t) PROVE EchCache!FreshInv'
  <2> DEFINE r == [s4[t] EXCEPT !.pc = "put", !.key = s1[s4[t].domain]]
  <2>1. s4' = [s4 EXCEPT ![t] = r]
    BY <1>3 DEF EchCache!Answered
  <2>2. r.pc = "put" /\ r.since = s4[t].since /\ r.key = s1[s4[t].domain]
    BY <1>a DEF EchThreadStates
  <2> HIDE DEF r
  <2>3. EchCache!Fresh(r)
    BY <1>3, <1>a, <1>c, <2>2 DEF EchCache!Answered, EchCache!At, EchCache!Fresh
  <2> QED
    BY <1>3, <1>c, <2>1, <2>3, EchFreshOne DEF EchCache!Answered, EchCache!FreshInv, EchCache!FreshIsFresh
<1>4. ASSUME NEW t \in EchThreads, EchCache!NotAnswered(t) PROVE EchCache!FreshInv'
  BY <1>4, <1>c, <1>e, <1>f, <1>g DEF EchCache!NotAnswered, EchCache!FreshInv, EchCache!FreshIsFresh
<1>5. ASSUME NEW t \in EchThreads, EchCache!PutLoads(t) PROVE EchCache!FreshInv'
  <2>1. EchCache!Fresh([s4[t] EXCEPT !.pc = "save"])
    BY <1>5, <1>c, <1>d DEF EchCache!PutLoads, EchCache!At, EchCache!Fresh
  <2> QED
    BY <1>5, <1>c, <1>g, <2>1 DEF EchCache!PutLoads, EchCache!FreshInv, EchCache!FreshIsFresh
<1>6. ASSUME NEW t \in EchThreads, EchCache!PutSaves(t) PROVE EchCache!FreshInv'
  <2>1. EchCache!Fresh([s4[t] EXCEPT !.pc = "found"])
    BY <1>6, <1>c, <1>d DEF EchCache!PutSaves, EchCache!At, EchCache!Fresh
  <2> QED
    BY <1>6, <1>c, <1>f, <1>g, <2>1 DEF EchCache!PutSaves, EchCache!FreshInv, EchCache!FreshIsFresh
<1>7. ASSUME NEW t \in EchThreads, EchCache!Fetched(t) PROVE EchCache!FreshInv'
  <2>1. s4[t].key >= s4[t].since
    BY <1>7, <1>c DEF EchCache!Fetched, EchCache!At, EchCache!Fresh
  <2>2. EchCache!FreshIsFresh'
    BY <1>7, <1>c, <2>1 DEF EchCache!Fetched, EchCache!Runs, EchCache!FreshIsFresh
  <2> QED
    BY <1>7, <1>f, <2>2 DEF EchCache!Fetched, EchCache!FreshInv
<1>8. ASSUME NEW t \in EchThreads, EchCache!NotFetched(t) PROVE EchCache!FreshInv'
  <2>1. EchCache!FreshIsFresh'
    BY <1>8, <1>c DEF EchCache!NotFetched, EchCache!Runs, EchCache!FreshIsFresh
  <2> QED
    BY <1>8, <1>e, <1>f, <1>g, <2>1 DEF EchCache!NotFetched, EchCache!FreshInv
<1>9. ASSUME NEW t \in EchThreads, EchCache!Checked(t) PROVE EchCache!FreshInv'
  <2>1. s6.domain \in EchDomains
    BY <1>a DEF EchXrayStates
  <2> QED
    BY <1>9, <1>b, <1>c, <1>f, <2>1, EchFreshOne DEF EchCache!Checked, EchCache!FreshInv, EchCache!FreshIsFresh
<1>10. CASE UNCHANGED EchCache!vars
  BY <1>10 DEF EchCache!vars, EchCache!FreshInv, EchCache!Fresh, EchCache!FreshIsFresh
<1> QED
  BY <1>1, <1>2, <1>3, <1>4, <1>5, <1>6, <1>7, <1>8, <1>9, <1>10 DEF EchCache!Next

\* In part "ech" every step is one of EchKeys.
LEMMA EchPart ==
  ASSUME [Next]_vars, part = "ech"
  PROVE  [EchCache!Next]_EchCache!vars
BY DEF Next, vars, EchCache!vars

\* No write of one caller loses the key another has put for a domain, unless it found the
\* file of the keys unreadable.
THEOREM KeysStay == Spec => KeysKept
<1> DEFINE Inv == part = "ech" => EchCache!EchInv
<1>1. Init => Inv
  BY EchInit DEF Init
<1>2. Inv /\ [Next]_vars => Inv'
  BY PartStays, EchPart, EchNext
<1>3. Inv /\ [Next]_vars => [part = "ech" => EchCache!Kept]_vars
  BY EchPart, EchStepKeeps
<1> QED
  BY <1>1, <1>2, <1>3, PTL DEF Spec, KeysKept

(***************************************************************************)
(* Ways of a packet                                                        *)
(***************************************************************************)
\* In part "routes" every step is one of TunnelRoutes.
LEMMA RoutesPart ==
  ASSUME [Next]_vars, part = "routes"
  PROVE  Routes!Next \/ UNCHANGED Routes!vars
BY DEF Next, vars, Routes!vars

\* A packet begins at a user's program or device.
LEMMA RoutesInit == Routes!Init => Routes!OnItsWay
<1> SUFFICES ASSUME Routes!Init PROVE Routes!OnItsWay
  OBVIOUS
<1>1. s1.engine \in {"xray", "pow"}
  <2>1. \A E, M, R, I, V, W : s1 \in [engine : E, mode : M, route : R, iran : I, viaPattern : V, vmess : W]
          => s1.engine \in E
    OBVIOUS
  <2>2. \/ s1 \in [engine : {"xray"}, mode : {"proxy", "tun", "gateway"},
                   route : {"pattern", "finalmask", "ech", "reality"},
                   iran : BOOLEAN, viaPattern : BOOLEAN, vmess : BOOLEAN]
        \/ s1 \in [engine : {"pow"}, mode : {"proxy", "tun"}, route : {"pattern"},
                   iran : {FALSE}, viaPattern : {FALSE}, vmess : {FALSE}]
    BY Zenon DEF Routes!Init
  <2>3. s1.engine \in {"xray"} \/ s1.engine \in {"pow"}
    BY <2>1, <2>2, Zenon
  <2> QED
    BY <2>3
<1>2. s6 \in Seq(Routes!Hops) /\ Len(s6) = 0 /\ Routes!After(0)
  <2>1. s6 = << >> /\ s4 = "host" /\ s2 \in Routes!Users
    BY Zenon DEF Routes!Init
  <2> QED
    BY <2>1 DEF Routes!After
<1> QED
  BY <1>1, <1>2 DEF Routes!OnItsWay

\* What a helper sends leaves the TUN directly, whatever the other rules say.
LEMMA HelpersDirect ==
  s2 \in Routes!Helpers => Routes!First(Routes!TunRules) = "direct"
<1> SUFFICES ASSUME s2 \in Routes!Helpers PROVE Routes!First(Routes!TunRules) = "direct"
  OBVIOUS
<1> DEFINE rules == Routes!TunRules
<1>1. /\ DOMAIN rules = 1..10 /\ rules[1].action = "direct" /\ rules[2].action = "direct"
      /\ rules[2].match
  <2>1. DOMAIN rules = 1..10
    BY DEF Routes!TunRules
  <2>2. /\ rules[1] = Routes!Rule(s2 = Routes!App /\ s3 \in Routes!Edges, "direct")
        /\ rules[2] = Routes!Rule(s2 \in Routes!Helpers, "direct")
    BY DEF Routes!TunRules
  <2>3. \A match, action : Routes!Rule(match, action).action = action
    BY DEF Routes!Rule
  <2>4. Routes!Rule(s2 \in Routes!Helpers, "direct").match = (s2 \in Routes!Helpers)
    BY Zenon DEF Routes!Rule
  <2>5. rules[2].match
    BY <2>2, <2>4, Zenon
  <2> QED
    BY <2>1, <2>2, <2>3, <2>5
<1> HIDE DEF rules
<1> DEFINE P(i) == i \in DOMAIN rules /\ rules[i].match /\ \A j \in 1..(i - 1) : ~rules[j].match
<1>2. \E i : P(i)
  <2>1. CASE rules[1].match
    <3>1. P(1)
      BY <1>1, <2>1
    <3> QED
      BY <3>1
  <2>2. CASE ~rules[1].match
    <3>1. \A j \in 1..(2 - 1) : j = 1
      OBVIOUS
    <3>2. P(2)
      BY <1>1, <2>2, <3>1
    <3> QED
      BY <3>2
  <2> QED
    BY <2>1, <2>2
<1>3. \A i : P(i) => i = 1 \/ i = 2
  <2> SUFFICES ASSUME NEW i, P(i), i # 1, i # 2 PROVE FALSE
    OBVIOUS
  <2>1. i \in 1..10
    BY <1>1
  <2>2. 2 \in 1..(i - 1)
    BY <2>1
  <2> QED
    BY <1>1, <2>2
<1>4. P(CHOOSE i : P(i))
  BY <1>2
<1> DEFINE i0 == CHOOSE i : P(i)
<1>5. Routes!First(rules) = rules[i0].action
  BY Zenon DEF Routes!First
<1>6. i0 = 1 \/ i0 = 2
  BY <1>3, <1>4
<1> HIDE DEF i0
<1>7. Routes!First(rules) = "direct"
  BY <1>1, <1>5, <1>6
<1> QED
  BY <1>7 DEF rules

\* Every hop keeps a packet on its way: a helper's or the core's leaves at the next.
LEMMA RoutesStep ==
  ASSUME Routes!OnItsWay, Routes!Next
  PROVE  Routes!OnItsWay'
<1> USE DEF Routes!Sends, Routes!Users, Routes!App
<1>1. PICK n \in Nat : n = Len(s6) /\ Routes!After(n)
  BY DEF Routes!OnItsWay
<1>2. \A hop \in Routes!Hops : Routes!Go(hop) => s4' = hop /\ s6' \in Seq(Routes!Hops) /\ Len(s6') = n + 1
  BY <1>1 DEF Routes!OnItsWay, Routes!Go
<1>3. Routes!Hops = {"host", "tun", "socks", "bypass", "core", "wire", "lost"}
  BY DEF Routes!Hops
<1>4. UNCHANGED s1 => (Routes!CoreListens <=> Routes!CoreListens') /\ Routes!Helpers' = Routes!Helpers
                      /\ Routes!Edges' = Routes!Edges
  BY DEF Routes!CoreListens, Routes!Helpers, Routes!Edges, Routes!Direct, Routes!FinalMask,
    Routes!EchPlanned
<1>5. Routes!Helpers \in {{"xray"}, {"aether"}} /\ s1.engine \in {"xray", "pow"}
  BY DEF Routes!Helpers, Routes!OnItsWay
<1>6. ASSUME UNCHANGED s1, NEW hop \in Routes!Hops, Routes!Go(hop), Routes!After(n + 1)'
      PROVE  Routes!OnItsWay'
  BY <1>2, <1>5, <1>6 DEF Routes!OnItsWay, Routes!Hops
<1> USE DEF Routes!After
<1>7. CASE Routes!Captured
  <2>1. Routes!Go("tun") /\ UNCHANGED s1 /\ Routes!After(n + 1)'
    BY <1>7, <1>1, <1>2, <1>3, <1>4, <1>5 DEF Routes!Captured
  <2> QED
    BY <2>1, <1>3, <1>6
<1>8. CASE Routes!NotCaptured \/ Routes!TunDirect \/ Routes!TunRefuses
  <2>1. s4 \in {"host", "tun"} /\ Routes!Go("wire") /\ UNCHANGED s1
    BY <1>8 DEF Routes!NotCaptured, Routes!TunDirect, Routes!TunRefuses, Routes!Leave
  <2>2. n <= 4
    BY <2>1, <1>1
  <2>3. s4' = "wire"
    BY <2>1, <1>2, <1>3
  <2>4. Routes!After(n + 1)'
    BY <2>2, <2>3
  <2> QED
    BY <2>1, <2>4, <1>3, <1>6
<1>9. CASE Routes!Proxied
  <2>1. UNCHANGED <<s1, s2>> /\ s4 = "host" /\ s2 \in Routes!Users
        /\ (Routes!Go("bypass") \/ Routes!Go("socks"))
    BY <1>9 DEF Routes!Proxied
  <2>2. n = 0
    BY <2>1, <1>1, <1>5
  <2>3. Routes!After(n + 1)'
    BY <2>1, <2>2, <1>2, <1>3
  <2> QED
    BY <2>1, <2>3, <1>3, <1>6
<1>10. CASE Routes!BypassRoutes
  <2>1. UNCHANGED s1 /\ s4 = "bypass" /\ (Routes!Go("wire") \/ (Routes!Go("socks") /\ s2' = "singbox"))
    <3>1. CASE Routes!First(Routes!BypassRules) = "direct"
      <4>1. s4 = "bypass" /\ Routes!Leave("direct")
        BY <1>10, <3>1, Zenon DEF Routes!BypassRoutes
      <4> QED
        BY <4>1 DEF Routes!Leave
    <3>2. CASE Routes!First(Routes!BypassRules) # "direct"
      BY <1>10, <3>2, Zenon DEF Routes!BypassRoutes
    <3> QED
      BY <3>1, <3>2
  <2>2. Routes!After(n + 1)'
    BY <2>1, <1>1, <1>2, <1>3
  <2> QED
    BY <2>1, <2>2, <1>3, <1>6
<1>11. CASE Routes!TunProxies
  <2>1. s2 \notin Routes!Helpers /\ s4 = "tun" /\ Routes!Go("socks") /\ s2' = "singbox" /\ UNCHANGED s1
    BY <1>11, HelpersDirect DEF Routes!TunProxies
  <2>2. n + 1 <= 2
    BY <2>1, <1>1
  <2>3. s4' = "socks"
    BY <2>1, <1>2, <1>3
  <2>4. Routes!After(n + 1)'
    BY <2>1, <2>2, <2>3
  <2> QED
    BY <2>1, <2>4, <1>3, <1>6
<1>12. CASE Routes!XrayDirect \/ Routes!PowDials
  <2>1. /\ UNCHANGED s1 /\ s4 = "socks" /\ Routes!Go("host") /\ s2' \in Routes!Helpers
        /\ Routes!Helpers' = Routes!Helpers
    BY <1>4, <1>12 DEF Routes!XrayDirect, Routes!PowDials, Routes!Helpers
  <2>2. Routes!After(n + 1)'
    BY <2>1, <1>1, <1>2, <1>3
  <2> QED
    BY <2>1, <2>2, <1>3, <1>6
<1>13. CASE Routes!XrayDials
  <2>1. /\ UNCHANGED s1 /\ s4 = "socks" /\ s2' \in Routes!Helpers
        /\ \/ Routes!Go("host") \/ (Routes!Go("core") /\ Routes!CoreListens)
           \/ Routes!Go("lost") /\ s1.vmess /\ Routes!EchPlanned
    <3>1. /\ UNCHANGED s1 /\ s4 = "socks" /\ s2' = "xray" /\ s1.engine = "xray"
          /\ \/ Routes!Go("host")
             \/ Routes!Upstream = "core" /\ Routes!Go(IF Routes!DialsCore THEN "core" ELSE "lost")
      BY <1>13 DEF Routes!XrayDials
    <3>2. Routes!Helpers' = {"xray"}
      BY <3>1 DEF Routes!Helpers
    <3>3. Routes!Upstream = "core" => Routes!CoreListens
      BY DEF Routes!Upstream, Routes!CoreListens
    <3>4. CASE Routes!Go("host")
      BY <3>1, <3>2, <3>4, <1>4
    <3>5. CASE Routes!Upstream = "core" /\ Routes!DialsCore /\ Routes!Go("core")
      BY <3>1, <3>2, <3>3, <3>5, <1>4
    <3>6. CASE Routes!Upstream = "core" /\ ~Routes!DialsCore /\ Routes!Go("lost")
      <4>1. s1.vmess /\ Routes!EchPlanned
        BY <3>3, <3>6 DEF Routes!DialsCore
      <4> QED
        BY <3>1, <3>2, <3>6, <4>1, <1>4
    <3> QED
      BY <3>1, <3>4, <3>5, <3>6
  <2>2. n + 1 <= 3 /\ Routes!Helpers' = Routes!Helpers /\ (Routes!CoreListens <=> Routes!CoreListens')
    BY <2>1, <1>1, <1>4
  <2>3. ASSUME Routes!Go("host") PROVE Routes!After(n + 1)'
    <3>1. s4' = "host"
      BY <2>3, <1>2, <1>3
    <3> QED
      BY <3>1, <2>1, <2>2
  <2>4. ASSUME Routes!Go("core"), Routes!CoreListens PROVE Routes!After(n + 1)'
    <3>1. s4' = "core"
      BY <2>4, <1>2, <1>3
    <3> QED
      BY <3>1, <2>2, <2>4
  <2>5. ASSUME Routes!Go("lost"), s1.vmess, Routes!EchPlanned PROVE Routes!After(n + 1)'
    <3>1. s4' = "lost"
      BY <2>5, <1>2, <1>3
    <3>2. s1'.vmess /\ Routes!EchPlanned'
      BY <2>1, <2>5 DEF Routes!EchPlanned
    <3> QED
      BY <3>1, <3>2, <2>2
  <2>6. Routes!After(n + 1)'
    BY <2>1, <2>3, <2>4, <2>5
  <2> QED
    BY <2>1, <2>6, <1>3, <1>6
<1>14. CASE Routes!CoreDials
  <2>1. /\ s4 = "core" /\ UNCHANGED s1 /\ Routes!Go("host") /\ s2' = "app"
        /\ s3' = IF Routes!EchPlanned THEN "server" ELSE "edge"
    BY <1>14 DEF Routes!CoreDials
  <2>2. s3' \in Routes!Edges /\ n <= 3
    BY <2>1, <1>1 DEF Routes!Edges
  <2>3. Routes!After(n + 1)'
    BY <2>1, <2>2, <1>1, <1>2, <1>3, <1>4
  <2> QED
    BY <2>1, <2>3, <1>3, <1>6
<1> QED
  BY <1>7, <1>8, <1>9, <1>10, <1>11, <1>12, <1>13, <1>14 DEF Routes!Next

\* On its way nothing passes a proxy twice, and every way ends.
LEMMA RoutesEnd == Routes!OnItsWay => Routes!NoLoop
<1> SUFFICES ASSUME Routes!OnItsWay PROVE Routes!NoLoop
  OBVIOUS
<1>1. PICK n \in Nat : n = Len(s6) /\ Routes!After(n)
  BY DEF Routes!OnItsWay
<1>2. /\ n <= 6 /\ (s4 \in {"socks", "bypass"} => s2 \in Routes!Users \union {"singbox"})
      /\ s4 = "lost" => s1.vmess /\ Routes!EchPlanned
  BY <1>1 DEF Routes!After
<1> QED
  BY <1>1, <1>2 DEF Routes!NoLoop

(***************************************************************************)
(* The LAN packet filter                                                   *)
(***************************************************************************)
\* In part "forward" every step is one of ForwardPath.
LEMMA ForwardPart ==
  ASSUME [Next]_vars, part = "forward"
  PROVE  Forward!Next \/ UNCHANGED Forward!vars
BY DEF Next, vars, Forward!vars, Forward!helper, Forward!dns

\* No packet is under way when the application starts.
LEMMA ForwardInit == Forward!Init => Forward!WireInv
BY DEF Forward!Init, Forward!WireInv, Forward!None

\* A step that at most drops mappings, and touches no packet, keeps what is known of them.
LEMMA ForwardForgets ==
  ASSUME Forward!WireInv, UNCHANGED <<s12, s14>>,
         \A f \in DOMAIN s11' : f \in DOMAIN s11 /\ s11'[f] = s11[f]
  PROVE  Forward!WireInv'
BY DEF Forward!WireInv, Forward!Named

\* A question goes out and is mapped as it is sent on; what is forgotten of its port then
\* no packet and no mapping needs.
LEMMA ForwardAsks ==
  ASSUME Forward!WireInv, NEW k \in {"udp", "tcp"}, NEW p \in ForwardPorts, NEW n \in 1..ForwardMaxOpen,
         NEW s \in ForwardServers \union {"resolver"}, Forward!Ask(k, p, n, s)
  PROVE  Forward!WireInv'
<1>1. PICK q0 : q0 = [kind |-> "question", protocol |-> k, port |-> p, n |-> n, asked |-> s,
                      server |-> IF s10 /\ Forward!Private(s) THEN "resolver" ELSE s]
  OBVIOUS
<1>2. q0 \in Forward!Packets /\ q0.protocol = k /\ q0.port = p /\ q0.server \in {s, "resolver"}
  BY <1>1 DEF Forward!Packets
<1>3. /\ s12' = s12 \union {q0} /\ s14' = Forward!Before(k, p, s) \union {<<k, p, s>>}
      /\ s11' = IF s10 /\ Forward!Private(s)
                THEN [f \in DOMAIN s11 \union {<<k, p>>} |-> IF f = <<k, p>> THEN s ELSE s11[f]] ELSE s11
  BY <1>1 DEF Forward!Ask
<1>4. /\ s12 \subseteq Forward!Packets
      /\ \A q \in s12 : Forward!Named(q.protocol, q.port, q.server)
      /\ \A f \in DOMAIN s11 : Forward!Named(f[1], f[2], s11[f])
  BY DEF Forward!WireInv
<1>9. \A f \in DOMAIN s11 : f[1] = k /\ f[2] = p => f = <<k, p>>
  BY DEF Forward!WireInv
<1>5. ASSUME NEW l, NEW o, NEW r, Forward!Named(l, o, r), Forward!Anew(k, p, s) => l # k \/ o # p
      PROVE  Forward!Named(l, o, r)'
  <2>1. CASE r = "resolver"
    BY <2>1 DEF Forward!Named
  <2>2. CASE <<l, o, r>> \in s14
    <3>1. <<l, o, r>>[1] = l /\ <<l, o, r>>[2] = o
      OBVIOUS
    <3>2. <<l, o, r>> \in Forward!Before(k, p, s)
      BY <1>5, <2>2, <3>1 DEF Forward!Before
    <3> QED
      BY <1>3, <3>2 DEF Forward!Named
  <2> QED
    BY <1>5, <2>1, <2>2 DEF Forward!Named
<1>6. ASSUME NEW q \in s12' PROVE Forward!Named(q.protocol, q.port, q.server)'
  <2>1. CASE q \in s12
    <3>1. Forward!Anew(k, p, s) => q.protocol # k \/ q.port # p
      BY <2>1 DEF Forward!Anew
    <3> QED
      BY <1>4, <1>5, <2>1, <3>1
  <2>2. CASE q = q0
    BY <1>2, <1>3, <2>2 DEF Forward!Named
  <2> QED
    BY <1>3, <1>6, <2>1, <2>2
<1>7. ASSUME NEW f \in DOMAIN s11' PROVE Forward!Named(f[1], f[2], s11[f])'
  <2>1. CASE s10 /\ Forward!Private(s) /\ f = <<k, p>>
    <3>1. s11'[f] = s /\ f[1] = k /\ f[2] = p
      BY <1>3, <2>1
    <3> QED
      BY <1>3, <3>1 DEF Forward!Named
  <2>2. CASE ~(s10 /\ Forward!Private(s) /\ f = <<k, p>>)
    <3>1. f \in DOMAIN s11 /\ s11'[f] = s11[f]
      BY <1>3, <1>7, <2>2
    <3>2. PICK r : r = s11[f]
      OBVIOUS
    <3>3. Forward!Named(f[1], f[2], r)
      BY <1>4, <3>1, <3>2
    <3>4. Forward!Anew(k, p, s) => f[1] # k \/ f[2] # p
      BY <2>2, <3>1, <1>9 DEF Forward!Anew
    <3>5. Forward!Named(f[1], f[2], r)'
      BY <1>5, <3>3, <3>4
    <3>6. s11'[f] = r
      BY <3>1, <3>2
    <3> QED
      BY <3>5, <3>6 DEF Forward!Named
  <2> QED
    BY <2>1, <2>2
<1>8. s12' \subseteq Forward!Packets
  BY <1>2, <1>3, <1>4
<1>10. DOMAIN s11' \subseteq {"udp", "tcp"} \X ForwardPorts
  BY <1>3 DEF Forward!WireInv
<1>11. s14' \subseteq Forward!Asks
  <2>1. Forward!Before(k, p, s) \subseteq s14 /\ s14 \subseteq Forward!Asks
    BY DEF Forward!Before, Forward!WireInv
  <2>2. <<k, p, s>> \in Forward!Asks
    BY DEF Forward!Asks
  <2> QED
    BY <1>3, <2>1, <2>2
<1> QED
  BY <1>6, <1>7, <1>8, <1>10, <1>11 DEF Forward!WireInv

\* An answer takes the name of a server that its port asked, or keeps the resolver's.
LEMMA ForwardAnswers ==
  ASSUME Forward!WireInv, NEW q \in s12, Forward!Answer(q)
  PROVE  Forward!WireInv'
<1>1. PICK name, r : /\ name = IF q.server = "resolver" /\ Forward!Taking /\ s10 THEN Forward!Original(q)
                                ELSE q.server
                     /\ r = [q EXCEPT !.kind = "answer", !.server = name]
  OBVIOUS
<1>2. s12' = (s12 \ {q}) \union {r} /\ q.kind = "question" /\ s14' = s14
  <2>1. /\ q.kind = "question" /\ s14' = s14
        /\ s12' = (s12 \ {q}) \union {[q EXCEPT !.kind = "answer", !.server =
             IF q.server = "resolver" /\ Forward!Taking /\ s10 THEN Forward!Original(q) ELSE q.server]}
    BY DEF Forward!Answer
  <2> QED
    BY <1>1, <2>1, Zenon
<1>3. /\ s12 \subseteq Forward!Packets
      /\ \A x \in s12 : Forward!Named(x.protocol, x.port, x.server)
      /\ \A f \in DOMAIN s11 : Forward!Named(f[1], f[2], s11[f])
  BY DEF Forward!WireInv
<1>4. q \in Forward!Packets /\ Forward!Named(q.protocol, q.port, q.server)
  BY <1>3
<1>5. Forward!Named(q.protocol, q.port, name)
  <2>1. CASE name = q.server
    BY <2>1, <1>4
  <2>2. CASE name # q.server
    <3>1. PICK f \in DOMAIN s11 : name = s11[f] /\ f[1] = q.protocol /\ f[2] = q.port
      BY <2>2, <1>1 DEF Forward!Original
    <3> QED
      BY <3>1, <1>3
  <2> QED
    BY <2>1, <2>2
<1>6. name \in ForwardServers \union {"resolver"}
  <2>1. CASE name = "resolver"
    BY <2>1
  <2>2. CASE <<q.protocol, q.port, name>> \in s14
    <3>1. <<q.protocol, q.port, name>> \in Forward!Asks
      BY <2>2 DEF Forward!WireInv
    <3> QED
      BY <3>1 DEF Forward!Asks
  <2> QED
    BY <1>5, <2>1, <2>2 DEF Forward!Named
<1>7. r \in Forward!Packets /\ r.protocol = q.protocol /\ r.port = q.port /\ r.server = name
  BY <1>1, <1>4, <1>6 DEF Forward!Packets
<1>8. \A f \in DOMAIN s11' : f \in DOMAIN s11 /\ s11'[f] = s11[f]
  BY DEF Forward!Answer
<1> QED
  BY <1>2, <1>3, <1>5, <1>7, <1>8 DEF Forward!WireInv, Forward!Named

\* What the owners of the filter do, and the time, drops mappings at most.
LEMMA ForwardOwners ==
  ASSUME Forward!Next
  PROVE  \/ /\ UNCHANGED <<s12, s14>>
            /\ \A f \in DOMAIN s11' : f \in DOMAIN s11 /\ s11'[f] = s11[f]
         \/ \E k \in {"udp", "tcp"}, p \in ForwardPorts, n \in 1..ForwardMaxOpen,
               s \in ForwardServers \union {"resolver"} : Forward!Ask(k, p, n, s)
         \/ \E q \in s12 : Forward!Answer(q) \/ Forward!Received(q)
<1> USE DEF Forward!dns, Forward!helper
<1>0. (s11' = s11 \/ s11' = Forward!None) => \A f \in DOMAIN s11' : f \in DOMAIN s11 /\ s11'[f] = s11[f]
  BY DEF Forward!None
<1>1. ASSUME NEW o, Forward!Ended(o) PROVE s11' = s11 \/ s11' = Forward!None
  BY <1>1 DEF Forward!Ended
<1>2. ASSUME NEW o \in Forward!Owners,
             Forward!Close(o) \/ Forward!Joined(o) \/ Forward!Make(o) \/ Forward!Ready(o) \/ Forward!Undone(o)
      PROVE UNCHANGED <<s12, s14>> /\ (s11' = s11 \/ s11' = Forward!None)
  BY <1>1, <1>2 DEF Forward!Close, Forward!Joined, Forward!Make, Forward!Ready, Forward!Undone
<1>3. ASSUME NEW t, Forward!Open(t) \/ Forward!Fail(t) \/ Forward!Over(t)
      PROVE UNCHANGED <<s11, s12, s14>>
  BY <1>3 DEF Forward!Open, Forward!Fail, Forward!Over
<1>4. ASSUME Forward!Start \/ Forward!Started \/ Forward!StartFailed \/ Forward!Stop \/ Forward!Awaited
      PROVE UNCHANGED <<s11, s12, s14>>
  BY <1>4 DEF Forward!Start, Forward!Started, Forward!StartFailed, Forward!Stop, Forward!Awaited, Forward!Gate
<1>5. ASSUME Forward!Stopped PROVE UNCHANGED <<s12, s14>> /\ (s11' = s11 \/ s11' = Forward!None)
  BY <1>1, <1>5 DEF Forward!Stopped
<1>6. ASSUME NEW w, Forward!Ensure(w) \/ Forward!Ensured(w) \/ Forward!Leave(w)
      PROVE UNCHANGED <<s11, s12, s14>>
  BY <1>6 DEF Forward!Ensure, Forward!Ensured, Forward!Leave
<1>7. ASSUME NEW f, Forward!Expire(f)
      PROVE UNCHANGED <<s12, s14>> /\ \A g \in DOMAIN s11' : g \in DOMAIN s11 /\ s11'[g] = s11[g]
  BY <1>7 DEF Forward!Expire
<1> QED
  BY <1>0, <1>2, <1>3, <1>4, <1>5, <1>6, <1>7, Zenon DEF Forward!Next

\* Every step keeps what is known of the packets.
LEMMA ForwardStep ==
  ASSUME Forward!WireInv, Forward!Next
  PROVE  Forward!WireInv'
<1>1. ASSUME NEW q \in s12, Forward!Received(q) PROVE Forward!WireInv'
  <2>1. s12' = s12 \ {q} /\ s11' = s11 /\ s14' = s14
    BY <1>1 DEF Forward!Received
  <2> QED
    BY <2>1 DEF Forward!WireInv, Forward!Named
<1> QED
  BY <1>1, ForwardOwners, ForwardForgets, ForwardAsks, ForwardAnswers

\* So an answer comes in the name of one of whom its port asked, or of the resolver.
LEMMA ForwardNamed ==
  ASSUME Forward!WireInv
  PROVE  Forward!AnsweredByAsked
<1> SUFFICES ASSUME NEW q \in s12, q.server # "resolver" PROVE q.server \in Forward!AskedOf(q)
  BY DEF Forward!AnsweredByAsked
<1>1. PICK a \in s14 : a = <<q.protocol, q.port, q.server>>
  BY DEF Forward!WireInv, Forward!Named
<1> QED
  BY <1>1 DEF Forward!AskedOf

\* No engine's connection runs through its own tunnel, and no answer comes to a LAN client in
\* the name of a server that was not asked from its port.
THEOREM NoWrongWay == Spec => []RoutesApart
<1> DEFINE Inv == (part = "routes" => Routes!OnItsWay) /\ (part = "forward" => Forward!WireInv)
<1>1. Init => Inv
  BY RoutesInit, ForwardInit DEF Init
<1>2. Inv /\ [Next]_vars => Inv'
  <2> SUFFICES ASSUME Inv, [Next]_vars PROVE Inv'
    OBVIOUS
  <2>1. part' = part
    BY PartStays
  <2>2. ASSUME part = "routes" PROVE Routes!OnItsWay'
    <3>1. CASE Routes!Next
      BY <2>2, <3>1, RoutesStep
    <3>2. CASE UNCHANGED Routes!vars
      BY <2>2, <3>2 DEF Routes!vars, Routes!OnItsWay, Routes!After, Routes!CoreListens,
        Routes!Helpers, Routes!Edges, Routes!Direct, Routes!FinalMask, Routes!EchPlanned
    <3> QED
      BY <2>2, <3>1, <3>2, RoutesPart
  <2>3. ASSUME part = "forward" PROVE Forward!WireInv'
    <3>1. CASE Forward!Next
      BY <2>3, <3>1, ForwardStep
    <3>2. CASE UNCHANGED Forward!vars
      <4>1. UNCHANGED <<s11, s12, s14>>
        BY <3>2 DEF Forward!vars, Forward!dns
      <4> QED
        BY <2>3, <4>1 DEF Forward!WireInv, Forward!Named
    <3> QED
      BY <2>3, <3>1, <3>2, ForwardPart
  <2> QED
    BY <2>1, <2>2, <2>3
<1>3. Inv => RoutesApart
  BY RoutesEnd, ForwardNamed DEF RoutesApart
<1> QED
  BY <1>1, <1>2, <1>3, PTL DEF Spec

(***************************************************************************)
(* How the traffic leaves                                                  *)
(***************************************************************************)
\* The records of ExitModes.
ExitSignals == [of : {"proxy", "tun", "state"}, ok : BOOLEAN, value : BOOLEAN, gen : Nat, run : 0..ExitsMaxRun]
ExitWork == [pc : ExitMoves!Steps, tun : BOOLEAN, value : BOOLEAN, gen : Nat, run : 0..ExitsMaxRun]

\* A signal that is added is one of those on their way.
LEMMA ExitsSends ==
  ASSUME s11 \in Seq(ExitSignals), NEW m \in ExitSignals, s11' = Append(s11, m)
  PROVE  s11' \in Seq(ExitSignals) /\ ExitMoves!Sent' = ExitMoves!Sent \union {m}
<1>1. /\ s11' \in Seq(ExitSignals) /\ DOMAIN s11' = 1..(Len(s11) + 1) /\ s11'[Len(s11) + 1] = m
      /\ DOMAIN s11 = 1..Len(s11) /\ Len(s11) \in Nat
      /\ \A i \in DOMAIN s11 : i \in DOMAIN s11' /\ s11'[i] = s11[i]
  BY Indices
<1>2. \A i \in DOMAIN s11' : i = Len(s11) + 1 \/ i \in DOMAIN s11
  BY <1>1
<1>3. Len(s11) + 1 \in DOMAIN s11'
  BY <1>1
<1> QED
  BY <1>1, <1>2, <1>3 DEF ExitMoves!Sent

\* A signal that is taken leaves the others.
LEMMA ExitsTakes ==
  ASSUME s11 \in Seq(ExitSignals), NEW of, ExitMoves!Take(of)
  PROVE  /\ s11' \in Seq(ExitSignals) /\ ExitMoves!Sent' \subseteq ExitMoves!Sent
         /\ Head(s11) \in ExitMoves!Sent /\ Head(s11).of = of /\ Head(s11) \in ExitSignals
         /\ \A s \in ExitMoves!Sent : s = Head(s11) \/ s \in ExitMoves!Sent'
<1>1. s11 # <<>> /\ Head(s11).of = of /\ s11' = Tail(s11)
  BY DEF ExitMoves!Take
<1>2. /\ s11' \in Seq(ExitSignals) /\ s11[1] = Head(s11) /\ 1 \in DOMAIN s11 /\ s11[1] \in ExitSignals
      /\ \A i \in DOMAIN s11' : i + 1 \in DOMAIN s11 /\ s11'[i] = s11[i + 1]
      /\ \A i \in DOMAIN s11 : i = 1 \/ (i - 1 \in DOMAIN s11' /\ s11'[i - 1] = s11[i])
  BY <1>1, Indices
<1> QED
  BY <1>1, <1>2 DEF ExitMoves!Sent

\* The types of the variables other than the threads and the signals.
ExitPlain ==
  /\ s1 \in {"off", "connecting", "on"} /\ s2 \in [proxy : BOOLEAN, tun : BOOLEAN]
  /\ s3 \in BOOLEAN /\ s4 \in 0..ExitsMaxRun /\ s5 \in BOOLEAN /\ s6 \in BOOLEAN
  /\ s7 \in Nat /\ s8 \in ExitsWorkers \union {0, 100} /\ s12 \in BOOLEAN
  /\ s9 \in [pc : {"idle", "apply", "enabled", "probed", "proxied", "done", "fail"}, run : 0..ExitsMaxRun]
  /\ s13 \in [moves : 0..ExitsMoves, faults : 0..ExitsFaults, told : BOOLEAN]
ExitTypes == ExitPlain /\ s10 \in [ExitsWorkers -> ExitWork] /\ s11 \in Seq(ExitSignals)

\* They are the type invariant of ExitModes.
LEMMA ExitsTyped == (ExitMoves!TypeOK <=> ExitTypes) /\ (ExitMoves!TypeOK' <=> ExitTypes')
BY DEF ExitMoves!TypeOK, ExitTypes, ExitPlain, ExitSignals, ExitWork, ExitMoves!Free, ExitMoves!Connecting

\* A failure is counted, and nothing else of the record changes.
LEMMA ExitsFails ==
  ASSUME ExitPlain
  PROVE  /\ ExitMoves!Fails => s13' \in [moves : 0..ExitsMoves, faults : 0..ExitsFaults, told : BOOLEAN]
                               /\ s13'.told = s13.told
         /\ ExitMoves!ResumeFails => s13' \in [moves : 0..ExitsMoves, faults : 0..ExitsFaults, told : BOOLEAN]
                                     /\ s13'.told
<1>1. s13 \in [moves : 0..ExitsMoves, faults : 0..ExitsFaults, told : BOOLEAN]
  BY DEF ExitPlain
<1>2. s13.faults > 0 => s13.faults - 1 \in 0..ExitsFaults
  BY <1>1, ExitsAssumption
<1>3. ASSUME ExitMoves!Fails
      PROVE  s13' \in [moves : 0..ExitsMoves, faults : 0..ExitsFaults, told : BOOLEAN] /\ s13'.told = s13.told
  <2>1. PICK f \in 0..ExitsFaults : s13' = [s13 EXCEPT !.faults = f]
    BY <1>2, <1>3 DEF ExitMoves!Fails
  <2> QED
    BY <1>1, <2>1
<1>4. ASSUME ExitMoves!ResumeFails
      PROVE  s13' \in [moves : 0..ExitsMoves, faults : 0..ExitsFaults, told : BOOLEAN] /\ s13'.told
  <2>1. PICK f \in 0..ExitsFaults : s13' = [s13 EXCEPT !.faults = f, !.told = TRUE]
    BY <1>2, <1>4 DEF ExitMoves!ResumeFails
  <2> QED
    BY <1>1, <2>1
<1> QED
  BY <1>3, <1>4

\* An engine that stops gets a new run.
LEMMA ExitsStops ==
  ASSUME ExitPlain, ExitMoves!EngineStop
  PROVE  s4' \in 0..ExitsMaxRun /\ s3' = FALSE /\ s5' = FALSE /\ s6' = FALSE
BY ExitsAssumption DEF ExitPlain, ExitMoves!EngineStop

\* A thread of a move that changes stays one, and the others stay as they are.
LEMMA ExitsThread ==
  ASSUME s10 \in [ExitsWorkers -> ExitWork], NEW w \in ExitsWorkers, NEW r \in ExitWork,
         s10' = [s10 EXCEPT ![w] = r]
  PROVE  /\ s10' \in [ExitsWorkers -> ExitWork] /\ s10'[w] = r
         /\ \A v \in ExitsWorkers : v # w => s10'[v] = s10[v]
OBVIOUS

\* A thread that goes on keeps its move, its generation and its run.
LEMMA ExitsThen ==
  ASSUME s10 \in [ExitsWorkers -> ExitWork], NEW w \in ExitsWorkers, NEW pc \in ExitMoves!Steps,
         NEW value \in BOOLEAN, ExitMoves!Then(w, pc, value)
  PROVE  /\ s10' \in [ExitsWorkers -> ExitWork] /\ s10'[w].pc = pc /\ s10'[w].value = value
         /\ s10'[w].tun = s10[w].tun /\ s10'[w].gen = s10[w].gen /\ s10'[w].run = s10[w].run
         /\ \A v \in ExitsWorkers : v # w => s10'[v] = s10[v]
<1>1. PICK r \in ExitWork : /\ r = [s10[w] EXCEPT !.pc = pc, !.value = value]
                            /\ r.pc = pc /\ r.value = value /\ r.tun = s10[w].tun
                            /\ r.gen = s10[w].gen /\ r.run = s10[w].run
  <2>1. s10[w] \in ExitWork
    OBVIOUS
  <2>2. [s10[w] EXCEPT !.pc = pc, !.value = value] \in ExitWork
    BY <2>1 DEF ExitWork
  <2>3. \A r : r = [s10[w] EXCEPT !.pc = pc, !.value = value] =>
          /\ r.pc = pc /\ r.value = value /\ r.tun = s10[w].tun /\ r.gen = s10[w].gen /\ r.run = s10[w].run
    BY <2>1 DEF ExitWork
  <2> QED
    BY <2>2, <2>3
<1>2. s10' = [s10 EXCEPT ![w] = r]
  BY <1>1 DEF ExitMoves!Then
<1> QED
  BY <1>1, <1>2, ExitsThread

\* A move starts a thread, with a generation of its own.
LEMMA ExitsBegins ==
  ASSUME ExitTypes, NEW isTun \in BOOLEAN, ExitMoves!Begin(isTun)
  PROVE  /\ s7' = s7 + 1 /\ s7' \in Nat /\ s10' \in [ExitsWorkers -> ExitWork]
         /\ \E w \in ExitsWorkers : /\ s10[w].pc = "idle" /\ s10'[w].pc = "start" /\ s10'[w].tun = isTun
                                    /\ s10'[w].gen = s7 + 1 /\ s10'[w].run = s4
                                    /\ \A v \in ExitsWorkers : v # w => s10'[v] = s10[v]
<1>1. PICK w \in ExitsWorkers : /\ s10[w].pc = "idle" /\ s7' = s7 + 1
         /\ s10' = [s10 EXCEPT ![w] = [pc |-> "start", tun |-> isTun, value |-> FALSE, gen |-> s7 + 1, run |-> s4]]
  BY DEF ExitMoves!Begin
<1>2. PICK r \in ExitWork : /\ r = [pc |-> "start", tun |-> isTun, value |-> FALSE, gen |-> s7 + 1, run |-> s4]
                            /\ r.pc = "start" /\ r.tun = isTun /\ r.gen = s7 + 1 /\ r.run = s4
  <2>1. s7 + 1 \in Nat /\ s4 \in 0..ExitsMaxRun /\ "start" \in ExitMoves!Steps
    BY DEF ExitTypes, ExitPlain, ExitMoves!Steps
  <2>2. [pc |-> "start", tun |-> isTun, value |-> FALSE, gen |-> s7 + 1, run |-> s4] \in ExitWork
    BY <2>1 DEF ExitWork
  <2> QED
    BY <2>2
<1>3. s10' \in [ExitsWorkers -> ExitWork] /\ s10'[w] = r /\ \A v \in ExitsWorkers : v # w => s10'[v] = s10[v]
  BY <1>1, <1>2, ExitsThread DEF ExitTypes
<1> QED
  BY <1>1, <1>2, <1>3 DEF ExitTypes, ExitPlain

\* The connect thread at its next step.
LEMMA ExitsTo ==
  ASSUME ExitPlain, NEW pc \in {"idle", "apply", "enabled", "probed", "proxied", "done", "fail"},
         ExitMoves!To(pc)
  PROVE  /\ s9' \in [pc : {"idle", "apply", "enabled", "probed", "proxied", "done", "fail"}, run : 0..ExitsMaxRun]
         /\ s9'.pc = pc /\ s9'.run = s9.run
BY DEF ExitPlain, ExitMoves!To

\* What a step of the connect thread leaves alone, and what it may do.
LEMMA ExitsConn ==
  ASSUME ExitTypes,
         ExitMoves!ConnTun \/ ExitMoves!ConnProbe \/ ExitMoves!ConnChangedMind
           \/ ExitMoves!ConnSuspends \/ ExitMoves!ConnProxy \/ ExitMoves!ConnProxied
  PROVE  /\ ExitTypes' /\ UNCHANGED <<s1, s2, s3, s4, s7, s8, s10, s11, s12>>
         /\ s9.pc \notin {"idle", "done", "fail"} /\ s9'.pc # "idle" /\ s9'.run = s9.run
         /\ (s9'.pc = "proxied" => ~s5') /\ (s9'.pc = "done" => ~(s5' /\ s6') \/ (s9.pc = "proxied" /\ s5' = s5))
<1> USE DEF ExitMoves!Rest, ExitMoves!At, ExitMoves!engine
<1> DEFINE ConnType == [pc : {"idle", "apply", "enabled", "probed", "proxied", "done", "fail"}, run : 0..ExitsMaxRun]
           LeftType == [moves : 0..ExitsMoves, faults : 0..ExitsFaults, told : BOOLEAN]
<1>0. ExitPlain /\ s13 \in LeftType /\ s2 \in [proxy : BOOLEAN, tun : BOOLEAN]
  BY DEF ExitTypes, ExitPlain
<1>1. UNCHANGED <<s1, s2, s3, s4, s7, s8, s10, s11, s12>> /\ s9.pc \notin {"idle", "done", "fail"}
  BY DEF ExitMoves!ConnTun, ExitMoves!ConnProbe, ExitMoves!ConnChangedMind, ExitMoves!ConnSuspends,
         ExitMoves!ConnProxy, ExitMoves!ConnProxied, ExitMoves!StartTun, ExitMoves!SuspendProxy, ExitMoves!SetProxy
<1>2. /\ s9' \in ConnType /\ s9'.pc # "idle" /\ s9'.run = s9.run
      /\ s5' \in BOOLEAN /\ s6' \in BOOLEAN /\ s13' \in LeftType
      /\ (s9'.pc = "proxied" => ~s5') /\ (s9'.pc = "done" => ~(s5' /\ s6') \/ (s9.pc = "proxied" /\ s5' = s5))
  <2>1. CASE ExitMoves!ConnTun
    <3>1. PICK pc \in {"enabled", "fail"} : /\ ExitMoves!To(pc) /\ (s13' = s13 \/ ExitMoves!Fails)
                                            /\ (s5' = TRUE \/ s5' = s5) /\ s6' = s6
      BY <2>1 DEF ExitMoves!ConnTun, ExitMoves!StartTun
    <3>2. s9' \in ConnType /\ s9'.pc = pc /\ s9'.run = s9.run
      BY <1>0, <3>1, ExitsTo
    <3>3. s13' \in LeftType
      BY <1>0, <3>1, ExitsFails
    <3> QED
      BY <1>0, <3>1, <3>2, <3>3 DEF ExitPlain
  <2>2. CASE ExitMoves!ConnProbe
    <3>1. PICK pc \in {"probed", "fail"} : /\ ExitMoves!To(pc) /\ (s13' = s13 \/ ExitMoves!Fails)
                                           /\ s5' = s5 /\ s6' = s6
      BY <2>2 DEF ExitMoves!ConnProbe
    <3>2. s9' \in ConnType /\ s9'.pc = pc /\ s9'.run = s9.run
      BY <1>0, <3>1, ExitsTo
    <3>3. s13' \in LeftType
      BY <1>0, <3>1, ExitsFails
    <3> QED
      BY <1>0, <3>1, <3>2, <3>3 DEF ExitPlain
  <2>3. CASE ExitMoves!ConnChangedMind
    <3>1. ExitMoves!To("apply") /\ s13' = s13 /\ s5' = FALSE /\ s6' = (s6 \/ (s2.proxy /\ s3))
      BY <2>3 DEF ExitMoves!ConnChangedMind
    <3>2. s9' \in ConnType /\ s9'.pc = "apply" /\ s9'.run = s9.run
      BY <1>0, <3>1, ExitsTo
    <3>3. s6' \in BOOLEAN
      BY <3>1
    <3> QED
      BY <1>0, <3>1, <3>2, <3>3
  <2>4. CASE ExitMoves!ConnSuspends
    <3>1. PICK pc \in {"done", "fail"} : /\ ExitMoves!To(pc) /\ s13' = s13 /\ s5' = s5
                                         /\ (s6' = FALSE \/ (s6' = s6 /\ pc = "fail"))
      BY <2>4 DEF ExitMoves!ConnSuspends, ExitMoves!SuspendProxy
    <3>2. s9' \in ConnType /\ s9'.pc = pc /\ s9'.run = s9.run
      BY <1>0, <3>1, ExitsTo
    <3> QED
      BY <1>0, <3>1, <3>2 DEF ExitPlain
  <2>5. CASE ExitMoves!ConnProxy
    <3>1. PICK pc \in {"proxied", "fail"} :
            /\ ExitMoves!To(pc) /\ (s13' = s13 \/ ExitMoves!ResumeFails)
            /\ \/ s5' = FALSE /\ s6' = (s6 \/ (s2.proxy /\ s3))
               \/ s5' = s5 /\ s6' = s6 /\ pc = "fail"
      <4>1. \/ /\ s5' = FALSE /\ s6' = (s6 \/ (s2.proxy /\ s3)) /\ s13' = s13
               /\ ExitMoves!To("proxied") \/ ExitMoves!To("fail")
            \/ ExitMoves!ResumeFails /\ ExitMoves!To("fail") /\ s5' = s5 /\ s6' = s6
        BY <2>5 DEF ExitMoves!ConnProxy
      <4> QED
        BY <4>1
    <3>2. s9' \in ConnType /\ s9'.pc = pc /\ s9'.run = s9.run
      BY <1>0, <3>1, ExitsTo
    <3>3. s13' \in LeftType
      BY <1>0, <3>1, ExitsFails
    <3>4. s6' \in BOOLEAN
      BY <1>0, <3>1 DEF ExitPlain
    <3> QED
      BY <1>0, <3>1, <3>2, <3>3, <3>4 DEF ExitPlain
  <2>6. CASE ExitMoves!ConnProxied
    <3>1. PICK pc \in {"apply", "done"} : /\ ExitMoves!To(pc) /\ s13' = s13 /\ s5' = s5 /\ s9.pc = "proxied"
                                          /\ s6' = (s6 /\ s2.proxy)
      <4>1. /\ s6' = (s6 /\ s2.proxy) /\ s5' = s5 /\ s13' = s13 /\ s9.pc = "proxied"
            /\ ExitMoves!To("apply") \/ ExitMoves!To("done")
        BY <2>6 DEF ExitMoves!ConnProxied, ExitMoves!SetProxy
      <4> QED
        BY <4>1
    <3>2. s9' \in ConnType /\ s9'.pc = pc /\ s9'.run = s9.run
      BY <1>0, <3>1, ExitsTo
    <3>3. s6' \in BOOLEAN
      BY <3>1
    <3> QED
      BY <1>0, <3>1, <3>2, <3>3 DEF ExitPlain
  <2> QED
    BY <2>1, <2>2, <2>3, <2>4, <2>5, <2>6
<1>3. ExitTypes'
  BY <1>1, <1>2 DEF ExitTypes, ExitPlain
<1> QED
  BY <1>1, <1>2, <1>3

\* The invariant with the types of this module.
LEMMA ExitsInv ==
  /\ ExitMoves!ExitInv <=> ExitTypes /\ ExitMoves!Gens /\ ExitMoves!Locked /\ ExitMoves!Failures /\ ExitMoves!Owed
  /\ ExitMoves!ExitInv' <=> ExitTypes' /\ ExitMoves!Gens' /\ ExitMoves!Locked' /\ ExitMoves!Failures' /\ ExitMoves!Owed'
BY ExitsTyped DEF ExitMoves!ExitInv

\* Before the first connect nothing is missing.
LEMMA ExitsInit == ExitMoves!Init => ExitMoves!ExitInv
<1> SUFFICES ASSUME ExitMoves!Init PROVE ExitMoves!ExitInv
  OBVIOUS
<1>1. ExitTypes
  <2>1. 0 \in 0..ExitsMaxRun /\ ExitsMoves \in 0..ExitsMoves /\ ExitsFaults \in 0..ExitsFaults
    BY ExitsAssumption
  <2>2. s13 \in [moves : 0..ExitsMoves, faults : 0..ExitsFaults, told : BOOLEAN]
    BY <2>1 DEF ExitMoves!Init
  <2>3. ExitPlain
    BY <2>1, <2>2 DEF ExitMoves!Init, ExitPlain, ExitMoves!Free
  <2>4. ExitMoves!Asleep \in ExitWork
    BY <2>1 DEF ExitMoves!Asleep, ExitWork, ExitMoves!Steps
  <2>5. s10 \in [ExitsWorkers -> ExitWork]
    BY <2>4 DEF ExitMoves!Init
  <2>6. s11 \in Seq(ExitSignals)
    <3>1. s11 = <<>> /\ <<>> \in Seq(ExitSignals)
      BY DEF ExitMoves!Init
    <3> QED
      BY <3>1
  <2> QED
    BY <2>3, <2>5, <2>6 DEF ExitTypes
<1>2. (\A w \in ExitsWorkers : s10[w].pc = "idle") /\ s3 = FALSE /\ s9.pc = "idle" /\ s1 = "off"
  BY DEF ExitMoves!Init, ExitMoves!Asleep
<1>3. ExitMoves!Sent = {}
  BY DEF ExitMoves!Init, ExitMoves!Sent
<1>4. ExitMoves!Gens
  BY <1>2, <1>3 DEF ExitMoves!Gens
<1>5. ExitMoves!Locked /\ ExitMoves!Failures /\ ExitMoves!Owed
  BY <1>2, <1>3 DEF ExitMoves!Locked, ExitMoves!Failures, ExitMoves!Owed, ExitMoves!Acting, ExitMoves!Current, ExitMoves!Steady
<1> QED
  BY <1>1, <1>4, <1>5, ExitsInv

\* A step of the connect thread: the threads of the moves wait.
LEMMA ExitsConnStep ==
  ASSUME ExitMoves!ExitInv,
         ExitMoves!ConnTun \/ ExitMoves!ConnProbe \/ ExitMoves!ConnChangedMind
           \/ ExitMoves!ConnSuspends \/ ExitMoves!ConnProxy \/ ExitMoves!ConnProxied
  PROVE  ExitMoves!ExitInv'
<1>1. ExitTypes /\ ExitMoves!Gens /\ ExitMoves!Locked /\ ExitMoves!Failures /\ ExitMoves!Owed
  BY ExitsInv
<1>2. /\ ExitTypes' /\ UNCHANGED <<s1, s2, s3, s4, s7, s8, s10, s11, s12>>
      /\ s9.pc \notin {"idle", "done", "fail"} /\ s9'.pc # "idle" /\ s9'.run = s9.run
      /\ (s9'.pc = "proxied" => ~s5') /\ (s9'.pc = "done" => ~(s5' /\ s6') \/ (s9.pc = "proxied" /\ s5' = s5))
  BY <1>1, ExitsConn
<1>3. ExitMoves!Sent' = ExitMoves!Sent /\ (\A w : ExitMoves!Acting(w)' <=> ExitMoves!Acting(w))
      /\ (\A s : ExitMoves!Fresh(s)' <=> ExitMoves!Fresh(s))
  BY <1>2 DEF ExitMoves!Sent, ExitMoves!Acting, ExitMoves!Current, ExitMoves!Fresh
<1>4. ExitMoves!Gens'
  BY <1>1, <1>2, <1>3 DEF ExitMoves!Gens
<1>5. /\ \A w \in ExitsWorkers : ExitMoves!Acting(w) => s10[w].pc = "start"
      /\ \A s \in ExitMoves!Sent : ~ExitMoves!Fresh(s)
  BY <1>1, <1>2 DEF ExitMoves!Locked
<1>6. ExitMoves!Failures'
  BY <1>2, <1>3, <1>5 DEF ExitMoves!Failures
<1>7. ExitMoves!Owed'
  BY <1>1, <1>2, <1>3 DEF ExitMoves!Owed, ExitMoves!Steady, ExitMoves!StateSent
<1>8. s9'.pc = "done" => ~(s5' /\ s6')
  BY <1>1, <1>2 DEF ExitMoves!Locked
<1>9. ExitMoves!Locked'
  BY <1>1, <1>2, <1>3, <1>5, <1>8 DEF ExitMoves!Locked, ExitMoves!Alone
<1> QED
  BY <1>2, <1>4, <1>6, <1>7, <1>9, ExitsInv

\* With the engine stopped nothing is owed any more, but the page has to hear of it.
LEMMA ExitsStopped ==
  ASSUME ExitMoves!ExitInv, ExitTypes', s3' = FALSE, s5' = s5 \/ s5' = FALSE, s6' = s6 \/ s6' = FALSE,
         s10' = s10, s7' = s7 \/ s7' = s7 + 1,
         s1' = "off" \/ (s1' = s1 /\ (s1 = "on" => s12' \/ ExitMoves!StateSent')),
         ExitMoves!Sent' = ExitMoves!Sent \/ \E m : m.of = "state" /\ ExitMoves!Sent' = ExitMoves!Sent \union {m},
         (s8' = s8 /\ s9' = s9) \/ (s8' = 0 /\ s8 = 100 /\ s9'.pc = "idle")
  PROVE  ExitMoves!ExitInv'
<1>1. ExitTypes /\ ExitMoves!Gens /\ ExitMoves!Locked /\ ExitMoves!Failures /\ ExitMoves!Owed
  BY ExitsInv
<1>2. (\A w : ~ExitMoves!Acting(w)') /\ (\A s : ~ExitMoves!Fresh(s)')
  BY DEF ExitMoves!Acting, ExitMoves!Current, ExitMoves!Fresh
<1>3. s7 \in Nat /\ \A g : g \in 1..s7 => g \in 1..s7'
  BY <1>1 DEF ExitTypes, ExitPlain
<1>4. ExitMoves!Gens'
  BY <1>1, <1>3 DEF ExitMoves!Gens
<1>5. ExitMoves!Failures'
  BY <1>2 DEF ExitMoves!Failures
<1>6. ExitMoves!Owed'
  BY DEF ExitMoves!Owed, ExitMoves!Steady
<1>7. \A w \in ExitsWorkers : s10'[w].pc = "drop" => s8' = w
  BY <1>1, ExitsAssumption DEF ExitMoves!Locked
<1>8. ExitMoves!Locked'
  BY <1>1, <1>2, <1>7 DEF ExitMoves!Locked, ExitMoves!Alone
<1> QED
  BY <1>4, <1>5, <1>6, <1>8, ExitsInv

\* A thread that acts is the only one, and no signal of its move is on its way.
LEMMA ExitsOnly ==
  ASSUME ExitMoves!Gens, ExitMoves!Locked, NEW w \in ExitsWorkers, ExitMoves!Acting(w)
  PROVE  /\ \A v \in ExitsWorkers : ExitMoves!Acting(v) => v = w
         /\ \A s \in ExitMoves!Sent : ~ExitMoves!Fresh(s)
         /\ s1 # "connecting"
BY DEF ExitMoves!Gens, ExitMoves!Locked, ExitMoves!Alone, ExitMoves!Acting, ExitMoves!Current, ExitMoves!Fresh

\* A step of the thread of the latest move: what it has to leave in order.
LEMMA ExitsActs ==
  ASSUME ExitMoves!ExitInv, NEW w \in ExitsWorkers, ExitMoves!Acting(w), s9.pc = "idle",
         NEW pc \in ExitMoves!Steps \ {"idle"}, NEW value \in BOOLEAN, ExitMoves!Then(w, pc, value),
         UNCHANGED <<s1, s2, s3, s4, s7, s9, s11, s12>>, s5' \in BOOLEAN, s6' \in BOOLEAN,
         s13' \in [moves : 0..ExitsMoves, faults : 0..ExitsFaults, told : BOOLEAN], s13.told => s13'.told,
         pc \in {"probe", "suspend", "undo", "drop"} => s10[w].tun,
         \/ s8' = s8 /\ pc # "drop"
         \/ s8 = 0 /\ s8' = w
         \/ s8 = w /\ s8' = 0 /\ pc # "drop",
         pc = "bad" => IF ~s10[w].tun THEN value /\ s13'.told
                       ELSE IF value THEN s2.proxy => s6' ELSE s13'.told /\ ~s6',
         s2.tun /\ s5' /\ s6' => s10[w].tun /\ pc \in {"probe", "suspend", "undo"},
         s1 = "on" /\ ~s12 /\ ~ExitMoves!StateSent /\ s2.tun /\ ~s5' =>
           s10[w].tun /\ (pc \in {"probe", "suspend", "undo"} \/ (pc = "bad" /\ value)),
         s1 = "on" /\ ~ExitMoves!StateSent /\ ~s2.tun /\ s2.proxy /\ ~s6' => s13'.told
  PROVE  ExitMoves!ExitInv'
<1>1. ExitTypes /\ ExitMoves!Gens /\ ExitMoves!Locked /\ ExitMoves!Failures /\ ExitMoves!Owed
  BY ExitsInv
<1>2. /\ s10' \in [ExitsWorkers -> ExitWork] /\ s10'[w].pc = pc /\ s10'[w].value = value
      /\ s10'[w].tun = s10[w].tun /\ s10'[w].gen = s10[w].gen /\ s10'[w].run = s10[w].run
      /\ \A v \in ExitsWorkers : v # w => s10'[v] = s10[v]
  BY <1>1, ExitsThen DEF ExitTypes
<1>3. /\ \A v \in ExitsWorkers : ExitMoves!Acting(v) => v = w
      /\ \A s \in ExitMoves!Sent : ~ExitMoves!Fresh(s)
      /\ s1 # "connecting" /\ s10[w].pc # "idle" /\ s3
  BY <1>1, ExitsOnly DEF ExitMoves!Acting, ExitMoves!Current
<1>4. /\ ExitMoves!Sent' = ExitMoves!Sent /\ (\A s : ExitMoves!Fresh(s)' <=> ExitMoves!Fresh(s))
      /\ (ExitMoves!StateSent' <=> ExitMoves!StateSent)
  BY DEF ExitMoves!Sent, ExitMoves!Fresh, ExitMoves!StateSent
<1>5. \A v \in ExitsWorkers : ExitMoves!Acting(v)' <=> v = w
  BY <1>2, <1>3 DEF ExitMoves!Acting, ExitMoves!Current
<1>6. ExitTypes'
  BY <1>1, <1>2 DEF ExitTypes, ExitPlain
<1>7. ExitMoves!Gens'
  BY <1>1, <1>2, <1>3, <1>4 DEF ExitMoves!Gens
<1>8. \A v \in ExitsWorkers : s10'[v].pc = "drop" => s8' = v
  <2>1. \A v \in ExitsWorkers : s10[v].pc = "drop" => s8 = v
    BY <1>1 DEF ExitMoves!Locked
  <2> QED
    BY <1>2, <2>1, ExitsAssumption
<1>9. ExitMoves!Locked'
  BY <1>3, <1>8 DEF ExitMoves!Locked
<1>10. ExitMoves!Failures'
  BY <1>2, <1>3, <1>4, <1>5 DEF ExitMoves!Failures, ExitMoves!Settles
<1>11. ExitMoves!Owed'
  <2>1. s10[w].tun /\ pc \in {"probe", "suspend", "undo"} => ExitMoves!Underway(w)'
    BY <1>2, <1>5 DEF ExitMoves!Underway
  <2> QED
    BY <1>2, <1>3, <1>4, <1>5, <2>1 DEF ExitMoves!Owed, ExitMoves!Steady
<1> QED
  BY <1>6, <1>7, <1>9, <1>10, <1>11, ExitsInv

\* A thread leaves: nothing is owed by it.
LEMMA ExitsLeaves ==
  ASSUME ExitMoves!ExitInv, NEW w \in ExitsWorkers, s10' = [s10 EXCEPT ![w] = ExitMoves!Asleep],
         UNCHANGED <<s1, s2, s3, s4, s5, s6, s7, s9, s11, s12, s13>>,
         (s8' = s8 /\ s10[w].pc # "drop") \/ (s8 = w /\ s8' = 0),
         ExitMoves!Acting(w) => /\ s10[w].pc \notin {"start", "bad"}
                                /\ s10[w].pc \in {"probe", "suspend", "undo"} => ~s2.tun
  PROVE  ExitMoves!ExitInv'
<1>1. ExitTypes /\ ExitMoves!Gens /\ ExitMoves!Locked /\ ExitMoves!Failures /\ ExitMoves!Owed
  BY ExitsInv
<1>2. ExitMoves!Asleep \in ExitWork /\ ExitMoves!Asleep.pc = "idle"
  BY ExitsAssumption DEF ExitMoves!Asleep, ExitWork, ExitMoves!Steps
<1>3. /\ s10' \in [ExitsWorkers -> ExitWork] /\ s10'[w].pc = "idle"
      /\ \A v \in ExitsWorkers : v # w => s10'[v] = s10[v]
  BY <1>1, <1>2, ExitsThread DEF ExitTypes
<1>4. /\ ExitMoves!Sent' = ExitMoves!Sent /\ (\A s : ExitMoves!Fresh(s)' <=> ExitMoves!Fresh(s))
      /\ (ExitMoves!StateSent' <=> ExitMoves!StateSent)
  BY DEF ExitMoves!Sent, ExitMoves!Fresh, ExitMoves!StateSent
<1>5. \A v \in ExitsWorkers : ExitMoves!Acting(v)' <=> v # w /\ ExitMoves!Acting(v)
  BY <1>3 DEF ExitMoves!Acting, ExitMoves!Current
<1>6. ExitTypes'
  BY <1>1, <1>3, ExitsAssumption DEF ExitTypes, ExitPlain
<1>7. ExitMoves!Gens'
  BY <1>1, <1>3, <1>4 DEF ExitMoves!Gens
<1>8. \A v \in ExitsWorkers : s10'[v].pc = "drop" => s8' = v
  <2>1. \A v \in ExitsWorkers : s10[v].pc = "drop" => s8 = v
    BY <1>1 DEF ExitMoves!Locked
  <2> QED
    BY <1>3, <2>1
<1>9. ExitMoves!Locked'
  <2>1. s9.pc # "idle" => s8' = s8
    BY <1>1, ExitsAssumption DEF ExitMoves!Locked, ExitMoves!Connecting
  <2> QED
    BY <1>1, <1>3, <1>4, <1>5, <1>8, <2>1 DEF ExitMoves!Locked, ExitMoves!Alone
<1>10. ExitMoves!Failures'
  BY <1>1, <1>3, <1>4, <1>5 DEF ExitMoves!Failures, ExitMoves!Settles
<1>11. ExitMoves!Owed'
  <2>1. \A v \in ExitsWorkers : s2.tun /\ ExitMoves!Underway(v) => v # w /\ ExitMoves!Underway(v)'
    BY <1>3, <1>5 DEF ExitMoves!Underway
  <2>2. \A v \in ExitsWorkers : ExitMoves!Acting(v) /\ s10[v].pc \in {"start", "bad"} => v # w
    OBVIOUS
  <2>3. /\ s1 = "on" /\ ~s3 => s12 \/ ExitMoves!StateSent
        /\ ExitMoves!Steady /\ s2.tun /\ s5 /\ s6 => \E v \in ExitsWorkers : ExitMoves!Underway(v)'
    BY <1>1, <2>1 DEF ExitMoves!Owed
  <2>4. ExitMoves!Steady /\ s1 = "on" /\ ~s12 /\ ~ExitMoves!StateSent /\ s2.tun /\ ~s5 =>
          \/ \E v \in ExitsWorkers : ExitMoves!Underway(v)'
          \/ \E v \in ExitsWorkers : ExitMoves!Acting(v)' /\ s10'[v].tun /\ s10'[v].pc = "bad" /\ s10'[v].value
          \/ \E s \in ExitMoves!Sent' : ExitMoves!Fresh(s)' /\ s.of = "tun" /\ ~s.ok /\ s.value
    BY <1>1, <1>3, <1>4, <1>5, <2>1, <2>2 DEF ExitMoves!Owed
  <2>5. ExitMoves!Steady /\ s1 = "on" /\ ~ExitMoves!StateSent /\ ~s2.tun /\ s2.proxy /\ ~s6 /\ ~s13.told =>
          \E v \in ExitsWorkers : ExitMoves!Acting(v)' /\ s10'[v].pc = "start"
    BY <1>1, <1>3, <1>5, <2>2 DEF ExitMoves!Owed
  <2>6. ExitMoves!Steady' = ExitMoves!Steady
    BY DEF ExitMoves!Steady
  <2> QED
    BY <1>4, <2>3, <2>4, <2>5, <2>6 DEF ExitMoves!Owed
<1> QED
  BY <1>6, <1>7, <1>9, <1>10, <1>11, ExitsInv

\* A move begins: its thread owes whatever is missing.
LEMMA ExitsMoved ==
  ASSUME ExitMoves!ExitInv, NEW isTun \in BOOLEAN, ExitMoves!Begin(isTun), s3,
         UNCHANGED <<s3, s4, s5, s6, s8, s9, s12>>, s1' \in {"off", "on"},
         s2' \in [proxy : BOOLEAN, tun : BOOLEAN], s2'.tun => isTun,
         s13' \in [moves : 0..ExitsMoves, faults : 0..ExitsFaults, told : BOOLEAN],
         s11' \in Seq(ExitSignals), ExitMoves!Sent' \subseteq ExitMoves!Sent
  PROVE  ExitMoves!ExitInv'
<1>1. ExitTypes /\ ExitMoves!Gens /\ ExitMoves!Locked /\ ExitMoves!Failures /\ ExitMoves!Owed
  BY ExitsInv
<1>2. s7' = s7 + 1 /\ s7' \in Nat /\ s7 \in Nat /\ s10' \in [ExitsWorkers -> ExitWork]
  BY <1>1, ExitsBegins DEF ExitTypes, ExitPlain
<1>3. PICK w \in ExitsWorkers : /\ s10[w].pc = "idle" /\ s10'[w].pc = "start" /\ s10'[w].tun = isTun
                                /\ s10'[w].gen = s7 + 1 /\ s10'[w].run = s4
                                /\ \A v \in ExitsWorkers : v # w => s10'[v] = s10[v]
  BY <1>1, ExitsBegins
<1>4. /\ \A v \in ExitsWorkers : s10[v].pc # "idle" => s10[v].gen # s7 + 1
      /\ \A s \in ExitMoves!Sent : s.of # "state" => s.gen # s7 + 1
  BY <1>1, <1>2 DEF ExitMoves!Gens
<1>5. (\A v \in ExitsWorkers : ExitMoves!Acting(v)' <=> v = w) /\ (\A s \in ExitMoves!Sent' : ~ExitMoves!Fresh(s)')
  BY <1>2, <1>3, <1>4 DEF ExitMoves!Acting, ExitMoves!Current, ExitMoves!Fresh
<1>6. ExitTypes'
  BY <1>1, <1>2 DEF ExitTypes, ExitPlain
<1>7. ExitMoves!Gens'
  <2>1. \A g : g \in 1..s7 => g \in 1..s7'
    BY <1>2
  <2>2. s7 + 1 \in 1..s7'
    BY <1>2
  <2>3. \A v \in ExitsWorkers : s10'[v].pc # "idle" => s10'[v].gen \in 1..s7'
    BY <1>1, <1>3, <2>1, <2>2 DEF ExitMoves!Gens
  <2>4. ASSUME NEW u \in ExitsWorkers, NEW v \in ExitsWorkers, u # v,
               s10'[u].pc # "idle", s10'[v].pc # "idle"
        PROVE  s10'[u].gen # s10'[v].gen
    <3>1. CASE u = w
      BY <1>3, <1>4, <2>4, <3>1
    <3>2. CASE v = w
      BY <1>3, <1>4, <2>4, <3>2
    <3>3. CASE u # w /\ v # w
      BY <1>1, <1>3, <2>4, <3>3 DEF ExitMoves!Gens
    <3> QED
      BY <3>1, <3>2, <3>3
  <2>5. \A v \in ExitsWorkers : s10'[v].pc \in {"probe", "suspend", "undo", "drop"} => s10'[v].tun
    BY <1>1, <1>3 DEF ExitMoves!Gens
  <2>6. ASSUME NEW s \in ExitMoves!Sent', s.of # "state"
        PROVE  s.gen \in 1..s7' /\ \A v \in ExitsWorkers : s10'[v].pc # "idle" => s10'[v].gen # s.gen
    <3>1. s \in ExitMoves!Sent
      OBVIOUS
    <3>2. s.gen \in 1..s7 /\ \A v \in ExitsWorkers : s10[v].pc # "idle" => s10[v].gen # s.gen
      BY <1>1, <2>6, <3>1 DEF ExitMoves!Gens
    <3>3. s.gen # s7 + 1
      BY <1>4, <2>6, <3>1
    <3> QED
      BY <1>3, <2>1, <3>2, <3>3
  <2> QED
    BY <2>3, <2>4, <2>5, <2>6 DEF ExitMoves!Gens
<1>8. ExitMoves!Locked'
  BY <1>1, <1>3, <1>5 DEF ExitMoves!Locked
<1>9. ExitMoves!Failures'
  BY <1>3, <1>5 DEF ExitMoves!Failures
<1>10. ExitMoves!Owed'
  BY <1>3, <1>5 DEF ExitMoves!Owed, ExitMoves!Underway
<1> QED
  BY <1>6, <1>7, <1>8, <1>9, <1>10, ExitsInv

\* A thread that acts outside its first step has the lock free of the connect thread.
LEMMA ExitsEnters ==
  ASSUME ExitMoves!Gens, ExitMoves!Locked, NEW w \in ExitsWorkers, ExitMoves!Current(w),
         s10[w].pc # "idle", s8 = 0 \/ s10[w].pc # "start"
  PROVE  ExitMoves!Acting(w) /\ s9.pc = "idle"
<1>1. ExitMoves!Acting(w)
  BY DEF ExitMoves!Acting
<1>2. s9.pc # "idle" => s8 = 100 /\ s10[w].pc = "start"
  BY <1>1 DEF ExitMoves!Locked, ExitMoves!Connecting
<1> QED
  BY <1>1, <1>2

\* The steps of the threads of the moves.
LEMMA ExitsMoveStep ==
  ASSUME ExitMoves!ExitInv, NEW w \in ExitsWorkers,
         ExitMoves!ProxyApplies(w) \/ ExitMoves!TunStarts(w) \/ ExitMoves!TunProbed(w)
           \/ ExitMoves!TunSuspends(w) \/ ExitMoves!TunUndone(w) \/ ExitMoves!TunEnds(w)
  PROVE  ExitMoves!ExitInv'
<1>1. ExitTypes /\ ExitMoves!Gens /\ ExitMoves!Locked /\ ExitMoves!Failures /\ ExitMoves!Owed
  BY ExitsInv
<1>2. /\ s2 \in [proxy : BOOLEAN, tun : BOOLEAN] /\ s5 \in BOOLEAN /\ s6 \in BOOLEAN
      /\ s13 \in [moves : 0..ExitsMoves, faults : 0..ExitsFaults, told : BOOLEAN]
      /\ s10[w].tun \in BOOLEAN /\ ExitPlain
  BY <1>1 DEF ExitTypes, ExitPlain, ExitWork
<1>3. UNCHANGED <<s1, s2, s3, s4, s7, s9, s11, s12>>
  BY DEF ExitMoves!ProxyApplies, ExitMoves!TunStarts, ExitMoves!TunProbed, ExitMoves!TunSuspends,
    ExitMoves!TunUndone, ExitMoves!TunEnds, ExitMoves!Quiet, ExitMoves!engine, ExitMoves!SetProxy,
    ExitMoves!StartTun, ExitMoves!SuspendProxy
<1>4. ExitMoves!Acting(w) /\ s9.pc = "idle"
  BY <1>1, ExitsEnters DEF ExitMoves!ProxyApplies, ExitMoves!TunStarts, ExitMoves!TunProbed,
    ExitMoves!TunSuspends, ExitMoves!TunUndone, ExitMoves!TunEnds, ExitMoves!Enter, ExitMoves!Free
<1>5. /\ \A v \in ExitsWorkers : ExitMoves!Acting(v) => v = w
      /\ \A s \in ExitMoves!Sent : ~ExitMoves!Fresh(s)
  BY <1>1, <1>4, ExitsOnly
<1>6. /\ {"good", "bad", "probe", "suspend", "undo", "drop"} \subseteq ExitMoves!Steps \ {"idle"}
      /\ ExitMoves!Steady
  BY <1>4 DEF ExitMoves!Steps, ExitMoves!Steady, ExitMoves!Acting, ExitMoves!Current
<1>7. CASE ExitMoves!ProxyApplies(w)
  <2>1. s10[w].pc = "start" /\ ~s10[w].tun /\ s8' = s8
    BY <1>7 DEF ExitMoves!ProxyApplies, ExitMoves!Enter
  <2>2. PICK on \in BOOLEAN : on = (s2.proxy /\ ~s2.tun)
    BY <1>2
  <2>3. ~(s1 = "on" /\ ~s12 /\ ~ExitMoves!StateSent /\ s2.tun /\ ~s5)
    BY <1>1, <1>5, <1>6, <2>1 DEF ExitMoves!Owed, ExitMoves!Underway
  <2>4. CASE ExitMoves!SetProxy(on) /\ ExitMoves!Then(w, "good", on) /\ s13' = s13
    <3>1. s6' = on /\ s5' = s5
      BY <2>4 DEF ExitMoves!SetProxy
    <3> QED
      BY <1>1, <1>2, <1>3, <1>4, <1>6, <2>1, <2>2, <2>3, <2>4, <3>1, ExitsActs
  <2>5. CASE on /\ ~s6 /\ ExitMoves!ResumeFails /\ ExitMoves!Then(w, "bad", on) /\ UNCHANGED ExitMoves!engine
    <3>1. s6' = s6 /\ s5' = s5
      BY <2>5 DEF ExitMoves!engine
    <3>2. s13' \in [moves : 0..ExitsMoves, faults : 0..ExitsFaults, told : BOOLEAN] /\ s13'.told
      BY <1>2, <2>5, ExitsFails
    <3> QED
      BY <1>1, <1>2, <1>3, <1>4, <1>6, <2>1, <2>2, <2>3, <2>5, <3>1, <3>2, ExitsActs
  <2> QED
    BY <1>7, <2>2, <2>4, <2>5 DEF ExitMoves!ProxyApplies
<1>8. CASE ExitMoves!TunStarts(w)
  <2>1. s10[w].pc = "start" /\ s10[w].tun /\ s8' = s8 /\ s2.tun
    BY <1>8 DEF ExitMoves!TunStarts, ExitMoves!Enter
  <2>2. CASE ExitMoves!StartTun /\ ExitMoves!Then(w, "probe", TRUE) /\ s13' = s13
    <3>1. s6' = s6 /\ s5' = TRUE
      BY <2>2 DEF ExitMoves!StartTun
    <3> QED
      BY <1>1, <1>2, <1>3, <1>4, <1>6, <2>1, <2>2, <3>1, ExitsActs
  <2>3. CASE ExitMoves!Fails /\ ExitMoves!Then(w, "undo", TRUE) /\ UNCHANGED ExitMoves!engine
    <3>1. s6' = s6 /\ s5' = s5
      BY <2>3 DEF ExitMoves!engine
    <3>2. s13' \in [moves : 0..ExitsMoves, faults : 0..ExitsFaults, told : BOOLEAN] /\ s13'.told = s13.told
      BY <1>2, <2>3, ExitsFails
    <3> QED
      BY <1>1, <1>2, <1>3, <1>4, <1>6, <2>1, <2>3, <3>1, <3>2, ExitsActs
  <2> QED
    BY <1>8, <2>2, <2>3 DEF ExitMoves!TunStarts
<1>9. CASE ExitMoves!TunProbed(w)
  <2>1. s10[w].pc = "probe" /\ s10[w].tun /\ s8' = s8 /\ s5' = s5 /\ s6' = s6
    BY <1>1, <1>9 DEF ExitMoves!TunProbed, ExitMoves!Gens, ExitMoves!engine
  <2>2. PICK pc \in {"suspend", "undo"} : ExitMoves!Then(w, pc, TRUE) /\ (s13' = s13 \/ ExitMoves!Fails)
    BY <1>9 DEF ExitMoves!TunProbed
  <2>3. /\ s13' \in [moves : 0..ExitsMoves, faults : 0..ExitsFaults, told : BOOLEAN]
        /\ s13'.told = s13.told
    BY <1>2, <2>2, ExitsFails
  <2>4. s1 = "on" /\ ~ExitMoves!StateSent /\ ~s2.tun /\ s2.proxy /\ ~s6 => s13.told
    BY <1>1, <1>5, <1>6, <2>1 DEF ExitMoves!Owed
  <2> QED
    BY <1>1, <1>2, <1>3, <1>4, <1>6, <2>1, <2>2, <2>3, <2>4, ExitsActs
<1>10. CASE ExitMoves!TunSuspends(w)
  <2>1. s10[w].pc = "suspend" /\ s10[w].tun /\ s8' = s8 /\ s2.tun /\ s5' = s5 /\ s13' = s13
    BY <1>1, <1>10 DEF ExitMoves!TunSuspends, ExitMoves!Enter, ExitMoves!Gens, ExitMoves!engine,
      ExitMoves!SuspendProxy
  <2>2. CASE s5
    <3>1. ExitMoves!Then(w, "good", TRUE) /\ s6' = FALSE
      BY <1>10, <2>2 DEF ExitMoves!TunSuspends, ExitMoves!SuspendProxy
    <3> QED
      BY <1>1, <1>2, <1>3, <1>4, <1>6, <2>1, <2>2, <3>1, ExitsActs
  <2>3. CASE ~s5
    <3>1. ExitMoves!Then(w, "undo", TRUE) /\ s6' = s6
      BY <1>10, <2>3 DEF ExitMoves!TunSuspends, ExitMoves!engine
    <3> QED
      BY <1>1, <1>2, <1>3, <1>4, <1>6, <2>1, <2>3, <3>1, ExitsActs
  <2> QED
    BY <2>2, <2>3
<1>11. CASE ExitMoves!TunUndone(w)
  <2>1. /\ s10[w].pc = "undo" /\ s10[w].tun /\ s8' = s8 /\ s2.tun /\ s5' = FALSE /\ s13' = s13
        /\ s6' = (s6 \/ s2.proxy) /\ ExitMoves!Then(w, "bad", TRUE)
    BY <1>1, <1>11 DEF ExitMoves!TunUndone, ExitMoves!Enter, ExitMoves!Gens
  <2>2. s6' \in BOOLEAN
    BY <1>2, <2>1
  <2> QED
    BY <1>1, <1>2, <1>3, <1>4, <1>6, <2>1, <2>2, ExitsActs
<1>12. CASE ExitMoves!TunEnds(w)
  <2>1. s10[w].pc = "start" /\ s10[w].tun /\ s8 = 0 /\ ~s2.tun
    BY <1>12 DEF ExitMoves!TunEnds, ExitMoves!Enter, ExitMoves!Free
  <2>2. CASE ExitMoves!SetProxy(s2.proxy) /\ ExitMoves!Then(w, "drop", FALSE) /\ s8' = w /\ s13' = s13
    <3>1. s6' = s2.proxy /\ s5' = s5
      BY <2>2 DEF ExitMoves!SetProxy
    <3>2. s6' \in BOOLEAN
      BY <1>2, <3>1
    <3> QED
      BY <1>1, <1>2, <1>3, <1>4, <1>6, <2>1, <2>2, <3>1, <3>2, ExitsActs
  <2>3. CASE /\ s2.proxy /\ ~s6 /\ ExitMoves!ResumeFails /\ ExitMoves!Then(w, "bad", FALSE)
             /\ UNCHANGED <<ExitMoves!engine, s8>>
    <3>1. s6' = s6 /\ s5' = s5 /\ s8' = s8
      BY <2>3 DEF ExitMoves!engine
    <3>2. s13' \in [moves : 0..ExitsMoves, faults : 0..ExitsFaults, told : BOOLEAN] /\ s13'.told
      BY <1>2, <2>3, ExitsFails
    <3> QED
      BY <1>1, <1>2, <1>3, <1>4, <1>6, <2>1, <2>3, <3>1, <3>2, ExitsActs
  <2> QED
    BY <1>12, <2>2, <2>3 DEF ExitMoves!TunEnds
<1> QED
  BY <1>7, <1>8, <1>9, <1>10, <1>11, <1>12

\* The TUN goes under the lock its thread took, and a thread that is not the latest leaves.
LEMMA ExitsGone ==
  ASSUME ExitMoves!ExitInv, NEW w \in ExitsWorkers, ExitMoves!TunDropped(w) \/ ExitMoves!Leaves(w)
  PROVE  ExitMoves!ExitInv'
<1>1. ExitTypes /\ ExitMoves!Gens /\ ExitMoves!Locked /\ ExitMoves!Failures /\ ExitMoves!Owed
  BY ExitsInv
<1>2. /\ s2 \in [proxy : BOOLEAN, tun : BOOLEAN] /\ s5 \in BOOLEAN /\ s6 \in BOOLEAN
      /\ s13 \in [moves : 0..ExitsMoves, faults : 0..ExitsFaults, told : BOOLEAN]
  BY <1>1 DEF ExitTypes, ExitPlain
<1>3. UNCHANGED <<s1, s2, s3, s4, s6, s7, s9, s11, s12, s13>>
  BY DEF ExitMoves!TunDropped, ExitMoves!Leaves, ExitMoves!Quiet, ExitMoves!engine, ExitMoves!StopTun
<1>4. CASE ExitMoves!TunDropped(w)
  <2>1. s10[w].pc = "drop" /\ s10[w].tun /\ s8 = w /\ s8' = 0
    BY <1>1, <1>4 DEF ExitMoves!TunDropped, ExitMoves!Gens, ExitMoves!Locked, ExitMoves!Free
  <2>2. CASE ExitMoves!Current(w) /\ ~s2.tun
    <3>1. ExitMoves!Then(w, "good", FALSE) /\ s5' = FALSE
      BY <1>4, <2>2 DEF ExitMoves!TunDropped, ExitMoves!StopTun
    <3>2. ExitMoves!Acting(w) /\ s9.pc = "idle"
      BY <1>1, <2>1, <2>2, ExitsEnters
    <3>3. "good" \in ExitMoves!Steps \ {"idle"} /\ ExitMoves!Steady
      BY <3>2 DEF ExitMoves!Steps, ExitMoves!Steady, ExitMoves!Acting, ExitMoves!Current
    <3>4. \A v \in ExitsWorkers : ExitMoves!Acting(v) => v = w
      BY <1>1, <3>2, ExitsOnly
    <3>5. s1 = "on" /\ ~ExitMoves!StateSent /\ ~s2.tun /\ s2.proxy /\ ~s6 => s13.told
      BY <1>1, <2>1, <3>3, <3>4 DEF ExitMoves!Owed
    <3> QED
      BY <1>1, <1>2, <1>3, <2>1, <2>2, <3>1, <3>2, <3>3, <3>5, ExitsActs
  <2>3. CASE ~(ExitMoves!Current(w) /\ ~s2.tun)
    <3>1. s10' = [s10 EXCEPT ![w] = ExitMoves!Asleep] /\ s5' = s5
      BY <1>4, <2>3 DEF ExitMoves!TunDropped, ExitMoves!engine
    <3> QED
      BY <1>3, <2>1, <3>1, ExitsLeaves
  <2> QED
    BY <2>2, <2>3
<1>5. CASE ExitMoves!Leaves(w)
  <2>1. /\ s10' = [s10 EXCEPT ![w] = ExitMoves!Asleep] /\ s5' = s5 /\ s8' = s8
        /\ s10[w].pc \in {"start", "probe", "suspend", "undo", "good", "bad"}
        /\ ExitMoves!Acting(w) => s10[w].pc \in {"probe", "suspend", "undo"} /\ ~s2.tun
    BY <1>5 DEF ExitMoves!Leaves, ExitMoves!engine, ExitMoves!Acting
  <2> QED
    BY <1>3, <2>1, ExitsLeaves
<1> QED
  BY <1>4, <1>5

\* The thread of the latest move reports, and what it owed its signal owes.
LEMMA ExitsReports ==
  ASSUME ExitMoves!ExitInv, NEW w \in ExitsWorkers, ExitMoves!Reports(w)
  PROVE  ExitMoves!ExitInv'
<1>1. ExitTypes /\ ExitMoves!Gens /\ ExitMoves!Locked /\ ExitMoves!Failures /\ ExitMoves!Owed
  BY ExitsInv
<1>2. /\ UNCHANGED <<s1, s2, s3, s4, s5, s6, s7, s8, s9, s12, s13>> /\ s10[w].pc \in {"good", "bad"}
      /\ ExitMoves!Current(w) /\ s10' = [s10 EXCEPT ![w] = ExitMoves!Asleep]
  BY DEF ExitMoves!Reports, ExitMoves!engine, ExitMoves!user
<1>3. s10[w] \in ExitWork
  BY <1>1 DEF ExitTypes
<1>4. PICK m \in ExitSignals : /\ s11' = Append(s11, m) /\ m.of # "state" /\ (m.of = "tun" <=> s10[w].tun)
                               /\ (m.ok <=> s10[w].pc = "good") /\ m.value = s10[w].value
                               /\ m.gen = s10[w].gen /\ m.run = s10[w].run
  <2>1. PICK of \in {"tun", "proxy"}, ok \in BOOLEAN :
          /\ of = (IF s10[w].tun THEN "tun" ELSE "proxy") /\ ok = (s10[w].pc = "good")
    OBVIOUS
  <2>2. s11' = Append(s11, [of |-> of, ok |-> ok, value |-> s10[w].value, gen |-> s10[w].gen, run |-> s10[w].run])
    BY <2>1 DEF ExitMoves!Reports, ExitMoves!Emit
  <2>3. [of |-> of, ok |-> ok, value |-> s10[w].value, gen |-> s10[w].gen, run |-> s10[w].run] \in ExitSignals
    BY <1>3 DEF ExitSignals, ExitWork
  <2>4. of # "state" /\ (of = "tun" <=> s10[w].tun)
    BY <1>3, <2>1 DEF ExitWork
  <2>5. PICK m \in ExitSignals : m = [of |-> of, ok |-> ok, value |-> s10[w].value,
                                      gen |-> s10[w].gen, run |-> s10[w].run]
    BY <2>3
  <2>6. m.of = of /\ m.ok = ok /\ m.value = s10[w].value /\ m.gen = s10[w].gen /\ m.run = s10[w].run
    BY <2>5
  <2> QED
    BY <2>1, <2>2, <2>4, <2>5, <2>6
<1>5. s11' \in Seq(ExitSignals) /\ ExitMoves!Sent' = ExitMoves!Sent \union {m}
  BY <1>1, <1>4, ExitsSends DEF ExitTypes
<1>6. ExitMoves!Acting(w) /\ s9.pc = "idle"
  BY <1>1, <1>2, ExitsEnters
<1>7. /\ \A v \in ExitsWorkers : ExitMoves!Acting(v) => v = w
      /\ \A s \in ExitMoves!Sent : ~ExitMoves!Fresh(s)
      /\ s1 # "connecting" /\ s3
  BY <1>1, <1>6, ExitsOnly DEF ExitMoves!Acting, ExitMoves!Current
<1>8. ExitMoves!Asleep \in ExitWork /\ ExitMoves!Asleep.pc = "idle"
  BY ExitsAssumption DEF ExitMoves!Asleep, ExitWork, ExitMoves!Steps
<1>9. /\ s10' \in [ExitsWorkers -> ExitWork] /\ s10'[w].pc = "idle"
      /\ \A v \in ExitsWorkers : v # w => s10'[v] = s10[v]
  BY <1>1, <1>2, <1>8, ExitsThread DEF ExitTypes
<1>10. /\ \A v \in ExitsWorkers : ~ExitMoves!Acting(v)'
       /\ \A s \in ExitMoves!Sent' : ExitMoves!Fresh(s)' <=> s = m
       /\ ExitMoves!StateSent' <=> ExitMoves!StateSent
  <2>1. \A v \in ExitsWorkers : ~ExitMoves!Acting(v)'
    BY <1>2, <1>7, <1>9 DEF ExitMoves!Acting, ExitMoves!Current
  <2>2. ExitMoves!Fresh(m)'
    BY <1>2, <1>4 DEF ExitMoves!Fresh, ExitMoves!Current
  <2>3. \A s \in ExitMoves!Sent : ~ExitMoves!Fresh(s)'
    BY <1>2, <1>7 DEF ExitMoves!Fresh
  <2> QED
    BY <1>4, <1>5, <2>1, <2>2, <2>3 DEF ExitMoves!StateSent
<1>11. ExitTypes'
  BY <1>1, <1>2, <1>5, <1>9 DEF ExitTypes, ExitPlain
<1>12. ExitMoves!Gens'
  BY <1>1, <1>2, <1>4, <1>5, <1>9 DEF ExitMoves!Gens
<1>13. ExitMoves!Locked'
  BY <1>1, <1>2, <1>6, <1>7, <1>9 DEF ExitMoves!Locked
<1>14. ExitMoves!Failures'
  <2>1. ~m.ok => ExitMoves!Settles(s10[w].tun, s10[w].value)
    BY <1>1, <1>2, <1>4, <1>6 DEF ExitMoves!Failures
  <2>2. ~m.ok => ExitMoves!Settles(m.of = "tun", m.value)'
    BY <1>2, <1>4, <2>1 DEF ExitMoves!Settles
  <2> QED
    BY <1>10, <2>2 DEF ExitMoves!Failures
<1>15. ExitMoves!Owed'
  <2>1. m \in ExitMoves!Sent' /\ ExitMoves!Fresh(m)'
    BY <1>5, <1>10
  <2>2. ~(ExitMoves!Steady /\ s2.tun /\ s5 /\ s6)
    BY <1>1, <1>2, <1>7 DEF ExitMoves!Owed, ExitMoves!Underway
  <2>3. ExitMoves!Steady /\ s1 = "on" /\ ~s12 /\ ~ExitMoves!StateSent /\ s2.tun /\ ~s5 =>
          m.of = "tun" /\ ~m.ok /\ m.value
    BY <1>1, <1>2, <1>4, <1>7 DEF ExitMoves!Owed, ExitMoves!Underway
  <2>4. ~(ExitMoves!Steady /\ s1 = "on" /\ ~ExitMoves!StateSent /\ ~s2.tun /\ s2.proxy /\ ~s6 /\ ~s13.told)
    BY <1>1, <1>2, <1>7 DEF ExitMoves!Owed
  <2>5. ExitMoves!Steady' = ExitMoves!Steady
    BY <1>2 DEF ExitMoves!Steady
  <2> QED
    BY <1>2, <1>7, <1>10, <2>1, <2>2, <2>3, <2>4, <2>5 DEF ExitMoves!Owed
<1> QED
  BY <1>11, <1>12, <1>13, <1>14, <1>15, ExitsInv

\* The connect thread has ended, with a connection or without.
LEMMA ExitsConnEnds ==
  ASSUME ExitMoves!ExitInv, ExitMoves!ConnDone \/ ExitMoves!ConnFails
  PROVE  ExitMoves!ExitInv'
<1>1. ExitTypes /\ ExitMoves!Gens /\ ExitMoves!Locked /\ ExitMoves!Failures /\ ExitMoves!Owed
  BY ExitsInv
<1>2. /\ UNCHANGED <<s1, s2, s7, s10, s12, s13>> /\ s9.pc # "idle" /\ s8 = 100 /\ s8' = 0
      /\ s9' = [s9 EXCEPT !.pc = "idle"]
  BY <1>1 DEF ExitMoves!ConnDone, ExitMoves!ConnFails, ExitMoves!user, ExitMoves!Free, ExitMoves!Connecting,
    ExitMoves!Locked
<1>3. s9'.pc = "idle" /\ s9' \in [pc : {"idle", "apply", "enabled", "probed", "proxied", "done", "fail"}, run : 0..ExitsMaxRun]
  BY <1>1, <1>2 DEF ExitTypes, ExitPlain
<1>4. \A value \in BOOLEAN : ExitMoves!Emit("state", TRUE, value, 0, s4) =>
        /\ s11' \in Seq(ExitSignals)
        /\ \E m : m.of = "state" /\ ExitMoves!Sent' = ExitMoves!Sent \union {m}
  <2> SUFFICES ASSUME NEW value \in BOOLEAN, ExitMoves!Emit("state", TRUE, value, 0, s4)
               PROVE  /\ s11' \in Seq(ExitSignals)
                      /\ \E m : m.of = "state" /\ ExitMoves!Sent' = ExitMoves!Sent \union {m}
    OBVIOUS
  <2>1. PICK m \in ExitSignals : s11' = Append(s11, m) /\ m.of = "state"
    <3>1. [of |-> "state", ok |-> TRUE, value |-> value, gen |-> 0, run |-> s4] \in ExitSignals
      BY <1>1 DEF ExitSignals, ExitTypes, ExitPlain
    <3> QED
      BY <3>1 DEF ExitMoves!Emit
  <2> QED
    BY <1>1, <2>1, ExitsSends DEF ExitTypes
<1>5. CASE ExitMoves!ConnDone
  <2>1. s9.pc = "done" /\ s3 /\ UNCHANGED <<s3, s4, s5, s6>> /\ ExitMoves!Emit("state", TRUE, TRUE, 0, s4)
    BY <1>5 DEF ExitMoves!ConnDone, ExitMoves!engine
  <2>2. PICK m : m.of = "state" /\ ExitMoves!Sent' = ExitMoves!Sent \union {m}
    BY <1>4, <2>1
  <2>3. ExitTypes'
    BY <1>1, <1>2, <1>3, <1>4, <2>1 DEF ExitTypes, ExitPlain
  <2>4. /\ \A w : ExitMoves!Acting(w)' <=> ExitMoves!Acting(w)
        /\ \A s : ExitMoves!Fresh(s)' <=> ExitMoves!Fresh(s)
        /\ \A s \in ExitMoves!Sent' : ~ExitMoves!Fresh(s)
        /\ \A w \in ExitsWorkers : ExitMoves!Acting(w) => s10[w].pc = "start"
        /\ ~(s5 /\ s6) /\ ExitMoves!StateSent'
    <3>1. ~ExitMoves!Fresh(m)
      BY <2>2 DEF ExitMoves!Fresh
    <3>2. /\ \A s \in ExitMoves!Sent : ~ExitMoves!Fresh(s)
          /\ \A w \in ExitsWorkers : ExitMoves!Acting(w) => s10[w].pc = "start"
          /\ ~(s5 /\ s6)
      BY <1>1, <1>2, <2>1 DEF ExitMoves!Locked
    <3> QED
      BY <1>2, <2>1, <2>2, <3>1, <3>2 DEF ExitMoves!StateSent, ExitMoves!Fresh, ExitMoves!Acting, ExitMoves!Current
  <2>5. ExitMoves!Gens'
    BY <1>1, <1>2, <2>2 DEF ExitMoves!Gens
  <2>6. ExitMoves!Locked'
    <3>1. \A w \in ExitsWorkers : s10[w].pc # "drop"
      BY <1>1, <1>2, ExitsAssumption DEF ExitMoves!Locked
    <3> QED
      BY <1>1, <1>2, <1>3, <2>1, <2>4, <3>1 DEF ExitMoves!Locked, ExitMoves!Alone
  <2>7. ExitMoves!Failures'
    BY <1>2, <2>4 DEF ExitMoves!Failures
  <2>8. ExitMoves!Owed'
    BY <2>1, <2>4 DEF ExitMoves!Owed
  <2> QED
    BY <2>3, <2>5, <2>6, <2>7, <2>8, ExitsInv
<1>6. CASE ExitMoves!ConnFails /\ ExitMoves!Alive
  <2>1. ExitMoves!EngineStop /\ ExitMoves!Emit("state", TRUE, FALSE, 0, s4)
    BY <1>6 DEF ExitMoves!ConnFails
  <2>2. s4' \in 0..ExitsMaxRun /\ s3' = FALSE /\ s5' = FALSE /\ s6' = FALSE
    BY <1>1, <2>1, ExitsStops DEF ExitTypes
  <2>3. PICK m : m.of = "state" /\ ExitMoves!Sent' = ExitMoves!Sent \union {m}
    BY <1>4, <2>1
  <2>4. ExitTypes'
    BY <1>1, <1>2, <1>3, <1>4, <2>1, <2>2 DEF ExitTypes, ExitPlain
  <2>5. ExitMoves!StateSent'
    BY <2>3 DEF ExitMoves!StateSent
  <2> QED
    BY <1>2, <1>3, <2>2, <2>3, <2>4, <2>5, ExitsStopped
<1>7. CASE ExitMoves!ConnFails /\ ~ExitMoves!Alive
  <2>1. UNCHANGED <<s3, s4, s5, s6, s11>>
    BY <1>7 DEF ExitMoves!ConnFails, ExitMoves!engine
  <2>2. ~s3
    BY <1>1, <1>2, <1>7 DEF ExitMoves!Locked, ExitMoves!Alive
  <2>3. ExitTypes'
    BY <1>1, <1>2, <1>3, <2>1 DEF ExitTypes, ExitPlain
  <2>4. s1 \in {"off", "connecting", "on"} /\ s3' = FALSE
    BY <1>1, <2>1, <2>2 DEF ExitTypes, ExitPlain
  <2>5. ExitMoves!Sent' = ExitMoves!Sent
    BY <2>1 DEF ExitMoves!Sent
  <2>6. s1 = "on" => s12 \/ ExitMoves!StateSent
    BY <1>1, <2>2 DEF ExitMoves!Owed
  <2>7. s1 = "on" => s12' \/ ExitMoves!StateSent'
    BY <1>2, <2>5, <2>6 DEF ExitMoves!StateSent
  <2> QED
    BY <1>2, <1>3, <2>1, <2>3, <2>4, <2>5, <2>7, ExitsStopped
<1> QED
  BY <1>5, <1>6, <1>7 DEF ExitMoves!ConnFails

\* A click connects or ends the connection, or it was made or in the making.
LEMMA ExitsClicks ==
  ASSUME ExitMoves!ExitInv, ExitMoves!Connect \/ ExitMoves!Disconnect
  PROVE  ExitMoves!ExitInv'
<1>1. ExitTypes /\ ExitMoves!Gens /\ ExitMoves!Locked /\ ExitMoves!Failures /\ ExitMoves!Owed
  BY ExitsInv
<1>2. s7 \in Nat /\ s7' = s7 + 1 /\ UNCHANGED <<s2, s10, s11, s12, s13>> /\ ExitMoves!Sent' = ExitMoves!Sent
  BY <1>1 DEF ExitTypes, ExitPlain, ExitMoves!Connect, ExitMoves!Disconnect, ExitMoves!Sent
<1>3. CASE ExitMoves!Connect
  <2>1. /\ s8 = 0 /\ s8' = 100 /\ s4 < ExitsMaxRun /\ s4' = s4 + 1 /\ s3' = TRUE /\ s1' = "connecting"
        /\ s9' = [pc |-> "apply", run |-> s4 + 1] /\ UNCHANGED <<s5, s6>>
    BY <1>3 DEF ExitMoves!Connect, ExitMoves!Free, ExitMoves!Connecting
  <2>2. s4' \in 0..ExitsMaxRun
    BY <1>1, <2>1, ExitsAssumption DEF ExitTypes, ExitPlain
  <2>3. /\ s9'.pc = "apply" /\ s9'.run = s4'
        /\ s9' \in [pc : {"idle", "apply", "enabled", "probed", "proxied", "done", "fail"}, run : 0..ExitsMaxRun]
    BY <2>1, <2>2
  <2>4. ExitTypes'
    BY <1>1, <1>2, <2>1, <2>2, <2>3 DEF ExitTypes, ExitPlain
  <2>5. /\ \A w \in ExitsWorkers : s10[w].pc # "idle" => s10[w].gen # s7'
        /\ \A s \in ExitMoves!Sent : s.of # "state" => s.gen # s7'
    BY <1>1, <1>2 DEF ExitMoves!Gens
  <2>6. (\A w \in ExitsWorkers : ~ExitMoves!Acting(w)') /\ (\A s \in ExitMoves!Sent' : ~ExitMoves!Fresh(s)')
    BY <1>2, <2>5 DEF ExitMoves!Acting, ExitMoves!Current, ExitMoves!Fresh
  <2>7. ExitMoves!Gens'
    <3>1. \A g : g \in 1..s7 => g \in 1..s7'
      BY <1>2
    <3> QED
      BY <1>1, <1>2, <3>1 DEF ExitMoves!Gens
  <2>8. \A w \in ExitsWorkers : s10[w].pc # "drop"
    BY <1>1, <2>1, ExitsAssumption DEF ExitMoves!Locked
  <2>9. ExitMoves!Locked'
    BY <1>2, <2>1, <2>3, <2>6, <2>8 DEF ExitMoves!Locked, ExitMoves!Alone, ExitMoves!Connecting
  <2>10. ExitMoves!Failures'
    BY <2>6 DEF ExitMoves!Failures
  <2>11. ExitMoves!Owed'
    BY <2>1, <2>3 DEF ExitMoves!Owed, ExitMoves!Steady
  <2> QED
    BY <2>4, <2>7, <2>9, <2>10, <2>11, ExitsInv
<1>4. CASE ExitMoves!Disconnect
  <2>1. s1' = "off" /\ ExitMoves!EngineStop /\ UNCHANGED <<s8, s9>>
    BY <1>4 DEF ExitMoves!Disconnect
  <2>2. s4' \in 0..ExitsMaxRun /\ s3' = FALSE /\ s5' = FALSE /\ s6' = FALSE
    BY <1>1, <2>1, ExitsStops DEF ExitTypes
  <2>3. ExitTypes'
    <3>1. ExitPlain /\ s7' \in Nat
      BY <1>1, <1>2 DEF ExitTypes
    <3>2. ExitPlain'
      BY <1>2, <2>1, <2>2, <3>1 DEF ExitPlain
    <3> QED
      BY <1>1, <1>2, <3>2 DEF ExitTypes
  <2> QED
    BY <1>2, <2>1, <2>2, <2>3, ExitsStopped
<1> QED
  BY <1>3, <1>4

\* A switch is moved.
LEMMA ExitsMove ==
  ASSUME ExitMoves!ExitInv, NEW isTun \in BOOLEAN, ExitMoves!Move(isTun)
  PROVE  ExitMoves!ExitInv'
<1>1. ExitTypes /\ ExitMoves!Gens /\ ExitMoves!Locked /\ ExitMoves!Failures /\ ExitMoves!Owed
  BY ExitsInv
<1>2. UNCHANGED <<s1, s3, s4, s5, s6, s8, s9, s11, s12>> /\ (isTun \/ ~s2.tun)
  BY DEF ExitMoves!Move, ExitMoves!engine
<1>3. s13' \in [moves : 0..ExitsMoves, faults : 0..ExitsFaults, told : BOOLEAN] /\ s13'.told = s13.told
  <2>1. s13 \in [moves : 0..ExitsMoves, faults : 0..ExitsFaults, told : BOOLEAN]
    BY <1>1 DEF ExitTypes, ExitPlain
  <2>2. PICK n \in 0..ExitsMoves : s13' = [s13 EXCEPT !.moves = n]
    BY <2>1, ExitsAssumption DEF ExitMoves!Move
  <2> QED
    BY <2>1, <2>2
<1>4. s2' \in [proxy : BOOLEAN, tun : BOOLEAN] /\ (s2'.tun => isTun)
  <2>1. s2 \in [proxy : BOOLEAN, tun : BOOLEAN]
    BY <1>1 DEF ExitTypes, ExitPlain
  <2>2. CASE isTun
    <3>1. PICK b \in BOOLEAN : s2' = [s2 EXCEPT !.tun = b]
      <4>1. s2' = [s2 EXCEPT !.tun = ~s2.tun]
        BY <2>2 DEF ExitMoves!Move
      <4> QED
        BY <4>1
    <3> QED
      BY <2>1, <2>2, <3>1
  <2>3. CASE ~isTun
    <3>1. PICK b \in BOOLEAN : s2' = [s2 EXCEPT !.proxy = b]
      <4>1. s2' = [s2 EXCEPT !.proxy = ~s2.proxy]
        BY <2>3 DEF ExitMoves!Move
      <4> QED
        BY <4>1
    <3> QED
      BY <1>2, <2>1, <2>3, <3>1
  <2> QED
    BY <2>2, <2>3
<1>5. CASE s1 # "connecting" /\ s3
  <2>1. ExitMoves!Begin(isTun)
    BY <1>5 DEF ExitMoves!Move
  <2>2. s1' \in {"off", "on"} /\ s11' \in Seq(ExitSignals) /\ ExitMoves!Sent' \subseteq ExitMoves!Sent
    BY <1>1, <1>2, <1>5 DEF ExitTypes, ExitPlain, ExitMoves!Sent
  <2> QED
    BY <1>2, <1>3, <1>4, <1>5, <2>1, <2>2, ExitsMoved
<1>6. CASE ~(s1 # "connecting" /\ s3)
  <2>1. UNCHANGED <<s7, s10>>
    BY <1>6 DEF ExitMoves!Move
  <2>2. /\ ExitMoves!Sent' = ExitMoves!Sent /\ (\A w : ExitMoves!Acting(w)' <=> ExitMoves!Acting(w))
        /\ (\A s : ExitMoves!Fresh(s)' <=> ExitMoves!Fresh(s)) /\ (ExitMoves!StateSent' <=> ExitMoves!StateSent)
    BY <1>2, <2>1 DEF ExitMoves!Sent, ExitMoves!StateSent, ExitMoves!Acting, ExitMoves!Current, ExitMoves!Fresh
  <2>3. (\A w \in ExitsWorkers : ~ExitMoves!Acting(w)) /\ (\A s \in ExitMoves!Sent : ~ExitMoves!Fresh(s))
    BY <1>1, <1>6 DEF ExitMoves!Locked, ExitMoves!Alone, ExitMoves!Acting, ExitMoves!Current, ExitMoves!Fresh
  <2>4. ExitTypes'
    BY <1>1, <1>2, <1>3, <1>4, <2>1 DEF ExitTypes, ExitPlain
  <2>5. ExitMoves!Gens'
    BY <1>1, <1>2, <2>1, <2>2 DEF ExitMoves!Gens
  <2>6. ExitMoves!Locked'
    BY <1>1, <1>2, <2>1, <2>2 DEF ExitMoves!Locked, ExitMoves!Alone
  <2>7. ExitMoves!Failures'
    BY <2>2, <2>3 DEF ExitMoves!Failures
  <2>8. ~(ExitMoves!Steady /\ s5 /\ s6)
    BY <1>1, <1>6 DEF ExitMoves!Locked, ExitMoves!Steady
  <2>9. ExitMoves!Owed'
    BY <1>1, <1>2, <1>6, <2>2, <2>8 DEF ExitMoves!Owed, ExitMoves!Steady
  <2> QED
    BY <2>4, <2>5, <2>6, <2>7, <2>9, ExitsInv
<1> QED
  BY <1>5, <1>6

\* The page hears of a connection.
LEMMA ExitsState ==
  ASSUME ExitMoves!ExitInv, ExitMoves!SetState
  PROVE  ExitMoves!ExitInv'
<1>1. ExitTypes /\ ExitMoves!Gens /\ ExitMoves!Locked /\ ExitMoves!Failures /\ ExitMoves!Owed
  BY ExitsInv
<1>2. UNCHANGED <<s2, s3, s4, s5, s6, s8, s9, s12, s13>> /\ ExitMoves!Take("state")
  BY DEF ExitMoves!SetState, ExitMoves!engine
<1>3. /\ s11' \in Seq(ExitSignals) /\ ExitMoves!Sent' \subseteq ExitMoves!Sent
      /\ \A s \in ExitMoves!Sent : s.of = "state" \/ s \in ExitMoves!Sent'
  BY <1>1, <1>2, ExitsTakes DEF ExitTypes
<1>4. /\ s1' \in {"off", "on"} /\ (s1' = "on" => s3 /\ (s2.tun => s5))
      /\ IF s1' = "on" /\ ~s2.tun THEN ExitMoves!Begin(FALSE) ELSE UNCHANGED <<s7, s10>>
  BY DEF ExitMoves!SetState
<1>5. CASE s1' = "on" /\ ~s2.tun
  <2>1. /\ s2' \in [proxy : BOOLEAN, tun : BOOLEAN] /\ ~s2'.tun
        /\ s13' \in [moves : 0..ExitsMoves, faults : 0..ExitsFaults, told : BOOLEAN]
    BY <1>1, <1>2, <1>5 DEF ExitTypes, ExitPlain
  <2>2. ExitMoves!Begin(FALSE) /\ s3
    BY <1>4, <1>5
  <2> QED
    BY <1>2, <1>3, <1>4, <2>1, <2>2, ExitsMoved
<1>6. CASE ~(s1' = "on" /\ ~s2.tun)
  <2>1. UNCHANGED <<s7, s10>> /\ (s1' = "off" \/ (s3 /\ s5 /\ s2.tun))
    BY <1>4, <1>6
  <2>2. /\ \A w : ExitMoves!Acting(w)' <=> ExitMoves!Acting(w)
        /\ \A s : ExitMoves!Fresh(s)' <=> ExitMoves!Fresh(s)
    BY <1>2, <2>1 DEF ExitMoves!Acting, ExitMoves!Current, ExitMoves!Fresh
  <2>3. ExitTypes'
    BY <1>1, <1>2, <1>3, <1>4, <2>1 DEF ExitTypes, ExitPlain
  <2>4. ExitMoves!Gens'
    BY <1>1, <1>3, <2>1 DEF ExitMoves!Gens
  <2>5. ExitMoves!Locked'
    BY <1>1, <1>2, <1>3, <1>4, <2>1, <2>2 DEF ExitMoves!Locked
  <2>6. ExitMoves!Failures'
    <3>1. \A t, v : ExitMoves!Settles(t, v)' <=> ExitMoves!Settles(t, v)
      BY <1>2 DEF ExitMoves!Settles
    <3> QED
      BY <1>1, <1>3, <2>1, <2>2, <3>1 DEF ExitMoves!Failures
  <2>7. ExitMoves!Owed'
    <3>1. (\A w : ExitMoves!Underway(w)' <=> ExitMoves!Underway(w)) /\ ExitMoves!Steady' = ExitMoves!Steady
      BY <1>2, <2>1, <2>2 DEF ExitMoves!Underway, ExitMoves!Steady
    <3> QED
      BY <1>1, <1>2, <2>1, <3>1 DEF ExitMoves!Owed
  <2> QED
    BY <2>3, <2>4, <2>5, <2>6, <2>7, ExitsInv
<1> QED
  BY <1>5, <1>6

\* The page hears of a move that was applied, or was not: its switch goes to what is the case.
LEMMA ExitsHeard ==
  ASSUME ExitMoves!ExitInv, NEW of \in {"proxy", "tun"}, ExitMoves!Finished(of)
  PROVE  ExitMoves!ExitInv'
<1>1. ExitTypes /\ ExitMoves!Gens /\ ExitMoves!Locked /\ ExitMoves!Failures /\ ExitMoves!Owed
  BY ExitsInv
<1>2. UNCHANGED <<s1, s3, s4, s5, s6, s7, s8, s9, s10, s12, s13>> /\ ExitMoves!Take(of)
  BY DEF ExitMoves!Finished, ExitMoves!engine
<1>3. PICK h \in ExitSignals : h = Head(s11)
  BY <1>1, <1>2, ExitsTakes DEF ExitTypes
<1>4. /\ s11' \in Seq(ExitSignals) /\ ExitMoves!Sent' \subseteq ExitMoves!Sent
      /\ h \in ExitMoves!Sent /\ h.of = of
      /\ \A s \in ExitMoves!Sent : s = h \/ s \in ExitMoves!Sent'
  BY <1>1, <1>2, <1>3, ExitsTakes DEF ExitTypes
<1>5. s2 \in [proxy : BOOLEAN, tun : BOOLEAN] /\ s5 \in BOOLEAN /\ h.value \in BOOLEAN /\ h.ok \in BOOLEAN
  BY <1>1 DEF ExitTypes, ExitPlain, ExitSignals
<1>6. PICK heeded \in BOOLEAN : heeded = (h.gen = s7 /\ h.run = s4 /\ ~h.ok /\ h.value = s2[of])
  OBVIOUS
<1>7. s2' = IF heeded THEN [s2 EXCEPT ![of] = IF of = "tun" THEN s5 ELSE ~h.value] ELSE s2
  BY <1>3, <1>6 DEF ExitMoves!Finished
<1>8. /\ s2' \in [proxy : BOOLEAN, tun : BOOLEAN]
      /\ s2'.tun = IF heeded /\ of = "tun" THEN s5 ELSE s2.tun
      /\ s2'.proxy = IF heeded /\ of = "proxy" THEN ~h.value ELSE s2.proxy
  <2>1. PICK b \in BOOLEAN : b = IF of = "tun" THEN s5 ELSE ~h.value
    BY <1>5
  <2>2. CASE of = "tun"
    BY <1>5, <1>7, <2>1, <2>2
  <2>3. CASE of = "proxy"
    BY <1>5, <1>7, <2>1, <2>3
  <2> QED
    BY <2>2, <2>3
<1>9. /\ \A w : ExitMoves!Acting(w)' <=> ExitMoves!Acting(w)
      /\ \A s : ExitMoves!Fresh(s)' <=> ExitMoves!Fresh(s)
      /\ ExitMoves!StateSent' <=> ExitMoves!StateSent
      /\ \A w : ExitMoves!Underway(w)' <=> ExitMoves!Underway(w)
      /\ ExitMoves!Steady' = ExitMoves!Steady
  <2>1. ExitMoves!StateSent' <=> ExitMoves!StateSent
    BY <1>4 DEF ExitMoves!StateSent
  <2> QED
    BY <1>2, <2>1 DEF ExitMoves!Acting, ExitMoves!Current, ExitMoves!Fresh, ExitMoves!Underway, ExitMoves!Steady
<1>10. ExitTypes'
  BY <1>1, <1>2, <1>4, <1>8 DEF ExitTypes, ExitPlain
<1>11. ExitMoves!Gens'
  BY <1>1, <1>2, <1>4 DEF ExitMoves!Gens
<1>12. ExitMoves!Locked'
  BY <1>1, <1>2, <1>4, <1>9 DEF ExitMoves!Locked, ExitMoves!Alone
<1>13. heeded /\ s3 => /\ ExitMoves!Fresh(h) /\ ~h.ok /\ h.value = s2[of]
                       /\ ExitMoves!Settles(of = "tun", h.value)
                       /\ \A w \in ExitsWorkers : ~ExitMoves!Acting(w)
  <2> SUFFICES ASSUME heeded, s3
               PROVE  /\ ExitMoves!Fresh(h) /\ ~h.ok /\ h.value = s2[of]
                      /\ ExitMoves!Settles(of = "tun", h.value)
                      /\ \A w \in ExitsWorkers : ~ExitMoves!Acting(w)
    OBVIOUS
  <2>1. ExitMoves!Fresh(h) /\ ~h.ok /\ h.value = s2[of] /\ h.gen = s7
    BY <1>4, <1>6 DEF ExitMoves!Fresh
  <2>2. ExitMoves!Settles(of = "tun", h.value)
    BY <1>1, <1>4, <2>1 DEF ExitMoves!Failures
  <2>3. \A w \in ExitsWorkers : ~ExitMoves!Acting(w)
    BY <1>1, <1>4, <2>1 DEF ExitMoves!Gens, ExitMoves!Acting, ExitMoves!Current
  <2> QED
    BY <2>1, <2>2, <2>3
<1>14. ExitMoves!Failures'
  <2>1. \A t, v : s3 /\ ExitMoves!Settles(t, v) => ExitMoves!Settles(t, v)'
    BY <1>2, <1>5, <1>8, <1>13 DEF ExitMoves!Settles
  <2> QED
    BY <1>1, <1>2, <1>4, <1>9, <2>1 DEF ExitMoves!Failures, ExitMoves!Fresh, ExitMoves!Acting, ExitMoves!Current
<1>15. CASE heeded /\ ExitMoves!Steady
  <2>1. s3 /\ ExitMoves!Fresh(h) /\ ExitMoves!Settles(of = "tun", h.value) /\ h.value = s2[of]
        /\ \A w \in ExitsWorkers : ~ExitMoves!Underway(w) /\ ~(ExitMoves!Acting(w) /\ s10[w].pc = "start")
    BY <1>13, <1>15 DEF ExitMoves!Steady, ExitMoves!Underway
  <2>2. ~(s2.tun /\ s5 /\ s6)
    BY <1>1, <1>15, <2>1 DEF ExitMoves!Owed
  <2>3. CASE of = "tun"
    <3>1. (s2'.tun <=> s5) /\ (s2'.proxy <=> s2.proxy)
      BY <1>8, <1>15, <2>3
    <3>2. ASSUME h.value PROVE ExitMoves!Owed'
      <4>1. s2.tun /\ (s2.proxy => s6)
        BY <2>1, <2>3, <3>2 DEF ExitMoves!Settles
      <4> QED
        BY <1>2, <1>9, <2>1, <2>2, <3>1, <4>1 DEF ExitMoves!Owed
    <3>3. ASSUME ~h.value PROVE ExitMoves!Owed'
      <4>1. s13.told /\ ~s6
        BY <2>1, <2>3, <3>3 DEF ExitMoves!Settles
      <4> QED
        BY <1>2, <1>9, <2>1, <3>1, <4>1 DEF ExitMoves!Owed
    <3>4. ExitMoves!Owed'
      BY <3>2, <3>3
    <3> QED
      BY <1>10, <1>11, <1>12, <1>14, <3>4, ExitsInv
  <2>4. CASE of = "proxy"
    <3>1. s2'.tun = s2.tun /\ s2'.proxy = ~h.value /\ h.value
      BY <1>8, <1>15, <2>1, <2>4 DEF ExitMoves!Settles
    <3>2. \A s \in ExitMoves!Sent : s.of = "tun" => s \in ExitMoves!Sent'
      BY <1>4, <2>4
    <3>3. ExitMoves!Owed'
      BY <1>1, <1>2, <1>9, <2>1, <3>1, <3>2 DEF ExitMoves!Owed
    <3> QED
      BY <1>10, <1>11, <1>12, <1>14, <3>3, ExitsInv
  <2> QED
    BY <2>3, <2>4
<1>16. CASE ~ExitMoves!Steady
  <2>1. ExitMoves!Owed'
    BY <1>1, <1>2, <1>9, <1>16 DEF ExitMoves!Owed
  <2> QED
    BY <1>10, <1>11, <1>12, <1>14, <2>1, ExitsInv
<1>17. CASE ~heeded /\ ExitMoves!Steady
  <2>1. s2'.tun = s2.tun /\ s2'.proxy = s2.proxy
    BY <1>8, <1>17
  <2>2. ASSUME NEW s \in ExitMoves!Sent, ExitMoves!Fresh(s), s.of = "tun", ~s.ok, s.value, s2.tun
        PROVE  s \in ExitMoves!Sent'
    <3>1. s # h
      BY <1>4, <1>5, <1>6, <1>17, <2>2 DEF ExitMoves!Fresh
    <3> QED
      BY <1>4, <3>1
  <2>3. ExitMoves!Owed'
    BY <1>1, <1>2, <1>9, <2>1, <2>2 DEF ExitMoves!Owed
  <2> QED
    BY <1>10, <1>11, <1>12, <1>14, <2>3, ExitsInv
<1> QED
  BY <1>15, <1>16, <1>17

\* A process dies, and its reader stops the engine later.
LEMMA ExitsReader ==
  ASSUME ExitMoves!ExitInv, ExitMoves!ProcessDies \/ ExitMoves!ReaderStops
  PROVE  ExitMoves!ExitInv'
<1>1. ExitTypes /\ ExitMoves!Gens /\ ExitMoves!Locked /\ ExitMoves!Failures /\ ExitMoves!Owed
  BY ExitsInv
<1>2. UNCHANGED <<s1, s2, s7, s8, s9, s10>>
  BY DEF ExitMoves!ProcessDies, ExitMoves!ReaderStops, ExitMoves!user
<1>3. CASE ExitMoves!ReaderStops
  <2>1. s12' = FALSE /\ s13' = s13 /\ ExitMoves!EngineStop /\ ExitMoves!Emit("state", TRUE, FALSE, 0, s4)
    BY <1>3 DEF ExitMoves!ReaderStops, ExitMoves!user
  <2>2. s4' \in 0..ExitsMaxRun /\ s3' = FALSE /\ s5' = FALSE /\ s6' = FALSE
    BY <1>1, <2>1, ExitsStops DEF ExitTypes
  <2>3. PICK m \in ExitSignals : s11' = Append(s11, m) /\ m.of = "state"
    <3>1. [of |-> "state", ok |-> TRUE, value |-> FALSE, gen |-> 0, run |-> s4] \in ExitSignals
      BY <1>1 DEF ExitSignals, ExitTypes, ExitPlain
    <3> QED
      BY <2>1, <3>1 DEF ExitMoves!Emit
  <2>4. s11' \in Seq(ExitSignals) /\ ExitMoves!Sent' = ExitMoves!Sent \union {m}
    BY <1>1, <2>3, ExitsSends DEF ExitTypes
  <2>5. ExitTypes'
    <3>1. ExitPlain
      BY <1>1 DEF ExitTypes
    <3>2. s1' = s1 /\ s2' = s2 /\ s7' = s7 /\ s8' = s8 /\ s9' = s9 /\ s12' = FALSE /\ s13' = s13
      BY <1>2, <2>1
    <3>3. s9' \in [pc : {"idle", "apply", "enabled", "probed", "proxied", "done", "fail"},
                   run : 0..ExitsMaxRun]
      BY <3>1, <3>2 DEF ExitPlain
    <3>4. /\ s2' \in [proxy : BOOLEAN, tun : BOOLEAN]
          /\ s13' \in [moves : 0..ExitsMoves, faults : 0..ExitsFaults, told : BOOLEAN]
      BY <3>1, <3>2 DEF ExitPlain
    <3>5. s1' \in {"off", "connecting", "on"} /\ s7' \in Nat /\ s8' \in ExitsWorkers \union {0, 100}
      BY <3>1, <3>2 DEF ExitPlain
    <3>6. ExitPlain'
      BY <2>2, <3>2, <3>3, <3>4, <3>5 DEF ExitPlain
    <3> QED
      BY <1>1, <1>2, <2>4, <3>6 DEF ExitTypes
  <2>6. ExitMoves!StateSent'
    BY <2>3, <2>4 DEF ExitMoves!StateSent
  <2> QED
    BY <1>2, <2>2, <2>3, <2>4, <2>5, <2>6, ExitsStopped
<1>4. CASE ExitMoves!ProcessDies
  <2>1. s12' = TRUE /\ s4' = s4 /\ s6' = s6 /\ s11' = s11 /\ ExitMoves!Fails
    BY <1>4 DEF ExitMoves!ProcessDies
  <2>2. s13' \in [moves : 0..ExitsMoves, faults : 0..ExitsFaults, told : BOOLEAN] /\ s13'.told = s13.told
    BY <1>1, <2>1, ExitsFails DEF ExitTypes
  <2>3. ExitMoves!Sent' = ExitMoves!Sent
    BY <2>1 DEF ExitMoves!Sent
  <2>4. CASE s3' = FALSE /\ s5' = s5
    <3>1. ExitTypes'
      <4>1. ExitPlain'
        <5>1. ExitPlain
          BY <1>1 DEF ExitTypes
        <5>2. s3' \in BOOLEAN /\ s5' \in BOOLEAN /\ s12' \in BOOLEAN
          BY <2>1, <2>4, <5>1 DEF ExitPlain
        <5> QED
          BY <1>2, <2>1, <2>2, <5>1, <5>2 DEF ExitPlain
      <4> QED
        BY <1>1, <1>2, <2>1, <4>1 DEF ExitTypes
    <3> QED
      BY <1>2, <2>1, <2>3, <2>4, <3>1, ExitsStopped
  <2>5. CASE s5' = FALSE /\ s3' = s3
    <3>1. ExitTypes'
      <4>1. ExitPlain'
        <5>1. ExitPlain
          BY <1>1 DEF ExitTypes
        <5>2. s3' \in BOOLEAN /\ s5' \in BOOLEAN /\ s12' \in BOOLEAN
          BY <2>1, <2>5, <5>1 DEF ExitPlain
        <5> QED
          BY <1>2, <2>1, <2>2, <5>1, <5>2 DEF ExitPlain
      <4> QED
        BY <1>1, <1>2, <2>1, <4>1 DEF ExitTypes
    <3>2. /\ \A w : ExitMoves!Acting(w)' <=> ExitMoves!Acting(w)
          /\ \A s : ExitMoves!Fresh(s)' <=> ExitMoves!Fresh(s)
          /\ ExitMoves!StateSent' <=> ExitMoves!StateSent
          /\ ExitMoves!Steady' = ExitMoves!Steady
      BY <1>2, <2>1, <2>3, <2>5 DEF ExitMoves!Acting, ExitMoves!Current, ExitMoves!Fresh, ExitMoves!StateSent, ExitMoves!Steady
    <3>3. ExitMoves!Gens'
      BY <1>1, <1>2, <2>3 DEF ExitMoves!Gens
    <3>4. ExitMoves!Locked'
      BY <1>1, <1>2, <2>1, <2>3, <2>5, <3>2 DEF ExitMoves!Locked, ExitMoves!Alone
    <3>5. ExitMoves!Failures'
      <4>1. \A t, v : ExitMoves!Settles(t, v) => ExitMoves!Settles(t, v)'
        BY <1>2, <2>1, <2>2 DEF ExitMoves!Settles
      <4> QED
        BY <1>1, <1>2, <2>3, <3>2, <4>1 DEF ExitMoves!Failures
    <3>6. ExitMoves!Owed'
      BY <1>1, <1>2, <2>1, <2>2, <2>5, <3>2 DEF ExitMoves!Owed
    <3> QED
      BY <3>1, <3>3, <3>4, <3>5, <3>6, ExitsInv
  <2> QED
    BY <1>4, <2>4, <2>5 DEF ExitMoves!ProcessDies
<1> QED
  BY <1>3, <1>4

\* Every step keeps it.
LEMMA ExitsStep ==
  ASSUME ExitMoves!ExitInv, ExitMoves!Next
  PROVE  ExitMoves!ExitInv'
BY ExitsClicks, ExitsMove, ExitsConnStep, ExitsConnEnds, ExitsMoveStep, ExitsGone, ExitsReports,
   ExitsState, ExitsHeard, ExitsReader DEF ExitMoves!Next

\* With nothing under way nothing can be owed.
LEMMA ExitsQuiet == ExitMoves!ExitInv => ExitMoves!ChosenExitThere
<1> SUFFICES ASSUME ExitMoves!ExitInv, ExitMoves!Settled
             PROVE  IF s2.tun THEN s5 /\ ~s6 ELSE s3 /\ s2.proxy => s6 \/ s13.told
  BY DEF ExitMoves!ChosenExitThere
<1>1. ExitTypes /\ ExitMoves!Owed
  BY ExitsInv
<1>2. /\ s9.pc = "idle" /\ ~s12 /\ s1 = "on" /\ (\A w \in ExitsWorkers : ~ExitMoves!Acting(w))
      /\ ExitMoves!Sent = {}
  BY DEF ExitMoves!Settled, ExitMoves!Acting, ExitMoves!Sent
<1>3. s3
  BY <1>1, <1>2 DEF ExitMoves!Owed, ExitMoves!StateSent
<1> QED
  BY <1>1, <1>2, <1>3 DEF ExitMoves!Owed, ExitMoves!StateSent, ExitMoves!Steady, ExitMoves!Underway,
    ExitTypes, ExitPlain

\* A behaviour of this part.
LEMMA ExitsPart ==
  ASSUME [Next]_vars, part = "exits"
  PROVE  ExitMoves!Next \/ UNCHANGED <<s1, s2, s3, s4, s5, s6, s7, s8, s9, s10, s11, s12, s13>>
BY DEF Next, vars

\* A step of something else keeps it too.
LEMMA ExitsStill ==
  ASSUME ExitMoves!ExitInv, UNCHANGED <<s1, s2, s3, s4, s5, s6, s7, s8, s9, s10, s11, s12, s13>>
  PROVE  ExitMoves!ExitInv'
<1>1. /\ ExitMoves!Sent' = ExitMoves!Sent
      /\ \A w : ExitMoves!Acting(w)' <=> ExitMoves!Acting(w)
      /\ \A s : ExitMoves!Fresh(s)' <=> ExitMoves!Fresh(s)
      /\ ExitMoves!Steady' <=> ExitMoves!Steady
  BY DEF ExitMoves!Sent, ExitMoves!Acting, ExitMoves!Current, ExitMoves!Fresh, ExitMoves!Steady
<1>2. /\ ExitMoves!StateSent' <=> ExitMoves!StateSent
      /\ \A w : ExitMoves!Underway(w)' <=> ExitMoves!Underway(w)
      /\ \A t, v : ExitMoves!Settles(t, v)' <=> ExitMoves!Settles(t, v)
  BY <1>1 DEF ExitMoves!StateSent, ExitMoves!Underway, ExitMoves!Settles
<1>3. ExitMoves!TypeOK'
  BY DEF ExitMoves!ExitInv, ExitMoves!TypeOK
<1>4. ExitMoves!Gens'
  BY <1>1 DEF ExitMoves!ExitInv, ExitMoves!Gens
<1>5. ExitMoves!Locked'
  BY <1>1 DEF ExitMoves!ExitInv, ExitMoves!Locked, ExitMoves!Alone
<1>6. ExitMoves!Failures'
  BY <1>1, <1>2 DEF ExitMoves!ExitInv, ExitMoves!Failures
<1>7. ExitMoves!Owed'
  BY <1>1, <1>2 DEF ExitMoves!ExitInv, ExitMoves!Owed
<1> QED
  BY <1>3, <1>4, <1>5, <1>6, <1>7 DEF ExitMoves!ExitInv

\* When no move, signal or reader of the log is on its way, a page that is on has its traffic
\* leave as the switches say, or has told why it does not.
THEOREM ExitAsChosen == Spec => []ChosenExitThere
<1> DEFINE Inv == part = "exits" => ExitMoves!ExitInv
<1>1. Init => Inv
  BY ExitsInit DEF Init
<1>2. Inv /\ [Next]_vars => Inv'
  <2> SUFFICES ASSUME Inv, [Next]_vars, part = "exits" PROVE ExitMoves!ExitInv'
    BY PartStays
  <2> QED
    BY ExitsPart, ExitsStep, ExitsStill
<1>3. Inv => ChosenExitThere
  BY ExitsQuiet DEF ChosenExitThere
<1> QED
  BY <1>1, <1>2, <1>3, PTL DEF Spec

(***************************************************************************)
(* What UAC PoW and the engine show and remember                           *)
(***************************************************************************)
\* opt, order, lanes, vias: s1 to s4; aether, psiphon, tries, says: s5 to s8; pc: s11.
\* In part "ladder" every step is one of PowLadder.
LEMMA LadderPart ==
  ASSUME [Next]_vars, part = "ladder"
  PROVE  Ladder!Next \/ UNCHANGED <<s1, s2, s3, s4, s5, s6, s7, s8, s9, s10, s11, s12>>
BY DEF Next, vars

\* Before the first connect nothing is up.
LEMMA LadderStart == Ladder!Init => Ladder!LadderInv
BY DEF Ladder!Init, Ladder!LadderInv, Ladder!Bare, Ladder!Climbing, Ladder!Raised

\* Of what the session says of itself one field or three are set.
LEMMA LadderSays ==
  ASSUME Ladder!LadderInv, Ladder!Next
  PROVE  Ladder!LadderInv'
<1> USE DEF Ladder!Bare, Ladder!Climbing, Ladder!Raised, Ladder!Silent
<1>1. ASSUME Ladder!Connect PROVE Ladder!LadderInv'
  BY <1>1 DEF Ladder!LadderInv, Ladder!Connect
<1>2. ASSUME Ladder!Reconnect PROVE Ladder!LadderInv'
  BY <1>2 DEF Ladder!LadderInv, Ladder!Reconnect, Ladder!StopAether
<1>3. ASSUME Ladder!Cancel PROVE Ladder!LadderInv'
  BY <1>3 DEF Ladder!LadderInv, Ladder!Cancel, Ladder!dial
<1>4. ASSUME Ladder!Disconnect PROVE Ladder!LadderInv'
  BY <1>4 DEF Ladder!LadderInv, Ladder!Disconnect, Ladder!StopAether
<1>5. ASSUME Ladder!FastWins PROVE Ladder!LadderInv'
  <2>1. s8' = [Ladder!Silent EXCEPT !.direct = TRUE] /\ s5' = Ladder!Off
    BY <1>5 DEF Ladder!LadderInv, Ladder!FastWins
  <2>2. s8'.direct = TRUE /\ s8'.warpOnly = FALSE
    BY <2>1 DEF Ladder!Silent
  <2> QED
    BY <1>5, <2>1, <2>2 DEF Ladder!LadderInv, Ladder!FastWins
<1>6. ASSUME Ladder!FastFails \/ Ladder!NextProtocol \/ Ladder!LastProtocol \/ Ladder!KeyArrives \/ Ladder!KeyLaneFails
      PROVE  Ladder!LadderInv'
  BY <1>6 DEF Ladder!LadderInv, Ladder!FastFails, Ladder!NextProtocol, Ladder!LastProtocol, Ladder!KeyArrives,
     Ladder!KeyLaneFails
<1>7. ASSUME Ladder!KeyFails \/ Ladder!DialCannotStart \/ Ladder!DialFails \/ Ladder!DialsUp \/ Ladder!Dial
      PROVE  Ladder!LadderInv'
  <2>1. CASE Ladder!Dial
    BY <2>1 DEF Ladder!LadderInv, Ladder!Dial, Ladder!dial
  <2>2. CASE Ladder!DialFails \/ Ladder!DialCannotStart
    BY <2>2 DEF Ladder!LadderInv, Ladder!DialFails, Ladder!DialCannotStart, Ladder!StopAether
  <2>3. CASE Ladder!KeyFails \/ Ladder!DialsUp
    BY <2>3 DEF Ladder!LadderInv, Ladder!KeyFails, Ladder!DialsUp, Ladder!GivesUp
  <2> QED
    BY <1>7, <2>1, <2>2, <2>3
<1>8. ASSUME Ladder!DialReady PROVE Ladder!LadderInv'
  <2>1. s8'.proto = Head(s2) /\ s8'.via = Head(s4)
    BY <1>8 DEF Ladder!DialReady
  <2> QED
    BY <1>8, <2>1 DEF Ladder!LadderInv, Ladder!DialReady
<1>9. ASSUME Ladder!Stopped \/ Ladder!PsiphonConnects \/ Ladder!PsiphonFails \/ Ladder!PsiphonGivesUp
      PROVE  Ladder!LadderInv'
  BY <1>9 DEF Ladder!LadderInv, Ladder!Stopped, Ladder!Raises, Ladder!PsiphonConnects, Ladder!PsiphonFails,
     Ladder!PsiphonGivesUp
<1>10. ASSUME Ladder!Outer PROVE Ladder!LadderInv'
  <2>1. CASE Ladder!Raised \/ (s1.chain /\ s8.exit = "none")
    <3>1. DOMAIN s8 = {"proto", "via", "direct", "warpOnly", "exit"}
      BY DEF Ladder!LadderInv
    <3>2. s8' = [s8 EXCEPT !.direct = s1.chain /\ ~Ladder!Raised, !.warpOnly = ~s1.chain]
      BY <1>10, <2>1 DEF Ladder!Outer
    <3>3. s8'.proto = s8.proto /\ s8'.via = s8.via /\ DOMAIN s8' = DOMAIN s8
      BY <3>1, <3>2
    <3>4. s8'.direct = (s1.chain /\ ~Ladder!Raised) /\ s8'.warpOnly = ~s1.chain
      BY <3>1, <3>2, Zenon
    <3>5. s11 = "none" /\ s11' = (IF s1.chain THEN "inner" ELSE "bridge") /\ s5' = s5 /\ s6' = s6
      BY <1>10, <2>1 DEF Ladder!Outer
    <3>6. CASE s1.chain
      BY <3>3, <3>4, <3>5, <3>6 DEF Ladder!LadderInv
    <3>7. CASE ~s1.chain
      BY <2>1, <3>3, <3>4, <3>5, <3>7 DEF Ladder!LadderInv
    <3> QED
      BY <3>6, <3>7
  <2>2. CASE ~(Ladder!Raised \/ (s1.chain /\ s8.exit = "none"))
    BY <1>10, <2>2 DEF Ladder!LadderInv, Ladder!Outer
  <2> QED
    BY <2>1, <2>2
<1>11. ASSUME Ladder!Bridge PROVE Ladder!LadderInv'
  BY <1>11 DEF Ladder!LadderInv, Ladder!Bridge
<1> QED
  BY <1>1, <1>2, <1>3, <1>4, <1>5, <1>6, <1>7, <1>8, <1>9, <1>10, <1>11 DEF Ladder!Next

\* So a session that is up is carried by what it shows.
LEMMA LadderShows == Ladder!LadderInv => Ladder!CarriedAsShown
BY DEF Ladder!LadderInv, Ladder!CarriedAsShown

\* memory, seen, last: s2 to s4; session, leg, network, start: s9 to s12; won: s15.
\* In part "memory" every step is one of PowMemory.
LEMMA MemoryPart ==
  ASSUME [Next]_vars, part = "memory"
  PROVE  \/ Memory!Next
         \/ UNCHANGED <<s1, s2, s3, s4, s5, s6, s7, s8, s9, s10, s11, s12, s13, s14, s15, s16>>
BY DEF Next, vars

\* The memory starts empty.
LEMMA MemoryStart == Memory!Init => Memory!MemoryInv
<1> SUFFICES ASSUME Memory!Init PROVE Memory!MemoryInv
  OBVIOUS
<1>1. DOMAIN s2 = {} /\ s4.shape = "" /\ s9 = "off" /\ s10 = "chained" /\ s15 = [l \in Memory!Legs |-> {}]
  BY DEF Memory!Init
<1> QED
  BY <1>1 DEF Memory!MemoryInv, Memory!StartIsKnown, Memory!Legs

\* A winner stays one.
LEMMA MemoryWonOnce ==
  ASSUME Memory!MemoryInv, s15' \in [Memory!Legs -> SUBSET {"A", "F"}],
         \A l \in Memory!Legs : s15[l] \subseteq s15'[l]
  PROVE  /\ \A l \in Memory!Legs : \A i : Memory!WonAt(l, i) => Memory!WonAt(l, i)'
         /\ \A e : Memory!EntryTrue(e) => Memory!EntryTrue(e)'
BY DEF Memory!WonAt, Memory!EntryTrue, Memory!strategy_ladder

\* What is stored for a network replaces its entry, and of the others some stay.
LEMMA MemoryStores ==
  ASSUME Memory!MemoryInv, NEW n, NEW e, Memory!Store(n, e), Memory!EntryTrue(e)',
         s15' \in [Memory!Legs -> SUBSET {"A", "F"}],
         \A l \in Memory!Legs : s15[l] \subseteq s15'[l]
  PROVE  (\A x \in DOMAIN s2 : Memory!EntryTrue(s2[x]))'
<1>1. \A x \in DOMAIN s2' : s2'[x] = e \/ (x \in DOMAIN s2 /\ s2'[x] = s2[x])
  BY DEF Memory!Store
<1>2. \A x \in DOMAIN s2 : Memory!EntryTrue(s2[x])
  BY DEF Memory!MemoryInv
<1>3. \A x \in DOMAIN s2 : \A v : v = s2[x] => Memory!EntryTrue(v)'
  BY <1>2, MemoryWonOnce
<1>4. \A x \in DOMAIN s2' : \A v : v = s2'[x] => Memory!EntryTrue(v)'
  BY <1>1, <1>3
<1> QED
  BY <1>4

\* A network that is not known has an entry without a winner.
LEMMA MemoryEntries ==
  ASSUME Memory!MemoryInv, NEW n
  PROVE  Memory!EntryTrue(Memory!Entry(n)) /\ DOMAIN Memory!Entry(n) = DOMAIN Memory!Blank
<1>1. Memory!EntryTrue(Memory!Blank)
  BY DEF Memory!EntryTrue, Memory!Blank, Memory!Legs
<1>2. CASE n \in DOMAIN s2
  BY <1>2 DEF Memory!Entry, Memory!MemoryInv, Memory!EntryTrue
<1>3. CASE n \notin DOMAIN s2
  BY <1>1, <1>3 DEF Memory!Entry
<1> QED
  BY <1>2, <1>3

\* Where a ladder starts.
LEMMA MemoryBegins ==
  ASSUME Memory!MemoryInv, NEW f, Memory!Inner(f)
  PROVE  Memory!MemoryInv'
<1>1. /\ s9' = "inner" /\ s10' = s10 /\ s15' = s15 /\ s2' = s2
      /\ s4' = IF Memory!Resets(s6, s10) THEN [shape |-> s10, index |-> 1] ELSE s4
  BY DEF Memory!Inner, Memory!signature
<1>2. s10 \in Memory!Legs
  BY DEF Memory!MemoryInv
<1>3. s4'.shape \in Memory!Legs => s4'.index = 1 \/ Memory!WonAt(s4'.shape, s4'.index)
  BY <1>1 DEF Memory!MemoryInv
<1>4. s12' = 1 \/ Memory!strategy_ladder(s10)[s12'] \in s15[s10]
  <2> DEFINE rtt == {s \in Memory!Entry(s6).rtt : s[1] = s10}
             at == {i \in 1..Len(Memory!strategy_ladder(s10)) : <<s10, Memory!strategy_ladder(s10)[i]>> \in rtt}
  <2>1. f \in (IF Memory!Cardinality(at) >= 2 THEN at ELSE {0})
    BY DEF Memory!Inner
  <2>2. s12' = IF f # 0 THEN f ELSE IF Memory!Remembered(s6, s10) # 0 THEN Memory!Remembered(s6, s10) ELSE 1
    BY DEF Memory!Inner
  <2>3. CASE f # 0
    <3>1. <<s10, Memory!strategy_ladder(s10)[f]>> \in Memory!Entry(s6).rtt
      BY <2>1, <2>3
    <3> QED
      BY <1>2, <2>2, <2>3, <3>1, MemoryEntries DEF Memory!EntryTrue
  <2>4. CASE f = 0 /\ Memory!Winner(s6, s10) # 0
    <3>1. s12' = Memory!Winner(s6, s10)
      BY <2>2, <2>4 DEF Memory!Remembered
    <3>2. Memory!Winner(s6, s10) = Memory!Entry(s6).index /\ Memory!Entry(s6).shape = s10
      BY <2>4 DEF Memory!Winner, Memory!signature
    <3> QED
      BY <1>2, <3>1, <3>2, MemoryEntries DEF Memory!EntryTrue, Memory!WonAt
  <2>5. CASE f = 0 /\ Memory!Winner(s6, s10) = 0
    <3>1. s12' = 1 \/ (s4.shape = s10 /\ s12' = s4.index)
      BY <2>2, <2>5 DEF Memory!Remembered, Memory!signature
    <3> QED
      BY <1>2, <3>1 DEF Memory!MemoryInv, Memory!WonAt
  <2> QED
    BY <2>3, <2>4, <2>5
<1>5. /\ \A l, i : Memory!WonAt(l, i)' <=> Memory!WonAt(l, i)
      /\ \A e : Memory!EntryTrue(e)' <=> Memory!EntryTrue(e)
  BY <1>1 DEF Memory!EntryTrue, Memory!WonAt
<1>6. (\A x \in DOMAIN s2 : Memory!EntryTrue(s2[x]))'
  BY <1>1, <1>5 DEF Memory!MemoryInv
<1>7. (s4.shape \in Memory!Legs => s4.index = 1 \/ Memory!WonAt(s4.shape, s4.index))'
  BY <1>3, <1>5
<1>8. Memory!StartIsKnown'
  BY <1>1, <1>4 DEF Memory!StartIsKnown
<1> QED
  BY <1>1, <1>6, <1>7, <1>8 DEF Memory!MemoryInv

\* A strategy that connects is a winner of its leg from then on.
LEMMA MemoryWins ==
  ASSUME Memory!MemoryInv, NEW i \in 1..2, Memory!Wins(i)
  PROVE  Memory!MemoryInv'
<1>1. /\ s9' = "up" /\ s10' = s10 /\ s12' = i /\ s4' = [shape |-> s10, index |-> i]
      /\ s15' = [s15 EXCEPT ![s10] = @ \cup {Memory!strategy_ladder(s10)[i]}]
  BY DEF Memory!Wins, Memory!signature
<1>2. s10 \in Memory!Legs /\ s15 \in [Memory!Legs -> SUBSET {"A", "F"}]
  BY DEF Memory!MemoryInv
<1>3. Memory!strategy_ladder(s10)[i] \in {"A", "F"}
  BY <1>2 DEF Memory!strategy_ladder, Memory!Legs
<1>4. /\ s15' \in [Memory!Legs -> SUBSET {"A", "F"}]
      /\ \A l \in Memory!Legs : s15[l] \subseteq s15'[l]
      /\ Memory!strategy_ladder(s10)[i] \in s15'[s10]
  BY <1>1, <1>2, <1>3
<1>5. \A l : l = s10 => Memory!WonAt(l, i)'
  BY <1>1, <1>4 DEF Memory!WonAt, Memory!strategy_ladder
<1>6. PICK e : e = [Memory!Entry(s11) EXCEPT !.shape = s10, !.index = i, !.pool = @ \cup s13]
  OBVIOUS
<1>7. Memory!Store(s11, e)
  BY <1>6 DEF Memory!Wins, Memory!signature
<1>8. e.shape = s10 /\ e.index = i /\ e.rtt = Memory!Entry(s11).rtt /\ DOMAIN e = DOMAIN Memory!Blank
  BY <1>6, MemoryEntries DEF Memory!Blank
<1>9. Memory!EntryTrue(e)'
  <2>1. PICK o : o = Memory!Entry(s11)
    OBVIOUS
  <2>2. Memory!EntryTrue(o)'
    BY <1>4, <2>1, MemoryEntries, MemoryWonOnce
  <2> QED
    BY <1>5, <1>8, <2>1, <2>2 DEF Memory!EntryTrue
<1>10. (\A x \in DOMAIN s2 : Memory!EntryTrue(s2[x]))'
  BY <1>4, <1>7, <1>9, MemoryStores
<1>11. Memory!WonAt(s10, s12)' /\ Memory!WonAt(s4.shape, s4.index)'
  BY <1>1, <1>5
<1> QED
  BY <1>1, <1>2, <1>4, <1>10, <1>11 DEF Memory!MemoryInv, Memory!StartIsKnown

\* A session that neither begins nor connects keeps what it knows.
LEMMA MemoryQuiet ==
  ASSUME Memory!MemoryInv, s15' = s15, s10' \in Memory!Legs,
         \A x \in DOMAIN s2' : Memory!EntryTrue(s2'[x]),
         s4' = s4 \/ s4'.shape \notin Memory!Legs,
         s9' \notin {"inner", "up"} \/ UNCHANGED <<s9, s10, s12>>
  PROVE  Memory!MemoryInv'
<1>1. \A l, i : Memory!WonAt(l, i)' <=> Memory!WonAt(l, i)
  BY DEF Memory!WonAt
<1>2. \A e : Memory!EntryTrue(e)' <=> Memory!EntryTrue(e)
  BY <1>1 DEF Memory!EntryTrue
<1>3. (\A x \in DOMAIN s2 : Memory!EntryTrue(s2[x]))'
  BY <1>2
<1>4. (s4.shape \in Memory!Legs => s4.index = 1 \/ Memory!WonAt(s4.shape, s4.index))'
  BY <1>1 DEF Memory!MemoryInv
<1>5. (s9 = "up" => Memory!WonAt(s10, s12))'
  BY <1>1 DEF Memory!MemoryInv
<1>6. Memory!StartIsKnown'
  BY DEF Memory!MemoryInv, Memory!StartIsKnown
<1>7. s10' \in Memory!Legs /\ s15' \in [Memory!Legs -> SUBSET {"A", "F"}]
  BY DEF Memory!MemoryInv
<1> QED
  BY <1>3, <1>4, <1>5, <1>6, <1>7 DEF Memory!MemoryInv

\* Every step keeps what is stored true.
LEMMA MemoryStep ==
  ASSUME Memory!MemoryInv, Memory!Next
  PROVE  Memory!MemoryInv'
<1>a. s10 \in Memory!Legs /\ \A x \in DOMAIN s2 : Memory!EntryTrue(s2[x])
  BY DEF Memory!MemoryInv
<1>1. ASSUME Memory!Forget PROVE Memory!MemoryInv'
  <2>1. DOMAIN s2' = {} /\ s4'.shape = "" /\ UNCHANGED <<s9, s10, s12, s15>>
    BY <1>1 DEF Memory!Forget
  <2> QED
    BY <1>a, <2>1, MemoryQuiet DEF Memory!Legs
<1>2. ASSUME NEW n, Memory!Move(n) PROVE Memory!MemoryInv'
  BY <1>2, <1>a, MemoryQuiet DEF Memory!Move, Memory!doc
<1>3. ASSUME NEW l \in Memory!Legs, Memory!Connect(l) PROVE Memory!MemoryInv'
  BY <1>3, <1>a, MemoryQuiet DEF Memory!Connect, Memory!doc
<1>4. ASSUME NEW i, NEW n, Memory!Detected(i, n) PROVE Memory!MemoryInv'
  BY <1>4, <1>a, MemoryQuiet DEF Memory!Detected, Memory!doc
<1>5. ASSUME NEW p, Memory!Accept(p) PROVE Memory!MemoryInv'
  BY <1>5, <1>a, MemoryQuiet DEF Memory!Accept, Memory!doc
<1>6. ASSUME Memory!Read PROVE Memory!MemoryInv'
  BY <1>6, <1>a, MemoryQuiet DEF Memory!Read, Memory!doc
<1>7. ASSUME NEW answers, Memory!Probed(answers) PROVE Memory!MemoryInv'
  <2>1. UNCHANGED <<s4, s9, s10, s12, s15>>
    BY <1>7 DEF Memory!Probed
  <2>2. CASE answers = {}
    BY <1>7, <1>a, <2>1, <2>2, MemoryQuiet DEF Memory!Probed
  <2>3. CASE answers # {}
    <3> DEFINE e == [Memory!Entry(s14.network) EXCEPT !.pool = s14.pool \cup answers]
    <3>1. Memory!Store(s14.network, e)
      BY <1>7, <2>3 DEF Memory!Probed
    <3>2. Memory!EntryTrue(e)
      BY MemoryEntries DEF Memory!EntryTrue, Memory!Blank
    <3> HIDE DEF e
    <3>3. \A x \in DOMAIN s2' : Memory!EntryTrue(s2'[x])
      BY <1>a, <3>1, <3>2 DEF Memory!Store
    <3> QED
      BY <1>a, <2>1, <3>3, MemoryQuiet
  <2> QED
    BY <2>2, <2>3
<1>8. ASSUME Memory!Measured PROVE Memory!MemoryInv'
  <2> DEFINE m == <<s10, Memory!strategy_ladder(s10)[s12]>>
             e == [Memory!Entry(s11) EXCEPT !.rtt = @ \cup {m}]
  <2>1. UNCHANGED <<s4, s9, s10, s12, s15>> /\ Memory!Store(s11, e)
    BY <1>8 DEF Memory!Measured
  <2>2. m[1] = s10 /\ m[2] \in s15[s10]
    BY <1>8 DEF Memory!Measured, Memory!MemoryInv, Memory!WonAt
  <2> HIDE DEF m
  <2>3. e.shape = Memory!Entry(s11).shape /\ e.index = Memory!Entry(s11).index
        /\ e.rtt = Memory!Entry(s11).rtt \cup {m}
    BY MemoryEntries DEF Memory!Blank
  <2>4. Memory!EntryTrue(e)
    BY <2>2, <2>3, MemoryEntries DEF Memory!EntryTrue
  <2> HIDE DEF e
  <2>5. \A x \in DOMAIN s2' : Memory!EntryTrue(s2'[x])
    BY <1>a, <2>1, <2>4 DEF Memory!Store
  <2> QED
    BY <1>a, <2>1, <2>5, MemoryQuiet
<1>9. ASSUME Memory!Disconnect PROVE Memory!MemoryInv'
  BY <1>9, <1>a, MemoryQuiet DEF Memory!Disconnect, Memory!doc
<1> QED
  BY <1>1, <1>2, <1>3, <1>4, <1>5, <1>6, <1>7, <1>8, <1>9, MemoryBegins, MemoryWins, Zenon DEF Memory!Next

\* What a session of UAC PoW shows is what carries it, a ladder starts where it knows it may,
\* and a key shown as fresh is not older than the question for it.
THEOREM ShownIsSo == Spec => []KnownIsTrue
<1> DEFINE Inv == /\ part = "ladder" => Ladder!LadderInv
                  /\ part = "memory" => Memory!MemoryInv
                  /\ part = "ech" => EchCache!EchInv /\ EchCache!FreshInv
<1>1. Init => Inv
  <2> SUFFICES ASSUME Init PROVE Inv
    OBVIOUS
  <2>1. ASSUME part = "ech" PROVE EchCache!EchInv /\ EchCache!FreshInv
    BY <2>1, EchInit, EchFreshInit DEF Init
  <2> QED
    BY <2>1, LadderStart, MemoryStart DEF Init
<1>2. Inv /\ [Next]_vars => Inv'
  <2> SUFFICES ASSUME Inv, [Next]_vars PROVE Inv'
    OBVIOUS
  <2>1. part' = part
    BY PartStays
  <2>2. ASSUME part = "ladder" PROVE Ladder!LadderInv'
    <3>1. CASE Ladder!Next
      BY <2>2, <3>1, LadderSays
    <3>2. CASE UNCHANGED <<s2, s4, s5, s6, s8, s11>>
      BY <2>2, <3>2 DEF Ladder!LadderInv, Ladder!Raised, Ladder!Bare, Ladder!Climbing
    <3> QED
      BY <2>2, <3>1, <3>2, LadderPart
  <2>3. ASSUME part = "memory" PROVE Memory!MemoryInv'
    <3>1. CASE Memory!Next
      BY <2>3, <3>1, MemoryStep
    <3>2. CASE UNCHANGED <<s2, s4, s9, s10, s12, s15>>
      BY <2>3, <3>2 DEF Memory!MemoryInv, Memory!EntryTrue, Memory!WonAt, Memory!StartIsKnown
    <3> QED
      BY <2>3, <3>1, <3>2, MemoryPart
  <2>4. ASSUME part = "ech" PROVE (EchCache!EchInv /\ EchCache!FreshInv)'
    BY <2>4, EchPart, EchNext, EchFreshNext DEF EchCache!EchInv
  <2> QED
    BY <2>1, <2>2, <2>3, <2>4
<1>3. Inv => KnownIsTrue
  BY LadderShows DEF KnownIsTrue, Memory!MemoryInv, EchCache!FreshInv
<1> QED
  BY <1>1, <1>2, <1>3, PTL DEF Spec

(***************************************************************************)
(* What is learned from an attempt                                         *)
(***************************************************************************)
\* Wire and EdgeChoice are PatternCore with preferred and failed as s3 and s4.

\* An edge that fails is no longer preferred, and one that answers has not failed.
LEMMA WireStep ==
  ASSUME Wire!PreferredHealthy, Wire!Next
  PROVE  Wire!PreferredHealthy'
<1> USE DEF Wire!PreferredHealthy, Wire!NoEdge
<1>1. ASSUME NEW e, s4' = s4 \union {e}, s3' = (IF s3 = e THEN 0 ELSE s3) PROVE Wire!PreferredHealthy'
  BY <1>1
<1>2. CASE Wire!Start \/ Wire!Stop
  BY <1>2 DEF Wire!Start, Wire!Stop
<1>3. ASSUME NEW s \in WireSessions, Wire!DialFails(s) PROVE Wire!PreferredHealthy'
  BY <1>1, <1>3 DEF Wire!DialFails, Wire!Blame
<1>4. ASSUME NEW s \in WireSessions, Wire!Connected(s) PROVE Wire!PreferredHealthy'
  BY <1>4 DEF Wire!Connected
<1>5. ASSUME NEW s \in WireSessions, Wire!NoAnswer(s) PROVE Wire!PreferredHealthy'
  BY <1>1, <1>5 DEF Wire!NoAnswer, Wire!Blame
<1>6. ASSUME NEW e, Wire!Cool(e) PROVE Wire!PreferredHealthy'
  BY <1>6 DEF Wire!Cool
<1>7. ASSUME NEW s \in WireSessions,
             \/ Wire!Accept(s) \/ Wire!Admit(s) \/ Wire!Ask(s) \/ Wire!TakeEdgeLock(s)
             \/ Wire!NoEdgeLeft(s) \/ Wire!Dial(s) \/ Wire!Hello(s) \/ Wire!Answered(s)
             \/ Wire!SessionEnds(s) \/ Wire!PeerAccepts(s) \/ Wire!Handshaken(s)
             \/ Wire!PeerAcksFake(s) \/ Wire!Strange(s) \/ Wire!Inject(s) \/ Wire!FakeBegins(s)
             \/ Wire!FakeChecks(s) \/ Wire!FakeSends(s) \/ Wire!FakeFails(s)
      PROVE  Wire!PreferredHealthy'
  <2>1. UNCHANGED <<s3, s4>>
    BY <1>7 DEF Wire!Accept, Wire!Admit, Wire!Ask, Wire!TakeEdgeLock, Wire!NoEdgeLeft, Wire!Dial,
      Wire!Hello, Wire!Answered, Wire!SessionEnds, Wire!PeerAccepts, Wire!Handshaken,
      Wire!PeerAcksFake, Wire!Strange, Wire!Inject, Wire!FakeBegins, Wire!FakeChecks,
      Wire!FakeSends, Wire!FakeFails, Wire!FlowOnly, Wire!choice
  <2> QED
    BY <2>1
<1> QED
  BY <1>2, <1>3, <1>4, <1>5, <1>6, <1>7 DEF Wire!Next

\* The same of the sessions that fail over.
LEMMA EdgeChoiceStep ==
  ASSUME EdgeChoice!PreferredHealthy, EdgeChoice!Next
  PROVE  EdgeChoice!PreferredHealthy'
<1> USE DEF EdgeChoice!PreferredHealthy, EdgeChoice!NoEdge
<1>1. ASSUME NEW e, s4' = s4 \union {e}, s3' = (IF s3 = e THEN 0 ELSE s3) PROVE EdgeChoice!PreferredHealthy'
  BY <1>1
<1>2. CASE EdgeChoice!Start \/ EdgeChoice!Stop
  BY <1>2 DEF EdgeChoice!Start, EdgeChoice!Stop
<1>3. ASSUME NEW s \in EdgesSessions, EdgeChoice!DialFails(s) PROVE EdgeChoice!PreferredHealthy'
  BY <1>1, <1>3 DEF EdgeChoice!DialFails, EdgeChoice!Blame
<1>4. ASSUME NEW s \in EdgesSessions, EdgeChoice!Connected(s) PROVE EdgeChoice!PreferredHealthy'
  BY <1>4 DEF EdgeChoice!Connected
<1>5. ASSUME NEW s \in EdgesSessions, EdgeChoice!NoAnswer(s) PROVE EdgeChoice!PreferredHealthy'
  BY <1>1, <1>5 DEF EdgeChoice!NoAnswer, EdgeChoice!Blame
<1>6. ASSUME NEW e, EdgeChoice!Cool(e) PROVE EdgeChoice!PreferredHealthy'
  BY <1>6 DEF EdgeChoice!Cool
<1>7. ASSUME NEW s \in EdgesSessions,
             \/ EdgeChoice!Accept(s) \/ EdgeChoice!Admit(s) \/ EdgeChoice!Ask(s) \/ EdgeChoice!TakeEdgeLock(s)
             \/ EdgeChoice!NoEdgeLeft(s) \/ EdgeChoice!Dial(s) \/ EdgeChoice!Hello(s) \/ EdgeChoice!Answered(s)
             \/ EdgeChoice!SessionEnds(s) \/ EdgeChoice!PeerAccepts(s) \/ EdgeChoice!Handshaken(s)
             \/ EdgeChoice!PeerAcksFake(s) \/ EdgeChoice!Strange(s) \/ EdgeChoice!Inject(s) \/ EdgeChoice!FakeBegins(s)
             \/ EdgeChoice!FakeChecks(s) \/ EdgeChoice!FakeSends(s) \/ EdgeChoice!FakeFails(s)
      PROVE  EdgeChoice!PreferredHealthy'
  <2>1. UNCHANGED <<s3, s4>>
    BY <1>7 DEF EdgeChoice!Accept, EdgeChoice!Admit, EdgeChoice!Ask, EdgeChoice!TakeEdgeLock, EdgeChoice!NoEdgeLeft, EdgeChoice!Dial,
      EdgeChoice!Hello, EdgeChoice!Answered, EdgeChoice!SessionEnds, EdgeChoice!PeerAccepts, EdgeChoice!Handshaken,
      EdgeChoice!PeerAcksFake, EdgeChoice!Strange, EdgeChoice!Inject, EdgeChoice!FakeBegins, EdgeChoice!FakeChecks,
      EdgeChoice!FakeSends, EdgeChoice!FakeFails, EdgeChoice!FlowOnly, EdgeChoice!choice
  <2> QED
    BY <2>1
<1> QED
  BY <1>2, <1>3, <1>4, <1>5, <1>6, <1>7 DEF EdgeChoice!Next

\* list, method, ops, plan: s1, s4, s5, s6.
\* What a file brings under an id is one of its strategies that are usable.
LEMMA GeneStays ==
  ASSUME GeneAssumption, NEW file, NEW i \in Gene!Loaded(file),
         \/ \E s \in GeneRaw : file = <<s>>
         \/ \E s, t \in GeneRaw : file = <<s, t>>
  PROVE  \E s \in GeneRaw : s = file[Gene!Stays(file, file[i].id)] /\ Gene!Usable(s)
<1> DEFINE Of == {k \in Gene!Loaded(file) : file[k].id = file[i].id}
           Last(k) == \A j \in Gene!Loaded(file) :
                        file[j].id = file[i].id => j = k \/ Gene!Earlier(file, j, k)
<1>1. Gene!Loaded(file) \subseteq {1, 2} /\ \A k \in Gene!Loaded(file) : file[k].score \in Int
  BY GeneAssumption DEF Gene!Loaded
<1>2. \A j, k \in Gene!Loaded(file) : j = k \/ Gene!Earlier(file, j, k) \/ Gene!Earlier(file, k, j)
  BY <1>1 DEF Gene!Earlier
<1>3. \E k \in Gene!Loaded(file) : file[k].id = file[i].id /\ Last(k)
  <2>1. CASE Of \subseteq {i}
    BY <2>1
  <2>2. CASE ~(Of \subseteq {i})
    <3>1. PICK k \in Of : k # i
      BY <2>2
    <3>2. \A j \in Of : j \in {i, k}
      BY <1>1, <3>1
    <3>3. CASE Gene!Earlier(file, i, k)
      BY <3>1, <3>2, <3>3
    <3>4. CASE Gene!Earlier(file, k, i)
      BY <3>1, <3>2, <3>4
    <3> QED
      BY <1>2, <3>1, <3>3, <3>4
  <2> QED
    BY <2>1, <2>2
<1>4. Gene!Stays(file, file[i].id) \in Gene!Loaded(file)
  BY <1>3 DEF Gene!Stays
<1>5. \A k \in Gene!Loaded(file) : file[k] \in GeneRaw /\ Gene!Usable(file[k])
  BY DEF Gene!Loaded
<1> QED
  BY <1>4, <1>5

\* What is kept of a primitive strategy that is usable is confirmed.
LEMMA GeneNormal ==
  ASSUME NEW s \in GeneRaw, Gene!Usable(s), NEW o, o = Gene!Normal(s)
  PROVE  o.method = "primitive" => Gene!Confirmed(o.ops)
<1>1. o.method = s.method
  BY DEF Gene!Normal
<1>2. CASE s.method = "primitive"
  <2>1. o.ops = Gene!Kept(s.ops)
    BY <1>2 DEF Gene!Normal
  <2> QED
    BY <1>2, <2>1 DEF Gene!Confirmed
<1> QED
  BY <1>1, <1>2

\* No op of a confirmed list is unsafe.
LEMMA GeneSafe ==
  ASSUME NEW os, Gene!Confirmed(os)
  PROVE  \A x \in Gene!ToSet(os) : x.kind \in Gene!Safe
BY DEF Gene!Confirmed, Gene!Usable, Gene!TunnelSafe

\* Whatever is imported, selected and cut, what runs of it is confirmed.
LEMMA GeneStep ==
  ASSUME GeneAssumption, Gene!GeneInv, Gene!Next
  PROVE  Gene!GeneInv'
<1> DEFINE Imported(l) == \A id \in DOMAIN l : l[id].method = "primitive" => Gene!Confirmed(l[id].ops)
           Taken(m, o) == m = "primitive" => Gene!Confirmed(o)
           Run(m, p) == (m = "none" => p = Gene!NoPlan) /\ (m = "primitive" /\ p.pieces # <<>> /\ ~p.fell => p.skipped = {})
<1>a. Imported(s1) /\ Taken(s4, s5) /\ Run(s4, s6)
  BY DEF Gene!GeneInv, Gene!RunAsConfirmed
<1>b. Imported(s1') /\ Taken(s4', s5') /\ Run(s4', s6') => Gene!GeneInv'
  BY DEF Gene!GeneInv, Gene!RunAsConfirmed
<1>1. ASSUME NEW file, Gene!Import(file),
             \/ \E s \in GeneRaw : file = <<s>>
             \/ \E s, t \in GeneRaw : file = <<s, t>>
      PROVE  Gene!GeneInv'
  <2>1. s1' = Gene!Merge(file) /\ UNCHANGED <<s4, s5, s6>>
    BY <1>1 DEF Gene!Import
  <2>2. ASSUME NEW id \in DOMAIN s1' PROVE s1'[id].method = "primitive" => Gene!Confirmed(s1'[id].ops)
    <3>1. CASE \E i \in Gene!Loaded(file) : file[i].id = id
      <4>1. PICK i \in Gene!Loaded(file) : file[i].id = id
        BY <3>1
      <4>2. PICK s \in GeneRaw : s = file[Gene!Stays(file, file[i].id)] /\ Gene!Usable(s)
        BY <1>1, GeneStays
      <4>3. s1'[id] = Gene!Normal(s)
        BY <2>1, <2>2, <4>1, <4>2 DEF Gene!Merge
      <4> QED
        BY <4>2, <4>3, GeneNormal, Zenon
    <3>2. CASE ~\E i \in Gene!Loaded(file) : file[i].id = id
      BY <1>a, <2>1, <2>2, <3>2 DEF Gene!Merge
    <3> QED
      BY <3>1, <3>2
  <2> QED
    BY <1>a, <1>b, <2>1, <2>2
<1>2. CASE Gene!Clear
  BY <1>2, <1>a, <1>b DEF Gene!Clear
<1>3. ASSUME NEW id, Gene!Select(id) PROVE Gene!GeneInv'
  BY <1>3, <1>a, <1>b DEF Gene!Select
<1>4. CASE Gene!Overlay
  <2>1. s1' = s1 /\ s6' = s6 /\ s6 = Gene!NoPlan
    BY <1>4, <1>a DEF Gene!Overlay
  <2>2. Taken(s4', s5')
    BY <1>4, <1>a DEF Gene!Overlay
  <2> QED
    BY <1>a, <1>b, <2>1, <2>2 DEF Gene!NoPlan
<1>5. ASSUME NEW data, Gene!Cut(data) PROVE Gene!GeneInv'
  <2>1. UNCHANGED <<s1, s4, s5>> /\ s4 # "none"
    BY <1>5 DEF Gene!Cut
  <2>2. CASE s4 = "primitive"
    <3>1. s6' = Gene!BuildPlan(data, s5)
      BY <1>5, <2>2 DEF Gene!Cut
    <3>2. {x \in Gene!ToSet(s5) : x.kind \notin Gene!Safe} = {}
      BY <1>a, <2>2, GeneSafe
    <3>3. ~s6'.fell => s6'.skipped = {}
      BY <3>1, <3>2 DEF Gene!BuildPlan
    <3> QED
      BY <1>a, <1>b, <2>1, <2>2, <3>3
  <2> QED
    BY <1>a, <1>b, <2>1, <2>2
<1>6. CASE Gene!Again
  BY <1>6, <1>a, <1>b DEF Gene!Again, Gene!NoPlan
<1> QED
  <2>1. ASSUME NEW s \in GeneRaw, Gene!Import(<<s>>) PROVE Gene!GeneInv'
    BY <1>1, <2>1
  <2>2. ASSUME NEW s \in GeneRaw, NEW t \in GeneRaw, Gene!Import(<<s, t>>) PROVE Gene!GeneInv'
    BY <1>1, <2>2
  <2> QED
    BY <1>2, <1>3, <1>4, <1>5, <1>6, <2>1, <2>2 DEF Gene!Next

\* page: s1; thread, cancel, opt, queue, now, engine, pinned, pool, memory, blamed: s3 to s12.
\* What is left to try.
FlowQueues == [profiles : Seq(FlowProfiles), genes : Seq(FlowGenes \union {""}),
               others : Seq([method : Flow!Names, mux : BOOLEAN])]

\* What is built of the elements of a set is a sequence of them.
LEMMA SmallSequences ==
  ASSUME NEW T
  PROVE  /\ <<>> \in Seq(T) /\ \A x \in T : <<x>> \in Seq(T)
         /\ \A x, y \in Seq(T) : x \o y \in Seq(T)
         /\ \A A : A \subseteq T => \A q \in Seq(A) : q \in Seq(T)
         /\ \A q \in Seq(T) : (\A x \in T : Append(q, x) \in Seq(T))
                              /\ (q # <<>> => Head(q) \in T /\ Tail(q) \in Seq(T))
         /\ \A n \in Nat : \A q \in [1..n -> T] : q \in Seq(T)
OBVIOUS

\* Orders of a finite set are sequences of its elements.
LEMMA FlowOrders ==
  ASSUME NEW S, IsFiniteSet(S), NEW s \in Flow!Orders(S)
  PROVE  s \in Seq(S)
<1>1. Flow!Cardinality(S) \in Nat
  BY FS_CardinalityType DEF Flow!Cardinality, Cardinality
<1> QED
  BY <1>1, SmallSequences DEF Flow!Orders

\* The profiles a thread may try.
LEMMA FlowProfilesOrdered ==
  ASSUME FlowAssumption, NEW o, NEW s \in Flow!Ordered(o)
  PROVE  s \in Seq(FlowProfiles)
<1>1. CASE o.auto
  BY <1>1, FlowOrders DEF Flow!Ordered, FlowAssumption
<1>2. CASE ~o.auto
  <2>1. PICK p \in FlowProfiles : s = <<p>>
    BY <1>2 DEF Flow!Ordered
  <2> QED
    BY <2>1, SmallSequences
<1> QED
  BY <1>1, <1>2

\* The genes it may try with one.
LEMMA FlowGenesOrdered ==
  ASSUME FlowAssumption, s10.genes \subseteq FlowGenes, NEW p, NEW s \in Flow!GenesFor(p)
  PROVE  s \in Seq(FlowGenes \union {""})
<1> DEFINE T == FlowGenes \union {""}
<1>0. "" \in T /\ FlowGenes \subseteq T
  BY Zenon
<1>1. CASE s = <<"">>
  BY <1>0, <1>1, SmallSequences, Zenon
<1>2. CASE s # <<"">>
  <2>1. \E H \in SUBSET s10.genes : \E q \in Flow!Orders(H) : s = q \/ s = Append(q, "")
    BY <1>2 DEF Flow!GenesFor
  <2>0. PICK H \in SUBSET s10.genes : \E q \in Flow!Orders(H) : s = q \/ s = Append(q, "")
    BY <2>1
  <2>2. PICK q \in Flow!Orders(H) : s = q \/ s = Append(q, "")
    BY <2>0
  <2>3. IsFiniteSet(H) /\ H \subseteq FlowGenes
    BY FS_Subset DEF FlowAssumption
  <2>4. q \in Seq(H)
    BY <2>3, FlowOrders
  <2>5. q \in Seq(T)
    <3>1. H \subseteq T
      BY <1>0, <2>3, Zenon
    <3> HIDE DEF T
    <3> QED
      BY <2>4, <3>1, SmallSequences
  <2> QED
    BY <1>0, <2>2, <2>5, SmallSequences, Zenon
<1> QED
  BY <1>1, <1>2, Zenon

\* The fallbacks an attempt may have.
LEMMA FlowFallbacks ==
  ASSUME NEW a, a.method \in Flow!Names, a.mux \in BOOLEAN
  PROVE  Flow!Fallbacks(a) \in Seq([method : Flow!Names, mux : BOOLEAN])
<1> DEFINE T == [method : Flow!Names, mux : BOOLEAN]
           m == IF s5.carrier = "mci" /\ ~s5.locked /\ a.method = "tls" THEN "wrong_seq" ELSE a.method
           q1 == <<[method |-> m, mux |-> a.mux]>>
           q2 == <<[method |-> m, mux |-> FALSE]>>
           q3 == [i \in 1..2 |-> [method |-> Flow!Adaptive(m)[i], mux |-> FALSE]]
<1>1. m \in Flow!Names /\ {"wrong_seq", "full5", "tls"} \subseteq Flow!Names
  BY DEF Flow!Names, Flow!Methods
<1>2. q1 \in Seq(T) /\ q2 \in Seq(T) /\ <<>> \in Seq(T)
  BY <1>1
<1>3. Flow!Adaptive(m)[1] \in Flow!Names /\ Flow!Adaptive(m)[2] \in Flow!Names
  BY <1>1 DEF Flow!Adaptive
<1>4. q3 \in Seq(T)
  <2>1. \A i \in 1..2 : q3[i] \in T
    BY <1>3
  <2>2. q3 \in [1..2 -> T]
    BY <2>1
  <2> HIDE DEF T, q3
  <2> QED
    BY <2>2, SmallSequences
<1>5. \E x, y, z \in {<<>>, q1, q2, q3} : Flow!Fallbacks(a) \in {<<>>, x \o y \o z}
  BY DEF Flow!Fallbacks
<1>6. \A x, y, z \in {<<>>, q1, q2, q3} : x \o y \o z \in Seq(T)
  <2> HIDE DEF T, q1, q2, q3
  <2>1. {<<>>, q1, q2, q3} \subseteq Seq(T)
    BY <1>2, <1>4
  <2> QED
    BY <2>1, SmallSequences
<1> HIDE DEF q1, q2, q3
<1> QED
  <2> HIDE DEF T
  <2>1. Flow!Fallbacks(a) \in Seq(T)
    BY <1>2, <1>5, <1>6
  <2> QED
    BY <2>1 DEF T

\* The method an attempt begins with has a name.
LEMMA FlowUsual ==
  ASSUME Flow!Typed, NEW p \in FlowProfiles
  PROVE  Flow!Usual(p) \in Flow!Names /\ Flow!Mux(p) \in BOOLEAN
BY DEF Flow!Usual, Flow!Default, Flow!Typed, Flow!Names, Flow!Methods, Flow!Mux

\* Before the first connect nothing runs and nothing is remembered.
LEMMA FlowStart == Flow!Init => Flow!RouteInv
<1> SUFFICES ASSUME Flow!Init PROVE Flow!RouteInv
  OBVIOUS
<1>1. "" \in Flow!Names /\ "" \in FlowProfiles \union {""} /\ "" \in FlowGenes \union {""}
  BY Zenon DEF Flow!Names
<1>2. Flow!Off \in [profile : FlowProfiles \union {""}, gene : FlowGenes \union {""},
                   method : Flow!Names, mux : BOOLEAN]
  BY <1>1, Zenon DEF Flow!Off
<1>3. Flow!NoQueue \in FlowQueues
  BY SmallSequences, Zenon DEF Flow!NoQueue, FlowQueues
<1>4. Flow!Typed
  <2>1. s7 = Flow!Off /\ s8 = Flow!Off /\ s6 = Flow!NoQueue /\ s9 = ""
    BY DEF Flow!Init
  <2>2. s10.genes \subseteq FlowGenes /\ DOMAIN s10 = {"genes", "used"}
    BY DEF Flow!Init
  <2>3. DOMAIN s11 = {"fails", "cooled", "route", "single", "failed"} /\ s11.route = [p \in FlowProfiles |-> ""]
    BY DEF Flow!Init
  <2>4. s11.route \in [FlowProfiles -> Flow!Names]
    BY <1>1, <2>3, Zenon
  <2> QED
    BY <1>1, <1>2, <1>3, <2>1, <2>2, <2>3, <2>4, Zenon DEF Flow!Typed, FlowQueues
<1> QED
  BY <1>4 DEF Flow!Init, Flow!RouteInv, Flow!NobodyBlamed

\* What the first pages, the steps of an attempt and what is recorded keep of the types.
LEMMA FlowTyped ==
  ASSUME FlowAssumption, Flow!RouteInv, Flow!Next
  PROVE  Flow!Typed'
<1>a. Flow!Typed
  BY DEF Flow!RouteInv
<1>1. CASE Flow!ClickConnect \/ Flow!Resume
  <2>1. Flow!Begins
    BY <1>1 DEF Flow!ClickConnect, Flow!Resume
  <2>2. /\ UNCHANGED <<s7, s8, s11>> /\ s9' = ""
        /\ s10'.genes \subseteq FlowGenes /\ DOMAIN s10' = {"genes", "used"}
    BY <2>1 DEF Flow!Begins
  <2>3. \E s \in Seq(FlowProfiles) : s6' = [Flow!NoQueue EXCEPT !.profiles = s]
    BY <2>1, FlowProfilesOrdered DEF Flow!Begins
  <2>4. \E s \in Seq(FlowProfiles) : s6' = [profiles |-> s, genes |-> <<>>, others |-> <<>>]
    BY <2>3 DEF Flow!NoQueue
  <2>5. s6' \in FlowQueues
    <3>1. PICK s \in Seq(FlowProfiles) : s6' = [profiles |-> s, genes |-> <<>>, others |-> <<>>]
      BY <2>4
    <3> QED
      BY <3>1, SmallSequences, Zenon DEF FlowQueues
  <2>6. "" \in Flow!Names
    BY Zenon DEF Flow!Names
  <2> QED
    BY <1>a, <2>2, <2>5, <2>6, Zenon DEF Flow!Typed, FlowQueues, Flow!Names, Flow!Methods
<1>2. CASE Flow!ClickDisconnect \/ Flow!ClickTooEarly
  BY <1>2, <1>a DEF Flow!ClickDisconnect, Flow!ClickTooEarly, Flow!CancelAttempt, Flow!plan, Flow!Typed
<1>3. CASE Flow!Cancelled \/ Flow!NoProfile \/ Flow!Judged \/ Flow!RecordCancelled
           \/ Flow!ThreadEnds \/ Flow!ShowsOn \/ Flow!EngineRaises
  <2>1. UNCHANGED <<s6, s7, s9, s10, s11>> /\ s8' \in {s8, Flow!Off}
    BY <1>3 DEF Flow!Cancelled, Flow!NoProfile, Flow!Judged, Flow!RecordCancelled,
      Flow!ThreadEnds, Flow!ShowsOn, Flow!EngineRaises, Flow!plan, Flow!button
  <2> QED
    BY <1>a, <2>1 DEF Flow!Typed
<1>4. CASE Flow!NextProfile
  <2>1. UNCHANGED <<s7, s8, s9, s11>> /\ s10' = [s10 EXCEPT !.used = s10'.used]
    BY <1>4, <1>a DEF Flow!NextProfile, Flow!Typed
  <2>2. \E s \in Seq(FlowGenes \union {""}) : s6' = [s6 EXCEPT !.genes = s, !.others = <<>>]
    BY <1>4, <1>a, FlowGenesOrdered DEF Flow!NextProfile, Flow!Typed
  <2>3. s6' \in FlowQueues
    <3>1. PICK s \in Seq(FlowGenes \union {""}) : s6' = [s6 EXCEPT !.genes = s, !.others = <<>>]
      BY <2>2
    <3>2. s6 \in FlowQueues
      BY <1>a DEF Flow!Typed, FlowQueues
    <3>3. s6' = [profiles |-> s6.profiles, genes |-> s, others |-> <<>>]
      BY <3>1, <3>2 DEF FlowQueues
    <3> QED
      BY <3>2, <3>3, SmallSequences, Zenon DEF FlowQueues
  <2> QED
    BY <1>a, <2>1, <2>3 DEF Flow!Typed, FlowQueues
<1>5. CASE Flow!NextAttempt
  <2>1. /\ UNCHANGED <<s8, s10, s11>> /\ s6.genes # <<>> /\ s6.profiles # <<>>
        /\ s6' = [s6 EXCEPT !.genes = Tail(@), !.others = Flow!Fallbacks(s7')]
    BY <1>5 DEF Flow!NextAttempt, Flow!plan, Flow!RouteInv
  <2>2. s6 \in FlowQueues
    BY <1>a DEF Flow!Typed, FlowQueues
  <2>3. /\ Head(s6.profiles) \in FlowProfiles /\ Head(s6.genes) \in FlowGenes \union {""}
        /\ Tail(s6.genes) \in Seq(FlowGenes \union {""})
    <3>1. s6.profiles \in Seq(FlowProfiles) /\ s6.genes \in Seq(FlowGenes \union {""})
      BY <2>2 DEF FlowQueues
    <3> QED
      BY <2>1, <3>1, SmallSequences, Zenon
  <2>4. PICK m : /\ m \in {Head(s6.genes), s9, Flow!Usual(Head(s6.profiles))}
                 /\ s7' = [profile |-> Head(s6.profiles), gene |-> Head(s6.genes), method |-> m,
                          mux |-> Flow!Mux(Head(s6.profiles))]
                 /\ s9' \in {m, s9}
    BY <1>5 DEF Flow!NextAttempt
  <2>5. FlowGenes \union {""} \subseteq Flow!Names /\ s9 \in Flow!Names
    BY <1>a, Zenon DEF Flow!Names, Flow!Typed
  <2>6. m \in Flow!Names /\ Flow!Mux(Head(s6.profiles)) \in BOOLEAN
    BY <1>a, <2>3, <2>4, <2>5, FlowUsual, Zenon
  <2>7. s7' \in [profile : FlowProfiles \union {""}, gene : FlowGenes \union {""}, method : Flow!Names,
               mux : BOOLEAN]
    BY <2>3, <2>4, <2>6, Zenon
  <2>8. s7'.method = m /\ s7'.mux = Flow!Mux(Head(s6.profiles))
    BY <2>4
  <2>9. Flow!Fallbacks(s7') \in Seq([method : Flow!Names, mux : BOOLEAN])
    BY <2>6, <2>8, FlowFallbacks
  <2>10. s6' = [profiles |-> s6.profiles, genes |-> Tail(s6.genes), others |-> Flow!Fallbacks(s7')]
    BY <2>1, <2>2 DEF FlowQueues
  <2>11. s6' \in FlowQueues
    BY <2>2, <2>3, <2>9, <2>10, Zenon DEF FlowQueues
  <2>12. s9' \in Flow!Names
    BY <2>4, <2>5, <2>6, Zenon
  <2> QED
    BY <1>a, <2>1, <2>7, <2>11, <2>12 DEF Flow!Typed, FlowQueues
<1>6. CASE Flow!EngineStarts \/ Flow!ProbeSucceeds
  BY <1>6, <1>a DEF Flow!EngineStarts, Flow!ProbeSucceeds, Flow!Takes, Flow!plan, Flow!Typed, Flow!RouteInv
<1>7. CASE Flow!ProbeFails
  <2>1. UNCHANGED <<s7, s9, s10, s11>> /\ s8 # Flow!Off
    BY <1>7 DEF Flow!ProbeFails, Flow!plan, Flow!RouteInv
  <2>2. CASE s6.others = <<>>
    BY <1>7, <1>a, <2>1, <2>2 DEF Flow!ProbeFails, Flow!Typed
  <2>3. CASE s6.others # <<>>
    <3>1. /\ s8' = [s8 EXCEPT !.method = Head(s6.others).method, !.mux = Head(s6.others).mux]
          /\ s6' = [s6 EXCEPT !.others = Tail(@)]
      BY <1>7, <2>3 DEF Flow!ProbeFails
    <3>2. s6 \in FlowQueues
      BY <1>a DEF Flow!Typed, FlowQueues
    <3>3. /\ Head(s6.others) \in [method : Flow!Names, mux : BOOLEAN]
          /\ Tail(s6.others) \in Seq([method : Flow!Names, mux : BOOLEAN])
      <4>1. s6.others \in Seq([method : Flow!Names, mux : BOOLEAN])
        BY <3>2 DEF FlowQueues
      <4> QED
        BY <2>3, <4>1, SmallSequences, Zenon
    <3>4. s6' \in FlowQueues
      <4>1. s6' = [profiles |-> s6.profiles, genes |-> s6.genes, others |-> Tail(s6.others)]
        BY <3>1, <3>2 DEF FlowQueues
      <4> QED
        BY <3>2, <3>3, <4>1, Zenon DEF FlowQueues
    <3>5. s8 \in [profile : FlowProfiles, gene : FlowGenes \union {""}, method : Flow!Names, mux : BOOLEAN]
      BY <1>a, <2>1 DEF Flow!Typed
    <3>6. s8' \in [profile : FlowProfiles, gene : FlowGenes \union {""}, method : Flow!Names, mux : BOOLEAN]
      BY <3>1, <3>3, <3>5
    <3> QED
      BY <1>a, <2>1, <3>4, <3>6 DEF Flow!Typed, FlowQueues
  <2> QED
    BY <2>2, <2>3
<1>8. CASE Flow!AttemptFailed
  <2>1. UNCHANGED <<s6, s7, s9>> /\ s8' = Flow!Off
    BY <1>8 DEF Flow!AttemptFailed
  <2>4. /\ \E f, c : s11' = s11 \/ s11' = [s11 EXCEPT !.fails = f, !.cooled = c]
        /\ \E S \in SUBSET s10.genes : s10' = s10 \/ s10' = [s10 EXCEPT !.genes = S]
    <3>1. CASE s7.gene = ""
      BY <1>8, <3>1, Zenon DEF Flow!AttemptFailed
    <3>2. CASE s7.gene # ""
      <4> DEFINE g == s7.gene
                 streak == s11.fails[g] + 1
      <4>1. /\ s11' = [s11 EXCEPT !.fails[g] = IF streak >= FlowFails THEN 0 ELSE streak,
                                !.cooled = IF streak >= FlowFails THEN @ \union {g} ELSE @]
            /\ s10' = [s10 EXCEPT !.genes = IF streak >= FlowFails THEN @ \ {g} ELSE @]
        BY <1>8, <3>2, Zenon DEF Flow!AttemptFailed
      <4> QED
        BY <4>1, <1>a DEF Flow!Typed
    <3> QED
      BY <3>1, <3>2
  <2>2. DOMAIN s11' = DOMAIN s11 /\ s11'.route = s11.route
    BY <2>4, <1>a DEF Flow!Typed
  <2>3. DOMAIN s10' = DOMAIN s10 /\ s10'.genes \subseteq s10.genes
    BY <2>4, <1>a DEF Flow!Typed
  <2> QED
    BY <1>a, <2>1, <2>2, <2>3 DEF Flow!Typed
<1>9. CASE Flow!ProfileFailed
  <2>1. /\ UNCHANGED <<s7, s8, s9, s10>> /\ s6.profiles # <<>>
        /\ s6' = [s6 EXCEPT !.profiles = Tail(@)]
    BY <1>9 DEF Flow!ProfileFailed, Flow!plan, Flow!RouteInv
  <2>2. DOMAIN s11' = DOMAIN s11 /\ s11'.route = s11.route
    BY <1>9, <1>a DEF Flow!ProfileFailed, Flow!Typed
  <2>3. s6 \in FlowQueues
    BY <1>a DEF Flow!Typed, FlowQueues
  <2>4. Tail(s6.profiles) \in Seq(FlowProfiles)
    <3>1. s6.profiles \in Seq(FlowProfiles)
      BY <2>3 DEF FlowQueues
    <3> QED
      BY <2>1, <3>1, SmallSequences, Zenon
  <2>5. s6' = [profiles |-> Tail(s6.profiles), genes |-> s6.genes, others |-> s6.others]
    BY <2>1, <2>3 DEF FlowQueues
  <2>6. s6' \in FlowQueues
    BY <2>3, <2>4, <2>5, Zenon DEF FlowQueues
  <2> QED
    BY <1>a, <2>1, <2>2, <2>6 DEF Flow!Typed, FlowQueues
<1>10. CASE Flow!Applied
  <2>1. UNCHANGED <<s6, s7, s8, s9, s10>> /\ s7 = s8 /\ s8 # Flow!Off
    BY <1>10 DEF Flow!Applied, Flow!plan, Flow!RouteInv
  <2>2. s7.profile \in FlowProfiles /\ Flow!Kept(s7.method) \in Flow!Names
    BY <1>a, <2>1 DEF Flow!Typed, Flow!Kept, Flow!Names, Flow!Methods
  <2>3. DOMAIN s11' = DOMAIN s11 /\ s11'.route = [s11.route EXCEPT ![s7.profile] = Flow!Kept(s7.method)]
    BY <1>10, <1>a DEF Flow!Applied, Flow!Typed
  <2>4. s11'.route \in [FlowProfiles -> Flow!Names]
    BY <1>a, <2>2, <2>3 DEF Flow!Typed
  <2> QED
    BY <1>a, <2>1, <2>3, <2>4 DEF Flow!Typed
<1>11. CASE Flow!Connected
  <2>1. UNCHANGED <<s6, s7, s8, s9, s10>>
    BY <1>11 DEF Flow!Connected, Flow!plan
  <2>2. DOMAIN s11' = DOMAIN s11 /\ s11'.route = s11.route
    BY <1>11, <1>a DEF Flow!Connected, Flow!Typed
  <2> QED
    BY <1>a, <2>1, <2>2 DEF Flow!Typed
<1> QED
  BY <1>1, <1>2, <1>3, <1>4, <1>5, <1>6, <1>7, <1>8, <1>9, <1>10, <1>11 DEF Flow!Next

\* What the engine runs from the first page that loads is what the thread takes.
LEMMA FlowStep ==
  ASSUME FlowAssumption, Flow!RouteInv, Flow!Next
  PROVE  Flow!RouteInv'
<1>a. Flow!Typed /\ Flow!Typed'
  BY FlowTyped DEF Flow!RouteInv
<1> SUFFICES /\ Flow!NobodyBlamed'
             /\ s3' \in {"attempt", "start", "probe", "judge", "failed", "apply", "record"} =>
                  s6'.profiles # <<>>
             /\ s3' = "start" => s7'.profile \in FlowProfiles
             /\ s3' = "probe" /\ ~s4' => s8' # Flow!Off
             /\ s3' \in {"judge", "apply", "record", "emit"} => s8' \in {Flow!Off, s7'}
             /\ s1' = "on" => s3' \in {"ending", "idle"}
             /\ (s1' = "on" \/ s3' \in {"record", "emit"}) /\ s8' # Flow!Off => Flow!Remembered'
  BY <1>a DEF Flow!RouteInv
<1>b. Flow!Off.profile = "" /\ "" \notin FlowProfiles
  BY Zenon DEF Flow!Off, FlowAssumption
<1>1. CASE Flow!ClickConnect \/ Flow!Resume
  <2>1. s3' = "profile" /\ s1' = "connecting" /\ s12' = s12
    BY <1>1 DEF Flow!ClickConnect, Flow!Resume, Flow!Begins
  <2> QED
    BY <2>1 DEF Flow!RouteInv, Flow!NobodyBlamed
<1>2. CASE Flow!ClickDisconnect \/ Flow!ClickTooEarly
  <2>1. /\ s8' = Flow!Off /\ s4' = TRUE /\ UNCHANGED <<s3, s6, s7, s12>>
        /\ s1' = s1 \/ s1' = "off"
    BY <1>2 DEF Flow!ClickDisconnect, Flow!ClickTooEarly, Flow!CancelAttempt
  <2> QED
    BY <2>1 DEF Flow!RouteInv, Flow!NobodyBlamed
<1>3. CASE Flow!Cancelled \/ Flow!RecordCancelled \/ Flow!NoProfile
  <2>1. /\ s3' = "idle" /\ s12' = s12 /\ s3 \notin {"ending", "idle"}
        /\ s1' = s1 \/ s1' = "off"
    BY <1>3 DEF Flow!Cancelled, Flow!RecordCancelled, Flow!NoProfile, Flow!button
  <2> QED
    BY <2>1 DEF Flow!RouteInv, Flow!NobodyBlamed
<1>4. CASE Flow!NextProfile
  <2>1. s6'.profiles = s6.profiles /\ s6.profiles # <<>>
    BY <1>4, <1>a DEF Flow!NextProfile, Flow!Typed
  <2> QED
    BY <1>4, <2>1 DEF Flow!NextProfile, Flow!RouteInv, Flow!NobodyBlamed, Flow!button
<1>5. CASE Flow!NextAttempt
  <2>1. s6'.profiles = s6.profiles /\ s6.profiles # <<>>
    BY <1>5, <1>a DEF Flow!NextAttempt, Flow!RouteInv, Flow!Typed
  <2>2. s7'.profile = Head(s6.profiles)
    BY <1>5 DEF Flow!NextAttempt
  <2>3. s6.profiles \in Seq(FlowProfiles)
    BY <1>a DEF Flow!Typed
  <2>4. s7'.profile \in FlowProfiles
    BY <2>1, <2>2, <2>3, SmallSequences, Zenon
  <2> QED
    BY <1>5, <2>1, <2>4 DEF Flow!NextAttempt, Flow!RouteInv, Flow!NobodyBlamed, Flow!button
<1>6. CASE Flow!EngineStarts
  <2>1. s7 # Flow!Off
    BY <1>6, <1>b, Zenon DEF Flow!EngineStarts, Flow!RouteInv
  <2> QED
    BY <1>6, <2>1 DEF Flow!EngineStarts, Flow!RouteInv, Flow!NobodyBlamed, Flow!button
<1>7. CASE Flow!EngineRaises
  BY <1>7 DEF Flow!EngineRaises, Flow!RouteInv, Flow!NobodyBlamed, Flow!button
<1>8. CASE Flow!ProbeFails
  <2>1. s6.profiles # <<>> /\ s1' = s1 /\ s1 # "on" /\ s12' = s12 /\ s3' \in {"probe", "failed"} /\ s8 # Flow!Off
    BY <1>8 DEF Flow!ProbeFails, Flow!RouteInv, Flow!button
  <2>2. s6'.profiles = s6.profiles
    BY <1>8, <1>a DEF Flow!ProbeFails, Flow!Typed
  <2>3. s8' # Flow!Off
    <3>1. s8 \in [profile : FlowProfiles, gene : FlowGenes \union {""}, method : Flow!Names, mux : BOOLEAN]
      BY <1>a, <2>1 DEF Flow!Typed
    <3>2. s8'.profile = s8.profile
      BY <1>8, <3>1 DEF Flow!ProbeFails
    <3> QED
      BY <1>b, <3>1, <3>2, Zenon
  <2> QED
    BY <2>1, <2>2, <2>3 DEF Flow!RouteInv, Flow!NobodyBlamed
<1>9. CASE Flow!ProbeSucceeds
  BY <1>9 DEF Flow!ProbeSucceeds, Flow!Takes, Flow!RouteInv, Flow!NobodyBlamed, Flow!button
<1>10. CASE Flow!Judged
  BY <1>10 DEF Flow!Judged, Flow!RouteInv, Flow!NobodyBlamed, Flow!button
<1>11. CASE Flow!AttemptFailed
  <2>1. /\ s3 = "failed" /\ ~s4 /\ UNCHANGED <<s1, s6>> /\ s8' = Flow!Off /\ s3' = "attempt"
        /\ s12' = s12
    BY <1>11 DEF Flow!AttemptFailed, Flow!Uncancelled, Flow!button
  <2> QED
    BY <2>1 DEF Flow!RouteInv, Flow!NobodyBlamed
<1>12. CASE Flow!ProfileFailed
  BY <1>12 DEF Flow!ProfileFailed, Flow!RouteInv, Flow!NobodyBlamed, Flow!button
<1>13. CASE Flow!Applied
  <2>1. /\ s3 = "apply" /\ s3' = "record" /\ s8 # Flow!Off /\ s7 = s8
        /\ UNCHANGED <<s1, s4, s5, s6, s7, s8, s12>>
    BY <1>13 DEF Flow!Applied, Flow!plan, Flow!button, Flow!RouteInv
  <2>2. s8.profile \in FlowProfiles
    BY <1>a, <2>1 DEF Flow!Typed
  <2>3. /\ s11'.route[s8.profile] = Flow!Kept(s8.method)
        /\ s5.mux \/ s8.profile \in FlowBuiltin => (s8.profile \in s11'.single <=> ~s8.mux)
    <3>1. s11' = [s11 EXCEPT
            !.route[s8.profile] = Flow!Kept(s8.method),
            !.single = IF s8.mux THEN @ \ {s8.profile}
                       ELSE IF s5.mux \/ s8.profile \in FlowBuiltin THEN @ \union {s8.profile}
                       ELSE @,
            !.failed = @ \ {s8.profile}]
      BY <1>13, <2>1 DEF Flow!Applied
    <3>2. /\ DOMAIN s11 = {"fails", "cooled", "route", "single", "failed"}
          /\ s8.profile \in DOMAIN s11.route /\ s8.mux \in BOOLEAN
      BY <1>a, <2>1, <2>2 DEF Flow!Typed
    <3>3. s11'.route[s8.profile] = Flow!Kept(s8.method)
      BY <3>1, <3>2
    <3>4. s11'.single = IF s8.mux THEN s11.single \ {s8.profile}
                        ELSE IF s5.mux \/ s8.profile \in FlowBuiltin THEN s11.single \union {s8.profile}
                        ELSE s11.single
      BY <3>1, <3>2
    <3>5. CASE s8.mux = TRUE
      BY <3>3, <3>4, <3>5
    <3>6. CASE s8.mux = FALSE
      BY <3>3, <3>4, <3>6
    <3> QED
      BY <3>2, <3>5, <3>6, Zenon
  <2>4. Flow!Remembered'
    BY <2>1, <2>3 DEF Flow!Remembered, Flow!Kept
  <2> QED
    BY <2>1, <2>4 DEF Flow!RouteInv, Flow!NobodyBlamed
<1>14. CASE Flow!Connected
  <2>1. /\ s3 = "record" /\ s3' = "emit" /\ s8 # Flow!Off /\ Flow!Remembered
        /\ UNCHANGED <<s1, s4, s5, s6, s7, s8, s12>>
    BY <1>14 DEF Flow!Connected, Flow!plan, Flow!button, Flow!RouteInv
  <2>2. s11'.route = s11.route /\ s11'.single = s11.single
    BY <1>14, <1>a DEF Flow!Connected, Flow!Typed
  <2>3. Flow!Remembered'
    BY <2>1, <2>2 DEF Flow!Remembered, Flow!Kept
  <2> QED
    BY <2>1, <2>3 DEF Flow!RouteInv, Flow!NobodyBlamed
<1>15. CASE Flow!ThreadEnds \/ Flow!ShowsOn
  <2>1. /\ UNCHANGED <<s5, s8, s11, s12>> /\ s3' \in {"idle", "ending"}
        /\ s1' = "on" => s1 = "on" \/ s3 = "emit"
    BY <1>15 DEF Flow!ThreadEnds, Flow!ShowsOn, Flow!plan, Flow!button
  <2>2. Flow!Remembered => Flow!Remembered'
    BY <2>1 DEF Flow!Remembered, Flow!Kept
  <2> QED
    BY <2>1, <2>2 DEF Flow!RouteInv, Flow!NobodyBlamed
<1> QED
  BY <1>1, <1>2, <1>3, <1>4, <1>5, <1>6, <1>7, <1>8, <1>9, <1>10, <1>11, <1>12, <1>13, <1>14, <1>15
  DEF Flow!Next

\* In parts "wire", "edges", "gene" and "flow" every step is one of their modules, or leaves
\* what this is about as it was.
LEMMA EarnedParts ==
  ASSUME [Next]_vars
  PROVE  /\ part = "wire" => Wire!Next \/ UNCHANGED <<s3, s4>>
         /\ part = "edges" => EdgeChoice!Next \/ UNCHANGED <<s3, s4>>
         /\ part = "gene" => Gene!Next \/ UNCHANGED <<s1, s4, s5, s6>>
         /\ part = "flow" => Flow!Next \/ UNCHANGED Flow!vars
BY DEF Next, vars, Flow!vars

\* What is learned from an attempt, a file or a session was earned by it: no edge that failed
\* is preferred, no gene is blamed for a cancel, the route remembered is the one that ran, and
\* a gene runs with what the import kept of one confirmed strategy.
THEOREM LearnedIsEarned == Spec => []LearnedFromOwnRuns
<1> DEFINE Inv == /\ part = "wire" => Wire!PreferredHealthy
                  /\ part = "edges" => EdgeChoice!PreferredHealthy
                  /\ part = "gene" => Gene!GeneInv
                  /\ part = "flow" => Flow!RouteInv
<1>1. Init => Inv
  <2> SUFFICES ASSUME Init PROVE Inv
    OBVIOUS
  <2>1. ASSUME part = "wire" PROVE Wire!PreferredHealthy
    BY <2>1 DEF Init, Wire!Init, Wire!PreferredHealthy
  <2>2. ASSUME part = "edges" PROVE EdgeChoice!PreferredHealthy
    BY <2>2 DEF Init, EdgeChoice!Init, EdgeChoice!PreferredHealthy
  <2>3. ASSUME part = "gene" PROVE Gene!GeneInv
    <3>1. s1 = [id \in {} |-> 0] /\ s4 = "none" /\ s6 = Gene!NoPlan
      BY <2>3 DEF Init, Gene!Init
    <3> QED
      BY <3>1 DEF Gene!GeneInv, Gene!RunAsConfirmed
  <2>4. ASSUME part = "flow" PROVE Flow!RouteInv
    <3>1. Flow!Init
      BY <2>4 DEF Init
    <3> QED
      BY <3>1, FlowStart
  <2> QED
    BY <2>1, <2>2, <2>3, <2>4
<1>2. Inv /\ [Next]_vars => Inv'
  <2> SUFFICES ASSUME Inv, [Next]_vars PROVE Inv'
    OBVIOUS
  <2>1. part' = part
    BY PartStays
  <2>2. ASSUME part = "wire" PROVE Wire!PreferredHealthy'
    <3>1. CASE UNCHANGED <<s3, s4>>
      BY <2>2, <3>1 DEF Wire!PreferredHealthy, Wire!NoEdge
    <3> QED
      BY <2>2, <3>1, EarnedParts, WireStep
  <2>3. ASSUME part = "edges" PROVE EdgeChoice!PreferredHealthy'
    <3>1. CASE UNCHANGED <<s3, s4>>
      BY <2>3, <3>1 DEF EdgeChoice!PreferredHealthy, EdgeChoice!NoEdge
    <3> QED
      BY <2>3, <3>1, EarnedParts, EdgeChoiceStep
  <2>4. ASSUME part = "gene" PROVE Gene!GeneInv'
    <3>1. CASE UNCHANGED <<s1, s4, s5, s6>>
      BY <2>4, <3>1 DEF Gene!GeneInv, Gene!RunAsConfirmed, Gene!TunnelSafe, Gene!NoPlan
    <3> QED
      BY <2>4, <3>1, EarnedParts, GeneAssumption, GeneStep
  <2>5. ASSUME part = "flow" PROVE Flow!RouteInv'
    <3>1. CASE UNCHANGED Flow!vars
      <4>1. Flow!Typed' /\ (Flow!Remembered => Flow!Remembered')
        BY <2>5, <3>1 DEF Flow!RouteInv, Flow!vars, Flow!Typed, Flow!Remembered, Flow!Kept
      <4> QED
        BY <2>5, <3>1, <4>1 DEF Flow!RouteInv, Flow!vars, Flow!NobodyBlamed
    <3> QED
      BY <2>5, <3>1, EarnedParts, FlowAssumption, FlowStep
  <2> QED
    BY <2>1, <2>2, <2>3, <2>4, <2>5
<1>3. Inv => LearnedFromOwnRuns
  BY DEF LearnedFromOwnRuns, Gene!GeneInv, Flow!RouteInv, Flow!RememberedAsRun
<1> QED
  BY <1>1, <1>2, <1>3, PTL DEF Spec

(***************************************************************************)
(* What is left behind                                                     *)
(***************************************************************************)
\* ParallelTheory has the lemmas of ParallelMasqueProofs for the instance Parallel.
ParallelTheory == INSTANCE ParallelMasqueProofs WITH
  MaxEpoch <- ParallelMaxEpoch, MaxObject <- ParallelMaxObject,
  Growers <- ParallelGrowers, Ports <- ParallelPorts, epoch <- s1, stop <- s2, session <- s3,
  router <- s4, aether <- s5, extras <- s6, alive <- s7, made <- s8, grow <- s9, back <- s10

\* Both are the same instance of ParallelMasque.
LEMMA ParallelSame ==
  /\ Parallel!Init <=> ParallelTheory!Init
  /\ Parallel!NoOrphan <=> ParallelTheory!NoOrphan
BY DEF Parallel!Init, ParallelTheory!Init, Parallel!Asleep, ParallelTheory!Asleep,
  Parallel!None, ParallelTheory!None, Parallel!Objects, ParallelTheory!Objects,
  Parallel!NoOrphan, ParallelTheory!NoOrphan, Parallel!Held, ParallelTheory!Held

\* So they have the same steps.
LEMMA ParallelSameNext == Parallel!Next => ParallelTheory!Next
<1> USE DEF Parallel!Objects, ParallelTheory!Objects, Parallel!None, ParallelTheory!None,
     Parallel!Asleep, ParallelTheory!Asleep, Parallel!Launch, ParallelTheory!Launch,
     Parallel!ParallelAlive, ParallelTheory!ParallelAlive,
     Parallel!AliveExtras, ParallelTheory!AliveExtras,
     Parallel!JoinRouter, ParallelTheory!JoinRouter
<1>1. Parallel!ConnectDials => ParallelTheory!ConnectDials
  BY DEF Parallel!ConnectDials, ParallelTheory!ConnectDials
<1>2. Parallel!StartRouter => ParallelTheory!StartRouter
  BY DEF Parallel!StartRouter, ParallelTheory!StartRouter
<1>3. Parallel!Disconnect => ParallelTheory!Disconnect
  BY DEF Parallel!Disconnect, ParallelTheory!Disconnect
<1>4. Parallel!DisconnectStops => ParallelTheory!DisconnectStops
  BY DEF Parallel!DisconnectStops, ParallelTheory!DisconnectStops
<1>5. Parallel!StopParallel => ParallelTheory!StopParallel
  BY DEF Parallel!StopParallel, ParallelTheory!StopParallel
<1>6. Parallel!Promote => ParallelTheory!Promote
  BY DEF Parallel!Promote, ParallelTheory!Promote
<1>7. Parallel!Lost => ParallelTheory!Lost
  BY DEF Parallel!Lost, ParallelTheory!Lost
<1>8. Parallel!RaiseAgain => ParallelTheory!RaiseAgain
  BY DEF Parallel!RaiseAgain, ParallelTheory!RaiseAgain
<1>9. Parallel!ProcessDies => ParallelTheory!ProcessDies
  BY DEF Parallel!ProcessDies, ParallelTheory!ProcessDies
<1>10. Parallel!BackLaunches => ParallelTheory!BackLaunches
  BY DEF Parallel!BackLaunches, ParallelTheory!BackLaunches
<1>11. Parallel!BackEnds => ParallelTheory!BackEnds
  BY DEF Parallel!BackEnds, ParallelTheory!BackEnds
<1>12. Parallel!BackReady => ParallelTheory!BackReady
  BY DEF Parallel!BackReady, ParallelTheory!BackReady
<1>13. Parallel!BackFails => ParallelTheory!BackFails
  BY DEF Parallel!BackFails, ParallelTheory!BackFails
<1>14. Parallel!BackSwaps => ParallelTheory!BackSwaps
  BY DEF Parallel!BackSwaps, ParallelTheory!BackSwaps
<1>15. Parallel!BackStopsOld => ParallelTheory!BackStopsOld
  BY DEF Parallel!BackStopsOld, ParallelTheory!BackStopsOld
<1>16. ASSUME NEW g \in ParallelGrowers
      PROVE  /\ Parallel!GrowLaunch(g) => ParallelTheory!GrowLaunch(g)
             /\ Parallel!GrowEnds(g) => ParallelTheory!GrowEnds(g)
             /\ Parallel!GrowReady(g) => ParallelTheory!GrowReady(g)
             /\ Parallel!GrowFails(g) => ParallelTheory!GrowFails(g)
             /\ Parallel!GrowJoins(g) => ParallelTheory!GrowJoins(g)
  <2>1. Parallel!GrowLaunch(g) => ParallelTheory!GrowLaunch(g)
    BY DEF Parallel!GrowLaunch, ParallelTheory!GrowLaunch
  <2>2. Parallel!GrowEnds(g) => ParallelTheory!GrowEnds(g)
    BY DEF Parallel!GrowEnds, ParallelTheory!GrowEnds
  <2>3. Parallel!GrowReady(g) => ParallelTheory!GrowReady(g)
    BY DEF Parallel!GrowReady, ParallelTheory!GrowReady
  <2>4. Parallel!GrowFails(g) => ParallelTheory!GrowFails(g)
    BY DEF Parallel!GrowFails, ParallelTheory!GrowFails
  <2>5. Parallel!GrowJoins(g) => ParallelTheory!GrowJoins(g)
    BY DEF Parallel!GrowJoins, ParallelTheory!GrowJoins
  <2> QED
    BY <2>1, <2>2, <2>3, <2>4, <2>5
<1> QED
  BY <1>1, <1>2, <1>3, <1>4, <1>5, <1>6, <1>7, <1>8, <1>9, <1>10,
    <1>11, <1>12, <1>13, <1>14, <1>15, <1>16
  DEF Parallel!Next, ParallelTheory!Next

\* pc, procs, made, record, mine: s2 to s5 and s7; pair, owed, blocked: s10 to s12.

\* Processes that end and debts that are paid change nothing else.
LEMMA LeftFewer ==
  ASSUME Leftovers!LeftInv, s3' \subseteq s3, s11' \subseteq s11,
         UNCHANGED <<s2, s4, s5, s7, s10, s12>>
  PROVE  Leftovers!LeftInv'
<1>1. Leftovers!OwedOnRecord'
  BY DEF Leftovers!LeftInv, Leftovers!OwedOnRecord
<1>2. Leftovers!HeldAsRecorded'
  BY DEF Leftovers!LeftInv, Leftovers!HeldAsRecorded
<1>3. /\ s4' \in Nat /\ s7' \in 0..s4' /\ s5'.id \in 0..s4' /\ s11' \subseteq 1..s4'
      /\ s12' \intersect s11' = {}
      /\ s2' \in {"idle", "release", "choose", "reclaim", "recover", "spawn"} => s7' = 0
      /\ s2' \notin {"dead", "idle"} => s12' = {}
  BY DEF Leftovers!LeftInv
<1>4. \A p, q \in s3' : p.id = q.id => p = q
  BY DEF Leftovers!LeftInv
<1> QED
  BY <1>1, <1>2, <1>3, <1>4 DEF Leftovers!LeftInv

\* A stop ends what the engine holds; what is on record of an earlier app stays.
LEMMA LeftStops ==
  ASSUME Leftovers!LeftInv, NEW next \in {"release", "idle"}, Leftovers!StopLocked(next),
         UNCHANGED <<s4, s10, s11>>, s12' = {}, s2 # "dead"
  PROVE  Leftovers!LeftInv'
<1>1. s3' \subseteq s3 /\ s2' \in {"release", "idle"} /\ s7' = 0
  BY DEF Leftovers!StopLocked, Leftovers!Without
<1>2. s5' = IF s5.id = s7 THEN Leftovers!NoRecord ELSE s5
  BY DEF Leftovers!StopLocked, Leftovers!Unrecord
<1>3. Leftovers!NoRecord.id = 0 /\ s4 \in Nat /\ s5'.id \in 0..s4
  BY <1>2 DEF Leftovers!NoRecord, Leftovers!LeftInv
<1>4. ASSUME NEW p \in s3' PROVE p.id \in 1..s4 /\ p.id # 0
  BY <1>1, <1>3, <1>4 DEF Leftovers!LeftInv, Leftovers!HeldAsRecorded
<1>5. ASSUME NEW p \in s3', p.id \in s11'
      PROVE  p.kind = "xray" /\ p.id = s5'.id /\ p.pair = s5'.pair /\ p.pair # 0
  <2>1. s2 \in {"idle", "release"} /\ p.kind = "xray" /\ p.id = s5.id /\ p.pair = s5.pair /\ p.pair # 0
    BY <1>1, <1>5 DEF Leftovers!LeftInv, Leftovers!OwedOnRecord
  <2>2. s7 = 0
    BY <2>1 DEF Leftovers!LeftInv
  <2> QED
    BY <1>2, <1>4, <2>1, <2>2
<1>6. ASSUME NEW p \in s3', p.id = s5'.id, p.pair # 0 PROVE p.pair = s5'.pair
  BY <1>1, <1>2, <1>3, <1>4, <1>6 DEF Leftovers!LeftInv, Leftovers!HeldAsRecorded
<1>7. \A p, q \in s3' : p.id = q.id => p = q
  BY <1>1 DEF Leftovers!LeftInv
<1>8. Leftovers!OwedOnRecord'
  BY <1>1, <1>5 DEF Leftovers!OwedOnRecord
<1>9. Leftovers!HeldAsRecorded'
  BY <1>1, <1>4, <1>6 DEF Leftovers!HeldAsRecorded
<1> QED
  BY <1>1, <1>3, <1>7, <1>8, <1>9 DEF Leftovers!LeftInv

\* After a pass over the pair on record, and after a later one, nothing owed runs.
LEMMA LeftKills ==
  ASSUME Leftovers!LeftInv, NEW ports, Leftovers!Kills(ports), s2 \in {"release", "reclaim"},
         s2 = "release" => ports = Leftovers!Known
  PROVE  /\ s3' \subseteq s3 /\ s11' \subseteq s11 /\ s5' \in {s5, Leftovers!NoRecord}
         /\ \A p \in s3' : p.id \notin s11'
<1>1. PICK V \in Leftovers!Finds(ports) :
        /\ s11' = s11 \ Leftovers!Ids(V)
        /\ s3' \in {s3, s3 \ V} /\ s5' \in {s5, Leftovers!NoRecord}
  BY DEF Leftovers!Kills, Leftovers!Unrecord
<1>2. ASSUME NEW p \in s3', p.id \in s11' PROVE FALSE
  <2>1. p \in s3 /\ p.id \in s11 /\ p.id \notin Leftovers!Ids(V)
    BY <1>1, <1>2
  <2>2. p \notin V
    BY <2>1 DEF Leftovers!Ids
  <2>3. /\ s2 = "release" /\ p.kind = "xray" /\ p.id = s5.id /\ p.pair = s5.pair /\ p.pair # 0
    BY <2>1 DEF Leftovers!LeftInv, Leftovers!OwedOnRecord
  <2>4. p \in Leftovers!Listeners(ports) /\ Leftovers!Owned(p)
    BY <2>1, <2>3 DEF Leftovers!Listeners, Leftovers!Owned, Leftovers!Known
  <2>5. p \in V
    BY <2>3, <2>4, <1>1 DEF Leftovers!Finds
  <2> QED
    BY <2>2, <2>5
<1> QED
  BY <1>1, <1>2

\* A pass ends processes and their record, and what is left of both agrees.
LEMMA LeftKilled ==
  ASSUME Leftovers!LeftInv, s3' \subseteq s3, s11' \subseteq s11, s5' \in {s5, Leftovers!NoRecord},
         \A p \in s3' : p.id \notin s11',
         UNCHANGED <<s4, s7, s10>>, s2 \in {"release", "reclaim"}, s2' \in {"choose", "recover", "idle"},
         s12' \intersect s11' = {}, s2' # "idle" => s12' = {}
  PROVE  Leftovers!LeftInv'
<1>1. s4 \in Nat /\ s7 = 0 /\ Leftovers!NoRecord.id = 0 /\ s5'.id \in 0..s4
  BY DEF Leftovers!LeftInv, Leftovers!NoRecord
<1>2. \A p \in s3' : p.id \in 1..s4 /\ p.id # 0
  BY <1>1 DEF Leftovers!LeftInv, Leftovers!HeldAsRecorded
<1>3. Leftovers!OwedOnRecord'
  BY DEF Leftovers!OwedOnRecord
<1>4. ASSUME NEW p \in s3', p.id = s5'.id, p.pair # 0 PROVE p.pair = s5'.pair
  BY <1>1, <1>2, <1>4 DEF Leftovers!LeftInv, Leftovers!HeldAsRecorded
<1>5. Leftovers!HeldAsRecorded'
  BY <1>1, <1>2, <1>4 DEF Leftovers!HeldAsRecorded
<1>6. \A p, q \in s3' : p.id = q.id => p = q
  BY DEF Leftovers!LeftInv
<1> QED
  BY <1>1, <1>3, <1>5, <1>6 DEF Leftovers!LeftInv

\* A new process has a number nothing is known of.
LEMMA LeftSpawned ==
  ASSUME Leftovers!LeftInv, NEW kind, NEW p, Leftovers!Spawned(kind, p), UNCHANGED <<s5, s10, s11, s12>>
  PROVE  /\ s4' = s4 + 1 /\ s4' \in Nat /\ s3' = s3 \union {[id |-> s4', kind |-> kind, pair |-> p]}
         /\ s4' # s7 /\ s4' # s5.id /\ s4' \notin s11 /\ \A q \in s3 : q.id # s4' /\ q.id \in 1..s4'
         /\ s7 \in 0..s4' /\ s5'.id \in 0..s4' /\ s11' \subseteq 1..s4'
         /\ \A q, r \in s3' : q.id = r.id => q = r
<1>1. s4' = s4 + 1 /\ s4 \in Nat /\ s3' = s3 \union {[id |-> s4', kind |-> kind, pair |-> p]}
  BY DEF Leftovers!Spawned, Leftovers!LeftInv
<1>2. \A q \in s3 : q.id \in 1..s4
  BY DEF Leftovers!LeftInv, Leftovers!HeldAsRecorded
<1>3. /\ s4' # s7 /\ s4' # s5.id /\ s4' \notin s11 /\ s7 \in 0..s4' /\ s5'.id \in 0..s4' /\ s11' \subseteq 1..s4'
  BY <1>1 DEF Leftovers!LeftInv
<1>4. \A q \in s3 : q.id # s4' /\ q.id \in 1..s4'
  BY <1>1, <1>2
<1>5. \A q, r \in s3' : q.id = r.id => q = r
  BY <1>1, <1>4 DEF Leftovers!LeftInv
<1> QED
  BY <1>1, <1>3, <1>4, <1>5

\* At first there is nothing.
LEMMA LeftStart == Leftovers!Init => Leftovers!LeftInv
BY DEF Leftovers!Init, Leftovers!LeftInv, Leftovers!NoRecord, Leftovers!OwedOnRecord, Leftovers!HeldAsRecorded

\* Every step keeps what is owed on record until it is ended.
LEMMA LeftStep ==
  ASSUME Leftovers!LeftInv, Leftovers!Next
  PROVE  Leftovers!LeftInv'
<1>a. s4 \in Nat /\ \A p \in s3 : p.id \in 1..s4 /\ p.id # 0
  BY DEF Leftovers!LeftInv, Leftovers!HeldAsRecorded
<1>1. CASE Leftovers!AppStarts
  <2>1. s2 = "dead" /\ s2' = "idle" /\ s7' = 0 /\ s12' = {} /\ UNCHANGED <<s3, s4, s5, s11>>
    BY <1>1 DEF Leftovers!AppStarts
  <2>2. Leftovers!OwedOnRecord'
    BY <2>1 DEF Leftovers!OwedOnRecord, Leftovers!LeftInv
  <2>3. Leftovers!HeldAsRecorded'
    BY <1>a, <2>1 DEF Leftovers!HeldAsRecorded, Leftovers!LeftInv
  <2> QED
    BY <2>1, <2>2, <2>3 DEF Leftovers!LeftInv
<1>2. CASE Leftovers!AppDies
  <2>1. /\ s2 # "dead" /\ s2' = "dead" /\ UNCHANGED <<s3, s4, s5, s7, s10, s12>>
        /\ s11' = s11 \union {p.id : p \in {q \in s3 : q.id \in {s7} \intersect {s5.id} /\ q.pair # 0}}
    BY <1>2 DEF Leftovers!AppDies
  <2>2. \A i \in s11' : i \in s11 \/ (i = s7 /\ i = s5.id /\ \E p \in s3 : p.id = i /\ p.pair # 0)
    BY <2>1
  <2>3. ASSUME NEW p \in s3, p.id \in s11'
        PROVE  p.kind = "xray" /\ p.id = s5.id /\ p.pair = s5.pair /\ p.pair # 0
    <3>1. CASE p.id \in s11
      BY <3>1 DEF Leftovers!LeftInv, Leftovers!OwedOnRecord
    <3>2. CASE p.id \notin s11
      <4>1. p.id = s7 /\ p.id = s5.id /\ p.pair # 0
        BY <2>2, <2>3, <3>2 DEF Leftovers!LeftInv
      <4> QED
        BY <4>1 DEF Leftovers!LeftInv, Leftovers!HeldAsRecorded
    <3> QED
      BY <3>1, <3>2
  <2>4. s11' \subseteq 1..s4
    BY <2>2, <1>a DEF Leftovers!LeftInv
  <2>5. s12 \intersect s11' = {}
    <3>1. CASE s2 = "idle"
      <4>1. s7 = 0
        BY <3>1 DEF Leftovers!LeftInv
      <4>2. s11' \subseteq s11
        BY <2>2, <4>1, <1>a
      <4> QED
        BY <4>2 DEF Leftovers!LeftInv
    <3>2. CASE s2 # "idle"
      BY <2>1, <3>2 DEF Leftovers!LeftInv
    <3> QED
      BY <3>1, <3>2
  <2>6. Leftovers!OwedOnRecord'
    BY <2>1, <2>3 DEF Leftovers!OwedOnRecord
  <2>7. Leftovers!HeldAsRecorded'
    BY <2>1 DEF Leftovers!HeldAsRecorded, Leftovers!LeftInv
  <2> QED
    BY <2>1, <2>4, <2>5, <2>6, <2>7 DEF Leftovers!LeftInv
<1>3. CASE Leftovers!JobKills \/ Leftovers!XrayDies
  <2>1. s3' \subseteq s3 /\ s11' \subseteq s11 /\ UNCHANGED <<s2, s4, s5, s7, s10, s12>>
    BY <1>3 DEF Leftovers!JobKills, Leftovers!XrayDies
  <2> QED
    BY <2>1, LeftFewer
<1>4. CASE Leftovers!OtherTakes
  <2>1. PICK p \in Leftovers!Pairs : Leftovers!Spawned("other", p)
    BY <1>4 DEF Leftovers!OtherTakes
  <2>2. UNCHANGED <<s2, s5, s7, s10, s11, s12>>
    BY <1>4 DEF Leftovers!OtherTakes
  <2>3. Leftovers!OwedOnRecord' /\ Leftovers!HeldAsRecorded'
    BY <2>1, <2>2, LeftSpawned DEF Leftovers!LeftInv, Leftovers!OwedOnRecord, Leftovers!HeldAsRecorded
  <2> QED
    BY <2>1, <2>2, <2>3, LeftSpawned DEF Leftovers!LeftInv
<1>5. CASE Leftovers!Start
  BY <1>5, LeftStops DEF Leftovers!Start
<1>6. CASE Leftovers!Stop \/ Leftovers!StartFails
  <2>1. /\ s2 \notin {"dead", "idle"} /\ Leftovers!StopLocked("idle") /\ UNCHANGED <<s4, s10, s11, s12>>
    BY <1>6 DEF Leftovers!Stop, Leftovers!StartFails
  <2>2. s12' = {}
    BY <2>1 DEF Leftovers!LeftInv
  <2> QED
    BY <2>1, <2>2, LeftStops
<1>7. CASE Leftovers!Release
  <2>1. /\ s2 = "release" /\ Leftovers!Kills(Leftovers!Known) /\ s2' = "choose"
        /\ UNCHANGED <<s4, s7, s10, s12>>
    BY <1>7 DEF Leftovers!Release
  <2>2. /\ s3' \subseteq s3 /\ s11' \subseteq s11 /\ s5' \in {s5, Leftovers!NoRecord}
        /\ \A p \in s3' : p.id \notin s11'
    BY <2>1, LeftKills
  <2>3. s12 = {}
    BY <2>1 DEF Leftovers!LeftInv
  <2> QED
    BY <2>1, <2>2, <2>3, LeftKilled
<1>8. CASE Leftovers!Choose
  <2>1. /\ s2 = "choose" /\ s2' \in {"idle", "reclaim"} /\ UNCHANGED <<s3, s4, s5, s7, s11>>
        /\ s12' = s12 \/ (s2' = "idle" /\ s12' \subseteq Leftovers!Ids(s3))
    BY <1>8 DEF Leftovers!Choose, Leftovers!Ids, Leftovers!Listeners
  <2>2. \A p \in s3 : p.id \notin s11
    BY <2>1 DEF Leftovers!LeftInv, Leftovers!OwedOnRecord
  <2>3. s12' \intersect s11' = {} /\ (s2' # "idle" => s12' = {})
    BY <2>1, <2>2 DEF Leftovers!LeftInv, Leftovers!Ids
  <2>4. Leftovers!OwedOnRecord'
    BY <2>1, <2>2 DEF Leftovers!OwedOnRecord
  <2>5. Leftovers!HeldAsRecorded'
    BY <2>1 DEF Leftovers!HeldAsRecorded, Leftovers!LeftInv
  <2> QED
    BY <2>1, <2>3, <2>4, <2>5 DEF Leftovers!LeftInv
<1>9. CASE Leftovers!Reclaim
  <2>1. /\ s2 = "reclaim" /\ Leftovers!Kills({s10}) /\ s2' \in {"recover", "idle"}
        /\ UNCHANGED <<s4, s7, s10>>
        /\ s12' \subseteq Leftovers!Ids(s3') /\ (s2' = "recover" => s12' = {})
    BY <1>9 DEF Leftovers!Reclaim, Leftovers!Ids
  <2>2. /\ s3' \subseteq s3 /\ s11' \subseteq s11 /\ s5' \in {s5, Leftovers!NoRecord}
        /\ \A p \in s3' : p.id \notin s11'
    BY <2>1, LeftKills
  <2>3. s12' \intersect s11' = {}
    BY <2>1, <2>2 DEF Leftovers!Ids
  <2> QED
    BY <2>1, <2>2, <2>3, LeftKilled
<1>10. CASE Leftovers!RecoverTun
  <2>1. s2 = "recover" /\ s2' = "spawn" /\ s3' \subseteq s3 /\ UNCHANGED <<s4, s5, s7, s10, s11, s12>>
    BY <1>10 DEF Leftovers!RecoverTun, Leftovers!Without
  <2>2. Leftovers!OwedOnRecord'
    BY <2>1 DEF Leftovers!OwedOnRecord, Leftovers!LeftInv
  <2>3. Leftovers!HeldAsRecorded'
    BY <2>1 DEF Leftovers!HeldAsRecorded, Leftovers!LeftInv
  <2> QED
    BY <2>1, <2>2, <2>3 DEF Leftovers!LeftInv
<1>11. CASE Leftovers!Spawn
  <2>1. PICK p : Leftovers!Spawned("xray", p) /\ p \in {0, s10}
    BY <1>11 DEF Leftovers!Spawn
  <2>2. s2 = "spawn" /\ s2' = "record" /\ s7' = s4' /\ UNCHANGED <<s5, s10, s11, s12>>
    BY <1>11 DEF Leftovers!Spawn, Leftovers!Spawned
  <2>3. Leftovers!OwedOnRecord'
    BY <2>1, <2>2, LeftSpawned DEF Leftovers!LeftInv, Leftovers!OwedOnRecord
  <2>4. Leftovers!HeldAsRecorded'
    BY <2>1, <2>2, LeftSpawned DEF Leftovers!LeftInv, Leftovers!HeldAsRecorded
  <2> QED
    BY <2>1, <2>2, <2>3, <2>4, LeftSpawned DEF Leftovers!LeftInv
<1>12. CASE Leftovers!Record
  <2>1. /\ s2 = "record" /\ s2' = "check" /\ UNCHANGED <<s3, s4, s7, s10, s11, s12>>
        /\ s5' = s5 \/ (s5'.id = s7 /\ s5'.pair = s10)
    BY <1>12 DEF Leftovers!Record
  <2>2. \A p \in s3 : p.id \notin s11
    BY <2>1 DEF Leftovers!LeftInv, Leftovers!OwedOnRecord
  <2>3. Leftovers!OwedOnRecord'
    BY <2>1, <2>2 DEF Leftovers!OwedOnRecord
  <2>4. Leftovers!HeldAsRecorded'
    BY <2>1 DEF Leftovers!HeldAsRecorded, Leftovers!LeftInv
  <2> QED
    BY <2>1, <2>3, <2>4 DEF Leftovers!LeftInv
<1>13. CASE Leftovers!Check \/ Leftovers!RecordTun \/ Leftovers!TunRuns
  <2>1. /\ s2 \in {"check", "tun", "tuncheck"} /\ s2' \in {"active", "key", "tuncheck"}
        /\ UNCHANGED <<s3, s4, s5, s7, s10, s11, s12>>
    BY <1>13 DEF Leftovers!Check, Leftovers!RecordTun, Leftovers!TunRuns
  <2>2. Leftovers!OwedOnRecord'
    BY <2>1 DEF Leftovers!OwedOnRecord, Leftovers!LeftInv
  <2>3. Leftovers!HeldAsRecorded'
    BY <2>1 DEF Leftovers!HeldAsRecorded, Leftovers!LeftInv
  <2> QED
    BY <2>1, <2>2, <2>3 DEF Leftovers!LeftInv
<1>14. CASE Leftovers!KeyRefreshed
  <2>1. /\ s2 = "key" /\ s2' = "record" /\ s7' = s4 + 1 /\ s4' = s4 + 1 /\ UNCHANGED <<s5, s10, s11, s12>>
        /\ \E p \in {0, s10} : \E S \in SUBSET s3 : s3' = S \union {[id |-> s4 + 1, kind |-> "xray", pair |-> p]}
    BY <1>14 DEF Leftovers!KeyRefreshed, Leftovers!Without, Leftovers!Spawned
  <2>2. PICK p \in {0, s10}, S \in SUBSET s3 : s3' = S \union {[id |-> s4 + 1, kind |-> "xray", pair |-> p]}
    BY <2>1
  <2>3. \A q \in S : q.id \in 1..s4 /\ q.id # s4 + 1 /\ q.id \notin s11
    BY <1>a, <2>1, <2>2 DEF Leftovers!LeftInv, Leftovers!OwedOnRecord
  <2>4. s4 + 1 \notin s11 /\ s5.id # s4 + 1 /\ s5.id \in 0..(s4 + 1) /\ s11 \subseteq 1..(s4 + 1)
    BY <1>a DEF Leftovers!LeftInv
  <2>5. \A q, r \in s3' : q.id = r.id => q = r
    BY <2>2, <2>3 DEF Leftovers!LeftInv
  <2> DEFINE new == [id |-> s4 + 1, kind |-> "xray", pair |-> p]
  <2>8. new.id = s4 + 1 /\ new.kind = "xray" /\ new.pair = p /\ s3' = S \union {new}
    BY <2>2
  <2> HIDE DEF new
  <2>6. Leftovers!OwedOnRecord'
    BY <2>1, <2>3, <2>4, <2>8 DEF Leftovers!OwedOnRecord
  <2>7. Leftovers!HeldAsRecorded'
    <3>1. ASSUME NEW q \in S
          PROVE  /\ q.id \in 1..s4' /\ q.id # s7'
                 /\ q.id = s5'.id /\ q.pair # 0 => q.pair = s5'.pair
      BY <1>a, <2>1, <2>2, <2>3 DEF Leftovers!HeldAsRecorded, Leftovers!LeftInv
    <3>2. new.id \in 1..s4' /\ new.id # s5'.id /\ new.pair \in {0, s10'} /\ new.kind = "xray"
      BY <1>a, <2>1, <2>2, <2>4, <2>8
    <3> QED
      BY <2>8, <3>1, <3>2 DEF Leftovers!HeldAsRecorded
  <2> QED
    BY <1>a, <2>1, <2>4, <2>5, <2>6, <2>7 DEF Leftovers!LeftInv
<1>15. CASE Leftovers!SpawnTun
  <2>1. Leftovers!Spawned("singbox", 0) /\ s2 = "active" /\ s2' = "tun" /\ UNCHANGED <<s5, s7, s10, s11, s12>>
    BY <1>15 DEF Leftovers!SpawnTun
  <2>2. Leftovers!OwedOnRecord'
    BY <2>1, LeftSpawned DEF Leftovers!LeftInv, Leftovers!OwedOnRecord
  <2>3. Leftovers!HeldAsRecorded'
    BY <2>1, LeftSpawned DEF Leftovers!LeftInv, Leftovers!HeldAsRecorded
  <2> QED
    BY <2>1, <2>2, <2>3, LeftSpawned DEF Leftovers!LeftInv
<1>16. CASE Leftovers!StopTun
  <2>1. /\ s2 \in {"tun", "tuncheck", "active"} /\ s2' = "active" /\ s3' \subseteq s3
        /\ UNCHANGED <<s4, s5, s7, s10, s11, s12>>
    BY <1>16 DEF Leftovers!StopTun, Leftovers!Without
  <2>2. Leftovers!OwedOnRecord'
    BY <2>1 DEF Leftovers!OwedOnRecord, Leftovers!LeftInv
  <2>3. Leftovers!HeldAsRecorded'
    BY <2>1 DEF Leftovers!HeldAsRecorded, Leftovers!LeftInv
  <2> QED
    BY <2>1, <2>2, <2>3 DEF Leftovers!LeftInv
<1> QED
  BY <1>1, <1>2, <1>3, <1>4, <1>5, <1>6, <1>7, <1>8, <1>9, <1>10, <1>11, <1>12, <1>13, <1>14,
    <1>15, <1>16 DEF Leftovers!Next

\* gateway, workers, pc, mine, filter, told, thread: s1 to s7; error: s9.

\* There is one health check at most.
OneCheck == \A v, w \in ForwardWorkers : v = w

\* A filter that ends, or takes packets instead of opening, keeps what is known.
LEMMA FilterEnds ==
  ASSUME Forward!FilterInv, UNCHANGED <<s1, s2, s3, s4, s6, s7>>,
         s5' \in Seq(Forward!States), Len(s5') = Len(s5), s9' \in BOOLEAN,
         \A t \in 1..Len(s5) : s5'[t] \in {"opening", "taking"} => s5[t] \in {"opening", "taking"},
         s9' => s9 \/ ~Forward!Alive(s7)'
  PROVE  Forward!FilterInv'
<1>1. \A t \in 0..Len(s5) : t # 0 /\ s5'[t] \in {"opening", "taking"} => t # 0 /\ s5[t] \in {"opening", "taking"}
  BY DEF Forward!FilterInv, Forward!FilterTyped
<1>2. Forward!FilterTyped' /\ Forward!Phases'
  BY DEF Forward!FilterInv, Forward!FilterTyped, Forward!Phases
<1>3. s7 \in 0..Len(s5) /\ \A w \in ForwardWorkers : s4[w] \in 0..Len(s5)
  BY DEF Forward!FilterInv, Forward!FilterTyped, Forward!Owners
<1>4. Forward!ToldOrOwn'
  BY <1>1 DEF Forward!FilterInv, Forward!ToldOrOwn, Forward!Alive, Forward!Threads
<1>5. Forward!FreeToMake'
  BY <1>1, <1>3 DEF Forward!FilterInv, Forward!FreeToMake, Forward!Alive
<1>6. Forward!ChecksWait'
  BY <1>1, <1>3 DEF Forward!FilterInv, Forward!ChecksWait, Forward!Alive
<1> QED
  BY <1>2, <1>4, <1>5, <1>6 DEF Forward!FilterInv

\* stop: whoever closes a filter has told it to end.
LEMMA FilterClosed ==
  ASSUME Forward!FilterInv, "gate" \notin ForwardWorkers, NEW o \in Forward!Owners, Forward!Close(o)
  PROVE  Forward!FilterInv'
<1>1. /\ s3[o] \in {"close", "undo", "end"} /\ UNCHANGED <<s1, s2, s5, s7, s9>>
      /\ s3' = [s3 EXCEPT ![o] = Forward!After[s3[o]]] /\ s4' = [s4 EXCEPT ![o] = s7]
      /\ s6' = s6 \union ({s7} \ {0})
  BY DEF Forward!Close, Forward!After, Forward!Go
<1>2. s3 \in [Forward!Owners -> Forward!Steps \union {"await", "end", "ended"}] /\ s7 \in 0..Len(s5)
  BY DEF Forward!FilterInv, Forward!FilterTyped
<1>3. /\ s3[o] = "close" => s3'[o] = "join"
      /\ s3[o] = "undo" => s3'[o] = "undone"
      /\ s3[o] = "end" => s3'[o] = "ended"
      /\ \A p \in Forward!Owners : p # o => s3'[p] = s3[p] /\ s4'[p] = s4[p]
      /\ s4'[o] = s7
  BY <1>1, <1>2 DEF Forward!After, Forward!FilterInv, Forward!FilterTyped
<1>4. "gate" \in Forward!Owners /\ \A w \in ForwardWorkers : w \in Forward!Owners /\ w # "gate"
  BY DEF Forward!Owners
<1>5. Forward!FilterTyped'
  <2>1. s3'[o] \in Forward!Steps \union {"ended"}
    BY <1>1, <1>3 DEF Forward!Steps
  <2> QED
    BY <1>1, <1>2, <1>3, <2>1 DEF Forward!FilterInv, Forward!FilterTyped, Forward!Owners
<1>6. Forward!Phases'
  BY <1>1, <1>3, <1>4 DEF Forward!FilterInv, Forward!Phases, Forward!Steps
<1>7. Forward!ToldOrOwn'
  BY <1>1 DEF Forward!FilterInv, Forward!ToldOrOwn, Forward!Alive, Forward!Threads
<1>8. Forward!FreeToMake'
  BY <1>1, <1>3, <1>4 DEF Forward!FilterInv, Forward!FreeToMake, Forward!Alive
<1>9. Forward!ChecksWait'
  BY <1>1, <1>3, <1>4 DEF Forward!FilterInv, Forward!ChecksWait, Forward!Alive, Forward!Steps
<1> QED
  BY <1>5, <1>6, <1>7, <1>8, <1>9 DEF Forward!FilterInv

\* A wait for a filter ends; the helper lets go of one that is not alive.
LEMMA FilterAwaited ==
  ASSUME Forward!FilterInv, "gate" \notin ForwardWorkers, NEW o \in Forward!Owners,
         Forward!Joined(o) \/ Forward!Undone(o)
  PROVE  Forward!FilterInv'
<1>1. /\ s3[o] \in {"join", "undone"} /\ UNCHANGED <<s1, s2, s4, s5, s6>>
      /\ \E x \in {"failed", "make"} : /\ s3' = [s3 EXCEPT ![o] = x]
                                       /\ x = "make" => s3[o] = "join" /\ ~Forward!Alive(s7')
  BY DEF Forward!Joined, Forward!Undone, Forward!Go
<1>2. PICK x \in {"failed", "make"} : /\ s3' = [s3 EXCEPT ![o] = x]
                                      /\ x = "make" => s3[o] = "join" /\ ~Forward!Alive(s7')
  BY <1>1
<1>3. /\ s7' = s7 \/ (s7' = 0 /\ ~Forward!Alive(s7))
      /\ s9' = FALSE \/ (s9' = s9 /\ s7' = s7)
  BY DEF Forward!Joined, Forward!Undone, Forward!Ended
<1>4. s3 \in [Forward!Owners -> Forward!Steps \union {"await", "end", "ended"}] /\ s7 \in 0..Len(s5)
  BY DEF Forward!FilterInv, Forward!FilterTyped
<1>5. s3'[o] = x /\ \A p \in Forward!Owners : p # o => s3'[p] = s3[p]
  BY <1>2, <1>4
<1>6. "gate" \in Forward!Owners /\ \A w \in ForwardWorkers : w \in Forward!Owners /\ w # "gate"
  BY DEF Forward!Owners
<1>7. ~Forward!Alive(0)
  BY DEF Forward!Alive
<1>8. Forward!FilterTyped'
  <2>1. x \in Forward!Steps
    BY DEF Forward!Steps
  <2>3. s9 \in BOOLEAN /\ Len(s5) \in Nat
    BY DEF Forward!FilterInv, Forward!FilterTyped
  <2>4. s9' \in BOOLEAN
    BY <1>3, <2>3, Zenon
  <2>2. s7' \in 0..Len(s5) /\ s9' \in BOOLEAN
    BY <1>3, <1>4, <2>3, <2>4
  <2> QED
    BY <1>1, <1>2, <2>1, <2>2 DEF Forward!FilterInv, Forward!FilterTyped, Forward!Owners
<1>9. Forward!Phases'
  BY <1>1, <1>5, <1>6 DEF Forward!FilterInv, Forward!Phases, Forward!Steps
<1>10. Forward!ToldOrOwn'
  BY <1>1, <1>3 DEF Forward!FilterInv, Forward!ToldOrOwn, Forward!Alive, Forward!Threads
<1>11. Forward!FreeToMake'
  BY <1>1, <1>2, <1>3, <1>5, <1>6 DEF Forward!FilterInv, Forward!FreeToMake, Forward!Alive
<1>12. Forward!ChecksWait'
  BY <1>1, <1>2, <1>3, <1>5, <1>6 DEF Forward!FilterInv, Forward!ChecksWait, Forward!Alive, Forward!Steps
<1> QED
  BY <1>8, <1>9, <1>10, <1>11, <1>12 DEF Forward!FilterInv

\* start: one owner at a time makes a filter, when the helper's is not alive any more.
LEMMA FilterMade ==
  ASSUME Forward!FilterInv, "gate" \notin ForwardWorkers, OneCheck, NEW o \in Forward!Owners, Forward!Make(o)
  PROVE  Forward!FilterInv'
<1> DEFINE n == Len(s5) + 1
<1>1. /\ s3[o] = "make" /\ UNCHANGED <<s1, s2, s6>> /\ s5' = Append(s5, "opening") /\ s7' = n
      /\ s4' = [s4 EXCEPT ![o] = n] /\ s3' = [s3 EXCEPT ![o] = "wait"] /\ s9' = FALSE
  BY DEF Forward!Make, Forward!Go
<1>2. /\ s3 \in [Forward!Owners -> Forward!Steps \union {"await", "end", "ended"}] /\ s7 \in 0..Len(s5)
      /\ s4 \in [Forward!Owners -> 0..Len(s5)] /\ s5 \in Seq(Forward!States) /\ Len(s5) \in Nat
  BY DEF Forward!FilterInv, Forward!FilterTyped
<1>3. /\ s3'[o] = "wait" /\ s4'[o] = n
      /\ \A p \in Forward!Owners : p # o => s3'[p] = s3[p] /\ s4'[p] = s4[p]
  BY <1>1, <1>2
<1>4. "gate" \in Forward!Owners /\ \A w \in ForwardWorkers : w \in Forward!Owners /\ w # "gate"
  BY DEF Forward!Owners
<1>5. /\ s5' \in Seq(Forward!States) /\ Len(s5') = n
      /\ \A t \in 1..Len(s5) : s5'[t] = s5[t]
  BY <1>1, <1>2 DEF Forward!States
<1>6. ~Forward!Alive(s7)
  BY <1>1 DEF Forward!FilterInv, Forward!FreeToMake
<1>7. \A p \in Forward!Owners : p # o => s3[p] \notin {"close", "make"}
  <2>1. CASE o = "gate"
    <3>1. s1 # "on" /\ s3["gate"] # "await"
      BY <1>1, <2>1 DEF Forward!FilterInv, Forward!Phases
    <3> QED
      BY <2>1, <3>1 DEF Forward!FilterInv, Forward!ChecksWait, Forward!Owners
  <2>2. CASE o # "gate"
    <3>1. o \in ForwardWorkers /\ \A p \in Forward!Owners : p # o => p = "gate"
      BY <2>2 DEF Forward!Owners, OneCheck
    <3>2. s1 = "on" \/ s3["gate"] = "await"
      BY <1>1, <3>1 DEF Forward!FilterInv, Forward!ChecksWait
    <3>3. s3["gate"] \in {"idle", "await"}
      BY <3>2 DEF Forward!FilterInv, Forward!Phases
    <3> QED
      BY <3>1, <3>3
  <2> QED
    BY <2>1, <2>2
<1>8. s1 # "off" /\ s3'["gate"] # "ended"
  <2>1. CASE o = "gate"
    BY <1>1, <1>3, <2>1 DEF Forward!FilterInv, Forward!Phases
  <2>2. CASE o # "gate"
    <3>1. s1 = "on" \/ s3["gate"] = "await"
      BY <1>1, <2>2 DEF Forward!FilterInv, Forward!ChecksWait, Forward!Owners
    <3> QED
      BY <1>3, <1>4, <2>2, <3>1 DEF Forward!FilterInv, Forward!Phases
  <2> QED
    BY <2>1, <2>2
<1>9. Forward!FilterTyped'
  <2>1. "wait" \in Forward!Steps /\ n \in 0..n /\ \A k \in 0..Len(s5) : k \in 0..n
    BY <1>2 DEF Forward!Steps
  <2>2. s4' \in [Forward!Owners -> 0..n]
    BY <1>1, <1>2, <2>1
  <2>3. s3' \in [Forward!Owners -> Forward!Steps \union {"await", "end", "ended"}]
    BY <1>1, <1>2, <2>1
  <2> HIDE DEF n
  <2> QED
    BY <1>1, <1>5, <2>1, <2>2, <2>3 DEF Forward!FilterInv, Forward!FilterTyped, Forward!Owners
<1>10. Forward!Phases'
  BY <1>1, <1>3, <1>4 DEF Forward!FilterInv, Forward!Phases, Forward!Steps
<1>11. Forward!ToldOrOwn'
  <2>1. ASSUME NEW t \in 1..n, t # n, Forward!Alive(t)', t \notin s6 PROVE FALSE
    <3>1. t \in 1..Len(s5)
      BY <1>2, <2>1
    <3>2. Forward!Alive(t)
      BY <1>5, <2>1, <3>1 DEF Forward!Alive
    <3>3. t = s7
      BY <2>1, <3>1, <3>2 DEF Forward!FilterInv, Forward!ToldOrOwn, Forward!Threads
    <3> QED
      BY <1>6, <3>2, <3>3
  <2> HIDE DEF n
  <2> QED
    BY <1>1, <1>5, <2>1 DEF Forward!ToldOrOwn, Forward!Threads
<1>12. Forward!FreeToMake'
  BY <1>1, <1>3, <1>7, <1>8 DEF Forward!FreeToMake
<1>13. Forward!ChecksWait'
  <2> SUFFICES ASSUME NEW w \in ForwardWorkers
               PROVE  /\ s3'[w] \in Forward!Steps /\ (s3'[w] # "idle" => w \in s2)
                      /\ s1 # "on" /\ s3'["gate"] # "await" => s3'[w] \notin {"close", "join", "make"}
                      /\ s3'[w] # "close"
                      /\ s3'[w] = "join" => ~Forward!Alive(s4[w])'
    BY <1>1 DEF Forward!ChecksWait
  <2>1. CASE w = o
    BY <1>1, <1>3, <2>1 DEF Forward!FilterInv, Forward!ChecksWait, Forward!Steps
  <2>2. CASE w # o
    <3>1. s3'[w] = s3[w] /\ s4'[w] = s4[w] /\ s4[w] \in 0..Len(s5) /\ s3[w] # "close"
      BY <1>2, <1>3, <1>4, <1>7, <2>2
    <3>2. o = "gate"
      BY <2>2 DEF Forward!Owners, OneCheck
    <3>3. s1 # "on" /\ s3["gate"] # "await"
      BY <1>1, <3>2 DEF Forward!FilterInv, Forward!Phases
    <3>4. s3[w] \notin {"close", "join", "make"}
      BY <3>3 DEF Forward!FilterInv, Forward!ChecksWait
    <3> QED
      BY <3>1, <3>4 DEF Forward!FilterInv, Forward!ChecksWait
  <2> QED
    BY <2>1, <2>2
<1> QED
  BY <1>9, <1>10, <1>11, <1>12, <1>13 DEF Forward!FilterInv

\* A step that moves the gateway or one owner and touches no filter.
LEMMA FilterMoves ==
  ASSUME Forward!FilterInv, UNCHANGED <<s4, s5, s6, s7, s9>>,
         s1' \in {"off", "starting", "on", "stopping"},
         s3' \in [Forward!Owners -> Forward!Steps \union {"await", "end", "ended"}],
         Forward!Phases',
         \A o \in Forward!Owners : s3'[o] = "make" => s3[o] = "make",
         s3'["gate"] = "ended" \/ s1' = "off" => s3["gate"] = "ended" \/ s1 = "off",
         \A w \in ForwardWorkers :
           /\ s3'[w] \in Forward!Steps /\ (s3'[w] # "idle" => w \in s2')
           /\ s1' # "on" /\ s3'["gate"] # "await" => s3'[w] \notin {"close", "join", "make"}
           /\ s3'[w] = "close" => ~Forward!Alive(s7)
           /\ s3'[w] = "join" => s3[w] = "join"
  PROVE  Forward!FilterInv'
<1>1. Forward!FilterTyped'
  BY DEF Forward!FilterInv, Forward!FilterTyped, Forward!Owners
<1>2. Forward!ToldOrOwn'
  BY DEF Forward!FilterInv, Forward!ToldOrOwn, Forward!Alive, Forward!Threads
<1>3. Forward!FreeToMake'
  BY DEF Forward!FilterInv, Forward!FreeToMake, Forward!Alive
<1>4. Forward!ChecksWait'
  BY DEF Forward!FilterInv, Forward!ChecksWait, Forward!Alive
<1> QED
  BY <1>1, <1>2, <1>3, <1>4 DEF Forward!FilterInv

\* At first there is no filter.
LEMMA FilterStart == Forward!Init => Forward!FilterInv
<1> SUFFICES ASSUME Forward!Init PROVE Forward!FilterInv
  OBVIOUS
<1>1. /\ s1 = "off" /\ s3 = [o \in Forward!Owners |-> "idle"] /\ s4 = [o \in Forward!Owners |-> 0]
      /\ s5 = <<>> /\ s7 = 0 /\ s9 = FALSE
  BY DEF Forward!Init
<1>2. s5 \in Seq(Forward!States) /\ Len(s5) = 0
  BY <1>1
<1>3. "gate" \in Forward!Owners /\ \A w \in ForwardWorkers : w \in Forward!Owners
  BY DEF Forward!Owners
<1>4. Forward!FilterTyped
  <2>1. s4 \in [Forward!Owners -> 0..0] /\ s3 \in [Forward!Owners -> Forward!Steps \union {"await", "end", "ended"}]
    BY <1>1 DEF Forward!Steps
  <2>2. s7 \in 0..Len(s5) /\ s4 \in [Forward!Owners -> 0..Len(s5)]
    BY <1>1, <1>2, <2>1
  <2>3. s1 \in {"off", "starting", "on", "stopping"} /\ s9 \in BOOLEAN
    BY <1>1, Zenon
  <2> QED
    BY <1>2, <2>1, <2>2, <2>3 DEF Forward!FilterTyped
<1>5. Forward!Phases /\ Forward!ToldOrOwn /\ Forward!FreeToMake /\ Forward!ChecksWait
  BY <1>1, <1>2, <1>3 DEF Forward!Phases, Forward!ToldOrOwn, Forward!FreeToMake, Forward!ChecksWait,
    Forward!Alive, Forward!Threads, Forward!Steps
<1> QED
  BY <1>4, <1>5 DEF Forward!FilterInv

\* Every step keeps that a filter nobody told to end is the helper's.
LEMMA FilterStep ==
  ASSUME Forward!FilterInv, "gate" \notin ForwardWorkers, OneCheck, Forward!Next
  PROVE  Forward!FilterInv'
<1>a. /\ s3 \in [Forward!Owners -> Forward!Steps \union {"await", "end", "ended"}] /\ s7 \in 0..Len(s5)
      /\ s5 \in Seq(Forward!States) /\ Len(s5) \in Nat /\ s9 \in BOOLEAN
      /\ s1 \in {"off", "starting", "on", "stopping"}
  BY DEF Forward!FilterInv, Forward!FilterTyped
<1>b. "gate" \in Forward!Owners /\ \A w \in ForwardWorkers : w \in Forward!Owners /\ w # "gate"
  BY DEF Forward!Owners
<1>c. \A o \in Forward!Owners : \A x \in Forward!Steps \union {"await", "end", "ended"} :
        /\ [s3 EXCEPT ![o] = x] \in [Forward!Owners -> Forward!Steps \union {"await", "end", "ended"}]
        /\ [s3 EXCEPT ![o] = x][o] = x
        /\ \A p \in Forward!Owners : p # o => [s3 EXCEPT ![o] = x][p] = s3[p]
  BY <1>a
<1>d. /\ {"idle", "close", "done", "undo", "failed"} \subseteq Forward!Steps
      /\ Forward!Phases /\ Forward!ChecksWait
  BY DEF Forward!Steps, Forward!FilterInv
<1>1. ASSUME NEW o \in Forward!Owners, Forward!Close(o) \/ Forward!Joined(o) \/ Forward!Undone(o) \/ Forward!Make(o)
      PROVE  Forward!FilterInv'
  BY <1>1, FilterClosed, FilterAwaited, FilterMade
<1>2. ASSUME NEW o \in Forward!Owners, Forward!Ready(o) PROVE Forward!FilterInv'
  <2>1. PICK x \in {"done", "undo"} : s3' = [s3 EXCEPT ![o] = x]
    BY <1>2 DEF Forward!Ready, Forward!Go
  <2>2. s3[o] = "wait" /\ UNCHANGED <<s1, s2, s4, s5, s6, s7, s9>>
    BY <1>2 DEF Forward!Ready, Forward!helper
  <2>3. /\ s3' \in [Forward!Owners -> Forward!Steps \union {"await", "end", "ended"}] /\ s3'[o] = x
        /\ \A p \in Forward!Owners : p # o => s3'[p] = s3[p]
    BY <1>c, <1>d, <2>1
  <2>4. Forward!Phases'
    BY <1>b, <1>d, <2>2, <2>3 DEF Forward!Phases
  <2>5. \A w \in ForwardWorkers :
          /\ s3'[w] \in Forward!Steps /\ (s3'[w] # "idle" => w \in s2')
          /\ s1' # "on" /\ s3'["gate"] # "await" => s3'[w] \notin {"close", "join", "make"}
          /\ s3'[w] = "close" => ~Forward!Alive(s7)
          /\ s3'[w] = "join" => s3[w] = "join"
    BY <1>b, <1>d, <2>2, <2>3 DEF Forward!ChecksWait
  <2> QED
    BY <1>a, <1>b, <2>2, <2>3, <2>4, <2>5, FilterMoves
<1>3. ASSUME NEW t \in Forward!Threads, Forward!Open(t) \/ Forward!Fail(t) \/ Forward!Over(t)
      PROVE  Forward!FilterInv'
  <2>1. PICK x \in {"over", "taking", "failed"} : s5' = [s5 EXCEPT ![t] = x]
    BY <1>3 DEF Forward!Open, Forward!Fail, Forward!Over
  <2>2. UNCHANGED <<s1, s2, s3, s4, s6, s7>> /\ s5[t] \in {"opening", "taking"}
    BY <1>3 DEF Forward!Open, Forward!Fail, Forward!Over, Forward!Alive, Forward!helper, Forward!dns
  <2>3. t \in 1..Len(s5) /\ x \in Forward!States
    BY DEF Forward!Threads, Forward!States
  <2>4. s5' \in Seq(Forward!States) /\ Len(s5') = Len(s5) /\ s5'[t] = x
        /\ \A u \in 1..Len(s5) : u # t => s5'[u] = s5[u]
    BY <1>a, <2>1, <2>3
  <2>5. s9' = s9 \/ (x = "failed" /\ s9' = (s7 = t \/ s9))
    <3>1. CASE Forward!Open(t) \/ Forward!Over(t)
      BY <3>1 DEF Forward!Open, Forward!Over, Forward!helper
    <3>2. CASE Forward!Fail(t)
      <4>1. s5' = [s5 EXCEPT ![t] = "failed"] /\ s9' = (s7 = t \/ s9)
        BY <3>2 DEF Forward!Fail
      <4>2. x = "failed"
        BY <1>a, <2>3, <2>4, <4>1
      <4> QED
        BY <4>1, <4>2
    <3> QED
      BY <1>3, <3>1, <3>2
  <2>6. s9' \in BOOLEAN
    BY <1>a, <2>5, Zenon
  <2>7. s9' => s9 \/ ~Forward!Alive(s7)'
    <3>1. CASE s9' = s9
      BY <3>1
    <3>2. CASE x = "failed" /\ s9' = (s7 = t \/ s9)
      <4>1. s9' => s7 = t \/ s9
        BY <3>2, Zenon
      <4>2. s7 = t => ~Forward!Alive(s7)'
        BY <2>2, <2>4, <3>2 DEF Forward!Alive
      <4> QED
        BY <4>1, <4>2
    <3> QED
      BY <2>5, <3>1, <3>2
  <2>8. \A u \in 1..Len(s5) : s5'[u] \in {"opening", "taking"} => s5[u] \in {"opening", "taking"}
    BY <2>2, <2>4
  <2> QED
    BY <2>2, <2>4, <2>6, <2>7, <2>8, FilterEnds
<1>4. CASE Forward!Start \/ Forward!Started \/ Forward!StartFailed \/ Forward!Stop \/ Forward!Awaited
  <2>1. PICK from, to, step : /\ s1 = from /\ s1' = to /\ s3' = [s3 EXCEPT !["gate"] = step]
                              /\ \/ from = "off" /\ to = "starting" /\ step = "close"
                                 \/ from = "starting" /\ to = "on" /\ step = "idle"
                                 \/ from = "starting" /\ to = "stopping" /\ step = "end"
                                 \/ from = "on" /\ to = "stopping" /\ step = "await"
                                 \/ s3["gate"] = "await" /\ from = "stopping" /\ to = "stopping" /\ step = "end"
    BY <1>4 DEF Forward!Start, Forward!Started, Forward!StartFailed, Forward!Stop, Forward!Awaited,
      Forward!Gate, Forward!Go
  <2>2. UNCHANGED <<s4, s5, s6, s7, s9>> /\ s2 \subseteq s2'
    BY <1>4 DEF Forward!Start, Forward!Started, Forward!StartFailed, Forward!Stop, Forward!Awaited,
      Forward!Gate, Forward!helper
  <2>3. /\ s3' \in [Forward!Owners -> Forward!Steps \union {"await", "end", "ended"}] /\ s3'["gate"] = step
        /\ \A w \in ForwardWorkers : s3'[w] = s3[w]
    BY <1>b, <1>c, <1>d, <2>1
  <2>4. Forward!Phases'
    BY <2>1, <2>3, <1>d DEF Forward!Phases, Forward!Steps
  <2>5. \A w \in ForwardWorkers : step = "end" /\ s3["gate"] = "await" => s3[w] \notin {"close", "join", "make"}
    <3> SUFFICES ASSUME NEW w \in ForwardWorkers, step = "end", s3["gate"] = "await"
                 PROVE  s3[w] \notin {"close", "join", "make"}
      OBVIOUS
    <3>1. s1 = "stopping" /\ s3'["gate"] = "end" /\ s1' = "stopping"
      BY <2>1, <2>3, <1>d DEF Forward!Phases, Forward!Steps
    <3>2. Forward!Awaited
      <4>1. ~Forward!Start /\ ~Forward!Started /\ ~Forward!StartFailed /\ ~Forward!Stop
        BY <3>1 DEF Forward!Start, Forward!Started, Forward!StartFailed, Forward!Stop, Forward!Gate
      <4> QED
        BY <1>4, <4>1
    <3>3. w \in s2 => s3[w] \in {"join", "wait", "undone"} /\ s4[w] # 0 /\ s5[s4[w]] = "opening"
      BY <3>2 DEF Forward!Awaited, Forward!Opening
    <3>4. s3[w] = "join" => ~(s4[w] # 0 /\ s5[s4[w]] = "opening")
      BY <1>d DEF Forward!ChecksWait, Forward!Alive
    <3> QED
      BY <3>3, <3>4, <1>d DEF Forward!ChecksWait
  <2>6. \A w \in ForwardWorkers :
          /\ s3'[w] \in Forward!Steps /\ (s3'[w] # "idle" => w \in s2')
          /\ s1' # "on" /\ s3'["gate"] # "await" => s3'[w] \notin {"close", "join", "make"}
          /\ s3'[w] = "close" => ~Forward!Alive(s7)
          /\ s3'[w] = "join" => s3[w] = "join"
    <3>1. ASSUME s1' # "on", s3'["gate"] # "await", s3["gate"] # "await" PROVE s1 # "on"
      BY <2>1, <2>3, <3>1
    <3>2. ASSUME s1' # "on", s3'["gate"] # "await", s3["gate"] = "await" PROVE step = "end"
      BY <2>1, <2>3, <3>2, <1>d DEF Forward!Phases
    <3> QED
      BY <2>2, <2>3, <2>5, <3>1, <3>2, <1>d DEF Forward!ChecksWait
  <2>7. s1' \in {"off", "starting", "on", "stopping"} /\ s3'["gate"] # "make" /\ s3'["gate"] # "ended" /\ s1' # "off"
    BY <2>1, <2>3
  <2>8. \A o \in Forward!Owners : s3'[o] = "make" => s3[o] = "make"
    BY <2>3, <2>7 DEF Forward!Owners
  <2> QED
    BY <2>2, <2>3, <2>4, <2>6, <2>7, <2>8, FilterMoves
<1>5. CASE Forward!Stopped
  <2>1. /\ s3["gate"] = "ended" /\ s1' = "off" /\ s3' = [s3 EXCEPT !["gate"] = "idle"]
        /\ UNCHANGED <<s2, s4, s5, s6>>
        /\ s7' = s7 \/ (s7' = 0 /\ ~Forward!Alive(s7))
        /\ s9' = FALSE \/ (s9' = s9 /\ s7' = s7)
    BY <1>5 DEF Forward!Stopped, Forward!Ended, Forward!Go
  <2>2. /\ s3' \in [Forward!Owners -> Forward!Steps \union {"await", "end", "ended"}] /\ s3'["gate"] = "idle"
        /\ \A w \in ForwardWorkers : s3'[w] = s3[w]
    BY <1>b, <1>c, <1>d, <2>1
  <2>3. s1 = "stopping"
    BY <1>a, <1>d, <2>1 DEF Forward!Phases, Forward!Steps
  <2>4. Forward!FilterTyped'
    <3>1. s9' \in BOOLEAN
      BY <1>a, <2>1, Zenon
    <3>2. s7' \in 0..Len(s5)
      BY <1>a, <2>1
    <3> QED
      BY <2>1, <2>2, <3>1, <3>2 DEF Forward!FilterInv, Forward!FilterTyped, Forward!Owners
  <2>5. Forward!Phases'
    BY <2>1, <2>2 DEF Forward!Phases
  <2>6. Forward!ToldOrOwn'
    BY <2>1 DEF Forward!FilterInv, Forward!ToldOrOwn, Forward!Alive, Forward!Threads
  <2>7. Forward!FreeToMake'
    BY <2>1, <2>2, <1>b DEF Forward!FilterInv, Forward!FreeToMake, Forward!Alive, Forward!Owners
  <2>8. Forward!ChecksWait'
    BY <2>1, <2>2, <2>3, <1>d DEF Forward!ChecksWait, Forward!Alive
  <2> QED
    BY <2>4, <2>5, <2>6, <2>7, <2>8 DEF Forward!FilterInv
<1>6. ASSUME NEW w \in ForwardWorkers, Forward!Ensure(w) \/ Forward!Ensured(w) PROVE Forward!FilterInv'
  <2>1. PICK x \in {"close", "idle"} : /\ s3' = [s3 EXCEPT ![w] = x]
                                       /\ x = "close" => s1 = "on" /\ w \in s2 /\ ~Forward!Running
    BY <1>6 DEF Forward!Ensure, Forward!Ensured, Forward!Go
  <2>2. UNCHANGED <<s1, s2, s4, s5, s6, s7, s9>>
    BY <1>6 DEF Forward!Ensure, Forward!Ensured, Forward!helper
  <2>3. /\ s3' \in [Forward!Owners -> Forward!Steps \union {"await", "end", "ended"}] /\ s3'[w] = x
        /\ \A p \in Forward!Owners : p # w => s3'[p] = s3[p]
    BY <1>b, <1>c, <1>d, <2>1
  <2>4. Forward!Phases'
    BY <1>b, <1>d, <2>2, <2>3 DEF Forward!Phases
  <2>5. x = "close" => ~Forward!Alive(s7)
    BY <2>1 DEF Forward!Running, Forward!FilterInv, Forward!FreeToMake
  <2>6. \A v \in ForwardWorkers :
          /\ s3'[v] \in Forward!Steps /\ (s3'[v] # "idle" => v \in s2')
          /\ s1' # "on" /\ s3'["gate"] # "await" => s3'[v] \notin {"close", "join", "make"}
          /\ s3'[v] = "close" => ~Forward!Alive(s7)
          /\ s3'[v] = "join" => s3[v] = "join"
    BY <1>b, <1>d, <2>1, <2>2, <2>3, <2>5 DEF Forward!ChecksWait
  <2> QED
    BY <1>a, <1>b, <2>2, <2>3, <2>4, <2>6, FilterMoves
<1>7. ASSUME NEW w \in ForwardWorkers, Forward!Leave(w) PROVE Forward!FilterInv'
  <2>1. s3[w] = "idle" /\ s2' = s2 \ {w} /\ UNCHANGED <<s1, s3, s4, s5, s6, s7, s9>>
    BY <1>7 DEF Forward!Leave, Forward!helper
  <2>2. Forward!Phases'
    BY <1>d, <2>1 DEF Forward!Phases
  <2>3. \A v \in ForwardWorkers :
          /\ s3'[v] \in Forward!Steps /\ (s3'[v] # "idle" => v \in s2')
          /\ s1' # "on" /\ s3'["gate"] # "await" => s3'[v] \notin {"close", "join", "make"}
          /\ s3'[v] = "close" => ~Forward!Alive(s7)
          /\ s3'[v] = "join" => s3[v] = "join"
    BY <1>d, <2>1 DEF Forward!ChecksWait
  <2> QED
    BY <1>a, <2>1, <2>2, <2>3, FilterMoves
<1>8. CASE \/ \E k \in {"udp", "tcp"}, p \in ForwardPorts, n \in 1..ForwardMaxOpen,
                 s \in ForwardServers \union {"resolver"} : Forward!Ask(k, p, n, s)
           \/ \E q \in s12 : Forward!Answer(q) \/ Forward!Received(q)
           \/ \E f \in DOMAIN s11 : Forward!Expire(f)
  <2>1. UNCHANGED <<s1, s2, s3, s4, s5, s6, s7, s9>>
    BY <1>8 DEF Forward!Ask, Forward!Answer, Forward!Received, Forward!Expire, Forward!helper
  <2> QED
    BY <1>a, <2>1, FilterEnds
<1> QED
  BY <1>1, <1>2, <1>3, <1>4, <1>5, <1>6, <1>7, <1>8 DEF Forward!Next

\* Off, the helper's filter has been told to end, and there is no other.
LEMMA FilterOff == Forward!FilterInv => Forward!FilterGone
BY DEF Forward!FilterInv, Forward!ToldOrOwn, Forward!FreeToMake, Forward!FilterGone

\* In parts "parallel", "leftovers" and "forward" every step is one of their modules.
LEMMA LeavingParts ==
  ASSUME [Next]_vars
  PROVE  /\ part = "parallel" => [ParallelTheory!Next]_(ParallelTheory!vars)
         /\ part = "leftovers" => Leftovers!Next \/ UNCHANGED Leftovers!vars
         /\ part = "forward" => Forward!Next \/ UNCHANGED Forward!vars
<1>1. part = "parallel" => Parallel!Next \/ UNCHANGED ParallelTheory!vars
  BY DEF Next, vars, ParallelTheory!vars
<1>2. part = "leftovers" => Leftovers!Next \/ UNCHANGED Leftovers!vars
  BY DEF Next, vars, Leftovers!vars
<1> QED
  BY <1>1, <1>2, ParallelSameNext, ForwardPart

\* As long as there is one health check, a disconnect, a crash and a stop of the gateway leave
\* no tunnel process, no Xray and no packet filter behind that nobody will end.
THEOREM NothingStays == OneCheck => (Spec => []NothingLeftBehind)
<1> SUFFICES ASSUME OneCheck PROVE Spec => []NothingLeftBehind
  OBVIOUS
<1> DEFINE Inv == /\ part = "parallel" => ParallelTheory!MasqueInv
                  /\ part = "leftovers" => Leftovers!LeftInv
                  /\ part = "forward" => Forward!FilterInv
<1>1. ParallelTheory!MasqueAssumption
  BY ParallelAssumption DEF ParallelTheory!MasqueAssumption
<1>2. Init => Inv
  <2> SUFFICES ASSUME Init PROVE Inv
    OBVIOUS
  <2>1. ASSUME part = "parallel" PROVE ParallelTheory!MasqueInv
    <3>1. Parallel!Init
      BY <2>1 DEF Init
    <3> QED
      BY <1>1, <3>1, ParallelSame, ParallelTheory!MasqueInit
  <2>2. ASSUME part = "leftovers" PROVE Leftovers!LeftInv
    <3>1. Leftovers!Init
      BY <2>2 DEF Init
    <3> QED
      BY <3>1, LeftStart
  <2>3. ASSUME part = "forward" PROVE Forward!FilterInv
    <3>1. Forward!Init
      BY <2>3 DEF Init
    <3> QED
      BY <3>1, FilterStart
  <2> QED
    BY <2>1, <2>2, <2>3
<1>3. Inv /\ [Next]_vars => Inv'
  <2> SUFFICES ASSUME Inv, [Next]_vars PROVE Inv'
    OBVIOUS
  <2>1. part' = part
    BY PartStays
  <2>2. ASSUME part = "parallel" PROVE ParallelTheory!MasqueInv'
    <3>1. [ParallelTheory!Next]_(ParallelTheory!vars)
      BY <2>2, LeavingParts
    <3> QED
      BY <1>1, <2>2, <3>1, ParallelTheory!MasqueNext
  <2>3. ASSUME part = "leftovers" PROVE Leftovers!LeftInv'
    <3>1. CASE UNCHANGED Leftovers!vars
      BY <2>3, <3>1, LeftFewer DEF Leftovers!vars
    <3> QED
      BY <2>3, <3>1, LeavingParts, LeftStep
  <2>4. ASSUME part = "forward" PROVE Forward!FilterInv'
    <3>1. CASE UNCHANGED Forward!vars
      <4>1. UNCHANGED <<s1, s2, s3, s4, s5, s6, s7, s9>> /\ s5 \in Seq(Forward!States) /\ s9 \in BOOLEAN
        BY <2>4, <3>1 DEF Forward!vars, Forward!helper, Forward!dns, Forward!FilterInv, Forward!FilterTyped
      <4> QED
        BY <2>4, <4>1, FilterEnds
    <3> QED
      BY <2>4, <3>1, LeavingParts, ForwardAssumption, FilterStep
  <2> QED
    BY <2>1, <2>2, <2>3, <2>4
<1>4. Inv => NothingLeftBehind
  <2>1. ParallelTheory!MasqueInv => Parallel!NoOrphan
    BY ParallelSame DEF ParallelTheory!MasqueInv
  <2>2. Leftovers!LeftInv => Leftovers!LeftoversGone
    BY DEF Leftovers!LeftInv, Leftovers!OwedOnRecord, Leftovers!LeftoversGone
  <2> QED
    BY <2>1, <2>2, FilterOff DEF NothingLeftBehind
<1> QED
  BY <1>2, <1>3, <1>4, PTL DEF Spec
================================================================================
