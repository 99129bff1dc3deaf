------------------------------- MODULE Settings -------------------------------
(***************************************************************************)
(* uac_desktop/storage.py: the settings every thread of the window shares, *)
(* with no lock around a change, and their file.  The window switches the  *)
(* carrier, applies an SNI and saves the advanced settings; the connect    *)
(* thread keeps the tuning that worked and the results of the genes.       *)
(* Abstractions: a tuning is its carrier and a number for all its other    *)
(* values, 0 if they are the preset's; the settings are the five entries   *)
(* more than one thread writes; an operation reads what it needs at once   *)
(* and assigns its entries one after the other.                            *)
(***************************************************************************)
EXTENDS Naturals, Sequences

CONSTANTS
  Genes,          \* confirmed gene strategies the dialog may keep
  Values,         \* values of a tuning, 0..Values
  Changes,        \* operations a behaviour may have
  Restarts        \* ends of the process a behaviour may have

VARIABLES
  memory,     \* Storage.settings
  disk,       \* SETTINGS_FILE
  image,      \* what a save has serialised so far
  lock,       \* the thread in _write, which holds _IO_LOCK
  thread,     \* per thread the assignments and the save it has still to do
  base,       \* base_tuning of the connect thread; carrier "" if none runs
  dialog,     \* the values of the advanced settings dialog; carrier "" if closed
  done,       \* operations so far
  restarts,
  unsaved     \* a save raised and none was made since

vars == <<memory, disk, image, lock, thread, base, dialog, done, restarts, unsaved>>
file == <<disk, image, lock, unsaved>>

Carriers == {"auto", "mci", "irancell"}
Threads == {"window", "connect"}
Tunings == [carrier : Carriers, value : 0..Values]
Fields == {"buckets", "active", "genes", "stats", "winner"}
Nothing == [writes |-> <<>>, save |-> FALSE, after |-> <<>>]
Closed == [carrier |-> "", buckets |-> <<>>, genes |-> {}]

Memories == [buckets : [Carriers -> Tunings], active : Tunings, genes : SUBSET Genes,
             stats : SUBSET Genes, winner : Genes \union {""}]

TypeOK ==
  /\ memory \in Memories /\ disk \in Memories
  /\ lock \in Threads \union {""} /\ done \in 0..Changes /\ restarts \in 0..Restarts
  /\ base.carrier \in Carriers \union {""} /\ dialog.carrier \in Carriers \union {""}
  /\ unsaved \in BOOLEAN
  /\ \A t \in Threads : \A i \in DOMAIN thread[t].writes : thread[t].writes[i].field \in Fields
-----------------------------------------------------------------------------
\* Tuning.enforce_carrier: the MCI route is the protected preset.
\* Faulty: an MCI tuning keeps what it has.
Enforced_AsIs(c, t) == [t EXCEPT !.carrier = c]
Enforced(c, t) == IF c = "mci" THEN [carrier |-> c, value |-> 0] ELSE [t EXCEPT !.carrier = c]
Preset(c) == [carrier |-> c, value |-> 0]

\* __init__ with _migrate_carrier_tunings, on a file of any earlier version:
\* what a carrier has no values for takes the active tuning or the preset.
Migrated(raw, has) ==
  LET c == raw.active.carrier
      own(d) == IF d \in has THEN raw.buckets[d] ELSE IF d = c THEN raw.active ELSE Preset(d)
  IN  [raw EXCEPT !.buckets = [d \in Carriers |-> Enforced(d, own(d))],
                  !.active = Enforced(c, IF c \in has THEN raw.active ELSE own(c))]

First(c) == [buckets |-> [d \in Carriers |-> Preset(d)], active |-> [carrier |-> c, value |-> 0],
             genes |-> Genes, stats |-> {}, winner |-> ""]

Init ==
  /\ \E c \in Carriers, has \in {{}, Carriers} : memory = Migrated(First(c), has)
  /\ disk = memory /\ image = memory /\ lock = "" /\ unsaved = FALSE
  /\ thread = [t \in Threads |-> Nothing] /\ base = [carrier |-> "", value |-> 0]
  /\ dialog = Closed /\ done = 0 /\ restarts = 0

\* The process ends at any moment; the file is replaced as a whole or not at all.
Restart ==
  /\ restarts < Restarts /\ restarts' = restarts + 1
  /\ memory' = Migrated(disk, Carriers) /\ image' = disk /\ lock' = ""
  /\ thread' = [t \in Threads |-> Nothing] /\ base' = [carrier |-> "", value |-> 0]
  /\ dialog' = Closed /\ unsaved' = FALSE /\ UNCHANGED <<disk, done>>
-----------------------------------------------------------------------------
(***************************************************************************)
(* What an operation assigns, from what it reads                           *)
(***************************************************************************)
Set(f, v) == [field |-> f, entry |-> v]

SetTuning(t) ==
  LET e == Enforced(t.carrier, t)
  IN  <<Set("buckets", [memory.buckets EXCEPT ![t.carrier] = e]), Set("active", e)>>

\* Faulty: the tuning that was active is kept as the new carrier's.
ActivateCarrier_Mixed(c) ==
  <<Set("buckets", [memory.buckets EXCEPT ![c] = memory.active]), Set("active", memory.active)>>

ActivateCarrier(c) ==
  LET kept == [memory.buckets EXCEPT ![memory.active.carrier] =
                 Enforced(memory.active.carrier, memory.active)]
  IN  <<Set("buckets", [kept EXCEPT ![c] = Enforced(c, memory.buckets[c])]),
        Set("active", Enforced(c, memory.buckets[c]))>>

SetCarrierTunings(values, c) ==
  <<Set("buckets", [d \in Carriers |-> Enforced(d, values[d])]),
    Set("active", Enforced(c, values[c]))>>

SetGeneStrategies(S) ==
  <<Set("genes", S), Set("stats", memory.stats \intersect S),
    Set("winner", IF memory.winner \in S THEN memory.winner ELSE "")>>

RecordGene(g, ok) ==
  <<Set("stats", memory.stats \union {g})>> \o (IF ok THEN <<Set("winner", g)>> ELSE <<>>)

One == done < Changes /\ done' = done + 1
Idle(t) == thread[t] = Nothing
Does(t, writes, after) ==
  /\ Idle(t)
  /\ thread' = [thread EXCEPT ![t] = [writes |-> writes, save |-> TRUE, after |-> after]]
-----------------------------------------------------------------------------
(***************************************************************************)
(* The window                                                              *)
(***************************************************************************)
CarrierChanged ==
  /\ dialog = Closed /\ One /\ \E c \in Carriers : Does("window", ActivateCarrier(c), <<>>)
  /\ UNCHANGED <<memory, file, base, dialog, restarts>>

\* apply_selected_sni
ApplySni ==
  /\ dialog = Closed /\ One
  /\ \E v \in 0..Values : Does("window", SetTuning([memory.active EXCEPT !.value = v]), <<>>)
  /\ UNCHANGED <<memory, file, base, dialog, restarts>>

\* open_tuning: the dialog works on what it read when it was opened.
OpenDialog ==
  /\ dialog = Closed /\ Idle("window") /\ done < Changes
  /\ dialog' = [carrier |-> memory.active.carrier, buckets |-> memory.buckets,
                genes |-> memory.genes]
  /\ UNCHANGED <<memory, file, thread, base, done, restarts>>

SaveDialog ==
  /\ dialog # Closed /\ dialog' = Closed /\ One
  /\ \E c \in Carriers, S \in SUBSET dialog.genes, v \in 0..Values :
       Does("window", SetGeneStrategies(S),
            <<[values |-> [dialog.buckets EXCEPT ![c].value = v], active |-> c]>>)
  /\ UNCHANGED <<memory, file, base, restarts>>
-----------------------------------------------------------------------------
(***************************************************************************)
(* The connect thread                                                      *)
(***************************************************************************)
ConnectBegins ==
  /\ base.carrier = "" /\ Idle("connect") /\ base' = memory.active
  /\ UNCHANGED <<memory, file, thread, dialog, done, restarts>>

\* The gene counts as it was when the pool was made.
GeneResult ==
  /\ base.carrier # "" /\ base.carrier # "mci" /\ One
  /\ \E g \in Genes, ok \in BOOLEAN : Does("connect", RecordGene(g, ok), <<>>)
  /\ UNCHANGED <<memory, file, base, dialog, restarts>>

\* working_tuning: the tuning the connect began with, and the edge that works.
KeepWorking ==
  /\ base.carrier # "" /\ One
  /\ \E v \in 0..Values : Does("connect", SetTuning([base EXCEPT !.value = v]), <<>>)
  /\ base' = [carrier |-> "", value |-> 0]
  /\ UNCHANGED <<memory, file, dialog, restarts>>
-----------------------------------------------------------------------------
(***************************************************************************)
(* The assignments and save_settings                                       *)
(***************************************************************************)
Assign(t) ==
  /\ thread[t].writes # <<>> /\ lock # t
  /\ LET w == Head(thread[t].writes) IN memory' = [memory EXCEPT ![w.field] = w.entry]
  /\ thread' = [thread EXCEPT ![t].writes = Tail(@)]
  /\ UNCHANGED <<file, base, dialog, done, restarts>>

\* Serialised entry by entry, inside the lock; here the tunings come first.
SaveBegins(t) ==
  /\ thread[t].save /\ thread[t].writes = <<>> /\ lock = "" /\ lock' = t
  /\ image' = [memory EXCEPT !.genes = image.genes, !.stats = image.stats,
                             !.winner = image.winner]
  /\ UNCHANGED <<memory, disk, thread, base, dialog, done, restarts, unsaved>>

\* The rest of the dialog's operations read what is there now.
After(t) ==
  IF thread[t].after = <<>> THEN Nothing
  ELSE [writes |-> SetCarrierTunings(thread[t].after[1].values, thread[t].after[1].active),
        save |-> TRUE, after |-> <<>>]

\* Faulty: a save replaces the file by what the last one had serialised.
Serialised_Early == disk
Serialised ==
  [image EXCEPT !.genes = memory.genes, !.stats = memory.stats, !.winner = memory.winner]

SaveEnds(t) ==
  /\ lock = t /\ lock' = "" /\ image' = Serialised /\ disk' = Serialised /\ unsaved' = FALSE
  /\ thread' = [thread EXCEPT ![t] = After(t)]
  /\ UNCHANGED <<memory, base, dialog, done, restarts>>

\* The other thread added an entry while the settings were walked.
SaveRaises(t) ==
  /\ lock = t /\ lock' = "" /\ unsaved' = TRUE /\ thread' = [thread EXCEPT ![t] = Nothing]
  /\ \E u \in Threads \ {t} : ~Idle(u)
  /\ image' = disk /\ UNCHANGED <<memory, disk, base, dialog, done, restarts>>

Next ==
  \/ CarrierChanged \/ ApplySni \/ OpenDialog \/ SaveDialog
  \/ ConnectBegins \/ GeneResult \/ KeepWorking \/ Restart
  \/ \E t \in Threads : Assign(t) \/ SaveBegins(t) \/ SaveEnds(t) \/ SaveRaises(t)

Spec == Init /\ [][Next]_vars
-----------------------------------------------------------------------------
(***************************************************************************)
(* However the operations of the two threads interleave, and after any     *)
(* restart, a carrier's entry holds a tuning of that carrier, and the      *)
(* protected MCI route is never another one: in memory and on disk.        *)
(***************************************************************************)
CarriersApart ==
  \A s \in {memory, disk} :
    /\ \A c \in Carriers : s.buckets[c].carrier = c
    /\ \A t \in {s.active, s.buckets["mci"]} : t.carrier = "mci" => t.value = 0

(***************************************************************************)
(* When no thread is at work the file has what the settings have, unless   *)
(* the last save raised: of two saves at once the later one, which may     *)
(* belong to the earlier change, writes both changes.                      *)
(***************************************************************************)
FileCurrent == (\A t \in Threads : Idle(t)) /\ ~unsaved => disk = memory

(***************************************************************************)
(* What they rest on.  An entry that is still to be assigned is one of a   *)
(* carrier's own, whatever it was computed from; and while one thread      *)
(* writes the file the other has changed nothing, or saves after it.       *)
(***************************************************************************)
OwnTunings == {t \in Tunings : t.carrier = "mci" => t.value = 0}
OwnBuckets == {b \in [Carriers -> OwnTunings] : \A c \in Carriers : b[c].carrier = c}
OwnMemories == [buckets : OwnBuckets, active : OwnTunings, genes : SUBSET Genes,
                stats : SUBSET Genes, winner : Genes \union {""}]
Writes ==
  [field : {"buckets"}, entry : OwnBuckets] \union [field : {"active"}, entry : OwnTunings]
    \union [field : {"genes", "stats"}, entry : SUBSET Genes]
    \union [field : {"winner"}, entry : Genes \union {""}]

OwnWrites ==
  /\ memory \in OwnMemories /\ disk \in OwnMemories /\ image \in OwnMemories
  /\ thread = [t \in Threads |-> [writes |-> thread[t].writes, save |-> thread[t].save,
                                  after |-> thread[t].after]]
  /\ \A t \in Threads :
       /\ thread[t].writes \in Seq(Writes)
       /\ thread[t].after = <<>> \/ /\ thread[t].after[1].values \in [Carriers -> Tunings]
                                    /\ thread[t].after[1].active \in Carriers
  /\ base.carrier = "" \/ base \in OwnTunings
  /\ dialog = Closed \/ (dialog.buckets \in OwnBuckets /\ dialog.genes \subseteq Genes)

SavesFollow ==
  /\ lock \in Threads \union {""}
  /\ \A t \in Threads : thread[t].save = TRUE \/ Idle(t)
  /\ \A t \in Threads : lock = t =>
       /\ thread[t].save = TRUE /\ thread[t].writes = <<>>
       /\ \/ image.buckets = memory.buckets /\ image.active = memory.active
          \/ \E u \in Threads \ {t} : thread[u].save = TRUE
  /\ FileCurrent
=============================================================================
