------------------------------ MODULE GenePlan ------------------------------
(***************************************************************************)
(* From a Gene Lab file to the pieces a TLS hello is sent in               *)
(* (uac_desktop/gene_import.py, gene_ops.py, tls_tools.py and their use in *)
(* ui.py and pattern_core/core.py).  The user imports strategies, selects  *)
(* one and connects: its method, and for a primitive strategy its list of  *)
(* ops, decides how the hello that Xray wrote is cut.  Whatever is chosen  *)
(* the server must receive that hello.  Abstractions: a hello is the       *)
(* handshake bytes 1..Hello with the name at Name, a record header is one  *)
(* element of the wire; the rewriting ops, which the live mode never runs, *)
(* are one kind; an item that is no op, or has no kind, has the kind "".   *)
(***************************************************************************)
EXTENDS Naturals, Sequences, FiniteSets, SequencesExt

CONSTANTS
  Hello,        \* handshake bytes of a hello
  Name,         \* <<first, last>> byte of the server name in it
  Raw,          \* the strategies a file may hold
  MaxOps,       \* ops that are kept of a strategy, 12
  Imports       \* bound on imports

VARIABLES
  list,         \* imported strategies by id
  selected,     \* the id that is selected, or ""
  given,        \* the hello that Xray wrote, as elements of the wire
  method, ops,  \* what the tuning of the connect says
  plan,         \* pieces, delays and kinds skipped, made by the core
  imports

vars == <<list, selected, given, method, ops, plan, imports>>

Safe == {"tcp_frag", "delay", "record_cut", "sni_cut"}
Op(k, s, d, o) == [kind |-> k, size |-> s, delay |-> d, offset |-> o]
NoPlan == [pieces |-> <<>>, delays |-> <<>>, skipped |-> {}, fell |-> FALSE]

\* An element of the wire: the header of a record of n bytes, or a byte.
Header(n) == <<n, 0>>
Byte(p) == <<0, p>>
Payload(wire) == SelectSeq(wire, LAMBDA e: e[1] = 0)
Record(bytes) == <<Header(Len(bytes))>> \o bytes
Body(named) == [p \in 1..Hello |-> Byte(IF named \/ p \notin Name[1]..Name[2] THEN p ELSE Hello + p)]

\* What Xray writes: a hello, one without the name, or one that goes on in a
\* later segment.
Hellos == {Record(Body(TRUE)), Record(Body(FALSE)), SubSeq(Record(Body(TRUE)), 1, Hello - 1)}
Whole(wire) == wire[1][1] = Len(wire) - 1
NameBytes == [i \in 1..(Name[2] - Name[1] + 1) |-> Byte(Name[1] + i - 1)]
NameAt(wire) == {i \in 1..Len(wire) : /\ i + Len(NameBytes) - 1 <= Len(wire)
                                      /\ SubSeq(wire, i, i + Len(NameBytes) - 1) = NameBytes}

----------------------------------------------------------------------------
(* The plan of a primitive strategy. *)

Sizes(os, k) == LET s == SelectSeq(os, LAMBDA o: o.kind = k) IN [i \in 1..Len(s) |-> s[i].size]

\* Pieces of the given sizes, and what is left.
Split(s, sizes) ==
  LET f == FoldLeft(LAMBDA a, n:
             IF a.off >= Len(s) THEN a
             ELSE [out |-> Append(a.out, SubSeq(s, a.off + 1, IF a.off + n < Len(s) THEN a.off + n ELSE Len(s))),
                   off |-> IF a.off + n < Len(s) THEN a.off + n ELSE Len(s)],
             [out |-> <<>>, off |-> 0], sizes)
  IN IF f.off < Len(s) THEN Append(f.out, SubSeq(s, f.off + 1, Len(s))) ELSE f.out

\* The same hello in records of the given sizes.
Wrap_Rest(wire, sizes) == FlattenSeq([i \in 1..Len(sizes) |->
                                   Record(IF i <= Len(Split(Payload(wire), sizes))
                                          THEN Split(Payload(wire), sizes)[i] ELSE <<>>)])
Wrap(wire, sizes) == FlattenSeq([i \in 1..Len(Split(Payload(wire), sizes)) |->
                                   Record(Split(Payload(wire), sizes)[i])])

\* A "delay" op belongs to the cut before it.
Delays(os) ==
  FoldLeft(LAMBDA a, o: CASE o.kind = "tcp_frag" -> Append(a, o.delay)
                          [] o.kind = "delay" /\ a # <<>> /\ o.delay > Last(a) -> Append(Front(a), o.delay)
                          [] OTHER -> a, <<>>, os)

\* The distances between the places where the name is cut.
NameCuts(os, wire) ==
  LET at == CHOOSE i \in NameAt(wire) : TRUE
      cuts == IF NameAt(wire) = {} THEN {}
              ELSE {at - 1 + o.offset : o \in {x \in ToSet(os) : x.kind = "sni_cut" /\ x.offset <= Len(NameBytes)}}
      order == SetToSortSeq(cuts \ {0}, <)
  IN [i \in 1..Len(order) |-> IF i = 1 THEN order[1] ELSE order[i] - order[i - 1]]

Parses(wire) == Whole(wire)
NeedsParse(os) == \E o \in ToSet(os) : o.kind \in {"record_cut", "sni_cut"}

BuildPlan(data, all) ==
  LET live == SelectSeq(all, LAMBDA o: o.kind \in Safe)
      fell == NeedsParse(live) /\ ~Parses(data)
      wire == IF fell \/ Sizes(live, "record_cut") = <<>> THEN data ELSE Wrap(data, Sizes(live, "record_cut"))
      cuts == IF fell THEN <<>> ELSE NameCuts(live, wire)
      waits == [i \in 1..Len(cuts) |-> 0] \o Delays(live)
      pieces == Split(wire, cuts \o Sizes(live, "tcp_frag"))
  IN [pieces |-> pieces,
      delays |-> [i \in 1..Len(pieces) |-> IF i < Len(pieces) /\ i <= Len(waits) THEN waits[i] ELSE 0],
      skipped |-> {o.kind : o \in {x \in ToSet(all) : x.kind \notin Safe}}
                  \cup (IF fell THEN {o.kind : o \in {x \in ToSet(live) : x.kind \in {"record_cut", "sni_cut"}}}
                        ELSE {}),
      fell |-> fell]

----------------------------------------------------------------------------
(* The pieces of the other methods. *)

Halves(data, cut) == <<SubSeq(data, 1, cut), SubSeq(data, cut + 1, Len(data))>>
Located(data) == data[1][1] > 0 /\ NameAt(data) # {}

Fragments(data, m) ==
  CASE m = "plain" \/ Len(data) < 2 -> <<data>>
    [] m = "full" -> [i \in 1..((Len(data) + 1) \div 2) |-> SubSeq(data, 2 * i - 1, IF 2 * i < Len(data) THEN 2 * i ELSE Len(data))]
    [] m \in {"sni_split", "sni_boundary"} /\ Located(data) ->
         Halves(data, (CHOOSE i \in NameAt(data) : TRUE) - 1
                      + (IF m = "sni_split" THEN Len(NameBytes) \div 2 ELSE 0))
    [] m = "tls_sni_records" /\ data[1][1] > 0 ->
         LET body == Tail(data)
             cut == IF Located(data) THEN (CHOOSE i \in NameAt(data) : TRUE) - 2 ELSE Len(body) \div 2
         IN <<Record(SubSeq(body, 1, cut)), Record(SubSeq(body, cut + 1, Len(body)))>>
    [] OTHER -> <<data>>

----------------------------------------------------------------------------
Init ==
  /\ list = [id \in {} |-> 0] /\ selected = "" /\ given = <<>> /\ method = "none" /\ ops = <<>>
  /\ plan = NoPlan /\ imports = 0

\* normalize_ops: the first ops, and of these the well-formed ones.
Kept(os) == SelectSeq(SubSeq(os, 1, IF Len(os) > MaxOps THEN MaxOps ELSE Len(os)),
                      LAMBDA o: o.kind # "")
Normal(s) == [id |-> s.id, method |-> s.method, score |-> s.score, confirmed |-> s.confirmed,
              ops |-> IF s.method = "primitive" THEN Kept(s.ops) ELSE <<>>]
Normalized(s) == s.method # "primitive" \/ Kept(s.ops) # <<>>

\* Whether it may be run is judged by what is kept of it.
TunnelSafe(s) == \A o \in ToSet(Kept(s.ops)) : o.kind \in Safe
Usable_Any(s) == Normalized(s) /\ s.confirmed
Usable(s) == Normalized(s) /\ s.confirmed /\ (s.method = "primitive" => TunnelSafe(s))

\* The places of a file that are loaded: of two strategies that cut alike the first.
Loaded(file) ==
  {i \in DOMAIN file :
     /\ Usable(file[i])
     /\ \A j \in 1..(i - 1) : Usable(file[j]) =>
          file[j].method # file[i].method \/ Normal(file[j]).ops # Normal(file[i]).ops}

\* They are taken in the order of their scores, the best first, else as in the file.
Earlier(file, i, j) ==
  \/ file[i].score > file[j].score
  \/ file[i].score = file[j].score /\ i < j

\* Of those with one id the last that is taken stays.
Stays(file, id) ==
  CHOOSE i \in Loaded(file) :
    /\ file[i].id = id
    /\ \A j \in Loaded(file) : file[j].id = id => j = i \/ Earlier(file, j, i)
Merge(file) ==
  LET ids == {file[i].id : i \in Loaded(file)}
  IN  [id \in DOMAIN list \cup ids |-> IF id \in ids THEN Normal(file[Stays(file, id)])
                                        ELSE list[id]]

\* MainWindow's settings: import a file; the best one becomes the selection
\* when there is none.
Import(file) ==
  /\ imports < Imports /\ plan = NoPlan
  /\ imports' = imports + 1
  /\ Loaded(file) # {}
  /\ list' = Merge(file)
  /\ selected' = IF selected # "" THEN selected
                 ELSE CHOOSE id \in DOMAIN list' : \A o \in DOMAIN list' : list'[o].score <= list'[id].score
  /\ UNCHANGED <<given, method, ops, plan>>

Clear ==
  /\ list # [id \in {} |-> 0] /\ plan = NoPlan
  /\ list' = [id \in {} |-> 0] /\ selected' = ""
  /\ UNCHANGED <<given, method, ops, plan, imports>>

Select(id) ==
  /\ plan = NoPlan /\ id # selected /\ method = "none"
  /\ selected' = id
  /\ UNCHANGED <<list, given, method, ops, plan, imports>>

\* A connect lays the strategy over the tuning of the carrier.
Overlay ==
  /\ selected \in DOMAIN list /\ method = "none"
  /\ method' = list[selected].method
  /\ ops' = list[selected].ops
  /\ UNCHANGED <<list, selected, given, plan, imports>>

\* A flow of the core that is not a spoofed one: the first bytes of Xray are
\* cut into pieces.
Cut(data) ==
  /\ method # "none" /\ plan = NoPlan
  /\ given' = data
  /\ plan' = IF method = "primitive" THEN BuildPlan(data, ops)
             ELSE [NoPlan EXCEPT !.pieces = Fragments(data, method),
                                 !.delays = [i \in 1..Len(Fragments(data, method)) |-> 0]]
  /\ UNCHANGED <<list, selected, method, ops, imports>>

\* The next connection.
Again ==
  /\ plan # NoPlan
  /\ plan' = NoPlan /\ given' = <<>> /\ method' = "none" /\ ops' = <<>>
  /\ UNCHANGED <<list, selected, imports>>

Next ==
  \/ \E s \in Raw : Import(<<s>>)
  \/ \E s, t \in Raw : s # t /\ Import(<<s, t>>)
  \/ Clear
  \/ \E id \in DOMAIN list : Select(id)
  \/ Overlay
  \/ \E data \in Hellos : Cut(data)
  \/ Again

Spec == Init /\ [][Next]_vars

----------------------------------------------------------------------------
TypeOK ==
  /\ imports \in 0..Imports /\ selected \in DOMAIN list \cup {""}
  /\ method \in {"none"} \cup {s.method : s \in Raw}
  /\ Len(plan.delays) = Len(plan.pieces)

\* Every record of a wire has the length its header says; the last one may
\* go on in a later segment if the hello did.
Framed(wire, open) ==
  \A i \in 1..Len(wire) : wire[i][1] > 0 =>
    LET next == {j \in (i + 1)..Len(wire) : wire[j][1] > 0}
        end == IF next = {} THEN Len(wire) ELSE (CHOOSE j \in next : \A k \in next : j <= k) - 1
    IN IF open /\ next = {} THEN wire[i][1] >= end - i ELSE wire[i][1] = end - i

\* Whatever strategy was imported and selected, the server receives the hello
\* that Xray wrote, in well-formed records: no byte lost, repeated or moved,
\* no empty piece, and no wait after the last one.  A rewritten hello would
\* break the transcript of TLS 1.3 (gene_ops.py:1-22).
HelloKept ==
  plan.pieces # <<>> =>
    LET wire == FlattenSeq(plan.pieces)
    IN /\ Payload(wire) = Payload(given)
       /\ Framed(wire, ~Whole(given))
       /\ \A i \in 1..Len(plan.pieces) : plan.pieces[i] # <<>>
       /\ Last(plan.delays) = 0

\* A primitive strategy is run with what was kept of one strategy that Gene Lab
\* confirmed, whatever was imported over it or selected meanwhile, and none of its
\* ops is skipped as unsafe, but for what needs a whole hello.  (What is beyond the
\* first MaxOps and what is malformed was dropped before it was judged.)
Confirmed(os) == \E s \in Raw : s.method = "primitive" /\ Usable(s) /\ os = Kept(s.ops)
RunAsConfirmed ==
  method = "primitive" /\ plan.pieces # <<>> =>
    Confirmed(ops) /\ (~plan.fell => plan.skipped = {})

\* Why: what is imported, and what a connect takes of it, is a confirmed strategy's.
GeneInv ==
  /\ \A id \in DOMAIN list : list[id].method = "primitive" => Confirmed(list[id].ops)
  /\ method = "primitive" => Confirmed(ops)
  /\ (method = "none" => plan = NoPlan) /\ RunAsConfirmed
=============================================================================
