-------------------------- MODULE LifecycleProofs --------------------------
(***************************************************************************)
(* Proofs about the life of a challenge, for any documents, any files an   *)
(* older library wrote, any number of commands at once and a crash between *)
(* any two of their steps.                                                 *)
(*                                                                         *)
(* What a command writes is not what stays on disk: a file that two write, *)
(* or that a crash cut short, holds cells of several.  So the invariant    *)
(* (Bundles) speaks of cells, not of files: a footer stands only over a    *)
(* header and a table that keep the challenge (FootLegit), for a reader    *)
(* opens nothing whose header and table the footer's root does not name.   *)
(* A file that is the whole output of one command (WholeFile) moreover has *)
(* the payloads its table describes.                                       *)
(***************************************************************************)
EXTENDS Lifecycle, FormatProofs

(***************************************************************************)
(* What a file says of itself                                              *)
(***************************************************************************)
\* The section the manifest was read from.
ManifestFrom(f, b, r) ==
    r.kind = "manifest" /\ r.root = Hash(<<<<"man", b.man>>>>) /\ "EXTERNAL" \notin r.flags

LEMMA ManifestRead ==
    ASSUME NEW f, Cells(f), Parse(f).ok
    PROVE  \E r \in ToSet(Parse(f).value.secs) : ManifestFrom(f, Parse(f).value, r)
<1> DEFINE b == Parse(f).value
           h == f[1][2]
           table == Slice(f, h.tableOff, TableEnd(h))
           secs == [i \in DOMAIN table |-> table[i][2]]
<1>1. TableOk(table) /\ Parse(f) = ParseTable(f, h, table)
  <2>1. b.h = h /\ TableOk(Slice(f, b.h.tableOff, TableEnd(b.h)))
    BY ParseFacts
  <2> QED
    BY <2>1 DEF Parse, Failed
<1>2. Parse(f) = ParseSections(f, h, table, secs) /\ b.secs = secs
  <2>1. b.h = h /\ b.secs = [i \in DOMAIN Slice(f, b.h.tableOff, TableEnd(b.h)) |->
                            Slice(f, b.h.tableOff, TableEnd(b.h))[i][2]]
    BY ParseFacts
  <2> HIDE DEF h, table
  <2>2. Parse(f) = ParseSections(f, h, table, secs)
    BY <1>1 DEF ParseTable, Failed
  <2> QED
    BY <2>1, <2>2 DEF table
<1>3. PICK manifest : manifest = ManifestOf(f, secs)
  OBVIOUS
<1> HIDE DEF h, table, secs
<1>4. manifest.ok /\ b.man = manifest.value
  BY <1>2, <1>3 DEF ParseSections, Failed, AndThen, Ok
<1>5. LayoutOk(f, h, secs)
  <2>1. b.h = h /\ LayoutOk(f, b.h, b.secs)
    BY ParseFacts DEF h
  <2> QED
    BY <1>2, <2>1
<1>6. PICK m \in DOMAIN secs : /\ secs[m].kind = "manifest"
                               /\ manifest = AndThen(VerifiedBytes(f, secs[m]),
                                    LAMBDA bytes : IF Len(bytes) = 1 /\ bytes[1][1] = "man" /\ DecodeOk(bytes[1][2])
                                                   THEN Ok(bytes[1][2]) ELSE Failed)
  <2>1. {i \in DOMAIN secs : secs[i].kind = "manifest"} # {}
    <3> DEFINE M == {i \in DOMAIN secs : secs[i].kind = "manifest"}
    <3>1. Cardinality(M) = 1
      BY <1>5 DEF LayoutOk
    <3> HIDE DEF M
    <3>2. M # {}
      BY <3>1, FS_EmptySet
    <3> QED
      BY <3>2 DEF M
  <2>2. PICK m : m = CHOOSE i \in DOMAIN secs : secs[i].kind = "manifest"
    OBVIOUS
  <2>3. m \in DOMAIN secs /\ secs[m].kind = "manifest"
    BY <2>1, <2>2
  <2> QED
    BY <1>3, <2>2, <2>3 DEF ManifestOf
<1>7. PICK r, got : r = secs[m] /\ got = VerifiedBytes(f, secs[m])
  OBVIOUS
<1>8. r \in ToSet(b.secs) /\ r.kind = "manifest"
  BY <1>2, <1>6, <1>7 DEF ToSet
<1>9. "EXTERNAL" \notin r.flags
  <2>1. RecordOk(r)
    BY <1>8, RecordFacts
  <2> QED
    BY <1>8, <2>1 DEF RecordOk, KindOk
<1>10. got.ok /\ Len(got.value) = 1 /\ got.value[1][1] = "man" /\ manifest.value = got.value[1][2]
  BY <1>4, <1>6, <1>7 DEF AndThen, Ok, Failed
<1>11. List(got.value) /\ Hash(got.value) = r.root
  BY <1>7, <1>8, <1>10, ReadList
<1>12. got.value[1] = <<"man", b.man>>
  <2>1. got.value = Slice(f, r.offset, StoredEnd(r))
    <3>1. RecordOk(r)
      BY <1>8, RecordFacts
    <3>2. r.comp = "none"
      BY <1>8, <3>1 DEF RecordOk, KindOk
    <3> QED
      BY <1>7, <1>10, <3>2 DEF VerifiedBytes, ReadPlain, AndThen, Ok, Failed
  <2>2. \A c \in ToSet(got.value) : WellFormed(c)
    BY <1>8, <1>9, <2>1, StoredFrame
  <2>3. got.value[1] \in ToSet(got.value)
    BY <1>10, <1>11, ListMembers
  <2>4. WellFormed(got.value[1])
    BY <2>2, <2>3
  <2> QED
    BY <1>4, <1>10, <2>4 DEF WellFormed
<1>13. got.value = <<<<"man", b.man>>>>
  <2>1. PICK bytes : bytes = got.value
    OBVIOUS
  <2>2. bytes = [i \in 1 .. 1 |-> bytes[i]]
    BY <1>10, <1>11, <2>1, ListMembers
  <2>3. PICK c : c = <<"man", b.man>>
    OBVIOUS
  <2>4. bytes[1] = c
    BY <1>12, <2>1, <2>3
  <2>5. bytes = <<c>>
    BY <2>2, <2>4
  <2> QED
    BY <2>1, <2>3, <2>5
<1> QED
  BY <1>8, <1>9, <1>11, <1>13 DEF ManifestFrom

(***************************************************************************)
(* The challenge                                                           *)
(***************************************************************************)
\* What a challenge was first written as.
Written1st(m) == Challenge(m.order) /\ CanLay(m.order) /\ Parse(LaidWith(m.order, m.ro)).ok

\* The sections that a rewrite neither adds nor makes anew.
Kept1st(m) == {s \in ToSet(m.order.specs) : s.kind \notin AddedKinds \cup {"manifest"}}

LEMMA ChallengeIsOk ==
    ASSUME NEW order, Challenge(order)
    PROVE  /\ OrderOk(order) /\ order.specs[1] \in ToSet(order.specs)
           /\ \A s \in ToSet(order.specs) : Payload(s.plain)
<1>1. order.specs \in Seq(ToSet(order.specs)) /\ order.specs # <<>>
  BY DEF Challenge
<1>2. 1 \in DOMAIN order.specs
  BY <1>1
<1>3. ASSUME NEW s \in ToSet(order.specs)
      PROVE  Cells(s.plain) /\ Cells(s.index) /\ s.to \in Seq(ToSet(s.to)) /\ s.cs \in Nat
             /\ Payload(s.plain)
  <2>1. Payload(s.plain) /\ Cells(s.index) /\ s.cs \in Nat /\ s.to \in Seq(Recipients)
    BY DEF Challenge
  <2>2. s.to \in Seq(ToSet(s.to))
    BY <2>1, OneSequence
  <2> QED
    BY <2>1, <2>2 DEF Payload
<1> QED
  BY <1>1, <1>2, <1>3 DEF OrderOk, ToSet

\* No cell of a body is a footer.
IndexSays(s) ==
    s.index # <<>> =>
        /\ s.from = "external" /\ HasIndex(s) /\ IndexOf(s).value = s.index
        /\ ParseIndex(s.index, ChunkCount(Len(s.plain), s.cs)).ok
        /\ Reduces(ParseIndex(s.index, ChunkCount(Len(s.plain), s.cs)).value,
                   Len(s.plain), s.cs, Hash(s.plain))

LEMMA AdoptedIndex ==
    ASSUME NEW s, IndexOf(s).ok, List(s.index), List(s.plain), s.cs \in Nat
    PROVE  IndexSays(s)
<1> SUFFICES ASSUME s.index # <<>>
             PROVE  /\ s.from = "external" /\ HasIndex(s) /\ IndexOf(s).value = s.index
                    /\ ParseIndex(s.index, ChunkCount(Len(s.plain), s.cs)).ok
                    /\ Reduces(ParseIndex(s.index, ChunkCount(Len(s.plain), s.cs)).value,
                               Len(s.plain), s.cs, Hash(s.plain))
  BY DEF IndexSays
<1>1. PICK got, n : n = ChunkCount(Len(s.plain), s.cs) /\ got = ParseIndex(s.index, n)
  OBVIOUS
<1>2. s.from = "external" /\ HasIndex(s)
  BY DEF IndexOf, Failed
<1>3. IndexOf(s) = AndThen(got, LAMBDA cvs : IF VerifyRoot(cvs, Hash(s.plain), s.cs) THEN Ok(s.index)
                                              ELSE Failed)
  BY <1>1, <1>2 DEF IndexOf
<1>4. got.ok /\ VerifyRoot(got.value, Hash(s.plain), s.cs) /\ IndexOf(s).value = s.index
  BY <1>3 DEF AndThen, Ok, Failed
<1>5. n >= 2 /\ Len(s.index) = n /\ got.value = [i \in 1 .. n |-> CvOf(s.index[i])]
  BY <1>1, <1>4 DEF ParseIndex, Ok, Failed
<1>6. n \in Nat
  BY <1>5, ListMembers
<1>7. List(got.value) /\ Len(got.value) = n
  BY <1>5, <1>6, MadeList
<1>8. Reduces(got.value, Len(s.plain), s.cs, Hash(s.plain))
  BY <1>1, <1>4, <1>5, <1>7 DEF Reduces, VerifyRoot
<1> QED
  BY <1>1, <1>2, <1>4, <1>8

\* The entries of an index are chaining values, or the one unit a chunk of one holds.
LEMMA IndexHasNoFoot ==
    ASSUME NEW s, IndexOf(s).ok, List(s.index), Payload(s.plain), s.cs \in Nat,
           NEW c \in ToSet(s.index)
    PROVE  c[1] # "foot"
<1>1. List(s.plain)
  BY DEF Payload, Cells, List
<1>2. s.index # <<>>
  <2>1. PICK i \in DOMAIN s.index : c = s.index[i]
    BY DEF ToSet
  <2> QED
    BY <2>1
<1>3. PICK n, got : n = ChunkCount(Len(s.plain), s.cs) /\ got = ParseIndex(s.index, n)
  OBVIOUS
<1>4. got.ok /\ Reduces(got.value, Len(s.plain), s.cs, Hash(s.plain))
  BY <1>1, <1>2, <1>3, AdoptedIndex DEF IndexSays
<1>5. got.value = Cvs(s.plain, 0, s.cs) /\ s.cs >= 1
  <2>1. got.value = Cvs(s.plain, 0, s.cs)
    BY <1>1, <1>4, ReducesToOne
  <2>2. s.cs >= 1
    BY <1>4, ValidSize DEF Reduces
  <2> QED
    BY <2>1, <2>2
<1>6. Len(s.index) = n /\ got.value = [i \in 1 .. n |-> CvOf(s.index[i])]
  BY <1>3, <1>4 DEF ParseIndex, Ok, Failed
<1>7. PICK i \in 1 .. n : c = s.index[i]
  BY <1>6, ListMembers DEF ToSet
<1>8. n \in Nat /\ i \in Nat /\ i - 1 \in 0 .. n - 1
  BY <1>6, ListMembers
<1>9. PICK chunk, u : chunk = Chunk(s.plain, i - 1, s.cs) /\ u = 0 + (i - 1) * s.cs
  OBVIOUS
<1>10. ChunkIs(s.plain, i - 1, s.cs, chunk) /\ (i - 1) * s.cs \in Nat
  BY <1>1, <1>3, <1>5, <1>8, <1>9, ChunkFacts
<1>11. u \in Nat /\ List(chunk) /\ Len(chunk) >= 1
  <2>1. PICK v \in Nat : v = (i - 1) * s.cs
    BY <1>10
  <2>2. u = v
    BY <1>9, <2>1
  <2> QED
    BY <1>10, <2>2 DEF ChunkIs
<1>12. CvOf(c) = Subtree(chunk, u)
  <2>1. \A j \in 1 .. ChunkCount(Len(s.plain), s.cs) :
           Cvs(s.plain, 0, s.cs)[j] = Subtree(Chunk(s.plain, j - 1, s.cs), 0 + (j - 1) * s.cs)
    BY <1>1, <1>5, CvsFacts
  <2>2. got.value[i] = Subtree(Chunk(s.plain, i - 1, s.cs), 0 + (i - 1) * s.cs)
    BY <1>3, <1>5, <2>1
  <2> QED
    BY <1>6, <1>7, <1>9, <2>2
<1>13. ASSUME c[1] = "foot"
       PROVE  FALSE
  <2>1. Subtree(chunk, u) = <<"leaf", 0, c>>
    BY <1>12, <1>13 DEF CvOf
  <2>2. Len(chunk) = 1 /\ Subtree(chunk, u) = <<"leaf", u, chunk[1]>>
    <3>1. CASE \E p, left, right :
                 /\ Parted(chunk, p, left, right)
                 /\ Subtree(chunk, u) = <<"node", Subtree(left, u), Subtree(right, u + p)>>
      <4>1. PICK x, y : Subtree(chunk, u) = <<"node", x, y>>
        BY <3>1
      <4>2. <<"node", x, y>> = <<"leaf", 0, c>>
        BY <2>1, <4>1
      <4>3. "node" = "leaf"
        BY <4>2, SameTriple
      <4> QED
        BY <4>3
    <3> QED
      BY <1>11, <3>1, SubtreeShape
  <2>3. c = chunk[1]
    <3>1. <<"leaf", u, chunk[1]>> = <<"leaf", 0, c>>
      BY <2>1, <2>2
    <3> QED
      BY <3>1, SameTriple
  <2>4. chunk[1] = s.plain[(i - 1) * s.cs + 1]
    <3>1. 1 \in 1 .. Len(chunk)
      BY <2>2
    <3> QED
      BY <1>10, <3>1 DEF ChunkIs
  <2>5. (i - 1) * s.cs + 1 \in 1 .. Len(s.plain)
    <3>1. PICK v \in Nat : v = (i - 1) * s.cs
      BY <1>10
    <3>2. PICK left : left = Len(s.plain) - (i - 1) * s.cs
      OBVIOUS
    <3>3. Len(s.plain) \in Nat /\ s.cs \in Nat
      BY <1>1, ListMembers
    <3>4. Len(chunk) = (IF s.cs < left THEN s.cs ELSE left) /\ Len(chunk) = 1
      BY <1>10, <2>2, <3>2 DEF ChunkIs
    <3>5. left = Len(s.plain) - v
      BY <3>1, <3>2
    <3>6. left >= 1
      BY <3>1, <3>3, <3>4, <3>5
    <3>7. v + 1 \in 1 .. Len(s.plain)
      BY <3>1, <3>3, <3>5, <3>6
    <3> QED
      BY <3>1, <3>7
  <2>6. c \in ToSet(s.plain)
    <3>1. PICK k : k = (i - 1) * s.cs + 1
      OBVIOUS
    <3>2. k \in 1 .. Len(s.plain) /\ c = s.plain[k]
      BY <2>3, <2>4, <2>5, <3>1
    <3> QED
      BY <1>1, <3>2, ListMembers
  <2> QED
    BY <1>13, <2>6 DEF Payload
<1> QED
  BY <1>13

(***************************************************************************)
(* What every file on disk keeps of the challenge                          *)
(***************************************************************************)
\* Names that were added stand behind those there were.
Longer(names, old) ==
    List(names) /\ Len(old) \in Nat /\ Len(old) <= Len(names) /\ \A i \in 1 .. Len(old) : names[i] = old[i]

Renamed(m, names) == <<<<"man", [ManifestIn(m.order) EXCEPT !.names = names]>>>>

\* The record of the manifest, of a section that was added, and of one of the challenge.
ManifestRec(m, r) ==
    /\ r.kind = "manifest" /\ r.name = m.order.specs[1].name
    /\ \E names : Longer(names, ManifestIn(m.order).names) /\ r.root = Hash(Renamed(m, names))

AddedRec(m, r) ==
    /\ r.kind \in AddedKinds /\ r.flags \cap {"SEALED", "EXTERNAL"} = {}
    /\ r.flags = {} \/ \E t \in ToSet(m.order.specs) : t.name = r.name
    /\ \E plain : Payload(plain) /\ r.root = Hash(plain)

Carries(t, r) ==
    /\ r.name = t.name /\ r.kind = t.kind /\ r.flags = t.flags /\ r.comp = t.comp
    /\ r.lenPlain = Len(t.plain) /\ r.root = Hash(t.plain)
    /\ r.chunkSize = t.cs \/ (r.enc = "aead" /\ t.cs = 0)
    /\ t.from = "external" /\ t.index # <<>> => r.indexOff # 0

OneOfEach(secs) ==
    \A i, j \in DOMAIN secs : i # j /\ secs[i].kind = secs[j].kind => secs[i].kind \notin AddedKinds

RecordKept(m, r) == ManifestRec(m, r) \/ AddedRec(m, r) \/ \E t \in Kept1st(m) : Carries(t, r)

\* The table of a file that a command wrote.
Faithful(m, ro, secs) ==
    /\ ro = m.ro
    /\ \A r \in ToSet(secs) : RecordKept(m, r)
    /\ \A t \in Kept1st(m) : \E r \in ToSet(secs) : Carries(t, r)
    /\ OneOfEach(secs)

\* A footer vouches for the header and the table a command wrote with it, whatever
\* payloads another command left between them.
FootLegit(m, c) ==
    \A h, table : c[2].root = CommitmentRoot(<<"hdr", h>>, table) =>
        Faithful(m, h.ro, [i \in DOMAIN table |-> table[i][2]])

CellsOk(m, f) == Cells(f) /\ \A c \in ToSet(f) : c[1] = "foot" => FootLegit(m, c)

\* What a file holds that is the whole output of one command.
WholeFile(f) ==
    \E order : OrderOk(order) /\ CanLay(order) /\ LaidAs(order, f) /\ IndexedAs(order, f)

(***************************************************************************)
(* What a command asks the writer for                                      *)
(***************************************************************************)
KeepsManifest(m, s) ==
    /\ s.kind = "manifest" /\ s.name = m.order.specs[1].name /\ s.from = "inline"
    /\ \E names : Longer(names, ManifestIn(m.order).names) /\ s.plain = Renamed(m, names)

AddsSection(m, s) ==
    /\ s.kind \in AddedKinds /\ s.flags \cap {"SEALED", "EXTERNAL"} = {}
    /\ s.flags = {} \/ \E t \in ToSet(m.order.specs) : t.name = s.name

KeepsSection(t, s) ==
    /\ s.name = t.name /\ s.kind = t.kind /\ s.flags = t.flags /\ s.comp = t.comp
    /\ s.plain = t.plain /\ s.from # "envelopes"
    /\ s.cs = t.cs \/ (s.encrypt /\ t.cs = 0)
    /\ t.from = "external" /\ t.index # <<>> => s.index # <<>>

SpecKept(m, s) == KeepsManifest(m, s) \/ AddsSection(m, s) \/ \E t \in Kept1st(m) : KeepsSection(t, s)

\* What the writer is given holds no footer.
Fed(order) == OrderOk(order) /\ \A s \in ToSet(order.specs) : Payload(s.plain)

OrderKeeps(m, order) ==
    /\ Fed(order)
    /\ \A s \in ToSet(order.specs) : SpecKept(m, s)
    /\ \A t \in Kept1st(m) : \E s \in ToSet(order.specs) : KeepsSection(t, s)
    /\ OneOfEach(order.specs)

LEMMA OneFooter ==
    ASSUME NEW order, Fed(order), CanLay(order), NEW ro, NEW f, f = LaidWith(order, ro),
           NEW c \in ToSet(f), c[1] = "foot"
    PROVE  c = f[f[1][2].footerOff + 1]
<1>1. FileCells(order, f)
  BY LaidCells DEF Fed
<1>2. ASSUME OrderCell(order, c)
      PROVE  FALSE
  <2>1. c \in Units(order)
    BY <1>2 DEF OrderCell
  <2>2. PICK s \in ToSet(order.specs) : c \in Supplied(order, s)
    BY <2>1 DEF Units
  <2>3. CASE c \in ToSet(s.plain)
    BY <2>3 DEF Fed, Payload
  <2>4. CASE c \in ToSet(s.index)
    <3>1. IndexOf(s).ok
      BY DEF CanLay, ToSet
    <3>2. List(s.index) /\ Payload(s.plain) /\ s.cs \in Nat
      BY DEF Fed, OrderOk, Cells, List
    <3> QED
      BY <2>4, <3>1, <3>2, IndexHasNoFoot
  <2>5. CASE c \in ToSet(EnvelopesOf(order.suite, s))
    <3>1. PICK i \in DOMAIN EnvelopesOf(order.suite, s) : c = EnvelopesOf(order.suite, s)[i]
      BY <2>5 DEF ToSet
    <3>2. c[1] = "env"
      BY <3>1 DEF EnvelopesOf
    <3> QED
      BY <3>2
  <2> QED
    BY <2>2, <2>3, <2>4, <2>5 DEF Supplied
<1> QED
  BY <1>1, <1>2 DEF FileCells

LEMMA LaidAreCells ==
    ASSUME NEW order, Fed(order), NEW ro
    PROVE  Cells(LaidWith(order, ro))
<1>1. FileCells(order, LaidWith(order, ro))
  BY LaidCells DEF Fed
<1> QED
  BY <1>1 DEF FileCells, FileCell, OrderCell, Cells

\* The record that is written for a section.
WrittenFor(order, s, r) ==
    /\ r.name = s.name /\ r.kind = s.kind /\ r.flags = s.flags /\ r.comp = s.comp
    /\ r.enc = (IF s.encrypt THEN "aead" ELSE "none") /\ r.chunkSize = s.cs
    /\ r.lenPlain = Len(PlainOf(order, s)) /\ r.root = Hash(PlainOf(order, s))
    /\ s.index # <<>> => r.indexOff # 0

LEMMA RecordIsKept ==
    ASSUME NEW m, NEW order, Fed(order), NEW s \in ToSet(order.specs), SpecKept(m, s),
           NEW r, WrittenFor(order, s, r)
    PROVE  RecordKept(m, r) /\ \A t : KeepsSection(t, s) => Carries(t, r)
<1>1. Payload(PlainOf(order, s))
  <2>1. CASE s.from = "envelopes"
    <3>1. Cells(PlainOf(order, s)) /\ \A c \in ToSet(AllEnvelopes(order)) : c[1] = "env"
      <4>1. \A c \in ToSet(AllEnvelopes(order)) :
               \E x \in ToSet(order.specs) : \E t \in ToSet(x.to) : c = EnvelopeCell(order.suite, x, t)
        BY EnvelopeFacts DEF Fed
      <4>2. \A c \in ToSet(AllEnvelopes(order)) : c[1] = "env"
        BY <4>1 DEF EnvelopeCell
      <4>3. OrderCells(order, AllEnvelopes(order))
        BY EnvelopeCells DEF Fed
      <4> QED
        BY <2>1, <4>2, <4>3 DEF OrderCells, OrderCell, Cells, PlainOf
    <3> QED
      BY <2>1, <3>1 DEF Payload, PlainOf
  <2>2. CASE s.from # "envelopes"
    BY <2>2 DEF PlainOf, Fed
  <2> QED
    BY <2>1, <2>2
<1>2. ASSUME NEW t, KeepsSection(t, s)
      PROVE  Carries(t, r)
  <2>1. PlainOf(order, s) = t.plain
    BY <1>2 DEF KeepsSection, PlainOf
  <2> QED
    BY <1>2, <2>1 DEF KeepsSection, Carries, WrittenFor
<1>3. CASE KeepsManifest(m, s)
  <2>1. PICK names : Longer(names, ManifestIn(m.order).names) /\ s.plain = Renamed(m, names)
    BY <1>3 DEF KeepsManifest
  <2>2. PlainOf(order, s) = s.plain
    BY <1>3 DEF KeepsManifest, PlainOf
  <2>3. r.root = Hash(Renamed(m, names)) /\ r.kind = "manifest" /\ r.name = m.order.specs[1].name
    BY <1>3, <2>1, <2>2 DEF KeepsManifest, WrittenFor
  <2>4. ManifestRec(m, r)
    BY <2>1, <2>3 DEF ManifestRec
  <2> QED
    BY <1>2, <2>4 DEF RecordKept
<1>4. CASE AddsSection(m, s)
  <2>1. AddedRec(m, r)
    BY <1>1, <1>4 DEF AddsSection, AddedRec, WrittenFor
  <2> QED
    BY <1>2, <2>1 DEF RecordKept
<1>5. CASE \E t \in Kept1st(m) : KeepsSection(t, s)
  BY <1>2, <1>5 DEF RecordKept
<1> QED
  BY <1>3, <1>4, <1>5 DEF SpecKept

LEMMA LaidIsWhole ==
    ASSUME NEW order, OrderOk(order), CanLay(order), NEW ro
    PROVE  WholeFile(LaidWith(order, ro))
<1>1. LaidAs(order, LaidWith(order, ro)) /\ IndexedAs(order, LaidWith(order, ro))
  BY LaidAsOrdered
<1> QED
  BY <1>1 DEF WholeFile

\* The record of every section, whether or not the file is one a reader accepts.
LEMMA LaidRecords ==
    ASSUME NEW order, Fed(order), CanLay(order), NEW ro, NEW f, f = LaidWith(order, ro),
           NEW i \in 1 .. Len(order.specs)
    PROVE  WrittenFor(order, order.specs[i], f[f[1][2].tableOff + i][2])
<1>1. OrderOk(order)
  BY DEF Fed
<1>2. PICK c, s : c = f[f[1][2].tableOff + i] /\ s = order.specs[i]
  OBVIOUS
<1>3. s \in ToSet(order.specs)
  BY <1>1, <1>2 DEF OrderOk, ToSet
<1>4. RecordAt(order, i, c)
  <2>1. LaidAs(order, f)
    BY <1>1, LaidAsOrdered
  <2> QED
    BY <1>2, <2>1 DEF LaidAs
<1>5. PICK r : r = c[2]
  OBVIOUS
<1>6. r = RecordFor(order, s, r.offset, r.indexOff)
  <2>1. PICK x : x = RecordFor(order, s, c[2].offset, c[2].indexOff)
    OBVIOUS
  <2>2. c = <<"rec", x>>
    BY <1>2, <1>4, <2>1 DEF RecordAt
  <2>3. c[2] = x
    BY <2>2
  <2> QED
    BY <1>5, <2>1, <2>3
<1>7. PICK off, idx : r = RecordFor(order, s, off, idx)
  BY <1>6
<1>8. RootOf(order, s) = Hash(PlainOf(order, s))
  BY <1>1, <1>2, RootOfSection
<1>9. ASSUME s.index # <<>>
      PROVE  r.indexOff # 0
  <2>1. IndexAt(s, r.indexOff, f)
    <3>1. IndexedAs(order, f)
      BY <1>1, LaidAsOrdered
    <3> QED
      BY <1>2, <1>5, <3>1 DEF IndexedAs
  <2>2. IndexOf(s).value = s.index
    <3>1. IndexOf(s).ok
      BY <1>1, <1>2 DEF CanLay, OrderOk
    <3>2. List(s.index) /\ List(s.plain) /\ s.cs \in Nat
      BY <1>1, <1>3 DEF OrderOk, Cells, List
    <3> QED
      BY <1>9, <3>1, <3>2, AdoptedIndex DEF IndexSays
  <2> QED
    BY <1>9, <2>1, <2>2 DEF IndexAt, HoldsAt
<1>10. WrittenFor(order, s, r)
  BY <1>7, <1>8, <1>9 DEF WrittenFor, RecordFor
<1> QED
  BY <1>2, <1>5, <1>10

LEMMA LaidKeeps ==
    ASSUME NEW m, NEW order, OrderKeeps(m, order), CanLay(order)
    PROVE  CellsOk(m, LaidWith(order, m.ro))
<1>1. Fed(order) /\ OrderOk(order)
  BY DEF OrderKeeps, Fed
<1>2. PICK f, body, offs, idxs : f = LaidWith(order, m.ro) /\ Assembles(order, m.ro, f, body, offs, idxs)
  BY <1>1, LaidAssembled
<1>3. PICK n \in Nat : n = Len(order.specs) /\ DOMAIN order.specs = 1 .. n
  BY <1>1 DEF OrderOk
<1>4. PICK k, foot, table : /\ k = 1 + Len(body) /\ table = [i \in 1 .. n |-> f[k + i]]
                            /\ foot = <<"foot", [root |-> CommitmentRoot(f[1], table), cls |-> 0, pq |-> 0]>>
  OBVIOUS
<1>5. /\ f[1] = <<"hdr", [fixed |-> TRUE, suite |-> order.suite, count |-> n,
                          tableOff |-> k, footerOff |-> k + n, incompat |-> {}, ro |-> m.ro]>>
      /\ f[k + n + 1] = foot
  BY <1>2, <1>3, <1>4 DEF Assembles
<1>6. f[1][2].footerOff = k + n /\ f[1][2].tableOff = k /\ f[1][2].ro = m.ro
  BY <1>5
<1>7. \A c \in ToSet(f) : c[1] = "foot" => c = foot
  BY <1>1, <1>2, <1>5, <1>6, OneFooter
<1>8. PICK secs : secs = [i \in 1 .. n |-> table[i][2]]
  OBVIOUS
<1>9. \A i \in 1 .. n : WrittenFor(order, order.specs[i], secs[i])
  <2>1. \A i \in 1 .. n : WrittenFor(order, order.specs[i], f[f[1][2].tableOff + i][2])
    BY <1>1, <1>2, <1>3, LaidRecords
  <2>2. \A i \in 1 .. n : secs[i] = f[k + i][2]
    BY <1>4, <1>8
  <2> QED
    BY <1>6, <2>1, <2>2
<1>10. DOMAIN secs = 1 .. n
  BY <1>8
<1>11. \A i \in 1 .. n : order.specs[i] \in ToSet(order.specs) /\ secs[i] \in ToSet(secs)
  BY <1>3, <1>10 DEF ToSet
<1>12. Faithful(m, m.ro, secs)
  <2>1. ASSUME NEW r \in ToSet(secs)
        PROVE  RecordKept(m, r)
    <3>1. PICK i \in 1 .. n : r = secs[i]
      BY <1>10 DEF ToSet
    <3>2. PICK s : s = order.specs[i]
      OBVIOUS
    <3>3. s \in ToSet(order.specs) /\ SpecKept(m, s) /\ WrittenFor(order, s, r)
      BY <1>9, <1>11, <3>1, <3>2 DEF OrderKeeps
    <3> QED
      BY <1>1, <3>3, RecordIsKept
  <2>2. ASSUME NEW t \in Kept1st(m)
        PROVE  \E r \in ToSet(secs) : Carries(t, r)
    <3>1. PICK s \in ToSet(order.specs) : KeepsSection(t, s)
      BY DEF OrderKeeps
    <3>2. PICK i \in 1 .. n : s = order.specs[i]
      BY <1>3 DEF ToSet
    <3>3. SpecKept(m, s) /\ WrittenFor(order, s, secs[i])
      BY <1>9, <3>1, <3>2 DEF OrderKeeps
    <3>4. Carries(t, secs[i])
      BY <1>1, <3>1, <3>3, RecordIsKept
    <3> QED
      BY <1>11, <3>4
  <2>3. OneOfEach(secs)
    <3>1. \A i \in 1 .. n : secs[i].kind = order.specs[i].kind
      BY <1>9 DEF WrittenFor
    <3> QED
      BY <1>3, <1>10, <3>1 DEF OrderKeeps, OneOfEach
  <2> QED
    BY <2>1, <2>2, <2>3 DEF Faithful
<1>13. FootLegit(m, foot)
  <2> SUFFICES ASSUME NEW h, NEW t, foot[2].root = CommitmentRoot(<<"hdr", h>>, t)
               PROVE  Faithful(m, h.ro, [i \in DOMAIN t |-> t[i][2]])
    BY DEF FootLegit
  <2>1. foot[2].root = CommitmentRoot(f[1], table)
    BY <1>4
  <2>2. <<"commit", f[1], table>> = <<"commit", <<"hdr", h>>, t>>
    BY <2>1 DEF CommitmentRoot
  <2>3. f[1] = <<"hdr", h>> /\ table = t
    BY <2>2, SameTriple
  <2>4. h.ro = m.ro
    <3>1. f[1][2] = h
      BY <2>3
    <3> QED
      BY <1>6, <3>1
  <2>5. [i \in DOMAIN t |-> t[i][2]] = secs
    BY <1>4, <1>8, <2>3
  <2> QED
    BY <1>12, <2>4, <2>5
<1>14. Cells(f)
  BY <1>1, <1>2, LaidAreCells
<1>15. CellsOk(m, f)
  BY <1>7, <1>13, <1>14 DEF CellsOk
<1> QED
  BY <1>2, <1>15

\* What a reader finds in a file of such cells.
LEMMA FileIsFaithful ==
    ASSUME NEW m, NEW f, CellsOk(m, f), Parse(f).ok
    PROVE  Faithful(m, Parse(f).value.h.ro, Parse(f).value.secs)
<1> DEFINE b == Parse(f).value
           table == Slice(f, b.h.tableOff, TableEnd(b.h))
<1>1. Cells(f) /\ f \in Seq(ToSet(f))
  BY DEF CellsOk, Cells
<1>2. PICK k : k = f[1][2].footerOff
  OBVIOUS
<1>3. b.h = f[1][2] /\ 1 \in DOMAIN f /\ k \in Nat /\ k + 2 <= Len(f) /\ f[k + 1][1] = "foot" /\ b.foot = f[k + 1][2]
  BY <1>1, <1>2, FooterFacts
<1>4. PICK c : c = f[k + 1]
  OBVIOUS
<1>5. c \in ToSet(f) /\ c[1] = "foot" /\ c[2].root = b.foot.root
  <2>1. Len(f) \in Nat /\ DOMAIN f = 1 .. Len(f)
    BY <1>1
  <2>2. k + 1 \in DOMAIN f
    BY <1>3, <2>1
  <2> QED
    BY <1>3, <1>4, <2>2 DEF ToSet
<1>6. b.foot.root = CommitmentRoot(f[1], table)
  BY ParseFacts
<1>7. f[1] = <<"hdr", f[1][2]>>
  <2>1. f[1][1] = "hdr"
    BY DEF Parse, Failed
  <2>2. f[1] \in ToSet(f)
    BY <1>3 DEF ToSet
  <2>3. WellFormed(f[1])
    BY <1>1, <2>2 DEF Cells
  <2> QED
    BY <2>1, <2>3 DEF WellFormed
<1>8. b.secs = [i \in DOMAIN table |-> table[i][2]]
  BY ParseFacts
<1>9. FootLegit(m, c)
  BY <1>5 DEF CellsOk
<1> HIDE DEF table, b
<1>10. Faithful(m, f[1][2].ro, [i \in DOMAIN table |-> table[i][2]])
  BY <1>5, <1>6, <1>7, <1>9 DEF FootLegit
<1> QED
  BY <1>3, <1>8, <1>10 DEF b

(***************************************************************************)
(* What commands and crashes make of a file                                *)
(***************************************************************************)
LEMMA NothingIsOk == \A m : CellsOk(m, <<>>)
<1>1. ToSet(<<>>) = {} /\ <<>> \in Seq(ToSet(<<>>))
  BY DEF ToSet
<1> QED
  BY <1>1 DEF CellsOk, Cells

LEMMA PartIsOk ==
    ASSUME NEW m, NEW f, CellsOk(m, f), NEW a \in Int, a >= 1, NEW n \in Int, n <= Len(f)
    PROVE  CellsOk(m, SubSeq(f, a, n))
<1>1. f \in Seq(ToSet(f))
  BY DEF CellsOk, Cells
<1>2. PICK g : g = SubSeq(f, a, n)
  OBVIOUS
<1>3. g \in Seq(ToSet(g)) /\ ToSet(g) \subseteq ToSet(f)
  BY <1>1, <1>2, CutCells
<1>4. CellsOk(m, g)
  BY <1>3 DEF CellsOk, Cells
<1> QED
  BY <1>2, <1>4

LEMMA OverIsOk ==
    ASSUME NEW m, NEW f, CellsOk(m, f), NEW g, CellsOk(m, g)
    PROVE  CellsOk(m, Over(f, g))
<1>1. PICK n \in Nat : n = Len(f)
  BY DEF CellsOk, Cells
<1>2. PICK rest : rest = SubSeq(g, n + 1, Len(g))
  OBVIOUS
<1>3. CellsOk(m, rest)
  <2>1. Len(g) \in Nat
    BY DEF CellsOk, Cells
  <2>2. n + 1 \in Int /\ n + 1 >= 1 /\ Len(g) \in Int /\ Len(g) <= Len(g)
    BY <2>1
  <2> QED
    BY <1>2, <2>2, PartIsOk
<1>4. /\ f \o rest \in Seq(ToSet(f \o rest))
      /\ ToSet(f \o rest) \subseteq ToSet(f) \cup ToSet(rest)
  BY <1>3, JoinedCells DEF CellsOk, Cells
<1>5. CellsOk(m, f \o rest)
  BY <1>3, <1>4 DEF CellsOk, Cells
<1> QED
  BY <1>1, <1>2, <1>5 DEF Over

LEMMA OverNothing ==
    ASSUME NEW f, List(f)
    PROVE  Over(f, <<>>) = f
<1>1. PICK n \in Nat : n = Len(f)
  BY ListMembers
<1>2. SubSeq(<<>>, n + 1, 0) = <<>>
  <2>1. \A i \in Nat : ~(n + 1 <= i /\ i <= 0)
    BY <1>1
  <2> QED
    BY <1>1
<1>3. PICK S : S = ToSet(f) /\ f \in Seq(S)
  BY DEF List
<1>4. f \o <<>> = f
  BY <1>3
<1> QED
  BY <1>1, <1>2, <1>4 DEF Over

LEMMA NothingOver ==
    ASSUME NEW f, List(f), NEW old, List(old)
    PROVE  Over(SubSeq(f, 1, 0), old) = old
<1>1. SubSeq(f, 1, 0) = <<>>
  OBVIOUS
<1>2. SubSeq(old, 1, Len(old)) = old
  <2>1. PICK n \in Nat : n = Len(old)
    BY ListMembers
  <2>2. PICK t : t = SubSeq(old, 1, n)
    OBVIOUS
  <2>3. List(t) /\ Len(t) = n /\ \A i \in 1 .. n : t[i] = old[i]
    BY <2>1, <2>2, CutCells DEF List
  <2> QED
    BY <2>1, <2>2, <2>3, SameList
<1>3. PICK S : S = ToSet(old) /\ old \in Seq(S)
  BY DEF List
<1>4. <<>> \o old = old
  BY <1>3
<1>5. Len(<<>>) + 1 = 1
  OBVIOUS
<1> QED
  BY <1>1, <1>2, <1>4, <1>5 DEF Over

SignedAs(f, h, key, g) ==
    LET k == h.footerOff
        foot == [root |-> FootAt(f, h).root, cls |-> SlotLen, pq |-> SlotLen]
        over == SigInput(h.suite, foot, k + 4)
    IN /\ g \in Seq(ToSet(g)) /\ Len(g) = k + 4
       /\ \A i \in 1 .. k : g[i] = f[i]
       /\ g[k + 1] = <<"foot", foot>>
       /\ g[k + 2] = <<"sig", [key |-> key, part |-> "cls", over |-> over]>>
       /\ g[k + 3] = <<"sig", [key |-> key, part |-> "pq", over |-> over]>>
       /\ g[k + 4] = <<"tail", k + 4>>

\* The cells of a signed file, by name.
LEMMA SignedIs ==
    ASSUME NEW f, f \in Seq(ToSet(f)), NEW h, h.footerOff \in Nat, h.footerOff < Len(f),
           WellFormed(f[h.footerOff + 1]), f[h.footerOff + 1][1] = "foot", NEW key
    PROVE  SignedAs(f, h, key, Signed(f, h, key))
BY SignedCells DEF SignedAs

\* A signature is appended, and changes nothing that stands before the footer.
LEMMA SignedIsOk ==
    ASSUME NEW m, NEW f, CellsOk(m, f), Parse(f).ok, NEW key
    PROVE  /\ CellsOk(m, Signed(f, Parse(f).value.h, key))
           /\ WholeFile(f) => WholeFile(Signed(f, Parse(f).value.h, key))
<1>0. PICK h, k : h = f[1][2] /\ k = h.footerOff
  OBVIOUS
<1> DEFINE g == Signed(f, h, key)
           foot == [root |-> FootAt(f, h).root, cls |-> SlotLen, pq |-> SlotLen]
<1>1. Cells(f) /\ f \in Seq(ToSet(f))
  BY DEF CellsOk, Cells
<1>2. /\ h = Parse(f).value.h /\ 1 \in DOMAIN f /\ h.tableOff \in Nat /\ h.tableOff >= 1
      /\ h.count \in Nat /\ TableEnd(h) <= k /\ k \in Nat /\ k + 2 <= Len(f) /\ f[k + 1][1] = "foot"
  BY <1>0, <1>1, FooterFacts
<1>3. Len(f) \in Nat /\ DOMAIN f = 1 .. Len(f) /\ \A i \in DOMAIN f : f[i] \in ToSet(f)
  BY <1>1 DEF ToSet
<1>4. k + 1 \in DOMAIN f /\ k < Len(f)
  BY <1>2, <1>3
<1>5. WellFormed(f[k + 1]) /\ FootLegit(m, f[k + 1])
  BY <1>2, <1>3, <1>4 DEF CellsOk, Cells
<1>6. /\ g \in Seq(ToSet(g)) /\ Len(g) = k + 4
      /\ \A i \in 1 .. k : g[i] = f[i]
      /\ g[k + 1] = <<"foot", foot>>
      /\ g[k + 2][1] = "sig" /\ WellFormed(g[k + 2]) /\ g[k + 3][1] = "sig" /\ WellFormed(g[k + 3])
      /\ g[k + 4][1] = "tail" /\ WellFormed(g[k + 4])
  <2>0. /\ f \in Seq(ToSet(f)) /\ h.footerOff \in Nat /\ h.footerOff < Len(f)
        /\ WellFormed(f[h.footerOff + 1]) /\ f[h.footerOff + 1][1] = "foot"
    BY <1>0, <1>1, <1>2, <1>4, <1>5
  <2>2. foot = [root |-> FootAt(f, h).root, cls |-> SlotLen, pq |-> SlotLen] /\ g = Signed(f, h, key)
    OBVIOUS
  <2> HIDE DEF g, foot
  <2>3. SignedAs(f, h, key, Signed(f, h, key))
    BY <2>0, SignedIs
  <2>1. /\ g \in Seq(ToSet(g)) /\ Len(g) = k + 4
        /\ \A i \in 1 .. k : g[i] = f[i]
        /\ g[k + 1] = <<"foot", foot>>
        /\ g[k + 2] = <<"sig", [key |-> key, part |-> "cls", over |-> SigInput(h.suite, foot, k + 4)]>>
        /\ g[k + 3] = <<"sig", [key |-> key, part |-> "pq", over |-> SigInput(h.suite, foot, k + 4)]>>
        /\ g[k + 4] = <<"tail", k + 4>>
    BY <1>0, <2>2, <2>3 DEF SignedAs
  <2> QED
    BY <2>1 DEF WellFormed, Unpacks, Tags
<1>7. WellFormed(<<"foot", foot>>) /\ FootLegit(m, <<"foot", foot>>)
  <2>1. foot.root = f[k + 1][2].root
    BY <1>0 DEF FootAt
  <2>2. WellFormed(<<"foot", foot>>)
    BY DEF WellFormed, Unpacks, Tags
  <2> HIDE DEF foot
  <2> QED
    BY <1>5, <2>1, <2>2 DEF FootLegit
<1> HIDE DEF g, foot
<1>8. ASSUME NEW c \in ToSet(g)
      PROVE  WellFormed(c) /\ (c[1] = "foot" => FootLegit(m, c))
  <2>1. PICK i \in 1 .. k + 4 : c = g[i]
    BY <1>6 DEF ToSet
  <2>2. CASE i \in 1 .. k
    <3>1. c \in ToSet(f)
      BY <1>2, <1>3, <1>6, <2>1, <2>2
    <3> QED
      BY <3>1 DEF CellsOk, Cells
  <2>3. CASE i \in {k + 1, k + 2, k + 3, k + 4}
    BY <1>6, <1>7, <2>1, <2>3
  <2> QED
    BY <1>2, <2>2, <2>3
<1>9. CellsOk(m, g)
  BY <1>6, <1>8 DEF CellsOk, Cells
<1>10. ASSUME WholeFile(f)
       PROVE  WholeFile(g)
  <2>1. PICK order : OrderOk(order) /\ CanLay(order) /\ LaidAs(order, f) /\ IndexedAs(order, f)
    BY <1>10 DEF WholeFile
  <2>2. PICK t \in Nat : t = h.tableOff /\ t = f[1][2].tableOff
    BY <1>0, <1>2
  <2>3. h.count = Len(order.specs) /\ h = f[1][2] /\ TableEnd(h) = t + Len(order.specs)
    BY <1>0, <2>1, <2>2 DEF LaidAs, TableEnd
  <2>4. PICK n \in Nat : n = Len(order.specs) /\ t + n <= k /\ t >= 1
    BY <1>2, <2>2, <2>3
  <2>11. \A i \in 1 .. k : g[i] = f[i]
    BY <1>6
  <2>12. k \in Nat
    BY <1>2
  <2>5. g[1] = f[1]
    <3>1. 1 \in 1 .. k
      BY <2>2, <2>4, <2>12
    <3> QED
      BY <2>11, <3>1
  <2>6. \A i \in 1 .. n : g[t + i] = f[t + i]
    <3>1. \A i \in 1 .. n : t + i \in 1 .. k
      BY <2>2, <2>4, <2>12
    <3> QED
      BY <2>11, <3>1
  <2>7. ASSUME NEW off, NEW cells, List(cells), HoldsAt(f, off, cells)
        PROVE  HoldsAt(g, off, cells)
    <3>1. off \in Nat /\ off >= 1 /\ off + Len(cells) <= t
      BY <2>2, <2>7 DEF HoldsAt
    <3>2. Len(cells) \in Nat
      BY <2>7, ListMembers
    <3>3. \A j \in 1 .. Len(cells) : off + j \in 1 .. k
      BY <1>2, <2>2, <2>4, <3>1, <3>2
    <3> QED
      BY <1>6, <2>5, <2>7, <3>3 DEF HoldsAt
  <2>8. \A i \in 1 .. n : /\ List(Stored(order, order.specs[i]).value)
                          /\ List(IndexOf(order.specs[i]).value)
    <3>1. \A i \in 1 .. n : order.specs[i] \in ToSet(order.specs)
      BY <2>1, <2>4 DEF OrderOk, ToSet
    <3>2. \A s \in ToSet(order.specs) : /\ Stored(order, s).value \in Seq(CellsOf(order))
                                        /\ IndexOf(s).value \in Seq(CellsOf(order))
      BY <2>1, CellsOfOrder
    <3>3. \A s \in ToSet(order.specs) : List(Stored(order, s).value) /\ List(IndexOf(s).value)
      BY <3>2, OneSequence DEF List
    <3> QED
      BY <3>1, <3>3
  <2>9. LaidAs(order, g)
    <3>1. ASSUME NEW i \in 1 .. n
          PROVE  /\ RecordAt(order, i, g[t + i])
                 /\ PayloadAt(order, order.specs[i], g[t + i][2].offset, g)
      <4>1. /\ RecordAt(order, i, f[t + i])
            /\ PayloadAt(order, order.specs[i], f[t + i][2].offset, f)
        BY <2>1, <2>2, <2>4 DEF LaidAs
      <4>2. g[t + i] = f[t + i]
        BY <2>6
      <4> QED
        BY <2>7, <2>8, <4>1, <4>2 DEF PayloadAt
    <3> QED
      BY <2>1, <2>2, <2>4, <2>5, <3>1 DEF LaidAs
  <2>10. IndexedAs(order, g)
    <3>1. ASSUME NEW i \in 1 .. n
          PROVE  IndexAt(order.specs[i], g[t + i][2].indexOff, g)
      <4>1. IndexAt(order.specs[i], f[t + i][2].indexOff, f)
        BY <2>1, <2>2, <2>4 DEF IndexedAs
      <4>2. g[t + i] = f[t + i]
        BY <2>6
      <4> QED
        BY <2>7, <2>8, <4>1, <4>2 DEF IndexAt
    <3> QED
      BY <2>2, <2>4, <2>5, <3>1 DEF IndexedAs
  <2> QED
    BY <2>1, <2>9, <2>10 DEF WholeFile
<1> QED
  BY <1>0, <1>2, <1>9, <1>10 DEF g

(***************************************************************************)
(* What a reader accepted of the challenge                                 *)
(***************************************************************************)
LEMMA OneManifest ==
    ASSUME NEW f, Cells(f), Parse(f).ok,
           NEW r \in ToSet(Parse(f).value.secs), r.kind = "manifest",
           NEW x \in ToSet(Parse(f).value.secs), x.kind = "manifest"
    PROVE  r = x
<1>1. PICK secs : secs = Parse(f).value.secs
  OBVIOUS
<1>2. Cardinality({i \in DOMAIN secs : secs[i].kind = "manifest"}) = 1 /\ DOMAIN secs = 1 .. Len(secs)
      /\ Len(secs) \in Nat
  <2>1. LayoutOk(f, Parse(f).value.h, secs) /\ List(secs)
    BY <1>1, ParseFacts, SectionsList
  <2> QED
    BY <2>1, ListMembers DEF LayoutOk
<1>3. PICK i \in DOMAIN secs : r = secs[i]
  BY <1>1 DEF ToSet
<1>4. PICK j \in DOMAIN secs : x = secs[j]
  BY <1>1 DEF ToSet
<1>5. PICK M : M = {k \in DOMAIN secs : secs[k].kind = "manifest"}
  OBVIOUS
<1>6. Cardinality(M) = 1
  BY <1>2, <1>5
<1>7. IsFiniteSet(M)
  <2>1. IsFiniteSet(1 .. Len(secs))
    BY <1>2, FS_Interval
  <2>2. M \subseteq 1 .. Len(secs)
    BY <1>2, <1>5
  <2> QED
    BY <2>1, <2>2, FS_Subset
<1>8. i \in M /\ j \in M
  BY <1>3, <1>4, <1>5
<1>9. i = j
  <2>1. \E k : M = {k}
    BY <1>6, <1>7, FS_Singleton
  <2> QED
    BY <1>8, <2>1
<1> QED
  BY <1>3, <1>4, <1>9

\* What a section of the challenge is.
SpecFacts(m, s) ==
    /\ s.name \in Nat /\ s.name + 1 \in DOMAIN ManifestIn(m.order).names
    /\ s.kind = "manifest" => s = m.order.specs[1]
    /\ s.from = "external" <=> "EXTERNAL" \in s.flags
    /\ "SEALED" \in s.flags => s.kind # "manifest" /\ "EXTERNAL" \notin s.flags

LEMMA ChallengeFacts ==
    ASSUME NEW m, Written1st(m)
    PROVE  /\ OrderOk(m.order) /\ Fed(m.order) /\ m.order.specs[1] \in ToSet(m.order.specs)
           /\ \A s \in ToSet(m.order.specs) : SpecFacts(m, s)
           /\ \A s, t \in ToSet(m.order.specs) : s.name = t.name => s = t
<1>1. PICK order, g : order = m.order /\ g = LaidWith(m.order, m.ro)
  OBVIOUS
<1>2. OrderOk(order) /\ order.specs[1] \in ToSet(order.specs) /\ Fed(order) /\ CanLay(order) /\ Challenge(order)
  BY <1>1, ChallengeIsOk DEF Written1st, Fed
<1>3. Cells(g) /\ LaidAs(order, g) /\ Parse(g).ok
  BY <1>1, <1>2, LaidAreCells, LaidAsOrdered DEF Written1st
<1>4. PICK b : b = Parse(g).value
  OBVIOUS
<1>5. PICK n \in Nat : n = Len(order.specs) /\ DOMAIN order.specs = 1 .. n /\ 1 \in 1 .. n
  <2>1. order.specs \in Seq(ToSet(order.specs)) /\ order.specs # <<>>
    BY <1>2 DEF Challenge
  <2>2. PICK specs, S : specs = order.specs /\ S = ToSet(order.specs)
    OBVIOUS
  <2>3. specs \in Seq(S) /\ specs # <<>>
    BY <2>1, <2>2
  <2>4. PICK n \in Nat : n = Len(specs) /\ DOMAIN specs = 1 .. n /\ n # 0
    BY <2>3
  <2> QED
    BY <2>2, <2>4
<1>6. DOMAIN b.secs = 1 .. n
  BY <1>2, <1>3, <1>4, <1>5, WrittenTable
<1>7. \A i \in 1 .. n :
          /\ order.specs[i] \in ToSet(order.specs) /\ b.secs[i] \in ToSet(b.secs)
          /\ Describes(order, order.specs[i], b.secs[i])
          /\ PayloadAt(order, order.specs[i], b.secs[i].offset, g)
  BY <1>2, <1>3, <1>4, <1>5, WrittenTable
<1>8. PICK man : man = ManifestIn(order)
  OBVIOUS
<1>9. order.specs[1].kind = "manifest" /\ PlainOf(order, order.specs[1]) = <<<<"man", man>>>>
  BY <1>2, <1>8 DEF Challenge, PlainOf
<1>10. b.man = man
  <2>1. PICK r \in ToSet(b.secs) : ManifestFrom(g, b, r)
    BY <1>3, <1>4, ManifestRead
  <2>2. r = b.secs[1]
    <3>1. b.secs[1] \in ToSet(b.secs) /\ b.secs[1].kind = "manifest" /\ r.kind = "manifest"
      BY <1>5, <1>7, <1>9, <2>1 DEF Describes, ManifestFrom
    <3> QED
      BY <1>3, <1>4, <3>1, OneManifest
  <2>3. r.root = Hash(<<<<"man", man>>>>)
    BY <1>5, <1>7, <1>9, <2>2 DEF Describes
  <2>4. PICK c, d : c = <<"man", man>> /\ d = <<"man", b.man>>
    OBVIOUS
  <2>5. Hash(<<c>>) = Hash(<<d>>)
    BY <2>1, <2>3, <2>4 DEF ManifestFrom
  <2>6. List(<<c>>) /\ List(<<d>>)
    BY ShortLists DEF List
  <2>7. <<c>> = <<d>>
    BY <2>5, <2>6, HashTellsCells
  <2>8. c = d
    BY <2>7
  <2> QED
    BY <2>4, <2>8
<1>11. ASSUME NEW s \in ToSet(order.specs)
       PROVE  SpecFacts(m, s)
  <2>1. PICK i \in 1 .. n : s = order.specs[i]
    BY <1>5 DEF ToSet
  <2>2. PICK r : r = b.secs[i]
    OBVIOUS
  <2>3. r \in ToSet(b.secs) /\ Describes(order, s, r) /\ PayloadAt(order, s, r.offset, g)
    BY <1>7, <2>1, <2>2
  <2>4. RecordOk(r) /\ r.name \in Nat /\ r.name + 1 \in DOMAIN b.man.names
    BY <1>3, <1>4, <2>3, RecordFacts
  <2>5. s.name \in Nat /\ s.name + 1 \in DOMAIN man.names
    BY <1>10, <2>3, <2>4 DEF Describes
  <2>6. s.kind = "manifest" => s = order.specs[1]
    <3> SUFFICES ASSUME s.kind = "manifest" PROVE s = order.specs[1]
      OBVIOUS
    <3>1. PICK x : x = b.secs[1]
      OBVIOUS
    <3>2. x \in ToSet(b.secs) /\ Describes(order, order.specs[1], x)
      BY <1>5, <1>7, <3>1
    <3>3. r.kind = "manifest" /\ x.kind = "manifest"
      BY <1>9, <2>3, <3>2 DEF Describes
    <3>4. r = x
      BY <1>3, <1>4, <2>3, <3>2, <3>3, OneManifest
    <3>5. s.name = order.specs[1].name
      BY <2>3, <3>2, <3>4 DEF Describes
    <3> QED
      BY <1>2, <1>3, <3>5, OneSpecPerName
  <2>7. s.from = "external" <=> "EXTERNAL" \in s.flags
    <3>1. r.flags = s.flags
      BY <2>3 DEF Describes
    <3>2. ASSUME s.from # "external"
          PROVE  "EXTERNAL" \notin s.flags
      BY <1>3, <1>4, <2>3, <3>1, <3>2, WrittenInside
    <3>3. ASSUME s.from = "external", "EXTERNAL" \notin s.flags
          PROVE  FALSE
      <4>1. r.offset >= 1
        BY <2>4, <3>1, <3>3 DEF RecordOk, PlaceOk, HeaderLen
      <4>2. r.offset = 0
        BY <2>3, <3>3 DEF PayloadAt
      <4> QED
        BY <4>1, <4>2
    <3> QED
      BY <3>2, <3>3
  <2>8. "SEALED" \in s.flags => s.kind # "manifest" /\ "EXTERNAL" \notin s.flags
    BY <2>3, <2>4 DEF Describes, RecordOk, KindOk, SealedOk, PlaceOk
  <2> QED
    BY <1>1, <1>8, <2>5, <2>6, <2>7, <2>8 DEF SpecFacts
<1>12. \A s, t \in ToSet(order.specs) : s.name = t.name => s = t
  BY <1>2, <1>3, OneSpecPerName
<1> QED
  BY <1>1, <1>2, <1>11, <1>12

\* A challenge keeps itself.
LEMMA ChallengeKeeps ==
    ASSUME NEW m, Written1st(m)
    PROVE  OrderKeeps(m, m.order)
<1>1. PICK order, man : order = m.order /\ man = ManifestIn(order)
  OBVIOUS
<1>2. Fed(order) /\ \A s \in ToSet(order.specs) : SpecFacts(m, s)
  BY <1>1, ChallengeFacts
<1>3. Challenge(order)
  BY <1>1 DEF Written1st
<1>4. Longer(man.names, man.names)
  <2>1. Payload(order.specs[1].plain) /\ order.specs[1].plain = <<<<"man", man>>>>
    <3>1. order.specs[1] \in ToSet(order.specs)
      BY <1>1, ChallengeFacts
    <3> QED
      BY <1>1, <1>3, <3>1 DEF Challenge
  <2>2. PICK c : c = <<"man", man>>
    OBVIOUS
  <2>3. WellFormed(c)
    <3>1. PICK p : p = <<c>>
      OBVIOUS
    <3>2. Payload(p)
      BY <2>1, <2>2, <3>1
    <3>3. c \in ToSet(p)
      BY <3>1 DEF ToSet
    <3> QED
      BY <3>2, <3>3 DEF Payload, Cells
  <2>4. List(man.names)
    BY <2>2, <2>3 DEF WellFormed
  <2>5. Len(man.names) \in Nat
    BY <2>4, ListMembers
  <2> QED
    BY <2>4, <2>5 DEF Longer
<1>5. ASSUME NEW s \in ToSet(order.specs)
      PROVE  SpecKept(m, s)
  <2>1. CASE s.kind = "manifest"
    <3>1. s = order.specs[1]
      BY <1>1, <1>2, <2>1 DEF SpecFacts
    <3>2. s.from = "inline" /\ s.plain = <<<<"man", man>>>>
      BY <1>1, <1>3, <3>1 DEF Challenge
    <3>3. [man EXCEPT !.names = man.names] = man
      BY <1>1, <1>3 DEF Challenge
    <3>4. s.plain = Renamed(m, man.names)
      BY <1>1, <3>2, <3>3 DEF Renamed
    <3> QED
      BY <1>1, <1>4, <2>1, <3>1, <3>2, <3>4 DEF SpecKept, KeepsManifest
  <2>2. CASE s.kind \in AddedKinds
    <3>1. s.flags \cap {"SEALED", "EXTERNAL"} = {}
      BY <1>1, <1>3, <2>2 DEF Challenge
    <3> QED
      BY <1>1, <2>2, <3>1 DEF SpecKept, AddsSection
  <2>3. CASE s.kind \notin AddedKinds \cup {"manifest"}
    <3>1. s.from # "envelopes"
      BY <1>1, <1>3, <2>3 DEF Challenge, AddedKinds
    <3>2. KeepsSection(s, s)
      BY <1>1, <1>2, <3>1 DEF KeepsSection
    <3>3. s \in Kept1st(m)
      BY <1>1, <2>3 DEF Kept1st
    <3> QED
      BY <3>2, <3>3 DEF SpecKept
  <2> QED
    BY <2>1, <2>2, <2>3
<1>6. ASSUME NEW t \in Kept1st(m)
      PROVE  \E s \in ToSet(order.specs) : KeepsSection(t, s)
  <2>1. t \in ToSet(order.specs) /\ t.from # "envelopes"
    BY <1>1, <1>3 DEF Challenge, AddedKinds, Kept1st
  <2>2. KeepsSection(t, t)
    BY <2>1 DEF KeepsSection
  <2> QED
    BY <2>1, <2>2
<1>7. OneOfEach(order.specs)
  BY <1>3 DEF Challenge, OneOfEach
<1> QED
  BY <1>1, <1>2, <1>5, <1>6, <1>7 DEF OrderKeeps

(***************************************************************************)
(* A section, re-emitted                                                   *)
(***************************************************************************)
\* The manifest that is read is the challenge's, with names added.
LEMMA ManifestIsKept ==
    ASSUME NEW m, Written1st(m), NEW f, CellsOk(m, f), Parse(f).ok
    PROVE  LET b == Parse(f).value IN
           /\ Longer(b.man.names, ManifestIn(m.order).names)
           /\ b.man = [ManifestIn(m.order) EXCEPT !.names = b.man.names]
           /\ \A r \in ToSet(b.secs) : r.kind = "manifest" => r.name = m.order.specs[1].name
<1>1. PICK b, man : b = Parse(f).value /\ man = ManifestIn(m.order)
  OBVIOUS
<1>2. Cells(f) /\ Faithful(m, b.h.ro, b.secs)
  BY <1>1, FileIsFaithful DEF CellsOk
<1>3. \A r \in ToSet(b.secs) : r.kind = "manifest" => ManifestRec(m, r)
  BY <1>2 DEF Faithful, RecordKept, AddedRec, Carries, Kept1st, AddedKinds
<1>4. PICK r \in ToSet(b.secs) : ManifestFrom(f, b, r)
  BY <1>1, <1>2, ManifestRead
<1>5. PICK names : Longer(names, man.names) /\ r.root = Hash(Renamed(m, names))
  BY <1>1, <1>3, <1>4 DEF ManifestFrom, ManifestRec
<1>6. PICK new : new = [man EXCEPT !.names = names]
  OBVIOUS
<1>7. b.man = new
  <2>1. PICK c, d : c = <<"man", new>> /\ d = <<"man", b.man>>
    OBVIOUS
  <2>2. Hash(<<c>>) = Hash(<<d>>)
    BY <1>1, <1>4, <1>5, <1>6, <2>1 DEF ManifestFrom, Renamed
  <2>3. List(<<c>>) /\ List(<<d>>)
    BY ShortLists DEF List
  <2>4. <<c>> = <<d>>
    BY <2>2, <2>3, HashTellsCells
  <2>5. c = d
    BY <2>4
  <2> QED
    BY <2>1, <2>5
<1>8. "names" \in DOMAIN man /\ man = [key \in DOMAIN man |-> man[key]]
  BY <1>1 DEF Written1st, Challenge
<1>9. new.names = names
  BY <1>6, <1>8
<1>10. /\ Longer(b.man.names, man.names) /\ b.man = [man EXCEPT !.names = b.man.names]
       /\ \A x \in ToSet(b.secs) : x.kind = "manifest" => x.name = m.order.specs[1].name
  BY <1>3, <1>5, <1>6, <1>7, <1>9 DEF ManifestRec
<1> QED
  BY <1>1, <1>10

\* A section as the commands ask for it.
SpecOf(from, r, plain, index) ==
    [from |-> from, kind |-> r.kind, name |-> r.name, flags |-> r.flags, plain |-> plain,
     cs |-> r.chunkSize, comp |-> r.comp, index |-> index, encrypt |-> FALSE, stage |-> FALSE,
     to |-> <<>>]

LEMMA ManifestSpec ==
    ASSUME NEW f, NEW b, NEW r, NEW names, r.kind = "manifest",
           NEW new, new = [b.man EXCEPT !.names = names]
    PROVE  Kept(f, b, r, names) = SpecOf("inline", r, <<<<"man", new>>>>, <<>>)
BY DEF Kept, InlineSpec, SpecOf

LEMMA ExternalSpec ==
    ASSUME NEW f, NEW b, NEW r, NEW names, r.kind # "manifest", "EXTERNAL" \in r.flags,
           NEW plain, plain = Behind(r),
           NEW index, index = IF r.indexOff = 0 THEN <<>> ELSE Slice(f, r.indexOff, IndexEnd(r))
    PROVE  Kept(f, b, r, names) = SpecOf("external", r, plain, index)
BY DEF Kept, InlineSpec, SpecOf

LEMMA SectionSpec ==
    ASSUME NEW f, NEW b, NEW r, NEW names, r.kind # "manifest", "EXTERNAL" \notin r.flags,
           NEW plain, plain = SectionBytes(f, b, r).value
    PROVE  Kept(f, b, r, names) = SpecOf("inline", r, plain, <<>>)
BY DEF Kept, InlineSpec, SpecOf

\* What the writer is given is a record.
Shaped(s) ==
    s = [from |-> s.from, kind |-> s.kind, name |-> s.name, flags |-> s.flags, plain |-> s.plain,
         cs |-> s.cs, comp |-> s.comp, index |-> s.index, encrypt |-> s.encrypt,
         stage |-> s.stage, to |-> s.to]

LEMMA SpecShaped ==
    ASSUME NEW s, NEW from, NEW r, NEW plain, NEW index, s = SpecOf(from, r, plain, index)
    PROVE  Shaped(s)
BY DEF SpecOf, Shaped

\* What a re-emitted section keeps.
ReEmits(m, r, s) ==
    /\ Shaped(s)
    /\ SpecKept(m, s) /\ s.kind = r.kind /\ s.name = r.name
    /\ \A t \in Kept1st(m) : Carries(t, r) => KeepsSection(t, s)
    /\ Payload(s.plain) /\ Cells(s.index) /\ s.to = <<>> /\ s.cs \in Nat

LEMMA ManifestAgain ==
    ASSUME Written1st(made), NEW f, CellsOk(made, f), Parse(f).ok,
           NEW names, Longer(names, ManifestIn(made.order).names),
           NEW r \in ToSet(Parse(f).value.secs), r.kind = "manifest"
    PROVE  ReEmits(made, r, Kept(f, Parse(f).value, r, names))
<1>1. PICK b, man, s : b = Parse(f).value /\ man = ManifestIn(made.order) /\ s = Kept(f, Parse(f).value, r, names)
  OBVIOUS
<1>2. PICK given : given = [b.man EXCEPT !.names = names]
  OBVIOUS
<1>3. b.man = [man EXCEPT !.names = b.man.names] /\ r.name = made.order.specs[1].name
  BY <1>1, ManifestIsKept
<1>4. "names" \in DOMAIN man /\ man = [key \in DOMAIN man |-> man[key]]
  BY <1>1 DEF Written1st, Challenge
<1>5. [b.man EXCEPT !.names = names] = [man EXCEPT !.names = names]
  BY <1>3, <1>4
<1>6. PICK new, c : new = [man EXCEPT !.names = names] /\ c = <<"man", new>>
  OBVIOUS
<1>7. s = SpecOf("inline", r, <<c>>, <<>>) /\ <<c>> = Renamed(made, names)
  <2>1. new = given
    BY <1>2, <1>5, <1>6
  <2>2. s = SpecOf("inline", r, <<<<"man", given>>>>, <<>>)
    BY <1>1, <1>2, ManifestSpec
  <2> QED
    BY <1>1, <1>6, <2>1, <2>2 DEF Renamed
<1>8. /\ s.plain = <<c>> /\ s.index = <<>> /\ s.to = <<>> /\ s.cs = r.chunkSize
      /\ s.from = "inline" /\ s.kind = "manifest" /\ s.name = r.name
  BY <1>7 DEF SpecOf
<1>9. Payload(<<c>>)
  <2>1. new.names = names
    BY <1>4, <1>6
  <2>2. WellFormed(c)
    BY <1>6, <2>1 DEF WellFormed, Unpacks, Tags, Longer
  <2>3. ToSet(<<c>>) = {c} /\ <<c>> \in Seq(ToSet(<<c>>))
    BY ShortLists DEF ToSet
  <2>4. c[1] # "foot"
    BY <1>6
  <2> QED
    BY <2>2, <2>3, <2>4 DEF Payload, Cells
<1>10. SpecKept(made, s)
  BY <1>1, <1>3, <1>7, <1>8 DEF SpecKept, KeepsManifest
<1>11. r.chunkSize \in Nat
  <2>1. RecordOk(r)
    BY RecordFacts DEF CellsOk
  <2> QED
    BY <2>1 DEF RecordOk
<1>12. \A t \in Kept1st(made) : ~Carries(t, r)
  BY DEF Kept1st, Carries
<1>13. Cells(<<>>)
  BY NothingIsOk DEF CellsOk
<1>14. ReEmits(made, r, s)
  <2>1. Shaped(s)
    BY <1>7, SpecShaped
  <2> QED
    BY <1>8, <1>9, <1>10, <1>11, <1>12, <1>13, <2>1 DEF ReEmits
<1> QED
  BY <1>1, <1>14

LEMMA ExternalAgain ==
    ASSUME Written1st(made), NEW f, CellsOk(made, f), Parse(f).ok, NEW names,
           NEW r \in ToSet(Parse(f).value.secs), r.kind # "manifest", "EXTERNAL" \in r.flags
    PROVE  ReEmits(made, r, Kept(f, Parse(f).value, r, names))
<1>1. PICK b, s, index : /\ b = Parse(f).value /\ s = Kept(f, Parse(f).value, r, names)
                         /\ index = IF r.indexOff = 0 THEN <<>> ELSE Slice(f, r.indexOff, IndexEnd(r))
  OBVIOUS
<1>2. s = SpecOf("external", r, Behind(r), index)
  BY <1>1, ExternalSpec
<1>3. Cells(f) /\ Faithful(made, b.h.ro, b.secs) /\ RecordOk(r)
  BY <1>1, FileIsFaithful, RecordFacts DEF CellsOk
<1>4. PICK t \in Kept1st(made) : Carries(t, r)
  BY <1>1, <1>3 DEF Faithful, RecordKept, ManifestRec, AddedRec
<1>5. t \in ToSet(made.order.specs) /\ r.root = Hash(t.plain)
  BY <1>4 DEF Kept1st, Carries
<1>6. Behind(r) = t.plain
  <2>1. PICK x : x = CHOOSE y \in ToSet(made.order.specs) : Hash(y.plain) = r.root
    OBVIOUS
  <2>2. x \in ToSet(made.order.specs) /\ Hash(x.plain) = Hash(t.plain)
    BY <1>5, <2>1
  <2>3. List(x.plain) /\ List(t.plain)
    <3>1. OrderOk(made.order)
      BY ChallengeFacts
    <3> QED
      BY <1>5, <2>2, <3>1, PlainCells
  <2>4. x.plain = t.plain
    BY <2>2, <2>3, HashTellsCells
  <2> QED
    BY <2>1, <2>4 DEF Behind
<1>7. /\ s.plain = t.plain /\ s.index = index /\ s.to = <<>> /\ s.cs = r.chunkSize /\ s.from = "external"
      /\ s.kind = r.kind /\ s.name = r.name /\ s.flags = r.flags /\ s.comp = r.comp
  BY <1>2, <1>6 DEF SpecOf
<1>8. r.enc = "none" /\ r.chunkSize \in Nat
  BY <1>3 DEF RecordOk, PlaceOk
<1>9. List(index) /\ Cells(index) /\ (r.indexOff # 0 => index # <<>>)
  <2>1. CASE r.indexOff = 0
    <3>1. CellsOk(made, <<>>)
      BY NothingIsOk
    <3> QED
      BY <1>1, <2>1, <3>1 DEF CellsOk, Cells, List
  <2>2. CASE r.indexOff # 0
    <3>1. PICK n, off : n = ChunkCount(r.lenPlain, r.chunkSize) /\ off = r.indexOff
      OBVIOUS
    <3>2. n \in Nat /\ n >= 2 /\ off \in Nat /\ off >= 1
      <4>1. r.lenPlain \in Nat /\ r.chunkSize \in Nat /\ r.chunkSize # 0 /\ n >= 2 /\ off \in Nat /\ off >= 1
        BY <1>3, <2>2, <3>1 DEF RecordOk, ChunkingOk, HeaderLen
      <4>2. r.chunkSize >= 1
        BY <4>1
      <4>3. n \in Nat
        BY <3>1, <4>1, <4>2, CountCovers DEF Covers
      <4> QED
        BY <4>1, <4>3
    <3>3. off + n <= Len(f)
      <4>1. PICK k : k = f[1][2].footerOff
        OBVIOUS
      <4>2. b.h = f[1][2] /\ k \in Nat /\ k + 2 <= Len(f) /\ Len(f) \in Nat
        BY <1>1, <1>3, <4>1, FooterFacts DEF Cells
      <4>3. IndexEnd(r) <= b.h.footerOff
        <5>1. PICK i \in DOMAIN b.secs : r = b.secs[i]
          BY <1>1 DEF ToSet
        <5>2. LayoutOk(f, b.h, b.secs)
          BY <1>1, ParseFacts
        <5> QED
          BY <2>2, <5>1, <5>2 DEF LayoutOk
      <4> QED
        BY <3>1, <3>2, <4>1, <4>2, <4>3 DEF IndexEnd
    <3>4. index = SubSeq(f, off + 1, off + n)
      BY <1>1, <2>2, <3>1 DEF Slice, IndexEnd
    <3>5. PICK lo, hi : lo = off + 1 /\ hi = off + n
      OBVIOUS
    <3>6. lo \in Int /\ lo >= 1 /\ hi \in Int /\ hi <= Len(f) /\ lo <= hi /\ hi - lo + 1 = n
      BY <3>2, <3>3, <3>5
    <3>7. f \in Seq(ToSet(f)) /\ index = SubSeq(f, lo, hi)
      BY <1>3, <3>4, <3>5 DEF Cells
    <3>8. index \in Seq(ToSet(index)) /\ Len(index) = n
      BY <3>6, <3>7, CutCells
    <3>9. CellsOk(made, index)
      BY <3>6, <3>7, PartIsOk
    <3>10. index # <<>>
      BY <3>2, <3>8
    <3> QED
      BY <3>8, <3>9, <3>10 DEF CellsOk, List
  <2> QED
    BY <2>1, <2>2
<1>10. ASSUME NEW x \in Kept1st(made), Carries(x, r)
       PROVE  KeepsSection(x, s)
  <2>1. x = t
    <3>1. x \in ToSet(made.order.specs) /\ x.name = t.name
      BY <1>4, <1>10 DEF Kept1st, Carries
    <3> QED
      BY <1>5, <3>1, ChallengeFacts
  <2> QED
    BY <1>4, <1>7, <1>8, <1>9, <2>1 DEF KeepsSection, Carries
<1>11. SpecKept(made, s)
  BY <1>4, <1>10 DEF SpecKept
<1>12. Payload(s.plain)
  <2>1. Fed(made.order)
    BY ChallengeFacts
  <2> QED
    BY <1>5, <1>7, <2>1 DEF Fed
<1>13. ReEmits(made, r, s)
  <2>1. Shaped(s)
    BY <1>2, SpecShaped
  <2> QED
    BY <1>7, <1>8, <1>9, <1>10, <1>11, <1>12, <2>1 DEF ReEmits
<1> QED
  BY <1>1, <1>13

LEMMA SectionAgain ==
    ASSUME Written1st(made), NEW f, CellsOk(made, f), Parse(f).ok, NEW names,
           NEW r \in ToSet(Parse(f).value.secs), r.kind # "manifest", "EXTERNAL" \notin r.flags,
           SectionBytes(f, Parse(f).value, r).ok
    PROVE  ReEmits(made, r, Kept(f, Parse(f).value, r, names))
<1>1. PICK b, s, got : /\ b = Parse(f).value /\ s = Kept(f, Parse(f).value, r, names)
                       /\ got = SectionBytes(f, Parse(f).value, r)
  OBVIOUS
<1>2. s = SpecOf("inline", r, got.value, <<>>)
  <2>1. PICK plain : plain = got.value
    OBVIOUS
  <2>2. plain = SectionBytes(f, Parse(f).value, r).value
    BY <1>1, <2>1
  <2>3. Kept(f, Parse(f).value, r, names) = SpecOf("inline", r, plain, <<>>)
    BY <2>2, SectionSpec
  <2> QED
    BY <1>1, <2>1, <2>3
<1>3. Cells(f) /\ Faithful(made, b.h.ro, b.secs) /\ RecordOk(r)
  BY <1>1, FileIsFaithful, RecordFacts DEF CellsOk
<1>4. List(got.value) /\ Hash(got.value) = r.root
  BY <1>1, <1>3, ReadBytes
<1>5. r.enc = "none"
  <2>1. VerifiedBytes(f, r).ok
    BY <1>1 DEF SectionBytes, Failed
  <2> QED
    BY <2>1 DEF VerifiedBytes, ReadPlain, AndThen, Failed
<1>6. /\ s.plain = got.value /\ s.index = <<>> /\ s.to = <<>> /\ s.cs = r.chunkSize /\ s.from = "inline"
      /\ s.kind = r.kind /\ s.name = r.name /\ s.flags = r.flags /\ s.comp = r.comp
  BY <1>2 DEF SpecOf
<1>7. r.chunkSize \in Nat /\ Cells(<<>>)
  <2>1. CellsOk(made, <<>>)
    BY NothingIsOk
  <2> QED
    BY <1>3, <2>1 DEF RecordOk, CellsOk
<1>8. ASSUME NEW t \in Kept1st(made), Carries(t, r)
      PROVE  KeepsSection(t, s) /\ Payload(s.plain)
  <2>1. t \in ToSet(made.order.specs) /\ r.root = Hash(t.plain) /\ t.flags = r.flags
    BY <1>8 DEF Kept1st, Carries
  <2>2. OrderOk(made.order) /\ Fed(made.order) /\ SpecFacts(made, t)
    BY <2>1, ChallengeFacts
  <2>3. List(t.plain)
    BY <2>1, <2>2, PlainCells
  <2>4. got.value = t.plain
    BY <1>4, <2>1, <2>3, HashTellsCells
  <2>5. t.from # "external"
    BY <2>1, <2>2 DEF SpecFacts
  <2>6. KeepsSection(t, s)
    BY <1>5, <1>6, <1>8, <2>4, <2>5 DEF KeepsSection, Carries
  <2> QED
    BY <1>6, <2>1, <2>2, <2>4, <2>6 DEF Fed
<1>9. SpecKept(made, s) /\ Payload(s.plain)
  <2>1. CASE AddedRec(made, r)
    <3>1. PICK plain : Payload(plain) /\ r.root = Hash(plain)
      BY <2>1 DEF AddedRec
    <3>2. List(plain)
      BY <3>1 DEF Payload, Cells, List
    <3>3. got.value = plain
      BY <1>4, <3>1, <3>2, HashTellsCells
    <3>4. AddsSection(made, s)
      BY <1>6, <2>1 DEF AddedRec, AddsSection
    <3> QED
      BY <1>6, <3>1, <3>3, <3>4 DEF SpecKept
  <2>2. CASE \E t \in Kept1st(made) : Carries(t, r)
    BY <1>8, <2>2 DEF SpecKept
  <2> QED
    BY <1>1, <1>3, <2>1, <2>2 DEF Faithful, RecordKept, ManifestRec
<1>10. ReEmits(made, r, s)
  <2>1. Shaped(s)
    BY <1>2, SpecShaped
  <2> QED
    BY <1>6, <1>7, <1>8, <1>9, <2>1 DEF ReEmits
<1> QED
  BY <1>1, <1>10

(***************************************************************************)
(* A bundle, rebuilt                                                       *)
(***************************************************************************)
LEMMA KeptReEmits ==
    ASSUME Written1st(made), NEW f, CellsOk(made, f), Parse(f).ok,
           NEW names, Longer(names, ManifestIn(made.order).names),
           NEW r \in ToSet(Parse(f).value.secs),
           "EXTERNAL" \in r.flags \/ SectionBytes(f, Parse(f).value, r).ok
    PROVE  ReEmits(made, r, Kept(f, Parse(f).value, r, names))
<1>1. CASE r.kind = "manifest"
  BY <1>1, ManifestAgain
<1>2. CASE r.kind # "manifest" /\ "EXTERNAL" \in r.flags
  BY <1>2, ExternalAgain
<1>3. CASE r.kind # "manifest" /\ "EXTERNAL" \notin r.flags
  BY <1>3, SectionAgain
<1> QED
  BY <1>1, <1>2, <1>3

\* The section a rewrite makes anew, and the place it gets.
LastOk(m, kind, last) ==
    /\ kind \in AddedKinds /\ last.kind = kind /\ last.flags = {} /\ Payload(last.plain)
    /\ last.index = <<>> /\ last.to = <<>> /\ last.cs \in Nat /\ Shaped(last)

\* What is handed to the writer.
Remakes(order) ==
    /\ OrderKeeps(made, order) /\ order = [suite |-> order.suite, specs |-> order.specs]
    /\ \A s \in ToSet(order.specs) : Shaped(s)

LEMMA RebuiltKeeps ==
    ASSUME Written1st(made), NEW f, CellsOk(made, f), Parse(f).ok,
           NEW names, Longer(names, ManifestIn(made.order).names),
           NEW kind, NEW last, LastOk(made, kind, last),
           Rebuilt(f, Parse(f).value, kind, names, last).ok
    PROVE  Remakes(Rebuilt(f, Parse(f).value, kind, names, last).value)
<1>1. PICK b, secs : b = Parse(f).value /\ secs = b.secs
  OBVIOUS
<1>2. Faithful(made, b.h.ro, secs) /\ List(secs) /\ Cells(f)
  BY <1>1, FileIsFaithful, SectionsList DEF CellsOk
<1>3. PICK S : S = {i \in DOMAIN secs : secs[i].kind # kind}
  OBVIOUS
<1>4. PICK rest : rest = Picked(secs, S)
  OBVIOUS
<1>5. PICK at \in Seq(S) :
         /\ \A x \in S : \E k \in 1 .. Len(at) : at[k] = x
         /\ \A i, j \in 1 .. Len(at) : i < j => at[i] < at[j]
         /\ List(rest) /\ Len(rest) = Len(at)
         /\ \A k \in 1 .. Len(at) : rest[k] = secs[at[k]]
  <2>1. List(secs) /\ S \subseteq DOMAIN secs
    BY <1>2, <1>3
  <2> QED
    BY <1>4, <2>1, PickedFacts
<1>6. PICK n \in Nat : n = Len(at) /\ DOMAIN rest = 1 .. n
  BY <1>5, ListMembers
<1>7. \A k \in 1 .. n : at[k] \in S /\ at[k] \in DOMAIN secs /\ rest[k] = secs[at[k]]
                        /\ rest[k] \in ToSet(secs) /\ rest[k] \in ToSet(rest)
  <2>1. \A k \in 1 .. n : at[k] \in S
    BY <1>6
  <2>2. \A k \in 1 .. n : at[k] \in DOMAIN secs
    BY <1>3, <2>1
  <2> QED
    BY <1>5, <1>6, <2>1, <2>2 DEF ToSet
<1>8. PICK specs, result : /\ specs = [i \in DOMAIN rest |-> Kept(f, b, rest[i], names)] \o <<last>>
                           /\ result = Rebuilt(f, b, kind, names, last)
  OBVIOUS
<1>9. /\ \A r \in ToSet(rest) : "EXTERNAL" \in r.flags \/ SectionBytes(f, b, r).ok
      /\ result.value = [suite |-> b.h.suite, specs |-> specs]
  BY <1>1, <1>3, <1>4, <1>8 DEF Rebuilt, Failed, Ok
<1>10. PICK order : order = result.value
  OBVIOUS
<1>11. order.specs = specs /\ order = [suite |-> order.suite, specs |-> order.specs]
  BY <1>9, <1>10
<1>12. PICK kept : kept = [i \in 1 .. n |-> Kept(f, b, rest[i], names)]
  OBVIOUS
<1>13. /\ List(specs) /\ Len(specs) = n + 1 /\ DOMAIN specs = 1 .. n + 1
       /\ \A i \in 1 .. n : specs[i] = Kept(f, b, rest[i], names)
       /\ specs[n + 1] = last
  <2>1. kept \in Seq(ToSet(kept)) /\ Len(kept) = n
    BY <1>12, MadeList DEF List
  <2>2. specs = kept \o <<last>>
    BY <1>6, <1>8, <1>12
  <2>3. PICK C : C = ToSet(kept) \cup {last}
    OBVIOUS
  <2>4. kept \in Seq(C) /\ <<last>> \in Seq(C)
    BY <2>1, <2>3
  <2>5. specs \in Seq(C) /\ Len(specs) = n + 1
    BY <2>1, <2>2, <2>4
  <2>6. \A i \in 1 .. n : specs[i] = kept[i]
    BY <2>1, <2>2, <2>4
  <2>7. specs[n + 1] = last
    BY <2>1, <2>2, <2>4
  <2> QED
    BY <1>12, <2>5, <2>6, <2>7, OneSequence DEF List
<1>14. \A i \in 1 .. n : ReEmits(made, rest[i], specs[i])
  <2>1. \A i \in 1 .. n : ReEmits(made, rest[i], Kept(f, b, rest[i], names))
    BY <1>1, <1>7, <1>9, KeptReEmits
  <2> QED
    BY <1>13, <2>1
<1>15. SpecKept(made, last)
  BY DEF LastOk, SpecKept, AddsSection
<1>16. ASSUME NEW s \in ToSet(specs)
       PROVE  SpecKept(made, s) /\ Payload(s.plain) /\ Cells(s.index) /\ s.to = <<>> /\ s.cs \in Nat
              /\ Shaped(s)
  <2>1. PICK i \in 1 .. n + 1 : s = specs[i]
    BY <1>13 DEF ToSet
  <2>2. CASE i \in 1 .. n
    BY <1>14, <2>1, <2>2 DEF ReEmits
  <2>3. CASE i = n + 1
    <3>1. Cells(<<>>)
      BY NothingIsOk DEF CellsOk
    <3> QED
      BY <1>13, <1>15, <2>1, <2>3, <3>1 DEF LastOk
  <2> QED
    BY <2>2, <2>3
<1>17. Fed(order)
  <2>1. \A s \in ToSet(specs) : /\ Cells(s.plain) /\ Cells(s.index) /\ s.to \in Seq(ToSet(s.to))
                                /\ s.cs \in Nat /\ Payload(s.plain)
    <3>1. <<>> \in Seq(ToSet(<<>>))
      OBVIOUS
    <3> QED
      BY <1>16, <3>1 DEF Payload
  <2> QED
    BY <1>11, <1>13, <2>1 DEF Fed, OrderOk, List
<1>18. ASSUME NEW t \in Kept1st(made)
       PROVE  \E s \in ToSet(specs) : KeepsSection(t, s)
  <2>1. PICK r \in ToSet(secs) : Carries(t, r)
    BY <1>2 DEF Faithful
  <2>2. PICK j \in DOMAIN secs : r = secs[j]
    BY DEF ToSet
  <2>3. j \in S
    BY <1>3, <2>1, <2>2 DEF Kept1st, Carries, LastOk
  <2>4. PICK k \in 1 .. n : at[k] = j
    BY <1>5, <1>6, <2>3
  <2>5. rest[k] = r
    BY <1>7, <2>2, <2>4
  <2>6. KeepsSection(t, specs[k])
    BY <1>14, <2>1, <2>5 DEF ReEmits
  <2>7. specs[k] \in ToSet(specs)
    <3>1. k \in 1 .. n + 1
      OBVIOUS
    <3> QED
      BY <1>13, <3>1 DEF ToSet
  <2> QED
    BY <2>6, <2>7
<1>19. OneOfEach(specs)
  <2>1. \A i \in 1 .. n : specs[i].kind = rest[i].kind
    BY <1>14 DEF ReEmits
  <2>2. \A i \in 1 .. n : specs[i].kind # kind
    BY <1>3, <1>7, <2>1
  <2>3. specs[n + 1].kind = kind
    BY <1>13 DEF LastOk
  <2>4. ASSUME NEW i \in 1 .. n, NEW j \in 1 .. n, i # j, specs[i].kind = specs[j].kind
        PROVE  specs[i].kind \notin AddedKinds
    <3>1. at[i] # at[j]
      <4>1. at[i] \in Nat /\ at[j] \in Nat
        <5>1. DOMAIN secs = 1 .. Len(secs)
          BY <1>2, ListMembers
        <5> QED
          BY <1>7, <5>1
      <4>2. i < j \/ j < i
        BY <2>4
      <4>3. i < j => at[i] < at[j]
        BY <1>5, <1>6
      <4>4. j < i => at[j] < at[i]
        BY <1>5, <1>6
      <4> QED
        BY <4>1, <4>2, <4>3, <4>4
    <3>2. PICK x, y : x = at[i] /\ y = at[j]
      OBVIOUS
    <3>3. x \in DOMAIN secs /\ y \in DOMAIN secs /\ secs[x].kind = specs[i].kind /\ secs[y].kind = specs[j].kind
      BY <1>7, <2>1, <3>2
    <3>4. secs[x].kind \notin AddedKinds
      BY <1>2, <2>4, <3>1, <3>2, <3>3 DEF Faithful, OneOfEach
    <3> QED
      BY <3>3, <3>4
  <2>5. ASSUME NEW i \in 1 .. n + 1, NEW j \in 1 .. n + 1, i # j, specs[i].kind = specs[j].kind
        PROVE  specs[i].kind \notin AddedKinds
    <3>1. CASE i \in 1 .. n /\ j \in 1 .. n
      BY <2>4, <2>5, <3>1
    <3>2. CASE i = n + 1
      <4>1. j \in 1 .. n
        BY <2>5, <3>2
      <4> QED
        BY <2>2, <2>3, <2>5, <3>2, <4>1
    <3>3. CASE j = n + 1
      <4>1. i \in 1 .. n
        BY <2>5, <3>3
      <4> QED
        BY <2>2, <2>3, <2>5, <3>3, <4>1
    <3> QED
      BY <3>1, <3>2, <3>3
  <2> QED
    BY <1>13, <2>5 DEF OneOfEach
<1>20. Remakes(order)
  BY <1>11, <1>16, <1>17, <1>18, <1>19 DEF OrderKeeps, Remakes
<1> QED
  BY <1>1, <1>8, <1>10, <1>20

(***************************************************************************)
(* What the commands write                                                 *)
(***************************************************************************)
\* The target of `seal`, encrypted to one recipient.
Turned(s, to) ==
    [s EXCEPT !.encrypt = TRUE, !.to = <<to>>, !.cs = IF @ = 0 THEN MinChunk ELSE @]

LEMMA TurnedKeeps ==
    ASSUME NEW s, Shaped(s), SpecKept(made, s), s.kind # "manifest", s.cs \in Nat, s.from = "inline",
           NEW to, NEW e, e = Turned(s, to)
    PROVE  /\ SpecKept(made, e) /\ \A t : KeepsSection(t, s) => KeepsSection(t, e)
           /\ e.kind = s.kind /\ e.plain = s.plain /\ e.index = s.index /\ e.to = <<to>> /\ e.cs \in Nat
<1>1. PICK cs, last : cs = (IF s.cs = 0 THEN MinChunk ELSE s.cs) /\ last = <<to>>
  OBVIOUS
<1>2. DOMAIN s = {"from", "kind", "name", "flags", "plain", "cs", "comp", "index", "encrypt", "stage", "to"}
  BY DEF Shaped
<1>3. /\ e.from = s.from /\ e.kind = s.kind /\ e.name = s.name /\ e.flags = s.flags /\ e.plain = s.plain
      /\ e.cs = cs /\ e.comp = s.comp /\ e.index = s.index /\ e.encrypt = TRUE /\ e.to = <<to>>
  <2>1. e = [[[s EXCEPT !.encrypt = TRUE] EXCEPT !.to = last] EXCEPT !.cs = cs]
    BY <1>1 DEF Turned
  <2>2. PICK x, y : x = [s EXCEPT !.encrypt = TRUE] /\ y = [x EXCEPT !.to = last]
    OBVIOUS
  <2>3. e = [y EXCEPT !.cs = cs]
    BY <2>1, <2>2
  <2>4. /\ DOMAIN x = DOMAIN s /\ x.encrypt = TRUE /\ x.from = s.from /\ x.kind = s.kind /\ x.name = s.name
        /\ x.flags = s.flags /\ x.plain = s.plain /\ x.comp = s.comp /\ x.index = s.index
    BY <1>2, <2>2
  <2>5. /\ DOMAIN y = DOMAIN x /\ y.encrypt = TRUE /\ y.from = x.from /\ y.kind = x.kind /\ y.name = x.name
        /\ y.flags = x.flags /\ y.plain = x.plain /\ y.comp = x.comp /\ y.index = x.index /\ y.to = last
    BY <1>2, <2>2, <2>4
  <2>6. /\ e.encrypt = TRUE /\ e.from = y.from /\ e.kind = y.kind /\ e.name = y.name
        /\ e.flags = y.flags /\ e.plain = y.plain /\ e.comp = y.comp /\ e.index = y.index /\ e.to = last
        /\ e.cs = cs
    BY <1>2, <2>3, <2>4, <2>5
  <2> QED
    BY <1>1, <2>4, <2>5, <2>6
<1>4. cs \in Nat
  BY <1>1, ChunkTreeAssumption
<1>5. ASSUME NEW t, KeepsSection(t, s)
      PROVE  KeepsSection(t, e)
  BY <1>1, <1>3, <1>5 DEF KeepsSection
<1>6. SpecKept(made, e)
  <2>1. CASE AddsSection(made, s)
    <3>1. AddsSection(made, e)
      BY <1>3, <2>1 DEF AddsSection
    <3> QED
      BY <3>1 DEF SpecKept
  <2>2. CASE \E t \in Kept1st(made) : KeepsSection(t, s)
    BY <1>5, <2>2 DEF SpecKept
  <2> QED
    BY <2>1, <2>2 DEF SpecKept, KeepsManifest
<1> QED
  BY <1>3, <1>4, <1>5, <1>6

\* A section that is encrypted on the way is the same section.
LEMMA EncryptedKeeps ==
    ASSUME NEW order, Remakes(order), NEW id, NEW to,
           \A s \in ToSet(order.specs) : s.kind = "manifest" => s.name # id
    PROVE  OrderKeeps(made, Encrypted(order, id, to))
<1>1. /\ order.specs \in Seq(ToSet(order.specs)) /\ Fed(order)
      /\ \A s \in ToSet(order.specs) : /\ Cells(s.plain) /\ Cells(s.index) /\ s.to \in Seq(ToSet(s.to))
                                       /\ s.cs \in Nat /\ Payload(s.plain) /\ SpecKept(made, s) /\ Shaped(s)
  BY DEF Remakes, OrderKeeps, Fed, OrderOk
<1>2. PICK n \in Nat : n = Len(order.specs) /\ DOMAIN order.specs = 1 .. n
  BY <1>1
<1>3. PICK specs, turned :
         /\ specs = [i \in 1 .. n |->
                IF order.specs[i].name # id \/ order.specs[i].from # "inline" THEN order.specs[i]
                ELSE Turned(order.specs[i], to)]
         /\ turned = Encrypted(order, id, to)
  OBVIOUS
<1>4. turned.specs = specs
  <2>1. turned = [order EXCEPT !.specs = specs]
    BY <1>2, <1>3 DEF Encrypted, Turned
  <2> QED
    BY <2>1 DEF Remakes
<1>5. ASSUME NEW i \in 1 .. n
      PROVE  LET s == order.specs[i]
                 e == specs[i]
             IN /\ s \in ToSet(order.specs)
                /\ SpecKept(made, e) /\ (\A t : KeepsSection(t, s) => KeepsSection(t, e))
                /\ e.kind = s.kind /\ Payload(e.plain) /\ Cells(e.plain) /\ Cells(e.index)
                /\ e.to \in Seq(ToSet(e.to)) /\ e.cs \in Nat
  <2>1. PICK s, e : s = order.specs[i] /\ e = specs[i]
    OBVIOUS
  <2>2. s \in ToSet(order.specs)
    BY <1>2, <2>1 DEF ToSet
  <2>3. CASE s.name # id \/ s.from # "inline"
    <3>1. e = s
      BY <1>3, <2>1, <2>3
    <3> QED
      BY <1>1, <2>1, <2>2, <3>1
  <2>4. CASE s.name = id /\ s.from = "inline"
    <3>1. e = Turned(s, to)
      BY <1>3, <2>1, <2>4
    <3>2. s.kind # "manifest"
      BY <2>2, <2>4
    <3>3. /\ SpecKept(made, e) /\ \A t : KeepsSection(t, s) => KeepsSection(t, e)
          /\ e.kind = s.kind /\ e.plain = s.plain /\ e.index = s.index /\ e.to = <<to>> /\ e.cs \in Nat
      <4>1. Shaped(s) /\ SpecKept(made, s) /\ s.kind # "manifest" /\ s.cs \in Nat /\ s.from = "inline"
        BY <1>1, <2>2, <2>4, <3>2
      <4> QED
        BY <3>1, <4>1, TurnedKeeps
    <3>4. e.to \in Seq(ToSet(e.to))
      BY <3>3 DEF ToSet
    <3> QED
      BY <1>1, <2>1, <2>2, <3>3, <3>4
  <2> QED
    BY <2>3, <2>4
<1>6. List(specs) /\ Len(specs) = n /\ DOMAIN specs = 1 .. n
  <2>1. specs = [i \in 1 .. n |-> specs[i]]
    BY <1>3
  <2> QED
    BY <2>1, MadeList
<1>7. \A e \in ToSet(specs) : /\ SpecKept(made, e) /\ Payload(e.plain) /\ Cells(e.plain) /\ Cells(e.index)
                              /\ e.to \in Seq(ToSet(e.to)) /\ e.cs \in Nat
  <2> SUFFICES ASSUME NEW e \in ToSet(specs)
               PROVE  /\ SpecKept(made, e) /\ Payload(e.plain) /\ Cells(e.plain) /\ Cells(e.index)
                      /\ e.to \in Seq(ToSet(e.to)) /\ e.cs \in Nat
    OBVIOUS
  <2>1. PICK i \in 1 .. n : e = specs[i]
    BY <1>6 DEF ToSet
  <2> QED
    BY <1>5, <2>1
<1>8. Fed(turned)
  BY <1>4, <1>6, <1>7 DEF Fed, OrderOk, List
<1>9. ASSUME NEW t \in Kept1st(made)
      PROVE  \E e \in ToSet(specs) : KeepsSection(t, e)
  <2>1. PICK s \in ToSet(order.specs) : KeepsSection(t, s)
    BY DEF Remakes, OrderKeeps
  <2>2. PICK i \in 1 .. n : s = order.specs[i]
    BY <1>2 DEF ToSet
  <2>3. KeepsSection(t, specs[i])
    BY <1>5, <2>1, <2>2
  <2>4. specs[i] \in ToSet(specs)
    BY <1>6 DEF ToSet
  <2> QED
    BY <2>3, <2>4
<1>10. OneOfEach(specs)
  <2>1. \A i \in 1 .. n : specs[i].kind = order.specs[i].kind
    BY <1>5
  <2> QED
    BY <1>2, <1>6, <2>1 DEF OneOfEach, Remakes, OrderKeeps
<1>11. OrderKeeps(made, turned)
  BY <1>4, <1>7, <1>8, <1>9, <1>10 DEF OrderKeeps
<1> QED
  BY <1>3, <1>11

\* A name that was added stands behind the ones there were.
LEMMA SlotNames ==
    ASSUME Written1st(made), NEW f, CellsOk(made, f), Parse(f).ok, NEW kind, NEW candidates
    PROVE  Longer(Slot(Parse(f).value, kind, candidates).names, ManifestIn(made.order).names)
<1>1. PICK old, names, got : /\ old = ManifestIn(made.order).names /\ names = Parse(f).value.man.names
                             /\ got = Slot(Parse(f).value, kind, candidates).names
  OBVIOUS
<1>2. Longer(names, old)
  BY <1>1, ManifestIsKept
<1>3. got = names \/ \E x : got = Append(names, x)
  BY <1>1 DEF Slot
<1>4. ASSUME NEW x
      PROVE  Longer(Append(names, x), old)
  <2>1. PICK n \in Nat : n = Len(names) /\ names \in Seq(ToSet(names))
    BY <1>2, ListMembers DEF Longer, List
  <2>2. PICK C, all : C = ToSet(names) \cup {x} /\ all = Append(names, x)
    OBVIOUS
  <2>3. names \in Seq(C) /\ x \in C
    BY <2>1, <2>2
  <2>4. all \in Seq(C) /\ Len(all) = n + 1 /\ \A i \in 1 .. n : all[i] = names[i]
    BY <2>1, <2>2, <2>3
  <2>5. List(all)
    BY <2>4, OneSequence DEF List
  <2>6. PICK k : k = Len(old)
    OBVIOUS
  <2>7. k \in Nat /\ k <= n /\ \A i \in 1 .. k : names[i] = old[i]
    BY <1>2, <2>1, <2>6 DEF Longer
  <2>8. k <= n + 1 /\ \A i \in 1 .. k : all[i] = old[i]
    BY <2>1, <2>4, <2>7
  <2> QED
    BY <2>2, <2>4, <2>5, <2>6, <2>8 DEF Longer
<1>5. Longer(got, old)
  BY <1>2, <1>3, <1>4
<1> QED
  BY <1>1, <1>5

LEMMA WriteKeeps ==
    ASSUME NEW order, OrderKeeps(made, order), made.ro = {"container_v1"}, Write(order).ok
    PROVE  CellsOk(made, Write(order).value) /\ WholeFile(Write(order).value)
<1>1. CanLay(order) /\ Write(order).value = LaidWith(order, made.ro)
  BY DEF Write, Reopened, Laid, Ok, Failed
<1>2. OrderOk(order)
  BY DEF OrderKeeps, Fed
<1> QED
  BY <1>1, <1>2, LaidKeeps, LaidIsWhole

LEMMA RewritableRo ==
    ASSUME NEW f, CellsOk(made, f), Parse(f).ok, MayRewrite(Parse(f).value.h)
    PROVE  made.ro = {"container_v1"}
<1>1. PICK h : h = Parse(f).value.h
  OBVIOUS
<1>2. h.ro = made.ro
  BY <1>1, FileIsFaithful DEF Faithful
<1>3. "container_v1" \in h.ro
  <2>1. h = f[1][2]
    BY <1>1, ParseFacts
  <2> QED
    BY <2>1 DEF Parse, Failed
<1> QED
  BY <1>1, <1>2, <1>3 DEF MayRewrite

LEMMA EmbedOk ==
    ASSUME Written1st(made), NEW f, CellsOk(made, f), Parse(f).ok, NEW chain \in Chains,
           Embed(f, Parse(f).value, chain).ok
    PROVE  LET g == Embed(f, Parse(f).value, chain).value IN CellsOk(made, g) /\ WholeFile(g)
<1>1. PICK b, slot, last, got, rebuilt :
         /\ b = Parse(f).value /\ slot = Slot(b, "entitlement", EntitlementNames)
         /\ last = InlineSpec("entitlement", slot.id, {}, chain)
         /\ got = Embed(f, b, chain)
         /\ rebuilt = Rebuilt(f, b, "entitlement", slot.names, last)
  OBVIOUS
<1>2. MayRewrite(b.h) /\ got = AndThen(rebuilt, Write)
  BY <1>1 DEF Embed, MayChange, Failed
<1>3. rebuilt.ok /\ got = Write(rebuilt.value)
  BY <1>1, <1>2 DEF AndThen, Failed
<1>4. Longer(slot.names, ManifestIn(made.order).names)
  BY <1>1, SlotNames
<1>5. LastOk(made, "entitlement", last)
  BY <1>1, ChainsAssumption DEF LastOk, InlineSpec, AddedKinds, Shaped
<1>6. Remakes(rebuilt.value)
  BY <1>1, <1>3, <1>4, <1>5, RebuiltKeeps
<1>7. made.ro = {"container_v1"}
  BY <1>1, <1>2, RewritableRo
<1>8. CellsOk(made, got.value) /\ WholeFile(got.value)
  BY <1>1, <1>3, <1>6, <1>7, WriteKeeps DEF Remakes
<1> QED
  BY <1>1, <1>8

LEMMA SealOk ==
    ASSUME Written1st(made), NEW f, CellsOk(made, f), Parse(f).ok, NEW name, NEW to,
           Seal(f, Parse(f).value, name, to).ok
    PROVE  LET g == Seal(f, Parse(f).value, name, to).value IN CellsOk(made, g) /\ WholeFile(g)
<1>1. PICK b, r, slot, got :
         /\ b = Parse(f).value /\ r = RecordNamed(b, name)[1]
         /\ slot = Slot(b, "keys", KeysNames)
         /\ got = Seal(f, b, name, to)
  OBVIOUS
<1>2. MayRewrite(b.h) /\ RecordNamed(b, name) # <<>> /\ got = SealTarget(f, b, r, to)
  BY <1>1 DEF Seal, MayChange, Failed
<1>3. PICK last, rebuilt :
         /\ last = [InlineSpec("keys", slot.id, {}, <<>>) EXCEPT !.from = "envelopes"]
         /\ rebuilt = Rebuilt(f, b, "keys", slot.names, last)
  OBVIOUS
<1>4. r.kind # "manifest" /\ got = AndThen(rebuilt, LAMBDA order : Write(Encrypted(order, r.name, to)))
  BY <1>1, <1>2, <1>3 DEF SealTarget, Failed
<1>5. rebuilt.ok /\ got = Write(Encrypted(rebuilt.value, r.name, to))
  BY <1>1, <1>4 DEF AndThen, Failed
<1>6. Longer(slot.names, ManifestIn(made.order).names)
  BY <1>1, SlotNames
<1>7. LastOk(made, "keys", last)
  <2>1. last = [from |-> "envelopes", kind |-> "keys", name |-> slot.id, flags |-> {}, plain |-> <<>>,
                cs |-> 0, comp |-> "none", index |-> <<>>, encrypt |-> FALSE, stage |-> FALSE, to |-> <<>>]
    BY <1>3 DEF InlineSpec
  <2>2. Payload(<<>>)
    <3>1. ToSet(<<>>) = {}
      BY DEF ToSet
    <3> QED
      BY <3>1, NothingIsOk DEF Payload, CellsOk
  <2>3. Shaped(last)
    BY <2>1 DEF Shaped
  <2> QED
    BY <2>1, <2>2, <2>3 DEF LastOk, AddedKinds
<1>8. Remakes(rebuilt.value)
  BY <1>1, <1>3, <1>5, <1>6, <1>7, RebuiltKeeps
<1>9. \A s \in ToSet(rebuilt.value.specs) : s.kind = "manifest" => s.name # r.name
  <2>1. \A s \in ToSet(rebuilt.value.specs) : s.kind = "manifest" => s.name = made.order.specs[1].name
    BY <1>8 DEF Remakes, OrderKeeps, SpecKept, KeepsManifest, AddsSection, KeepsSection, Kept1st, AddedKinds
  <2>2. r \in ToSet(b.secs)
    <3>1. PICK S, named : S = {i \in DOMAIN b.secs : b.man.names[b.secs[i].name + 1] = name}
                          /\ named = RecordNamed(b, name)
      OBVIOUS
    <3>2. List(b.secs) /\ S \subseteq DOMAIN b.secs /\ named = Picked(b.secs, S) /\ named # <<>>
      BY <1>1, <1>2, <3>1, SectionsList DEF RecordNamed, CellsOk
    <3>3. /\ List(named) /\ Len(named) = Cardinality(S)
          /\ \A k \in 1 .. Len(named) : \E i \in S : named[k] = b.secs[i]
      BY <3>2, PickedOf
    <3>4. 1 \in 1 .. Len(named)
      <4>1. named \in Seq(ToSet(named)) /\ Len(named) \in Nat
        BY <3>3, ListMembers DEF List
      <4>2. Len(named) # 0
        BY <3>2, <4>1
      <4> QED
        BY <4>1, <4>2
    <3>5. PICK i \in S : named[1] = b.secs[i]
      BY <3>3, <3>4
    <3> QED
      BY <1>1, <3>1, <3>2, <3>5 DEF ToSet
  <2>3. PICK x \in ToSet(b.secs) : x.kind = "manifest"
    BY <1>1, ManifestRead DEF CellsOk, ManifestFrom
  <2>4. x.name = made.order.specs[1].name
    BY <1>1, <2>3, ManifestIsKept
  <2>5. x.name # r.name
    BY <1>1, <1>4, <2>2, <2>3, OneRecordPerName
  <2> QED
    BY <2>1, <2>4, <2>5
<1>10. made.ro = {"container_v1"}
  BY <1>1, <1>2, RewritableRo
<1>11. OrderKeeps(made, Encrypted(rebuilt.value, r.name, to))
  BY <1>8, <1>9, EncryptedKeeps
<1>12. CellsOk(made, got.value) /\ WholeFile(got.value)
  BY <1>1, <1>5, <1>10, <1>11, WriteKeeps
<1> QED
  BY <1>1, <1>12

LEMMA SignOk ==
    ASSUME NEW f, CellsOk(made, f), Parse(f).ok, Sign(f, Parse(f).value).ok
    PROVE  LET g == Sign(f, Parse(f).value).value IN
           CellsOk(made, g) /\ (WholeFile(f) => WholeFile(g))
<1>1. PICK b, got, signed : /\ b = Parse(f).value /\ got = Sign(f, b)
                            /\ signed = Signed(f, b.h, Author)
  OBVIOUS
<1>2. got = Verified(signed)
  BY <1>1 DEF Sign, Failed
<1>3. got.value = signed
  BY <1>1, <1>2 DEF Verified, AndThen, Ok, Failed
<1> QED
  BY <1>1, <1>3, SignedIsOk

(***************************************************************************)
(* The challenge a document is packed into                                 *)
(***************************************************************************)
LEMMA SetIsListed ==
    ASSUME NEW S, IsFiniteSet(S)
    PROVE  List(SetToSeq(S))
<1>1. PICK n \in Nat : n = Cardinality(S) /\ ExistsBijection(1 .. n, S)
  BY FS_CardinalityType
<1>2. PICK g : g \in [1 .. n -> S] /\ IsInjective(g)
  BY <1>1 DEF ExistsBijection, Bijection, Injection
<1>3. PICK s : s = SetToSeq(S)
  OBVIOUS
<1>4. s \in [1 .. n -> S]
  <2>1. s = CHOOSE f \in [1 .. n -> S] : IsInjective(f)
    BY <1>1, <1>3 DEF SetToSeq
  <2> QED
    BY <1>2, <2>1
<1>5. s = [i \in 1 .. n |-> s[i]]
  BY <1>4
<1> QED
  BY <1>3, <1>5, MadeList

LEMMA TwoLists ==
    ASSUME NEW a, List(a), NEW b, List(b)
    PROVE  List(a \o b)
BY JoinedCells DEF List

LEMMA NamesListed ==
    ASSUME NEW s, s \in Seq(ToSet(s)), NEW names, names = [i \in DOMAIN s |-> s[i].name]
    PROVE  List(names)
<1>1. PICK n \in Nat : n = Len(s) /\ DOMAIN s = 1 .. n
  OBVIOUS
<1>2. names = [i \in 1 .. n |-> names[i]]
  BY <1>1
<1> QED
  BY <1>1, <1>2, MadeList

LEMMA JoinedHas ==
    ASSUME NEW a, List(a), NEW b, List(b)
    PROVE  ToSet(a) \cup ToSet(b) \subseteq ToSet(a \o b)
<1>1. PICK m \in Nat, n \in Nat : m = Len(a) /\ n = Len(b) /\ DOMAIN a = 1 .. m /\ DOMAIN b = 1 .. n
  BY ListMembers
<1>2. PICK c : c = a \o b
  OBVIOUS
<1>3. /\ c \in Seq(ToSet(c)) /\ Len(c) = m + n
      /\ \A i \in 1 .. m + n : c[i] = IF i <= m THEN a[i] ELSE b[i - m]
  BY <1>1, <1>2, JoinedCells DEF List
<1>4. DOMAIN c = 1 .. m + n
  BY <1>3
<1>5. \A i \in 1 .. m : i \in 1 .. m + n /\ c[i] = a[i]
  BY <1>3
<1>6. \A i \in 1 .. n : m + i \in 1 .. m + n /\ c[m + i] = b[i]
  <2>1. \A i \in 1 .. n : m + i \in 1 .. m + n /\ ~(m + i <= m) /\ m + i - m = i
    OBVIOUS
  <2> QED
    BY <1>3, <2>1
<1> QED
  BY <1>1, <1>2, <1>4, <1>5, <1>6 DEF ToSet

\* The first of every name, the empty one left out.
FirstOnes(all) == {i \in DOMAIN all : all[i] # "" /\ \A j \in 1 .. i - 1 : all[j] # all[i]}

\* What the name table is picked from.
AllNames(d, all) ==
    /\ List(all) /\ NameTable(d) = Picked(all, FirstOnes(all))
    /\ Names(d.artifacts) \cup Names(d.external) \subseteq ToSet(all)

\* A document's names are among those the table is picked from.
LEMMA NamesAll ==
    ASSUME NEW d \in Docs
    PROVE  \E all : AllNames(d, all)
<1>1. /\ d.artifacts \in Seq(ToSet(d.artifacts)) /\ d.external \in Seq(ToSet(d.external))
      /\ Optional(d.generate) /\ Optional(d.solver)
      /\ \A g \in d.generate : g.outputs \in Seq(ToSet(g.outputs)) /\ Optional(g.wasm)
      /\ IsFiniteSet(d.sealed) /\ \A s \in d.sealed : IsFiniteSet(s.members)
  BY DocsAssumption
<1>2. PICK artifacts, outside, members, solver, first :
         /\ artifacts = [i \in DOMAIN d.artifacts |-> d.artifacts[i].name]
         /\ outside = [i \in DOMAIN d.external |-> d.external[i].name]
         /\ members = SetToSeq(UNION {s.members : s \in d.sealed})
         /\ solver = SetToSeq(d.solver) /\ first = <<"manifest">>
  OBVIOUS
<1>3. PICK seqs, generated :
         /\ seqs = [i \in 1 .. Cardinality(d.generate) |->
                       SetToSeq((CHOOSE g \in d.generate : TRUE).wasm)
                       \o [j \in DOMAIN (CHOOSE g \in d.generate : TRUE).outputs |->
                              (CHOOSE g \in d.generate : TRUE).outputs[j].name]]
         /\ generated = FlattenSeq(seqs)
  OBVIOUS
<1>4. List(artifacts) /\ List(outside) /\ List(solver) /\ List(first)
  BY <1>1, <1>2, NamesListed, SetIsListed, ShortLists DEF Optional, List
<1>5. List(members)
  <2>1. PICK T, f : T = {s.members : s \in d.sealed} /\ f = [s \in d.sealed |-> s.members]
    OBVIOUS
  <2>2. f \in Surjection(d.sealed, T)
    BY <2>1 DEF Surjection
  <2>3. IsFiniteSet(T)
    BY <1>1, <2>2, FS_Surjection
  <2>4. IsFiniteSet(UNION T)
    BY <1>1, <2>1, <2>3, FS_UNION
  <2> QED
    BY <1>2, <2>1, <2>4, SetIsListed
<1>6. List(generated)
  <2>1. PICK n \in Nat : n = Cardinality(d.generate)
    BY <1>1, FS_CardinalityType DEF Optional
  <2>2. ASSUME NEW i \in 1 .. n
        PROVE  List(seqs[i])
    <3>1. d.generate # {}
      BY <1>1, <2>1, FS_EmptySet DEF Optional
    <3>2. PICK g : g = CHOOSE x \in d.generate : TRUE
      OBVIOUS
    <3>3. g \in d.generate
      BY <3>1, <3>2
    <3>4. PICK a, b : a = SetToSeq(g.wasm) /\ b = [j \in DOMAIN g.outputs |-> g.outputs[j].name]
      OBVIOUS
    <3>5. List(a) /\ List(b)
      BY <1>1, <3>3, <3>4, NamesListed, SetIsListed DEF Optional
    <3>6. seqs[i] = a \o b
      BY <1>3, <2>1, <3>2, <3>4
    <3> QED
      BY <3>5, <3>6, TwoLists
  <2>3. seqs = [i \in 1 .. n |-> seqs[i]]
    BY <1>3, <2>1
  <2> QED
    BY <1>3, <2>2, <2>3, FlattenLists
<1>7. PICK all : all = first \o artifacts \o generated \o members \o solver \o outside
  OBVIOUS
<1>8. List(all) /\ ToSet(artifacts) \cup ToSet(outside) \subseteq ToSet(all)
  <2>1. PICK a1, a2, a3, a4 : /\ a1 = first \o artifacts /\ a2 = a1 \o generated
                              /\ a3 = a2 \o members /\ a4 = a3 \o solver
    OBVIOUS
  <2>2. List(a1) /\ ToSet(artifacts) \subseteq ToSet(a1)
    BY <1>4, <2>1, TwoLists, JoinedHas
  <2>3. List(a2) /\ ToSet(a1) \subseteq ToSet(a2)
    BY <1>6, <2>1, <2>2, TwoLists, JoinedHas
  <2>4. List(a3) /\ ToSet(a2) \subseteq ToSet(a3)
    BY <1>5, <2>1, <2>3, TwoLists, JoinedHas
  <2>5. List(a4) /\ ToSet(a3) \subseteq ToSet(a4)
    BY <1>4, <2>1, <2>4, TwoLists, JoinedHas
  <2>6. all = a4 \o outside
    BY <1>7, <2>1
  <2>7. List(all) /\ ToSet(a4) \cup ToSet(outside) \subseteq ToSet(all)
    BY <1>4, <2>5, <2>6, TwoLists, JoinedHas
  <2> QED
    BY <2>2, <2>3, <2>4, <2>5, <2>7
<1>9. NameTable(d) = Picked(all, FirstOnes(all))
  BY <1>2, <1>3, <1>7 DEF NameTable, FirstOnes
<1>10. Names(d.artifacts) \subseteq ToSet(artifacts) /\ Names(d.external) \subseteq ToSet(outside)
  BY <1>2 DEF Names, ToSet
<1> QED
  BY <1>8, <1>9, <1>10 DEF AllNames

LEMMA NameTableListed ==
    ASSUME NEW d \in Docs
    PROVE  List(NameTable(d))
<1>1. PICK all : AllNames(d, all)
  BY NamesAll
<1>2. PICK S : S = FirstOnes(all)
  OBVIOUS
<1>3. List(all) /\ NameTable(d) = Picked(all, S) /\ S \subseteq DOMAIN all
  BY <1>1, <1>2 DEF AllNames, FirstOnes
<1> QED
  BY <1>3, PickedOf

\* The sections pack writes: of an artifact, and of an external payload.
OfArtifact(d, s) ==
    \E a \in ToSet(d.artifacts) :
        s = InlineSpec("artifact", IdOf(NameTable(d), a.name), {"PLAYER_VISIBLE"}, a.plain)

OfExternal(d, s) ==
    \E x \in ToSet(d.external) :
        s = [InlineSpec("artifact", IdOf(NameTable(d), x.name),
                        {"EXTERNAL", "PLAYER_VISIBLE"}, x.plain) EXCEPT !.from = "external"]

LEMMA PackOrderParts ==
    ASSUME NEW d \in Docs
    PROVE  LET specs == PackOrder(d, Suite).specs
               man == ManifestFor(d)
           IN /\ List(specs) /\ specs # <<>>
              /\ specs[1] = InlineSpec("manifest", 0, {}, <<<<"man", man>>>>)
              /\ \A s \in ToSet(specs) : s = specs[1] \/ OfArtifact(d, s) \/ OfExternal(d, s)
<1>1. d.artifacts \in Seq(ToSet(d.artifacts)) /\ d.external \in Seq(ToSet(d.external))
  BY DocsAssumption
<1>2. PICK m \in Nat : m = Len(d.artifacts) /\ DOMAIN d.artifacts = 1 .. m
  BY <1>1
<1>3. PICK n \in Nat : n = Len(d.external) /\ DOMAIN d.external = 1 .. n
  BY <1>1
<1>4. PICK specs, first, a, b :
         /\ specs = PackOrder(d, Suite).specs
         /\ first = InlineSpec("manifest", 0, {}, <<<<"man", ManifestFor(d)>>>>)
         /\ a = [i \in 1 .. m |-> InlineSpec("artifact", IdOf(NameTable(d), d.artifacts[i].name),
                                             {"PLAYER_VISIBLE"}, d.artifacts[i].plain)]
         /\ b = [i \in 1 .. n |-> [InlineSpec("artifact", IdOf(NameTable(d), d.external[i].name),
                                              {"EXTERNAL", "PLAYER_VISIBLE"}, d.external[i].plain)
                                      EXCEPT !.from = "external"]]
  OBVIOUS
<1>5. specs = <<first>> \o a \o b
  <2>1. PICK lead : lead = <<first>>
    OBVIOUS
  <2>2. PackOrder(d, Suite).specs = lead \o a \o b
    BY <1>2, <1>3, <1>4, <2>1 DEF PackOrder
  <2> QED
    BY <1>4, <2>1, <2>2
<1>6. List(a) /\ List(b) /\ Len(a) = m /\ Len(b) = n
  <2>1. a = [i \in 1 .. m |-> a[i]] /\ b = [i \in 1 .. n |-> b[i]]
    BY <1>4
  <2> QED
    BY <2>1, MadeList
<1>7. List(specs) /\ specs # <<>> /\ specs[1] = first /\ ToSet(specs) \subseteq {first} \cup ToSet(a) \cup ToSet(b)
  <2>1. PICK C : C = {first} \cup ToSet(a) \cup ToSet(b)
    OBVIOUS
  <2>2. <<first>> \in Seq(C) /\ a \in Seq(C) /\ b \in Seq(C)
    BY <1>6, <2>1 DEF List
  <2>3. <<first>> \o a \in Seq(C) /\ Len(<<first>> \o a) = m + 1 /\ (<<first>> \o a)[1] = first
    BY <1>6, <2>2
  <2>4. PICK lead : lead = <<first>> \o a
    OBVIOUS
  <2>5. lead \o b \in Seq(C) /\ Len(lead \o b) = m + 1 + n /\ (lead \o b)[1] = first
    <3>1. lead \in Seq(C) /\ Len(lead) = m + 1 /\ lead[1] = first
      BY <2>3, <2>4
    <3>2. PICK all : all = lead \o b
      OBVIOUS
    <3>6. b \in Seq(C)
      BY <2>2
    <3>3. all \in Seq(C) /\ Len(all) = Len(lead) + Len(b)
      <4>1. lead \in Seq(C)
        BY <3>1
      <4> QED
        BY <3>2, <3>6, <4>1
    <3>4. 1 \in 1 .. Len(lead)
      BY <3>1
    <3>5. all[1] = lead[1]
      BY <3>1, <3>2, <3>4, <3>6
    <3> QED
      BY <1>6, <3>1, <3>2, <3>3, <3>5
  <2>6. specs \in Seq(C) /\ Len(specs) = m + 1 + n /\ specs[1] = first
    BY <1>5, <2>4, <2>5
  <2> QED
    BY <2>1, <2>6, OneSequence DEF List
<1>8. ASSUME NEW s \in ToSet(a)
      PROVE  OfArtifact(d, s)
  <2>1. PICK i \in 1 .. m : s = a[i]
    BY <1>4 DEF ToSet
  <2>2. PICK x : x = d.artifacts[i]
    OBVIOUS
  <2>3. x \in ToSet(d.artifacts)
    BY <1>2, <2>2 DEF ToSet
  <2>4. s = InlineSpec("artifact", IdOf(NameTable(d), x.name), {"PLAYER_VISIBLE"}, x.plain)
    BY <1>4, <2>1, <2>2
  <2> QED
    BY <2>3, <2>4 DEF OfArtifact
<1>9. ASSUME NEW s \in ToSet(b)
      PROVE  OfExternal(d, s)
  <2>1. PICK i \in 1 .. n : s = b[i]
    BY <1>4 DEF ToSet
  <2>2. PICK x : x = d.external[i]
    OBVIOUS
  <2>3. x \in ToSet(d.external)
    BY <1>3, <2>2 DEF ToSet
  <2>4. s = [InlineSpec("artifact", IdOf(NameTable(d), x.name),
                        {"EXTERNAL", "PLAYER_VISIBLE"}, x.plain) EXCEPT !.from = "external"]
    BY <1>4, <2>1, <2>2
  <2> QED
    BY <2>3, <2>4 DEF OfExternal
<1>10. \A s \in ToSet(specs) : s = specs[1] \/ OfArtifact(d, s) \/ OfExternal(d, s)
  BY <1>7, <1>8, <1>9
<1> QED
  BY <1>4, <1>7, <1>10

\* Either is a section as a challenge may have it.
LEMMA PackedSection ==
    ASSUME NEW d \in Docs, NEW s, OfArtifact(d, s) \/ OfExternal(d, s)
    PROVE  \E x \in ToSet(d.artifacts) \cup ToSet(d.external) :
              /\ s.kind = "artifact" /\ s.plain = x.plain /\ s.index = <<>>
              /\ s.cs = 0 /\ s.to = <<>> /\ s.from \in {"inline", "external"}
              /\ "SEALED" \notin s.flags
<1>1. CASE OfArtifact(d, s)
  <2>1. PICK a \in ToSet(d.artifacts) : \E id :
           s = InlineSpec("artifact", id, {"PLAYER_VISIBLE"}, a.plain)
    BY <1>1 DEF OfArtifact
  <2>2. /\ s.kind = "artifact" /\ s.plain = a.plain /\ s.index = <<>>
        /\ s.cs = 0 /\ s.to = <<>> /\ s.from = "inline" /\ s.flags = {"PLAYER_VISIBLE"}
    BY <2>1 DEF InlineSpec
  <2> QED
    BY <2>2
<1>2. CASE OfExternal(d, s)
  <2>1. PICK x \in ToSet(d.external) : \E id :
           s = [InlineSpec("artifact", id, {"EXTERNAL", "PLAYER_VISIBLE"}, x.plain) EXCEPT !.from = "external"]
    BY <1>2 DEF OfExternal
  <2>2. /\ s.kind = "artifact" /\ s.plain = x.plain /\ s.index = <<>>
        /\ s.cs = 0 /\ s.to = <<>> /\ s.from = "external" /\ s.flags = {"EXTERNAL", "PLAYER_VISIBLE"}
    BY <2>1 DEF InlineSpec
  <2> QED
    BY <2>2
<1> QED
  BY <1>1, <1>2

LEMMA PackIsChallenge ==
    ASSUME NEW d \in Docs
    PROVE  Challenge(PackOrder(d, Suite)) /\ ManifestIn(PackOrder(d, Suite)) = ManifestFor(d)
<1>1. PICK order, man, specs, c : /\ order = PackOrder(d, Suite) /\ man = ManifestFor(d) /\ specs = order.specs
                                  /\ c = <<"man", man>>
  OBVIOUS
<1>2. /\ List(specs) /\ specs # <<>>
      /\ specs[1] = InlineSpec("manifest", 0, {}, <<c>>)
      /\ \A s \in ToSet(specs) : s = specs[1] \/ OfArtifact(d, s) \/ OfExternal(d, s)
  BY <1>1, PackOrderParts
<1>3. PICK first : first = specs[1]
  OBVIOUS
<1>4. /\ first.kind = "manifest" /\ first.from = "inline" /\ first.plain = <<c>> /\ first.index = <<>>
      /\ first.cs = 0 /\ first.to = <<>> /\ first.flags = {}
  BY <1>2, <1>3 DEF InlineSpec
<1>5. first.plain[1] = c /\ ManifestIn(order) = man
  BY <1>1, <1>3, <1>4 DEF ManifestIn
<1>6. {"names", "sealed"} \subseteq DOMAIN man /\ man = [key \in DOMAIN man |-> man[key]] /\ man.names = NameTable(d)
  BY <1>1 DEF ManifestFor
<1>7. Payload(<<c>>)
  <2>1. List(man.names)
    BY <1>6, NameTableListed
  <2>2. WellFormed(c)
    BY <1>1, <2>1 DEF WellFormed, Unpacks, Tags
  <2>3. ToSet(<<c>>) = {c} /\ <<c>> \in Seq(ToSet(<<c>>))
    BY ShortLists DEF ToSet
  <2>4. c[1] # "foot"
    BY <1>1
  <2> QED
    BY <2>2, <2>3, <2>4 DEF Payload, Cells
<1>8. Cells(<<>>) /\ <<>> \in Seq(Recipients)
  BY NothingIsOk DEF CellsOk
<1>9. ASSUME NEW s \in ToSet(specs)
      PROVE  /\ Payload(s.plain) /\ Cells(s.index) /\ s.cs \in Nat /\ s.to \in Seq(Recipients)
             /\ s.kind \in {"manifest", "artifact"} /\ "SEALED" \notin s.flags
             /\ s.from \in {"inline", "external"}
  <2>1. CASE s = first
    <3>1. PICK p : p = <<c>>
      OBVIOUS
    <3>2. Payload(p) /\ s.plain = p
      BY <1>4, <1>7, <2>1, <3>1
    <3> QED
      <4>1. s.kind = "manifest" /\ s.from = "inline" /\ s.index = <<>> /\ s.cs = 0 /\ s.to = <<>> /\ s.flags = {}
        BY <1>4, <2>1
      <4>2. Cells(s.index) /\ s.to \in Seq(Recipients)
        BY <1>8, <4>1
      <4> QED
        BY <3>2, <4>1, <4>2
  <2>2. CASE s # first
    <3>1. PICK x \in ToSet(d.artifacts) \cup ToSet(d.external) :
             /\ s.kind = "artifact" /\ s.plain = x.plain /\ s.index = <<>>
             /\ s.cs = 0 /\ s.to = <<>> /\ s.from \in {"inline", "external"}
             /\ "SEALED" \notin s.flags
      BY <1>2, <1>3, <2>2, PackedSection
    <3>2. Payload(x.plain)
      BY DocsAssumption
    <3> QED
      BY <1>8, <3>1, <3>2
  <2> QED
    BY <2>1, <2>2
<1>10. \A i, j \in DOMAIN specs : i # j /\ specs[i].kind = specs[j].kind => specs[i].kind \notin AddedKinds
  <2>1. \A i \in DOMAIN specs : specs[i] \in ToSet(specs)
    BY DEF ToSet
  <2> QED
    BY <1>9, <2>1 DEF AddedKinds
<1>11. Challenge(order)
  <2>1. /\ order.specs \in Seq(ToSet(order.specs)) /\ order.specs # <<>>
        /\ order.specs[1].kind = "manifest" /\ order.specs[1].from = "inline"
    BY <1>1, <1>2, <1>3, <1>4 DEF List
  <2>2. order.specs[1].plain = <<<<"man", man>>>>
    BY <1>1, <1>3, <1>4
  <2>3. \A s \in ToSet(order.specs) :
           /\ Payload(s.plain) /\ Cells(s.index) /\ s.cs \in Nat /\ s.to \in Seq(Recipients)
           /\ s.kind \in AddedKinds => s.flags \cap {"SEALED", "EXTERNAL"} = {}
           /\ s.from = "envelopes" => s.kind = "keys"
           /\ "SEALED" \in s.flags => man.names[s.name + 1] \in OutNames \ {"release.json"}
    BY <1>1, <1>9 DEF AddedKinds
  <2> QED
    BY <1>1, <1>5, <1>6, <1>10, <2>1, <2>2, <2>3 DEF Challenge
<1> QED
  BY <1>1, <1>5, <1>11

LEMMA PackMakes ==
    ASSUME NEW d \in Docs, Pack(d, Suite).ok,
           NEW m, m = [order |-> PackOrder(d, Suite), ro |-> {"container_v1"}]
    PROVE  /\ Written1st(m)
           /\ CellsOk(m, Pack(d, Suite).value) /\ WholeFile(Pack(d, Suite).value)
<1>1. PICK order, ro, f : order = PackOrder(d, Suite) /\ ro = {"container_v1"} /\ f = LaidWith(order, ro)
  OBVIOUS
<1>2. m.order = order /\ m.ro = ro
  BY <1>1
<1>3. CanLay(order) /\ Parse(f).ok /\ Pack(d, Suite).value = f
  BY <1>1 DEF Pack, Write, Reopened, Laid, Ok, Failed
<1>4. Written1st(m)
  BY <1>1, <1>2, <1>3, PackIsChallenge DEF Written1st
<1>5. OrderKeeps(m, order) /\ OrderOk(order)
  BY <1>2, <1>4, ChallengeKeeps DEF OrderKeeps, Fed
<1>6. CellsOk(m, f) /\ WholeFile(f)
  BY <1>1, <1>2, <1>3, <1>5, LaidKeeps, LaidIsWhole
<1> QED
  BY <1>3, <1>4, <1>6

(***************************************************************************)
(* The invariant                                                           *)
(***************************************************************************)
\* A write a command still has to make.
JobOk(m, j) ==
    /\ j = [at |-> j.at, name |-> j.name, cells |-> j.cells, open |-> j.open, whole |-> j.whole]
    /\ j.at \in {"disk", "out"} /\ j.open \in BOOLEAN /\ j.whole \in BOOLEAN
    /\ j.at = "disk" => j.name \in DiskNames
    /\ j.at = "out" => j.name \in OutNames
    /\ j.at = "disk" /\ j.name \in BundlePaths =>
         CellsOk(m, j.cells) /\ (j.whole => WholeFile(j.cells))

QueueOk(m, queue) ==
    List(queue) /\ \A i \in 1 .. Len(queue) : JobOk(m, queue[i]) /\ (queue[i].open => i = 1)

FileOk(m, f, whole) == CellsOk(m, f) /\ (whole => f = <<>> \/ WholeFile(f))

Domains ==
    /\ DOMAIN disk = DiskNames /\ DOMAIN out = OutNames
    /\ DOMAIN jobs = Workers /\ DOMAIN reading = Workers

\* What a release holds of a member: its name, and the plaintext its root stands for.
AssetFor(b, r, asset) ==
    \E plain : /\ List(plain) /\ Hash(plain) = r.root
               /\ asset = ToOut(b.man.names[r.name + 1], plain)

\* A release that has a bundle parsed: of a file as long as what it goes on reading.
MappedOk(m, t) ==
    /\ t = [cmd |-> t.cmd, path |-> t.path, length |-> t.length, bundle |-> t.bundle,
            holder |-> t.holder, assets |-> t.assets]
    /\ t.path \in BundlePaths /\ MayRelease(t.bundle)
    /\ \E f : CellsOk(m, f) /\ Parse(f).ok /\ t.bundle = Parse(f).value /\ t.length = Len(f)
    /\ List(t.assets) /\ Len(t.assets) <= Len(Members(t.bundle))
    /\ \A i \in 1 .. Len(t.assets) : AssetFor(t.bundle, Members(t.bundle)[i], t.assets[i])

\* A command that has more to read.
ReadingOk(m, t) ==
    /\ t.cmd = "transfer" => t.paths \in Rewrites /\ t.chain \in Chains
    /\ t.cmd = "release" => MappedOk(m, t)

Untouched ==
    /\ \A p \in BundlePaths : disk[p] = <<>>
    /\ \A n \in OutNames : out[n] = <<>>
    /\ \A w \in Workers : jobs[w] = <<>> /\ reading[w] = {}

Bundles ==
    /\ draft \subseteq Docs /\ asked \in 0 .. MaxCommands /\ Domains
    /\ torn \subseteq DiskNames \cup OutNames /\ wrapped \subseteq [name : Nat, to : Recipients]
    /\ Written1st(made) \/ (made = NothingMade /\ Untouched)
    /\ \A p \in BundlePaths : FileOk(made, disk[p], p \notin torn)
    /\ \A w \in Workers : QueueOk(made, jobs[w])
    /\ \A w \in Workers : \A t \in reading[w] : ReadingOk(made, t)
    /\ \A w \in Workers : reading[w] = {} \/ jobs[w] = <<>>

LEMMA NoQueue == \A m : QueueOk(m, <<>>)
<1>1. List(<<>>) /\ Len(<<>>) = 0
  BY DEF List
<1> QED
  BY <1>1 DEF QueueOk

LEMMA OneInQueue ==
    ASSUME NEW m, NEW j, JobOk(m, j)
    PROVE  QueueOk(m, <<j>>)
<1>1. PICK q : q = <<j>>
  OBVIOUS
<1>2. List(q) /\ Len(q) = 1 /\ q[1] = j
  BY <1>1, ShortLists DEF List
<1>3. QueueOk(m, q)
  BY <1>2 DEF QueueOk
<1> QED
  BY <1>1, <1>3

LEMMA NothingIsFile == \A m, whole : FileOk(m, <<>>, whole)
BY NothingIsOk DEF FileOk

LEMMA MadeIsMore ==
    ASSUME NEW m, Written1st(m)
    PROVE  m # NothingMade
BY DEF Written1st, Challenge, NothingMade

\* A worker is left with what it has to write, or has more to read; no file changes.
Turns(w, writes, more) ==
    /\ Domains'
    /\ \A v \in Workers : jobs'[v] = IF v = w THEN writes ELSE jobs[v]
    /\ \A v \in Workers : reading'[v] = IF v = w THEN more ELSE reading[v]
    /\ UNCHANGED <<draft, disk, out, torn>> /\ asked' \in 0 .. MaxCommands

LEMMA StartAsks ==
    ASSUME Bundles, NEW w \in Workers, Start(w)
    PROVE  asked' \in 0 .. MaxCommands /\ jobs[w] = <<>> /\ reading[w] = {}
<1>1. asked \in 0 .. MaxCommands /\ asked < MaxCommands /\ asked' = asked + 1 /\ MaxCommands \in Nat
  BY LifecycleAssumption DEF Bundles, Start
<1>2. asked' \in 0 .. MaxCommands
  BY <1>1
<1> QED
  BY <1>2 DEF Start

LEMMA RunTurns ==
    ASSUME Bundles, NEW w \in Workers, NEW writes, Run(w, writes)
    PROVE  Turns(w, writes, {})
<1>1. /\ Start(w) /\ jobs' = [jobs EXCEPT ![w] = writes]
      /\ UNCHANGED <<draft, disk, out, torn, reading>>
  BY DEF Run
<1>2. asked' \in 0 .. MaxCommands /\ reading[w] = {}
  BY <1>1, StartAsks
<1>3. Domains'
  BY <1>1 DEF Bundles, Domains
<1>4. \A v \in Workers : jobs'[v] = IF v = w THEN writes ELSE jobs[v]
  BY <1>1 DEF Bundles, Domains
<1>5. \A v \in Workers : reading'[v] = IF v = w THEN {} ELSE reading[v]
  BY <1>1, <1>2
<1> QED
  BY <1>1, <1>2, <1>3, <1>4, <1>5 DEF Turns

LEMMA BeginTurns ==
    ASSUME Bundles, NEW w \in Workers, NEW command, Begin(w, command)
    PROVE  Turns(w, <<>>, {command}) /\ made' = made /\ wrapped' = wrapped
<1>1. /\ Start(w) /\ reading' = [reading EXCEPT ![w] = {command}]
      /\ UNCHANGED <<draft, made, disk, out, jobs, torn, wrapped>>
  BY DEF Begin
<1>2. asked' \in 0 .. MaxCommands /\ jobs[w] = <<>>
  BY <1>1, StartAsks
<1>3. Domains'
  BY <1>1 DEF Bundles, Domains
<1>4. \A v \in Workers : jobs'[v] = IF v = w THEN <<>> ELSE jobs[v]
  BY <1>1, <1>2
<1>5. \A v \in Workers : reading'[v] = IF v = w THEN {command} ELSE reading[v]
  BY <1>1 DEF Bundles, Domains
<1> QED
  BY <1>1, <1>2, <1>3, <1>4, <1>5 DEF Turns

LEMMA FinishTurns ==
    ASSUME Bundles, NEW w \in Workers, NEW writes, Finish(w, writes)
    PROVE  Turns(w, writes, {}) /\ made' = made /\ wrapped' = wrapped
<1>1. /\ reading' = [reading EXCEPT ![w] = {}] /\ jobs' = [jobs EXCEPT ![w] = writes]
      /\ UNCHANGED <<draft, made, disk, out, torn, wrapped, asked>>
  BY DEF Finish
<1>2. asked' \in 0 .. MaxCommands
  BY <1>1 DEF Bundles
<1>3. Domains'
  BY <1>1 DEF Bundles, Domains
<1>4. \A v \in Workers : jobs'[v] = IF v = w THEN writes ELSE jobs[v]
  BY <1>1 DEF Bundles, Domains
<1>5. \A v \in Workers : reading'[v] = IF v = w THEN {} ELSE reading[v]
  BY <1>1 DEF Bundles, Domains
<1> QED
  BY <1>1, <1>2, <1>3, <1>4, <1>5 DEF Turns

LEMMA TurnKeeps ==
    ASSUME Bundles, NEW w \in Workers, NEW writes, NEW more, Turns(w, writes, more),
           Written1st(made'), QueueOk(made', writes), \A t \in more : ReadingOk(made', t),
           more = {} \/ writes = <<>>, made' = made \/ Untouched,
           wrapped' \subseteq [name : Nat, to : Recipients]
    PROVE  Bundles'
<1>1. /\ draft' \subseteq Docs /\ asked' \in 0 .. MaxCommands /\ Domains'
      /\ torn' \subseteq DiskNames \cup OutNames
  BY DEF Bundles, Turns
<1>2. ASSUME NEW p \in BundlePaths
      PROVE  FileOk(made', disk'[p], p \notin torn')
  <2>1. disk' = disk /\ torn' = torn
    BY DEF Turns
  <2> QED
    BY <2>1, NothingIsFile DEF Bundles, Untouched
<1>3. ASSUME NEW v \in Workers
      PROVE  /\ QueueOk(made', jobs'[v]) /\ \A t \in reading'[v] : ReadingOk(made', t)
             /\ reading'[v] = {} \/ jobs'[v] = <<>>
  <2>1. /\ jobs'[v] = IF v = w THEN writes ELSE jobs[v]
        /\ reading'[v] = IF v = w THEN more ELSE reading[v]
    BY DEF Turns
  <2>2. /\ QueueOk(made', jobs[v]) /\ \A t \in reading[v] : ReadingOk(made', t)
        /\ reading[v] = {} \/ jobs[v] = <<>>
    <3>1. CASE made' = made
      BY <3>1 DEF Bundles
    <3>2. CASE Untouched
      BY <3>2, NoQueue DEF Untouched
    <3> QED
      BY <3>1, <3>2
  <2> QED
    BY <2>1, <2>2
<1> QED
  BY <1>1, <1>2, <1>3 DEF Bundles

LEMMA RunKeeps ==
    ASSUME Bundles, NEW w \in Workers, NEW writes, Run(w, writes),
           Written1st(made'), QueueOk(made', writes),
           made' = made \/ Untouched,
           wrapped' \subseteq [name : Nat, to : Recipients]
    PROVE  Bundles'
<1>1. Turns(w, writes, {})
  BY RunTurns
<1> QED
  BY <1>1, TurnKeeps

LEMMA PackDocKeeps ==
    ASSUME Bundles, NEW w \in Workers, PackDoc(w)
    PROVE  Bundles'
<1>1. PICK d \in draft : \E packed \in Value(Pack(d, Suite)) :
        /\ Run(w, <<ToDisk("a", packed), ToDisk("descriptor", <<<<"desc", ManifestFor(d)>>>>)>>)
        /\ made' = [order |-> PackOrder(d, Suite), ro |-> {"container_v1"}]
  BY DEF PackDoc
<1>2. PICK packed \in Value(Pack(d, Suite)) :
        /\ Run(w, <<ToDisk("a", packed), ToDisk("descriptor", <<<<"desc", ManifestFor(d)>>>>)>>)
        /\ made' = [order |-> PackOrder(d, Suite), ro |-> {"container_v1"}]
  BY <1>1
<1>3. made = NothingMade /\ wrapped' = wrapped
  BY DEF PackDoc
<1>4. Untouched /\ d \in Docs
  BY <1>3, MadeIsMore DEF Bundles
<1>5. Pack(d, Suite).ok /\ packed = Pack(d, Suite).value
  BY DEF Value
<1>6. /\ Written1st(made') /\ CellsOk(made', packed) /\ WholeFile(packed)
  BY <1>2, <1>4, <1>5, PackMakes
<1>7. PICK desc, first, second, writes :
        /\ desc = <<<<"desc", ManifestFor(d)>>>>
        /\ first = ToDisk("a", packed) /\ second = ToDisk("descriptor", desc)
        /\ writes = <<first, second>>
  OBVIOUS
<1>8. JobOk(made', first)
  BY <1>6, <1>7 DEF JobOk, ToDisk, Output, DiskNames, BundlePaths
<1>9. JobOk(made', second)
  BY <1>7 DEF JobOk, ToDisk, Output, DiskNames, BundlePaths
<1>10. QueueOk(made', writes)
  <2>1. writes \in Seq({first, second}) /\ Len(writes) = 2 /\ writes[1] = first /\ writes[2] = second
    BY <1>7
  <2>2. List(writes)
    BY <2>1, OneSequence DEF List
  <2>3. ~first.open /\ ~second.open
    BY <1>7 DEF ToDisk, Output
  <2> QED
    BY <1>8, <1>9, <2>1, <2>2, <2>3 DEF QueueOk
<1>11. Run(w, writes)
  BY <1>2, <1>7
<1> QED
  BY <1>3, <1>4, <1>6, <1>10, <1>11, RunKeeps DEF Bundles

\* What is opened before a command changes it.
Opens(p, b) ==
    /\ b = Parse(disk[p]).value /\ Parse(disk[p]).ok
    /\ Written1st(made) /\ CellsOk(made, disk[p])
    /\ p \notin torn => WholeFile(disk[p])

LEMMA OpenedBundle ==
    ASSUME Bundles, NEW p \in BundlePaths, NEW b \in OnDisk(p)
    PROVE  Opens(p, b)
<1>1. Parse(disk[p]).ok /\ b = Parse(disk[p]).value
  BY DEF OnDisk, Value
<1>2. disk[p] # <<>>
  BY <1>1 DEF Parse, Failed
<1>3. Written1st(made) /\ FileOk(made, disk[p], p \notin torn)
  BY <1>2 DEF Bundles, Untouched
<1> QED
  BY <1>1, <1>2, <1>3 DEF Opens, FileOk

\* A rewrite hands one bundle to be written.
LEMMA RewriteKeeps ==
    ASSUME Bundles, NEW w \in Workers, NEW p \in Rewrites, NEW cells,
           Written1st(made), CellsOk(made, cells), p[1] \notin torn => WholeFile(cells),
           Turns(w, Rewriting(p, cells), {}),
           made' = made, wrapped' \subseteq [name : Nat, to : Recipients]
    PROVE  Bundles'
<1>1. PICK whole \in BOOLEAN : whole = (p[1] \notin torn)
  OBVIOUS
<1>2. PICK j : j = [ToDisk(p[2], cells) EXCEPT !.whole = whole]
  OBVIOUS
<1>3. p[2] \in BundlePaths
  BY LifecycleAssumption
<1>4. j = [at |-> "disk", name |-> p[2], cells |-> cells, open |-> FALSE, whole |-> whole]
  BY <1>2 DEF ToDisk, Output
<1>5. /\ j.at = "disk" /\ j.name = p[2] /\ j.cells = cells /\ j.open = FALSE /\ j.whole = whole
  BY <1>4
<1>6. JobOk(made, j)
  BY <1>1, <1>3, <1>4, <1>5 DEF JobOk, DiskNames
<1>7. QueueOk(made, <<j>>)
  BY <1>6, OneInQueue
<1>8. Rewriting(p, cells) = <<j>>
  BY <1>1, <1>2 DEF Rewriting
<1>9. QueueOk(made, Rewriting(p, cells))
  BY <1>7, <1>8
<1> QED
  BY <1>9, TurnKeeps

\* A transfer has read a chain, of a bundle that opens.
LEMMA ReadChainKeeps ==
    ASSUME Bundles, NEW w \in Workers, ReadChain(w)
    PROVE  Bundles'
<1>1. PICK p \in Rewrites : \E b \in OnDisk(p[1]), chain \in Chains :
         Begin(w, [cmd |-> "transfer", paths |-> p, chain |-> chain])
  BY DEF ReadChain
<1>2. PICK b \in OnDisk(p[1]), chain \in Chains :
         Begin(w, [cmd |-> "transfer", paths |-> p, chain |-> chain])
  BY <1>1
<1>3. PICK t : t = [cmd |-> "transfer", paths |-> p, chain |-> chain]
  OBVIOUS
<1>4. Written1st(made)
  <2>1. p[1] \in BundlePaths
    BY LifecycleAssumption
  <2> QED
    BY <2>1, OpenedBundle DEF Opens
<1>5. Turns(w, <<>>, {t}) /\ made' = made /\ wrapped' = wrapped
  BY <1>2, <1>3, BeginTurns
<1>6. ReadingOk(made', t)
  <2>1. t.cmd = "transfer" /\ t.paths = p /\ t.chain = chain
    BY <1>3
  <2> QED
    BY <2>1 DEF ReadingOk
<1>7. wrapped' \subseteq [name : Nat, to : Recipients]
  BY <1>5 DEF Bundles
<1> QED
  BY <1>4, <1>5, <1>6, <1>7, NoQueue, TurnKeeps

LEMMA TransferKeeps ==
    ASSUME Bundles, NEW w \in Workers, TransferBundle(w)
    PROVE  Bundles'
<1>1. PICK t \in reading[w] : t.cmd = "transfer" /\
         \E b \in OnDisk(t.paths[1]) : \E result \in Value(Embed(disk[t.paths[1]], b, t.chain)) :
             Finish(w, Rewriting(t.paths, result))
  BY DEF TransferBundle
<1>2. PICK p, chain : p = t.paths /\ chain = t.chain
  OBVIOUS
<1>3. p \in Rewrites /\ chain \in Chains
  BY <1>1, <1>2 DEF Bundles, ReadingOk
<1>4. PICK b \in OnDisk(p[1]) : \E result \in Value(Embed(disk[p[1]], b, chain)) :
         Finish(w, Rewriting(p, result))
  BY <1>1, <1>2
<1>5. PICK result \in Value(Embed(disk[p[1]], b, chain)) : Finish(w, Rewriting(p, result))
  BY <1>4
<1>6. Opens(p[1], b)
  <2>1. p[1] \in BundlePaths
    BY <1>3, LifecycleAssumption
  <2> QED
    BY <2>1, OpenedBundle
<1>7. CellsOk(made, result) /\ WholeFile(result)
  BY <1>3, <1>6, EmbedOk DEF Opens, Value
<1>8. Turns(w, Rewriting(p, result), {}) /\ made' = made /\ wrapped' = wrapped
  BY <1>5, FinishTurns
<1>9. wrapped' \subseteq [name : Nat, to : Recipients]
  BY <1>8 DEF Bundles
<1> QED
  BY <1>3, <1>6, <1>7, <1>8, <1>9, RewriteKeeps DEF Opens

LEMMA SealKeeps ==
    ASSUME Bundles, NEW w \in Workers, SealSection(w)
    PROVE  Bundles'
<1>1. PICK s \in ToSet(made.order.specs), to \in Recipients :
        /\ \E p \in Rewrites : \E b \in OnDisk(p[1]) :
             \E result \in Value(Seal(disk[p[1]], b, ManifestIn(made.order).names[s.name + 1], to)) :
                 Run(w, Rewriting(p, result))
        /\ wrapped' = wrapped \cup {[name |-> s.name, to |-> to]} /\ made' = made
  BY DEF SealSection, Rewrite
<1>2. PICK p \in Rewrites : \E b \in OnDisk(p[1]) :
         \E result \in Value(Seal(disk[p[1]], b, ManifestIn(made.order).names[s.name + 1], to)) :
             Run(w, Rewriting(p, result))
  BY <1>1
<1>3. PICK b \in OnDisk(p[1]) :
         \E result \in Value(Seal(disk[p[1]], b, ManifestIn(made.order).names[s.name + 1], to)) :
             Run(w, Rewriting(p, result))
  BY <1>2
<1>4. PICK result \in Value(Seal(disk[p[1]], b, ManifestIn(made.order).names[s.name + 1], to)) :
             Run(w, Rewriting(p, result))
  BY <1>3
<1>5. Opens(p[1], b)
  <2>1. p[1] \in BundlePaths
    BY LifecycleAssumption
  <2> QED
    BY <2>1, OpenedBundle
<1>6. CellsOk(made, result) /\ WholeFile(result)
  BY <1>5, SealOk DEF Opens, Value
<1>7. s.name \in Nat
  BY <1>5, ChallengeFacts DEF Opens, SpecFacts
<1>8. made' = made /\ wrapped' \subseteq [name : Nat, to : Recipients]
  BY <1>1, <1>7 DEF Bundles
<1>9. Turns(w, Rewriting(p, result), {})
  BY <1>4, RunTurns
<1> QED
  BY <1>5, <1>6, <1>8, <1>9, RewriteKeeps DEF Opens

LEMMA SignKeeps ==
    ASSUME Bundles, NEW w \in Workers, SignBundle(w)
    PROVE  Bundles'
<1>1. PICK p \in Rewrites : \E b \in OnDisk(p[1]) :
         \E result \in Value(Sign(disk[p[1]], b)) :
             Run(w, Rewriting(p, result))
  BY DEF SignBundle, Rewrite
<1>2. PICK b \in OnDisk(p[1]) :
         \E result \in Value(Sign(disk[p[1]], b)) :
             Run(w, Rewriting(p, result))
  BY <1>1
<1>3. PICK result \in Value(Sign(disk[p[1]], b)) :
             Run(w, Rewriting(p, result))
  BY <1>2
<1>4. Opens(p[1], b)
  <2>1. p[1] \in BundlePaths
    BY LifecycleAssumption
  <2> QED
    BY <2>1, OpenedBundle
<1>5. CellsOk(made, result) /\ (p[1] \notin torn => WholeFile(result))
  BY <1>4, SignOk DEF Opens, Value
<1>6. made' = made /\ wrapped' \subseteq [name : Nat, to : Recipients]
  BY DEF SignBundle, Bundles
<1>7. Turns(w, Rewriting(p, result), {})
  BY <1>3, RunTurns
<1> QED
  BY <1>4, <1>5, <1>6, <1>7, RewriteKeeps DEF Opens

LEMMA UnsealKeeps ==
    ASSUME Bundles, NEW w \in Workers, UnsealSection(w)
    PROVE  Bundles'
<1>1. PICK p \in BundlePaths : \E b \in OnDisk(p), to \in Recipients, s \in ToSet(made.order.specs) :
         \E plain \in Value(Unseal(disk[p], b, ManifestIn(made.order).names[s.name + 1], to)) :
             Run(w, <<ToDisk("plain", plain)>>)
  BY DEF UnsealSection
<1>2. PICK b \in OnDisk(p) : \E plain : Run(w, <<ToDisk("plain", plain)>>)
  BY <1>1
<1>3. PICK plain : Run(w, <<ToDisk("plain", plain)>>)
  BY <1>2
<1>4. Opens(p, b)
  BY OpenedBundle
<1>5. JobOk(made, ToDisk("plain", plain))
  BY DEF JobOk, ToDisk, Output, DiskNames, BundlePaths
<1>6. PICK j : j = ToDisk("plain", plain)
  OBVIOUS
<1>7. QueueOk(made, <<j>>) /\ Run(w, <<j>>)
  BY <1>5, <1>6, <1>3, OneInQueue
<1>8. made' = made /\ wrapped' \subseteq [name : Nat, to : Recipients]
  BY DEF UnsealSection, Bundles
<1> QED
  BY <1>4, <1>7, <1>8, RunKeeps DEF Opens

(***************************************************************************)
(* What `release` writes                                                   *)
(***************************************************************************)
\* The report over the members of a release.
ReportOn(b, members) ==
    [root |-> b.foot.root, release |-> "event_end",
     members |-> [i \in DOMAIN members |-> [name |-> b.man.names[members[i].name + 1],
                                            size |-> members[i].lenPlain,
                                            root |-> members[i].root]]]

LEMMA MembersOf ==
    ASSUME NEW b, List(b.secs)
    PROVE  /\ List(Members(b))
           /\ \A i \in 1 .. Len(Members(b)) :
                /\ Members(b)[i] \in ToSet(b.secs)
                /\ "SEALED" \in Members(b)[i].flags /\ Releases(b, Members(b)[i])
<1>1. PICK S, members : /\ S = {i \in DOMAIN b.secs : "SEALED" \in b.secs[i].flags /\ Releases(b, b.secs[i])}
                        /\ members = Members(b)
  OBVIOUS
<1>2. S \subseteq DOMAIN b.secs /\ members = Picked(b.secs, S)
  BY <1>1 DEF Members
<1>3. /\ List(members)
      /\ \A k \in 1 .. Len(members) : \E i \in S : members[k] = b.secs[i]
  BY <1>2, PickedOf
<1>4. ASSUME NEW k \in 1 .. Len(members)
      PROVE  /\ members[k] \in ToSet(b.secs)
             /\ "SEALED" \in members[k].flags /\ Releases(b, members[k])
  <2>1. PICK i \in S : members[k] = b.secs[i]
    BY <1>3
  <2>2. i \in DOMAIN b.secs /\ "SEALED" \in b.secs[i].flags /\ Releases(b, b.secs[i])
    BY <1>1
  <2> QED
    BY <2>1, <2>2 DEF ToSet
<1> QED
  BY <1>1, <1>3, <1>4

LEMMA ChallengeNames ==
    ASSUME NEW m, Written1st(m)
    PROVE  List(ManifestIn(m.order).names)
<1>1. PICK man, first : man = ManifestIn(m.order) /\ first = m.order.specs[1]
  OBVIOUS
<1>2. Payload(first.plain) /\ first.plain = <<<<"man", man>>>>
  <2>1. first \in ToSet(m.order.specs) /\ Challenge(m.order)
    BY <1>1, ChallengeFacts DEF Written1st
  <2> QED
    BY <1>1, <2>1 DEF Challenge
<1>3. PICK c, p : c = <<"man", man>> /\ p = <<c>>
  OBVIOUS
<1>4. c \in ToSet(p) /\ Payload(p)
  BY <1>2, <1>3 DEF ToSet
<1>5. WellFormed(c)
  BY <1>4 DEF Payload, Cells
<1> QED
  BY <1>1, <1>3, <1>5 DEF WellFormed

\* A sealed section is one of the challenge, and its asset gets a name of its own.
SealedOne(m, b, r, t) ==
    /\ t \in Kept1st(m) /\ Carries(t, r) /\ "SEALED" \in t.flags
    /\ b.man.names[r.name + 1] = ManifestIn(m.order).names[t.name + 1]
    /\ b.man.names[r.name + 1] \in OutNames \ {"release.json"}

LEMMA SealedIsFirst ==
    ASSUME NEW m, Written1st(m), NEW f, CellsOk(m, f), Parse(f).ok,
           NEW b, b = Parse(f).value, NEW r \in ToSet(b.secs), "SEALED" \in r.flags
    PROVE  \E t : SealedOne(m, b, r, t)
<1>1. RecordKept(m, r) /\ Cells(f)
  BY FileIsFaithful DEF Faithful, CellsOk
<1>2. RecordOk(r) /\ r.name \in Nat
  BY <1>1, RecordFacts
<1>3. r.kind # "manifest"
  BY <1>2 DEF RecordOk, KindOk
<1>4. PICK t \in Kept1st(m) : Carries(t, r)
  BY <1>1, <1>3 DEF RecordKept, ManifestRec, AddedRec
<1>5. t \in ToSet(m.order.specs) /\ "SEALED" \in t.flags /\ r.name = t.name
  BY <1>4 DEF Kept1st, Carries
<1>6. SpecFacts(m, t)
  BY <1>5, ChallengeFacts
<1>7. PICK names : names = ManifestIn(m.order).names
  OBVIOUS
<1>8. names[t.name + 1] \in OutNames \ {"release.json"}
  BY <1>5, <1>7 DEF Written1st, Challenge
<1>9. /\ Longer(b.man.names, ManifestIn(m.order).names)
      /\ b.man = [ManifestIn(m.order) EXCEPT !.names = b.man.names]
      /\ \A x \in ToSet(b.secs) : x.kind = "manifest" => x.name = m.order.specs[1].name
  BY ManifestIsKept
<1>10. List(names)
  BY <1>7, ChallengeNames
<1>11. DOMAIN names = 1 .. Len(names)
  BY <1>10, ListMembers
<1>12. b.man.names[t.name + 1] = names[t.name + 1]
  BY <1>6, <1>7, <1>9, <1>11 DEF Longer, SpecFacts
<1>13. SealedOne(m, b, r, t)
  BY <1>4, <1>5, <1>7, <1>8, <1>12 DEF SealedOne
<1> QED
  BY <1>13

LEMMA RestOf ==
    ASSUME NEW C, NEW queue \in Seq(C), queue # <<>>
    PROVE  /\ Tail(queue) \in Seq(C) /\ Len(Tail(queue)) = Len(queue) - 1
           /\ \A i \in 1 .. Len(queue) - 1 : Tail(queue)[i] = queue[i + 1]
OBVIOUS

\* What is opened under a record is what has its root, whatever the file has become
\* since it was parsed.
LEMMA OpenedIs ==
    ASSUME NEW f, Cells(f), Parse(f).ok, NEW b, b = Parse(f).value,
           NEW g, Cells(g), Len(g) >= Len(f), NEW r, NEW to, Opened(g, b, r, to).ok
    PROVE  List(Opened(g, b, r, to).value) /\ Hash(Opened(g, b, r, to).value) = r.root
<1>1. PICK got, found : /\ got = Opened(g, b, r, to)
                        /\ found = SectionContentKey(g, b, r, to.holder, to.ctx)
  OBVIOUS
<1>2. got = AndThen(found, LAMBDA key : DecryptSection(g, b, r, key))
  BY <1>1 DEF Opened
<1>3. found.ok /\ got = DecryptSection(g, b, r, found.value)
  BY <1>1, <1>2 DEF AndThen, Failed
<1>4. PICK key : key = found.value
  OBVIOUS
<1>5. DecryptSection(g, b, r, key).ok
  BY <1>1, <1>3, <1>4
<1>6. LET plain == DecryptSection(g, Parse(f).value, r, key).value IN
           /\ r \in ToSet(Parse(f).value.secs) /\ List(plain) /\ Hash(plain) = r.root
           /\ plain # <<>> => SealedUnder(g, key)
  BY <1>5, DecryptedIn
<1> QED
  BY <1>1, <1>3, <1>4, <1>6

\* Whatever became of the file, a mapping of it has the length it had.
LEMMA MappedIs ==
    ASSUME Bundles, NEW t, t.path \in BundlePaths, t.length \in Nat
    PROVE  Cells(Mapped(t)) /\ Len(Mapped(t)) = t.length
<1>1. PICK old, n, g : old = disk[t.path] /\ n = t.length /\ g = Mapped(t)
  OBVIOUS
<1>2. Cells(old)
  BY <1>1 DEF Bundles, FileOk, CellsOk
<1>3. List(old)
  BY <1>2 DEF Cells, List
<1>4. n \in Nat /\ Len(old) \in Nat /\ g = [i \in 1 .. n |-> IF i <= Len(old) THEN old[i] ELSE <<"zero", 0>>]
  BY <1>1, <1>3, ListMembers DEF Mapped
<1>5. List(g) /\ Len(g) = n /\ DOMAIN g = 1 .. n
  <2>1. g = [i \in 1 .. n |-> g[i]]
    BY <1>4
  <2> QED
    BY <1>4, <2>1, MadeList
<1>6. WellFormed(<<"zero", 0>>)
  <2>1. PICK c : c = <<"zero", 0>>
    OBVIOUS
  <2>2. WellFormed(c)
    BY <2>1 DEF WellFormed, Unpacks, Tags
  <2> QED
    BY <2>1, <2>2
<1>7. ASSUME NEW i \in 1 .. n
      PROVE  WellFormed(g[i])
  <2>1. CASE i <= Len(old)
    <3>1. i \in 1 .. Len(old)
      BY <1>4, <2>1
    <3>2. old[i] \in ToSet(old)
      BY <1>3, <3>1, ListMembers
    <3>3. WellFormed(old[i])
      BY <1>2, <3>2 DEF Cells
    <3>4. g[i] = old[i]
      BY <1>4, <2>1
    <3> QED
      BY <3>3, <3>4
  <2>2. CASE ~(i <= Len(old))
    <3>1. g[i] = <<"zero", 0>>
      BY <1>4, <2>2
    <3> QED
      BY <1>6, <3>1
  <2> QED
    BY <2>1, <2>2
<1>8. \A c \in ToSet(g) : WellFormed(c)
  BY <1>5, <1>7 DEF ToSet
<1> QED
  BY <1>1, <1>5, <1>8 DEF Cells, List

\* A release has a bundle parsed.
LEMMA MapKeeps ==
    ASSUME Bundles, NEW w \in Workers, MapBundle(w)
    PROVE  Bundles'
<1>1. PICK p \in BundlePaths : \E b \in OnDisk(p) :
        /\ MayRelease(b)
        /\ Begin(w, [cmd |-> "release", path |-> p, length |-> Len(disk[p]), bundle |-> b,
                     holder |-> {}, assets |-> <<>>])
  BY DEF MapBundle
<1>2. PICK b \in OnDisk(p) :
        /\ MayRelease(b)
        /\ Begin(w, [cmd |-> "release", path |-> p, length |-> Len(disk[p]), bundle |-> b,
                     holder |-> {}, assets |-> <<>>])
  BY <1>1
<1>3. PICK f, t : /\ f = disk[p]
                  /\ t = [cmd |-> "release", path |-> p, length |-> Len(f), bundle |-> b,
                          holder |-> {}, assets |-> <<>>]
  OBVIOUS
<1>4. Written1st(made) /\ CellsOk(made, f) /\ Parse(f).ok /\ b = Parse(f).value
  BY <1>3, OpenedBundle DEF Opens
<1>5. Turns(w, <<>>, {t}) /\ made' = made /\ wrapped' = wrapped
  BY <1>2, <1>3, BeginTurns
<1>6. List(Members(b)) /\ Len(Members(b)) \in Nat
  <2>1. List(b.secs)
    BY <1>4, SectionsList DEF CellsOk
  <2> QED
    BY <2>1, MembersOf, ListMembers
<1>7. MappedOk(made', t)
  <2>1. /\ t.cmd = "release" /\ t.path = p /\ t.length = Len(f) /\ t.bundle = b
        /\ t.holder = {} /\ t.assets = <<>>
    BY <1>3
  <2>2. List(<<>>) /\ Len(<<>>) = 0
    BY DEF List
  <2>3. List(t.assets) /\ Len(t.assets) = 0
    BY <2>1, <2>2
  <2>4. t = [cmd |-> t.cmd, path |-> t.path, length |-> t.length, bundle |-> t.bundle,
             holder |-> t.holder, assets |-> t.assets]
    BY <1>3, <2>1
  <2>5. MayRelease(t.bundle) /\ CellsOk(made', f)
    BY <1>2, <1>4, <1>5, <2>1
  <2> QED
    BY <1>4, <1>6, <2>1, <2>3, <2>4, <2>5 DEF MappedOk
<1>8. ReadingOk(made', t)
  <2>1. t.cmd = "release"
    BY <1>3
  <2> QED
    BY <1>7, <2>1 DEF ReadingOk
<1>9. wrapped' \subseteq [name : Nat, to : Recipients]
  BY <1>5 DEF Bundles
<1> QED
  BY <1>4, <1>5, <1>8, <1>9, NoQueue, TurnKeeps

\* Only what was written is read on, and the worker writes nothing meanwhile.
LEMMA WhileReading ==
    ASSUME Bundles, NEW w \in Workers, NEW t \in reading[w]
    PROVE  Written1st(made) /\ ReadingOk(made, t) /\ jobs[w] = <<>>
BY DEF Bundles, Untouched

\* One more member is decrypted.
LEMMA DecryptKeeps ==
    ASSUME Bundles, NEW w \in Workers, DecryptMember(w)
    PROVE  Bundles'
<1>1. PICK t \in reading[w] :
        /\ t.cmd = "release" /\ Len(t.assets) < Len(Members(t.bundle))
        /\ \E to \in Recipients :
            LET r == Members(t.bundle)[Len(t.assets) + 1] IN
            /\ t.holder \subseteq {to.holder}
            /\ \E plain \in Value(Opened(Mapped(t), t.bundle, r, To("seal", to.holder))) :
                 reading' = [reading EXCEPT ![w] =
                     {[t EXCEPT !.holder = {to.holder},
                                !.assets = Append(@, ToOut(t.bundle.man.names[r.name + 1], plain))]}]
  BY DEF DecryptMember
<1>2. PICK b, members, assets, n, r, g : /\ b = t.bundle /\ members = Members(b) /\ assets = t.assets
                                         /\ n = Len(assets) /\ r = members[n + 1] /\ g = Mapped(t)
  OBVIOUS
<1>3. PICK to \in Recipients :
         \E plain \in Value(Opened(g, b, r, To("seal", to.holder))) :
             reading' = [reading EXCEPT ![w] =
                 {[t EXCEPT !.holder = {to.holder},
                            !.assets = Append(@, ToOut(b.man.names[r.name + 1], plain))]}]
  BY <1>1, <1>2
<1>4. PICK under : under = To("seal", to.holder)
  OBVIOUS
<1>5. PICK plain \in Value(Opened(g, b, r, under)) :
             reading' = [reading EXCEPT ![w] =
                 {[t EXCEPT !.holder = {to.holder},
                            !.assets = Append(@, ToOut(b.man.names[r.name + 1], plain))]}]
  BY <1>3, <1>4
<1>6. PICK asset, more, holder, s : /\ asset = ToOut(b.man.names[r.name + 1], plain)
                                    /\ more = Append(assets, asset) /\ holder = {to.holder}
                                    /\ s = [t EXCEPT !.holder = holder, !.assets = more]
  OBVIOUS
<1>7. Written1st(made) /\ MappedOk(made, t) /\ jobs[w] = <<>>
  BY <1>1, WhileReading DEF ReadingOk
<1>8. /\ UNCHANGED <<draft, made, disk, out, jobs, torn, wrapped, asked>>
      /\ reading' = [reading EXCEPT ![w] = {s}]
  BY <1>2, <1>5, <1>6 DEF DecryptMember
<1>9. Turns(w, <<>>, {s})
  <2>1. Domains' /\ asked' \in 0 .. MaxCommands
    BY <1>8 DEF Bundles, Domains
  <2>2. \A v \in Workers : jobs'[v] = IF v = w THEN <<>> ELSE jobs[v]
    BY <1>7, <1>8
  <2>3. \A v \in Workers : reading'[v] = IF v = w THEN {s} ELSE reading[v]
    BY <1>8 DEF Bundles, Domains
  <2> QED
    BY <1>8, <2>1, <2>2, <2>3 DEF Turns
<1>10. PICK f : CellsOk(made, f) /\ Parse(f).ok /\ b = Parse(f).value /\ t.length = Len(f)
  BY <1>2, <1>7 DEF MappedOk
<1>11. Cells(f) /\ Len(f) \in Nat
  BY <1>10 DEF CellsOk, Cells
<1>12. Cells(g) /\ Len(g) >= Len(f)
  <2>1. t.path \in BundlePaths /\ t.length \in Nat
    BY <1>7, <1>10, <1>11 DEF MappedOk
  <2> QED
    BY <1>2, <1>10, <1>11, <2>1, MappedIs
<1>13. AssetFor(b, r, asset)
  <2>1. Opened(g, b, r, under).ok /\ plain = Opened(g, b, r, under).value
    BY DEF Value
  <2>2. Parse(f).ok /\ b = Parse(f).value
    BY <1>10
  <2>3. List(Opened(g, b, r, under).value) /\ Hash(Opened(g, b, r, under).value) = r.root
    BY <1>11, <1>12, <2>1, <2>2, OpenedIs
  <2>4. List(plain) /\ Hash(plain) = r.root
    BY <2>1, <2>3
  <2> QED
    BY <1>6, <2>4 DEF AssetFor
<1>14. List(assets) /\ n \in Nat /\ \A i \in 1 .. n : AssetFor(b, members[i], assets[i])
  BY <1>2, <1>7, ListMembers DEF MappedOk
<1>15. /\ List(more) /\ Len(more) = n + 1 /\ more[n + 1] = asset
       /\ \A i \in 1 .. n : more[i] = assets[i]
  <2>1. PICK C : C = ToSet(assets) \cup {asset}
    OBVIOUS
  <2>2. assets \in Seq(C) /\ asset \in C
    BY <1>14, <2>1 DEF List
  <2>3. more = Append(assets, asset) /\ n = Len(assets) /\ n \in Nat
    BY <1>2, <1>6, <1>14
  <2>4. more \in Seq(C) /\ Len(more) = n + 1 /\ more[n + 1] = asset /\ \A i \in 1 .. n : more[i] = assets[i]
    BY <2>2, <2>3
  <2> QED
    BY <2>4, OneSequence DEF List
<1>16. \A i \in 1 .. n + 1 : AssetFor(b, members[i], more[i])
  <2>1. \A i \in 1 .. n + 1 : i \in 1 .. n \/ i = n + 1
    BY <1>14
  <2> QED
    BY <1>2, <1>13, <1>14, <1>15, <2>1
<1>17. n + 1 <= Len(members)
  <2>1. List(members)
    <3>1. List(b.secs)
      BY <1>10, <1>11, SectionsList
    <3> QED
      BY <1>2, <3>1, MembersOf
  <2>2. Len(members) \in Nat /\ n < Len(members)
    BY <1>1, <1>2, <2>1, ListMembers
  <2> QED
    BY <1>14, <2>2
<1>18. /\ s = [cmd |-> t.cmd, path |-> t.path, length |-> t.length, bundle |-> b,
               holder |-> holder, assets |-> more]
  BY <1>2, <1>6, <1>7 DEF MappedOk
<1>19. MappedOk(made, s)
  <2>1. /\ s.cmd = t.cmd /\ s.path = t.path /\ s.length = t.length /\ s.bundle = b
        /\ s.holder = holder /\ s.assets = more
    BY <1>18
  <2>2. s = [cmd |-> s.cmd, path |-> s.path, length |-> s.length, bundle |-> s.bundle,
             holder |-> s.holder, assets |-> s.assets]
    BY <1>18, <2>1
  <2>3. s.path \in BundlePaths /\ MayRelease(s.bundle)
    BY <1>2, <1>7, <2>1 DEF MappedOk
  <2>4. \E x : CellsOk(made, x) /\ Parse(x).ok /\ s.bundle = Parse(x).value /\ s.length = Len(x)
    BY <1>10, <2>1
  <2>5. /\ List(s.assets) /\ Len(s.assets) <= Len(Members(s.bundle))
        /\ \A i \in 1 .. Len(s.assets) : AssetFor(s.bundle, Members(s.bundle)[i], s.assets[i])
    BY <1>2, <1>15, <1>16, <1>17, <2>1
  <2> QED
    BY <2>2, <2>3, <2>4, <2>5 DEF MappedOk
<1>20. \A x \in {s} : ReadingOk(made', x)
  <2>1. s.cmd = "release"
    BY <1>1, <1>18
  <2> QED
    BY <1>8, <1>19, <2>1 DEF ReadingOk
<1>21. wrapped' \subseteq [name : Nat, to : Recipients]
  BY <1>8 DEF Bundles
<1> QED
  BY <1>7, <1>8, <1>9, <1>20, <1>21, NoQueue, TurnKeeps

LEMMA GiveUpKeeps ==
    ASSUME Bundles, NEW w \in Workers, GiveUp(w)
    PROVE  Bundles'
<1>1. Finish(w, <<>>) /\ reading[w] # {}
  BY DEF GiveUp
<1>2. Written1st(made)
  BY <1>1, WhileReading
<1>3. Turns(w, <<>>, {}) /\ made' = made /\ wrapped' = wrapped
  BY <1>1, FinishTurns
<1>4. wrapped' \subseteq [name : Nat, to : Recipients]
  BY <1>3 DEF Bundles
<1> QED
  BY <1>2, <1>3, <1>4, NoQueue, TurnKeeps

\* A release that has all of it decrypted: an asset for each member, then the report.
Released(w, t, b, members, assets, report, writes) ==
    /\ t \in reading[w] /\ Written1st(made) /\ MappedOk(made, t)
    /\ b = t.bundle /\ members = Members(b) /\ List(members)
    /\ assets = t.assets /\ List(assets) /\ Len(assets) = Len(members)
    /\ \A i \in 1 .. Len(members) : AssetFor(b, members[i], assets[i])
    /\ report = ToOut("release.json", <<<<"report", ReportOn(b, members)>>>>)
    /\ writes = Append(assets, report) /\ List(writes)
    /\ Len(writes) = Len(members) + 1 /\ writes[Len(members) + 1] = report
    /\ \A i \in 1 .. Len(members) : writes[i] = assets[i]
    /\ Turns(w, writes, {}) /\ made' = made /\ wrapped' = wrapped

LEMMA ReleaseMakes ==
    ASSUME Bundles, NEW w \in Workers, ReleaseBundle(w)
    PROVE  \E t, b, members, assets, report, writes :
               Released(w, t, b, members, assets, report, writes)
<1>1. PICK t \in reading[w] : /\ t.cmd = "release" /\ Len(t.assets) = Len(Members(t.bundle))
                              /\ Finish(w, Append(t.assets, Report(t.bundle)))
  BY DEF ReleaseBundle, ReleaseAs
<1>2. Written1st(made) /\ MappedOk(made, t)
  BY <1>1, WhileReading DEF ReadingOk
<1>3. PICK b, members, assets, report, writes :
        /\ b = t.bundle /\ members = Members(b) /\ assets = t.assets /\ report = Report(b)
        /\ writes = Append(assets, report)
  OBVIOUS
<1>4. PICK f : CellsOk(made, f) /\ Parse(f).ok /\ b = Parse(f).value
  BY <1>2, <1>3 DEF MappedOk
<1>5. List(members)
  <2>1. List(b.secs)
    BY <1>4, SectionsList DEF CellsOk
  <2> QED
    BY <1>3, <2>1, MembersOf
<1>6. PICK n \in Nat : n = Len(members)
  BY <1>5, ListMembers
<1>7. List(assets) /\ Len(assets) = n /\ \A i \in 1 .. n : AssetFor(b, members[i], assets[i])
  BY <1>1, <1>2, <1>3, <1>6 DEF MappedOk
<1>8. report = ToOut("release.json", <<<<"report", ReportOn(b, members)>>>>)
  BY <1>3 DEF Report, ReportOn
<1>9. /\ List(writes) /\ Len(writes) = n + 1 /\ writes[n + 1] = report
      /\ \A i \in 1 .. n : writes[i] = assets[i]
  <2>1. PICK C : C = ToSet(assets) \cup {report}
    OBVIOUS
  <2>2. assets \in Seq(C) /\ report \in C
    BY <1>7, <2>1 DEF List
  <2>3. writes \in Seq(C) /\ Len(writes) = n + 1 /\ writes[n + 1] = report /\ \A i \in 1 .. n : writes[i] = assets[i]
    BY <1>3, <1>6, <1>7, <2>2
  <2> QED
    BY <2>3, OneSequence DEF List
<1>10. Turns(w, writes, {}) /\ made' = made /\ wrapped' = wrapped
  BY <1>1, <1>3, FinishTurns
<1>11. Released(w, t, b, members, assets, report, writes)
  BY <1>2, <1>3, <1>5, <1>6, <1>7, <1>8, <1>9, <1>10 DEF Released
<1> QED
  BY <1>11

LEMMA ReleaseKeeps ==
    ASSUME Bundles, NEW w \in Workers, ReleaseBundle(w)
    PROVE  Bundles'
<1>1. PICK t, b, members, assets, report, writes :
         Released(w, t, b, members, assets, report, writes)
  BY ReleaseMakes
<1>2. PICK f : CellsOk(made, f) /\ Parse(f).ok /\ b = Parse(f).value
  BY <1>1 DEF Released, MappedOk
<1>3. PICK n \in Nat : n = Len(members)
  BY <1>1, ListMembers DEF Released
<1>4. \A i \in 1 .. n : members[i] \in ToSet(b.secs) /\ "SEALED" \in members[i].flags
  <2>1. List(b.secs)
    BY <1>2, SectionsList DEF CellsOk
  <2> QED
    BY <1>1, <1>3, <2>1, MembersOf DEF Released
<1>5. ASSUME NEW i \in 1 .. n
      PROVE  JobOk(made, assets[i]) /\ ~assets[i].open
  <2>1. AssetFor(b, members[i], assets[i])
    BY <1>1, <1>3 DEF Released
  <2>2. PICK name, plain : name = b.man.names[members[i].name + 1] /\ assets[i] = ToOut(name, plain)
    BY <2>1 DEF AssetFor
  <2>3. Written1st(made)
    BY <1>1 DEF Released
  <2>4. PICK r : r = members[i] /\ r \in ToSet(b.secs) /\ "SEALED" \in r.flags
    BY <1>4
  <2>5. PICK s : SealedOne(made, b, r, s)
    BY <1>2, <2>3, <2>4, SealedIsFirst
  <2>6. name \in OutNames
    BY <2>2, <2>4, <2>5 DEF SealedOne
  <2> QED
    BY <2>2, <2>6 DEF JobOk, ToOut, Output
<1>6. JobOk(made, report) /\ ~report.open
  <2>1. PICK cells : cells = <<<<"report", ReportOn(b, members)>>>>
    OBVIOUS
  <2>2. report = ToOut("release.json", cells)
    BY <1>1, <2>1 DEF Released
  <2> QED
    BY <2>2, LifecycleAssumption DEF JobOk, ToOut, Output
<1>7. QueueOk(made, writes)
  <2>1. /\ List(writes) /\ Len(writes) = n + 1 /\ writes[n + 1] = report
        /\ \A i \in 1 .. n : writes[i] = assets[i]
    BY <1>1, <1>3 DEF Released
  <2>2. \A i \in 1 .. Len(writes) : i \in 1 .. n \/ i = n + 1
    BY <1>3, <2>1
  <2> QED
    BY <1>5, <1>6, <2>1, <2>2 DEF QueueOk
<1>8. Written1st(made) /\ Turns(w, writes, {}) /\ made' = made /\ wrapped' = wrapped
  BY <1>1 DEF Released
<1>9. wrapped' \subseteq [name : Nat, to : Recipients]
  BY <1>8 DEF Bundles
<1> QED
  BY <1>7, <1>8, <1>9, TurnKeeps

(***************************************************************************)
(* One file after another                                                  *)
(***************************************************************************)
\* The write a command makes next.
NextWrite(w, j) ==
    /\ jobs[w] # <<>> /\ j = jobs[w][1] /\ JobOk(made, j) /\ Written1st(made)
    /\ List(jobs[w]) /\ 1 \in 1 .. Len(jobs[w])

LEMMA NextIs ==
    ASSUME Bundles, NEW w \in Workers, jobs[w] # <<>>
    PROVE  \E j : NextWrite(w, j)
<1>1. PICK queue : queue = jobs[w]
  OBVIOUS
<1>2. QueueOk(made, queue) /\ queue # <<>>
  BY <1>1 DEF Bundles
<1>3. List(queue)
  BY <1>2 DEF QueueOk
<1>4. 1 \in 1 .. Len(queue)
  <2>1. queue \in Seq(ToSet(queue)) /\ Len(queue) \in Nat
    BY <1>3, ListMembers DEF List
  <2>2. Len(queue) # 0
    BY <1>2, <2>1
  <2> QED
    BY <2>1, <2>2
<1>5. JobOk(made, queue[1])
  BY <1>2, <1>4 DEF QueueOk
<1>6. Written1st(made)
  BY <1>1, <1>2 DEF Bundles, Untouched
<1>7. NextWrite(w, queue[1])
  BY <1>1, <1>2, <1>3, <1>4, <1>5, <1>6 DEF NextWrite
<1> QED
  BY <1>7

LEMMA PutKeeps ==
    ASSUME Bundles, NEW w \in Workers, NEW j, NextWrite(w, j),
           NEW cells, Put(j, cells), UNCHANGED <<draft, made, wrapped, asked, reading>>,
           NEW queue, jobs' = [jobs EXCEPT ![w] = queue], QueueOk(made, queue),
           torn' \ {j.name} = torn \ {j.name},
           j.at = "disk" /\ j.name \in BundlePaths => FileOk(made, cells, j.name \notin torn')
    PROVE  Bundles'
<1>1. JobOk(made, j) /\ Written1st(made)
  BY DEF NextWrite
<1>2. j.at = "disk" \/ j.at = "out"
  BY <1>1 DEF JobOk
<1>3. j.name \in DiskNames \cup OutNames
  BY <1>1, <1>2 DEF JobOk
<1>4. torn' \subseteq DiskNames \cup OutNames
  BY <1>3 DEF Bundles
<1>5. Domains'
  BY DEF Bundles, Domains, Put
<1>6. ASSUME NEW p \in BundlePaths
      PROVE  FileOk(made', disk'[p], p \notin torn')
  <2>1. FileOk(made, disk[p], p \notin torn)
    BY DEF Bundles
  <2>2. CASE j.at = "disk" /\ j.name = p
    <3>1. disk'[p] = cells
      BY <2>2 DEF Put, Bundles, Domains, DiskNames
    <3> QED
      BY <2>2, <3>1
  <2>3. CASE j.at = "disk" /\ j.name # p
    <3>1. disk'[p] = disk[p]
      BY <2>3 DEF Put, Bundles, Domains, DiskNames
    <3>2. (p \notin torn') = (p \notin torn)
      BY <2>3
    <3> QED
      BY <2>1, <3>1, <3>2
  <2>4. CASE j.at # "disk"
    <3>1. disk'[p] = disk[p]
      BY <2>4 DEF Put
    <3>2. j.name # p
      BY <1>1, <1>2, <2>4, LifecycleAssumption DEF JobOk, DiskNames
    <3>3. (p \notin torn') = (p \notin torn)
      BY <3>2
    <3> QED
      BY <2>1, <3>1, <3>3
  <2> QED
    BY <2>2, <2>3, <2>4
<1>7. ASSUME NEW v \in Workers
      PROVE  QueueOk(made', jobs'[v])
  <2>1. jobs'[v] = IF v = w THEN queue ELSE jobs[v]
    BY DEF Bundles, Domains
  <2>2. QueueOk(made', jobs[v])
    BY DEF Bundles
  <2> QED
    BY <2>1, <2>2
<1>8. ASSUME NEW v \in Workers
      PROVE  /\ \A t \in reading'[v] : ReadingOk(made', t)
             /\ reading'[v] = {} \/ jobs'[v] = <<>>
  <2>1. reading'[v] = reading[v] /\ made' = made
    OBVIOUS
  <2>2. jobs'[v] = IF v = w THEN queue ELSE jobs[v]
    BY DEF Bundles, Domains
  <2>3. (\A t \in reading[v] : ReadingOk(made, t)) /\ (reading[v] = {} \/ jobs[v] = <<>>)
    BY DEF Bundles
  <2>4. jobs[w] # <<>>
    BY DEF NextWrite
  <2> QED
    BY <2>1, <2>2, <2>3, <2>4
<1> QED
  BY <1>1, <1>4, <1>5, <1>6, <1>7, <1>8 DEF Bundles

LEMMA TruncateKeeps ==
    ASSUME Bundles, NEW w \in Workers, Truncate(w)
    PROVE  Bundles'
<1>1. PICK j : NextWrite(w, j)
  BY NextIs DEF Truncate
<1>2. PICK queue, opened, open : /\ queue = jobs[w] /\ opened = [jobs[w] EXCEPT ![1] = open]
                                 /\ open = [j EXCEPT !.open = TRUE]
  OBVIOUS
<1>3. /\ j = queue[1] /\ List(queue) /\ 1 \in 1 .. Len(queue) /\ JobOk(made, j)
      /\ QueueOk(made, queue)
  BY <1>1, <1>2 DEF NextWrite, Bundles
<1>4. PICK n \in Nat : n = Len(queue) /\ DOMAIN queue = 1 .. n
  BY <1>3, ListMembers
<1>5. JobOk(made, open) /\ open.open
  <2>1. /\ j = [at |-> j.at, name |-> j.name, cells |-> j.cells, open |-> j.open, whole |-> j.whole]
    BY <1>3 DEF JobOk
  <2>2. open = [at |-> j.at, name |-> j.name, cells |-> j.cells, open |-> TRUE, whole |-> j.whole]
    BY <1>2, <2>1
  <2>3. open.at = j.at /\ open.name = j.name /\ open.cells = j.cells /\ open.open = TRUE /\ open.whole = j.whole
    BY <2>2
  <2>4. open = [at |-> open.at, name |-> open.name, cells |-> open.cells, open |-> open.open,
                whole |-> open.whole]
    BY <2>2, <2>3
  <2> QED
    BY <1>3, <2>3, <2>4 DEF JobOk
<1>6. List(opened) /\ Len(opened) = n /\ \A i \in 1 .. n : opened[i] = IF i = 1 THEN open ELSE queue[i]
  <2>1. opened = [i \in 1 .. n |-> IF i = 1 THEN open ELSE queue[i]]
    BY <1>2, <1>4
  <2> QED
    BY <2>1, MadeList
<1>7. QueueOk(made, opened)
  BY <1>3, <1>4, <1>5, <1>6 DEF QueueOk
<1>8. jobs' = [jobs EXCEPT ![w] = opened]
  <2>1. jobs' = [jobs EXCEPT ![w][1].open = TRUE]
    BY DEF Truncate
  <2> QED
    BY <1>2, <1>3, <2>1
<1>9. Put(j, <<>>) /\ torn' = torn \cup {j.name} /\ UNCHANGED <<draft, made, wrapped, asked, reading>>
  BY <1>1 DEF Truncate, NextWrite
<1>10. FileOk(made, <<>>, j.name \notin torn')
  BY NothingIsFile
<1>11. torn' \ {j.name} = torn \ {j.name}
  BY <1>9
<1> QED
  BY <1>1, <1>7, <1>8, <1>9, <1>10, <1>11, PutKeeps

\* What a write that is not one of a bundle finds is of no account.
LEMMA WriteNextKeeps ==
    ASSUME Bundles, NEW w \in Workers, WriteNext(w)
    PROVE  Bundles'
<1>1. PICK j : NextWrite(w, j)
  BY NextIs DEF WriteNext
<1>2. PICK queue, rest : queue = jobs[w] /\ rest = Tail(jobs[w])
  OBVIOUS
<1>3. /\ j = queue[1] /\ List(queue) /\ 1 \in 1 .. Len(queue) /\ JobOk(made, j)
      /\ QueueOk(made, queue)
  BY <1>1, <1>2 DEF NextWrite, Bundles
<1>4. PICK n \in Nat : n = Len(queue) /\ n # 0
  BY <1>3, ListMembers
<1>5. QueueOk(made, rest)
  <2>1. queue # <<>>
    BY <1>4
  <2>2. PICK C : C = ToSet(queue)
    OBVIOUS
  <2>3. rest \in Seq(C) /\ Len(rest) = n - 1 /\ \A i \in 1 .. n - 1 : rest[i] = queue[i + 1]
    BY <1>2, <1>3, <1>4, <2>1, <2>2, RestOf DEF List
  <2>4. \A i \in 1 .. n - 1 : i + 1 \in 1 .. n /\ i + 1 # 1
    OBVIOUS
  <2>5. List(rest)
    BY <2>3, OneSequence DEF List
  <2> QED
    BY <1>3, <1>4, <2>3, <2>4, <2>5 DEF QueueOk
<1>6. /\ jobs' = [jobs EXCEPT ![w] = rest] /\ UNCHANGED <<draft, made, wrapped, asked, reading>>
      /\ Put(j, Over(j.cells, Found(j)))
      /\ torn' = IF Found(j) = <<>> /\ j.whole THEN torn \ {j.name} ELSE torn \cup {j.name}
  BY <1>1, <1>2 DEF WriteNext, NextWrite
<1>7. torn' \ {j.name} = torn \ {j.name}
  BY <1>6
<1>8. ASSUME j.at = "disk", j.name \in BundlePaths
      PROVE  FileOk(made, Over(j.cells, Found(j)), j.name \notin torn')
  <2>1. Found(j) = disk[j.name] /\ CellsOk(made, disk[j.name])
    BY <1>8 DEF Found, Bundles, FileOk
  <2>2. CellsOk(made, j.cells) /\ (j.whole => WholeFile(j.cells))
    BY <1>3, <1>8 DEF JobOk
  <2>3. CellsOk(made, Over(j.cells, Found(j)))
    BY <2>1, <2>2, OverIsOk
  <2>4. CASE Found(j) = <<>> /\ j.whole
    <3>1. Over(j.cells, Found(j)) = j.cells
      BY <2>2, <2>4, OverNothing DEF CellsOk, Cells, List
    <3> QED
      BY <2>2, <2>4, <3>1 DEF FileOk
  <2>5. CASE ~(Found(j) = <<>> /\ j.whole)
    <3>1. j.name \in torn'
      BY <1>6, <2>5
    <3> QED
      BY <2>3, <3>1 DEF FileOk
  <2> QED
    BY <2>4, <2>5
<1> QED
  BY <1>1, <1>5, <1>6, <1>7, <1>8, PutKeeps

LEMMA CrashKeeps ==
    ASSUME Bundles, NEW w \in Workers, Crash(w)
    PROVE  Bundles'
<1>1. PICK j : NextWrite(w, j)
  BY NextIs DEF Crash
<1>2. PICK n \in {0} \cup (IF jobs[w][1].open
                         THEN {Len(jobs[w][1].cells) - k : k \in Cuts} \cap Nat ELSE {}) :
          /\ Put(jobs[w][1], Over(SubSeq(jobs[w][1].cells, 1, n), Found(jobs[w][1])))
          /\ torn' = IF n = 0 THEN torn ELSE torn \cup {jobs[w][1].name}
  BY DEF Crash
<1>3. j = jobs[w][1] /\ JobOk(made, j)
  BY <1>1 DEF NextWrite
<1>4. PICK cells : cells = Over(SubSeq(j.cells, 1, n), Found(j))
  OBVIOUS
<1>5. /\ Put(j, cells) /\ torn' = IF n = 0 THEN torn ELSE torn \cup {j.name}
  BY <1>2, <1>3, <1>4
<1>6. n \in Nat /\ (n = 0 \/ \E k \in Cuts : n = Len(j.cells) - k)
  BY <1>3
<1>7. jobs' = [jobs EXCEPT ![w] = <<>>] /\ UNCHANGED <<draft, made, wrapped, asked, reading>>
  BY DEF Crash
<1>8. torn' \ {j.name} = torn \ {j.name}
  BY <1>5
<1>9. ASSUME j.at = "disk", j.name \in BundlePaths
      PROVE  FileOk(made, cells, j.name \notin torn')
  <2>1. /\ Found(j) = disk[j.name] /\ CellsOk(made, disk[j.name])
        /\ FileOk(made, disk[j.name], j.name \notin torn)
    BY <1>9 DEF Found, Bundles, FileOk
  <2>2. CellsOk(made, j.cells)
    BY <1>3, <1>9 DEF JobOk
  <2>3. List(j.cells) /\ List(Found(j)) /\ Len(j.cells) \in Nat
    BY <2>1, <2>2, ListMembers DEF CellsOk, Cells, List
  <2>4. CASE n = 0
    <3>1. cells = Found(j)
      BY <1>4, <2>3, <2>4, NothingOver
    <3> QED
      BY <1>5, <2>1, <2>4, <3>1
  <2>5. CASE n # 0
    <3>1. n <= Len(j.cells)
      BY <1>6, <2>3, <2>5, LifecycleAssumption
    <3>2. CellsOk(made, SubSeq(j.cells, 1, n))
      BY <1>6, <2>2, <3>1, PartIsOk
    <3>3. CellsOk(made, cells)
      BY <1>4, <2>1, <3>2, OverIsOk
    <3>4. j.name \in torn'
      BY <1>5, <2>5
    <3> QED
      BY <3>3, <3>4 DEF FileOk
  <2> QED
    BY <2>4, <2>5
<1> QED
  BY <1>1, <1>5, <1>7, <1>8, <1>9, NoQueue, PutKeeps

LEMMA FirstWrapped ==
    ASSUME Written1st(made), NEW first,
           first = UNION {{[name |-> s.name, to |-> to] : to \in ToSet(s.to)} : s \in ToSet(made.order.specs)}
    PROVE  first \subseteq [name : Nat, to : Recipients]
<1>1. ASSUME NEW e \in first
      PROVE  e \in [name : Nat, to : Recipients]
  <2>1. PICK s \in ToSet(made.order.specs) : e \in {[name |-> s.name, to |-> to] : to \in ToSet(s.to)}
    OBVIOUS
  <2>2. PICK to \in ToSet(s.to) : e = [name |-> s.name, to |-> to]
    BY <2>1
  <2>3. s.to \in Seq(Recipients)
    BY DEF Written1st, Challenge
  <2>4. to \in Recipients
    BY <2>3 DEF ToSet
  <2>5. s.name \in Nat
    BY ChallengeFacts DEF SpecFacts
  <2> QED
    BY <2>2, <2>4, <2>5
<1> QED
  BY <1>1

LEMMA BundlesAtFirst ==
    ASSUME Init
    PROVE  Bundles
<1>1. /\ out = Empty(OutNames) /\ asked = 0 /\ jobs = Empty(Workers) /\ torn = {}
      /\ reading = [w \in Workers |-> {}]
      /\ wrapped = UNION {{[name |-> s.name, to |-> to] : to \in ToSet(s.to)} :
                           s \in ToSet(made.order.specs)}
  BY DEF Init
<1>2. /\ DOMAIN out = OutNames /\ DOMAIN jobs = Workers /\ DOMAIN reading = Workers
      /\ \A n \in OutNames : out[n] = <<>>
      /\ \A w \in Workers : jobs[w] = <<>> /\ reading[w] = {}
  BY <1>1 DEF Empty
<1>3. \A w \in Workers : QueueOk(made, jobs[w])
  BY <1>2, NoQueue
<1>4. asked \in 0 .. MaxCommands /\ torn \subseteq DiskNames \cup OutNames
  BY <1>1, LifecycleAssumption
<1>5. CASE \E d \in Docs : draft = {d} /\ made = NothingMade /\ disk = Empty(DiskNames)
  <2>1. draft \subseteq Docs /\ DOMAIN disk = DiskNames /\ \A p \in BundlePaths : disk[p] = <<>>
    BY <1>5 DEF Empty, DiskNames
  <2>2. Untouched
    BY <1>2, <2>1 DEF Untouched
  <2>3. wrapped = {}
    <3>1. ToSet(made.order.specs) = {}
      BY <1>5 DEF NothingMade, ToSet
    <3> QED
      BY <1>1, <3>1
  <2>4. \A p \in BundlePaths : FileOk(made, disk[p], p \notin torn)
    BY <2>1, NothingIsFile
  <2> QED
    BY <1>2, <1>3, <1>4, <1>5, <2>1, <2>2, <2>3, <2>4 DEF Bundles, Domains
<1>6. CASE \E g \in Given : /\ draft = {} /\ made = g
                            /\ disk = [Empty(DiskNames) EXCEPT !["a"] = LaidWith(g.order, g.ro)]
  <2>1. PICK f : f = LaidWith(made.order, made.ro)
    OBVIOUS
  <2>2. draft = {} /\ made \in Given /\ disk = [Empty(DiskNames) EXCEPT !["a"] = f]
    BY <1>6, <2>1
  <2>3. Written1st(made)
    BY <2>2, GivenAssumption DEF Written1st
  <2>4. DOMAIN disk = DiskNames /\ disk["a"] = f /\ disk["b"] = <<>>
    BY <2>2 DEF Empty, DiskNames, BundlePaths
  <2>5. CellsOk(made, f)
    BY <2>1, <2>3, ChallengeKeeps, LaidKeeps DEF Written1st
  <2>6. WholeFile(f)
    BY <2>1, <2>3, ChallengeFacts, LaidIsWhole DEF Written1st
  <2>7. ASSUME NEW p \in BundlePaths
        PROVE  FileOk(made, disk[p], p \notin torn)
    BY <2>4, <2>5, <2>6, NothingIsFile DEF BundlePaths, FileOk
  <2>8. wrapped \subseteq [name : Nat, to : Recipients]
    BY <1>1, <2>3, FirstWrapped
  <2> QED
    BY <1>2, <1>3, <1>4, <2>2, <2>3, <2>4, <2>7, <2>8 DEF Bundles, Domains
<1> QED
  BY <1>5, <1>6 DEF Init

LEMMA BundlesKept == Bundles /\ [Next]_vars => Bundles'
<1> SUFFICES ASSUME Bundles, [Next]_vars
             PROVE  Bundles'
  OBVIOUS
<1>1. ASSUME UNCHANGED vars
      PROVE  Bundles'
  BY <1>1 DEF vars, Bundles, Domains, Untouched
<1>2. ASSUME Next
      PROVE  Bundles'
  <2>1. PICK w \in Workers :
            \/ PackDoc(w) \/ SealSection(w) \/ SignBundle(w) \/ UnsealSection(w)
            \/ ReadChain(w) \/ TransferBundle(w)
            \/ MapBundle(w) \/ DecryptMember(w) \/ ReleaseBundle(w) \/ GiveUp(w)
            \/ Truncate(w) \/ WriteNext(w) \/ Crash(w)
    BY <1>2 DEF Next
  <2> QED
    BY <2>1, PackDocKeeps, SealKeeps, SignKeeps, UnsealKeeps, ReadChainKeeps, TransferKeeps,
       MapKeeps, DecryptKeeps, ReleaseKeeps, GiveUpKeeps, TruncateKeeps, WriteNextKeeps, CrashKeeps
<1> QED
  BY <1>1, <1>2

\* The invariant holds of every challenge, whatever commands run on it.
THEOREM FilesKeepTheChallenge == Spec => []Bundles
<1> QED
  BY BundlesAtFirst, BundlesKept, PTL DEF Spec

\* Every variable has its type (Lifecycle.TypeOK): a command writes only to the files
\* there are, has at most the first of its writes open, and every envelope it made
\* is of a section there is, for one of the recipients.
THEOREM LifecycleTypes == Spec => []TypeOK
<1>1. ASSUME Bundles
      PROVE  TypeOK
  <2>1. /\ draft \subseteq Docs /\ asked \in 0 .. MaxCommands
        /\ DOMAIN disk = DiskNames /\ DOMAIN out = OutNames
        /\ torn \subseteq DiskNames \cup OutNames /\ wrapped \subseteq [name : Nat, to : Recipients]
    BY <1>1 DEF Bundles, Domains
  <2>2. ASSUME NEW w \in Workers, NEW i \in DOMAIN jobs[w]
        PROVE  /\ jobs[w][i].at = "disk" => jobs[w][i].name \in DOMAIN disk
               /\ jobs[w][i].at = "out" => jobs[w][i].name \in DOMAIN out
               /\ jobs[w][i].open => i = 1
    <3>1. QueueOk(made, jobs[w])
      BY <1>1 DEF Bundles
    <3>2. DOMAIN jobs[w] = 1 .. Len(jobs[w])
      BY <3>1, ListMembers DEF QueueOk
    <3>3. JobOk(made, jobs[w][i]) /\ (jobs[w][i].open => i = 1)
      BY <3>1, <3>2 DEF QueueOk
    <3> QED
      BY <2>1, <3>3 DEF JobOk
  <2>3. \A w \in Workers : reading[w] = {} \/ jobs[w] = <<>>
    BY <1>1 DEF Bundles
  <2> QED
    BY <2>1, <2>2, <2>3 DEF TypeOK
<1> QED
  BY <1>1, FilesKeepTheChallenge, PTL

(***************************************************************************)
(* What a reader is told of the challenge                                  *)
(***************************************************************************)
\* The manifest is the one it was, with names behind those there were.
SameManifest(m, b, first) ==
    /\ b.h.ro = m.ro
    /\ SubSeq(b.man.names, 1, Len(first.names)) = first.names
    /\ [b.man EXCEPT !.names = first.names] = first

LEMMA ManifestStays ==
    ASSUME NEW m, Written1st(m), NEW f, CellsOk(m, f), Parse(f).ok,
           NEW b, b = Parse(f).value, NEW first, first = ManifestIn(m.order)
    PROVE  SameManifest(m, b, first)
<1>1. /\ Longer(b.man.names, ManifestIn(m.order).names)
      /\ b.man = [ManifestIn(m.order) EXCEPT !.names = b.man.names]
      /\ \A x \in ToSet(b.secs) : x.kind = "manifest" => x.name = m.order.specs[1].name
  BY ManifestIsKept
<1>2. b.h.ro = m.ro
  BY FileIsFaithful DEF Faithful
<1>3. first = [key \in DOMAIN first |-> first[key]] /\ "names" \in DOMAIN first
  BY DEF Written1st, Challenge
<1>4. PICK names, old : names = b.man.names /\ old = first.names
  OBVIOUS
<1>5. List(old) /\ List(names) /\ Len(old) \in Nat /\ Len(old) <= Len(names)
      /\ \A i \in 1 .. Len(old) : names[i] = old[i]
  BY <1>1, <1>4, ChallengeNames DEF Longer
<1>6. SubSeq(names, 1, Len(old)) = old
  <2>1. PICK n \in Nat : n = Len(old)
    BY <1>5
  <2>2. PICK t : t = SubSeq(names, 1, n)
    OBVIOUS
  <2>3. List(t) /\ Len(t) = n /\ \A i \in 1 .. n : t[i] = names[i]
    BY <1>5, <2>1, <2>2, CutCells DEF List
  <2> QED
    BY <1>5, <2>1, <2>2, <2>3, SameList
<1>7. [b.man EXCEPT !.names = old] = first
  <2>1. b.man = [first EXCEPT !.names = names]
    BY <1>1, <1>4
  <2> QED
    BY <1>3, <1>4, <2>1
<1> QED
  BY <1>2, <1>4, <1>6, <1>7 DEF SameManifest

\* What was added is no section of the challenge.
LEMMA AddedIsAdded ==
    ASSUME NEW m, Written1st(m), NEW f, CellsOk(m, f), Parse(f).ok,
           NEW r \in ToSet(Parse(f).value.secs), \A s \in ToSet(m.order.specs) : s.name # r.name
    PROVE  r.kind \in AddedKinds /\ r.flags = {}
<1>1. RecordKept(m, r) /\ m.order.specs[1] \in ToSet(m.order.specs)
  BY FileIsFaithful, ChallengeFacts DEF Faithful
<1> QED
  BY <1>1 DEF RecordKept, ManifestRec, AddedRec, Carries, Kept1st

\* What is read of a section is the section; a whole file has it.
LEMMA BytesStay ==
    ASSUME NEW m, Written1st(m), NEW f, CellsOk(m, f), Parse(f).ok,
           NEW b, b = Parse(f).value, NEW s \in Kept1st(m), NEW r \in ToSet(b.secs), Carries(s, r),
           r.enc = "none", "EXTERNAL" \notin r.flags, r.kind \in KnownKinds, Unpackable(r)
    PROVE  /\ SectionBytes(f, b, r).ok => SectionBytes(f, b, r) = Ok(s.plain)
           /\ WholeFile(f) => SectionBytes(f, b, r).ok
<1>1. PICK got : got = SectionBytes(f, b, r)
  OBVIOUS
<1>2. Cells(f) /\ RecordOk(r)
  BY RecordFacts DEF CellsOk
<1>3. "SEALED" \notin r.flags /\ Owned(b, r)
  BY <1>2 DEF RecordOk, SealedOk, Owned, ToSet
<1>4. got = VerifiedBytes(f, r)
  BY <1>1, <1>3 DEF SectionBytes
<1>5. s \in ToSet(m.order.specs) /\ r.root = Hash(s.plain)
  BY DEF Kept1st, Carries
<1>6. List(s.plain)
  BY <1>5, ChallengeFacts, PlainCells
<1>7. ASSUME got.ok
      PROVE  got = Ok(s.plain)
  <2>1. List(got.value) /\ Hash(got.value) = r.root
    BY <1>1, <1>2, <1>7, ReadBytes
  <2>2. got.value = s.plain
    BY <1>5, <1>6, <2>1, HashTellsCells
  <2>3. got = Ok(got.value)
    BY <1>4, <1>7 DEF VerifiedBytes, AndThen, Ok, Failed
  <2> QED
    BY <2>2, <2>3
<1>8. ASSUME WholeFile(f)
      PROVE  got.ok
  <2>1. PICK order : OrderOk(order) /\ CanLay(order) /\ LaidAs(order, f)
    BY <1>8 DEF WholeFile
  <2>2. PICK x \in ToSet(order.specs) : Describes(order, x, r) /\ PayloadAt(order, x, r.offset, f)
    BY <1>2, <2>1, WrittenRecords
  <2>3. VerifiedBytes(f, r) = Ok(PlainOf(order, x))
    BY <1>2, <2>1, <2>2, WrittenIsRead DEF Unpackable
  <2> QED
    BY <1>4, <2>3 DEF Ok
<1> QED
  BY <1>1, <1>7, <1>8

\* An index the challenge came with.
LEMMA FirstIndex ==
    ASSUME NEW m, Written1st(m), NEW s \in ToSet(m.order.specs), s.index # <<>>
    PROVE  /\ s.cs # 0 /\ List(s.plain)
           /\ ParseIndex(s.index, Len(s.index)) = Ok(Cvs(s.plain, 0, s.cs))
<1>1. OrderOk(m.order) /\ CanLay(m.order)
  BY ChallengeFacts DEF Written1st
<1>2. IndexOf(s).ok
  BY <1>1 DEF CanLay, ToSet
<1>3. List(s.plain) /\ s.cs \in Nat
  BY <1>1, PlainCells
<1>4. List(s.index)
  BY <1>1 DEF OrderOk, Cells, List
<1>5. IndexSays(s)
  BY <1>2, <1>3, <1>4, AdoptedIndex
<1>6. PICK n, cvs : n = ChunkCount(Len(s.plain), s.cs) /\ cvs = ParseIndex(s.index, n).value
  OBVIOUS
<1>7. ParseIndex(s.index, n).ok /\ Reduces(cvs, Len(s.plain), s.cs, Hash(s.plain)) /\ HasIndex(s)
  BY <1>5, <1>6 DEF IndexSays
<1>8. Len(s.index) = n /\ ParseIndex(s.index, n) = Ok(cvs)
  BY <1>6, <1>7 DEF ParseIndex, Ok, Failed
<1>9. cvs = Cvs(s.plain, 0, s.cs)
  BY <1>3, <1>7, ReducesToOne
<1> QED
  BY <1>3, <1>7, <1>8, <1>9 DEF HasIndex

\* What is read of an index is the index; a whole file has it.
LEMMA IndexStays ==
    ASSUME NEW m, Written1st(m), NEW f, CellsOk(m, f), Parse(f).ok,
           NEW b, b = Parse(f).value, NEW s \in Kept1st(m), NEW r \in ToSet(b.secs), Carries(s, r),
           s.from = "external", s.index # <<>>, s.kind \in KnownKinds
    PROVE  /\ IndexFor(f, b, r).ok => IndexFor(f, b, r) = ParseIndex(s.index, Len(s.index))
           /\ WholeFile(f) => IndexFor(f, b, r).ok
<1>1. PICK got, cells, n : /\ got = IndexFor(f, b, r)
                           /\ cells = Slice(f, r.indexOff, IndexEnd(r))
                           /\ n = ChunkCount(r.lenPlain, r.chunkSize)
  OBVIOUS
<1>2. Cells(f) /\ RecordOk(r)
  BY RecordFacts DEF CellsOk
<1>3. /\ s \in ToSet(m.order.specs) /\ r.root = Hash(s.plain) /\ r.lenPlain = Len(s.plain)
      /\ r.kind \in KnownKinds /\ r.flags = s.flags /\ r.indexOff # 0
  BY DEF Kept1st, Carries
<1>4. "EXTERNAL" \in r.flags
  BY <1>3, ChallengeFacts DEF SpecFacts
<1>5. "SEALED" \notin r.flags /\ Owned(b, r) /\ r.enc = "none"
  BY <1>2, <1>4 DEF RecordOk, SealedOk, PlaceOk, Owned, ToSet
<1>6. got = AndThen(ParseIndex(cells, n),
                    LAMBDA cvs : IF VerifyRoot(cvs, r.root, r.chunkSize) THEN Ok(cvs) ELSE Failed)
  BY <1>1, <1>3, <1>5 DEF IndexFor
<1>7. r.chunkSize = s.cs
  BY <1>5 DEF Carries
<1>8. List(s.plain) /\ ParseIndex(s.index, Len(s.index)) = Ok(Cvs(s.plain, 0, s.cs))
  BY <1>3, FirstIndex
<1>9. ASSUME got.ok
      PROVE  got = Ok(Cvs(s.plain, 0, s.cs))
  <2>1. got = ParseIndex(cells, n)
    BY <1>6, <1>9 DEF AndThen, ParseIndex, Ok, Failed
  <2>2. n >= 2 /\ got.value = [i \in 1 .. n |-> CvOf(cells[i])] /\ got = Ok(got.value)
    BY <1>9, <2>1 DEF ParseIndex, Ok, Failed
  <2>3. got.value # <<>>
    <3>1. 1 \in DOMAIN got.value
      <4>1. n \in Nat
        BY <1>1, <1>2, <1>3, CountIsNat DEF RecordOk, ChunkingOk
      <4>2. 1 \in 1 .. n
        BY <2>2, <4>1
      <4> QED
        BY <2>2, <4>2
    <3> QED
      BY <3>1
  <2>4. Reduces(got.value, r.lenPlain, r.chunkSize, r.root)
    BY <1>1, <1>2, <1>9, <2>3, ReadIndex
  <2>5. Reduces(got.value, Len(s.plain), s.cs, Hash(s.plain))
    BY <1>3, <1>7, <2>4
  <2>6. got.value = Cvs(s.plain, 0, s.cs)
    BY <1>8, <2>5, ReducesToOne
  <2> QED
    BY <2>2, <2>6
<1>10. ASSUME WholeFile(f)
       PROVE  got.ok
  <2>1. PICK order : OrderOk(order) /\ CanLay(order) /\ LaidAs(order, f) /\ IndexedAs(order, f)
    BY <1>10 DEF WholeFile
  <2>2. PICK t, k : t = f[1][2].tableOff /\ k = Len(order.specs)
    OBVIOUS
  <2>3. DOMAIN b.secs = 1 .. k /\ t \in Nat /\ f[1][2].count = k
    <3>1. b.h = f[1][2] /\ Tabled(f, b.h, b.secs, b.h.count)
      BY <1>2, ParseFacts, TableFacts DEF Cells
    <3> QED
      BY <2>1, <2>2, <3>1 DEF Tabled, LaidAs
  <2>4. PICK i \in 1 .. k : r = b.secs[i]
    BY <2>3 DEF ToSet
  <2>5. PICK x : x = order.specs[i]
    OBVIOUS
  <2>6. x \in ToSet(order.specs) /\ Describes(order, x, r) /\ PayloadAt(order, x, r.offset, f)
    BY <1>2, <2>1, <2>2, <2>4, <2>5, WrittenTable
  <2>7. f[t + i][2] = r
    <3>1. PICK table : table = Slice(f, b.h.tableOff, TableEnd(b.h))
      OBVIOUS
    <3>2. b.h = f[1][2] /\ b.secs = [j \in DOMAIN table |-> table[j][2]]
      BY <3>1, ParseFacts
    <3>3. f[b.h.tableOff + i] = table[i]
      <4>1. \A j \in 1 .. b.h.count : f[b.h.tableOff + j] = Slice(f, b.h.tableOff, TableEnd(b.h))[j]
        BY <1>2, TableFacts DEF Cells
      <4>2. i \in 1 .. b.h.count
        BY <2>3, <2>4, <3>2
      <4> QED
        BY <3>1, <4>1, <4>2
    <3>4. i \in DOMAIN table
      BY <2>3, <3>2
    <3> QED
      BY <2>2, <2>4, <3>2, <3>3, <3>4
  <2>8. IndexAt(x, r.indexOff, f)
    BY <2>1, <2>2, <2>4, <2>5, <2>7 DEF IndexedAs
  <2>9. HoldsAt(f, r.indexOff, IndexOf(x).value)
    BY <1>3, <2>8 DEF IndexAt
  <2>10. x.from = "external"
    BY <1>2, <1>4, <2>6, WrittenInside
  <2>11. x.index # <<>>
    <3>1. IndexOf(x).value # <<>>
      BY <1>3, <2>8 DEF IndexAt
    <3> QED
      BY <2>10, <3>1 DEF IndexOf, Ok
  <2>12. List(x.plain) /\ List(x.index) /\ x.cs \in Nat /\ IndexOf(x).ok
    BY <2>1, <2>5, <2>6, PlainCells DEF OrderOk, Cells, List, CanLay, ToSet
  <2>13. IndexSays(x)
    BY <2>12, AdoptedIndex
  <2>14. r.lenPlain = Len(x.plain) /\ r.root = Hash(x.plain) /\ r.chunkSize = x.cs
    BY <2>6, <2>10 DEF Describes, PlainOf
  <2>15. PICK cvs : cvs = ParseIndex(x.index, n).value
    OBVIOUS
  <2>16. /\ ParseIndex(x.index, n).ok /\ Reduces(cvs, r.lenPlain, r.chunkSize, r.root)
         /\ IndexOf(x).value = x.index
    BY <1>1, <2>11, <2>13, <2>14, <2>15 DEF IndexSays
  <2>17. Len(x.index) = n /\ n >= 2 /\ ParseIndex(x.index, n) = Ok(cvs)
    BY <2>15, <2>16 DEF ParseIndex, Ok, Failed
  <2>18. cells = x.index
    <3>1. PICK off \in Nat : off = r.indexOff
      BY <1>2 DEF RecordOk
    <3>2. n \in Nat
      BY <2>12, <2>17, ListMembers
    <3>3. /\ off + n <= t /\ \A j \in 1 .. n : f[off + j] = x.index[j]
      BY <2>2, <2>9, <2>16, <2>17, <3>1 DEF HoldsAt
    <3>4. t <= Len(f) /\ Len(f) \in Nat
      <4>1. b.h = f[1][2] /\ HeaderOk(b.h) /\ FitsFile(b.h, Len(f))
        BY ParseFacts
      <4>2. Len(f) \in Nat
        BY <1>2, ListMembers DEF Cells, List
      <4> QED
        BY <2>2, <4>1, <4>2 DEF HeaderOk, FitsFile, TableEnd
    <3>5. cells = SubSeq(f, off + 1, off + n)
      BY <1>1, <3>1 DEF Slice, IndexEnd
    <3>6. List(cells) /\ Len(cells) = n /\ \A j \in 1 .. n : cells[j] = f[off + j]
      <4>1. off + 1 \in Int /\ off + 1 >= 1 /\ off + n \in Int /\ off + n <= Len(f) /\ off + n >= off
        BY <2>3, <3>2, <3>3, <3>4
      <4>2. f \in Seq(ToSet(f))
        BY <1>2 DEF Cells
      <4>3. PICK lo, hi : lo = off + 1 /\ hi = off + n
        OBVIOUS
      <4>4. /\ List(SubSeq(f, lo, hi)) /\ Len(SubSeq(f, lo, hi)) = hi - lo + 1
            /\ \A j \in 1 .. hi - lo + 1 : SubSeq(f, lo, hi)[j] = f[lo + j - 1]
        BY <4>1, <4>2, <4>3, CutCells DEF List
      <4>5. hi - lo + 1 = n /\ \A j \in 1 .. n : lo + j - 1 = off + j
        BY <3>2, <4>3
      <4> QED
        BY <3>5, <4>3, <4>4, <4>5
    <3> QED
      BY <2>12, <2>17, <3>2, <3>3, <3>6, SameList
  <2>19. VerifyRoot(cvs, r.root, r.chunkSize)
    BY <2>16 DEF Reduces, VerifyRoot
  <2>20. ParseIndex(cells, n) = Ok(cvs)
    BY <2>17, <2>18
  <2> QED
    BY <1>6, <2>19, <2>20 DEF AndThen, Ok
<1> QED
  BY <1>1, <1>8, <1>9, <1>10

LEMMA ChallengeIsKept ==
    ASSUME Bundles
    PROVE  RewritesKeepTheChallenge
<1> SUFFICES ASSUME NEW p \in BundlePaths, NEW b \in OnDisk(p)
    PROVE  LET first == ManifestIn(made.order)
               recs(s) == {r \in ToSet(b.secs) : r.name = s.name}
               added == {r \in ToSet(b.secs) : \A s \in ToSet(made.order.specs) : s.name # r.name}
               gives(got, want) == got = want \/ (p \in torn /\ ~got.ok)
           IN /\ b.h.ro = made.ro
              /\ SubSeq(b.man.names, 1, Len(first.names)) = first.names
              /\ [b.man EXCEPT !.names = first.names] = first
              /\ \A i, j \in DOMAIN b.secs : b.secs[i].kind = b.secs[j].kind /\ i # j =>
                    b.secs[i].kind \notin AddedKinds
              /\ \A r \in added : r.kind \in AddedKinds /\ r.flags = {}
              /\ \A s \in ToSet(made.order.specs) \ {made.order.specs[1]} :
                   s.kind \notin AddedKinds =>
                   \E r \in recs(s) :
                       /\ <<r.kind, r.flags, r.comp>> = <<s.kind, s.flags, s.comp>>
                       /\ r.lenPlain = Len(s.plain) /\ r.root = Hash(s.plain)
                       /\ r.chunkSize = s.cs \/ (r.enc = "aead" /\ s.cs = 0)
                       /\ r.enc = "none" /\ "EXTERNAL" \notin r.flags
                          /\ r.kind \in KnownKinds /\ Unpackable(r) =>
                            gives(SectionBytes(disk[p], b, r), Ok(s.plain))
                       /\ s.from = "external" /\ s.index # <<>> /\ s.kind \in KnownKinds =>
                            gives(IndexFor(disk[p], b, r), ParseIndex(s.index, Len(s.index)))
  BY DEF RewritesKeepTheChallenge
<1>1. Opens(p, b)
  BY OpenedBundle
<1>2. PICK f : f = disk[p]
  OBVIOUS
<1>3. /\ b = Parse(f).value /\ Parse(f).ok /\ Written1st(made) /\ CellsOk(made, f)
      /\ p \notin torn => WholeFile(f)
  BY <1>1, <1>2 DEF Opens
<1>4. PICK first : first = ManifestIn(made.order)
  OBVIOUS
<1>5. /\ b.h.ro = made.ro
      /\ SubSeq(b.man.names, 1, Len(first.names)) = first.names
      /\ [b.man EXCEPT !.names = first.names] = first
  <2>1. SameManifest(made, b, first)
    BY <1>3, <1>4, ManifestStays
  <2> QED
    BY <2>1 DEF SameManifest
<1>6. Faithful(made, b.h.ro, b.secs)
  BY <1>3, FileIsFaithful
<1>7. \A i, j \in DOMAIN b.secs : b.secs[i].kind = b.secs[j].kind /\ i # j =>
          b.secs[i].kind \notin AddedKinds
  BY <1>6 DEF Faithful, OneOfEach
<1>8. ASSUME NEW r \in ToSet(b.secs), \A s \in ToSet(made.order.specs) : s.name # r.name
      PROVE  r.kind \in AddedKinds /\ r.flags = {}
  BY <1>3, <1>8, AddedIsAdded
<1>9. ASSUME NEW s \in ToSet(made.order.specs) \ {made.order.specs[1]}, s.kind \notin AddedKinds
      PROVE  \E r \in ToSet(b.secs) :
                /\ r.name = s.name
                /\ <<r.kind, r.flags, r.comp>> = <<s.kind, s.flags, s.comp>>
                /\ r.lenPlain = Len(s.plain) /\ r.root = Hash(s.plain)
                /\ r.chunkSize = s.cs \/ (r.enc = "aead" /\ s.cs = 0)
                /\ r.enc = "none" /\ "EXTERNAL" \notin r.flags
                   /\ r.kind \in KnownKinds /\ Unpackable(r) =>
                     \/ SectionBytes(f, b, r) = Ok(s.plain)
                     \/ p \in torn /\ ~SectionBytes(f, b, r).ok
                /\ s.from = "external" /\ s.index # <<>> /\ s.kind \in KnownKinds =>
                     \/ IndexFor(f, b, r) = ParseIndex(s.index, Len(s.index))
                     \/ p \in torn /\ ~IndexFor(f, b, r).ok
  <2>1. s \in Kept1st(made)
    <3>1. SpecFacts(made, s)
      BY <1>3, ChallengeFacts
    <3> QED
      BY <1>9, <3>1 DEF SpecFacts, Kept1st
  <2>2. PICK r \in ToSet(b.secs) : Carries(s, r)
    BY <1>6, <2>1 DEF Faithful
  <2>3. ASSUME r.enc = "none", "EXTERNAL" \notin r.flags, r.kind \in KnownKinds, Unpackable(r)
        PROVE  \/ SectionBytes(f, b, r) = Ok(s.plain)
               \/ p \in torn /\ ~SectionBytes(f, b, r).ok
    <3>1. /\ SectionBytes(f, b, r).ok => SectionBytes(f, b, r) = Ok(s.plain)
          /\ WholeFile(f) => SectionBytes(f, b, r).ok
      BY <1>3, <2>1, <2>2, <2>3, BytesStay
    <3> QED
      BY <1>3, <3>1
  <2>4. ASSUME s.from = "external", s.index # <<>>, s.kind \in KnownKinds
        PROVE  \/ IndexFor(f, b, r) = ParseIndex(s.index, Len(s.index))
               \/ p \in torn /\ ~IndexFor(f, b, r).ok
    <3>1. /\ IndexFor(f, b, r).ok => IndexFor(f, b, r) = ParseIndex(s.index, Len(s.index))
          /\ WholeFile(f) => IndexFor(f, b, r).ok
      BY <1>3, <2>1, <2>2, <2>4, IndexStays
    <3> QED
      BY <1>3, <3>1
  <2>5. /\ r.name = s.name /\ r.kind = s.kind /\ r.flags = s.flags /\ r.comp = s.comp
        /\ r.lenPlain = Len(s.plain) /\ r.root = Hash(s.plain)
        /\ r.chunkSize = s.cs \/ (r.enc = "aead" /\ s.cs = 0)
    BY <2>2 DEF Carries
  <2> QED
    BY <2>2, <2>3, <2>4, <2>5
<1> QED
  BY <1>2, <1>4, <1>5, <1>7, <1>8, <1>9

\* Whatever commands ran, in whatever order, interleaved and interrupted, a file that
\* opens holds the challenge it was first written as, with at most an entitlement and
\* envelopes added, and reads as what was written (Lifecycle.RewritesKeepTheChallenge):
\* embed_entitlement, seal_section and sign_bundle drop, rename or alter no section.
THEOREM TheChallengeIsKept == Spec => []RewritesKeepTheChallenge
<1> QED
  BY FilesKeepTheChallenge, ChallengeIsKept, PTL

(***************************************************************************)
(* What is due                                                             *)
(***************************************************************************)
NameIn(m, s) == ManifestIn(m.order).names[s.name + 1]

Declares(m, n) == \A d \in ManifestIn(m.order).sealed : d.release = "event_end" /\ n \in d.members

DueOf(m) == {s \in ToSet(m.order.specs) : "SEALED" \in s.flags /\ Declares(m, NameIn(m, s))}

\* What a report says of one.
Entry(m, s) == [name |-> NameIn(m, s), size |-> Len(s.plain), root |-> Hash(s.plain)]

ReportsAll(m, members) ==
    /\ Len(members) = Cardinality(DueOf(m))
    /\ \A s \in DueOf(m) : \E i \in DOMAIN members : members[i] = Entry(m, s)

LEMMA CountedBy ==
    ASSUME NEW T, NEW n \in Nat, NEW g \in [1 .. n -> T],
           \A i, j \in 1 .. n : g[i] = g[j] => i = j,
           \A t \in T : \E i \in 1 .. n : g[i] = t
    PROVE  Cardinality(T) = n
<1>1. g \in Bijection(1 .. n, T)
  BY DEF Bijection, Injection, IsInjective, Surjection
<1>2. ExistsBijection(1 .. n, T)
  BY <1>1 DEF ExistsBijection
<1> QED
  BY <1>2, FS_CountingElements

\* A section that is due is one no rewrite makes anew, and is the only one of its name.
LEMMA DueIsKept ==
    ASSUME NEW m, Written1st(m), NEW s \in DueOf(m)
    PROVE  s \in Kept1st(m) /\ NameIn(m, s) \in OutNames \ {"release.json"} /\ List(s.plain)
<1>1. s \in ToSet(m.order.specs) /\ "SEALED" \in s.flags
  BY DEF DueOf
<1>2. SpecFacts(m, s)
  BY <1>1, ChallengeFacts
<1>3. PICK man : man = ManifestIn(m.order)
  OBVIOUS
<1>4. s.kind \in AddedKinds => s.flags \cap {"SEALED", "EXTERNAL"} = {}
  BY <1>1 DEF Written1st, Challenge
<1>5. "SEALED" \in s.flags => man.names[s.name + 1] \in OutNames \ {"release.json"}
  BY <1>1, <1>3 DEF Written1st, Challenge
<1>6. List(s.plain)
  BY <1>1, ChallengeFacts, PlainCells
<1> QED
  BY <1>1, <1>2, <1>3, <1>4, <1>5, <1>6 DEF Kept1st, SpecFacts, NameIn

LEMMA DueNames ==
    ASSUME NEW m, Written1st(m), NEW s \in DueOf(m), NEW t \in DueOf(m), NameIn(m, s) = NameIn(m, t)
    PROVE  s = t
<1>1. PICK f, b, old, names : /\ f = LaidWith(m.order, m.ro) /\ b = Parse(f).value
                              /\ old = ManifestIn(m.order).names /\ names = b.man.names
  OBVIOUS
<1>2. CellsOk(m, f) /\ Parse(f).ok
  BY <1>1, ChallengeKeeps, LaidKeeps DEF Written1st
<1>3. NoRepeat(names)
  BY <1>1, <1>2, ManifestFacts DEF DecodeOk, CellsOk
<1>4. Longer(names, old)
  BY <1>1, <1>2, ManifestIsKept
<1>5. List(old) /\ DOMAIN old = 1 .. Len(old) /\ DOMAIN names = 1 .. Len(names) /\ Len(names) \in Nat
  BY <1>1, <1>4, ChallengeNames, ListMembers DEF Longer
<1>6. s \in ToSet(m.order.specs) /\ t \in ToSet(m.order.specs)
  BY DEF DueOf
<1>7. /\ s.name \in Nat /\ s.name + 1 \in DOMAIN old
      /\ t.name \in Nat /\ t.name + 1 \in DOMAIN old
  BY <1>1, <1>6, ChallengeFacts DEF SpecFacts
<1>8. names[s.name + 1] = names[t.name + 1]
  BY <1>1, <1>4, <1>5, <1>7 DEF Longer, NameIn
<1>9. s.name + 1 \in DOMAIN names /\ t.name + 1 \in DOMAIN names
  BY <1>4, <1>5, <1>7 DEF Longer
<1>10. s.name = t.name
  BY <1>3, <1>7, <1>8, <1>9 DEF NoRepeat
<1> QED
  BY <1>6, <1>10, ChallengeFacts

\* What may be released is what is due, each once.
LEMMA MembersAreDue ==
    ASSUME NEW m, Written1st(m), NEW f, CellsOk(m, f), Parse(f).ok,
           NEW b, b = Parse(f).value, MayRelease(b),
           NEW members, members = Members(b)
    PROVE  /\ List(members) /\ Len(members) = Cardinality(DueOf(m))
           /\ \A i \in 1 .. Len(members) : \E t \in DueOf(m) : SealedOne(m, b, members[i], t)
           /\ \A t \in DueOf(m) : \E i \in 1 .. Len(members) : SealedOne(m, b, members[i], t)
<1>1. PICK secs, S : /\ secs = b.secs
                     /\ S = {i \in DOMAIN secs : "SEALED" \in secs[i].flags /\ Releases(b, secs[i])}
  OBVIOUS
<1>2. Cells(f) /\ List(secs) /\ S \subseteq DOMAIN secs /\ members = Picked(secs, S)
  BY <1>1, SectionsList DEF CellsOk, Members
<1>3. PICK at \in Seq(S) :
         /\ \A x \in S : \E k \in 1 .. Len(at) : at[k] = x
         /\ \A i, j \in 1 .. Len(at) : i < j => at[i] < at[j]
         /\ List(members) /\ Len(members) = Len(at)
         /\ \A k \in 1 .. Len(at) : members[k] = secs[at[k]]
  BY <1>2, PickedFacts
<1>4. PICK n \in Nat : n = Len(at) /\ Len(members) = n
  BY <1>3
<1>5. \A k \in 1 .. n : at[k] \in S
  BY <1>3, <1>4
<1>6. b.man.sealed = ManifestIn(m.order).sealed
  <2>1. PICK man, names : man = ManifestIn(m.order) /\ names = b.man.names
    OBVIOUS
  <2>2. b.man = [man EXCEPT !.names = names]
    BY <2>1, ManifestIsKept
  <2>3. "sealed" \in DOMAIN man
    BY <2>1 DEF Written1st, Challenge
  <2> QED
    BY <2>1, <2>2, <2>3
<1>7. ASSUME NEW r \in ToSet(secs), NEW t, SealedOne(m, b, r, t)
      PROVE  t \in ToSet(m.order.specs) /\ (t \in DueOf(m) <=> Releases(b, r))
  <2>1. t \in ToSet(m.order.specs) /\ "SEALED" \in t.flags
    BY <1>7 DEF SealedOne, Kept1st
  <2>2. NameIn(m, t) = b.man.names[r.name + 1]
    BY <1>7 DEF SealedOne, NameIn
  <2>3. Declares(m, NameIn(m, t)) <=> Releases(b, r)
    BY <1>6, <2>2 DEF Declares, Releases, MayRelease
  <2> QED
    BY <2>1, <2>3 DEF DueOf
<1>8. ASSUME NEW i \in 1 .. n
      PROVE  \E t \in DueOf(m) : SealedOne(m, b, members[i], t)
  <2>1. PICK r : r = members[i]
    OBVIOUS
  <2>2. r \in ToSet(secs) /\ "SEALED" \in r.flags /\ Releases(b, r)
    BY <1>1, <1>3, <1>4, <1>5, <2>1 DEF ToSet
  <2>3. PICK t : SealedOne(m, b, r, t)
    BY <1>1, <2>2, SealedIsFirst
  <2> QED
    BY <1>7, <2>1, <2>2, <2>3
<1>9. ASSUME NEW t \in DueOf(m)
      PROVE  \E i \in 1 .. n : SealedOne(m, b, members[i], t)
  <2>1. t \in Kept1st(m) /\ "SEALED" \in t.flags /\ t \in ToSet(m.order.specs)
    BY DueIsKept DEF DueOf
  <2>2. PICK r \in ToSet(secs) : Carries(t, r)
    BY <1>1, <2>1, FileIsFaithful DEF Faithful
  <2>3. "SEALED" \in r.flags
    BY <2>1, <2>2 DEF Carries
  <2>4. PICK x : SealedOne(m, b, r, x)
    BY <1>1, <2>2, <2>3, SealedIsFirst
  <2>5. x = t
    <3>1. x.name = t.name /\ x \in ToSet(m.order.specs)
      BY <1>7, <2>2, <2>4 DEF SealedOne, Carries
    <3> QED
      BY <2>1, <3>1, ChallengeFacts
  <2>6. Releases(b, r)
    BY <1>7, <2>4, <2>5
  <2>7. PICK j \in DOMAIN secs : r = secs[j]
    BY DEF ToSet
  <2>8. j \in S
    BY <1>1, <2>3, <2>6, <2>7
  <2>9. PICK i \in 1 .. n : at[i] = j
    BY <1>3, <1>4, <2>8
  <2>10. members[i] = r
    BY <1>3, <1>4, <2>7, <2>9
  <2> QED
    BY <2>4, <2>5, <2>10
<1>10. PICK g : g = [i \in 1 .. n |-> CHOOSE t \in DueOf(m) : SealedOne(m, b, members[i], t)]
  OBVIOUS
<1>11. \A i \in 1 .. n : g[i] \in DueOf(m) /\ SealedOne(m, b, members[i], g[i])
  BY <1>8, <1>10
<1>12. ASSUME NEW i \in 1 .. n, NEW j \in 1 .. n, g[i] = g[j]
       PROVE  i = j
  <2>1. members[i].name = members[j].name
    BY <1>11, <1>12 DEF SealedOne, Carries
  <2>2. secs[at[i]].name = secs[at[j]].name /\ at[i] \in DOMAIN secs /\ at[j] \in DOMAIN secs
    BY <1>2, <1>3, <1>4, <1>5, <2>1
  <2>3. at[i] = at[j]
    BY <1>1, <2>2, ParseFacts DEF LayoutOk
  <2>4. DOMAIN secs = 1 .. Len(secs)
    BY <1>2, ListMembers
  <2>5. at[i] \in Int /\ at[j] \in Int
    BY <2>2, <2>4
  <2>6. ~(at[i] < at[j]) /\ ~(at[j] < at[i])
    BY <2>3, <2>5
  <2>7. ~(i < j) /\ ~(j < i)
    BY <1>3, <1>4, <2>6
  <2> QED
    BY <2>7
<1>13. ASSUME NEW t \in DueOf(m)
       PROVE  \E i \in 1 .. n : g[i] = t
  <2>1. PICK i \in 1 .. n : SealedOne(m, b, members[i], t)
    BY <1>9
  <2>2. t.name = g[i].name
    BY <1>11, <2>1 DEF SealedOne, Carries
  <2>3. t \in ToSet(m.order.specs) /\ g[i] \in ToSet(m.order.specs)
    BY <1>11 DEF DueOf
  <2> QED
    BY <2>2, <2>3, ChallengeFacts
<1>14. Cardinality(DueOf(m)) = n
  <2>1. g \in [1 .. n -> DueOf(m)]
    BY <1>10, <1>11
  <2> QED
    BY <1>12, <1>13, <2>1, CountedBy
<1> QED
  BY <1>3, <1>4, <1>8, <1>9, <1>14

(***************************************************************************)
(* What stands in the release directory, and what is still to be written   *)
(***************************************************************************)
PrefixOf(cells, plain) ==
    List(cells) /\ Len(cells) <= Len(plain) /\ \A i \in 1 .. Len(cells) : cells[i] = plain[i]

IsReport(m, cells) ==
    List(cells) /\ Len(cells) = 1 /\ ReportsAll(m, cells[1][2].members)

OutFile(m, n, cells) ==
    \/ cells = <<>>
    \/ n # "release.json" /\ \E s \in DueOf(m) : NameIn(m, s) = n /\ PrefixOf(cells, s.plain)
    \/ n = "release.json" /\ IsReport(m, cells)

OutJob(m, j) ==
    j.at = "out" =>
        \/ j.name # "release.json" /\ \E s \in DueOf(m) : NameIn(m, s) = j.name /\ j.cells = s.plain
        \/ j.name = "release.json" /\ IsReport(m, j.cells)

OutJobs(m, queue) == \A i \in 1 .. Len(queue) : OutJob(m, queue[i])

\* An asset that stands whole, unless a later command tore it.
Settled(m, o, t, s) == o[NameIn(m, s)] = s.plain \/ NameIn(m, s) \in t

AllSettled(m, o, t) == \A s \in DueOf(m) : Settled(m, o, t, s)

\* One that is still to be written before the k-th of a command's files.
Awaited(m, queue, k, s) ==
    \E i \in 1 .. Len(queue) : i < k /\ queue[i].at = "out" /\ queue[i].name = NameIn(m, s)

ReportLast(m, o, t, queue) ==
    \A k \in 1 .. Len(queue) :
        queue[k].at = "out" /\ queue[k].name = "release.json" =>
            \A s \in DueOf(m) : Settled(m, o, t, s) \/ Awaited(m, queue, k, s)

Releasing ==
    /\ \A n \in OutNames : OutFile(made, n, out[n])
    /\ out["release.json"] # <<>> => AllSettled(made, out, torn)
    /\ \A w \in Workers : OutJobs(made, jobs[w]) /\ ReportLast(made, out, torn, jobs[w])

LEMMA OverShort ==
    ASSUME NEW f, List(f), NEW old, List(old), Len(old) <= Len(f)
    PROVE  Over(f, old) = f
<1>1. PICK n \in Nat, l \in Nat : n = Len(f) /\ l = Len(old) /\ l <= n
  BY ListMembers
<1>2. PICK rest : rest = SubSeq(old, n + 1, l)
  OBVIOUS
<1>3. rest = <<>>
  <2>1. \A i \in Nat : ~(n + 1 <= i /\ i <= l)
    BY <1>1
  <2> QED
    BY <1>1, <1>2, <2>1
<1>4. PICK S : S = ToSet(f) /\ f \in Seq(S)
  BY DEF List
<1>5. f \o <<>> = f
  BY <1>4
<1> QED
  BY <1>1, <1>2, <1>3, <1>5 DEF Over

\* Two parts of one plaintext, one over the other, are a part of it.
LEMMA OverPrefix ==
    ASSUME NEW plain, List(plain), NEW f, PrefixOf(f, plain), NEW old, PrefixOf(old, plain)
    PROVE  PrefixOf(Over(f, old), plain)
<1>1. PICK n \in Nat, l \in Nat, p \in Nat : n = Len(f) /\ l = Len(old) /\ p = Len(plain)
  BY ListMembers DEF PrefixOf
<1>2. CASE l <= n
  <2>1. Over(f, old) = f
    BY <1>1, <1>2, OverShort DEF PrefixOf
  <2> QED
    BY <2>1
<1>3. CASE n < l
  <2>1. PICK rest : rest = SubSeq(old, n + 1, l)
    OBVIOUS
  <2>2. List(rest) /\ Len(rest) = l - n /\ \A i \in 1 .. l - n : rest[i] = old[n + i]
    <3>1. PICK from : from = n + 1
      OBVIOUS
    <3>2. from \in Int /\ from >= 1 /\ l <= Len(old) /\ from <= l
      BY <1>1, <1>3, <3>1
    <3>3. /\ List(SubSeq(old, from, l)) /\ Len(SubSeq(old, from, l)) = l - from + 1
          /\ \A i \in 1 .. l - from + 1 : SubSeq(old, from, l)[i] = old[from + i - 1]
      BY <3>2, CutCells DEF PrefixOf, List
    <3>4. l - from + 1 = l - n /\ \A i \in 1 .. l - n : from + i - 1 = n + i
      BY <3>1
    <3> QED
      BY <2>1, <3>1, <3>3, <3>4
  <2>3. PICK C : C = ToSet(f) \cup ToSet(rest)
    OBVIOUS
  <2>4. f \in Seq(C) /\ rest \in Seq(C)
    BY <2>2, <2>3 DEF PrefixOf, List
  <2>5. PICK all : all = f \o rest
    OBVIOUS
  <2>6. all \in Seq(C) /\ Len(all) = l
    <3>1. all \in Seq(C) /\ Len(all) = Len(f) + Len(rest)
      BY <2>4, <2>5
    <3>2. n + (l - n) = l
      OBVIOUS
    <3> QED
      BY <1>1, <2>2, <3>1, <3>2
  <2>7. List(all)
    BY <2>6, OneSequence DEF List
  <2>8. \A i \in 1 .. l : all[i] = plain[i]
    <3>1. \A i \in 1 .. n : all[i] = f[i]
      BY <1>1, <2>4, <2>5
    <3>2. \A i \in 1 .. l - n : all[n + i] = rest[i]
      BY <1>1, <2>2, <2>4, <2>5
    <3>3. \A i \in 1 .. l : i \in 1 .. n \/ (i - n \in 1 .. l - n /\ n + (i - n) = i)
      BY <1>3
    <3>4. ASSUME NEW i \in 1 .. l
          PROVE  all[i] = plain[i]
      <4>1. CASE i \in 1 .. n
        BY <1>1, <3>1, <4>1 DEF PrefixOf
      <4>2. CASE i \notin 1 .. n
        <5>1. PICK k \in 1 .. l - n : n + k = i
          BY <3>3, <4>2
        <5>2. all[i] = old[i]
          BY <2>2, <3>2, <5>1
        <5> QED
          BY <1>1, <5>2 DEF PrefixOf
      <4> QED
        BY <4>1, <4>2
    <3> QED
      BY <3>4
  <2>9. Over(f, old) = all
    BY <1>1, <2>1, <2>5 DEF Over
  <2>10. PrefixOf(all, plain)
    BY <1>1, <2>6, <2>7, <2>8 DEF PrefixOf
  <2> QED
    BY <2>9, <2>10
<1> QED
  BY <1>1, <1>2, <1>3

LEMMA CutPrefix ==
    ASSUME NEW plain, List(plain), NEW n \in Nat, n <= Len(plain)
    PROVE  PrefixOf(SubSeq(plain, 1, n), plain) /\ Len(SubSeq(plain, 1, n)) = n
<1>1. PICK t : t = SubSeq(plain, 1, n)
  OBVIOUS
<1>2. /\ List(t) /\ Len(t) = n /\ \A i \in 1 .. n : t[i] = plain[i]
  BY <1>1, CutCells DEF List
<1> QED
  BY <1>1, <1>2 DEF PrefixOf

LEMMA WholePrefix ==
    ASSUME NEW plain, List(plain)
    PROVE  PrefixOf(plain, plain) /\ PrefixOf(<<>>, plain)
<1>1. Len(plain) \in Nat
  BY ListMembers
<1>2. List(<<>>) /\ Len(<<>>) = 0
  BY DEF List
<1> QED
  BY <1>1, <1>2 DEF PrefixOf

(***************************************************************************)
(* A command that releases                                                 *)
(***************************************************************************)
LEMMA NothingIsOut ==
    ASSUME NEW m, NEW o, NEW t
    PROVE  OutJobs(m, <<>>) /\ ReportLast(m, o, t, <<>>)
BY DEF OutJobs, ReportLast

LEMMA TurnReleases ==
    ASSUME Bundles, Releasing, NEW w \in Workers, NEW writes, NEW more, Turns(w, writes, more),
           made' = made \/ Untouched,
           OutJobs(made', writes), ReportLast(made', out, torn, writes)
    PROVE  Releasing'
<1>1. /\ out' = out /\ torn' = torn
      /\ \A v \in Workers : jobs'[v] = IF v = w THEN writes ELSE jobs[v]
  BY DEF Turns
<1>2. ASSUME NEW n \in OutNames
      PROVE  OutFile(made', n, out'[n])
  <2>1. CASE made' = made
    BY <1>1, <2>1 DEF Releasing
  <2>2. CASE Untouched
    BY <1>1, <2>2 DEF Untouched, OutFile
  <2> QED
    BY <2>1, <2>2
<1>3. ASSUME out'["release.json"] # <<>>
      PROVE  AllSettled(made', out', torn')
  <2>1. made' = made
    BY <1>1, <1>3, LifecycleAssumption DEF Untouched
  <2> QED
    BY <1>1, <1>3, <2>1 DEF Releasing
<1>4. ASSUME NEW v \in Workers
      PROVE  OutJobs(made', jobs'[v]) /\ ReportLast(made', out', torn', jobs'[v])
  <2>1. jobs'[v] = IF v = w THEN writes ELSE jobs[v]
    BY <1>1
  <2>2. CASE v = w
    BY <1>1, <2>1, <2>2
  <2>3. CASE v # w /\ made' = made
    BY <1>1, <2>1, <2>3 DEF Releasing
  <2>4. CASE v # w /\ Untouched
    <3>1. jobs'[v] = <<>>
      BY <2>1, <2>4 DEF Untouched
    <3> QED
      BY <3>1, NothingIsOut
  <2> QED
    BY <2>2, <2>3, <2>4
<1> QED
  BY <1>2, <1>3, <1>4 DEF Releasing

\* The other commands write nothing there.
OnlyDisk(writes) == \A i \in 1 .. Len(writes) : writes[i].at = "disk"

LEMMA DiskIsNotOut ==
    ASSUME NEW m, NEW o, NEW t, NEW writes, OnlyDisk(writes)
    PROVE  OutJobs(m, writes) /\ ReportLast(m, o, t, writes)
BY DEF OutJobs, OutJob, ReportLast, OnlyDisk

LEMMA OneOnDisk ==
    ASSUME NEW j, j.at = "disk"
    PROVE  OnlyDisk(<<j>>)
<1>1. PICK q : q = <<j>>
  OBVIOUS
<1>2. Len(q) = 1 /\ q[1] = j
  BY <1>1
<1>3. OnlyDisk(q)
  BY <1>2 DEF OnlyDisk
<1> QED
  BY <1>1, <1>3

LEMMA RewriteReleases ==
    ASSUME Bundles, Releasing, NEW w \in Workers, NEW p, NEW cells,
           Turns(w, Rewriting(p, cells), {}), made' = made
    PROVE  Releasing'
<1>1. PICK whole : whole = (p[1] \notin torn)
  OBVIOUS
<1>2. PICK j : j = [ToDisk(p[2], cells) EXCEPT !.whole = whole]
  OBVIOUS
<1>3. j = [at |-> "disk", name |-> p[2], cells |-> cells, open |-> FALSE, whole |-> whole]
  BY <1>2 DEF ToDisk, Output
<1>4. j.at = "disk"
  BY <1>3
<1>5. Rewriting(p, cells) = <<j>>
  BY <1>1, <1>2 DEF Rewriting
<1>6. OnlyDisk(Rewriting(p, cells))
  BY <1>4, <1>5, OneOnDisk
<1> QED
  BY <1>6, DiskIsNotOut, TurnReleases

\* Nor does a command that reads on, or gives up.
LEMMA ReadingReleasesNothing ==
    ASSUME Bundles, Releasing, NEW w \in Workers,
           ReadChain(w) \/ MapBundle(w) \/ DecryptMember(w) \/ GiveUp(w)
    PROVE  Releasing'
<1>1. ASSUME NEW more, Turns(w, <<>>, more), made' = made
      PROVE  Releasing'
  BY <1>1, NothingIsOut, TurnReleases
<1>2. CASE ReadChain(w)
  <2>1. PICK command : Begin(w, command)
    BY <1>2 DEF ReadChain
  <2> QED
    BY <1>1, <2>1, BeginTurns
<1>3. CASE MapBundle(w)
  <2>1. PICK command : Begin(w, command)
    BY <1>3 DEF MapBundle
  <2> QED
    BY <1>1, <2>1, BeginTurns
<1>4. CASE DecryptMember(w)
  <2>1. UNCHANGED <<made, out, jobs, torn>>
    BY <1>4 DEF DecryptMember
  <2> QED
    BY <2>1 DEF Releasing
<1>5. CASE GiveUp(w)
  BY <1>1, <1>5, FinishTurns DEF GiveUp
<1> QED
  BY <1>2, <1>3, <1>4, <1>5

LEMMA OthersReleaseNothing ==
    ASSUME Bundles, Releasing, NEW w \in Workers,
           PackDoc(w) \/ TransferBundle(w) \/ SealSection(w) \/ SignBundle(w) \/ UnsealSection(w)
    PROVE  Releasing'
<1>1. CASE PackDoc(w)
  <2>1. PICK d \in draft : \E packed \in Value(Pack(d, Suite)) :
          Run(w, <<ToDisk("a", packed), ToDisk("descriptor", <<<<"desc", ManifestFor(d)>>>>)>>)
    BY <1>1 DEF PackDoc
  <2>2. PICK packed : Run(w, <<ToDisk("a", packed), ToDisk("descriptor", <<<<"desc", ManifestFor(d)>>>>)>>)
    BY <2>1
  <2>3. PICK first, second, writes :
          /\ first = ToDisk("a", packed)
          /\ second = ToDisk("descriptor", <<<<"desc", ManifestFor(d)>>>>)
          /\ writes = <<first, second>>
    OBVIOUS
  <2>4. first.at = "disk" /\ second.at = "disk"
    BY <2>3 DEF ToDisk, Output
  <2>5. Len(writes) = 2 /\ writes[1] = first /\ writes[2] = second
    BY <2>3
  <2>6. OnlyDisk(writes)
    BY <2>4, <2>5 DEF OnlyDisk
  <2>7. Untouched
    BY <1>1, MadeIsMore DEF PackDoc, Bundles
  <2>8. Run(w, writes)
    BY <2>2, <2>3
  <2> QED
    BY <2>6, <2>7, <2>8, DiskIsNotOut, RunTurns, TurnReleases
<1>2. CASE TransferBundle(w)
  <2>1. PICK p, cells : Finish(w, Rewriting(p, cells))
    BY <1>2 DEF TransferBundle
  <2> QED
    BY <2>1, FinishTurns, RewriteReleases
<1>3. CASE SealSection(w)
  <2>1. PICK s \in ToSet(made.order.specs), to \in Recipients :
          /\ \E p \in Rewrites : \E b \in OnDisk(p[1]) :
               \E result \in Value(Seal(disk[p[1]], b, ManifestIn(made.order).names[s.name + 1], to)) :
                   Run(w, Rewriting(p, result))
          /\ made' = made
    BY <1>3 DEF SealSection, Rewrite
  <2>2. PICK p, cells : Run(w, Rewriting(p, cells))
    BY <2>1
  <2> QED
    BY <2>1, <2>2, RunTurns, RewriteReleases
<1>4. CASE SignBundle(w)
  <2>1. PICK p \in Rewrites : \E b \in OnDisk(p[1]) :
           \E result \in Value(Sign(disk[p[1]], b)) : Run(w, Rewriting(p, result))
    BY <1>4 DEF SignBundle, Rewrite
  <2>2. PICK p0, cells : Run(w, Rewriting(p0, cells))
    BY <2>1
  <2>3. made' = made
    BY <1>4 DEF SignBundle
  <2> QED
    BY <2>2, <2>3, RunTurns, RewriteReleases
<1>5. CASE UnsealSection(w)
  <2>1. PICK plain : Run(w, <<ToDisk("plain", plain)>>)
    BY <1>5 DEF UnsealSection
  <2>2. PICK j : j = ToDisk("plain", plain)
    OBVIOUS
  <2>3. j.at = "disk"
    BY <2>2 DEF ToDisk, Output
  <2>4. OnlyDisk(<<j>>) /\ Run(w, <<j>>)
    BY <2>1, <2>2, <2>3, OneOnDisk
  <2>5. made' = made
    BY <1>5 DEF UnsealSection
  <2> QED
    BY <2>4, <2>5, DiskIsNotOut, RunTurns, TurnReleases
<1> QED
  BY <1>1, <1>2, <1>3, <1>4, <1>5

\* An asset holds what the section was sealed with.
LEMMA AssetIsDue ==
    ASSUME NEW m, Written1st(m), NEW b, NEW r, NEW t \in DueOf(m), SealedOne(m, b, r, t),
           NEW asset, AssetFor(b, r, asset)
    PROVE  /\ asset.at = "out" /\ asset.name = NameIn(m, t) /\ asset.name # "release.json"
           /\ OutJob(m, asset)
<1>1. PICK n : n = b.man.names[r.name + 1]
  OBVIOUS
<1>2. PICK plain : List(plain) /\ Hash(plain) = r.root /\ asset = ToOut(n, plain)
  BY <1>1 DEF AssetFor
<1>3. NameIn(m, t) \in OutNames \ {"release.json"} /\ List(t.plain)
  BY DueIsKept
<1>4. n = NameIn(m, t) /\ r.root = Hash(t.plain)
  BY <1>1 DEF SealedOne, Carries, NameIn
<1>5. plain = t.plain
  BY <1>2, <1>3, <1>4, HashTellsCells
<1>6. asset.at = "out" /\ asset.name = n /\ asset.cells = plain
  BY <1>2 DEF ToOut, Output
<1>7. OutJob(m, asset)
  BY <1>3, <1>4, <1>5, <1>6 DEF OutJob
<1> QED
  BY <1>3, <1>4, <1>6, <1>7

\* The report names all that are due.
LEMMA ReportNamesAll ==
    ASSUME NEW m, NEW b, NEW members, List(members), Len(members) = Cardinality(DueOf(m)),
           \A t \in DueOf(m) : \E i \in 1 .. Len(members) : SealedOne(m, b, members[i], t),
           NEW cells, cells = <<<<"report", ReportOn(b, members)>>>>
    PROVE  IsReport(m, cells)
<1>1. PICK n \in Nat : n = Len(members) /\ DOMAIN members = 1 .. n
  BY ListMembers
<1>2. PICK entries, report, c :
        /\ entries = [i \in 1 .. n |-> [name |-> b.man.names[members[i].name + 1],
                                        size |-> members[i].lenPlain, root |-> members[i].root]]
        /\ report = ReportOn(b, members) /\ c = <<"report", report>>
  OBVIOUS
<1>3. report.members = entries
  BY <1>1, <1>2 DEF ReportOn
<1>4. cells = <<c>> /\ c[2] = report
  BY <1>2
<1>5. List(cells) /\ Len(cells) = 1 /\ cells[1] = c
  <2>1. cells \in Seq({c}) /\ Len(cells) = 1 /\ cells[1] = c
    BY <1>4
  <2> QED
    BY <2>1, OneSequence DEF List
<1>6. Len(entries) = n /\ DOMAIN entries = 1 .. n
  BY <1>2
<1>7. ASSUME NEW t \in DueOf(m)
      PROVE  \E i \in DOMAIN entries : entries[i] = Entry(m, t)
  <2>1. PICK i \in 1 .. n : SealedOne(m, b, members[i], t)
    BY <1>1
  <2>2. entries[i] = [name |-> b.man.names[members[i].name + 1],
                      size |-> members[i].lenPlain, root |-> members[i].root]
    BY <1>2
  <2>3. b.man.names[members[i].name + 1] = NameIn(m, t)
    BY <2>1 DEF SealedOne, NameIn
  <2>4. members[i].lenPlain = Len(t.plain) /\ members[i].root = Hash(t.plain)
    BY <2>1 DEF SealedOne, Carries
  <2>5. entries[i] = Entry(m, t)
    BY <2>2, <2>3, <2>4 DEF Entry
  <2> QED
    BY <1>6, <2>5
<1>8. ReportsAll(m, entries)
  BY <1>1, <1>6, <1>7 DEF ReportsAll
<1> QED
  BY <1>3, <1>4, <1>5, <1>8 DEF IsReport

LEMMA ReleaseReleases ==
    ASSUME Bundles, Releasing, NEW w \in Workers, ReleaseBundle(w)
    PROVE  Releasing'
<1>1. PICK t, b, members, assets, report, writes :
         Released(w, t, b, members, assets, report, writes)
  BY ReleaseMakes
<1>2. PICK f : CellsOk(made, f) /\ Parse(f).ok /\ b = Parse(f).value
  BY <1>1 DEF Released, MappedOk
<1>3. Written1st(made) /\ MayRelease(b) /\ members = Members(b)
  BY <1>1 DEF Released, MappedOk
<1>4. /\ List(members) /\ Len(members) = Cardinality(DueOf(made))
      /\ \A i \in 1 .. Len(members) : \E s \in DueOf(made) : SealedOne(made, b, members[i], s)
      /\ \A s \in DueOf(made) : \E i \in 1 .. Len(members) : SealedOne(made, b, members[i], s)
  BY <1>2, <1>3, MembersAreDue
<1>5. PICK n \in Nat : n = Len(members)
  BY <1>4, ListMembers
<1>6. ASSUME NEW i \in 1 .. n, NEW s \in DueOf(made), SealedOne(made, b, members[i], s)
      PROVE  /\ assets[i].at = "out" /\ assets[i].name = NameIn(made, s) /\ assets[i].name # "release.json"
             /\ OutJob(made, assets[i])
  <2>1. AssetFor(b, members[i], assets[i])
    BY <1>1, <1>5 DEF Released
  <2> QED
    BY <1>3, <1>6, <2>1, AssetIsDue
<1>7. PICK cells : cells = <<<<"report", ReportOn(b, members)>>>>
  OBVIOUS
<1>8. IsReport(made, cells)
  BY <1>4, <1>7, ReportNamesAll
<1>9. report.at = "out" /\ report.name = "release.json" /\ report.cells = cells
  <2>1. report = ToOut("release.json", cells)
    BY <1>1, <1>7 DEF Released
  <2> QED
    BY <2>1 DEF ToOut, Output
<1>10. OutJob(made, report)
  BY <1>8, <1>9 DEF OutJob
<1>11. /\ Len(writes) = n + 1 /\ writes[n + 1] = report
       /\ \A i \in 1 .. n : writes[i] = assets[i]
  BY <1>1, <1>5 DEF Released
<1>12. \A k \in 1 .. n + 1 : k \in 1 .. n \/ k = n + 1
  BY <1>5
<1>13. ASSUME NEW i \in 1 .. n
       PROVE  OutJob(made, writes[i]) /\ writes[i].name # "release.json"
  <2>1. PICK s \in DueOf(made) : SealedOne(made, b, members[i], s)
    BY <1>4, <1>5
  <2> QED
    BY <1>6, <1>11, <2>1
<1>14. OutJobs(made, writes)
  BY <1>10, <1>11, <1>12, <1>13 DEF OutJobs
<1>15. ReportLast(made, out, torn, writes)
  <2>1. ASSUME NEW k \in 1 .. Len(writes), writes[k].name = "release.json", NEW s \in DueOf(made)
        PROVE  Awaited(made, writes, k, s)
    <3>1. k = n + 1
      BY <1>11, <1>12, <1>13, <2>1
    <3>2. PICK i \in 1 .. n : SealedOne(made, b, members[i], s)
      BY <1>4, <1>5
    <3>3. writes[i].at = "out" /\ writes[i].name = NameIn(made, s)
      BY <1>6, <1>11, <3>2
    <3>4. i \in 1 .. Len(writes) /\ i < k
      BY <1>11, <3>1
    <3> QED
      BY <3>3, <3>4 DEF Awaited
  <2> QED
    BY <2>1 DEF ReportLast
<1>16. Turns(w, writes, {}) /\ made' = made
  BY <1>1 DEF Released
<1> QED
  BY <1>14, <1>15, <1>16, TurnReleases

(***************************************************************************)
(* One file of a release after another                                     *)
(***************************************************************************)
LEMMA LastStays ==
    ASSUME NEW m, NEW o, NEW t, NEW o2, NEW t2, NEW queue, ReportLast(m, o, t, queue),
           \A s \in DueOf(m) : Settled(m, o, t, s) => Settled(m, o2, t2, s)
    PROVE  ReportLast(m, o2, t2, queue)
BY DEF ReportLast

\* What is written to a file touches the section of that name alone.
LEMMA PutSettles ==
    ASSUME Bundles, NEW w \in Workers, NEW j, NextWrite(w, j), NEW cells, Put(j, cells),
           torn' \ {j.name} = torn \ {j.name},
           NEW s \in DueOf(made), Settled(made, out, torn, s),
           j.at = "out" /\ NameIn(made, s) = j.name => cells = s.plain \/ j.name \in torn'
    PROVE  Settled(made, out', torn', s)
<1>1. PICK n : n = NameIn(made, s)
  OBVIOUS
<1>2. n \in OutNames /\ (out[n] = s.plain \/ n \in torn)
  <2>1. Written1st(made)
    BY DEF NextWrite
  <2>2. n \in OutNames
    BY <1>1, <2>1, DueIsKept
  <2>3. out[n] = s.plain \/ n \in torn
    BY <1>1 DEF Settled
  <2> QED
    BY <2>2, <2>3
<1>3. CASE j.at = "out" /\ j.name = n
  <2>1. out'[n] = cells
    BY <1>2, <1>3 DEF Put, Bundles, Domains
  <2> QED
    BY <1>1, <1>3, <2>1 DEF Settled
<1>4. CASE j.at = "out" /\ j.name # n
  <2>1. out'[n] = out[n]
    BY <1>2, <1>4 DEF Put, Bundles, Domains
  <2>2. n \in torn' <=> n \in torn
    BY <1>4
  <2> QED
    BY <1>1, <1>2, <2>1, <2>2 DEF Settled
<1>5. CASE j.at # "out"
  <2>1. j.at = "disk" /\ j.name \in DiskNames
    BY <1>5 DEF NextWrite, JobOk
  <2>2. out' = out /\ j.name # n
    BY <1>2, <2>1, LifecycleAssumption DEF Put
  <2>3. n \in torn' <=> n \in torn
    BY <2>2
  <2> QED
    BY <1>1, <1>2, <2>2, <2>3 DEF Settled
<1> QED
  BY <1>3, <1>4, <1>5

LEMMA PutReleases ==
    ASSUME Bundles, Releasing, NEW w \in Workers, NEW j, NextWrite(w, j), NEW cells, Put(j, cells),
           made' = made, torn' \ {j.name} = torn \ {j.name},
           j.at = "out" => OutFile(made, j.name, cells),
           j.at = "out" /\ j.name = "release.json" /\ cells # <<>> => AllSettled(made, out, torn),
           \A s \in DueOf(made) : Settled(made, out, torn, s) => Settled(made, out', torn', s),
           NEW queue, jobs' = [jobs EXCEPT ![w] = queue],
           OutJobs(made, queue), ReportLast(made, out', torn', queue)
    PROVE  Releasing'
<1>1. j.at = "out" \/ (j.at = "disk" /\ out' = out)
  BY DEF NextWrite, JobOk, Put
<1>2. \A n \in OutNames : out'[n] = IF j.at = "out" /\ n = j.name THEN cells ELSE out[n]
  BY <1>1 DEF Put, Bundles, Domains
<1>3. ASSUME NEW n \in OutNames
      PROVE  OutFile(made', n, out'[n])
  <2>1. OutFile(made, n, out[n])
    BY DEF Releasing
  <2>2. CASE j.at = "out" /\ n = j.name
    BY <1>2, <2>2
  <2>3. CASE ~(j.at = "out" /\ n = j.name)
    <3>1. out'[n] = out[n]
      BY <1>2, <2>3
    <3> QED
      BY <2>1, <3>1
  <2> QED
    BY <2>2, <2>3
<1>4. ASSUME out'["release.json"] # <<>>
      PROVE  AllSettled(made', out', torn')
  <2>1. AllSettled(made, out, torn)
    <3>1. CASE j.at = "out" /\ j.name = "release.json"
      BY <1>2, <1>4, <3>1, LifecycleAssumption
    <3>2. CASE ~(j.at = "out" /\ j.name = "release.json")
      <4>1. out'["release.json"] = out["release.json"]
        BY <1>2, <3>2, LifecycleAssumption
      <4> QED
        BY <1>4, <4>1 DEF Releasing
    <3> QED
      BY <3>1, <3>2
  <2> QED
    BY <2>1 DEF AllSettled
<1>5. ASSUME NEW v \in Workers
      PROVE  OutJobs(made', jobs'[v]) /\ ReportLast(made', out', torn', jobs'[v])
  <2>1. jobs'[v] = IF v = w THEN queue ELSE jobs[v]
    BY DEF Bundles, Domains
  <2>2. OutJobs(made, jobs[v]) /\ ReportLast(made, out, torn, jobs[v])
    BY DEF Releasing
  <2>3. ReportLast(made, out', torn', jobs[v])
    BY <2>2, LastStays
  <2> QED
    BY <2>1, <2>2, <2>3
<1> QED
  BY <1>3, <1>4, <1>5 DEF Releasing

\* The file a release writes next.
LEMMA NextOut ==
    ASSUME Bundles, Releasing, NEW w \in Workers, NEW j, NextWrite(w, j)
    PROVE  /\ OutJob(made, j) /\ OutJobs(made, jobs[w]) /\ ReportLast(made, out, torn, jobs[w])
           /\ j.at = "out" => j.name \in OutNames /\ Found(j) = out[j.name] /\ OutFile(made, j.name, Found(j))
           /\ j.at = "out" /\ j.name = "release.json" => AllSettled(made, out, torn)
<1>1. PICK queue : queue = jobs[w]
  OBVIOUS
<1>2. j = queue[1] /\ 1 \in 1 .. Len(queue) /\ JobOk(made, j)
  BY <1>1 DEF NextWrite
<1>3. OutJobs(made, queue) /\ ReportLast(made, out, torn, queue)
  BY <1>1 DEF Releasing
<1>4. OutJob(made, j)
  BY <1>2, <1>3 DEF OutJobs
<1>5. ASSUME j.at = "out"
      PROVE  j.name \in OutNames /\ Found(j) = out[j.name] /\ OutFile(made, j.name, Found(j))
  <2>1. j.name \in OutNames /\ Found(j) = out[j.name]
    BY <1>2, <1>5 DEF JobOk, Found
  <2> QED
    BY <2>1 DEF Releasing
<1>6. ASSUME j.at = "out", j.name = "release.json", NEW s \in DueOf(made)
      PROVE  Settled(made, out, torn, s)
  <2>1. Settled(made, out, torn, s) \/ Awaited(made, queue, 1, s)
    BY <1>2, <1>3, <1>6 DEF ReportLast
  <2>2. ~Awaited(made, queue, 1, s)
    BY <1>2 DEF Awaited
  <2> QED
    BY <2>1, <2>2
<1> QED
  BY <1>1, <1>3, <1>4, <1>5, <1>6 DEF AllSettled

\* A part of what is to be written, over what another release left, is such a part too.
LEMMA OverFile ==
    ASSUME NEW m, Written1st(m), NEW j, j.at = "out", OutJob(m, j),
           NEW part, PrefixOf(part, j.cells), part # <<>> \/ j.cells = <<>>,
           NEW old, OutFile(m, j.name, old)
    PROVE  OutFile(m, j.name, Over(part, old))
<1>1. CASE j.name # "release.json"
  <2>1. PICK s \in DueOf(m) : NameIn(m, s) = j.name /\ j.cells = s.plain
    BY <1>1 DEF OutJob
  <2>2. List(s.plain)
    BY DueIsKept
  <2>3. PrefixOf(old, s.plain)
    <3>1. CASE old = <<>>
      BY <2>2, <3>1, WholePrefix
    <3>2. CASE old # <<>>
      <4>1. PICK t \in DueOf(m) : NameIn(m, t) = j.name /\ PrefixOf(old, t.plain)
        BY <1>1, <3>2 DEF OutFile
      <4>2. t = s
        BY <2>1, <4>1, DueNames
      <4> QED
        BY <4>1, <4>2
    <3> QED
      BY <3>1, <3>2
  <2>4. PrefixOf(Over(part, old), s.plain)
    BY <2>1, <2>2, <2>3, OverPrefix
  <2> QED
    BY <1>1, <2>1, <2>4 DEF OutFile
<1>2. CASE j.name = "release.json"
  <2>1. IsReport(m, j.cells)
    BY <1>2 DEF OutJob
  <2>2. List(part) /\ Len(part) = 1 /\ part[1] = j.cells[1]
    <3>1. List(part) /\ Len(part) <= 1 /\ \A i \in 1 .. Len(part) : part[i] = j.cells[i]
      BY <2>1 DEF PrefixOf, IsReport
    <3>2. j.cells # <<>>
      BY <2>1 DEF IsReport
    <3>3. Len(part) \in Nat /\ Len(part) # 0
      <4>1. part \in Seq(ToSet(part))
        BY <3>1 DEF List
      <4> QED
        BY <3>2, <4>1
    <3>4. Len(part) = 1
      <4>1. PICK n \in Nat : n = Len(part)
        BY <3>3
      <4>2. n <= 1 /\ n # 0
        BY <3>1, <3>3, <4>1
      <4>3. n = 1
        BY <4>2
      <4> QED
        BY <4>1, <4>3
    <3> QED
      BY <3>1, <3>4
  <2>3. IsReport(m, part)
    BY <2>1, <2>2 DEF IsReport
  <2>4. List(old) /\ Len(old) <= 1
    <3>1. CASE old = <<>>
      BY <3>1 DEF List
    <3>2. CASE old # <<>>
      <4>1. IsReport(m, old)
        BY <1>2, <3>2 DEF OutFile
      <4>2. List(old) /\ Len(old) = 1
        BY <4>1 DEF IsReport
      <4>3. 1 <= 1
        OBVIOUS
      <4> QED
        BY <4>2, <4>3
    <3> QED
      BY <3>1, <3>2
  <2>5. Over(part, old) = part
    BY <2>2, <2>4, OverShort
  <2> QED
    BY <1>2, <2>3, <2>5 DEF OutFile
<1> QED
  BY <1>1, <1>2

\* One that gets to its end is whole, whatever another release left.
LEMMA OverWhole ==
    ASSUME NEW m, Written1st(m), NEW j, j.at = "out", OutJob(m, j),
           NEW old, OutFile(m, j.name, old), NEW s \in DueOf(m), NameIn(m, s) = j.name
    PROVE  Over(j.cells, old) = s.plain
<1>1. List(s.plain) /\ j.name # "release.json"
  BY DueIsKept
<1>2. PICK t \in DueOf(m) : NameIn(m, t) = j.name /\ j.cells = t.plain
  BY <1>1 DEF OutJob
<1>3. t = s
  BY <1>2, DueNames
<1>4. PrefixOf(old, s.plain)
  <2>1. CASE old = <<>>
    BY <1>1, <2>1, WholePrefix
  <2>2. CASE old # <<>>
    <3>1. PICK u \in DueOf(m) : NameIn(m, u) = j.name /\ PrefixOf(old, u.plain)
      BY <1>1, <2>2 DEF OutFile
    <3>2. u = s
      BY <3>1, DueNames
    <3> QED
      BY <3>1, <3>2
  <2> QED
    BY <2>1, <2>2
<1>5. List(old) /\ Len(old) <= Len(s.plain)
  BY <1>4 DEF PrefixOf
<1> QED
  BY <1>1, <1>2, <1>3, <1>5, OverShort

LEMMA TruncateReleases ==
    ASSUME Bundles, Releasing, NEW w \in Workers, Truncate(w)
    PROVE  Releasing'
<1>1. PICK j : NextWrite(w, j)
  BY NextIs DEF Truncate
<1>2. PICK queue, opened, open : /\ queue = jobs[w] /\ opened = [jobs[w] EXCEPT ![1] = open]
                                 /\ open = [j EXCEPT !.open = TRUE]
  OBVIOUS
<1>3. /\ j = queue[1] /\ List(queue) /\ 1 \in 1 .. Len(queue) /\ JobOk(made, j)
  BY <1>1, <1>2 DEF NextWrite
<1>4. PICK n \in Nat : n = Len(queue) /\ DOMAIN queue = 1 .. n
  BY <1>3, ListMembers
<1>5. open.at = j.at /\ open.name = j.name /\ open.cells = j.cells
  <2>1. /\ j = [at |-> j.at, name |-> j.name, cells |-> j.cells, open |-> j.open, whole |-> j.whole]
    BY <1>3 DEF JobOk
  <2>2. open = [at |-> j.at, name |-> j.name, cells |-> j.cells, open |-> TRUE, whole |-> j.whole]
    BY <1>2, <2>1
  <2> QED
    BY <2>2
<1>6. Len(opened) = n /\ \A i \in 1 .. n : opened[i] = IF i = 1 THEN open ELSE queue[i]
  <2>1. opened = [i \in 1 .. n |-> IF i = 1 THEN open ELSE queue[i]]
    BY <1>2, <1>4
  <2> QED
    BY <2>1, MadeList
<1>7. \A i \in 1 .. n : /\ opened[i].at = queue[i].at /\ opened[i].name = queue[i].name
                        /\ opened[i].cells = queue[i].cells
  BY <1>3, <1>5, <1>6
<1>8. jobs' = [jobs EXCEPT ![w] = opened]
  <2>1. jobs' = [jobs EXCEPT ![w][1].open = TRUE]
    BY DEF Truncate
  <2> QED
    BY <1>2, <1>3, <2>1
<1>9. Put(j, <<>>) /\ torn' = torn \cup {j.name} /\ made' = made
  BY <1>1 DEF Truncate, NextWrite
<1>10. torn' \ {j.name} = torn \ {j.name} /\ j.name \in torn'
  BY <1>9
<1>11. OutJobs(made, queue) /\ ReportLast(made, out, torn, queue)
  BY <1>2 DEF Releasing
<1>12. \A s \in DueOf(made) : Settled(made, out, torn, s) => Settled(made, out', torn', s)
  BY <1>1, <1>9, <1>10, PutSettles
<1>13. ReportLast(made, out', torn', queue)
  BY <1>11, <1>12, LastStays
<1>14. OutJobs(made, opened)
  BY <1>4, <1>6, <1>7, <1>11 DEF OutJobs, OutJob
<1>15. ReportLast(made, out', torn', opened)
  <2>1. ASSUME NEW k \in 1 .. n, opened[k].at = "out", opened[k].name = "release.json",
               NEW s \in DueOf(made)
        PROVE  Settled(made, out', torn', s) \/ Awaited(made, opened, k, s)
    <3>1. Settled(made, out', torn', s) \/ Awaited(made, queue, k, s)
      BY <1>4, <1>7, <1>13, <2>1 DEF ReportLast
    <3>2. Awaited(made, queue, k, s) => Awaited(made, opened, k, s)
      BY <1>4, <1>6, <1>7 DEF Awaited
    <3> QED
      BY <3>1, <3>2
  <2> QED
    BY <1>6, <2>1 DEF ReportLast
<1>16. OutFile(made, j.name, <<>>)
  BY DEF OutFile
<1> QED
  BY <1>1, <1>8, <1>9, <1>10, <1>12, <1>14, <1>15, <1>16, PutReleases

LEMMA WriteReleases ==
    ASSUME Bundles, Releasing, NEW w \in Workers, WriteNext(w)
    PROVE  Releasing'
<1>1. PICK j : NextWrite(w, j)
  BY NextIs DEF WriteNext
<1>2. PICK queue, rest, cells : queue = jobs[w] /\ rest = Tail(jobs[w]) /\ cells = Over(j.cells, Found(j))
  OBVIOUS
<1>3. j = queue[1] /\ List(queue) /\ 1 \in 1 .. Len(queue) /\ Written1st(made)
  BY <1>1, <1>2 DEF NextWrite
<1>4. PICK n \in Nat : n = Len(queue) /\ n # 0
  BY <1>3, ListMembers
<1>5. Len(rest) = n - 1 /\ \A i \in 1 .. n - 1 : rest[i] = queue[i + 1]
  <2>1. queue # <<>>
    BY <1>4
  <2>2. PICK C : C = ToSet(queue)
    OBVIOUS
  <2> QED
    BY <1>2, <1>3, <1>4, <2>1, <2>2, RestOf DEF List
<1>6. /\ jobs' = [jobs EXCEPT ![w] = rest] /\ made' = made /\ Put(j, cells)
      /\ torn' = IF Found(j) = <<>> /\ j.whole THEN torn \ {j.name} ELSE torn \cup {j.name}
  BY <1>1, <1>2 DEF WriteNext, NextWrite
<1>7. torn' \ {j.name} = torn \ {j.name}
  BY <1>6
<1>8. /\ OutJob(made, j) /\ OutJobs(made, queue) /\ ReportLast(made, out, torn, queue)
      /\ j.at = "out" => j.name \in OutNames /\ Found(j) = out[j.name] /\ OutFile(made, j.name, Found(j))
      /\ j.at = "out" /\ j.name = "release.json" => AllSettled(made, out, torn)
  BY <1>1, <1>2, NextOut
<1>9. ASSUME j.at = "out"
      PROVE  OutFile(made, j.name, cells)
  <2>1. List(j.cells)
    <3>1. CASE j.name = "release.json"
      BY <1>8, <1>9, <3>1 DEF OutJob, IsReport
    <3>2. CASE j.name # "release.json"
      <4>1. PICK s \in DueOf(made) : j.cells = s.plain
        BY <1>8, <1>9, <3>2 DEF OutJob
      <4> QED
        BY <1>3, <4>1, DueIsKept
    <3> QED
      BY <3>1, <3>2
  <2>2. PrefixOf(j.cells, j.cells)
    BY <2>1, WholePrefix
  <2> QED
    BY <1>2, <1>3, <1>8, <1>9, <2>2, OverFile
<1>10. ASSUME j.at = "out", NEW s \in DueOf(made), NameIn(made, s) = j.name
       PROVE  cells = s.plain
  BY <1>2, <1>3, <1>8, <1>10, OverWhole
<1>11. \A s \in DueOf(made) : Settled(made, out, torn, s) => Settled(made, out', torn', s)
  BY <1>1, <1>6, <1>7, <1>10, PutSettles
<1>12. ReportLast(made, out', torn', queue)
  BY <1>8, <1>11, LastStays
<1>13. \A i \in 1 .. n - 1 : i + 1 \in 1 .. n
  OBVIOUS
<1>14. OutJobs(made, rest)
  BY <1>4, <1>5, <1>8, <1>13 DEF OutJobs
<1>15. ASSUME NEW s \in DueOf(made), j.at = "out", j.name = NameIn(made, s)
       PROVE  Settled(made, out', torn', s)
  <2>1. cells = s.plain
    BY <1>10, <1>15
  <2>2. out'[j.name] = cells
    BY <1>6, <1>8, <1>15 DEF Put, Bundles, Domains
  <2> QED
    BY <1>15, <2>1, <2>2 DEF Settled
<1>16. ReportLast(made, out', torn', rest)
  <2>1. ASSUME NEW k \in 1 .. n - 1, rest[k].at = "out", rest[k].name = "release.json",
               NEW s \in DueOf(made)
        PROVE  Settled(made, out', torn', s) \/ Awaited(made, rest, k, s)
    <3>1. Settled(made, out', torn', s) \/ Awaited(made, queue, k + 1, s)
      BY <1>4, <1>5, <1>12, <1>13, <2>1 DEF ReportLast
    <3>2. ASSUME Awaited(made, queue, k + 1, s)
          PROVE  Settled(made, out', torn', s) \/ Awaited(made, rest, k, s)
      <4>1. PICK i \in 1 .. n : i < k + 1 /\ queue[i].at = "out" /\ queue[i].name = NameIn(made, s)
        BY <1>4, <3>2 DEF Awaited
      <4>2. CASE i = 1
        BY <1>3, <1>15, <4>1, <4>2
      <4>3. CASE i # 1
        <5>1. PICK h \in 1 .. n - 1 : h = i - 1 /\ h + 1 = i /\ h < k
          BY <4>1, <4>3
        <5>2. rest[h] = queue[i]
          BY <1>5, <5>1
        <5> QED
          BY <1>5, <4>1, <5>1, <5>2 DEF Awaited
      <4> QED
        BY <4>2, <4>3
    <3> QED
      BY <3>1, <3>2
  <2> QED
    BY <1>5, <2>1 DEF ReportLast
<1> QED
  BY <1>1, <1>6, <1>7, <1>8, <1>9, <1>11, <1>14, <1>16, PutReleases

LEMMA CrashReleases ==
    ASSUME Bundles, Releasing, NEW w \in Workers, Crash(w)
    PROVE  Releasing'
<1>1. PICK j : NextWrite(w, j)
  BY NextIs DEF Crash
<1>2. PICK n \in {0} \cup (IF jobs[w][1].open
                         THEN {Len(jobs[w][1].cells) - k : k \in Cuts} \cap Nat ELSE {}) :
          /\ Put(jobs[w][1], Over(SubSeq(jobs[w][1].cells, 1, n), Found(jobs[w][1])))
          /\ torn' = IF n = 0 THEN torn ELSE torn \cup {jobs[w][1].name}
  BY DEF Crash
<1>3. j = jobs[w][1] /\ Written1st(made)
  BY <1>1 DEF NextWrite
<1>4. PICK cells : cells = Over(SubSeq(j.cells, 1, n), Found(j))
  OBVIOUS
<1>5. /\ Put(j, cells) /\ torn' = IF n = 0 THEN torn ELSE torn \cup {j.name}
  BY <1>2, <1>3, <1>4
<1>6. n \in Nat /\ (n = 0 \/ \E k \in Cuts : n = Len(j.cells) - k)
  BY <1>3
<1>7. jobs' = [jobs EXCEPT ![w] = <<>>] /\ made' = made
  BY DEF Crash
<1>8. torn' \ {j.name} = torn \ {j.name} /\ (n = 0 \/ j.name \in torn')
  BY <1>5
<1>9. /\ OutJob(made, j)
      /\ j.at = "out" => j.name \in OutNames /\ Found(j) = out[j.name] /\ OutFile(made, j.name, Found(j))
      /\ j.at = "out" /\ j.name = "release.json" => AllSettled(made, out, torn)
  BY <1>1, NextOut
<1>10. ASSUME j.at = "out"
       PROVE  List(j.cells) /\ List(Found(j))
  <2>1. CASE j.name = "release.json"
    <3>1. List(<<>>)
      BY DEF List
    <3> QED
      BY <1>9, <1>10, <2>1, <3>1 DEF OutJob, OutFile, IsReport
  <2>2. CASE j.name # "release.json"
    <3>1. PICK s \in DueOf(made) : j.cells = s.plain
      BY <1>9, <1>10, <2>2 DEF OutJob
    <3>2. List(j.cells)
      BY <1>3, <3>1, DueIsKept
    <3>3. List(<<>>)
      BY DEF List
    <3>4. List(Found(j))
      BY <1>9, <1>10, <2>2, <3>3 DEF OutFile, PrefixOf
    <3> QED
      BY <3>2, <3>4
  <2> QED
    BY <2>1, <2>2
<1>11. ASSUME j.at = "out", n = 0
       PROVE  cells = out[j.name]
  BY <1>4, <1>9, <1>10, <1>11, NothingOver
<1>12. ASSUME j.at = "out"
       PROVE  OutFile(made, j.name, cells)
  <2>1. CASE n = 0
    BY <1>9, <1>11, <1>12, <2>1
  <2>2. CASE n # 0
    <3>1. Len(j.cells) \in Nat
      BY <1>10, <1>12, ListMembers
    <3>2. n <= Len(j.cells)
      BY <1>6, <2>2, <3>1, LifecycleAssumption
    <3>3. PICK part : part = SubSeq(j.cells, 1, n)
      OBVIOUS
    <3>4. PrefixOf(part, j.cells) /\ Len(part) = n
      BY <1>6, <1>10, <1>12, <3>2, <3>3, CutPrefix
    <3>5. part # <<>>
      BY <2>2, <3>4
    <3> QED
      BY <1>3, <1>4, <1>9, <1>12, <3>3, <3>4, <3>5, OverFile
  <2> QED
    BY <2>1, <2>2
<1>13. ASSUME NEW s \in DueOf(made), Settled(made, out, torn, s)
       PROVE  Settled(made, out', torn', s)
  <2>1. ASSUME j.at = "out", NameIn(made, s) = j.name
        PROVE  cells = s.plain \/ j.name \in torn'
    <3>1. CASE n = 0
      <4>1. cells = out[j.name] /\ torn' = torn
        BY <1>5, <1>11, <2>1, <3>1
      <4> QED
        BY <1>13, <2>1, <4>1 DEF Settled
    <3>2. CASE n # 0
      BY <1>8, <3>2
    <3> QED
      BY <3>1, <3>2
  <2> QED
    BY <1>1, <1>5, <1>8, <1>13, <2>1, PutSettles
<1>14. OutJobs(made, <<>>) /\ ReportLast(made, out', torn', <<>>)
  BY NothingIsOut
<1> QED
  BY <1>1, <1>5, <1>7, <1>8, <1>9, <1>12, <1>13, <1>14, PutReleases

LEMMA ReleasingAtFirst ==
    ASSUME Init
    PROVE  Releasing
<1>1. out = Empty(OutNames) /\ jobs = Empty(Workers)
  BY DEF Init
<1>2. (\A n \in OutNames : out[n] = <<>>) /\ (\A w \in Workers : jobs[w] = <<>>)
  BY <1>1 DEF Empty
<1>3. \A n \in OutNames : OutFile(made, n, out[n])
  BY <1>2 DEF OutFile
<1>4. \A w \in Workers : OutJobs(made, jobs[w]) /\ ReportLast(made, out, torn, jobs[w])
  BY <1>2, NothingIsOut
<1> QED
  BY <1>2, <1>3, <1>4, LifecycleAssumption DEF Releasing

LEMMA ReleasingKept == Bundles /\ Releasing /\ [Next]_vars => Releasing'
<1> SUFFICES ASSUME Bundles, Releasing, [Next]_vars
             PROVE  Releasing'
  OBVIOUS
<1>1. ASSUME UNCHANGED vars
      PROVE  Releasing'
  BY <1>1 DEF vars, Releasing
<1>2. ASSUME Next
      PROVE  Releasing'
  <2>1. PICK w \in Workers :
            \/ PackDoc(w) \/ SealSection(w) \/ SignBundle(w) \/ UnsealSection(w)
            \/ ReadChain(w) \/ TransferBundle(w)
            \/ MapBundle(w) \/ DecryptMember(w) \/ ReleaseBundle(w) \/ GiveUp(w)
            \/ Truncate(w) \/ WriteNext(w) \/ Crash(w)
    BY <1>2 DEF Next
  <2> QED
    BY <2>1, OthersReleaseNothing, ReadingReleasesNothing, ReleaseReleases, TruncateReleases, WriteReleases, CrashReleases
<1> QED
  BY <1>1, <1>2

\* The release directory, and what every command still has to write there.
THEOREM OnlyTheDueIsReleased == Spec => []Releasing
<1>1. Init => Bundles
  BY BundlesAtFirst
<1>2. Init => Releasing
  BY ReleasingAtFirst
<1> QED
  BY <1>1, <1>2, BundlesKept, ReleasingKept, PTL DEF Spec

LEMMA PrefixIs ==
    ASSUME NEW plain, List(plain), NEW cells, PrefixOf(cells, plain)
    PROVE  IsPrefix(cells, plain)
<1>1. PICK n \in Nat, l \in Nat : n = Len(cells) /\ l = Len(plain) /\ n <= l
  BY ListMembers DEF PrefixOf
<1>2. PICK a, b : a = SubSeq(cells, 1, n) /\ b = SubSeq(plain, 1, n)
  OBVIOUS
<1>3. List(a) /\ Len(a) = n /\ \A i \in 1 .. n : a[i] = cells[i]
  <2>1. PrefixOf(cells, cells)
    BY WholePrefix DEF PrefixOf
  <2>2. List(cells) /\ n <= Len(cells)
    BY <1>1 DEF PrefixOf
  <2> QED
    BY <1>2, <2>2, CutPrefix DEF PrefixOf
<1>4. List(b) /\ Len(b) = n /\ \A i \in 1 .. n : b[i] = plain[i]
  BY <1>1, <1>2, CutPrefix DEF PrefixOf
<1>5. \A i \in 1 .. n : a[i] = b[i]
  BY <1>1, <1>3, <1>4 DEF PrefixOf
<1>6. a = b
  BY <1>3, <1>4, <1>5, SameList
<1> QED
  BY <1>1, <1>2, <1>6 DEF IsPrefix

\* What is in the release directory was sealed, and declared for the end of the event;
\* once the report is there, it names every asset due, and each was written whole unless
\* another command wrote to its file (Lifecycle.ReleaseIsDeclared): ctf release
\* withholds all of it until every member is decrypted, and writes the report last.
THEOREM ReleasesAreDeclared == Spec => []ReleaseIsDeclared
<1>1. ASSUME Bundles, Releasing
      PROVE  ReleaseIsDeclared
  <2>1. PICK specs, man, due :
          /\ specs = ToSet(made.order.specs) /\ man = ManifestIn(made.order) /\ due = DueOf(made)
    OBVIOUS
  <2>2. due = {s \in specs : "SEALED" \in s.flags
                  /\ (\A d \in man.sealed : d.release = "event_end" /\ man.names[s.name + 1] \in d.members)}
    BY <2>1 DEF DueOf, Declares, NameIn
  <2>3. DOMAIN out = OutNames
    BY <1>1 DEF Bundles, Domains
  <2>4. ASSUME NEW n \in DOMAIN out \ {"release.json"}, out[n] # <<>>
        PROVE  \E s \in due : man.names[s.name + 1] = n /\ IsPrefix(out[n], s.plain)
    <3>1. OutFile(made, n, out[n])
      BY <1>1, <2>3 DEF Releasing
    <3>2. PICK s \in due : NameIn(made, s) = n /\ PrefixOf(out[n], s.plain)
      BY <2>1, <2>4, <3>1 DEF OutFile
    <3>3. Written1st(made)
      BY <1>1, <2>3, <2>4 DEF Bundles, Untouched
    <3>4. List(s.plain)
      BY <2>1, <3>3, DueIsKept
    <3>5. IsPrefix(out[n], s.plain)
      BY <3>2, <3>4, PrefixIs
    <3> QED
      BY <2>1, <3>2, <3>5 DEF NameIn
  <2>5. ASSUME out["release.json"] # <<>>
        PROVE  LET members == out["release.json"][1][2].members IN
               /\ Len(members) = Cardinality(due)
               /\ \A s \in due :
                    /\ out[man.names[s.name + 1]] = s.plain \/ man.names[s.name + 1] \in torn
                    /\ \E i \in DOMAIN members :
                          members[i] = [name |-> man.names[s.name + 1], size |-> Len(s.plain),
                                        root |-> Hash(s.plain)]
    <3>1. PICK members : members = out["release.json"][1][2].members
      OBVIOUS
    <3>2. OutFile(made, "release.json", out["release.json"])
      BY <1>1, LifecycleAssumption DEF Releasing
    <3>3. ReportsAll(made, members)
      BY <2>5, <3>1, <3>2 DEF OutFile, IsReport
    <3>4. Len(members) = Cardinality(due)
      BY <2>1, <3>3 DEF ReportsAll
    <3>5. ASSUME NEW s \in due
          PROVE  /\ out[man.names[s.name + 1]] = s.plain \/ man.names[s.name + 1] \in torn
                 /\ \E i \in DOMAIN members :
                       members[i] = [name |-> man.names[s.name + 1], size |-> Len(s.plain),
                                     root |-> Hash(s.plain)]
      <4>1. man.names[s.name + 1] = NameIn(made, s)
        BY <2>1 DEF NameIn
      <4>2. Settled(made, out, torn, s)
        BY <1>1, <2>1, <2>5 DEF Releasing, AllSettled
      <4>3. PICK i \in DOMAIN members : members[i] = Entry(made, s)
        BY <2>1, <3>3 DEF ReportsAll
      <4> QED
        BY <4>1, <4>2, <4>3 DEF Settled, Entry
    <3> QED
      BY <3>1, <3>4, <3>5
  <2> QED
    BY <2>1, <2>2, <2>4, <2>5 DEF ReleaseIsDeclared
<1> QED
  BY <1>1, FilesKeepTheChallenge, OnlyTheDueIsReleased, PTL

(***************************************************************************)
(* What a document that passes validate() may name                         *)
(***************************************************************************)
\* The empty name (the SMT backend cannot be shown the literal).
NoName == ""

\* check_name refuses it.
LEMMA NoNameIsBad == NoName \in BadNames
BY BadNamesAssumption, Zenon DEF NoName

\* A name stands first somewhere.
LEMMA FirstOf ==
    ASSUME NEW all, List(all), NEW n \in ToSet(all), n # NoName
    PROVE  \E i \in FirstOnes(all) : all[i] = n
<1>1. PICK T : T = {i \in DOMAIN all : all[i] = n}
  OBVIOUS
<1>2. PICK len \in Nat : DOMAIN all = 1 .. len
  BY ListMembers
<1>3. T \in SUBSET Nat /\ T # {}
  <2>1. PICK k \in DOMAIN all : all[k] = n
    BY DEF ToSet
  <2>2. k \in T
    BY <1>1, <2>1
  <2>3. T \subseteq 1 .. len
    BY <1>1, <1>2
  <2>4. 1 .. len \subseteq Nat
    OBVIOUS
  <2> QED
    BY <2>2, <2>3, <2>4
<1>4. PICK i \in T : \A j \in T : i <= j
  BY <1>3, LeastNumber
<1>5. i \in DOMAIN all /\ all[i] = n /\ i \in Nat
  BY <1>1, <1>3
<1>6. ASSUME NEW j \in 1 .. i - 1
      PROVE  all[j] # n
  <2>1. i \in 1 .. len
    BY <1>2, <1>5
  <2>2. j \in 1 .. len /\ ~(i <= j)
    BY <1>2, <2>1
  <2>3. j \in DOMAIN all
    BY <1>2, <2>2
  <2> QED
    BY <1>1, <1>4, <2>2, <2>3
<1> QED
  BY <1>5, <1>6, Zenon DEF FirstOnes, NoName

\* A name of the document has an id, under which the table has it.
Tabled1st(table, n) ==
    /\ IdOf(table, n) \in Nat /\ IdOf(table, n) + 1 \in DOMAIN table
    /\ table[IdOf(table, n) + 1] = n

\* So have the names of the artifacts and of the external sections.
LEMMA NameIsTabled ==
    ASSUME NEW d \in Docs, NEW n \in Names(d.artifacts) \cup Names(d.external), n # NoName
    PROVE  Tabled1st(NameTable(d), n)
<1>1. PICK all : AllNames(d, all)
  BY NamesAll
<1>2. PICK S : S = FirstOnes(all)
  OBVIOUS
<1>3. PICK table : table = NameTable(d)
  OBVIOUS
<1>4. List(all) /\ table = Picked(all, S) /\ S \subseteq DOMAIN all /\ n \in ToSet(all)
  BY <1>1, <1>2, <1>3 DEF AllNames, FirstOnes
<1>5. PICK i \in S : all[i] = n
  BY <1>2, <1>4, FirstOf
<1>6. PICK at \in Seq(S) :
        /\ Len(at) = Cardinality(S) /\ Cardinality(S) \in Nat
        /\ \A x \in S : \E y \in 1 .. Len(at) : at[y] = x
        /\ \A x, y \in 1 .. Len(at) : x < y => at[x] < at[y]
        /\ List(Picked(all, S)) /\ Len(Picked(all, S)) = Len(at)
        /\ \A x \in 1 .. Len(at) : Picked(all, S)[x] = all[at[x]]
  BY <1>4, PickedFacts
<1>7. PICK k \in 1 .. Len(at) : at[k] = i
  BY <1>6
<1>8. List(table) /\ k \in DOMAIN table /\ table[k] = n
  BY <1>4, <1>5, <1>6, <1>7, ListMembers
<1>9. PICK c : c = CHOOSE j \in DOMAIN table : table[j] = n
  OBVIOUS
<1>10. c \in DOMAIN table /\ table[c] = n
  BY <1>8, <1>9
<1>11. PICK len \in Nat : DOMAIN table = 1 .. len
  BY <1>8, ListMembers
<1>12. PICK id : id = IdOf(table, n)
  OBVIOUS
<1>13. c \in 1 .. len /\ id = c - 1
  BY <1>9, <1>10, <1>11, <1>12 DEF IdOf
<1>14. id \in Nat /\ id + 1 = c
  <2>1. c \in Int /\ 1 <= c
    BY <1>13
  <2> QED
    BY <1>13, <2>1
<1> QED
  BY <1>3, <1>10, <1>12, <1>14 DEF Tabled1st

\* What validate() finds no fault with (Issues): the artifacts and the external
\* sections have names, of their own, and destinations, of their own, and none is sealed.
GoodNames(d) ==
    /\ \A a \in ToSet(d.artifacts) :
         /\ a.name # NoName /\ Destination(a) \notin {"manifest"} \cup OutputNames(d)
         /\ \A s \in d.sealed : a.name \notin s.members
    /\ \A a, c \in ToSet(d.artifacts) :
         a.name = c.name \/ Destination(a) = Destination(c) => a = c
    /\ \A x \in ToSet(d.external) :
         x.name # NoName /\ \A s \in d.sealed : x.name \notin s.members

\* Of its artifacts: the names and the destinations are of one each.
LEMMA ArtifactsDiffer ==
    ASSUME NEW d \in Docs, ArtifactIssues(d) = {}
    PROVE  /\ \A a \in ToSet(d.artifacts) :
                a.name # NoName /\ Destination(a) \notin {"manifest"} \cup OutputNames(d)
           /\ \A a, c \in ToSet(d.artifacts) :
                a.name = c.name \/ Destination(a) = Destination(c) => a = c
<1>1. PICK seq : seq = d.artifacts
  OBVIOUS
<1>2. List(seq) /\ DOMAIN seq = 1 .. Len(seq) /\ Len(seq) \in Nat
  BY <1>1, DocsAssumption, ListMembers DEF List
<1>3. ~Repeats(seq) /\ \A i \in DOMAIN seq : seq[i].name \notin BadNames \cup {"manifest"} /\ ~Collides(d, i)
  BY <1>1 DEF ArtifactIssues
<1>4. \A i, j \in DOMAIN seq : seq[i].name = seq[j].name => i = j
  BY <1>3 DEF Repeats
<1>5. ASSUME NEW i \in DOMAIN seq, NEW j \in 1 .. i - 1
      PROVE  Destination(seq[j]) # Destination(seq[i])
  <2>1. j \in DOMAIN seq
    BY <1>2
  <2>2. seq[j].name # "manifest"
    BY <1>3, <2>1
  <2> QED
    BY <1>1, <1>3, <2>2 DEF Collides
<1>6. ASSUME NEW i \in DOMAIN seq, NEW j \in DOMAIN seq, Destination(seq[i]) = Destination(seq[j])
      PROVE  i = j
  <2>1. i \in Nat /\ j \in Nat /\ 1 <= i /\ 1 <= j
    BY <1>2
  <2>2. CASE i < j
    <3>1. i \in 1 .. j - 1
      BY <2>1, <2>2
    <3> QED
      BY <1>5, <1>6, <3>1
  <2>3. CASE j < i
    <3>1. j \in 1 .. i - 1
      BY <2>1, <2>3
    <3> QED
      BY <1>5, <1>6, <3>1
  <2> QED
    BY <2>1, <2>2, <2>3
<1>7. \A i \in DOMAIN seq : Destination(seq[i]) \notin {"manifest"} \cup OutputNames(d)
  BY <1>1, <1>3 DEF Collides
<1>8. \A i \in DOMAIN seq : seq[i].name # NoName
  BY <1>3, NoNameIsBad
<1>9. ASSUME NEW a \in ToSet(seq)
      PROVE  a.name # NoName /\ Destination(a) \notin {"manifest"} \cup OutputNames(d)
  <2>1. PICK i \in DOMAIN seq : a = seq[i]
    BY DEF ToSet
  <2> QED
    BY <1>7, <1>8, <2>1
<1>10. ASSUME NEW a \in ToSet(seq), NEW c \in ToSet(seq),
              a.name = c.name \/ Destination(a) = Destination(c)
       PROVE  a = c
  <2>1. PICK i \in DOMAIN seq : a = seq[i]
    BY DEF ToSet
  <2>2. PICK j \in DOMAIN seq : c = seq[j]
    BY DEF ToSet
  <2>3. i = j
    BY <1>4, <1>6, <1>10, <2>1, <2>2
  <2> QED
    BY <2>1, <2>2, <2>3
<1> QED
  BY <1>1, <1>9, <1>10

\* validate() leaves only such documents.
LEMMA NamesAreGood ==
    ASSUME NEW d \in Docs, Issues(d) = {}
    PROVE  GoodNames(d)
<1>1. ArtifactIssues(d) = {} /\ ExternalIssues(d) = {} /\ SealedIssues(d) = {}
  <2>1. PICK first, second, third, fourth :
           /\ first = (IF d.shaped THEN {} ELSE {"shape"})
           /\ second = (IF d.stageGate /\ ~d.derived THEN {"flag.stage_gate"} ELSE {})
           /\ third = UNION {GenerateIssues(g) : g \in d.generate}
           /\ fourth = (IF d.solver = {""} THEN {"verify.solver"} ELSE {})
    OBVIOUS
  <2>2. Issues(d) = first \cup second \cup third \cup SealedIssues(d) \cup fourth
                    \cup ArtifactIssues(d) \cup ExternalIssues(d)
    BY <2>1, Zenon DEF Issues
  <2> QED
    BY <2>2
<1>2. ASSUME NEW s \in d.sealed, NEW a \in ToSet(d.artifacts)
      PROVE  a.name \notin s.members
  <2>1. s.members \cap Names(d.artifacts) = {}
    BY <1>1 DEF SealedIssues
  <2>2. a.name \in Names(d.artifacts)
    BY DEF Names
  <2> QED
    BY <2>1, <2>2
<1>3. ASSUME NEW x \in ToSet(d.external)
      PROVE  x.name # NoName /\ \A s \in d.sealed : x.name \notin s.members
  <2>1. x.name \notin BadNames /\ x.name \notin Assigned(d)
    BY <1>1 DEF ExternalIssues
  <2>2. ASSUME NEW s \in d.sealed
        PROVE  s.members \subseteq Assigned(d)
    <3>1. PICK T : T = UNION {t.members : t \in d.sealed}
      OBVIOUS
    <3>2. s.members \subseteq T
      BY <3>1
    <3>3. PICK outputs, wasm : outputs = OutputNames(d) /\ wasm = UNION {g.wasm : g \in d.generate}
      OBVIOUS
    <3>4. Assigned(d) = outputs \cup wasm \cup T \cup d.solver
      BY <3>1, <3>3, Zenon DEF Assigned
    <3> QED
      BY <3>2, <3>4
  <2> QED
    BY <2>1, <2>2, NoNameIsBad
<1> QED
  BY <1>1, <1>2, <1>3, ArtifactsDiffer DEF GoodNames

\* Where the manifest says an artifact goes: to the path it gives, or under its name.
LEMMA PathOf ==
    ASSUME NEW d \in Docs, GoodNames(d), NEW a \in ToSet(d.artifacts),
           NEW id, id = IdOf(NameTable(d), a.name), NEW paths, paths = ManifestFor(d).paths
    PROVE  \/ id \in DOMAIN paths /\ paths[id] = Destination(a)
           \/ id \notin DOMAIN paths /\ Destination(a) = a.name
<1>1. PICK table, placed : /\ table = NameTable(d)
                           /\ placed = {x \in ToSet(d.artifacts) : x.path \notin {{}, {x.name}}}
  OBVIOUS
<1>2. PICK ids : ids = {IdOf(table, x.name) : x \in placed}
  OBVIOUS
<1>3. paths = [n \in ids |-> Destination(CHOOSE x \in placed : IdOf(table, x.name) = n)]
  BY <1>1, <1>2 DEF ManifestFor
<1>4. ASSUME NEW x \in ToSet(d.artifacts), IdOf(table, x.name) = id
      PROVE  x = a
  <2>1. x.name \in Names(d.artifacts) /\ a.name \in Names(d.artifacts)
    BY DEF Names
  <2>2. x.name # NoName /\ a.name # NoName
    BY DEF GoodNames
  <2>3. Tabled1st(table, x.name) /\ Tabled1st(table, a.name)
    BY <1>1, <2>1, <2>2, NameIsTabled
  <2>4. x.name = a.name
    BY <1>1, <1>4, <2>3 DEF Tabled1st
  <2> QED
    BY <2>4 DEF GoodNames
<1>5. CASE a \in placed
  <2>1. PICK x : x = CHOOSE y \in placed : IdOf(table, y.name) = id
    OBVIOUS
  <2>2. x \in placed /\ IdOf(table, x.name) = id
    BY <1>1, <1>5, <2>1
  <2>3. x = a
    BY <1>1, <1>4, <2>2
  <2>4. id \in ids
    BY <1>1, <1>2, <1>5
  <2> QED
    BY <1>3, <2>1, <2>3, <2>4
<1>6. CASE a \notin placed
  <2>1. id \notin ids
    BY <1>1, <1>2, <1>4, <1>6
  <2>2. a.path = {} \/ a.path = {a.name}
    BY <1>1, <1>6
  <2>3. Destination(a) = a.name
    BY <2>2 DEF Destination
  <2> QED
    BY <1>3, <2>1, <2>3
<1> QED
  BY <1>5, <1>6

(***************************************************************************)
(* What is listed of a bundle that pack made                               *)
(***************************************************************************)
\* A record that players are shown is of an artifact or of an external section: a
\* section that a rewrite added has no flags, or the record of the one it replaced.
LEMMA ShownIsPacked ==
    ASSUME NEW d \in Docs, NEW m, m.order = PackOrder(d, Suite), Written1st(m),
           NEW f, CellsOk(m, f), Parse(f).ok,
           NEW r \in ToSet(Parse(f).value.secs), "PLAYER_VISIBLE" \in r.flags
    PROVE  \E t \in ToSet(m.order.specs) : Carries(t, r) /\ (OfArtifact(d, t) \/ OfExternal(d, t))
<1>1. PICK b, specs : b = Parse(f).value /\ specs = m.order.specs
  OBVIOUS
<1>2. /\ List(specs) /\ specs # <<>> /\ specs[1].kind = "manifest"
      /\ \A s \in ToSet(specs) : s = specs[1] \/ OfArtifact(d, s) \/ OfExternal(d, s)
  <2>1. PICK man : man = ManifestFor(d)
    OBVIOUS
  <2>2. /\ List(specs) /\ specs # <<>>
        /\ specs[1] = InlineSpec("manifest", 0, {}, <<<<"man", man>>>>)
        /\ \A s \in ToSet(specs) : s = specs[1] \/ OfArtifact(d, s) \/ OfExternal(d, s)
    BY <1>1, <2>1, PackOrderParts
  <2>3. specs[1].kind = "manifest"
    BY <2>2 DEF InlineSpec
  <2> QED
    BY <2>2, <2>3
<1>3. Cells(f) /\ Faithful(m, b.h.ro, b.secs) /\ RecordOk(r)
  BY <1>1, FileIsFaithful, RecordFacts DEF CellsOk
<1>4. ~ManifestRec(m, r)
  BY <1>3 DEF ManifestRec, RecordOk, KindOk
<1>5. ASSUME AddedRec(m, r)
      PROVE  FALSE
  <2>1. r.kind \in AddedKinds /\ r.flags # {}
    BY <1>5 DEF AddedRec
  <2>2. PICK t \in ToSet(specs) : t.name = r.name
    BY <1>1, <1>5, <2>1 DEF AddedRec
  <2>3. CASE t = specs[1]
    <3>1. PICK x \in ToSet(b.secs) : ManifestFrom(f, b, x)
      BY <1>1, <1>3, ManifestRead
    <3>2. x.kind = "manifest"
      BY <3>1 DEF ManifestFrom
    <3>3. x.name = specs[1].name
      BY <1>1, <3>2, ManifestIsKept
    <3>4. x = r
      BY <1>1, <2>2, <2>3, <3>3, OneRecordPerName
    <3> QED
      BY <2>1, <3>2, <3>4 DEF AddedKinds
  <2>4. CASE OfArtifact(d, t) \/ OfExternal(d, t)
    <3>1. t.kind = "artifact"
      BY <2>4, PackedSection
    <3>2. t \in Kept1st(m)
      BY <1>1, <3>1 DEF Kept1st, AddedKinds
    <3>3. PICK x \in ToSet(b.secs) : Carries(t, x)
      BY <1>3, <3>2 DEF Faithful
    <3>4. x.name = r.name /\ x.kind = "artifact"
      BY <2>2, <3>1, <3>3 DEF Carries
    <3>5. x = r
      BY <1>1, <3>4, OneRecordPerName
    <3> QED
      BY <2>1, <3>4, <3>5 DEF AddedKinds
  <2> QED
    BY <1>2, <2>2, <2>3, <2>4
<1>6. PICK t \in Kept1st(m) : Carries(t, r)
  BY <1>1, <1>3, <1>4, <1>5 DEF Faithful, RecordKept
<1>7. t \in ToSet(specs) /\ t # specs[1]
  BY <1>1, <1>2, <1>6 DEF Kept1st
<1> QED
  BY <1>1, <1>2, <1>6, <1>7

\* Where an artifact that is listed goes.
GoesTo(a) == IF a.path = {} THEN a.name ELSE CHOOSE x \in a.path : TRUE

\* What is listed of an artifact, and of an external section.
ListsArtifact(d, item) ==
    \E a \in ToSet(d.artifacts) : item.name = a.name /\ GoesTo(item) = Destination(a)

ListsExternal(d, item) == item.external /\ \E x \in ToSet(d.external) : item.name = x.name

LEMMA ListedIsPacked ==
    ASSUME NEW d \in Docs, GoodNames(d), NEW m, m.order = PackOrder(d, Suite), Written1st(m),
           NEW f, CellsOk(m, f), Parse(f).ok, NEW b, b = Parse(f).value,
           NEW r \in ToSet(b.secs), "PLAYER_VISIBLE" \in r.flags
    PROVE  ListsArtifact(d, Listing(b, r)) \/ ListsExternal(d, Listing(b, r))
<1>1. PICK t \in ToSet(m.order.specs) : Carries(t, r) /\ (OfArtifact(d, t) \/ OfExternal(d, t))
  BY ShownIsPacked
<1>2. PICK table, man : table = NameTable(d) /\ man = ManifestFor(d)
  OBVIOUS
<1>3. man = ManifestIn(m.order) /\ man.names = table /\ "paths" \in DOMAIN man
  BY <1>2, PackIsChallenge DEF ManifestFor
<1>4. Longer(b.man.names, table) /\ b.man = [man EXCEPT !.names = b.man.names]
  BY <1>3, ManifestIsKept
<1>5. b.man.paths = man.paths
  BY <1>3, <1>4
<1>6. ASSUME NEW n, Tabled1st(table, n), r.name = IdOf(table, n)
      PROVE  b.man.names[r.name + 1] = n
  <2>1. r.name + 1 \in DOMAIN table /\ table[r.name + 1] = n
    BY <1>6 DEF Tabled1st
  <2>2. DOMAIN table = 1 .. Len(table)
    BY <1>2, NameTableListed, ListMembers
  <2> QED
    BY <1>4, <2>1, <2>2 DEF Longer
<1>7. PICK item : item = Listing(b, r)
  OBVIOUS
<1>8. /\ item.name = b.man.names[r.name + 1] /\ item.external = ("EXTERNAL" \in r.flags)
      /\ item.path = IF r.name \in DOMAIN man.paths THEN {man.paths[r.name]} ELSE {}
  BY <1>5, <1>7 DEF Listing
<1>9. CASE OfArtifact(d, t)
  <2>1. PICK a \in ToSet(d.artifacts) :
           t = InlineSpec("artifact", IdOf(table, a.name), {"PLAYER_VISIBLE"}, a.plain)
    BY <1>2, <1>9 DEF OfArtifact
  <2>2. r.name = IdOf(table, a.name)
    BY <1>1, <2>1 DEF Carries, InlineSpec
  <2>3. a.name \in Names(d.artifacts) /\ a.name # NoName
    BY DEF Names, GoodNames
  <2>4. Tabled1st(table, a.name)
    BY <1>2, <2>3, NameIsTabled
  <2>5. item.name = a.name
    BY <1>6, <1>8, <2>2, <2>4
  <2>6. GoesTo(item) = Destination(a)
    <3>1. PICK paths : paths = man.paths
      OBVIOUS
    <3>2. \/ r.name \in DOMAIN paths /\ paths[r.name] = Destination(a)
          \/ r.name \notin DOMAIN paths /\ Destination(a) = a.name
      BY <1>2, <2>2, <3>1, PathOf
    <3>3. item.path = IF r.name \in DOMAIN paths THEN {paths[r.name]} ELSE {}
      BY <1>8, <3>1
    <3> QED
      BY <2>5, <3>2, <3>3 DEF GoesTo
  <2> QED
    BY <1>7, <2>5, <2>6 DEF ListsArtifact
<1>10. CASE OfExternal(d, t)
  <2>1. PICK x \in ToSet(d.external) :
           t = [InlineSpec("artifact", IdOf(table, x.name),
                           {"EXTERNAL", "PLAYER_VISIBLE"}, x.plain) EXCEPT !.from = "external"]
    BY <1>2, <1>10 DEF OfExternal
  <2>2. r.name = IdOf(table, x.name) /\ r.flags = {"EXTERNAL", "PLAYER_VISIBLE"}
    BY <1>1, <2>1 DEF Carries, InlineSpec
  <2>3. x.name \in Names(d.external) /\ x.name # NoName
    BY DEF Names, GoodNames
  <2>4. Tabled1st(table, x.name)
    BY <1>2, <2>3, NameIsTabled
  <2> QED
    BY <1>6, <1>7, <1>8, <2>2, <2>4 DEF ListsExternal
<1> QED
  BY <1>1, <1>9, <1>10

(***************************************************************************)
(* The document and what was made of it                                    *)
(***************************************************************************)
\* There is one document, and the challenge is what pack made of it.
Drafted ==
    /\ \A d, e \in draft : d = e
    /\ \A d \in draft :
         made = NothingMade \/ (Pack(d, Suite).ok /\ made.order = PackOrder(d, Suite))

LEMMA DraftedAtFirst == Init => Drafted
<1>1. SUFFICES ASSUME Init PROVE Drafted
  OBVIOUS
<1>2. CASE draft \in {{d} : d \in Docs} /\ made = NothingMade
  BY <1>2 DEF Drafted
<1>3. CASE draft = {}
  BY <1>3 DEF Drafted
<1> QED
  BY <1>1, <1>2, <1>3 DEF Init

LEMMA DraftedKept == Drafted /\ [Next]_vars => Drafted'
<1>1. SUFFICES ASSUME Drafted, [Next]_vars PROVE Drafted'
  OBVIOUS
<1>2. ASSUME draft' = draft, made' = made
      PROVE  Drafted'
  BY <1>1, <1>2 DEF Drafted
<1>3. CASE UNCHANGED vars
  BY <1>2, <1>3 DEF vars
<1>4. ASSUME NEW w \in Workers, PackDoc(w)
      PROVE  Drafted'
  <2>1. PICK d \in draft : \E packed \in Value(Pack(d, Suite)) :
           /\ draft' = draft /\ made' = [order |-> PackOrder(d, Suite), ro |-> {"container_v1"}]
    BY <1>4 DEF PackDoc, Run
  <2>2. Pack(d, Suite).ok
    BY <2>1 DEF Value
  <2>3. made'.order = PackOrder(d, Suite)
    BY <2>1
  <2>4. \A e \in draft' : e = d
    BY <1>1, <2>1 DEF Drafted
  <2> QED
    BY <1>1, <2>1, <2>2, <2>3, <2>4 DEF Drafted
<1>5. ASSUME NEW w \in Workers,
             \/ SealSection(w) \/ SignBundle(w) \/ UnsealSection(w)
             \/ ReadChain(w) \/ TransferBundle(w)
             \/ MapBundle(w) \/ DecryptMember(w) \/ ReleaseBundle(w) \/ GiveUp(w)
             \/ Truncate(w) \/ WriteNext(w) \/ Crash(w)
      PROVE  Drafted'
  <2>1. CASE ReadChain(w) \/ TransferBundle(w)
    <3>1. draft' = draft /\ made' = made
      BY <2>1 DEF ReadChain, TransferBundle, Begin, Finish
    <3> QED
      BY <1>2, <3>1
  <2>2. CASE SealSection(w)
    <3>1. draft' = draft /\ made' = made
      BY <2>2 DEF SealSection, Rewrite, Run
    <3> QED
      BY <1>2, <3>1
  <2>3. CASE SignBundle(w)
    <3>1. draft' = draft /\ made' = made
      BY <2>3 DEF SignBundle, Rewrite, Run
    <3> QED
      BY <1>2, <3>1
  <2>4. CASE UnsealSection(w)
    <3>1. draft' = draft /\ made' = made
      BY <2>4 DEF UnsealSection, Run
    <3> QED
      BY <1>2, <3>1
  <2>5. CASE MapBundle(w) \/ DecryptMember(w) \/ ReleaseBundle(w) \/ GiveUp(w)
    <3>1. draft' = draft /\ made' = made
      BY <2>5 DEF MapBundle, DecryptMember, ReleaseBundle, ReleaseAs, GiveUp, Begin, Finish
    <3> QED
      BY <1>2, <3>1
  <2>6. CASE Truncate(w) \/ WriteNext(w) \/ Crash(w)
    BY <1>2, <2>6 DEF Truncate, WriteNext, Crash
  <2> QED
    BY <1>5, <2>1, <2>2, <2>3, <2>4, <2>5, <2>6
<1> QED
  BY <1>1, <1>3, <1>4, <1>5 DEF Next

(***************************************************************************)
(* The listing                                                             *)
(***************************************************************************)
\* What is listed, where a bundle that pack made opens.
PackedListing(d, b) ==
    LET listed == ServingManifest(b) IN
    /\ List(listed)
    /\ \A i \in DOMAIN listed : ListsArtifact(d, listed[i]) \/ ListsExternal(d, listed[i])
    /\ \A i, j \in DOMAIN listed : listed[i].name = listed[j].name => i = j

LEMMA ListingIsPacked ==
    ASSUME NEW d \in Docs, GoodNames(d), NEW m, m.order = PackOrder(d, Suite), Written1st(m),
           NEW f, CellsOk(m, f), Parse(f).ok, NEW b, b = Parse(f).value
    PROVE  PackedListing(d, b)
<1>1. Cells(f)
  BY DEF CellsOk
<1>2. PICK at : ListedAt(b, at)
  BY <1>1, ListingFacts
<1>3. PICK listed : listed = ServingManifest(b)
  OBVIOUS
<1>4. /\ at \in Seq(Listable(b)) /\ DOMAIN listed = 1 .. Len(at)
      /\ \A k \in 1 .. Len(at) : listed[k] = Listing(b, b.secs[at[k]])
      /\ \A j, k \in 1 .. Len(at) : at[j] = at[k] => j = k
  BY <1>2, <1>3 DEF ListedAt
<1>5. \A k \in 1 .. Len(at) : at[k] \in Listable(b)
  BY <1>4
<1>6. ASSUME NEW k \in 1 .. Len(at)
      PROVE  at[k] \in DOMAIN b.secs /\ b.secs[at[k]] \in ToSet(b.secs) /\ "PLAYER_VISIBLE" \in b.secs[at[k]].flags
  BY <1>5 DEF Listable, ToSet
<1>7. List(listed)
  <2>1. listed = [i \in DOMAIN listed |-> listed[i]]
    BY <1>3 DEF ServingManifest
  <2>2. PICK n \in Nat : n = Len(at)
    BY <1>4
  <2>3. listed = [i \in 1 .. n |-> listed[i]]
    BY <1>4, <2>1, <2>2
  <2> QED
    BY <2>3, MadeList
<1>8. ASSUME NEW k \in DOMAIN listed
      PROVE  ListsArtifact(d, listed[k]) \/ ListsExternal(d, listed[k])
  <2>1. PICK r : r = b.secs[at[k]]
    OBVIOUS
  <2>2. r \in ToSet(b.secs) /\ "PLAYER_VISIBLE" \in r.flags /\ listed[k] = Listing(b, r)
    BY <1>4, <1>6, <2>1
  <2> QED
    BY <2>2, ListedIsPacked
<1>9. ASSUME NEW j \in DOMAIN listed, NEW k \in DOMAIN listed, listed[j].name = listed[k].name
      PROVE  j = k
  <2>1. PICK r, x : r = b.secs[at[j]] /\ x = b.secs[at[k]]
    OBVIOUS
  <2>2. /\ r \in ToSet(b.secs) /\ x \in ToSet(b.secs)
        /\ listed[j] = Listing(b, r) /\ listed[k] = Listing(b, x)
    BY <1>4, <1>6, <2>1
  <2>3. r = x
    BY <1>1, <1>9, <2>2, ListedOnce
  <2>4. \A i1, i2 \in DOMAIN b.secs : b.secs[i1].name = b.secs[i2].name => i1 = i2
    BY ParseFacts DEF LayoutOk
  <2>5. at[j] = at[k]
    <3>1. PICK i1, i2 : i1 = at[j] /\ i2 = at[k]
      OBVIOUS
    <3>2. i1 \in DOMAIN b.secs /\ i2 \in DOMAIN b.secs
      BY <1>4, <1>6, <3>1
    <3>3. b.secs[i1].name = b.secs[i2].name
      BY <2>1, <2>3, <3>1
    <3> QED
      BY <2>4, <3>1, <3>2, <3>3
  <2> QED
    BY <1>4, <2>5
<1> QED
  BY <1>3, <1>7, <1>8, <1>9 DEF PackedListing

\* A bundle `ctf pack` made lists nothing the document seals, also after other commands
\* rewrote it, and extracts no two sections to one file, nor one over the manifest or an
\* output of the generator (Lifecycle.PackedAsDeclared): validate() judges the document,
\* and every rewrite keeps what it judged.
THEOREM ListedAsDeclared == Spec => []PackedAsDeclared
<1>1. ASSUME Bundles, Drafted
      PROVE  PackedAsDeclared
  <2>1. SUFFICES ASSUME NEW d \in draft, NEW p \in BundlePaths, NEW b \in OnDisk(p)
                 PROVE  LET listed == ServingManifest(b)
                            inside == Picked(listed, {i \in DOMAIN listed : ~listed[i].external})
                        IN /\ \A a \in ToSet(listed), s \in d.sealed : a.name \notin s.members
                           /\ \A i, j \in DOMAIN inside : GoesTo(inside[i]) = GoesTo(inside[j]) => i = j
                           /\ \A a \in ToSet(inside) : GoesTo(a) \notin {"manifest"} \cup OutputNames(d)
    BY DEF PackedAsDeclared, GoesTo
  <2>2. Opens(p, b)
    BY <1>1, OpenedBundle
  <2>3. PICK f : f = disk[p]
    OBVIOUS
  <2>4. Parse(f).ok /\ b = Parse(f).value /\ Written1st(made) /\ CellsOk(made, f)
    BY <2>2, <2>3 DEF Opens
  <2>5. d \in Docs /\ made.order = PackOrder(d, Suite) /\ Issues(d) = {}
    <3>1. d \in Docs /\ Pack(d, Suite).ok /\ made.order = PackOrder(d, Suite)
      BY <1>1, <2>4, MadeIsMore DEF Drafted, Bundles
    <3>2. CanDescribe(d)
      BY <3>1 DEF Pack, Failed
    <3> QED
      BY <3>1, <3>2 DEF CanDescribe
  <2>6. GoodNames(d)
    BY <2>5, NamesAreGood
  <2>7. PackedListing(d, b)
    BY <2>4, <2>5, <2>6, ListingIsPacked
  <2>8. PICK listed : listed = ServingManifest(b)
    OBVIOUS
  <2>9. /\ List(listed)
        /\ \A i \in DOMAIN listed : ListsArtifact(d, listed[i]) \/ ListsExternal(d, listed[i])
        /\ \A i, j \in DOMAIN listed : listed[i].name = listed[j].name => i = j
    BY <2>7, <2>8 DEF PackedListing
  <2>10. PICK S, inside : S = {i \in DOMAIN listed : ~listed[i].external} /\ inside = Picked(listed, S)
    OBVIOUS
  <2>11. PICK at \in Seq(S) :
           /\ Len(at) = Cardinality(S) /\ Cardinality(S) \in Nat
           /\ \A x \in S : \E y \in 1 .. Len(at) : at[y] = x
           /\ \A x, y \in 1 .. Len(at) : x < y => at[x] < at[y]
           /\ List(Picked(listed, S)) /\ Len(Picked(listed, S)) = Len(at)
           /\ \A x \in 1 .. Len(at) : Picked(listed, S)[x] = listed[at[x]]
    <3>1. S \subseteq DOMAIN listed
      BY <2>10
    <3> QED
      BY <2>9, <3>1, PickedFacts
  <2>12. /\ DOMAIN inside = 1 .. Len(at) /\ Len(at) \in Nat
         /\ \A k \in DOMAIN inside : at[k] \in S /\ inside[k] = listed[at[k]]
    <3>1. List(inside) /\ Len(inside) = Len(at)
      BY <2>10, <2>11
    <3>2. DOMAIN inside = 1 .. Len(at)
      BY <3>1, ListMembers
    <3>3. Len(at) \in Nat /\ \A k \in 1 .. Len(at) : at[k] \in S
      OBVIOUS
    <3> QED
      BY <2>10, <2>11, <3>2, <3>3
  <2>13. ASSUME NEW k \in DOMAIN inside
         PROVE  ListsArtifact(d, inside[k])
    <3>1. at[k] \in DOMAIN listed /\ ~listed[at[k]].external /\ inside[k] = listed[at[k]]
      BY <2>10, <2>12
    <3> QED
      BY <2>9, <3>1 DEF ListsExternal
  <2>14. ASSUME NEW a \in ToSet(listed), NEW s \in d.sealed
         PROVE  a.name \notin s.members
    <3>1. PICK i \in DOMAIN listed : a = listed[i]
      BY DEF ToSet
    <3>2. ListsArtifact(d, a) \/ ListsExternal(d, a)
      BY <2>9, <3>1
    <3> QED
      BY <2>6, <3>2 DEF ListsArtifact, ListsExternal, GoodNames
  <2>15. ASSUME NEW i \in DOMAIN inside, NEW j \in DOMAIN inside, GoesTo(inside[i]) = GoesTo(inside[j])
         PROVE  i = j
    <3>1. PICK a \in ToSet(d.artifacts) : inside[i].name = a.name /\ GoesTo(inside[i]) = Destination(a)
      BY <2>13 DEF ListsArtifact
    <3>2. PICK c \in ToSet(d.artifacts) : inside[j].name = c.name /\ GoesTo(inside[j]) = Destination(c)
      BY <2>13 DEF ListsArtifact
    <3>3. a = c
      BY <2>6, <2>15, <3>1, <3>2 DEF GoodNames
    <3>4. at[i] \in DOMAIN listed /\ at[j] \in DOMAIN listed /\ listed[at[i]].name = listed[at[j]].name
      BY <2>10, <2>12, <3>1, <3>2, <3>3
    <3>5. at[i] = at[j]
      BY <2>9, <3>4
    <3>6. at[i] \in Nat /\ at[j] \in Nat
      BY <2>9, <3>4, ListMembers
    <3>7. i \in 1 .. Len(at) /\ j \in 1 .. Len(at) /\ ~(i < j) /\ ~(j < i)
      BY <2>11, <2>12, <3>5, <3>6
    <3> QED
      BY <3>7
  <2>16. ASSUME NEW a \in ToSet(inside)
         PROVE  GoesTo(a) \notin {"manifest"} \cup OutputNames(d)
    <3>1. PICK k \in DOMAIN inside : a = inside[k]
      BY DEF ToSet
    <3>2. PICK c \in ToSet(d.artifacts) : GoesTo(a) = Destination(c)
      BY <2>13, <3>1 DEF ListsArtifact
    <3> QED
      BY <2>6, <3>2 DEF GoodNames
  <2> QED
    BY <2>8, <2>10, <2>14, <2>15, <2>16
<1>2. Init => Drafted
  BY DraftedAtFirst
<1>3. Drafted /\ [Next]_vars => Drafted'
  BY DraftedKept
<1> QED
  BY <1>1, <1>2, <1>3, FilesKeepTheChallenge, PTL DEF Spec
=============================================================================
