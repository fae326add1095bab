------------------------------- MODULE Layout -------------------------------
(***************************************************************************)
(* The structure of a .ctf file and the rules `Bundle::parse` reads it by. *)
(* A file is a sequence of cells <<tag, value>>: the header, a section     *)
(* record, a footer part, an index entry and a unit of payload each take   *)
(* one.  Offsets count cells from zero, so offset o is file[o + 1].  An    *)
(* offset or a sum that overflows a u64 is past the end of every file and  *)
(* is refused with those that are.  Which error is reported is left out.   *)
(***************************************************************************)
EXTENDS Stream, Ordering

CONSTANTS
    KnownSuites,    \* the suites the registry resolves
    PayloadAlign,   \* PAYLOAD_ALIGN, in cells
    MaxSections     \* MAX_SECTIONS

ASSUME LayoutAssumption == PayloadAlign \in Nat \ {0} /\ MaxSections \in Nat

(***************************************************************************)
(* Cells                                                                   *)
(***************************************************************************)
Tags == {"hdr", "rec", "foot", "tail", "sig", "cv", "zero", "data", "man", "env", "zstd", "aead"}

\* What is compressed is a sequence of units, and what is sealed too.
Unpacks(c) == c[1] = "zstd" => List(c[2])

Frame(cells) == List(cells) /\ \A c \in ToSet(cells) : Unpacks(c)

WellFormed(c) ==
    /\ c = <<c[1], c[2]>> /\ c[1] \in Tags
    /\ c[1] = "foot" => c[2] = [root |-> c[2].root, cls |-> c[2].cls, pq |-> c[2].pq]
    /\ Unpacks(c)
    /\ c[1] = "aead" => Frame(c[2].frame)
    /\ c[1] = "man" => List(c[2].names)

Cells(f) == f \in Seq(ToSet(f)) /\ \A c \in ToSet(f) : WellFormed(c)

HeaderLen == 1
MinFooterLen == 2       \* the root with the two lengths, and the trailer
SlotLen == 1            \* what each signature slot holds in every known suite

Slice(file, lo, hi) == SubSeq(file, lo + 1, hi)

(***************************************************************************)
(* Header                                                                  *)
(***************************************************************************)
TableEnd(h) == h.tableOff + h.count

\* The numbers are decoded from unsigned fields; `fixed` stands for magic, major
\* version, length, reserved bytes and flags.
HeaderOk(h) ==
    /\ {h.count, h.tableOff, h.footerOff} \subseteq Nat
    /\ h.fixed
    /\ h.incompat = {}
    /\ h.count <= MaxSections
    /\ h.tableOff >= HeaderLen
    /\ h.footerOff >= TableEnd(h)

FitsFile(h, len) == TableEnd(h) <= len /\ h.footerOff <= len

\* Bytes of a feature this build does not implement cannot be written back.
MayRewrite(h) == h.ro \subseteq {"container_v1"}

(***************************************************************************)
(* Section records                                                         *)
(***************************************************************************)
KnownKinds == {"manifest", "artifact", "solver", "keys", "entitlement"}
MustBeSealed == {"solver"}

KindOk(r) ==
    /\ r.kind \in KnownKinds \/ (r.kind = "future" /\ "OPTIONAL" \in r.flags)
    /\ r.kind \in MustBeSealed => "SEALED" \in r.flags
    /\ r.kind = "manifest" =>
         /\ r.flags \cap {"SEALED", "PLAYER_VISIBLE", "EXTERNAL"} = {}
         /\ r.enc = "none" /\ r.comp = "none"

\* SEALED is a promise that reading takes a key, and never goes with serving.
SealedOk(r) ==
    "SEALED" \in r.flags => "PLAYER_VISIBLE" \notin r.flags /\ r.enc # "none"

PlaceOk(r) ==
    IF "EXTERNAL" \in r.flags
    THEN r.offset = 0 /\ r.lenStored = 0 /\ r.enc = "none" /\ r.comp = "none"
    ELSE /\ r.offset >= HeaderLen /\ r.offset % PayloadAlign = 0
         /\ r.enc = "none" /\ r.comp = "none" => r.lenStored = r.lenPlain

ChunkingOk(r) ==
    /\ r.chunkSize = 0 \/ ValidChunkSize(r.chunkSize)
    /\ r.enc = "aead" => r.chunkSize # 0
    /\ r.indexOff # 0 => /\ r.chunkSize # 0
                         /\ r.indexOff >= HeaderLen
                         /\ ChunkCount(r.lenPlain, r.chunkSize) >= 2

\* The numbers are decoded from unsigned fields, as in the header.
RecordOk(r) ==
    /\ {r.name, r.offset, r.lenStored, r.lenPlain, r.chunkSize, r.indexOff} \subseteq Nat
    /\ r.flags \subseteq {"SEALED", "PLAYER_VISIBLE", "EXTERNAL", "OPTIONAL"}
    /\ r.enc \in {"none", "aead"} /\ r.comp \in {"none", "zstd"}
    /\ KindOk(r) /\ SealedOk(r) /\ PlaceOk(r) /\ ChunkingOk(r)

\* A cell that is no record has kind 0.
TableOk(cells) == \A i \in DOMAIN cells : cells[i][1] = "rec" /\ RecordOk(cells[i][2])

(***************************************************************************)
(* Layout: who owns which bytes                                            *)
(***************************************************************************)
StoredEnd(r) == r.offset + r.lenStored

IndexEnd(r) == r.indexOff + ChunkCount(r.lenPlain, r.chunkSize)

\* Every region that owns bytes: where it starts and ends, and whose it is (the table,
\* the payload or the index of a record).
Regions(h, secs) ==
    LET stored == {i \in DOMAIN secs : "EXTERNAL" \notin secs[i].flags /\ secs[i].lenStored > 0}
        indexed == {i \in DOMAIN secs : secs[i].indexOff # 0}
    IN {<<secs[i].offset, StoredEnd(secs[i]), 2 * i - 1>> : i \in stored}
       \cup {<<secs[i].indexOff, IndexEnd(secs[i]), 2 * i>> : i \in indexed}
       \cup (IF h.count > 0 THEN {<<h.tableOff, TableEnd(h), 0>>} ELSE {})

Before(a, b) ==
    \/ a[1] < b[1]
    \/ a[1] = b[1] /\ (a[2] < b[2] \/ (a[2] = b[2] /\ a[3] < b[3]))

SortedRegions(h, secs) ==
    LET regions == Regions(h, secs) IN
    InOrder(regions, [b \in regions |-> {a \in regions : Before(a, b)}])

ZeroBetween(file, lo, hi) == \A o \in lo .. hi - 1 : file[o + 1] = <<"zero", 0>>

\* Only the gaps between regions are looked at.
CheckPaddingBetween(file, h, regions) ==
    \A i \in 1 .. Len(regions) - 1 : ZeroBetween(file, regions[i][2], regions[i + 1][1])

\* T8, with the cursor the code walks over the sorted regions.
CheckPadding(file, h, regions) ==
    LET cursor[n \in 0 .. Len(regions)] ==
            IF n = 0 THEN HeaderLen ELSE Max({cursor[n - 1], regions[n][2]})
    IN /\ \A n \in 1 .. Len(regions) : ZeroBetween(file, cursor[n - 1], regions[n][1])
       /\ ZeroBetween(file, cursor[Len(regions)], h.footerOff)

\* The regions are not compared with each other.
LayoutOkOverlapping(file, h, secs) ==
    /\ Cardinality({i \in DOMAIN secs : secs[i].kind = "manifest"}) = 1
    /\ \A i, j \in DOMAIN secs : secs[i].name = secs[j].name => i = j
    /\ \A i \in DOMAIN secs :
         /\ "EXTERNAL" \notin secs[i].flags => StoredEnd(secs[i]) <= h.footerOff
         /\ secs[i].indexOff # 0 => IndexEnd(secs[i]) <= h.footerOff
    /\ CheckPadding(file, h, SortedRegions(h, secs))

LayoutOk(file, h, secs) ==
    LET regions == SortedRegions(h, secs) IN
    /\ Cardinality({i \in DOMAIN secs : secs[i].kind = "manifest"}) = 1
    /\ \A i, j \in DOMAIN secs : secs[i].name = secs[j].name => i = j
    /\ \A i \in DOMAIN secs :
         /\ "EXTERNAL" \notin secs[i].flags => StoredEnd(secs[i]) <= h.footerOff
         /\ secs[i].indexOff # 0 => IndexEnd(secs[i]) <= h.footerOff
    /\ \A i \in 1 .. Len(regions) - 1 : regions[i + 1][1] >= regions[i][2]
    /\ CheckPadding(file, h, regions)

(***************************************************************************)
(* Footer and commitment                                                   *)
(***************************************************************************)
CommitmentRoot(headerCell, table) == <<"commit", headerCell, table>>

\* The transcript both signatures are over.
SigInput(suite, foot, total) ==
    [suite |-> suite, cls |-> foot.cls, pq |-> foot.pq, root |-> foot.root, total |-> total]

FooterOk(file, h) ==
    LET footer == Slice(file, h.footerOff, Len(file)) IN
    /\ Len(footer) >= MinFooterLen
    /\ footer[1][1] = "foot"
    /\ footer[1][2].cls = 0 <=> footer[1][2].pq = 0
    /\ Len(footer) = MinFooterLen + footer[1][2].cls + footer[1][2].pq
    /\ footer[Len(footer)] = <<"tail", Len(file)>>

FootAt(file, h) == file[h.footerOff + 1][2]

\* F10; the slots of an unknown suite are not judged here.
SlotsOk(h, foot) ==
    foot.cls # 0 /\ h.suite \in KnownSuites => foot.cls = SlotLen /\ foot.pq = SlotLen

(***************************************************************************)
(* Manifest                                                                *)
(***************************************************************************)
KnownKeys == {"spec", "id", "name", "names", "paths", "external", "version"}

NoRepeat(f) == \A i, j \in DOMAIN f : f[i] = f[j] => i = j

\* parse_external: an external section that cannot be fetched is refused.
ExternalOk(entry) == entry.mirrors # {}

\* `shaped` stands for the type, the length and the characters of every value.
DecodeOk(m) ==
    /\ m.shaped /\ m.spec >= 1
    /\ m.crit \subseteq KnownKeys /\ m.crit \subseteq m.keys
    /\ NoRepeat(m.names)
    /\ NoRepeat(m.paths)
    /\ \A id \in DOMAIN m.external : ExternalOk(m.external[id])

\* The record wins: what the manifest says of an external section must agree.
ValidateAgainst(m, secs) ==
    LET ids == {secs[i].name : i \in DOMAIN secs}
        outside == {i \in DOMAIN secs : "EXTERNAL" \in secs[i].flags}
    IN /\ \A id \in ids : id < Len(m.names)
       /\ DOMAIN m.paths \subseteq ids
       /\ DOMAIN m.external = {secs[i].name : i \in outside}
       /\ \A i \in outside : /\ m.external[secs[i].name].size = secs[i].lenPlain
                             /\ m.external[secs[i].name].root = secs[i].root
=============================================================================
