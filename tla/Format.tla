------------------------------- MODULE Format -------------------------------
(***************************************************************************)
(* What the library does with a .ctf file, as operators: `write_bundle`    *)
(* lays out the sections it is given, `sign_bundle` appends the footer's   *)
(* signatures, `Bundle::parse` opens a file, and the ways to read a        *)
(* section out of it.  Every one works on bytes that do not change under   *)
(* it, so a call is one step of whoever makes it.                          *)
(***************************************************************************)
EXTENDS Layout

(***************************************************************************)
(* The writer                                                              *)
(***************************************************************************)
\* A recipient of a content key, and the context its envelope is bound to.
To(ctx, holder) == [ctx |-> ctx, holder |-> holder]

\* A stage-gated section's key is derived and given; any other is drawn afresh.
ContentKey(s) == IF s.stage THEN <<"stage", s.name>> ELSE <<"fresh", s.name>>

\* encrypt_section: compress, then seal.
SealedBody(suite, s) ==
    IF s.from # "inline" \/ s.cs = 0 THEN Failed
    ELSE IF s.comp = "none" THEN SealChunked(ContentKey(s), s.name, suite, s.cs, s.plain)
    ELSE SealFrames(ContentKey(s), s.name, suite, Len(s.plain), CompressFrames(s.plain, s.cs))

\* The envelopes encrypt_section appends, one per recipient.
EnvelopesOf(suite, s) ==
    [i \in DOMAIN s.to |->
        <<"env", [name |-> s.name, ctx |-> s.to[i].ctx, to |-> s.to[i].holder,
                  suite |-> suite, key |-> ContentKey(s)]>>]

AllEnvelopes(order) ==
    FlattenSeq([i \in DOMAIN order.specs |-> EnvelopesOf(order.suite, order.specs[i])])

PlainOf(order, s) == IF s.from = "envelopes" THEN AllEnvelopes(order) ELSE s.plain

\* What is stored of one section, before it has a place.
Stored(order, s) ==
    LET plain == PlainOf(order, s) IN
    IF s.encrypt THEN SealedBody(order.suite, s)
    ELSE IF s.from = "external" THEN Ok(<<>>)
    ELSE IF s.comp = "zstd" THEN Ok(Compress(plain, s.cs))
    ELSE Ok(plain)

HasIndex(s) == s.cs # 0 /\ ChunkCount(Len(s.plain), s.cs) >= 2

\* Built from an inline payload, adopted for an external one if it reduces to its root.
IndexOf(s) ==
    IF s.index # <<>>
    THEN IF s.from = "external" /\ HasIndex(s)
         THEN AndThen(ParseIndex(s.index, ChunkCount(Len(s.plain), s.cs)),
                      LAMBDA cvs : IF VerifyRoot(cvs, Hash(s.plain), s.cs) THEN Ok(s.index)
                                   ELSE Failed)
         ELSE Failed
    ELSE IF s.from = "inline" /\ ~s.encrypt /\ HasIndex(s) THEN BuildIndex(s.plain, s.cs)
    ELSE Ok(<<>>)

MergedRoot(index) == RootFromCvs([i \in DOMAIN index |-> CvOf(index[i])]).value

\* A chunked payload's root is the merge of its index, any other's the hash.
RootOf(order, s) ==
    IF s.from = "inline" /\ ~s.encrypt /\ HasIndex(s)
    THEN MergedRoot(BuildIndex(s.plain, s.cs).value)
    ELSE Hash(PlainOf(order, s))

Zeros(n) == [i \in 1 .. n |-> <<"zero", 0>>]

\* pad_to, counting from the start of the file.
Padded(body, align) ==
    body \o Zeros((align - ((HeaderLen + Len(body)) % align)) % align)

\* Cells are appended to the body, and `offs` says where they went.
Place(done, cells, align, absent) ==
    LET body == Padded(done.body, align) IN
    IF absent THEN [done EXCEPT !.offs = Append(@, 0)]
    ELSE [done EXCEPT !.body = body \o cells, !.offs = Append(@, HeaderLen + Len(body))]

PlaceIndex(done, cells) == Place(done, cells, 1, cells = <<>>)

\* Pass 1 places the payloads one behind the other, pass 2 the indices behind them.
Payloads(order) ==
    LET done[n \in 0 .. Len(order.specs)] ==
            IF n = 0 THEN [body |-> <<>>, offs |-> <<>>]
            ELSE Place(done[n - 1], Stored(order, order.specs[n]).value, PayloadAlign,
                       order.specs[n].from = "external")
    IN done[Len(order.specs)]

Indices(order, payloads) ==
    LET done[n \in 0 .. Len(order.specs)] ==
            IF n = 0 THEN [body |-> payloads.body, offs |-> <<>>]
            ELSE PlaceIndex(done[n - 1], IndexOf(order.specs[n]).value)
    IN done[Len(order.specs)]

RecordFor(order, s, offset, indexOff) ==
    [kind |-> s.kind, name |-> s.name, flags |-> s.flags, comp |-> s.comp,
     enc |-> IF s.encrypt THEN "aead" ELSE "none",
     offset |-> offset, lenStored |-> Len(Stored(order, s).value),
     lenPlain |-> Len(PlainOf(order, s)), chunkSize |-> s.cs, indexOff |-> indexOff,
     root |-> RootOf(order, s)]

\* Pass 3: the table, the header that locates it, and the commitment over both.
TableFor(order, payloads, indices) ==
    [i \in DOMAIN order.specs |->
        <<"rec", RecordFor(order, order.specs[i], payloads.offs[i], indices.offs[i])>>]

Committed(suite, ro, body, table) ==
    LET tableOff == HeaderLen + Len(body)
        header == <<"hdr", [fixed |-> TRUE, suite |-> suite, count |-> Len(table),
                            tableOff |-> tableOff, footerOff |-> tableOff + Len(table),
                            incompat |-> {}, ro |-> ro]>>
        foot == [root |-> CommitmentRoot(header, table), cls |-> 0, pq |-> 0]
    IN <<header>> \o body \o table
       \o <<<<"foot", foot>>, <<"tail", tableOff + Len(table) + MinFooterLen>>>>

Assembled(order, ro, payloads, indices) ==
    Committed(order.suite, ro, indices.body, TableFor(order, payloads, indices))

\* A later version may add features that older ones can read and not write.
LaidWith(order, ro) ==
    LET payloads == Payloads(order) IN Assembled(order, ro, payloads, Indices(order, payloads))

Laid(order) == LaidWith(order, {"container_v1"})

CanLay(order) ==
    /\ order.suite \in KnownSuites
    /\ Len(order.specs) <= MaxSections
    /\ \A i \in DOMAIN order.specs :
         Stored(order, order.specs[i]).ok /\ IndexOf(order.specs[i]).ok
    /\ AllEnvelopes(order) # <<>> =>
         \E i \in DOMAIN order.specs : order.specs[i].from = "envelopes"

\* The signature goes behind the footer's root; nothing before it changes.
Signed(f, h, key) ==
    LET foot == [root |-> FootAt(f, h).root, cls |-> SlotLen, pq |-> SlotLen]
        total == h.footerOff + MinFooterLen + 2 * SlotLen
        sig(part) == <<"sig", [key |-> key, part |-> part, over |-> SigInput(h.suite, foot, total)]>>
    IN Slice(f, 0, h.footerOff) \o <<<<"foot", foot>>, sig("cls"), sig("pq"), <<"tail", total>>>>

(***************************************************************************)
(* The reader                                                              *)
(***************************************************************************)
\* What a reader may decompress.
Unpackable(r) == r.comp = "zstd" => WithinCaps(r.lenPlain, r.lenStored)

\* A section's plaintext before its root is checked.
ReadPlain(f, r) ==
    LET stored == Slice(f, r.offset, StoredEnd(r)) IN
    IF \/ "EXTERNAL" \in r.flags \/ r.enc # "none"
       \/ r.kind \notin KnownKinds /\ r.comp # "none"
    THEN Failed
    ELSE IF r.comp = "zstd" THEN Decompress(stored, r.lenPlain) ELSE Ok(stored)

\* The section's root is not compared.
ReadUnverified(f, r) == ReadPlain(f, r)

VerifiedBytes(f, r) ==
    AndThen(ReadPlain(f, r), LAMBDA plain : IF Hash(plain) = r.root THEN Ok(plain) ELSE Failed)

\* The manifest is verified against its root before it is decoded.
ManifestOf(f, secs) ==
    AndThen(VerifiedBytes(f, secs[CHOOSE i \in DOMAIN secs : secs[i].kind = "manifest"]),
            LAMBDA bytes : IF Len(bytes) = 1 /\ bytes[1][1] = "man" /\ DecodeOk(bytes[1][2])
                           THEN Ok(bytes[1][2]) ELSE Failed)

ParseSections(f, h, table, secs) ==
    IF /\ LayoutOk(f, h, secs)
       /\ FooterOk(f, h) /\ SlotsOk(h, FootAt(f, h)) /\ h.suite \in KnownSuites
       /\ FootAt(f, h).root = CommitmentRoot(f[1], table)
    THEN AndThen(ManifestOf(f, secs),
                 LAMBDA man : IF ValidateAgainst(man, secs)
                              THEN Ok([h |-> h, secs |-> secs, foot |-> FootAt(f, h), man |-> man])
                              ELSE Failed)
    ELSE Failed

ParseTable(f, h, table) ==
    IF TableOk(table) THEN ParseSections(f, h, table, [i \in DOMAIN table |-> table[i][2]])
    ELSE Failed

\* Bundle::parse.
Parse(f) ==
    IF /\ f # <<>> /\ f[1][1] = "hdr"
       /\ HeaderOk(f[1][2]) /\ FitsFile(f[1][2], Len(f)) /\ "container_v1" \in f[1][2].ro
    THEN ParseTable(f, f[1][2], Slice(f, f[1][2].tableOff, TableEnd(f[1][2])))
    ELSE Failed

\* An unsigned footer has no signature that fails.
VerifySignaturesPresent(f, b, key) ==
    \A i \in DOMAIN Slice(f, b.h.footerOff + 1, Len(f) - 1) :
        f[b.h.footerOff + 1 + i][2].key = key

\* Both components, over the transcript the footer itself gives.
VerifySignatures(f, b, key) ==
    LET sig(part) == <<"sig", [key |-> key, part |-> part,
                               over |-> SigInput(b.h.suite, b.foot, Len(f))]>>
    IN /\ b.foot.cls # 0 /\ b.foot.pq # 0
       /\ Slice(f, b.h.footerOff + 1, Len(f) - 1) = <<sig("cls"), sig("pq")>>

\* A record the caller holds counts only if it is the table's own.
Owned(b, r) == \E i \in DOMAIN b.secs : b.secs[i] = r

SectionBytes(f, b, r) ==
    IF Owned(b, r) /\ r.kind \in KnownKinds /\ "SEALED" \notin r.flags
    THEN VerifiedBytes(f, r) ELSE Failed

\* serve: what a platform hands to a player.
Serve(f, b, r) ==
    IF "PLAYER_VISIBLE" \in r.flags /\ r.flags \cap {"SEALED", "EXTERNAL"} = {}
    THEN SectionBytes(f, b, r) ELSE Failed

\* Listed by the flag alone.
ListPlayerVisible(b) ==
    LET shown == Picked(b.secs, {i \in DOMAIN b.secs : "PLAYER_VISIBLE" \in b.secs[i].flags})
    IN [i \in DOMAIN shown |->
          LET r == shown[i] IN
          [id |-> r.name, name |-> b.man.names[r.name + 1],
           path |-> IF r.name \in DOMAIN b.man.paths THEN {b.man.paths[r.name]} ELSE {},
           size |-> r.lenPlain, root |-> r.root, external |-> "EXTERNAL" \in r.flags,
           mirrors |-> IF "EXTERNAL" \in r.flags THEN b.man.external[r.name].mirrors ELSE {}]]

\* ServingManifest::from_bundle: what the platform lists, in table order.
ServingManifest(b) ==
    LET shown == Picked(b.secs, {i \in DOMAIN b.secs : /\ b.secs[i].kind \in KnownKinds
                                                      /\ "PLAYER_VISIBLE" \in b.secs[i].flags
                                                      /\ "SEALED" \notin b.secs[i].flags})
    IN [i \in DOMAIN shown |->
          LET r == shown[i] IN
          [id |-> r.name, name |-> b.man.names[r.name + 1],
           path |-> IF r.name \in DOMAIN b.man.paths THEN {b.man.paths[r.name]} ELSE {},
           size |-> r.lenPlain, root |-> r.root, external |-> "EXTERNAL" \in r.flags,
           mirrors |-> IF "EXTERNAL" \in r.flags THEN b.man.external[r.name].mirrors ELSE {}]]

\* served_artifacts: the columns of a stored row, and its flag word, which the ingest
\* copied from the record.  (The kind is not asked.)
StoreLists(b) == {r.name : r \in {r \in ToSet(b.secs) : /\ "PLAYER_VISIBLE" \in r.flags
                                                        /\ "SEALED" \notin r.flags}}

\* ServedArtifact::verify, for bytes fetched from elsewhere.
Accepts(artifact, bytes) == Len(bytes) = artifact.size /\ Hash(bytes) = artifact.root

\* The verified index of a section that may be read; <<>> when it has none.
IndexFor(f, b, r) ==
    IF ~Owned(b, r) \/ r.kind \notin KnownKinds \/ "SEALED" \in r.flags THEN Failed
    ELSE IF r.indexOff = 0 THEN Ok(<<>>)
    ELSE AndThen(ParseIndex(Slice(f, r.indexOff, IndexEnd(r)),
                            ChunkCount(r.lenPlain, r.chunkSize)),
                 LAMBDA cvs : IF VerifyRoot(cvs, r.root, r.chunkSize) THEN Ok(cvs) ELSE Failed)

\* The envelopes of every keys section, in file order; all are read before one is tried.
Envelopes(f, b) ==
    LET keys == Picked(b.secs, {i \in DOMAIN b.secs : b.secs[i].kind = "keys"}) IN
    AndThen(Collect([i \in DOMAIN keys |-> SectionBytes(f, b, keys[i])]),
            LAMBDA lists : LET all == FlattenSeq(lists) IN
                           IF \A i \in DOMAIN all : all[i][1] = "env" THEN Ok(all) ELSE Failed)

\* An envelope opens under whatever context it is tried with.
ContentKeyOfAnyContext(f, b, r, holder, ctx) ==
    AndThen(Envelopes(f, b), LAMBDA all :
        LET mine == Picked(all, {i \in DOMAIN all : /\ all[i][2].name = r.name
                                                   /\ all[i][2].to = holder})
        IN IF mine # <<>> THEN Ok(mine[1][2].key) ELSE Failed)

\* The first that opens gives the key.
SectionContentKey(f, b, r, holder, ctx) ==
    AndThen(Envelopes(f, b), LAMBDA all :
        LET mine == Picked(all, {i \in DOMAIN all :
                                   /\ all[i][2].name = r.name /\ all[i][2].ctx = ctx
                                   /\ all[i][2].to = holder /\ all[i][2].suite = b.h.suite})
        IN IF mine # <<>> THEN Ok(mine[1][2].key) ELSE Failed)

\* An empty body that was compressed has one chunk, or none in older files.
ChunksExpected(r, got) ==
    IF r.comp = "zstd" /\ r.lenPlain = 0 THEN got <= 1
    ELSE got = ChunkCount(r.lenPlain, r.chunkSize)

\* A frame's plaintext, of the length its place gives.
PartOf(frame, r, i) ==
    LET want == ChunkLen(r.lenPlain, i - 1, r.chunkSize) IN
    IF r.comp = "zstd" THEN DecompressExact(frame, want)
    ELSE IF Len(frame) = want THEN Ok(frame) ELSE Failed

Joined(r, frames) ==
    IF ChunksExpected(r, Len(frames))
    THEN AndThen(Collect([i \in DOMAIN frames |-> PartOf(frames[i], r, i)]),
                 LAMBDA parts : LET plain == FlattenSeq(parts) IN
                                IF Hash(plain) = r.root THEN Ok(plain) ELSE Failed)
    ELSE Failed

DecryptSection(f, b, r, key) ==
    IF /\ Owned(b, r) /\ r.kind \in KnownKinds
       /\ "EXTERNAL" \notin r.flags /\ r.enc = "aead"
       /\ r.comp = "zstd" => WithinCaps(r.lenPlain, r.lenStored)
    THEN AndThen(OpenFrames(key, r.name, b.h.suite, r.lenPlain,
                            Slice(f, r.offset, StoredEnd(r))),
                 LAMBDA frames : Joined(r, frames))
    ELSE Failed
=============================================================================
