------------------------------ MODULE Container ------------------------------
(***************************************************************************)
(* One .ctf file from the writer to its readers: `write_bundle` lays out   *)
(* what it is given, `sign_bundle` appends the footer's signatures, the    *)
(* file is stored and sent around, where cells of it may change or another *)
(* tool may rewrite it, and a reader opens it and asks for its contents.   *)
(* The writer and the signer work on bytes in memory and a reader on bytes *)
(* that do not change under it, so each is one step; only the passes over  *)
(* the sections and over a mirror's stream take several.                   *)
(***************************************************************************)
EXTENDS Format

CONSTANTS
    Orders,         \* what write_bundle may be asked for: [suite, specs]
    Signers,        \* hybrid key pairs, named alike for both halves
    Trusted,        \* the key pair the readers hold the public half of
    Holders,        \* owners of a KEM key pair envelopes are addressed to
    Contexts,       \* envelope contexts
    MaxEdits        \* bound: how often a stored file is changed

VARIABLES
    file,       \* the stored cells
    made,       \* history: the order the file was written from, and that file
    edits,      \* how often it was changed since
    bundle,     \* what the reader parsed
    reader      \* where the reader is, and the last answer it got

vars == <<file, made, edits, bundle, reader>>

ByTrusted(c) == c[1] = "sig" /\ c[2].key = Trusted

\* What a caller's payload may hold: anything, the cells of another file too, but no
\* signature of the trusted key, which only its holder can make.
PayloadCell(c) == WellFormed(c) /\ ~ByTrusted(c)

PayloadCells(cells) ==
    cells \in Seq(ToSet(cells)) /\ \A c \in ToSet(cells) : PayloadCell(c)

ASSUME EditsAssumption == MaxEdits \in Nat

ASSUME OrdersAssumption ==
    \A order \in Orders :
        /\ order.specs \in Seq(ToSet(order.specs))
        /\ \A s \in ToSet(order.specs) :
             /\ PayloadCells(s.plain) /\ PayloadCells(s.index)
             /\ s.to \in Seq(ToSet(s.to)) /\ s.cs \in Nat
             /\ \A t \in ToSet(s.to) : t = To(t.ctx, t.holder)

\* What is made with a section's own key or for it: an envelope, and a frame of a
\* stage.  (Other keys are drawn when the section is sealed; nobody had them before.)
MadeWithKeys(c) == c[1] = "env" \/ (c[1] = "aead" /\ c[2].key[1] = "stage")

KeepsKeys(c) == ~MadeWithKeys(c) /\ (c[1] = "zstd" => \A d \in ToSet(c[2]) : ~MadeWithKeys(d))

\* Nobody wrapped or used a section's key before the section was written: only what
\* is said of sealed sections needs this.
ASSUME SecretsAssumption ==
    \A order \in Orders : \A s \in ToSet(order.specs) :
        \A c \in ToSet(s.plain) \cup ToSet(s.index) : KeepsKeys(c)

(***************************************************************************)
(* Steps of the author                                                     *)
(***************************************************************************)
NoAnswer == [job |-> "none", name |-> 0, by |-> "nobody", ctx |-> "none", at |-> 0,
             ok |-> FALSE, bytes |-> <<>>]

NoReport == [verified |-> {}, external |-> {}, unverifiable |-> {}, mismatches |-> {}]

Closed == [pc |-> "closed", authentic |-> FALSE, answer |-> NoAnswer,
           at |-> 0, report |-> NoReport, mirror |-> <<>>]

Init ==
    /\ file = <<>> /\ edits = 0 /\ bundle = <<>> /\ reader = Closed
    /\ made = [order |-> [suite |-> "s1", specs |-> <<>>], file |-> <<>>, signed |-> FALSE]

\* write_bundle parses what it wrote before it returns it.
WriteBundle(order) ==
    /\ file = <<>>
    /\ CanLay(order) /\ Parse(Laid(order)).ok
    /\ file' = Laid(order)
    /\ made' = [order |-> order, file |-> Laid(order), signed |-> FALSE]
    /\ UNCHANGED <<edits, bundle, reader>>

\* The output is parsed and verified with the public key the caller gave.
SignBundle(key, public) ==
    LET now == Parse(file)
        signed == Signed(file, now.value.h, key)
    IN /\ file # <<>> /\ reader.pc = "closed"
       /\ key = Trusted => edits = 0       \* the author signs what it wrote
       /\ now.ok /\ MayRewrite(now.value.h) /\ now.value.foot.cls = 0
       /\ Parse(signed).ok /\ VerifySignatures(signed, Parse(signed).value, public)
       /\ file' = signed
       /\ made' = IF edits = 0 THEN [made EXCEPT !.file = signed, !.signed = key = Trusted]
                  ELSE made
       /\ UNCHANGED <<edits, bundle, reader>>

(***************************************************************************)
(* What may happen to a stored file                                        *)
(***************************************************************************)
\* One cell is blanked, overwritten, or repeats or changes places with another of
\* its kind.
CellEdits(f) ==
    LET alike(p) == {q \in DOMAIN f : f[q][1] = f[p][1]} IN
    UNION {{[f EXCEPT ![p] = c] : c \in {<<"zero", 0>>, <<"data", 9>>} \cup {f[q] : q \in alike(p)}}
           \cup {[f EXCEPT ![p] = f[q], ![q] = f[p]] : q \in alike(p)}
           : p \in DOMAIN f}

LengthEdits(f) ==
    {Append(f, <<"zero", 0>>), Append(f, f[Len(f)])}
        \cup {SubSeq(f, 1, n) : n \in {Len(f) - 1, Len(f) - 2}}

\* One field of a structure takes another value.
Variants(x, values) == UNION {{[x EXCEPT ![k] = v] : v \in values[k]} : k \in DOMAIN values}

HeaderValues(h) ==
    [fixed |-> {FALSE}, suite |-> {"s2", "s9"}, count |-> 0 .. h.count + 1,
     tableOff |-> {0, h.tableOff - 1, h.tableOff + 1} \cap Nat,
     footerOff |-> {h.tableOff, h.footerOff - 1, h.footerOff + 1} \cap Nat,
     incompat |-> {{"unknown"}}, ro |-> {{}, {"container_v1", "future"}}]

HeaderEdits(f) ==
    UNION {{[f EXCEPT ![p] = <<"hdr", v>>] : v \in Variants(f[p][2], HeaderValues(f[p][2]))}
           : p \in {p \in DOMAIN f : f[p][1] = "hdr"}}

RecordValues(f, r) ==
    LET places == DOMAIN f
        near(n) == {n - 1, n + 1} \cap Nat
    IN [name |-> {0, 1}, kind |-> {"manifest", "artifact", "solver", "keys", "future"},
        flags |-> {r.flags \cup {x} : x \in {"SEALED", "PLAYER_VISIBLE", "EXTERNAL", "OPTIONAL"}}
                  \cup {r.flags \ {x} : x \in r.flags},
        enc |-> {"none", "aead"}, comp |-> {"none", "zstd"},
        offset |-> places, lenStored |-> near(r.lenStored) \cup {0},
        lenPlain |-> near(r.lenPlain) \cup {0, MaxPlain + 1},
        chunkSize |-> {0, 1, MinChunk, MaxChunk}, indexOff |-> places \cup {0},
        root |-> {f[q][2].root : q \in {q \in places : f[q][1] = "rec"}}]

RecordEdits(f) ==
    UNION {{[f EXCEPT ![p] = <<"rec", v>>] : v \in Variants(f[p][2], RecordValues(f, f[p][2]))}
           : p \in {p \in DOMAIN f : f[p][1] = "rec"}}

FooterEdits(f) ==
    UNION {{[f EXCEPT ![p] = <<"foot", v>>] :
              v \in Variants(f[p][2], [cls |-> 0 .. 2, pq |-> 0 .. 2])}
           : p \in {p \in DOMAIN f : f[p][1] = "foot"}}

Edit ==
    /\ file # <<>> /\ reader.pc = "closed" /\ edits < MaxEdits
    /\ \E f \in CellEdits(file) \cup LengthEdits(file) \cup HeaderEdits(file)
                \cup RecordEdits(file) \cup FooterEdits(file) :
         f # file /\ file' = f
    /\ edits' = edits + 1
    /\ UNCHANGED <<made, bundle, reader>>

\* Another tool, with another idea of the rules, commits to the table it finds.
Recommit ==
    LET h == file[1][2] IN
    /\ file # <<>> /\ reader.pc = "closed" /\ edits > 0
    /\ file[1][1] = "hdr"
    /\ TableEnd(h) <= h.footerOff /\ h.footerOff < Len(file)
    /\ file[h.footerOff + 1][1] = "foot"
    /\ file' = [file EXCEPT ![h.footerOff + 1][2].root =
                    CommitmentRoot(file[1], Slice(file, h.tableOff, TableEnd(h)))]
    /\ file' # file
    /\ UNCHANGED <<made, edits, bundle, reader>>

(***************************************************************************)
(* Steps of a reader                                                       *)
(***************************************************************************)
Open ==
    /\ file # <<>> /\ reader.pc = "closed"
    /\ IF Parse(file).ok
       THEN bundle' = Parse(file).value /\ reader' = [Closed EXCEPT !.pc = "open"]
       ELSE bundle' = <<>> /\ reader' = [Closed EXCEPT !.pc = "refused"]
    /\ UNCHANGED <<file, made, edits>>

Ready == reader.pc = "open" /\ reader.answer = NoAnswer

Authenticate ==
    /\ Ready /\ ~reader.authentic
    /\ VerifySignatures(file, bundle, Trusted)
    /\ reader' = [reader EXCEPT !.authentic = TRUE]
    /\ UNCHANGED <<file, made, edits, bundle>>

\* The records a caller may ask with: the table's, or one kept from the file as
\* it was written.
Askable == ToSet(bundle.secs) \cup ToSet(Parse(made.file).value.secs)

\* What a mirror may send for an external section: its payload, part of it, more
\* than it, or something else at one place.
MirrorSends(plain) ==
    {SubSeq(plain, 1, n) : n \in 0 .. Len(plain)} \cup {Append(plain, <<"data", 9>>)}
        \cup {[plain EXCEPT ![i] = <<"data", 9>>] : i \in DOMAIN plain}

\* The sections the file was written with, and the payload one was written for.
Written(name) == {s \in ToSet(made.order.specs) : s.name = name}

Original(name) == {PlainOf(made.order, s) : s \in Written(name)}

Reply(asked, result) ==
    /\ reader' = [reader EXCEPT !.answer = [asked EXCEPT !.ok = result.ok, !.bytes = result.value]]
    /\ UNCHANGED <<file, made, edits, bundle>>

Asked(job, r) == [NoAnswer EXCEPT !.job = job, !.name = r.name]

AskBytes ==
    Ready /\ \E r \in Askable : Reply(Asked("bytes", r), SectionBytes(file, bundle, r))

AskServed ==
    Ready /\ \E r \in ToSet(bundle.secs) : Reply(Asked("serve", r), Serve(file, bundle, r))

\* A recipient unwraps the content key and decrypts with it.
AskDecrypted ==
    Ready /\ \E r \in Askable, holder \in Holders, ctx \in Contexts :
        LET key == SectionContentKey(file, bundle, r, holder, ctx) IN
        Reply([Asked("decrypt", r) EXCEPT !.by = holder, !.ctx = ctx],
              IF key.ok THEN DecryptSection(file, bundle, r, key.value) ELSE Failed)

\* The key of a stage is derived from the flag of the one before, without an envelope.
AskStage ==
    Ready /\ \E r \in Askable :
        Reply(Asked("stage", r), DecryptSection(file, bundle, r, <<"stage", r.name>>))

\* One chunk, as a mirror sends it, is checked against the verified index.
AskChunk ==
    Ready /\ \E r \in Askable : \E plain \in Original(r.name) :
    \E sent \in MirrorSends(plain) :
    \E i, j \in 0 .. ChunkCount(Len(plain), MinChunk) :
        LET index == IndexFor(file, bundle, r)
            data == Chunk(sent, j, r.chunkSize)
        IN /\ index.ok /\ index.value # <<>>
           /\ Reply([Asked("chunk", r) EXCEPT !.at = i],
                    IF VerifyChunk(index.value, r.chunkSize, i, data) THEN Ok(data) ELSE Failed)

\* verify_inline_sections, one section at a time: a root that does not match is
\* noted and the pass goes on, anything else ends it.
StartVerify ==
    /\ Ready
    /\ reader' = [reader EXCEPT !.pc = "verifying", !.at = 1, !.report = NoReport]
    /\ UNCHANGED <<file, made, edits, bundle>>

\* Bytes that could be read count as verified.
FindingWithoutRoot(f, r) ==
    IF "EXTERNAL" \in r.flags THEN "external"
    ELSE IF r.enc # "none" \/ (r.kind \notin KnownKinds /\ r.comp # "none") THEN "unverifiable"
    ELSE IF ReadPlain(f, r).ok THEN "verified" ELSE "abort"

\* Which list of the report a section goes to; "abort" ends the pass.
Finding(f, r) ==
    IF "EXTERNAL" \in r.flags THEN "external"
    ELSE IF r.comp # "none" /\ ~WithinCaps(r.lenPlain, r.lenStored) THEN "abort"
    ELSE IF r.enc # "none" \/ (r.kind \notin KnownKinds /\ r.comp # "none") THEN "unverifiable"
    ELSE IF ~ReadPlain(f, r).ok THEN "abort"
    ELSE IF VerifiedBytes(f, r).ok THEN "verified" ELSE "mismatches"

VerifySection ==
    /\ reader.pc = "verifying" /\ reader.at \in DOMAIN bundle.secs
    /\ LET r == bundle.secs[reader.at]
           finding == Finding(file, r)
       IN reader' =
            IF finding = "abort" THEN [reader EXCEPT !.pc = "aborted"]
            ELSE [reader EXCEPT !.at = @ + 1, !.report[finding] = @ \cup {r.name}]
    /\ UNCHANGED <<file, made, edits, bundle>>

EndVerify ==
    /\ reader.pc = "verifying" /\ reader.at \notin DOMAIN bundle.secs
    /\ reader' = [reader EXCEPT !.pc = "reported"]
    /\ UNCHANGED <<file, made, edits, bundle>>

Outside(b) == {i \in DOMAIN b.secs : "EXTERNAL" \in b.secs[i].flags}

StartStream ==
    /\ Ready
    /\ \E i \in Outside(bundle) : \E plain \in Original(bundle.secs[i].name) :
         \E sent \in MirrorSends(plain) :
            reader' = [reader EXCEPT !.pc = "streaming", !.at = 0, !.mirror = sent,
                                     !.answer.name = bundle.secs[i].name]
    /\ UNCHANGED <<file, made, edits, bundle>>

Streamed == CHOOSE r \in ToSet(bundle.secs) : r.name = reader.answer.name

Settle(ok) == [reader EXCEPT !.pc = "streamed", !.answer.job = "stream", !.answer.ok = ok]

\* The length is compared at the end of the stream only.
StreamReadOn(n) ==
    /\ reader.pc = "streaming" /\ n >= 1 /\ reader.at + n <= Len(reader.mirror)
    /\ reader' = [reader EXCEPT !.at = @ + n]
    /\ UNCHANGED <<file, made, edits, bundle>>

\* verify_stream: `read` returns between one unit and a buffer of what is left.
StreamRead(n) ==
    /\ reader.pc = "streaming" /\ n >= 1 /\ reader.at + n <= Len(reader.mirror)
    /\ reader' = IF reader.at + n > Streamed.lenPlain THEN Settle(FALSE)
                 ELSE [reader EXCEPT !.at = @ + n]
    /\ UNCHANGED <<file, made, edits, bundle>>

StreamEnd ==
    /\ reader.pc = "streaming" /\ reader.at = Len(reader.mirror)
    /\ reader' = Settle(/\ reader.at = Streamed.lenPlain
                        /\ Hash(SubSeq(reader.mirror, 1, reader.at)) = Streamed.root)
    /\ UNCHANGED <<file, made, edits, bundle>>

Next ==
    \/ \E order \in Orders : WriteBundle(order)
    \/ \E key, public \in Signers : SignBundle(key, public)
    \/ Edit \/ Recommit
    \/ Open \/ Authenticate
    \/ AskBytes \/ AskServed \/ AskChunk \/ AskDecrypted \/ AskStage
    \/ StartVerify \/ VerifySection \/ EndVerify
    \/ StartStream \/ (\E n \in 1 .. MaxChunk : StreamRead(n)) \/ StreamEnd

Spec == Init /\ [][Next]_vars

(***************************************************************************)
(* Properties                                                              *)
(***************************************************************************)
\* Every variable has its type, and only an opened file has a bundle.
TypeOK ==
    /\ \A p \in DOMAIN file : file[p][1] \in Tags
    /\ edits \in 0 .. MaxEdits
    /\ reader.pc \in {"closed", "refused", "open", "verifying", "aborted", "reported",
                      "streaming", "streamed"}
    /\ bundle # <<>> <=> reader.pc \notin {"closed", "refused"}
    /\ reader.authentic => bundle.foot.cls = SlotLen /\ bundle.foot.pq = SlotLen

\* Each cell before the footer of a file that was opened belongs to the header,
\* to the table, to one payload or to one chunk index, and to nothing else; one
\* that belongs to none is zero.  Whoever wrote the table, two readers cannot
\* disagree about what a byte is (validate_layout, check_padding).
EveryByteHasOneOwner ==
    bundle # <<>> =>
        \A o \in 0 .. bundle.h.footerOff - 1 :
            LET S == ToSet(bundle.secs)
                within(lo, n) == lo <= o /\ o < lo + n
                owners ==
                    (IF o < HeaderLen THEN {<<"header", 0>>} ELSE {})
                    \cup (IF within(bundle.h.tableOff, bundle.h.count) THEN {<<"table", 0>>} ELSE {})
                    \cup {<<"payload", r.name>> : r \in {r \in S : /\ "EXTERNAL" \notin r.flags
                                                                 /\ within(r.offset, r.lenStored)}}
                    \cup {<<"index", r.name>> :
                            r \in {r \in S : /\ r.indexOff # 0
                                            /\ within(r.indexOff, ChunkCount(r.lenPlain, r.chunkSize))}}
            IN /\ Cardinality(owners) <= 1
               /\ owners = {} => file[o + 1] = <<"zero", 0>>

\* Only stored payloads and chunk indices may differ from the file that was
\* signed: a signature that verifies fixes the length, the header, the table, the
\* padding and the footer (the transcript of sig_input, with T8).
SignatureFixesTheFile ==
    reader.authentic =>
        LET outside(o) == \A r \in ToSet(bundle.secs) :
                /\ "EXTERNAL" \in r.flags \/ o \notin r.offset .. StoredEnd(r) - 1
                /\ r.indexOff = 0 \/ o \notin r.indexOff .. IndexEnd(r) - 1
        IN /\ made.signed /\ Len(file) = Len(made.file)
           /\ \A p \in DOMAIN file : outside(p - 1) => file[p] = made.file[p]

\* The envelopes are what the keys sections hold.
KeysAreReadable ==
    /\ \A s \in ToSet(made.order.specs) : s.kind = "keys" <=> s.from = "envelopes"
    /\ \A r \in ToSet(bundle.secs) : r.kind = "keys" => Unpackable(r)

\* A reader that verified the signature is handed nothing but the plaintext the
\* author signed, whatever happened to the file since and whichever way it asks:
\* whole, served, decrypted, chunk by chunk or streamed from a mirror.
NothingButWhatWasSigned ==
    reader.authentic /\ reader.answer.ok =>
        \E s \in Written(reader.answer.name) :
            LET plain == PlainOf(made.order, s) IN
            CASE reader.answer.job = "chunk" ->
                    reader.answer.bytes = Chunk(plain, reader.answer.at, s.cs)
              [] reader.answer.job = "stream" -> reader.mirror = plain
              [] reader.answer.job = "serve" ->
                    reader.answer.bytes = plain /\ "PLAYER_VISIBLE" \in s.flags
              [] OTHER -> reader.answer.bytes = plain

\* What the table marks SEALED reaches a reader only through a key it was wrapped
\* to, under the context it was wrapped for, or through the key of its stage; no
\* plain read, serving request or chunk check gives any of it away.  (The empty
\* body opens under every key, there is nothing in it.)
SealedTakesItsKey ==
    reader.answer.ok /\ reader.answer.bytes # <<>> =>
        \A r \in ToSet(bundle.secs) :
            r.name = reader.answer.name /\ "SEALED" \in r.flags =>
                \E s \in Written(r.name) :
                    \/ /\ reader.answer.job = "decrypt"
                       /\ To(reader.answer.ctx, reader.answer.by) \in ToSet(s.to)
                    \/ reader.answer.job = "stage" /\ s.stage

\* The verify pass puts every section on exactly one list, and the lists mean
\* what they say: a section the boundary would hand out is `verified` exactly if
\* it would, and in a bundle that is authentic a mismatch is a section whose
\* stored bytes were changed and a verified one still says what was signed.
ReportIsTrue ==
    reader.pc = "reported" =>
        LET lists == [l \in DOMAIN NoReport |-> reader.report[l]]
            plain(r) == SectionBytes(file, bundle, r)
        IN \A r \in ToSet(bundle.secs) :
            /\ Cardinality({l \in DOMAIN lists : r.name \in lists[l]}) = 1
            /\ plain(r).ok => r.name \in lists["verified"]
            /\ r.name \in lists["verified"] /\ r.kind \in KnownKinds => plain(r).ok
            /\ reader.authentic /\ r.name \in lists["mismatches"] =>
                    \E o \in r.offset .. StoredEnd(r) - 1 : file[o + 1] # made.file[o + 1]
            /\ reader.authentic /\ r.name \in lists["verified"] =>
                    ReadPlain(file, r).value \in Original(r.name)

\* What write_bundle and sign_bundle return, their own reader opens and gives
\* back: every section of a kind it knows that takes no key, and to each recipient
\* what was wrapped to it, if the envelopes are in the keys section.  What was
\* compressed comes back within the caps, which the writer does not ask.  A body of
\* MaxIndex + 1 chunks does not: the counter of open_chunked_frames is advanced
\* once too often.
WrittenFileReadsBack ==
    file = made.file /\ file # <<>> =>
        /\ reader.pc # "refused"
        /\ reader.pc = "aborted" => \E r \in ToSet(bundle.secs) : ~Unpackable(r)
        /\ reader.report.mismatches = {}
        /\ reader.answer.job \in {"bytes", "decrypt"} =>
            \E s \in Written(reader.answer.name), r \in ToSet(bundle.secs) :
                LET plain == PlainOf(made.order, s)
                    whole == reader.answer.ok /\ reader.answer.bytes = plain
                    to == To(reader.answer.ctx, reader.answer.by)
                IN /\ r.name = s.name
                   /\ IF reader.answer.job = "bytes"
                      THEN /\ ~s.encrypt /\ s.kind \in KnownKinds /\ s.from # "external"
                           /\ Unpackable(r)
                           => whole
                      ELSE /\ s.encrypt /\ s.kind \in KnownKinds /\ to \in ToSet(s.to)
                           /\ Unpackable(r) /\ KeysAreReadable
                           => whole \/ Len(plain) > MaxIndex * s.cs

\* What a platform lists of a bundle and what it can serve are the same: no two
\* listed artifacts share a name or a path, one that is in the file is served and
\* passes its own listing unless its bytes were changed, `seal` encrypted them (the
\* listing cannot tell: an encrypted artifact is listed and never served) or they
\* were compressed beyond the caps, one that is not has a mirror and the listing its
\* payload passes, and nothing unlisted is served.
ListingAndServingAgree ==
    bundle # <<>> =>
        LET listed == ServingManifest(bundle)
            record(a) == CHOOSE r \in ToSet(bundle.secs) : r.name = a.id
            served(r) == Serve(file, bundle, r)
        IN /\ \A i, j \in DOMAIN listed :
                \/ i = j
                \/ /\ listed[i].name # listed[j].name
                   /\ listed[i].path \cap listed[j].path = {}
           /\ \A a \in ToSet(listed) :
                IF a.external THEN a.mirrors # {} /\ a.size = bundle.man.external[a.id].size
                ELSE /\ served(record(a)).ok => Accepts(a, served(record(a)).value)
                     /\ file = made.file => (served(record(a)).ok <=>
                            record(a).enc = "none" /\ Unpackable(record(a)))
           /\ \A r \in ToSet(bundle.secs) :
                served(r).ok => \E a \in ToSet(listed) : a.id = r.name /\ ~a.external
           /\ {a.id : a \in ToSet(listed)} \subseteq StoreLists(bundle)
           /\ \A r \in ToSet(bundle.secs) : r.name \in StoreLists(bundle) =>
                r.kind = "future" \/ \E a \in ToSet(listed) : a.id = r.name

\* A stream from a mirror is accepted exactly when every chunk of it, taken on its
\* own, passes the section's chunk index, and never past the length of the record.
StreamAgreesWithChunks ==
    /\ reader.pc \in {"streaming", "streamed"} => reader.at <= Streamed.lenPlain
    /\ reader.pc = "streamed" =>
        LET index == IndexFor(file, bundle, Streamed)
            cs == Streamed.chunkSize
            chunks == ChunkCount(Len(reader.mirror), cs)
        IN index.ok /\ index.value # <<>> =>
            (reader.answer.ok <=>
                /\ Len(reader.mirror) = Streamed.lenPlain
                /\ \A i \in 0 .. chunks - 1 :
                    VerifyChunk(index.value, cs, i, Chunk(reader.mirror, i, cs)))
=============================================================================
