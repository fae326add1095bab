------------------------------ MODULE Lifecycle ------------------------------
(***************************************************************************)
(* A challenge on disk and the commands run on it: `ctf pack` writes a     *)
(* bundle, `seal`, `transfer --bundle` and `sign` rewrite it, in place or  *)
(* to another path, `unseal` and `release` write what they recover.  Most  *)
(* read their input whole and once; `transfer` reads it twice, first for   *)
(* the chain and then to rewrite it, and `release` maps it, so each part   *)
(* is what the file holds when that part is read.  What a command makes it *)
(* makes in memory, and then writes one file after another: it truncates   *)
(* the file and writes from its start, so a crash leaves one file in part  *)
(* and none of those that were to follow.  Several commands run at once,   *)
(* on one file too, and nothing is locked.                                 *)
(***************************************************************************)
EXTENDS Authoring

CONSTANTS
    Docs,           \* authoring documents, with the files beside them
    Suite,          \* the suite `ctf pack` is given
    Given,          \* files the library wrote, this version of it or a later one: [order, ro]
    Handled,        \* bound: the documents whose bundle is worked on
    Recipients,     \* [ctx, holder] envelopes are addressed to
    OutNames,       \* what the files of the release directory may be called
    Chains,         \* payloads of an entitlement section, a cell for each record
    Author,         \* the hybrid key pair of `ctf sign`
    Rewrites,       \* pairs of a path to read and a path to write
    Workers,        \* invocations at the same time
    Cuts,           \* bound: how far before its end a write that breaks off may stop
    MaxCommands     \* bound: invocations in all

VARIABLES
    draft,      \* Option: the document
    made,       \* history: what the challenge was first written as, [order, ro]
    disk,       \* the cells of the bundle paths, "descriptor" and "plain"
    out,        \* the release directory: the cells of each file name
    reading,    \* Option for each worker: a command that has more to read
    jobs,       \* the writes each running command still has to make
    torn,       \* history: the files that are not the whole output of one command
    wrapped,    \* history: the [name, to] of every envelope a command made
    asked       \* how many commands were run

vars == <<draft, made, disk, out, reading, jobs, torn, wrapped, asked>>

BundlePaths == {"a", "b"}
DiskNames == BundlePaths \cup {"descriptor", "plain"}

ASSUME LifecycleAssumption ==
    /\ Rewrites \subseteq BundlePaths \X BundlePaths /\ Cuts \subseteq Nat /\ MaxCommands \in Nat
    /\ "release.json" \in OutNames /\ OutNames \cap DiskNames = {}

\* What a section is filled with: anything but a footer.  (A bundle inside a bundle is
\* left out: a write that breaks off might end in the footer of the inner one.)
Payload(cells) == Cells(cells) /\ \A c \in ToSet(cells) : c[1] # "foot"

ASSUME ChainsAssumption == \A chain \in Chains : Payload(chain)

Optional(S) == IsFiniteSet(S) /\ \A x, y \in S : x = y

\* A document as it is decoded, and the payloads beside it.
ASSUME DocsAssumption ==
    \A d \in Docs :
        /\ d.artifacts \in Seq(ToSet(d.artifacts)) /\ d.external \in Seq(ToSet(d.external))
        /\ \A x \in ToSet(d.artifacts) \cup ToSet(d.external) : Payload(x.plain)
        /\ \A a \in ToSet(d.artifacts) : Optional(a.path)
        /\ Optional(d.generate) /\ Optional(d.solver)
        /\ \A g \in d.generate : g.outputs \in Seq(ToSet(g.outputs)) /\ Optional(g.wasm)
        /\ IsFiniteSet(d.sealed) /\ \A s \in d.sealed : IsFiniteSet(s.members)

\* The sections a rewrite adds or makes anew.
AddedKinds == {"keys", "entitlement"}

\* The manifest of an order, the first of its sections.
ManifestIn(order) == order.specs[1].plain[1][2]

\* What a challenge is made of: a manifest, sections, and at most one of each kind that
\* a rewrite adds.  What is sealed is released under its own name.
Challenge(order) ==
    LET man == ManifestIn(order) IN
    /\ order.specs \in Seq(ToSet(order.specs)) /\ order.specs # <<>>
    /\ order.specs[1].kind = "manifest" /\ order.specs[1].from = "inline"
    /\ order.specs[1].plain = <<<<"man", man>>>>
    /\ {"names", "sealed"} \subseteq DOMAIN man /\ man = [key \in DOMAIN man |-> man[key]]
    /\ \A s \in ToSet(order.specs) :
         /\ Payload(s.plain) /\ Cells(s.index) /\ s.cs \in Nat /\ s.to \in Seq(Recipients)
         /\ s.kind \in AddedKinds => s.flags \cap {"SEALED", "EXTERNAL"} = {}
         /\ s.from = "envelopes" => s.kind = "keys"
         /\ "SEALED" \in s.flags => man.names[s.name + 1] \in OutNames \ {"release.json"}
    /\ \A i, j \in DOMAIN order.specs :
         i # j /\ order.specs[i].kind = order.specs[j].kind => order.specs[i].kind \notin AddedKinds

ASSUME GivenAssumption ==
    \A g \in Given : Challenge(g.order) /\ CanLay(g.order) /\ Parse(LaidWith(g.order, g.ro)).ok

NothingMade == [order |-> [suite |-> Suite, specs |-> <<>>], ro |-> {}]
Empty(names) == [n \in names |-> <<>>]

\* Contents for a bundle path or another output, and for the release directory;
\* `whole` is FALSE if they were made from a torn file.
Output(at, name, cells) == [at |-> at, name |-> name, cells |-> cells, open |-> FALSE, whole |-> TRUE]
ToDisk(name, cells) == Output("disk", name, cells)
ToOut(name, cells) == Output("out", name, cells)

(***************************************************************************)
(* What the commands compute                                               *)
(***************************************************************************)
\* The value of a result, if there is one.
Value(result) == IF result.ok THEN {result.value} ELSE {}

\* Commands refuse a file they may not rewrite, and a signed one.
MayChange(b) == MayRewrite(b.h) /\ b.foot.cls = 0

RecordNamed(b, name) ==
    Picked(b.secs, {i \in DOMAIN b.secs : b.man.names[b.secs[i].name + 1] = name})

\* unique_name and unique_keys_name: the first that is free.
FirstFree(names, candidates) ==
    Picked(candidates, {i \in DOMAIN candidates : candidates[i] \notin ToSet(names)})[1]

KeysNames == <<"keys", "section.keys", "keys.1", "keys.2">>
EntitlementNames == <<"entitlement", "entitlement.1", "entitlement.2">>

\* A section of some kind keeps its id, or gets the next one and a name for it.
Slot(b, kind, candidates) ==
    LET old == Picked(b.secs, {i \in DOMAIN b.secs : b.secs[i].kind = kind}) IN
    IF old # <<>> THEN [id |-> old[1].name, names |-> b.man.names]
    ELSE [id |-> Len(b.man.names),
          names |-> Append(b.man.names, FirstFree(b.man.names, candidates))]

\* The payload behind a root: the caller has only the root and the length.
Behind(r) == (CHOOSE s \in ToSet(made.order.specs) : Hash(s.plain) = r.root).plain

\* An external record is re-emitted without the index it had.
KeptWithoutIndex(f, b, r, names) ==
    LET spec == [InlineSpec(r.kind, r.name, r.flags, <<>>) EXCEPT !.cs = r.chunkSize, !.comp = r.comp]
    IN IF r.kind = "manifest"
       THEN [spec EXCEPT !.plain = <<<<"man", [b.man EXCEPT !.names = names]>>>>]
       ELSE IF "EXTERNAL" \in r.flags
       THEN [spec EXCEPT !.from = "external", !.plain = Behind(r)]
       ELSE [spec EXCEPT !.plain = SectionBytes(f, b, r).value]

\* A section as a rewrite re-emits it.
Kept(f, b, r, names) ==
    LET spec == [InlineSpec(r.kind, r.name, r.flags, <<>>) EXCEPT !.cs = r.chunkSize, !.comp = r.comp]
    IN IF r.kind = "manifest"
       THEN [spec EXCEPT !.plain = <<<<"man", [b.man EXCEPT !.names = names]>>>>]
       ELSE IF "EXTERNAL" \in r.flags
       THEN [spec EXCEPT !.from = "external", !.plain = Behind(r),
                         !.index = IF r.indexOff = 0 THEN <<>>
                                   ELSE Slice(f, r.indexOff, IndexEnd(r))]
       ELSE [spec EXCEPT !.plain = SectionBytes(f, b, r).value]

\* Every section but those of one kind, which can all be read; then that one, last.
Rebuilt(f, b, kind, names, last) ==
    LET rest == Picked(b.secs, {i \in DOMAIN b.secs : b.secs[i].kind # kind}) IN
    IF \A r \in ToSet(rest) : "EXTERNAL" \in r.flags \/ SectionBytes(f, b, r).ok
    THEN Ok([suite |-> b.h.suite,
             specs |-> [i \in DOMAIN rest |-> Kept(f, b, rest[i], names)] \o <<last>>])
    ELSE Failed

\* read_chain: the plaintext of the entitlement section, if it is a chain.
ChainIn(f, b) ==
    LET held == Picked(b.secs, {i \in DOMAIN b.secs : b.secs[i].kind = "entitlement"}) IN
    IF held # <<>> THEN Value(SectionBytes(f, b, held[1])) \cap Chains ELSE {}

\* embed_entitlement.
Embed(f, b, chain) ==
    LET slot == Slot(b, "entitlement", EntitlementNames) IN
    IF MayChange(b)
    THEN AndThen(Rebuilt(f, b, "entitlement", slot.names,
                         InlineSpec("entitlement", slot.id, {}, chain)),
                 Write)
    ELSE Failed

\* Whatever the context, the envelope is for the seal recipient.
EncryptedForSeal(order, id, to) ==
    [order EXCEPT !.specs = [i \in DOMAIN order.specs |->
        IF order.specs[i].name # id \/ order.specs[i].from # "inline" THEN order.specs[i]
        ELSE [order.specs[i] EXCEPT !.encrypt = TRUE, !.to = <<To("seal", to.holder)>>,
                                    !.cs = IF @ = 0 THEN MinChunk ELSE @]]]

\* The target is chunked if it was not: a stream needs chunks.  The keys section
\* is made anew, so naming it as the target encrypts nothing.
Encrypted(order, id, to) ==
    [order EXCEPT !.specs = [i \in DOMAIN order.specs |->
        IF order.specs[i].name # id \/ order.specs[i].from # "inline" THEN order.specs[i]
        ELSE [order.specs[i] EXCEPT !.encrypt = TRUE, !.to = <<to>>,
                                    !.cs = IF @ = 0 THEN MinChunk ELSE @]]]

SealTarget(f, b, r, to) ==
    LET slot == Slot(b, "keys", KeysNames) IN
    IF r.kind # "manifest" /\ "EXTERNAL" \notin r.flags
    THEN AndThen(Rebuilt(f, b, "keys", slot.names,
                         [InlineSpec("keys", slot.id, {}, <<>>) EXCEPT !.from = "envelopes"]),
                 LAMBDA order : Write(Encrypted(order, r.name, to)))
    ELSE Failed

\* seal_section.
Seal(f, b, name, to) ==
    IF /\ MayChange(b) /\ \A r \in ToSet(b.secs) : r.enc = "none"
       /\ RecordNamed(b, name) # <<>>
    THEN SealTarget(f, b, RecordNamed(b, name)[1], to) ELSE Failed

Verified(signed) ==
    AndThen(Parse(signed), LAMBDA b : IF VerifySignatures(signed, b, Author)
                                      THEN Ok(signed) ELSE Failed)

\* sign_bundle, with the parse and the verification of its own output.
Sign(f, b) == IF MayChange(b) THEN Verified(Signed(f, b.h, Author)) ELSE Failed

Opened(f, b, r, to) ==
    AndThen(SectionContentKey(f, b, r, to.holder, to.ctx), LAMBDA key : DecryptSection(f, b, r, key))

\* unseal_section.
Unseal(f, b, name, to) ==
    IF RecordNamed(b, name) # <<>> THEN Opened(f, b, RecordNamed(b, name)[1], to) ELSE Failed

(***************************************************************************)
(* release_at_event_end                                                    *)
(***************************************************************************)
\* Every sealed section, or those the declaration names.
Releases(b, r) == \A s \in b.man.sealed : b.man.names[r.name + 1] \in s.members

\* A declaration must list its members and be for the end of the event.
MayRelease(b) ==
    /\ MayRewrite(b.h)
    /\ \A s \in b.man.sealed : s.release = "event_end" /\ s.members # {"malformed"}

Members(b) ==
    Picked(b.secs, {i \in DOMAIN b.secs : "SEALED" \in b.secs[i].flags /\ Releases(b, b.secs[i])})

\* The report over them, in table order.
Report(b) ==
    LET members == Members(b) IN
    ToOut("release.json", <<<<"report",
        [root |-> b.foot.root, release |-> "event_end",
         members |-> [i \in DOMAIN members |-> [name |-> b.man.names[members[i].name + 1],
                                                size |-> members[i].lenPlain,
                                                root |-> members[i].root]]]>>>>)

(***************************************************************************)
(* Steps                                                                   *)
(***************************************************************************)
Init ==
    /\ \/ /\ draft \in {{d} : d \in Docs}
          /\ made = NothingMade
          /\ disk = Empty(DiskNames)
       \/ \E g \in Given :
            /\ draft = {} /\ made = g
            /\ disk = [Empty(DiskNames) EXCEPT !["a"] = LaidWith(g.order, g.ro)]
    /\ wrapped = UNION {{[name |-> s.name, to |-> to] : to \in ToSet(s.to)} :
                         s \in ToSet(made.order.specs)}
    /\ out = Empty(OutNames) /\ asked = 0
    /\ jobs = Empty(Workers) /\ reading = [w \in Workers |-> {}] /\ torn = {}

OnDisk(p) == Value(Parse(disk[p]))

\* A command is started by a worker that runs none.
Start(w) == jobs[w] = <<>> /\ reading[w] = {} /\ asked < MaxCommands /\ asked' = asked + 1

\* One that reads its input at once, and is left with what it has to write.
Run(w, writes) ==
    /\ Start(w)
    /\ jobs' = [jobs EXCEPT ![w] = writes]
    /\ UNCHANGED <<draft, disk, out, torn, reading>>

\* One that goes on reading, and one that is done with it.
Begin(w, command) ==
    /\ Start(w) /\ draft \subseteq Handled
    /\ reading' = [reading EXCEPT ![w] = {command}]
    /\ UNCHANGED <<draft, made, disk, out, jobs, torn, wrapped>>

Finish(w, writes) ==
    /\ reading' = [reading EXCEPT ![w] = {}]
    /\ jobs' = [jobs EXCEPT ![w] = writes]
    /\ UNCHANGED <<draft, made, disk, out, torn, wrapped, asked>>

PackDoc(w) ==
    /\ made = NothingMade
    /\ \E d \in draft : \E packed \in Value(Pack(d, Suite)) :
        /\ Run(w, <<ToDisk("a", packed), ToDisk("descriptor", <<<<"desc", ManifestFor(d)>>>>)>>)
        /\ made' = [order |-> PackOrder(d, Suite), ro |-> {"container_v1"}]
    /\ UNCHANGED wrapped

Idle(w) == jobs[w] = <<>> /\ reading[w] = {} /\ asked < MaxCommands /\ draft \subseteq Handled

\* A rewrite of one path's file, to the same path or another.
Rewriting(p, cells) == <<[ToDisk(p[2], cells) EXCEPT !.whole = p[1] \notin torn]>>

Rewrite(w, Result(_, _)) ==
    \E p \in Rewrites : \E b \in OnDisk(p[1]) : \E result \in Value(Result(disk[p[1]], b)) :
        Run(w, Rewriting(p, result))

\* transfer reads a chain and appends a handoff to it.
ReadChain(w) ==
    \E p \in Rewrites : \E b \in OnDisk(p[1]) : \E held \in ChainIn(disk[p[1]], b), chain \in Chains :
        /\ IsPrefix(held, chain) /\ Len(chain) = Len(held) + 1
        /\ Begin(w, [cmd |-> "transfer", paths |-> p, chain |-> chain])

\* Then it reads the bundle, as that now is, and puts the longer chain in.
TransferBundle(w) ==
    \E t \in reading[w] :
        /\ t.cmd = "transfer"
        /\ \E b \in OnDisk(t.paths[1]) : \E result \in Value(Embed(disk[t.paths[1]], b, t.chain)) :
               Finish(w, Rewriting(t.paths, result))

SealSection(w) ==
    /\ Idle(w)
    /\ \E s \in ToSet(made.order.specs), to \in Recipients :
        LET name == ManifestIn(made.order).names[s.name + 1] IN
        /\ Rewrite(w, LAMBDA f, b : Seal(f, b, name, to))
        /\ wrapped' = wrapped \cup {[name |-> s.name, to |-> to]}
    /\ UNCHANGED made

SignBundle(w) ==
    Idle(w) /\ Rewrite(w, Sign) /\ UNCHANGED <<made, wrapped>>

UnsealSection(w) ==
    /\ Idle(w)
    /\ \E p \in BundlePaths : \E b \in OnDisk(p), to \in Recipients, s \in ToSet(made.order.specs) :
       \E plain \in Value(Unseal(disk[p], b, ManifestIn(made.order).names[s.name + 1], to)) :
           Run(w, <<ToDisk("plain", plain)>>)
    /\ UNCHANGED <<made, wrapped>>

\* open_mapped, and the parse, which keeps all it has read but the payloads.
MapBundle(w) ==
    \E p \in BundlePaths : \E b \in OnDisk(p) :
        /\ MayRelease(b)
        /\ Begin(w, [cmd |-> "release", path |-> p, length |-> Len(disk[p]), bundle |-> b,
                     holder |-> {}, assets |-> <<>>])

\* The file as a mapping shows it now: as long as it was when it was mapped, with
\* zeros past the end of a file that has become shorter.
Mapped(m) ==
    [i \in 1 .. m.length |-> IF i <= Len(disk[m.path]) THEN disk[m.path][i] ELSE <<"zero", 0>>]

\* The next member is decrypted, with the one key the command was given and an
\* envelope found in the same file.
DecryptMember(w) ==
    /\ \E m \in reading[w] :
        /\ m.cmd = "release" /\ Len(m.assets) < Len(Members(m.bundle))
        /\ \E to \in Recipients :
            LET r == Members(m.bundle)[Len(m.assets) + 1] IN
            /\ m.holder \subseteq {to.holder}
            /\ \E plain \in Value(Opened(Mapped(m), m.bundle, r, To("seal", to.holder))) :
                 reading' = [reading EXCEPT ![w] =
                     {[m EXCEPT !.holder = {to.holder},
                                !.assets = Append(@, ToOut(m.bundle.man.names[r.name + 1], plain))]}]
    /\ UNCHANGED <<draft, made, disk, out, jobs, torn, wrapped, asked>>

ReleaseAs(w, Writes(_, _)) ==
    \E m \in reading[w] :
        /\ m.cmd = "release" /\ Len(m.assets) = Len(Members(m.bundle))
        /\ Finish(w, Writes(m.assets, Report(m.bundle)))

\* The report is the first thing written.
ReleaseReportFirst(w) == ReleaseAs(w, LAMBDA assets, report : <<report>> \o assets)

ReleaseBundle(w) == ReleaseAs(w, LAMBDA assets, report : Append(assets, report))

\* What was to be read next is not there, does not open, or was cut off under the
\* mapping: the command ends and has written nothing.
GiveUp(w) == reading[w] # {} /\ Finish(w, <<>>)

Found(write) == IF write.at = "disk" THEN disk[write.name] ELSE out[write.name]

Put(write, cells) ==
    IF write.at = "disk" THEN disk' = [disk EXCEPT ![write.name] = cells] /\ UNCHANGED out
    ELSE out' = [out EXCEPT ![write.name] = cells] /\ UNCHANGED disk

\* Bytes written from the start of a file, over what another command put there.
Over(cells, old) == cells \o SubSeq(old, Len(cells) + 1, Len(old))

\* Every file the command will write is opened first.
TruncateAll(w) ==
    /\ jobs[w] # <<>> /\ ~jobs[w][1].open
    /\ Put(jobs[w][1], <<>>)
    /\ jobs' = [jobs EXCEPT ![w] = [i \in DOMAIN @ |-> [jobs[w][i] EXCEPT !.open = TRUE]]]
    /\ torn' = torn \cup {jobs[w][1].name}
    /\ UNCHANGED <<draft, made, wrapped, asked, reading>>

\* std::fs::write: open with O_TRUNC, then write.
Truncate(w) ==
    /\ jobs[w] # <<>> /\ ~jobs[w][1].open
    /\ Put(jobs[w][1], <<>>)
    /\ jobs' = [jobs EXCEPT ![w][1].open = TRUE]
    /\ torn' = torn \cup {jobs[w][1].name}
    /\ UNCHANGED <<draft, made, wrapped, asked, reading>>

WriteNext(w) ==
    /\ jobs[w] # <<>> /\ jobs[w][1].open
    /\ Put(jobs[w][1], Over(jobs[w][1].cells, Found(jobs[w][1])))
    /\ jobs' = [jobs EXCEPT ![w] = Tail(@)]
    /\ torn' = IF Found(jobs[w][1]) = <<>> /\ jobs[w][1].whole THEN torn \ {jobs[w][1].name}
               ELSE torn \cup {jobs[w][1].name}
    /\ UNCHANGED <<draft, made, wrapped, asked, reading>>

\* An open file got some of its bytes, or none.
Crash(w) ==
    /\ jobs[w] # <<>>
    /\ \E n \in {0} \cup (IF jobs[w][1].open
                         THEN {Len(jobs[w][1].cells) - k : k \in Cuts} \cap Nat ELSE {}) :
          /\ Put(jobs[w][1], Over(SubSeq(jobs[w][1].cells, 1, n), Found(jobs[w][1])))
          /\ torn' = IF n = 0 THEN torn ELSE torn \cup {jobs[w][1].name}
    /\ jobs' = [jobs EXCEPT ![w] = <<>>]
    /\ UNCHANGED <<draft, made, wrapped, asked, reading>>

Next ==
    \E w \in Workers :
        \/ PackDoc(w) \/ SealSection(w) \/ SignBundle(w) \/ UnsealSection(w)
        \/ ReadChain(w) \/ TransferBundle(w)
        \/ MapBundle(w) \/ DecryptMember(w) \/ ReleaseBundle(w) \/ GiveUp(w)
        \/ Truncate(w) \/ WriteNext(w) \/ Crash(w)

Spec == Init /\ [][Next]_vars

(***************************************************************************)
(* Properties                                                              *)
(***************************************************************************)
\* Every variable has its type; a command has read before it writes, and has one
\* file open, the one it writes next.
TypeOK ==
    /\ draft \subseteq Docs /\ asked \in 0 .. MaxCommands
    /\ \A w \in Workers : reading[w] = {} \/ jobs[w] = <<>>
    /\ \A w \in Workers : \A i \in DOMAIN jobs[w] :
         /\ jobs[w][i].at = "disk" => jobs[w][i].name \in DOMAIN disk
         /\ jobs[w][i].at = "out" => jobs[w][i].name \in DOMAIN out
         /\ jobs[w][i].open => i = 1
    /\ torn \subseteq DOMAIN disk \cup DOMAIN out
    /\ wrapped \subseteq [name : Nat, to : Recipients]

\* `ctf validate` says ok of exactly the documents `ctf pack` makes a bundle of,
\* when the files they name can be read.  (A document with MaxSections artifacts is
\* one too many for the section table, which nothing checks before pack does.)
ValidateForetellsPack ==
    made = NothingMade =>
        \A d \in draft :
            SourcesFound(d) /\ Len(d.artifacts) + Len(d.external) < MaxSections =>
                (ValidateAccepts(d) <=> Pack(d, Suite).ok)

\* A bundle `ctf pack` made lists nothing the document seals, also after other
\* commands rewrote it, and no two of the sections it holds or its generator makes
\* are extracted to one file.
PackedAsDeclared ==
    \A d \in draft, p \in BundlePaths : \A b \in OnDisk(p) :
        LET listed == ServingManifest(b)
            inside == Picked(listed, {i \in DOMAIN listed : ~listed[i].external})
            goesTo(a) == IF a.path = {} THEN a.name ELSE CHOOSE x \in a.path : TRUE
        IN /\ \A a \in ToSet(listed), s \in d.sealed : a.name \notin s.members
           /\ \A i, j \in DOMAIN inside : goesTo(inside[i]) = goesTo(inside[j]) => i = j
           /\ \A a \in ToSet(inside) : goesTo(a) \notin {"manifest"} \cup OutputNames(d)

\* Whatever commands ran, in whatever order, interleaved and interrupted: a file
\* that opens holds the challenge it was first written as, section by section, with
\* at most an entitlement and the envelopes of its encrypted sections added.  What is
\* read out of it is what was written; a file that is not the whole output of one
\* command may have the table of one over the payloads of another, which do not read.
RewritesKeepTheChallenge ==
    \A p \in BundlePaths : \A b \in OnDisk(p) :
        LET first == ManifestIn(made.order)
            recs(s) == {r \in ToSet(b.secs) : r.name = s.name}
            added == {r \in ToSet(b.secs) : \A s \in ToSet(made.order.specs) : s.name # r.name}
            gives(got, want) == got = want \/ (p \in torn /\ ~got.ok)
        IN /\ b.h.ro = made.ro
           /\ SubSeq(b.man.names, 1, Len(first.names)) = first.names
           /\ [b.man EXCEPT !.names = first.names] = first
           /\ \A i, j \in DOMAIN b.secs : b.secs[i].kind = b.secs[j].kind /\ i # j =>
                 b.secs[i].kind \notin AddedKinds
           /\ \A r \in added : r.kind \in AddedKinds /\ r.flags = {}
           /\ \A s \in ToSet(made.order.specs) \ {made.order.specs[1]} :
                s.kind \notin AddedKinds =>
                \E r \in recs(s) :
                    /\ <<r.kind, r.flags, r.comp>> = <<s.kind, s.flags, s.comp>>
                    /\ r.lenPlain = Len(s.plain) /\ r.root = Hash(s.plain)
                    /\ r.chunkSize = s.cs \/ (r.enc = "aead" /\ s.cs = 0)
                    /\ r.enc = "none" /\ "EXTERNAL" \notin r.flags
                       /\ r.kind \in KnownKinds /\ Unpackable(r) =>
                         gives(SectionBytes(disk[p], b, r), Ok(s.plain))
                    /\ s.from = "external" /\ s.index # <<>> /\ s.kind \in KnownKinds =>
                         gives(IndexFor(disk[p], b, r), ParseIndex(s.index, Len(s.index)))

\* An encrypted section of a file one command wrote has an envelope in the same
\* file: it opens to its plaintext for a recipient a command was given for that
\* section and for nobody else.  What `unseal` put out is one section's plaintext.
\* (Two that write one file at once, of which one breaks off, can leave the records
\* of one over the envelopes of the other.)
HoldersCanOpen ==
    /\ \A p \in BundlePaths \ torn : \A b \in OnDisk(p) :
        \A r \in ToSet(b.secs) : r.enc = "aead" =>
            LET can == {to \in Recipients : Opened(disk[p], b, r, to).ok} IN
            /\ can # {}
            /\ \A to \in can : /\ [name |-> r.name, to |-> to] \in wrapped
                               /\ Hash(Opened(disk[p], b, r, to).value) = r.root
    /\ disk["plain"] # <<>> /\ "plain" \notin torn =>
        \E s \in ToSet(made.order.specs), to \in Recipients :
            /\ s.plain = disk["plain"] \/ (s.kind = "entitlement" /\ disk["plain"] \in Chains)
            /\ [name |-> s.name, to |-> to] \in wrapped

\* What is in the release directory was sealed, and declared for the end of the
\* event; a report is written after every asset it names, so unless a later command
\* tore one of them they are all there and whole, and it names all that are due.
ReleaseIsDeclared ==
    LET specs == ToSet(made.order.specs)
        man == ManifestIn(made.order)
        declares(n) == \A d \in man.sealed : d.release = "event_end" /\ n \in d.members
        due == {s \in specs : "SEALED" \in s.flags /\ declares(man.names[s.name + 1])}
        name(s) == man.names[s.name + 1]
    IN /\ \A n \in DOMAIN out \ {"release.json"} : out[n] # <<>> =>
            \E s \in due : name(s) = n /\ IsPrefix(out[n], s.plain)
       /\ out["release.json"] # <<>> =>
            LET members == out["release.json"][1][2].members IN
            /\ Len(members) = Cardinality(due)
            /\ \A s \in due :
                 /\ out[name(s)] = s.plain \/ name(s) \in torn
                 /\ \E i \in DOMAIN members : members[i] = [name |-> name(s), size |-> Len(s.plain),
                                                           root |-> Hash(s.plain)]
=============================================================================
