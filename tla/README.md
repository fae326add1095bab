# A formal model of the `.ctf` toolchain

TLA+ modules, TLC configurations and TLAPS proofs about the Rust workspace in
`src/ctf-format`: the `.ctf` challenge container, its command line, its offline
solvability gate and its admin console. Paths below are relative to
`src/ctf-format` unless they name a file of this directory.

## 1. The system

| Component | State it keeps | Operations | What is hard | What makes it correct |
|---|---|---|---|---|
| **Container** `crates/ctf-format/src/{header,section,footer,manifest,bundle,cbor}.rs` | an immutable file: header, section table, payloads, chunk indices, footer with commitment root and optional signatures | `Bundle::parse`, `section_bytes`, `verify_inline_sections`, `write_bundle`, `sign_bundle` | u64 offsets and lengths that come from the file; which bytes are covered by which root or signature; rewrites in any order | a parsed file has one meaning; every payload byte is under the root; a rewrite never keeps a signature it invalidated |
| **Chunks and streams** `chunk.rs`, `crypto/stream.rs` | chaining values, frame counter | `ChunkIndex::build/verify_root/verify_chunk`, `verify_stream`, seal/open of frames | sizes 0, 1, powers of two; order, truncation, extension | no byte is used before it is verified; frames open only in place |
| **Sealing and release** `envelope.rs`, `release.rs`, `progress.rs`, `suite.rs`, `crypto/` | content keys in a `keys` section | `ctf seal`, `release_at_event_end`, `seal_progress` | keys held offline, one rewrite after another | only the recipient opens a section, before and after rewrites |
| **Entitlement chain** `entitlement.rs`, `ctf transfer` in `crates/ctf-cli/src/main.rs` | an append-only chain of signed records, in a file or in a bundle's section | `append_grant`, `append_transfer`, `sign_record`, `validate`, `verify_signatures`; `ctf transfer` reads, appends, verifies, writes | unlocked files, a second read, in-place output, forks, a key per former holder | a chain is only extended, by its current holder; tampering shows; honest handoffs go through |
| **Offline gate** `crates/ctf-generator/src/{gate,host,second,solver,abi}.rs`, front ends in `ctf-tui/src/ingest.rs` and `ctf-cli` | a verification record | run the generator twice in one instance, again on a second engine, check its output names, run the solver, compare the flag | modules are an author's code and may do anything; ten overlapping reasons not to start | no gate, no `passed`; `unverified` means that nothing ran; the record says how far the gate came |
| **Ingest store** `crates/ctf-tui/src/{ingest,db}.rs`, `migrations/0001_initial.sql` | Postgres: challenges, bundles, sections, verification, audit_log, entitlements | `ingest`, `record_rejection`, `release`, reads for the screens | concurrent consoles, a failure at each statement, a lost COMMIT reply, a five-connection pool, row locks | a bundle is stored whole or not at all; nothing is released that is not stored; each outcome is recorded; no task waits for ever |
| **Admin console** `crates/ctf-tui/src/{app,main,ui}.rs` | `App`, an unbounded channel, background tasks | one loop: apply messages, draw, handle a key; `dispatch` spawns a task | answers overtake each other and carry no id; nothing limits tasks in flight | cursors name rows, typing goes where the operator looks, a release is of the bundle on screen, a submit comes back |
| **CLI gate** `ctf run`, `ctf verify` | files | the same gate from a document, a bundle or both | two sources of declarations, two names for a file, a record that cannot be written | the same verdict as the console, exit codes to match |
| **Authoring** `authoring.rs`, `pack.rs`, `descriptor.rs`, `scaffold.rs`, `oci.rs`, `derive.rs` | none | `ctf validate`, `ctf pack`: one document to one bundle and its descriptor | checks made in four places; names, paths and outputs that meet in one file | what validates packs; what is packed is what was declared |
| **Go implementation** `go/ctf/` | none | a second reader, verifier and writer | agreement with the first | conformance vectors |
| **Conformance, fuzzing, SDKs, image** | none | tests, examples, packaging | – | – |

How they interact: the CLI and the console call the container library in
process; the console reaches the gate through `ingest`, which runs in a task
spawned by a key, and answers through the channel; consoles on different
machines meet only in Postgres; invocations of the CLI meet only in the file
system, where nothing is locked. A bundle carries an entitlement chain in a
section; a rewrite of the bundle and an append to the chain are therefore one
operation of `ctf transfer --bundle`. `PROJECT.json` lists the hazards of all
of this at the lines where they bite, with the property that covers each or the
reason why none does yet.

## 2. Modules

| Module | Models | Checked with | Proofs |
|---|---|---|---|
| `Entitlement` | `entitlement.rs`: records, ids, signatures, rules E3 and E5–E9, appends | through `Transfer` | `TransferProofs` |
| `Transfer` | invocations of `ctf transfer` over files, the platform, crashes | `MCTransfer` | `TransferProofs` |
| `Custody` | abstract: histories that grow by the current holder's handoff or a note | as property `CustodySpec` | refinement in `TransferProofs` |
| `Ingest` | `ingest.rs`, `db.rs`: tasks, statements, pool, row lock, failures | `MCIngest` | `IngestProofs` |
| `Archive` | abstract: bundles stored whole, with verdict and journal entry | as property `ArchiveSpec` | refinement in `IngestProofs` |
| `Gate` | `gate_record`, `unverified_without_inputs`, `offline_gate`, `determinism_gate` | `MCGate` | `GateProofs` |
| `Console` | `app.rs`, `main.rs`: loop, keys, tasks, messages | `MCConsole` | `ConsoleProofs` |
| `FrontEnds` | `ctf verify`, `ctf run --bundle`, `ctf run` and the console around `Gate`: `run_verify`, `run_gate`, `apply_bundle_declarations`, exit codes | `MCFrontEnds` | `GateProofs` |
| `ChunkTree` | `chunk.rs`: counts, chaining values, canonical split, index, `verify_chunk`; a reference BLAKE3 tree | through `Container` | `FormatProofs` |
| `Stream` | `crypto/stream.rs`, `compress.rs`: AEAD-STREAM frames, compressed frames | through `Container` | `FormatProofs` |
| `Ordering` | a finite set as the sequence `sort` and `ORDER BY` make of it | through `Console` and `Layout` | `OrderingProofs` |
| `Layout` | `header.rs`, `section.rs`, `footer.rs`, `manifest.rs`: the rules a file is read by | through `Container` | `FormatProofs` |
| `Format` | `bundle.rs`, `serving.rs`, `envelope.rs`: writer, signer, parser and every way of reading a section | through `Container` and `Lifecycle` | `FormatProofs` |
| `Container` | one file: written, signed, changed in a cell, a field or its length, recommitted, read | `MCContainer` | `ContainerProofs` |
| `Authoring` | `authoring.rs`, `pack.rs`, `descriptor.rs`: the checks of a document and what is packed of it | through `Lifecycle` | `LifecycleProofs` |
| `Lifecycle` | commands over files: `pack`, `transfer --bundle`, `seal`, `sign`, `unseal`, `release`, crashes, torn writes | `MCLifecycle` | `LifecycleProofs` |

### Entitlement and Transfer

`Entitlement` has no state: it is the data and the pure functions of
`entitlement.rs`. Cryptography is symbolic. `record_id` hashes a record without
its signatures, and that preimage holds the predecessor's id, so an ideal hash
of record n stands for the entries 1..n; a signature is a record of its key and
transcript. `Validate`, `VerifySignatures`, `AppendTransfer` have the names and
the order of the code's functions. `subject` stands for the pair of text fields
`challenge` and `subject`; `timestamp` and `payload` are left out because no
rule reads them; a bundle with several entitlement sections is not modelled (the
code reads the first). Rules E1, E2 and E4 are about decoding and hold of every
value of the model.

`Transfer` has `file` (what each path holds), `cmd` (where each invocation is)
and the history variable `issued`. The actions of an invocation are the points
where it touches the file system: `ReadChain` (`read_chain`), `Accept`/`Refuse`
(append, validate, verify; nothing shared is touched, so one step), `Embed`
(`embed_entitlement`, which reads the input again), `OpenOutput` and
`WriteOutput` (`std::fs::write` truncates, then writes), and `Crash` anywhere.
`Grant`, `PlatformRecord` and `Freeze` are the platform and the other commands.
That a platform adds progress and revoke records only to chains it issued, and
names the current holder in them, is a discipline of the environment: the
library does not enforce it.

### Ingest

Tasks of one or several consoles. One action per SQL statement, in program
order, with the transaction's rows in `task[t].tx` until `Commit`. `Begin`
takes a connection of the pool and fixes `now()`; `UpsertChallenge` waits for
the row lock that PostgreSQL holds until the transaction ends; ids come from
sequences that do not go back; `Fail` is any statement that fails, the pool's
ten-second timeout, or the reply to a statement that took effect and was lost;
`Crash` is a console that dies. Reading, parsing, checking and gating the file
touch nothing shared and belong to the step that starts the task; which verdict
the gate gives is a choice here and the subject of `Gate`. `End` and `With` model
the database and the driver and are marked external in the map.

An answer `error` is compatible with a stored bundle: COMMIT may have taken
effect before its reply was lost. `AnswersAreTrue` therefore says something of
`stored`, `rejected` and `released` and nothing of `error`.

### Gate

One bundle, one set of inputs, one record. `Prepare` asks the conditions in the
order the code asks them (two orders: with operator inputs and without);
`RunGenerator` is one call of the generator, `CrossCheck` the second engine and
the check of the output names, `Solve` the solver and the comparison. A module
run is a choice among all outputs, or `Failed`: a trap, fuel, memory, an import
or an ABI error end in the same place. An output stands for its root.
`generate.interface` and `generate.profile` are merged into `version`; a
document or a secret that cannot be used is one obstacle, `unusable inputs`.

### Console

`app` is `struct App` without typed text, tables nobody's key reads, error and
notice; `queue` the channel; `task[t]` the jobs a spawned task has left and the
answer it has read and not sent yet, so that answers are as old as they can be.
`Receive` applies one message of the channel; `Frame` draws once the channel is
empty, as the loop drains it before it draws; a key is one action. `Elsewhere` is another console's ingest. The store
is what `Archive` promises: bundles appear whole and stay, but, as `Ingest` shows,
not in the order in which they are listed.

### FrontEnds

Four ways into `Gate`: the console, `ctf verify`, `ctf run --bundle` and a bare
`ctf run`. `copy` is the state of the bundle's file, `shelf` what lies beside
the document for each module and under which name, `said` what the caller
learns: status, exit code, and whether a record was kept. The stages that run
modules are `Gate`'s own actions; `PrepareConsole` is `Gate`'s `Prepare`,
`PrepareCli` the checks of the commands and their ten questions, which are asked
in another order than the console's. `ctf run` checks of the bundle's file only
that it parses; `ctf verify` checks sections and chunks, and rejects a file that
fails. A record that cannot be written turns any exit code into 1.

The front ends do differ: a module the bundle only names is looked for under the
document's name by the commands and under the bundle's by the console
(`docs/FORMAT-DESIGN.md:713-714` has the document win). `FrontEndsAgree`
therefore speaks of documents that use the bundle's name. Two more differences
that no document forbids: a missing module file gets a reason of its own from the
commands and none from the console (the finding `gate_reason`), and a status file
of an earlier `ctf run` stays beside the bundle when a later one exits without a
record.

### ChunkTree, Stream, Layout, Format and Container

A file is a sequence of cells: header, section record, footer part, chaining
value, unit of payload each take one, and offsets count cells. A hash is the tree
of what it hashes, with the position of every leaf, so the BLAKE3 tree that
`Hash` builds and the merge of chaining values in `RootFromCvs` can be compared;
they use two definitions of the split, BLAKE3's and `split_canonical`'s. A sealed chunk says under
which key, nonce and associated data it was sealed and opens under exactly
these; a signature says whose it is and over which transcript; an envelope opens
for its recipient, context and suite. `Format` is the library as operators with
an `Ok`/`Failed` result, `Container` the file's life: `WriteBundle`, `SignBundle`,
`Edit` (one cell, one field, one length), `Recommit` (a tool with other rules
commits to what it finds), then one reader that opens the file, perhaps checks
the signature, and asks in one of the ways the API has. `StreamRead` is one
`read` of `verify_stream`, of any length.

What the model shows beside its properties, all of it documented or harmless:
an artifact that `ctf seal` encrypted stays listed and cannot be served; an
encrypted body of no bytes opens under any key; a body of `MaxIndex + 1` chunks
(2^32 in the code) can be sealed and not opened; neither chunk index cells nor
the bytes of compressed and encrypted payloads are under the commitment root, so
two files that differ can share one (the comment in `section.rs:805-814` says
that a bundle has one byte string); the verify pass does not look at chunk
indices; the console's store lists a player-visible section of a kind it does
not know, the serving manifest leaves it out.

### Authoring and Lifecycle

`Authoring` is pure: `Issues` are the checks of a document that relate its parts
to each other, `NameTable`, `ManifestFor` and `PackOrder` what `ctf pack` makes,
with `Format`'s writer and parser at the end. A value that is judged on its own
is one flag, `shaped`.

`Lifecycle` has the files in `disk` and `out`, the document in `draft`, and in
`jobs` what each running command still has to write. Most commands read their input
once, with `std::fs::read`, and nothing they do until their first write is shared, so
reading and computing are one step (`Run`). Two read more than once and are in `reading`
in between. `ctf transfer` reads the bundle for its chain (`ReadChain`, which appends
one record) and again to rewrite it (`TransferBundle`); what the second read finds may
be another bundle, without an entitlement section, or sealed or signed by now. `ctf
release` maps the bundle (`MapBundle`), parses it, and decrypts one member after another
through the mapping (`DecryptMember`), with an envelope and a body that may not be those
of the table it parsed: `Mapped` is the file as it now is, in the length it then had,
with zeros where it has become shorter. `GiveUp` is a command that ends there: the
second read does not open or may not be rewritten, the mapped bytes do not decrypt, or
the page that was to be read is gone (the process is killed). Each file a command writes
is a `Truncate` and a `WriteNext`, so that commands interleave between them and write
over each other, and `Crash` leaves the file in part. The parse of a mapped file is one
step, and so are a member's envelope and its body: a write between two bytes that one of
them reads is left out, and would meet the commitment root or the body's tags. `torn`
(history) are the files that are not one command's whole output,
`made` what the challenge was first written as, `wrapped` for whom which section
was encrypted. `Given` adds to the packed documents bundles only the library
writes: sealed sections, a chain, an external chunk index, a feature of a later version; `Challenge`
says what a bundle must be to count as one, and every packed bundle is. What is read
out of a torn file may be refused where what one command wrote is read: its table can
be of one command and its payloads of another (`gives` in `RewritesKeepTheChallenge`).

What the model shows beside its properties: `ctf pack` makes no sealed section,
so a packed, sealed bundle releases nothing; the descriptor is written after the
bundle, and a crash in between leaves a bundle without one; a document with as
many artifacts as the section table has records validates and does not pack; the
destinations of external sections are not compared with each other's or an
artifact's path; `ctf seal` of a bundle's own, unused keys section reports
success and encrypts nothing; a bundle is sealed at most once, and neither sealed
again nor given a chain after that; a `transfer --bundle` that read the bundle
before a `sign` wrote it drops the signature; a sealed member named
`release.json` and the default report are one file; two seals that write one file
at once, one of which breaks off, can leave a table beside the envelopes of the
other.

## 3. What is checked

`expect: pass` runs:

| Run | Instance | Shows |
|---|---|---|
| `transfer` | 2 keys, 2 paths, 2 invocations, 2 issued chains (and one in flight per invocation) | `TypeOK`; `Authentic`: every chain accepted or shown verifies for a full trust set, although the command trusts two keys |
| `transfer_in_place` | 1 path, 2 invocations, 3 issued chains, so that updates are lost and chains fork | `TamperEvident`; `CustodySpec`, the refinement of `Custody` |
| `ingest` | 2 tasks, 1 challenge, 2 sections, 2 verdicts, 3 runs, a clock that may stand still | `TypeOK`; `VerdictOfNewestBundle`; `AnswersAreTrue`; `ArchiveSpec`, the refinement of `Archive` |
| `ingest_live` | 3 tasks, 2 connections, 1 challenge row | `EveryTaskEnds` |
| `gate` | every bundle and input at the four front ends, 5 shelves a module, 2 data values, a right and a wrong flag | `FrontTypeOK`; `VerdictOfSection25`; `SummaryTellsHowFar`; `FrontEndsAgree`; `ExitTellsTheVerdict` |
| `console` | 2 challenges, 2 bundles, 2 tasks | `TypeOK`; `CursorsNameRows`; `FocusIsOnScreen`; `ReleasesWhatWasDrawn` |
| `console_live` | 1 challenge, 1 bundle, 1 task | `EverySubmitIsAnswered` |
| `container` | 34 orders for the writer, 15 of which it must refuse, payloads of up to 9 units, chunks of 2, one edit and a recommitment | `TypeOK`; `EveryByteHasOneOwner`; `SignatureFixesTheFile`; `NothingButWhatWasSigned`; `SealedTakesItsKey`; `ReportIsTrue`; `WrittenFileReadsBack`; `ListingAndServingAgree`; `StreamAgreesWithChunks` |
| `lifecycle` | 2,422 documents, 2 of them and 7 other bundles worked on by 3 commands, 2 at a time | `TypeOK`; `ValidateForetellsPack`; `PackedAsDeclared`; `RewritesKeepTheChallenge`; `HoldersCanOpen`; `ReleaseIsDeclared` |

Bounds. `MaxIssued` stops processes from starting, not from finishing; two
invocations are enough for every race of two, and a chain of three records has a
grant, a handoff and a record after it, which is all that the link rules relate.
The end of the seq space (`MaxSeq`) is not reached by the runs; the theorem
covers it. `MaxRuns`, `MaxClock`: three runs give two bundles of a challenge and
a rejection or release beside them; two BEGIN times suffice to order two
transactions either way, or not at all. One challenge is the interesting case,
since tasks of different challenges share only the pool. The gate has no bound
but its data: two blocks suffice to agree or differ; a shelf is the name used in
the document (the bundle's, another, none) and the file that is there or not. The console's cursors need
a list that shrinks under them: two challenges with two and no bundles. With one
task fewer answers overtake, which does not matter to `EverySubmitIsAnswered`.

`container`: chunks of 2 units (`MinChunk` = 2, `MaxChunk` = 4) and payloads of 0, 1, 2, 3, 5, 7 and
9 units give no chunk, one, two, an odd last one, and trees of up to five leaves,
where the canonical split differs from halving; `MaxIndex` = 3 is reached by the
payload of 7 units, `MaxPlain` by edits of a length. One edit
(`MaxEdits`) followed by `Recommit` is what breaks one rule at a time; a second
edit mostly meets files that the first already got refused. `lifecycle`: three commands
are pack, or a given file, and two or three rewrites, the shortest sequences in
which one overtakes another, or changes what another is still reading; a rewrite is in
place or to the other path. The given bundles with a chain have the shorter one of
`Chains`, so that a transfer can hand it on. `Cuts` =
{3} stops a write inside the section table (or before the first byte), so that what
follows in the file may be another command's.

Reductions. `transfer*`, `ingest` and `lifecycle` use symmetry over model values that no
definition distinguishes; the liveness runs use none. `console` also has a VIEW
(`WhatKeysRead`) that drops what no key reads: the busy flag, which of the answers that only
clear it an answer is, the last frame once its key is handled, and all of a console
that has quit. Only the actions that set or clear these mention them, and of that run's properties
only `TypeOK`;
`console_live`, which is about the busy flag, has neither VIEW nor symmetry.
`CHECK_DEADLOCK FALSE` stands where the system stops: a gate that has a record, a
console that quit, and runs whose bounds are used up.

Fairness. `Ingest`: weak fairness of the steps of each task. The async runtime
runs every task and the server answers every statement; no failure is assumed to
happen and none is excluded. Weak fairness is enough for a row or a connection
that is waited for, because the number of runs is bounded, so nobody is overtaken
for ever. `Console`: weak fairness of the loop, whose poll times out after 50 ms,
and of each task.

`expect: violation` runs, each a disagreement of the code with its own words:

| Run | What TLC finds |
|---|---|
| `second_handoff` | `ctf transfer` verifies the whole chain with the one holder key it is given, so a chain that already changed hands cannot be handed on by its rightful holder (`crates/ctf-cli/src/main.rs:2119-2124`, `spec/SPEC.md` E9). |
| `handoff_subject` | A handoff can change the subject, which `docs/FORMAT-DESIGN.md:574` says it does not. |
| `gate_reason` | A declared module that is neither carried nor beside the document is recorded as "the challenge declares no generator" (`crates/ctf-tui/src/ingest.rs:591-606`, `spec/SPEC.md:2960`, S9). |

Each property of each passing run has a mutant in `PROJECT.json`: a plausible
slip in one mapped definition, kept in the module next to the definition it
mutates, that makes TLC find the property violated.

## 4. What is proved

All proofs are checked by TLAPS for every value of the constants that satisfies
the named assumptions; TLC evaluates those on every run. They are
`EntitlementAssumption`, `TransferAssumption`, `GateAssumption`, `ShelfAssumption`,
`IngestAssumption`, `ConsoleAssumption`, `ChunkTreeAssumption`, `StreamAssumption`,
`LayoutAssumption`, `EditsAssumption` (bounds are naturals, absent values are not
present ones; `StreamAssumption` has an index of at least one) and some that say what
callers hand over. `OrdersAssumption`: payloads of well-formed cells, none of
which is a signature of the trusted key, because only its holder makes those, and
recipients that are a context and a holder. `SecretsAssumption`: no envelope and no
frame of a stage among them, because nobody used a section's key before the section
was written; only what is said of sealed sections needs it. For `Lifecycle`:
`DocsAssumption` and `GivenAssumption` say that documents are decoded documents and
that the files the library wrote were laid out by its writer and open; both, and
`ChainsAssumption`, that no payload holds a footer (a bundle inside a bundle: a write
that breaks off might end in the inner one's). `LifecycleAssumption` has the bounds and
keeps the release directory apart from the bundle's, and `BadNamesAssumption` is
`check_name`'s first test, that the empty name is refused (`manifest.rs:701-702`).

`TransferProofs`. `Authentic` is not inductive: an invocation carries a chain
from the file it read to the file it writes, and that a longer chain verifies
needs the shorter one to verify for a full trust set. `IInv` says that every
issued chain is `Sound` (valid, verified under one platform key and one suite,
linked, one platform signature a record) and that every chain a readable file
holds or an invocation carries was issued. `Invariant` is `Spec => []IInv`, with
one step per action and one lemma per way of making a chain (`GrantSound`,
`HandoffSound`, `PlatformRecordSound`); `TypeCorrect` and `AlwaysAuthentic`
follow. `AlwaysTamperEvident` rests on `IdIsHistory`: in a linked chain the id of
record n is the sequence of entries up to n, so equal ids are equal prefixes.
`ImplementsCustody` maps issued chains to histories: `Grant` to Custody's grant,
`Accept` to a handoff (the holder signature that verified under the key of the
predecessor's holder is what makes it one), `PlatformRecord` to a note, and all
other steps to stuttering. The ideal hash and the ideal signature are in the
definitions of `RecordId` and `SignatureOf`; no theorem assumes more.

`GateProofs`. `GInv` adds to the types what has been established when each stage
begins: nothing ran before `generate`, which is entered only if no condition of
section 25.6 stands against it (`StartsWhenAllowed`, `ObstacleForbids`: the code's
two question lists come to the specification's conditions); at `cross` there are
two equal runs; at `solve` the determinism stage is through; a record satisfies
both properties. `GateInvariant` is `Spec => []GInv`, with a lemma per action;
`GateTypeCorrect`, `GateVerdict` and `GateSummary` follow.

`GateProofs`, the front ends. `FrontInv` adds to `GInv` what the commands checked before the gate
began: a gate that ran, or left a record, was not turned away (`Admitted`), it ran
exactly when section 25.6 allows (`RanAsAllowed`), and what was said of it is true.
`CliStartsWhenAllowed` and `CliObstacleForbids` bring the commands' ten questions
to the conditions of section 25.6, as `ObstacleForbids` does for the console's; the
stages that run modules keep what was proved of `Gate`. `FrontVerdict`,
`FrontSummary`, `FrontTypeCorrect` and `ExitsTell` follow. `CommandsAgreeWithConsole`
needs one more fact: with the files the console finds, `MayRun` does not depend on
who asks (`ConsoleAgrees`).

`IngestProofs`. None of the three safety properties is inductive: what the console
reads and is told depends on what transactions wrote before they committed.
`IngestInv` therefore says what an open transaction holds at each of its statements
(`Written`, `Judged`), that its bundle id is mentioned by no committed row and by no
other transaction (`IdsOK`), that its ids are newer than every committed id of the
challenge whose row it has locked (`Newer`; this is where the upsert's lock is
needed, `LocksOK`), that no two tasks and no answer share a run (`RunsOK`,
`AnswersOK`), and that a bundle and its own verdict come first in their lists
(`Latest`: a commit either puts both in front or, when its transaction began before
the newest one's, neither, `CommitLatest`). `IngestInvariant` is `Spec =>
[]IngestInv`, with a lemma per kind of step: the statements that write within a
transaction (`WriteKeeps`), `InsertBundleKeeps`, `CommitKeeps`, the lone statements
(`AuditKeeps`), starting and ending. `TypeCorrect`, `Truth` and `SameBundleShown`
follow. `ImplementsArchive` maps a commit to Archive's `Store` (`CommitStores`), a
rejection and a release to their journal entries, and every other step, failures
and deaths among them, to stuttering. `BudgetOK` only serves to bound the ids by
`MaxRuns`.

`ConsoleProofs`. `IInv` joins the types, the cursors and the focus, each of which
needs the others (an answer replaces a list and puts its cursor back; the focus goes
with the screen), and adds that a task that has an answer still has the job it is of
(`AnswersHaveJobs`) and that a key is handled on the state the last frame was drawn
from (`KeyFollowsFrame`: answers are applied only before the draw). The last one is
what `ReleaseGoesToWhatWasDrawn` needs. `ConsoleInvariant` is `Spec => []IInv`, with a
lemma per message, key and task step; `ClampNamesRow` is the fact about the cursors.

`OrderingProofs`. `InOrder` picks the member with k - 1 members before it; that
it is a sequence of all of them, each once and in order, needs an induction on the
size of the set. The library's induction theorems take an operator as a parameter,
which the provers cannot instantiate, so induction over the naturals is done on
sets: `SetInduction` and `StrongSetInduction` say that a set of naturals that is
closed under the step is all of `Nat` (from `WFMin` of the library), and a proof
applies them to the set of the numbers its statement holds for. `RecursionExists`
and `StaysIn` do the same for functions defined by recursion.

`FormatProofs`, the chunk tree. `Tree` is one recursive function over every list of subtrees,
so what holds of a hash of n units is proved by `StrongSetInduction` over n.
`SplitsAgree`: the code's split from the highest bit of n - 1 is BLAKE3's largest
power of two below n. `SubtreeTellsCells` and `HashTellsCells`: a chaining value
names its position, its length and its cells, and so does a root. `CvsSplit` and
`MergedIsWhole` show that merging the chaining values of the chunks of a stretch
is the subtree of the stretch, because a chunk of a power-of-two size never lies
across a split; hence `BuiltIndex`. `RootTellsCvs` is the converse: an index that
merges to a root has exactly the chaining values of the content of that root, hence
`VerifiedChunk` and `WholeIsItsChunks`.

`FormatProofs` is about any file and any order, without the states of `Container`.
Of a file that parses: the regions of a table that passes the rules of `Layout` are
disjoint and end before the footer (`RegionsAreDisjoint`, from the comparison of
neighbours in sorted order), and what lies in none is zero (`PaddingIsZero`), so each
cell has one owner, whoever wrote the table (`OneOwner`). Of a file that was laid out:
the writer's two loops are followed by `SetInduction` (`PayloadsBody`, `IndicesBody`);
every cell is one of the order's (`PlacedCells`), a payload once placed stays where it
is (`PayloadsKept`), and so the record of section i points at what was stored of it
(`WrittenTable`, `StandsAsWritten`). Of the two together: what was stored comes back,
plain or compressed within the caps (`CompressionUndone`, `WrittenReads`), sealed frames
open under their key (`OpenedAsSealed`, `SealedIsOpened`), and the envelopes of the keys
section are the ones the writer made, in order (`EnvelopesAsWritten`, `WrittenKey`). A
signature moves nothing (`SignedCells`, `SignedFooter`).

`ContainerProofs`. `SignatureFixesTheFile` is not inductive: it is about a file after
edits and recommitments. `IInv` therefore says that all cells are well formed, that the
file is `made.file` until it is edited, that a signature of the trusted key is in the
file only if the author made one and then is over the transcript of `made.file`, that
`made.file` itself parses and verifies, and that what a reader holds was parsed from the
file. Equal transcripts are equal roots, suites, lengths (`SameTranscript`), equal roots
are equal headers and tables (`SignedBundle`), and equal tables leave only payloads and
indices free (`FixedBySignature`). `JInv`, inductive relative to `IInv`, adds what the
writer's table says of the order (`WrittenInv`: a root is the hash of the section's
plaintext, flags and kinds are the order's), that what a whole read or a decryption
handed out has the root of its record and a chunk passed an index that merges to it
(`AnswerInv`), and how far a stream was read and when it was accepted (`StreamInv`). With
`HashTellsCells` and `VerifiedChunk` the answer then is what was signed, or its chunk.
`ReportInv` is the invariant of the verify pass: the lists hold the sections behind it,
each on the list of its finding, so `ReportsAreTrue` comes down to what one section's
finding means. Verified is what a read hands out (`VerifiedIsWritten`); a mismatch in an
authentic bundle is a stored payload that differs from the one written
(`MismatchIsAChange`).

`SealedSectionsTakeTheirKey` needs `SInv`: wherever a cell of the file came from, an
envelope in it was made for a recipient the order names and a frame under a stage's key
belongs to that stage (`KeysInv`). Edits keep it because they copy and blank cells and
make neither; what the writer makes has it by `SecretsAssumption` (`UnitsKeepKeys`). An
answer about a section the table marks SEALED then came through an envelope or a stage
key of its own (`KeyHasEnvelope`), for edited and recommitted tables too.
`ListedIsServed` relates what is listed to what is served: one record a name
(`OneRecordPerName`), the listing in terms of records (`ListingFacts`), and a served
artifact passes its own listing (`ServedIsAccepted`). `WrittenIsReadBack` needs
`ReadBackInv`, which ties what a reader was told to what the file says; the rest is
`FormatProofs`. Its two provisos are facts of the code: the writer compresses without
asking for the caps a reader decompresses within (`compress.rs:27-42`), and a body of
`MaxIndex + 1` chunks does not open.

`LifecycleProofs`. What a command writes is not what stays on disk: a file that two
commands write, or that a crash cut short, holds cells of several. The invariant
`Bundles` therefore speaks of cells. A footer on disk, or in a write that is still to be
made, vouches for what it was computed over: whatever header and table have its
commitment root keep the challenge (`FootLegit`), which survives any mixture of files
(`CellsOk`, `OverIsOk`), and a file that opens has the header and the table its footer
names, hence `FileIsFaithful`, with no reference to who wrote what. A file outside `torn`
moreover is one whole output of the writer (`WholeFile`), and so its payloads are the
ones its table describes. That a rewrite writes such a file is `LaidKeeps`: the order it
hands to the writer keeps the challenge (`OrderKeeps`). For that, `ReEmits` compares a
record that was read with the section that is written of it (`ManifestAgain`,
`ExternalAgain`, `SectionAgain`: the manifest is read back from its root, an external
section's index is sliced from the file and adopted again, an inline one is read), and
`RebuiltKeeps`, `EncryptedKeeps` and `SlotNames` follow `embed_entitlement` and
`seal_section`; `SignedIsOk` follows `sign_bundle`. `FilesKeepTheChallenge` is `Spec =>
[]Bundles`; `LifecycleTypes` and `TheChallengeIsKept` follow. The proof also corrected
the property: that every file which opens reads as it was written is true of the
instance TLC checks and false in general, for a torn file may have the table of one
command over the payloads of another.

`OnlyTheDueIsReleased` is `Spec => []Releasing`: a file of the release directory is a
prefix of one asset that is due, or a report that names all of them, and so is every
write still queued; where a report is written or next, each asset it names is on disk
whole, or its file is in `torn`, or its write is queued before the report
(`ReportLast`). What a release has decrypted so far is part of `Bundles` (`MappedOk`):
each plaintext has the root of the record it was asked for, whatever the mapping showed
by then (`DecryptedIn`, `OpenedIs`), and so is the sealed one. Two releases at once write the same bytes to the same names, so one over
the other is the asset again (`OverFile`). `ReleasesAreDeclared` follows.
`ListedAsDeclared` needs only that the challenge is what `pack` made of its document
(`Drafted`): by `FileIsFaithful` a record players are shown is of an artifact or an
external section (`ShownIsPacked`), with the name and path the document gives it
(`ListedIsPacked`, `PathOf`), and what `validate` lets through has names and
destinations of its own (`NamesAreGood`).

Only model-checked:

- `ValidateForetellsPack`: that whatever `write_bundle` lays out for a document parses
  needs every rule of the reader proved of the writer's output; the theorems have what a
  file that parses is, and what was written into one.
- `HoldersCanOpen`, which is false for some values of the constants: a section with a
  body of `MaxIndex + 1` chunks is sealed and does not open.
- The liveness properties `EveryTaskEnds` and `EverySubmitIsAnswered`, and the three
  violations. Liveness under fairness and ENABLED are out of the prover's reach, and
  so is what the standard modules define with RECURSIVE operators (`SelectSeq`,
  `SortSeq`); the models use `Picked` and `InOrder` instead.

## 5. What is not modelled, and the plan

Not modelled, in the order in which it would come next:

1. That every order the writer accepts is laid out as a file the reader accepts, with
   the caps and counters that bound it; `ValidateForetellsPack` and, with a bound on the
   chunks of a body, `HoldersCanOpen` would follow.
2. The generator host's ABI calls with fuel and memory, on both engines, and the
   contents of the artifact block: `Gate` takes a run as one step.
3. `validate_against_root`: a grant names the root of the file before it had an
   entitlement section, which later rewrites change (`entitlement.rs:777-805`).
   No command calls it.
4. `seal_progress` and `open_progress` of `progress.rs`, and key generation.
5. The row conversions of `ingest` (a version above `i64::MAX`), the entitlements
   table, the console's typed text and progress.

Left out inside what is modelled: byte encodings and the CBOR codec (a cell or a
record stands for a structure, a decoding error for the structure's flag), the
legacy rule set of older files, u64 sums that overflow (the code's checked
additions refuse them, as the model refuses what lies past the end of a file), and
the checks of a document that look at one value.

Left out for good: cryptographic primitives and compression (ideal here), the
drawing of screens, messages' wording, scaffolding and container images (text and
files written once), the Go implementation and the conformance suite (they follow
the same rules; their agreement is a matter of test vectors), SDKs, fuzzing and
the container image.
