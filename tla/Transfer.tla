------------------------------ MODULE Transfer ------------------------------
(***************************************************************************)
(* `ctf transfer` over a set of files: each invocation is a process that   *)
(* reads a chain, appends a signed handoff, verifies the result and writes *)
(* it, in steps that interleave with other invocations, with the platform  *)
(* writing grants and records of its own, and with a crash at any point.   *)
(* No file is locked, and the output may be the input.                     *)
(*                                                                         *)
(* A file is absent, a plain chain, a bundle with an entitlement section,  *)
(* a bundle that `embed_entitlement` refuses to rewrite ("frozen": signed, *)
(* read-only, or with a section it cannot read back), or "damaged": what   *)
(* an interrupted std::fs::write leaves.                                   *)
(***************************************************************************)
EXTENDS Entitlement, FiniteSets

CONSTANTS
    Files,      \* paths
    Commands,   \* invocations of `ctf transfer` that may run at a time
    NoFile,     \* the paths of a process that is not running
    MaxIssued   \* bound: no process starts once this many chains were issued

ASSUME TransferAssumption == MaxIssued \in Nat /\ NoFile \notin Files

VARIABLES
    file,       \* file[p]: what path p holds
    cmd,        \* cmd[o]: where invocation o is
    issued      \* history: every chain that was signed and accepted

vars == <<file, cmd, issued>>

(***************************************************************************)
(* Files and processes                                                     *)
(***************************************************************************)
Forms == {"absent", "damaged", "chain", "bundle", "frozen"}

Readable == {"chain", "bundle", "frozen"}

Contents(form, log) == [form |-> form, log |-> log]

Damaged == Contents("damaged", <<>>)

Phases == {"idle", "append", "embed", "open", "write"}

Process(pc, in, out, embed, log) ==
    [pc |-> pc, in |-> in, out |-> out, embed |-> embed, log |-> log]

Ended == Process("idle", NoFile, NoFile, FALSE, <<>>)

\* What run_transfer is given besides paths: key files and the new record's fields.
Arguments ==
    [platformKey: Keys, platformPub: Keys, holderKey: Keys, holderPub: Keys,
     newHolder: Holders, subject: Subjects, suite: Suites]

TypeOK ==
    /\ file \in [Files -> [form: Forms, log: Chains]]
    /\ cmd \in [Commands -> [pc: Phases, in: Files \cup {NoFile},
                             out: Files \cup {NoFile}, embed: BOOLEAN, log: Chains]]
    /\ issued \subseteq Chains

Init ==
    /\ file = [p \in Files |-> Contents("absent", <<>>)]
    /\ cmd = [o \in Commands |-> Ended]
    /\ issued = {}

MayIssue == Cardinality(issued) < MaxIssued

(***************************************************************************)
(* The platform, through the library                                       *)
(***************************************************************************)
\* A fresh grant, written as a plain chain or inside a bundle.
Grant(p, form, subject, holder, root, suite, key) ==
    LET c == GrantChain(subject, holder, root, suite, key) IN
    /\ MayIssue
    /\ Validate(c)
    /\ file' = [file EXCEPT ![p] = Contents(form, c)]
    /\ issued' = issued \cup {c}
    /\ UNCHANGED cmd

\* The platform that issued the chain adds a progress or revoke record to it.
PlatformRecord(p, type) ==
    /\ MayIssue
    /\ file[p].form \in {"chain", "bundle"}
    /\ \E s \in file[p].log[1].sig_platform :
           LET c == AppendByPlatform(file[p].log, type, s.suite, s.key) IN
           /\ Validate(c)
           /\ file' = [file EXCEPT ![p].log = c]
           /\ issued' = issued \cup {c}
    /\ UNCHANGED cmd

\* `ctf sign` or `ctf seal` makes a bundle one that must not be rewritten.
Freeze(p) ==
    /\ file[p].form = "bundle"
    /\ file' = [file EXCEPT ![p].form = "frozen"]
    /\ UNCHANGED <<cmd, issued>>

(***************************************************************************)
(* One invocation                                                          *)
(***************************************************************************)
End(o) == cmd' = [cmd EXCEPT ![o] = Ended]

\* read_chain: the first step that touches a file.  An invocation whose input is
\* absent, unreadable or not a valid chain ends here with nothing changed.
ReadChain(o, in, out, embed) ==
    /\ MayIssue
    /\ cmd[o].pc = "idle"
    /\ file[in].form \in Readable
    /\ Validate(file[in].log)
    /\ cmd' = [cmd EXCEPT ![o] = Process("append", in, out, embed, file[in].log)]
    /\ UNCHANGED <<file, issued>>

\* What the command line builds with arguments a.
NewChain(c, a) ==
    AppendTransfer(c, a.subject, a.newHolder, a.suite, a.platformKey, a.holderKey)

\* Verification before the append instead of after it.
AcceptsBeforeAppend(c, a) ==
    /\ CanAppend(c)
    /\ Validate(NewChain(c, a))
    /\ VerifySignatures(c, a.suite, a.platformPub, {<<HolderHash(a.holderPub), a.holderPub>>})

\* Whether the command vouches for it: the only holder key it trusts is the one it
\* was given.
Accepts(c, a) ==
    /\ CanAppend(c)
    /\ Validate(NewChain(c, a))
    /\ VerifySignatures(NewChain(c, a), a.suite, a.platformPub,
                        {<<HolderHash(a.holderPub), a.holderPub>>})

\* The arguments of an honest handoff: the keys of the platform that issued the
\* chain and of its current holder, the chain's suite and its subject.
Rightful(c, a) ==
    /\ Len(c) <= MaxSeq
    /\ \E s \in c[1].sig_platform :
          a.platformKey = s.key /\ a.platformPub = s.key /\ a.suite = s.suite
    /\ a.holderKey = a.holderPub
    /\ HolderHash(a.holderKey) = Last(c).holder
    /\ a.subject = Last(c).subject

Accept(o) ==
    /\ cmd[o].pc = "append"
    /\ \E a \in Arguments :
          LET c == NewChain(cmd[o].log, a) IN
          /\ Accepts(cmd[o].log, a)
          /\ issued' = issued \cup {c}
          /\ cmd' = [cmd EXCEPT ![o].pc = IF cmd[o].embed THEN "embed" ELSE "open",
                                ![o].log = c]
    /\ UNCHANGED file

Refuse(o) ==
    /\ cmd[o].pc = "append"
    /\ \E a \in Arguments : ~Accepts(cmd[o].log, a)
    /\ End(o)
    /\ UNCHANGED <<file, issued>>

\* embed_entitlement reads the input a second time and rebuilds the bundle around
\* the new chain.
Embed(o) ==
    /\ cmd[o].pc = "embed"
    /\ IF file[cmd[o].in].form = "bundle"
       THEN cmd' = [cmd EXCEPT ![o].pc = "open"]
       ELSE End(o)
    /\ UNCHANGED <<file, issued>>

\* std::fs::write truncates the output before the bytes are there.
OpenOutput(o) ==
    /\ cmd[o].pc = "open"
    /\ file' = [file EXCEPT ![cmd[o].out] = Damaged]
    /\ cmd' = [cmd EXCEPT ![o].pc = "write"]
    /\ UNCHANGED issued

WriteOutput(o) ==
    /\ cmd[o].pc = "write"
    /\ file' = [file EXCEPT ![cmd[o].out] =
                   Contents(IF cmd[o].embed THEN "bundle" ELSE "chain", cmd[o].log)]
    /\ End(o)
    /\ UNCHANGED issued

Crash(o) ==
    /\ cmd[o].pc # "idle"
    /\ End(o)
    /\ UNCHANGED <<file, issued>>

Step(o) ==
    \/ \E in, out \in Files, embed \in BOOLEAN : ReadChain(o, in, out, embed)
    \/ Accept(o)
    \/ Refuse(o)
    \/ Embed(o)
    \/ OpenOutput(o)
    \/ WriteOutput(o)
    \/ Crash(o)

Platform(p) ==
    \/ \E form \in {"chain", "bundle"}, subject \in Subjects, holder \in Holders,
          root \in Roots, suite \in Suites, key \in Keys :
              Grant(p, form, subject, holder, root, suite, key)
    \/ \E type \in {"progress", "revoke"} : PlatformRecord(p, type)
    \/ Freeze(p)

Next ==
    \/ \E o \in Commands : Step(o)
    \/ \E p \in Files : Platform(p)

Spec == Init /\ [][Next]_vars

(***************************************************************************)
(* Properties                                                              *)
(***************************************************************************)
ShownChains == issued \cup {file[p].log : p \in {q \in Files : file[q].form \in Readable}}

\* Every chain a command accepted or a file shows passes E3-E8, and one platform
\* key and one suite verify all of it when every holder's key is trusted (E9): what
\* `ctf transfer` checks with the two keys it is given holds for any verifier.
Authentic ==
    \A c \in ShownChains :
        /\ Validate(c)
        /\ \E key \in Keys, suite \in Suites :
              VerifySignatures(c, suite, key, {<<HolderHash(k), k>> : k \in Keys})

\* Tamper evidence: chains that agree on the id of record n, however they were
\* extended, copied or forked, agree on every record up to n.
TamperEvident ==
    \A c, d \in ShownChains : \A n \in 1..Len(c) :
        (n <= Len(d) /\ RecordId(c[n]) = RecordId(d[n])) =>
            \A m \in 1..n : EntryOf(c[m]) = EntryOf(d[m])

\* The history a chain tells, and the promise of module Custody: a history grows
\* only by its current holder's own handoff or a note that keeps the holder, and
\* its grant names one bundle version.
EventOf(r) ==
    [kind |-> CASE r.type = "grant" -> "grant"
                [] r.type = "transfer" -> "handoff"
                [] OTHER -> "note",
     holder |-> r.holder,
     by |-> {HolderHash(s.key) : s \in r.sig_holder},
     root |-> r.root]

HistoryOf(c) == [n \in 1..Len(c) |-> EventOf(c[n])]

Promise == INSTANCE Custody WITH histories <- {HistoryOf(c) : c \in issued}

CustodySpec == Promise!Spec

\* docs/FORMAT-DESIGN.md:574: a handoff is a holder change, not a subject change.
HandoffKeepsSubject ==
    \A c \in issued : \A n \in 2..Len(c) :
        c[n].type = "transfer" => c[n].subject = c[n-1].subject

\* A handoff with the keys of the issuing platform and of the current holder, in the
\* chain's suite and for its subject, is not refused.
RightfulHandoffAccepted ==
    \A o \in Commands : cmd[o].pc = "append" =>
        \A a \in Arguments : Rightful(cmd[o].log, a) => Accepts(cmd[o].log, a)
=============================================================================
