--------------------------- MODULE TransferProofs ---------------------------
(***************************************************************************)
(* What module Transfer keeps true for any set of keys, suites, subjects,  *)
(* files and concurrent invocations, and any bound.                        *)
(*                                                                         *)
(* The inductive invariant says that whatever a file shows or a command    *)
(* holds was issued, and that every issued chain is sound.  Soundness      *)
(* spells out the hash links (the id a record names is the sequence of all *)
(* entries before it), so that no proof needs induction over a chain: each *)
(* step appends at most one record.                                        *)
(***************************************************************************)
EXTENDS Transfer, TLAPS

(***************************************************************************)
(* The inductive invariant                                                 *)
(***************************************************************************)
AllHolders == {<<HolderHash(k), k>> : k \in Keys}

\* Every record names all the entries before it.
Linked(c) == \A n \in 1..Len(c) : c[n].prev = [i \in 1..n-1 |-> EntryOf(c[i])]

\* Every record carries one platform signature.
OnePlatformSignature(c) == \A n \in 1..Len(c) : \E s \in c[n].sig_platform : c[n].sig_platform = {s}

Verified(c) == \E key \in Keys, suite \in Suites : VerifySignatures(c, suite, key, AllHolders)

Sound(c) == Validate(c) /\ Verified(c) /\ Linked(c) /\ OnePlatformSignature(c)

IInv ==
    /\ TypeOK
    /\ \A c \in issued : Sound(c)
    /\ \A p \in Files : file[p].form \in Readable => file[p].log \in issued
    /\ \A o \in Commands : cmd[o].pc # "idle" => cmd[o].log \in issued

(***************************************************************************)
(* Records and signatures                                                  *)
(***************************************************************************)
LEMMA EmptyChain == <<>> \in Chains
BY DEF Chains

\* An id is a sequence of entries one longer than the id the record names.
LEMMA RecordIdType ==
    ASSUME NEW r \in Records
    PROVE  EntryOf(r) \in Entries /\ RecordId(r) \in RecordIds
BY DEF Records, RecordId, RecordIds, Entries, EntryOf

\* Signing fills in the two signature fields and nothing that is signed.
LEMMA SignedRecord ==
    ASSUME NEW r \in Records, NEW suite \in Suites, NEW key \in Keys,
           NEW holderKeys \in SUBSET Keys
    PROVE  LET s == Signed(r, suite, key, holderKeys) IN
           /\ s \in Records
           /\ s.seq = r.seq /\ s.type = r.type /\ s.subject = r.subject
           /\ s.holder = r.holder /\ s.prev = r.prev /\ s.root = r.root
           /\ EntryOf(s) = EntryOf(r)
           /\ RecordId(s) = RecordId(r)
           /\ s.sig_platform = {SignatureOf(s, suite, key)}
           /\ s.type = "transfer" =>
                  s.sig_holder = {SignatureOf(s, suite, k) : k \in holderKeys}
<1> DEFINE s == Signed(r, suite, key, holderKeys)
<1>1. \A k \in Keys : SignatureOf(r, suite, k) \in Signatures
  BY RecordIdType DEF SignatureOf, Signatures, Records
<1>2. s \in Records
  BY <1>1 DEF Signed, Records
<1>3. /\ s.seq = r.seq /\ s.type = r.type /\ s.subject = r.subject
      /\ s.holder = r.holder /\ s.prev = r.prev /\ s.root = r.root
  BY DEF Signed, Records
<1>4. EntryOf(s) = EntryOf(r) /\ RecordId(s) = RecordId(r)
  BY <1>3 DEF EntryOf, RecordId
<1>5. \A k \in Keys : SignatureOf(s, suite, k) = SignatureOf(r, suite, k)
  BY <1>3, <1>4 DEF SignatureOf
<1>6. s.sig_platform = {SignatureOf(s, suite, key)}
  BY <1>5 DEF Signed, Records
<1>7. s.type = "transfer" => s.sig_holder = {SignatureOf(s, suite, k) : k \in holderKeys}
  <2>1. s.type = "transfer" => s.sig_holder = {SignatureOf(r, suite, k) : k \in holderKeys}
    BY <1>3 DEF Signed, Records
  <2>2. {SignatureOf(r, suite, k) : k \in holderKeys} = {SignatureOf(s, suite, k) : k \in holderKeys}
    BY <1>5
  <2> QED
    BY <2>1, <2>2
<1> QED
  BY <1>2, <1>3, <1>4, <1>6, <1>7

\* The record a chain is extended with, before it is signed.
LEMMA NextRecordType ==
    ASSUME NEW c \in Chains, c # <<>>, NEW type \in RecordTypes,
           NEW subject \in Subjects, NEW holder \in Holders
    PROVE  /\ NextRecord(c, type, subject, holder) \in Records
           /\ NextRecord(c, type, subject, holder).type = type
           /\ NextRecord(c, type, subject, holder).holder = holder
           /\ NextRecord(c, type, subject, holder).root = {}
           /\ NextRecord(c, type, subject, holder).prev = RecordId(Last(c))
<1>1. Last(c) \in Records
  BY DEF Last, Chains
<1>2. RecordId(Last(c)) \in RecordIds
  BY <1>1, RecordIdType
<1> QED
  BY <1>2 DEF NextRecord, Unsigned, Records, Chains

(***************************************************************************)
(* Chains                                                                  *)
(***************************************************************************)
\* Whoever trusts every holder's key accepts what one who trusts some accepts.
LEMMA TrustMore ==
    ASSUME NEW c \in Chains, NEW suite \in Suites, NEW key \in Keys, NEW pub \in Keys,
           VerifySignatures(c, suite, key, {<<HolderHash(pub), pub>>})
    PROVE  Verified(c)
<1>1. \A holder : Resolve({<<HolderHash(pub), pub>>}, holder) \subseteq Resolve(AllHolders, holder)
  BY DEF Resolve, AllHolders
<1>2. VerifySignatures(c, suite, key, AllHolders)
  BY <1>1 DEF VerifySignatures
<1> QED
  BY <1>2 DEF Verified

\* A sound chain stays linked, and signed once, when a record that names its last
\* record is appended.
LEMMA AppendLinked ==
    ASSUME NEW c \in Chains, c # <<>>, Linked(c), OnePlatformSignature(c),
           NEW r \in Records, r.prev = RecordId(Last(c)),
           NEW s, r.sig_platform = {s}
    PROVE  Linked(Append(c, r)) /\ OnePlatformSignature(Append(c, r))
<1> DEFINE d == Append(c, r)
           m == Len(c)
<1>1. /\ d \in Chains /\ Len(d) = m + 1 /\ d[m + 1] = r /\ m \in Nat /\ m > 0
      /\ \A n \in 1..m : d[n] = c[n]
  BY DEF Chains
<1>2. OnePlatformSignature(d)
  <2> SUFFICES ASSUME NEW n \in 1..m+1
               PROVE  \E x \in d[n].sig_platform : d[n].sig_platform = {x}
    BY <1>1 DEF OnePlatformSignature
  <2>1. CASE n = m + 1
    BY <1>1, <2>1
  <2>2. CASE n \in 1..m
    BY <1>1, <2>2 DEF OnePlatformSignature
  <2> QED
    BY <1>1, <2>1, <2>2
<1>3. r.prev = [i \in 1..m |-> EntryOf(c[i])]
  <2>1. c[m].prev = [i \in 1..m-1 |-> EntryOf(c[i])]
    BY <1>1 DEF Linked
  <2>2. r.prev = Append(c[m].prev, EntryOf(c[m]))
    BY DEF RecordId, Last
  <2> QED
    BY <1>1, <2>1, <2>2
<1>4. ASSUME NEW n \in 1..m+1
      PROVE  d[n].prev = [i \in 1..n-1 |-> EntryOf(d[i])]
  <2>1. CASE n = m + 1
    BY <1>1, <1>3, <2>1
  <2>2. CASE n \in 1..m
    <3>1. c[n].prev = [i \in 1..n-1 |-> EntryOf(c[i])]
      BY <2>2 DEF Linked
    <3>2. \A i \in 1..n-1 : d[i] = c[i]
      BY <1>1, <2>2
    <3> QED
      BY <1>1, <2>2, <3>1, <3>2
  <2> QED
    BY <1>1, <2>1, <2>2
<1>5. Linked(d)
  BY <1>1, <1>4 DEF Linked
<1> QED
  BY <1>2, <1>5

\* A validated grant is a sound chain.
LEMMA GrantSound ==
    ASSUME NEW subject \in Subjects, NEW holder \in Holders, NEW root \in Roots,
           NEW suite \in Suites, NEW key \in Keys,
           Validate(GrantChain(subject, holder, root, suite, key))
    PROVE  /\ GrantChain(subject, holder, root, suite, key) \in Chains
           /\ Sound(GrantChain(subject, holder, root, suite, key))
<1> DEFINE u == Unsigned(0, "grant", subject, holder, ZeroId, {root})
           r == Signed(u, suite, key, {})
           c == GrantChain(subject, holder, root, suite, key)
<1>1. u \in Records /\ u.prev = <<>> /\ u.type = "grant"
  <2>1. ZeroId \in RecordIds /\ "grant" \in RecordTypes /\ 0 \in Nat
    BY DEF ZeroId, RecordIds, RecordTypes
  <2>2. {root} \in SUBSET Roots /\ {} \in SUBSET Signatures
    OBVIOUS
  <2> QED
    BY <2>1, <2>2 DEF Unsigned, Records, ZeroId
<1>2. /\ r \in Records /\ r.prev = <<>> /\ r.type = "grant"
      /\ r.sig_platform = {SignatureOf(r, suite, key)}
  <2> HIDE DEF u
  <2>1. {} \in SUBSET Keys
    OBVIOUS
  <2> QED
    BY <1>1, <2>1, SignedRecord
<1>3. c = <<r>> /\ c \in Chains /\ Len(c) = 1 /\ c[1] = r
  <2>1. c = <<r>>
    BY DEF GrantChain
  <2> HIDE DEF r, c
  <2> QED
    BY <1>2, <2>1 DEF Chains
<1>4. VerifySignatures(c, suite, key, AllHolders)
  <2> HIDE DEF r, c
  <2>1. \A n \in 1..Len(c) : c[n] = r
    BY <1>3
  <2> QED
    BY <1>2, <2>1 DEF VerifySignatures
<1>5. Verified(c)
  BY <1>4 DEF Verified
<1>6. Linked(c) /\ OnePlatformSignature(c)
  <2> HIDE DEF r, c
  <2>1. \A n \in 1..Len(c) : n = 1 /\ c[n] = r
    BY <1>3
  <2>2. OnePlatformSignature(c)
    BY <1>2, <2>1 DEF OnePlatformSignature
  <2>3. [i \in 1..0 |-> EntryOf(c[i])] = <<>>
    OBVIOUS
  <2>4. Linked(c)
    BY <1>2, <2>1, <2>3 DEF Linked
  <2> QED
    BY <2>2, <2>4
<1> QED
  BY <1>3, <1>5, <1>6 DEF Sound

\* A handoff the command accepts is a sound chain.
LEMMA HandoffSound ==
    ASSUME NEW c \in Chains, Sound(c), NEW a \in Arguments, Accepts(c, a)
    PROVE  NewChain(c, a) \in Chains /\ Sound(NewChain(c, a))
<1> DEFINE u == NextRecord(c, "transfer", a.subject, a.newHolder)
           r == Signed(u, a.suite, a.platformKey, {a.holderKey})
           d == NewChain(c, a)
<1>1. /\ a.platformKey \in Keys /\ a.platformPub \in Keys /\ a.holderKey \in Keys
      /\ a.holderPub \in Keys /\ a.newHolder \in Holders /\ a.subject \in Subjects
      /\ a.suite \in Suites
  BY DEF Arguments
<1>2. c # <<>>
  BY DEF Sound, Validate
<1>3. u \in Records /\ u.prev = RecordId(Last(c))
  BY <1>1, <1>2, NextRecordType DEF RecordTypes
<1>4. /\ r \in Records /\ r.prev = RecordId(Last(c))
      /\ r.sig_platform = {SignatureOf(r, a.suite, a.platformKey)}
  BY <1>1, <1>3, SignedRecord
<1>5. d = Append(c, r) /\ d \in Chains
  BY <1>4 DEF NewChain, AppendTransfer, Chains
<1>6. Validate(d) /\ Verified(d)
  BY <1>1, <1>5, TrustMore DEF Accepts
<1>7. Linked(d) /\ OnePlatformSignature(d)
  BY <1>2, <1>4, <1>5, AppendLinked DEF Sound
<1> QED
  BY <1>5, <1>6, <1>7 DEF Sound

\* A record the issuing platform adds makes a sound chain, if it validates.
LEMMA PlatformRecordSound ==
    ASSUME NEW c \in Chains, Sound(c), NEW type \in {"progress", "revoke"},
           NEW s \in c[1].sig_platform,
           Validate(AppendByPlatform(c, type, s.suite, s.key))
    PROVE  /\ AppendByPlatform(c, type, s.suite, s.key) \in Chains
           /\ Sound(AppendByPlatform(c, type, s.suite, s.key))
<1> DEFINE m == Len(c)
           u == NextRecord(c, type, Last(c).subject, Last(c).holder)
           r == Signed(u, s.suite, s.key, {})
           d == AppendByPlatform(c, type, s.suite, s.key)
<1>1. c # <<>> /\ m \in Nat /\ m > 0 /\ Last(c) \in Records /\ c[1] \in Records
  BY DEF Sound, Validate, Last, Chains
<1>2. Last(c).subject \in Subjects /\ Last(c).holder \in Holders
  BY <1>1 DEF Records
<1>3. PICK key \in Keys, suite \in Suites : VerifySignatures(c, suite, key, AllHolders)
  BY DEF Sound, Verified
<1>4. s = SignatureOf(c[1], suite, key)
  <2>1. SignatureOf(c[1], suite, key) \in c[1].sig_platform
    BY <1>1, <1>3 DEF VerifySignatures
  <2> QED
    BY <1>1, <2>1 DEF Sound, OnePlatformSignature
<1>5. s.suite = suite /\ s.key = key
  BY <1>4 DEF SignatureOf
<1>6. /\ u \in Records /\ u.prev = RecordId(Last(c)) /\ u.type = type
  BY <1>1, <1>2, NextRecordType DEF RecordTypes
<1>7. /\ r \in Records /\ r.prev = RecordId(Last(c)) /\ r.type # "transfer"
      /\ r.sig_platform = {SignatureOf(r, suite, key)}
  BY <1>3, <1>5, <1>6, SignedRecord
<1>8. /\ d = Append(c, r) /\ d \in Chains /\ Len(d) = m + 1 /\ d[m + 1] = r
      /\ \A n \in 1..m : d[n] = c[n]
  BY <1>1, <1>7 DEF AppendByPlatform, Chains
<1>9. VerifySignatures(d, suite, key, AllHolders)
  <2> SUFFICES ASSUME NEW n \in 1..m+1
               PROVE  /\ SignatureOf(d[n], suite, key) \in d[n].sig_platform
                      /\ d[n].type = "transfer" =>
                            /\ n > 1
                            /\ \E k \in Resolve(AllHolders, d[n-1].holder) :
                                   SignatureOf(d[n], suite, k) \in d[n].sig_holder
    BY <1>8 DEF VerifySignatures
  <2>1. CASE n = m + 1
    BY <1>7, <1>8, <2>1
  <2>2. CASE n \in 1..m
    <3>1. d[n] = c[n] /\ (n > 1 => d[n-1] = c[n-1])
      BY <1>1, <1>8, <2>2
    <3> QED
      BY <1>3, <2>2, <3>1 DEF VerifySignatures
  <2> QED
    BY <1>1, <2>1, <2>2
<1>10. Linked(d) /\ OnePlatformSignature(d)
  BY <1>1, <1>7, <1>8, AppendLinked DEF Sound
<1> QED
  BY <1>3, <1>8, <1>9, <1>10 DEF Sound, Verified

(***************************************************************************)
(* The invariant is inductive                                              *)
(***************************************************************************)
LEMMA InitIInv == Init => IInv
BY DEF Init, IInv, TypeOK, Contents, Ended, Process, Forms, Phases, Readable, Chains

\* One step per action; a step that issues a chain appends one record to an issued one.
LEMMA NextIInv == IInv /\ [Next]_vars => IInv'
<1> SUFFICES ASSUME IInv, [Next]_vars
             PROVE  IInv'
  OBVIOUS
<1> USE DEF IInv
<1>1. ASSUME NEW p \in Files, NEW form \in {"chain", "bundle"}, NEW subject \in Subjects,
             NEW holder \in Holders, NEW root \in Roots, NEW suite \in Suites,
             NEW key \in Keys, Grant(p, form, subject, holder, root, suite, key)
      PROVE  IInv'
  <2> DEFINE c == GrantChain(subject, holder, root, suite, key)
  <2>1. c \in Chains /\ Sound(c)
    BY <1>1, GrantSound DEF Grant
  <2>2. TypeOK'
    BY <1>1, <2>1 DEF Grant, TypeOK, Contents, Forms
  <2>3. (\A d \in issued : Sound(d))'
    BY <1>1, <2>1 DEF Grant
  <2>4. (\A q \in Files : file[q].form \in Readable => file[q].log \in issued)'
    BY <1>1 DEF Grant, TypeOK, Contents
  <2>5. (\A o \in Commands : cmd[o].pc # "idle" => cmd[o].log \in issued)'
    BY <1>1 DEF Grant
  <2> QED
    BY <2>2, <2>3, <2>4, <2>5
<1>2. ASSUME NEW p \in Files, NEW type \in {"progress", "revoke"}, PlatformRecord(p, type)
      PROVE  IInv'
  <2>1. PICK s \in file[p].log[1].sig_platform :
           LET c == AppendByPlatform(file[p].log, type, s.suite, s.key) IN
           /\ Validate(c)
           /\ file' = [file EXCEPT ![p].log = c]
           /\ issued' = issued \cup {c}
    BY <1>2 DEF PlatformRecord
  <2> DEFINE c == AppendByPlatform(file[p].log, type, s.suite, s.key)
  <2>2. file[p].log \in issued /\ file[p].log \in Chains
    BY <1>2 DEF PlatformRecord, TypeOK, Readable
  <2>3. c \in Chains /\ Sound(c)
    BY <2>1, <2>2, PlatformRecordSound
  <2>4. TypeOK'
    BY <1>2, <2>1, <2>3 DEF PlatformRecord, TypeOK
  <2>5. (\A d \in issued : Sound(d))'
    BY <2>1, <2>3
  <2>6. (\A q \in Files : file[q].form \in Readable => file[q].log \in issued)'
    BY <2>1 DEF TypeOK
  <2>7. (\A o \in Commands : cmd[o].pc # "idle" => cmd[o].log \in issued)'
    BY <1>2, <2>1 DEF PlatformRecord
  <2> QED
    BY <2>4, <2>5, <2>6, <2>7
<1>3. ASSUME NEW p \in Files, Freeze(p)
      PROVE  IInv'
  BY <1>3 DEF Freeze, TypeOK, Forms, Readable
<1>4. ASSUME NEW o \in Commands, NEW in \in Files, NEW out \in Files, NEW embed \in BOOLEAN,
             ReadChain(o, in, out, embed)
      PROVE  IInv'
  <2>1. file[in].log \in issued /\ file[in].log \in Chains
    BY <1>4 DEF ReadChain, TypeOK
  <2>2. TypeOK'
    BY <1>4, <2>1 DEF ReadChain, TypeOK, Process, Phases
  <2>3. (\A q \in Commands : cmd[q].pc # "idle" => cmd[q].log \in issued)'
    BY <1>4, <2>1 DEF ReadChain, TypeOK, Process
  <2> QED
    BY <1>4, <2>2, <2>3 DEF ReadChain
<1>5. ASSUME NEW o \in Commands, Accept(o)
      PROVE  IInv'
  <2>1. PICK a \in Arguments :
           LET c == NewChain(cmd[o].log, a) IN
           /\ Accepts(cmd[o].log, a)
           /\ issued' = issued \cup {c}
           /\ cmd' = [cmd EXCEPT ![o].pc = IF cmd[o].embed THEN "embed" ELSE "open",
                                 ![o].log = c]
    BY <1>5 DEF Accept
  <2> DEFINE c == NewChain(cmd[o].log, a)
  <2>2. cmd[o].log \in issued /\ cmd[o].log \in Chains
    BY <1>5 DEF Accept, TypeOK
  <2>3. c \in Chains /\ Sound(c)
    BY <2>1, <2>2, HandoffSound
  <2>4. TypeOK'
    <3> DEFINE pc == IF cmd[o].embed THEN "embed" ELSE "open"
    <3>1. pc \in Phases
      BY DEF Phases
    <3> HIDE DEF c, pc
    <3>2. cmd' = [cmd EXCEPT ![o].pc = pc, ![o].log = c]
      BY <2>1 DEF c, pc
    <3>3. issued' = issued \cup {c} /\ file' = file
      BY <1>5, <2>1 DEF Accept, c
    <3> QED
      BY <2>3, <3>1, <3>2, <3>3 DEF TypeOK
  <2>5. (\A d \in issued : Sound(d))'
    BY <2>1, <2>3
  <2>6. (\A q \in Files : file[q].form \in Readable => file[q].log \in issued)'
    BY <1>5, <2>1 DEF Accept
  <2>7. (\A q \in Commands : cmd[q].pc # "idle" => cmd[q].log \in issued)'
    BY <2>1 DEF TypeOK
  <2> QED
    BY <2>4, <2>5, <2>6, <2>7
<1>6. ASSUME NEW o \in Commands, End(o), UNCHANGED <<file, issued>>
      PROVE  IInv'
  BY <1>6 DEF End, Ended, Process, TypeOK, Phases, Chains
<1>7. ASSUME NEW o \in Commands, Embed(o)
      PROVE  IInv'
  <2>1. CASE cmd' = [cmd EXCEPT ![o].pc = "open"]
    BY <1>7, <2>1 DEF Embed, TypeOK, Phases
  <2> QED
    BY <1>6, <1>7, <2>1 DEF Embed
<1>8. ASSUME NEW o \in Commands, OpenOutput(o)
      PROVE  IInv'
  <2>1. TypeOK'
    <3>1. Damaged \in [form: Forms, log: Chains]
      BY EmptyChain DEF Damaged, Contents, Forms
    <3>2. "write" \in Phases
      BY DEF Phases
    <3> QED
      BY <1>8, <3>1, <3>2 DEF OpenOutput, TypeOK
  <2>2. (\A q \in Files : file[q].form \in Readable => file[q].log \in issued)'
    BY <1>8 DEF OpenOutput, TypeOK, Damaged, Contents, Readable
  <2>3. (\A q \in Commands : cmd[q].pc # "idle" => cmd[q].log \in issued)'
    BY <1>8 DEF OpenOutput, TypeOK
  <2> QED
    BY <1>8, <2>1, <2>2, <2>3 DEF OpenOutput
<1>9. ASSUME NEW o \in Commands, WriteOutput(o)
      PROVE  IInv'
  <2>1. cmd[o].log \in issued /\ cmd[o].log \in Chains
    BY <1>9 DEF WriteOutput, TypeOK
  <2>2. TypeOK'
    <3> DEFINE new == Contents(IF cmd[o].embed THEN "bundle" ELSE "chain", cmd[o].log)
    <3>1. new \in [form: Forms, log: Chains]
      BY <2>1 DEF Contents, Forms
    <3>2. Ended \in [pc: Phases, in: Files \cup {NoFile}, out: Files \cup {NoFile},
                    embed: BOOLEAN, log: Chains]
      BY EmptyChain DEF Ended, Process, Phases
    <3> QED
      BY <1>9, <3>1, <3>2 DEF WriteOutput, End, TypeOK
  <2>3. (\A q \in Files : file[q].form \in Readable => file[q].log \in issued)'
    BY <1>9, <2>1 DEF WriteOutput, TypeOK, Contents
  <2>4. (\A q \in Commands : cmd[q].pc # "idle" => cmd[q].log \in issued)'
    BY <1>9 DEF WriteOutput, End, Ended, Process, TypeOK
  <2> QED
    BY <1>9, <2>2, <2>3, <2>4 DEF WriteOutput
<1>10. CASE UNCHANGED vars
  BY <1>10 DEF vars, TypeOK
<1> QED
  BY <1>1, <1>2, <1>3, <1>4, <1>5, <1>6, <1>7, <1>8, <1>9, <1>10
     DEF Next, Step, Platform, Refuse, Crash

(***************************************************************************)
(* Theorems                                                                *)
(***************************************************************************)
THEOREM Invariant == Spec => []IInv
BY InitIInv, NextIInv, PTL DEF Spec

\* Type correctness of Transfer: files and invocations always hold chains of records.
THEOREM TypeCorrect == Spec => []TypeOK
<1>1. IInv => TypeOK
  BY DEF IInv
<1> QED
  BY <1>1, Invariant, PTL

\* Every chain anybody can show was issued.
LEMMA ShownIsIssued == IInv => ShownChains \subseteq issued
BY DEF IInv, ShownChains

\* Every chain `ctf transfer` accepted or a file shows obeys the chain rules and
\* verifies under one platform key for a verifier that knows every holder's key.
THEOREM AlwaysAuthentic == Spec => []Authentic
<1>1. IInv => Authentic
  BY ShownIsIssued DEF IInv, Sound, Verified, Authentic, AllHolders
<1> QED
  BY <1>1, Invariant, PTL

\* In a sound chain the id of record n is the sequence of the first n entries.
LEMMA IdIsHistory ==
    ASSUME NEW c \in Chains, Linked(c), NEW n \in 1..Len(c)
    PROVE  RecordId(c[n]) = [i \in 1..n |-> EntryOf(c[i])]
<1> DEFINE before == [i \in 1..n-1 |-> EntryOf(c[i])]
<1>1. c[n].prev = before
  BY DEF Linked
<1>2. RecordId(c[n]) = Append(before, EntryOf(c[n]))
  BY <1>1 DEF RecordId
<1>3. n \in Nat /\ n > 0
  BY DEF Chains
<1> QED
  BY <1>2, <1>3

\* Two chains that agree on the id of one record agree on every record before it,
\* whatever forks, lost updates and crashes produced them.
THEOREM AlwaysTamperEvident == Spec => []TamperEvident
<1>1. ASSUME IInv
      PROVE  TamperEvident
  <2> SUFFICES ASSUME NEW c \in ShownChains, NEW d \in ShownChains, NEW n \in 1..Len(c),
                      n <= Len(d), RecordId(c[n]) = RecordId(d[n]), NEW m \in 1..n
               PROVE  EntryOf(c[m]) = EntryOf(d[m])
    BY DEF TamperEvident
  <2>1. c \in Chains /\ d \in Chains /\ Linked(c) /\ Linked(d)
    BY <1>1, ShownIsIssued DEF IInv, TypeOK, Sound
  <2>2. n \in 1..Len(d)
    BY <2>1 DEF Chains
  <2>3. [i \in 1..n |-> EntryOf(c[i])] = [i \in 1..n |-> EntryOf(d[i])]
    BY <2>1, <2>2, IdIsHistory
  <2> QED
    BY <2>3
<1> QED
  BY <1>1, Invariant, PTL

(***************************************************************************)
(* The promise of module Custody                                           *)
(***************************************************************************)
\* Appending a record appends its event.
LEMMA HistoryAppend ==
    ASSUME NEW c \in Chains, NEW r \in Records
    PROVE  HistoryOf(Append(c, r)) = Append(HistoryOf(c), EventOf(r))
<1>1. /\ Len(Append(c, r)) = Len(c) + 1 /\ Len(c) \in Nat
      /\ Append(c, r)[Len(c) + 1] = r
      /\ \A n \in 1..Len(c) : Append(c, r)[n] = c[n]
  BY DEF Chains
<1>2. HistoryOf(c) \in Seq({EventOf(c[n]) : n \in 1..Len(c)})
  BY <1>1 DEF HistoryOf
<1> HIDE DEF Chains
<1>3. Len(HistoryOf(c)) = Len(c)
  BY <1>1 DEF HistoryOf
<1> QED
  BY <1>1, <1>3 DEF HistoryOf

\* The current holder of a chain's history is the holder its last record names.
LEMMA HistoryHolder ==
    ASSUME NEW c \in Chains, c # <<>>
    PROVE  Promise!CurrentHolder(HistoryOf(c)) = Last(c).holder
<1>1. Len(c) \in Nat /\ Len(c) > 0
  BY DEF Chains
<1>2. Len(HistoryOf(c)) = Len(c) /\ HistoryOf(c)[Len(c)] = EventOf(c[Len(c)])
  BY <1>1 DEF HistoryOf
<1> QED
  BY <1>2 DEF Promise!CurrentHolder, Promise!Last, Last, EventOf

LEMMA GrantPromised ==
    ASSUME IInv, NEW p \in Files, NEW form, NEW subject \in Subjects, NEW holder \in Holders,
           NEW root \in Roots, NEW suite \in Suites, NEW key \in Keys,
           Grant(p, form, subject, holder, root, suite, key)
    PROVE  Promise!Grant(holder, root)
<1> DEFINE u == Unsigned(0, "grant", subject, holder, ZeroId, {root})
           r == Signed(u, suite, key, {})
           c == GrantChain(subject, holder, root, suite, key)
<1>1. c = <<r>>
  BY DEF GrantChain
<1>2. /\ r.type = "grant" /\ r.holder = holder /\ r.root = {root} /\ r.sig_holder = {}
  BY DEF Signed, Unsigned
<1>3. EventOf(r) = Promise!Event("grant", holder, {}, {root})
  BY <1>2 DEF EventOf, Promise!Event
<1>4. HistoryOf(c) = <<EventOf(r)>>
  <2> HIDE DEF r, c
  <2> QED
    BY <1>1 DEF HistoryOf
<1>5. issued' = issued \cup {c}
  BY DEF Grant
<1> QED
  BY <1>3, <1>4, <1>5 DEF Promise!Grant

LEMMA HandoffPromised ==
    ASSUME IInv, NEW c \in issued, NEW a \in Arguments, Accepts(c, a),
           issued' = issued \cup {NewChain(c, a)}
    PROVE  Promise!Handoff(HistoryOf(c), a.newHolder)
<1> DEFINE u == NextRecord(c, "transfer", a.subject, a.newHolder)
           r == Signed(u, a.suite, a.platformKey, {a.holderKey})
           m == Len(c)
<1>1. /\ a.platformKey \in Keys /\ a.holderKey \in Keys /\ a.holderPub \in Keys
      /\ a.newHolder \in Holders /\ a.subject \in Subjects /\ a.suite \in Suites
  BY DEF Arguments
<1>2. c \in Chains /\ c # <<>> /\ m \in Nat /\ m > 0
  BY DEF IInv, TypeOK, Sound, Validate, Chains
<1>3. /\ u \in Records /\ u.type = "transfer" /\ u.holder = a.newHolder /\ u.root = {}
  BY <1>1, <1>2, NextRecordType DEF RecordTypes
<1>4. /\ r \in Records /\ r.type = "transfer" /\ r.holder = a.newHolder /\ r.root = {}
      /\ r.sig_holder = {SignatureOf(r, a.suite, k) : k \in {a.holderKey}}
  BY <1>1, <1>3, SignedRecord
<1>5. NewChain(c, a) = Append(c, r)
  BY DEF NewChain, AppendTransfer
<1>6. HolderHash(a.holderKey) = Last(c).holder
  <2> HIDE DEF r
  <2>1. PICK k \in Resolve({<<HolderHash(a.holderPub), a.holderPub>>}, Last(c).holder) :
           SignatureOf(r, a.suite, k) \in r.sig_holder
    <3>1. Append(c, r)[m + 1] = r /\ Append(c, r)[m] = c[m] /\ Len(Append(c, r)) = m + 1
      BY <1>2, <1>4 DEF Chains
    <3>2. m + 1 \in 1..Len(Append(c, r)) /\ (m + 1) - 1 = m
      BY <1>2, <3>1
    <3>3. \E k \in Resolve({<<HolderHash(a.holderPub), a.holderPub>>}, c[m].holder) :
             SignatureOf(r, a.suite, k) \in r.sig_holder
      BY <1>4, <1>5, <3>1, <3>2 DEF Accepts, VerifySignatures
    <3> QED
      BY <3>3 DEF Last
  <2>2. k = a.holderKey
    BY <1>4, <2>1 DEF SignatureOf
  <2>3. HolderHash(k) = Last(c).holder
    BY <2>1 DEF Resolve
  <2> QED
    BY <2>2, <2>3
<1>7. EventOf(r) = Promise!Event("handoff", a.newHolder, {Last(c).holder}, {})
  <2> HIDE DEF r
  <2> DEFINE sig == SignatureOf(r, a.suite, a.holderKey)
  <2>1. {HolderHash(s.key) : s \in r.sig_holder} = {Last(c).holder}
    <3>1. sig.key = a.holderKey
      BY DEF SignatureOf
    <3> HIDE DEF sig
    <3>2. r.sig_holder = {sig}
      BY <1>4 DEF sig
    <3> QED
      BY <1>6, <3>1, <3>2
  <2> QED
    BY <1>4, <2>1 DEF EventOf, Promise!Event
<1>8. HistoryOf(NewChain(c, a)) = Append(HistoryOf(c), EventOf(r))
  BY <1>2, <1>4, <1>5, HistoryAppend
<1>9. Promise!CurrentHolder(HistoryOf(c)) = Last(c).holder
  BY <1>2, HistoryHolder
<1> QED
  BY <1>7, <1>8, <1>9 DEF Promise!Handoff

LEMMA NotePromised ==
    ASSUME IInv, NEW c \in issued, NEW type \in {"progress", "revoke"},
           NEW s \in c[1].sig_platform,
           issued' = issued \cup {AppendByPlatform(c, type, s.suite, s.key)}
    PROVE  Promise!Note(HistoryOf(c))
<1> DEFINE u == NextRecord(c, type, Last(c).subject, Last(c).holder)
           r == Signed(u, s.suite, s.key, {})
<1>1. c \in Chains /\ c # <<>> /\ c[1] \in Records /\ Last(c) \in Records
  BY DEF IInv, TypeOK, Sound, Validate, Chains, Last
<1>2. s.suite \in Suites /\ s.key \in Keys
  <2>1. PICK key \in Keys, suite \in Suites : VerifySignatures(c, suite, key, AllHolders)
    BY DEF IInv, Sound, Verified
  <2>2. 1 \in 1..Len(c)
    BY <1>1 DEF Chains
  <2>3. PICK x \in c[1].sig_platform : c[1].sig_platform = {x}
    BY <2>2 DEF IInv, Sound, OnePlatformSignature
  <2>4. SignatureOf(c[1], suite, key) \in c[1].sig_platform
    BY <2>1, <2>2 DEF VerifySignatures
  <2>5. s = SignatureOf(c[1], suite, key)
    BY <2>3, <2>4
  <2> QED
    BY <2>5 DEF SignatureOf
<1>3. Last(c).subject \in Subjects /\ Last(c).holder \in Holders
  BY <1>1 DEF Records
<1>4. u \in Records /\ u.type = type /\ u.holder = Last(c).holder /\ u.root = {}
  BY <1>1, <1>3, NextRecordType DEF RecordTypes
<1>5. /\ r \in Records /\ r.type = type /\ r.holder = Last(c).holder /\ r.root = {}
      /\ r.sig_holder = {}
  <2> HIDE DEF u
  <2>1. r \in Records /\ r.type = type /\ r.holder = Last(c).holder /\ r.root = {}
    BY <1>2, <1>4, SignedRecord
  <2>2. r.sig_holder = {}
    BY <1>4 DEF Signed, Records
  <2> QED
    BY <2>1, <2>2
<1>6. EventOf(r) = Promise!Event("note", Last(c).holder, {}, {})
  <2> HIDE DEF r
  <2> QED
    BY <1>5 DEF EventOf, Promise!Event
<1>7. AppendByPlatform(c, type, s.suite, s.key) = Append(c, r)
  BY DEF AppendByPlatform
<1>8. HistoryOf(Append(c, r)) = Append(HistoryOf(c), EventOf(r))
  BY <1>1, <1>5, HistoryAppend
<1>9. Promise!CurrentHolder(HistoryOf(c)) = Last(c).holder
  BY <1>1, HistoryHolder
<1> QED
  BY <1>6, <1>7, <1>8, <1>9 DEF Promise!Note

\* `ctf transfer` implements the promise: however invocations interleave, crash and
\* overwrite each other's files, a history anybody can show grew only by handoffs of
\* its current holder and by notes that keep the holder.
THEOREM ImplementsCustody == Spec => CustodySpec
<1>1. Init => Promise!Init
  BY DEF Init, Promise!Init
<1>2. IInv /\ [Next]_vars => [Promise!Next]_{HistoryOf(c) : c \in issued}
  <2> SUFFICES ASSUME IInv, [Next]_vars, issued' # issued
               PROVE  Promise!Next
    OBVIOUS
  <2>1. ASSUME NEW p \in Files, NEW form \in {"chain", "bundle"}, NEW subject \in Subjects,
               NEW holder \in Holders, NEW root \in Roots, NEW suite \in Suites,
               NEW key \in Keys, Grant(p, form, subject, holder, root, suite, key)
        PROVE  Promise!Next
    BY <2>1, GrantPromised DEF Promise!Next
  <2>2. ASSUME NEW p \in Files, NEW type \in {"progress", "revoke"}, PlatformRecord(p, type)
        PROVE  Promise!Next
    <3> DEFINE c == file[p].log
    <3>1. c \in issued
      BY <2>2 DEF PlatformRecord, IInv, Readable
    <3>2. PICK s \in c[1].sig_platform :
             issued' = issued \cup {AppendByPlatform(c, type, s.suite, s.key)}
      BY <2>2 DEF PlatformRecord
    <3>3. Promise!Note(HistoryOf(c))
      BY <3>1, <3>2, NotePromised
    <3> QED
      BY <3>1, <3>3 DEF Promise!Next
  <2>3. ASSUME NEW o \in Commands, Accept(o)
        PROVE  Promise!Next
    <3> DEFINE c == cmd[o].log
    <3>1. c \in issued
      BY <2>3 DEF Accept, IInv
    <3>2. PICK a \in Arguments : Accepts(c, a) /\ issued' = issued \cup {NewChain(c, a)}
      BY <2>3 DEF Accept
    <3>3. Promise!Handoff(HistoryOf(c), a.newHolder)
      BY <3>1, <3>2, HandoffPromised
    <3>4. a.newHolder \in Holders
      BY DEF Arguments
    <3> QED
      BY <3>1, <3>3, <3>4 DEF Promise!Next
  <2>4. CASE UNCHANGED issued
    BY <2>4
  <2> QED
    BY <2>1, <2>2, <2>3, <2>4
       DEF Next, Step, Platform, Freeze, ReadChain, Refuse, Embed, OpenOutput, WriteOutput,
           Crash, vars
<1> QED
  BY <1>1, <1>2, Invariant, PTL DEF Spec, CustodySpec, Promise!Spec
=============================================================================
