---------------------------- MODULE Entitlement ----------------------------
(***************************************************************************)
(* The entitlement chain of a challenge bundle: an append-only log of      *)
(* records, each naming the holder of a subject's challenge, linked to its *)
(* predecessor by a hash and signed by the platform (a transfer also by    *)
(* the holder that gives the challenge away).                              *)
(*                                                                         *)
(* Cryptography is symbolic.  A record id is a hash over the record        *)
(* without its signatures; because that preimage holds the predecessor's   *)
(* id, an ideal hash of record n stands for the entries 1..n, and that     *)
(* sequence is the id here (the all-zero `prev` of a genesis is <<>>).  A  *)
(* signature is a record of the key that made it and the transcript it     *)
(* covers, so only the holder of a key makes one that verifies under it.   *)
(*                                                                         *)
(* `subject` stands for the pair of text fields `challenge` and `subject`; *)
(* the advisory `timestamp` and the opaque `payload` are left out: no rule *)
(* reads them.  An Option field is a set with at most one element.         *)
(***************************************************************************)
EXTENDS Naturals, SequencesExt

CONSTANTS
    Keys,       \* hybrid signature key pairs, of players and of platforms
    Suites,     \* suite ids whose signature role this build implements
    Subjects,   \* what a record is about
    Roots,      \* commitment roots of bundle versions
    MaxSeq      \* the largest `seq`: 2^32 - 1 in the code

ASSUME EntitlementAssumption ==
    /\ MaxSeq \in Nat
    /\ Keys # {} /\ Suites # {} /\ Subjects # {} /\ Roots # {}

(***************************************************************************)
(* Data                                                                    *)
(***************************************************************************)
RecordTypes == {"grant", "transfer", "revoke", "progress"}

\* The 32-byte hash a record names its holder by.
HolderHash(key) == [holder_hash |-> key]

Holders == {HolderHash(key) : key \in Keys}

\* The part of a record its own id adds to its predecessor's.
Entries == [seq: Nat, type: RecordTypes, subject: Subjects, holder: Holders,
            root: SUBSET Roots]

RecordIds == Seq(Entries)

ZeroId == <<>>

Signatures == [key: Keys, suite: Suites, seq: Nat, id: RecordIds]

Records == [seq: Nat, type: RecordTypes, subject: Subjects, holder: Holders,
            prev: RecordIds, root: SUBSET Roots,
            sig_holder: SUBSET Signatures, sig_platform: SUBSET Signatures]

Chains == Seq(Records)

EntryOf(r) == [seq |-> r.seq, type |-> r.type, subject |-> r.subject,
               holder |-> r.holder, root |-> r.root]

\* A record id that forgets the hash link: a plausible slip in `record_entries`.
RecordIdWithoutPrev(r) == <<EntryOf(r)>>

\* EntitlementRecord::record_id: a hash over every field but the signatures.
RecordId(r) == Append(r.prev, EntryOf(r))

(***************************************************************************)
(* Signing                                                                 *)
(***************************************************************************)
\* What `key` signs for record r: the transcript holds suite, seq and id.
SignatureOf(r, suite, key) ==
    [key |-> key, suite |-> suite, seq |-> r.seq, id |-> RecordId(r)]

\* EntitlementRecord::sign; holderKeys is the Option<signing key> argument.
Signed(r, suite, platformKey, holderKeys) ==
    [r EXCEPT !.sig_platform = {SignatureOf(r, suite, platformKey)},
              !.sig_holder = IF r.type = "transfer"
                             THEN {SignatureOf(r, suite, k) : k \in holderKeys}
                             ELSE {}]

\* A record before it is signed.
Unsigned(seq, type, subject, holder, prev, root) ==
    [seq |-> seq, type |-> type, subject |-> subject, holder |-> holder,
     prev |-> prev, root |-> root, sig_holder |-> {}, sig_platform |-> {}]

(***************************************************************************)
(* Rules E2-E8, which need no key                                          *)
(***************************************************************************)
\* EntitlementRecord::check, rule E8.
Check(r) ==
    /\ r.sig_platform # {}
    /\ (r.sig_holder # {}) <=> (r.type = "transfer")

\* EntitlementChain::validate, rules E3 and E5-E8.
Validate(c) ==
    /\ c # <<>>
    /\ \A n \in 1..Len(c) :
          /\ Check(c[n])
          /\ n - 1 <= MaxSeq
          /\ c[n].seq = n - 1
          /\ n = 1 => /\ c[n].type = "grant"
                      /\ c[n].root # {}
                      /\ c[n].prev = ZeroId
          /\ n > 1 => /\ c[n].root = {}
                      /\ c[n].prev = RecordId(c[n-1])

(***************************************************************************)
(* Rule E9, which needs trusted keys                                       *)
(***************************************************************************)
\* HolderKeys::get over a resolver of <<label, key>> pairs: a pair resolves
\* only when the key hashes to the label it was registered under.
Resolve(resolver, holder) ==
    {pair[2] : pair \in {p \in resolver : p[1] = holder /\ HolderHash(p[2]) = holder}}

\* Verification that looks up the record's own holder, not its predecessor's.
VerifySignaturesOwnHolder(c, suite, platformPub, resolver) ==
    \A n \in 1..Len(c) :
        /\ SignatureOf(c[n], suite, platformPub) \in c[n].sig_platform
        /\ c[n].type = "transfer" =>
              \E k \in Resolve(resolver, c[n].holder) :
                  SignatureOf(c[n], suite, k) \in c[n].sig_holder

\* EntitlementChain::verify_signatures.
VerifySignatures(c, suite, platformPub, resolver) ==
    \A n \in 1..Len(c) :
        /\ SignatureOf(c[n], suite, platformPub) \in c[n].sig_platform
        /\ c[n].type = "transfer" =>
              /\ n > 1
              /\ \E k \in Resolve(resolver, c[n-1].holder) :
                     SignatureOf(c[n], suite, k) \in c[n].sig_holder

(***************************************************************************)
(* Building a chain                                                        *)
(***************************************************************************)
\* EntitlementChain::append_grant on an empty chain.
GrantChain(subject, holder, root, suite, platformKey) ==
    <<Signed(Unsigned(0, "grant", subject, holder, ZeroId, {root}), suite, platformKey, {})>>

\* The record `append_transfer` and a pushed record are built from: the next
\* seq and the link to the last record.
NextRecord(c, type, subject, holder) ==
    Unsigned(Len(c), type, subject, holder, RecordId(Last(c)), {})

\* EntitlementChain::append_transfer refuses an empty chain and a chain longer
\* than the seq space.
CanAppend(c) == c # <<>> /\ Len(c) <= MaxSeq

\* A transfer that writes the new holder's key where the hash of it belongs.
AppendTransferRawKey(c, subject, newHolder, suite, platformKey, holderKey) ==
    Append(c, Signed(NextRecord(c, "transfer", subject, newHolder.holder_hash), suite,
                     platformKey, {holderKey}))

\* EntitlementChain::append_transfer.
AppendTransfer(c, subject, newHolder, suite, platformKey, holderKey) ==
    Append(c, Signed(NextRecord(c, "transfer", subject, newHolder), suite, platformKey,
                     {holderKey}))

\* EntitlementChain::push and sign_record, for a record no holder signs.
AppendByPlatform(c, type, suite, platformKey) ==
    Append(c, Signed(NextRecord(c, type, Last(c).subject, Last(c).holder), suite,
                     platformKey, {}))
=============================================================================
