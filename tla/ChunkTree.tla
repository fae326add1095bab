------------------------------ MODULE ChunkTree ------------------------------
(***************************************************************************)
(* The chunk index of a section: one chaining value per chunk, which merge *)
(* to the BLAKE3 root of the whole plaintext.  A unit of plaintext here is *)
(* a BLAKE3 chunk (1024 bytes), and a hash is the symbolic tree of what it *)
(* covers: it names every leaf with its position, so two trees are equal   *)
(* exactly when BLAKE3 was given the same input in the same shape.         *)
(***************************************************************************)
EXTENDS Naturals, Sequences, SequencesExt

CONSTANTS
    MinChunk,   \* MIN_CHUNK_SIZE, in units
    MaxChunk    \* MAX_CHUNK_SIZE, in units

ASSUME ChunkTreeAssumption ==
    MinChunk \in Nat \ {0} /\ MaxChunk \in Nat /\ MinChunk <= MaxChunk

\* What an operation that can fail returns.
Ok(x) == [ok |-> TRUE, value |-> x]
Failed == [ok |-> FALSE, value |-> <<>>]

\* The `?` operator, and collecting results into one.
AndThen(result, Next(_)) == IF result.ok THEN Next(result.value) ELSE Failed

Collect(results) ==
    IF \A i \in DOMAIN results : results[i].ok
    THEN Ok([i \in DOMAIN results |-> results[i].value]) ELSE Failed

(***************************************************************************)
(* BLAKE3, as the code calls it                                            *)
(***************************************************************************)
PowerOfTwo[k \in Nat] == IF k = 0 THEN 1 ELSE 2 * PowerOfTwo[k - 1]

\* The value of a list of subtrees, every list of n of them parted after split[n].
Tree(leaves, split) ==
    LET span[n \in 1 .. Len(leaves)] ==
            [at \in 1 .. Len(leaves) - n + 1 |->
                IF n = 1 THEN leaves[at]
                ELSE <<"node", span[split[n]][at], span[n - split[n]][at + split[n]]>>]
    IN span[Len(leaves)][1]

\* BLAKE3 splits n units after the largest power of two strictly below n.
BlakeSplit(n) == CHOOSE p \in {PowerOfTwo[k] : k \in 0 .. n} : p < n /\ n <= 2 * p

\* finalize_non_root of `cells` hashed from the input offset `from`.
Subtree(cells, from) ==
    Tree([i \in 1 .. Len(cells) |-> <<"leaf", from + i - 1, cells[i]>>],
         [n \in 2 .. Len(cells) |-> BlakeSplit(n)])

\* BLAKE3 of a whole input.
Hash(cells) ==
    CASE Len(cells) = 0 -> <<"rootempty", 0, 0>>
      [] Len(cells) = 1 -> <<"rootleaf", 0, cells[1]>>
      [] OTHER -> LET p == BlakeSplit(Len(cells)) IN
                  <<"root", Subtree(SubSeq(cells, 1, p), 0),
                            Subtree(SubSeq(cells, p + 1, Len(cells)), p)>>

(***************************************************************************)
(* Chunks and their chaining values                                        *)
(***************************************************************************)
ValidChunkSize(cs) == cs \in MinChunk .. MaxChunk /\ \E k \in 0 .. cs : cs = PowerOfTwo[k]

ChunkCount(lenPlain, cs) == (lenPlain + cs - 1) \div cs

\* The plaintext of chunk i, counted from zero.
Chunk(plain, i, cs) ==
    SubSeq(plain, i * cs + 1, IF (i + 1) * cs < Len(plain) THEN (i + 1) * cs ELSE Len(plain))

ChunkCv(data, index, cs) ==
    IF ValidChunkSize(cs) /\ Len(data) \in 1 .. cs
    THEN Ok(Subtree(data, index * cs))
    ELSE Failed

\* Two halves of the same size instead of the largest power of two.
SplitInHalves(n) == (n + 1) \div 2

\* The left part holds 2^k entries, k the position of the highest bit of n - 1.
SplitCanonical(n) ==
    PowerOfTwo[CHOOSE k \in 0 .. n : PowerOfTwo[k] <= n - 1 /\ n - 1 < PowerOfTwo[k + 1]]

MergeNonRoot(cvs) == Tree(cvs, [n \in 2 .. Len(cvs) |-> SplitCanonical(n)])

RootFromCvs(cvs) ==
    IF Len(cvs) < 2 THEN Failed
    ELSE LET p == SplitCanonical(Len(cvs)) IN
         Ok(<<"root", MergeNonRoot(SubSeq(cvs, 1, p)),
                      MergeNonRoot(SubSeq(cvs, p + 1, Len(cvs)))>>)

(***************************************************************************)
(* Building, parsing and using an index                                    *)
(***************************************************************************)
\* ChunkIndex::build; the chaining values are stored as cells of the file.
BuildIndex(plain, cs) ==
    IF cs = 0 THEN Failed
    ELSE LET cvs == [i \in 1 .. ChunkCount(Len(plain), cs) |->
                         ChunkCv(Chunk(plain, i - 1, cs), i - 1, cs)] IN
         IF \A i \in DOMAIN cvs : cvs[i].ok
         THEN Ok([i \in DOMAIN cvs |-> <<"cv", cvs[i].value>>])
         ELSE Failed

\* Any 32 bytes are a chaining value; one that no chunk has is the cell itself.
CvOf(cell) == IF cell[1] = "cv" THEN cell[2] ELSE <<"leaf", 0, cell>>

\* The count comes from the record, never from the bytes.
ParseIndex(cells, count) ==
    IF count >= 2 /\ Len(cells) = count
    THEN Ok([i \in 1 .. count |-> CvOf(cells[i])])
    ELSE Failed

\* The only source of an index chunks can be checked against.
VerifyRoot(cvs, root, cs) ==
    /\ ValidChunkSize(cs)
    /\ RootFromCvs(cvs) = Ok(root)

VerifyChunk(cvs, cs, index, data) ==
    /\ index < Len(cvs)
    /\ ChunkCv(data, index, cs) = Ok(cvs[index + 1])
=============================================================================
