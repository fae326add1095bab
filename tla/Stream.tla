------------------------------- MODULE Stream -------------------------------
(***************************************************************************)
(* What is done to a section's plaintext before it is stored: the zstd     *)
(* framing, and the AEAD-STREAM framing of an encrypted body.  A sealed    *)
(* chunk is one cell that says under which key, nonce and associated data  *)
(* it was sealed: it opens under exactly these, and anything else fails    *)
(* its tag.                                                                *)
(***************************************************************************)
EXTENDS ChunkTree

CONSTANTS
    MaxIndex,       \* the largest chunk counter (u32::MAX)
    MaxPlain,       \* MAX_DECOMPRESSED_SECTION
    MaxRatio        \* MAX_DECOMPRESSION_RATIO, in units of plaintext per stored cell

ASSUME StreamAssumption == MaxIndex \in Nat \ {0} /\ MaxPlain \in Nat /\ MaxRatio \in Nat

(***************************************************************************)
(* Compression: a frame is one cell that holds its plaintext               *)
(***************************************************************************)
Slices(plain, cs) == [i \in 1 .. ChunkCount(Len(plain), cs) |-> Chunk(plain, i - 1, cs)]

\* One frame per chunk; an empty plaintext is one empty frame all the same.
CompressFrames(plain, cs) ==
    LET parts == IF cs = 0 \/ plain = <<>> THEN <<plain>> ELSE Slices(plain, cs)
    IN [i \in DOMAIN parts |-> <<<<"zstd", parts[i]>>>>]

Compress(plain, cs) == FlattenSeq(CompressFrames(plain, cs))

\* D1 and D2, checked before anything is decompressed.
WithinCaps(lenPlain, stored) == lenPlain <= MaxPlain /\ lenPlain <= stored * MaxRatio

\* Every frame is decoded, and there is one: a decoder given no bytes fails.
DecompressExact(stored, want) ==
    IF stored # <<>> /\ \A i \in DOMAIN stored : stored[i][1] = "zstd"
    THEN LET plain == FlattenSeq([i \in DOMAIN stored |-> stored[i][2]]) IN
         IF Len(plain) = want THEN Ok(plain) ELSE Failed
    ELSE Failed

Decompress(stored, lenPlain) ==
    IF WithinCaps(lenPlain, Len(stored)) THEN DecompressExact(stored, lenPlain) ELSE Failed

(***************************************************************************)
(* AEAD-STREAM                                                             *)
(***************************************************************************)
\* The nonce (section, index, final) and the associated data of chunk i of n.
ChunkContext(section, suite, lenPlain, i, n) ==
    [section |-> section, suite |-> suite, lenPlain |-> lenPlain,
     index |-> i - 1, final |-> i = n]

SealFrames(key, section, suite, lenPlain, frames) ==
    IF Len(frames) <= MaxIndex + 1
    THEN Ok([i \in DOMAIN frames |->
               <<"aead", [key |-> key, frame |-> frames[i],
                          ctx |-> ChunkContext(section, suite, lenPlain, i, Len(frames))]>>])
    ELSE Failed

SealChunked(key, section, suite, cs, plain) ==
    IF ValidChunkSize(cs)
    THEN SealFrames(key, section, suite, Len(plain), Slices(plain, cs))
    ELSE Failed

\* The counter is advanced after every chunk, the last one included, so a body
\* of MaxIndex + 1 chunks can be sealed and not opened.
OpenFrames(key, section, suite, lenPlain, body) ==
    IF /\ Len(body) <= MaxIndex
       /\ \A i \in DOMAIN body :
            /\ body[i][1] = "aead"
            /\ body[i][2].key = key
            /\ body[i][2].ctx = ChunkContext(section, suite, lenPlain, i, Len(body))
    THEN Ok([i \in DOMAIN body |-> body[i][2].frame])
    ELSE Failed

\* The plaintext length of chunk i, counted from zero.
ChunkLen(lenPlain, i, cs) == IF (i + 1) * cs <= lenPlain THEN cs ELSE lenPlain - i * cs
=============================================================================
