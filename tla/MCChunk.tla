------------------------------- MODULE MCChunk -------------------------------
(***************************************************************************)
(* Decodes every byte string of up to MaxLen bytes that announces at most *)
(* MaxBlocks blocks, its other bytes over the alphabet Bytes, as a v0 and  *)
(* as a v1 chunk, and compares the results with the chunk layouts of spec *)
(* section 3 through a reference encoder.                                  *)
(***************************************************************************)
EXTENDS Naturals, Sequences, SequencesExt, Chunk

CONSTANTS Bytes, MaxLen, MaxTxs, MaxBlocks

VARIABLES bz, v0, v1

vars == <<bz, v0, v1>>

None == [ok |-> FALSE, err |-> "None"]

Init ==
    /\ bz \in {<<>>} \cup {<<n>> \o rest : n \in 0..MaxBlocks, rest \in SeqOf(Bytes, MaxLen - 1)}
    /\ v0 = None
    /\ v1 = None

Decode ==
    /\ v0 = None
    /\ v0' = decode_v0(bz)
    /\ v1' = decode_v1(bz)
    /\ UNCHANGED bz

Next == Decode

Spec == Init /\ [][Next]_vars

-----------------------------------------------------------------------------
\* The reference encoders of the spec: numBlocks, the blocks, and for v0 each
\* transaction behind its u32 big-endian length.
u32_be(n) == <<(n \div 2^24) % 256, (n \div 2^16) % 256, (n \div 256) % 256, n % 256>>

EncodeV1(c) == <<Len(c.blocks)>> \o FlattenSeq(c.blocks)

EncodeV0(c) ==
    EncodeV1(c) \o FlattenSeq([i \in DOMAIN c.l2_transactions |->
                                 u32_be(Len(c.l2_transactions[i])) \o c.l2_transactions[i]])

\* Every v0 chunk whose encoding can be as short as MaxLen over Bytes.
ChunksV0 ==
    [blocks : SeqOf([1..BlockContextLength -> Bytes], MaxBlocks),
     l2_transactions : SeqOf(SeqOf(Bytes, 1), MaxTxs)]

EncodingsV0 == {EncodeV0(c) : c \in ChunksV0}

(***************************************************************************)
(* Spec 7.1 (round trip): ChunkV0::decode accepts exactly the encodings of *)
(* chunks, and re-encoding what it decoded gives back the input; so no     *)
(* byte string decodes to a chunk other than the one it encodes, and an    *)
(* empty transaction section or an empty transaction is accepted.          *)
(***************************************************************************)
V0RoundTrip ==
    v0 # None =>
        /\ v0.ok <=> bz \in EncodingsV0
        /\ v0.ok => EncodeV0(v0.val) = bz

(***************************************************************************)
(* The doc comment of ChunkV1: the only difference from ChunkCodecV0 is    *)
(* that l2Transactions is removed.  So ChunkV1::decode accepts exactly the *)
(* inputs ChunkV0::decode reads as a chunk without transactions, and both  *)
(* cut the same blocks out of them, at every block index.                  *)
(***************************************************************************)
V1IsV0WithoutTxs ==
    v1 # None =>
        /\ v1.ok <=> (v0.ok /\ v0.val.l2_transactions = <<>>)
        /\ v1.ok => v1.val.blocks = v0.val.blocks

(***************************************************************************)
(* The InvalidLength of a rejected v1 chunk reports the byte length the    *)
(* chunk should have had, as v0 does; ChunkV1::decode reports numBlocks.   *)
(***************************************************************************)
V1ErrorReportsExpectedLength ==
    (v1 # None /\ ~v1.ok /\ v1.err = "IncorrectChunkLength") =>
        v1.expected = 1 + bz[1] * BlockContextLength

=============================================================================
