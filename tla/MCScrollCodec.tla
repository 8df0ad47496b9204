--------------------------- MODULE MCScrollCodec ----------------------------
(***************************************************************************)
(* The two decoders of the Scroll codec in one run: BatchHeaderV0::decode  *)
(* over the inputs of MCBatchHeader and ChunkV0/V1::decode over those of   *)
(* MCChunk.  Each behaviour checks one of them (check); the variables of  *)
(* the other keep their empty values, on which its properties are         *)
(* vacuous.                                                                *)
(***************************************************************************)
EXTENDS Naturals, Sequences

CONSTANTS U64Bits, UsizeBits, HeaderMaxLen, Popped,
          Bytes, ChunkMaxLen, MaxTxs, MaxBlocks, BlockContextLength

VARIABLES check, input, out, bz, v0, v1

vars == <<check, input, out, bz, v0, v1>>

H == INSTANCE MCBatchHeader WITH MaxLen <- HeaderMaxLen
C == INSTANCE MCChunk WITH MaxLen <- ChunkMaxLen

HeaderIdle == input = [len |-> 0, popped |-> 0, usize |-> 8, build |-> "debug"] /\ out = [res |-> "None"]
ChunkIdle == bz = <<>> /\ v0 = C!None /\ v1 = C!None

Init ==
    \/ check = "batch_header" /\ H!Init /\ ChunkIdle
    \/ check = "chunk" /\ C!Init /\ HeaderIdle

Next ==
    \/ check = "batch_header" /\ H!Next /\ UNCHANGED <<check, bz, v0, v1>>
    \/ check = "chunk" /\ C!Next /\ UNCHANGED <<check, input, out>>

Spec == Init /\ [][Next]_vars

(***************************************************************************)
(* BatchHeaderV0::decode accepts a header exactly when its length is the   *)
(* spec's 89 + ceil(popped / 256) * 32 and that length is a usize;         *)
(* whatever the build, the host width or the popped count at the 256      *)
(* boundaries (MCBatchHeader).                                             *)
(***************************************************************************)
DecodeLengthRule == H!DecodeLengthRule

(***************************************************************************)
(* Spec 7.1: ChunkV0::decode accepts exactly the encodings of chunks and   *)
(* re-encoding what it decoded gives back the input (MCChunk).             *)
(***************************************************************************)
V0RoundTrip == C!V0RoundTrip

(***************************************************************************)
(* ChunkV1::decode accepts exactly the inputs that ChunkV0::decode reads   *)
(* as a chunk without transactions, with the same blocks (MCChunk).        *)
(***************************************************************************)
V1IsV0WithoutTxs == C!V1IsV0WithoutTxs


\* A BlockContext whose 60 bytes are all distinct, so that a field read
\* from the wrong offset or hashed out of order changes the result.
DistinctBlock == [i \in 1..C!BlockContext_LENGTH |-> i]

(***************************************************************************)
(* Spec 3 and 9: the bytes copy_block_context feeds the chunk hasher for a *)
(* BlockContext decoded from its 60 bytes are the first 58 of them, in     *)
(* layout order: every field but numL1Messages, which the hasher omits as  *)
(* ChunkCodecV0.sol and ChunkCodecV1.sol copy 58 bytes.                    *)
(***************************************************************************)
BlockContextHashInput ==
    C!copy_block_context(C!BlockContext_decode(DistinctBlock)) = SubSeq(DistinctBlock, 1, 58)

=============================================================================
