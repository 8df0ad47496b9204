-------------------------------- MODULE Chunk --------------------------------
(***************************************************************************)
(* ChunkV0::decode and ChunkV1::decode of scroll-codec/src/chunk.rs.       *)
(*                                                                         *)
(* A chunk is a byte sequence (1-based here, 0-based in the code).         *)
(* BlockContext::LENGTH is the constant BlockContextLength (60 in the      *)
(* code): a smaller value leaves the framing unchanged.  A BlockContext is *)
(* kept as the bytes it is decoded from; BlockContext::decode splits them  *)
(* into fixed-width big-endian fields, which loses nothing.                *)
(***************************************************************************)
EXTENDS Naturals, Sequences

CONSTANTS BlockContextLength

\* Result constructors.
Ok(v) == [ok |-> TRUE, val |-> v]
Err(e) == [ok |-> FALSE, err |-> e]

\* InvalidLength of IncorrectChunkLength: the expected length and the one found.
IncorrectChunkLength(kind, expected, found) ==
    [ok |-> FALSE, err |-> "IncorrectChunkLength", kind |-> kind, expected |-> expected, found |-> found]

\* u32::from_be_bytes.
u32_from_be_bytes(s) == ((s[1] * 256 + s[2]) * 256 + s[3]) * 256 + s[4]

\* The BlockContexts: bytes L*i+1 ..= L*(i+1) for i in 0..len.
Blocks(bz, len) ==
    [i \in 1..len |-> SubSeq(bz, BlockContextLength * (i - 1) + 2, BlockContextLength * i + 1)]

\* Mutant of l2_loop: the length bytes required strictly before the end.
RECURSIVE l2_loop_LenBytesBeforeEnd(_, _, _)
l2_loop_LenBytesBeforeEnd(bz, ptr, acc) ==
    IF ptr = Len(bz) THEN Ok(acc)
    ELSE IF ptr + 4 >= Len(bz) THEN Err("NotEnoughL2TransactionLengthBytes")
    ELSE LET tx_len == u32_from_be_bytes(SubSeq(bz, ptr + 1, ptr + 4))
         IN  IF ptr + 4 + tx_len > Len(bz) THEN Err("IncorrectL2TransactionLength")
             ELSE l2_loop_LenBytesBeforeEnd(bz, ptr + 4 + tx_len,
                                            Append(acc, SubSeq(bz, ptr + 5, ptr + 4 + tx_len)))

(***************************************************************************)
(* The l2 transaction loop of ChunkV0::decode, from the 0-based offset     *)
(* ptr: stop when bz[ptr..] is empty; otherwise four bytes of length (or   *)
(* NotEnoughL2TransactionLengthBytes), then that many bytes of             *)
(* transaction (or IncorrectL2TransactionLength).                          *)
(***************************************************************************)
RECURSIVE l2_loop(_, _, _)
l2_loop(bz, ptr, acc) ==
    IF ptr = Len(bz) THEN Ok(acc)
    ELSE IF ptr + 4 > Len(bz) THEN Err("NotEnoughL2TransactionLengthBytes")
    ELSE LET tx_len == u32_from_be_bytes(SubSeq(bz, ptr + 1, ptr + 4))
         IN  IF ptr + 4 + tx_len > Len(bz) THEN Err("IncorrectL2TransactionLength")
             ELSE l2_loop(bz, ptr + 4 + tx_len, Append(acc, SubSeq(bz, ptr + 5, ptr + 4 + tx_len)))

(***************************************************************************)
(* ChunkV0::decode: numBlocks from the first byte (EmptyBytes without     *)
(* one); at least numBlocks * LENGTH + 1 bytes; the blocks; the l2         *)
(* transactions up to the end.                                             *)
(***************************************************************************)
decode_v0(bz) ==
    IF bz = <<>> THEN Err("EmptyBytes")
    ELSE LET len == bz[1]
             expected_len == len * BlockContextLength + 1
         IN  IF Len(bz) < expected_len
             THEN IncorrectChunkLength("Gte", expected_len, Len(bz))
             ELSE LET txs == l2_loop(bz, expected_len, <<>>)
                  IN  IF txs.ok
                      THEN Ok([blocks |-> Blocks(bz, len), l2_transactions |-> txs.val])
                      ELSE txs

\* Mutant of decode_v1: the length check of v0 (at least, not exactly).
decode_v1_AtLeast(bz) ==
    IF bz = <<>> THEN Err("EmptyBytes")
    ELSE LET len == bz[1]
         IN  IF Len(bz) < len * BlockContextLength + 1
             THEN IncorrectChunkLength("Exact", len, Len(bz))
             ELSE Ok([blocks |-> Blocks(bz, len)])

(***************************************************************************)
(* ChunkV1::decode: exactly numBlocks * LENGTH + 1 bytes, then the         *)
(* blocks.  The InvalidLength it reports is Exact(len), len being          *)
(* numBlocks.                                                              *)
(***************************************************************************)
decode_v1(bz) ==
    IF bz = <<>> THEN Err("EmptyBytes")
    ELSE LET len == bz[1]
         IN  IF Len(bz) # len * BlockContextLength + 1
             THEN IncorrectChunkLength("Exact", len, Len(bz))
             ELSE Ok([blocks |-> Blocks(bz, len)])


(***************************************************************************)
(* BlockContext::decode: the six big-endian fields at their offsets in the *)
(* 60 bytes of BlockContext::LENGTH.  TLC's integers end at 2^31, so a     *)
(* field is kept as its bytes (array_slice::<at, len>): from_be_bytes and  *)
(* to_be_bytes of one width are inverse and lose nothing.                  *)
(***************************************************************************)
BlockContext_LENGTH == 60

array_slice(bz, at, len) == SubSeq(bz, at + 1, at + len)

BlockContext_decode(bz) ==
    [block_number     |-> array_slice(bz, 0, 8),
     timestamp        |-> array_slice(bz, 8, 8),
     base_fee         |-> array_slice(bz, 16, 32),
     gas_limit        |-> array_slice(bz, 48, 8),
     num_transactions |-> array_slice(bz, 56, 2),
     num_l1_messages  |-> array_slice(bz, 58, 2)]

\* Mutant of copy_block_context: every field hashed, num_l1_messages too.
copy_block_context_All(b) ==
    b.block_number \o b.timestamp \o b.base_fee \o b.gas_limit \o b.num_transactions
        \o b.num_l1_messages

\* copy_block_context: the bytes the chunk hasher is fed for a block.
copy_block_context(b) ==
    b.block_number \o b.timestamp \o b.base_fee \o b.gas_limit \o b.num_transactions

=============================================================================
