\* Batch headers: widths scaled from u64 = 64 and usize in {32, 64}: u64
\* has 12 bits and usize 8 (wasm32) or 12 (64-bit host).  Popped covers 0,
\* the 256-word boundaries and values whose bitmap length does not fit an
\* 8-bit usize, all below the u64 wrap of popped + 255 (popped >= 3841).
\* Chunks: byte strings of up to 10 bytes announcing 0 to 2 blocks, their
\* other bytes over {0, 1}, and a BlockContext of 2 bytes; up to two blocks
\* (so a second block index) and two transactions of at most one byte:
\* empty input, a short block section, an empty and a non-empty
\* transaction section, 1 to 3 stray bytes, and a length of 256 or more
\* past the end.
CONSTANTS
    U64Bits = 12
    UsizeBits = {8, 12}
    HeaderMaxLen = 600
    Popped = {0, 1, 255, 256, 257, 511, 512, 513, 1792, 3840}
    Bytes = {0, 1}
    ChunkMaxLen = 10
    MaxTxs = 2
    MaxBlocks = 2
    BlockContextLength = 2
SPECIFICATION Spec
INVARIANTS DecodeLengthRule V0RoundTrip V1IsV0WithoutTxs BlockContextHashInput
\* One decode per input; the checker stops after it.
CHECK_DEADLOCK FALSE
