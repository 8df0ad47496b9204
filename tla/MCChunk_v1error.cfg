\* A v1 chunk of the wrong length, the chunk inputs of MCScrollCodec.cfg.
CONSTANTS
    Bytes = {0, 1}
    MaxLen = 10
    MaxTxs = 2
    MaxBlocks = 2
    BlockContextLength = 2
SPECIFICATION Spec
INVARIANT V1ErrorReportsExpectedLength
\* One decode per input.
CHECK_DEADLOCK FALSE
