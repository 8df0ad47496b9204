\* Every op on every length up to 300: one- and two-byte varints, the
\* 127/128 boundary, and the 32- and 64-byte requirements.  A u32 is taken
\* as 16 bits: every length checked is far below it, as every length of a
\* proof is below 2^32.
CONSTANTS
    MaxN = 300
    U32Bits = 16
SPECIFICATION Spec
INVARIANTS ApplyMatchesSpec
\* One apply per input.
CHECK_DEADLOCK FALSE
