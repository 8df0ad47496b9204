\* Headers with no bitmap, one word and two words.
CONSTANTS
    U64Bits = 12
    UsizeBits = {12}
    MaxLen = 160
    Popped = {0, 1, 256, 257}
SPECIFICATION Spec
INVARIANT BitmapIsTail
CHECK_DEADLOCK FALSE
