\* A slot window in which two batches are committed.
\* two batches after genesis of one or two Scroll blocks each.
CONSTANTS
    MaxSlot = 6
    MaxBatch = 2
    MaxStride = 2
    MaxWindow = 3
SPECIFICATION Spec
INVARIANT NoAssertPanic
\* The poller stops at MaxSlot; a panicked message stays in the queue.
CHECK_DEADLOCK FALSE
