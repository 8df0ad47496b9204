\* Scroll event polling: windows of up to two slots over six beacon slots,
\* two batches after genesis of one or two Scroll blocks each.
CONSTANTS
    MaxSlot = 6
    MaxBatch = 2
    MaxStride = 2
    MaxWindow = 3
SPECIFICATION Spec
INVARIANTS TypeOK NoDoubleFetch NoGap EventHeightCommitted
\* The poller stops at MaxSlot; a panicked message stays in the queue.
CHECK_DEADLOCK FALSE
