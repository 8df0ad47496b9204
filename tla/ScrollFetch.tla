---------------------------- MODULE ScrollFetch ----------------------------
(***************************************************************************)
(* Event polling of the Scroll rollup, block-message/src/chain_impls/      *)
(* scroll.rs.                                                              *)
(*                                                                         *)
(* The poller asks for the events of a range of beacon slots               *)
(* (fetch_block_range).  FetchEvents becomes FetchBeaconBlockRange, which  *)
(* fetch_beacon_block_range (chain_impls/ethereum.rs, not among the        *)
(* sources) resolves into FetchGetLogs messages; here it may cut the range *)
(* into any consecutive sub-ranges.  FetchGetLogs maps both ends to the    *)
(* rollup batch committed at that slot and fetches the logs of the Scroll  *)
(* blocks from the first batch's height to one below the second's.  Every  *)
(* log becomes an event reported at the window's last slot.               *)
(*                                                                         *)
(* The rollup is the environment: commit[b] is the beacon slot at which    *)
(* batch b is committed (batch 0 at genesis) and l2[b] is                  *)
(* scroll_height_of_batch_index(b).  Every Scroll block carries one IBC    *)
(* log.                                                                    *)
(***************************************************************************)
EXTENDS Naturals, Sequences, FiniteSets

CONSTANTS
    MaxSlot,     \* last beacon slot polled
    MaxBatch,    \* batches 1..MaxBatch are committed after genesis
    MaxStride,   \* Scroll blocks per batch are 1..MaxStride
    MaxWindow    \* slots per fetch_block_range request

ASSUME MaxSlot \in 2..8 /\ MaxBatch \in 1..4 /\ MaxStride \in 1..3 /\ MaxWindow \in 1..MaxSlot

Batches == 0..MaxBatch
Slots == 0..MaxSlot
MaxL2 == MaxBatch * MaxStride

VARIABLES
    commit,    \* commit[b]: beacon slot at which batch b is committed
    l2,        \* l2[b]: Scroll height of batch b
    cursor,    \* next from_slot of the poller
    pending,   \* fetch messages in the queue
    fetched,   \* fetched[n]: times get_logs returned Scroll block n
    events,    \* <<block, event height>> of every event produced
    panicked   \* FetchGetLogs messages whose reduction hit an assert!

vars == <<commit, l2, cursor, pending, fetched, events, panicked>>

-----------------------------------------------------------------------------
\* Chain reads of the Scroll chain object.
batch_index_of_beacon_slot(s) ==
    CHOOSE b \in Batches : commit[b] <= s /\ \A c \in Batches : commit[c] <= s => c <= b

scroll_height_of_batch_index(b) == l2[b]

FetchEvents(from, to) == [type |-> "FetchEvents", from |-> from, to |-> to]
FetchBeaconBlockRange(from, to) == [type |-> "FetchBeaconBlockRange", from |-> from, to |-> to]
FetchGetLogs(from, to) == [type |-> "FetchGetLogs", from |-> from, to |-> to]

\* DoFetchBlockRange::fetch_block_range.
fetch_block_range(from, to) == FetchEvents(from, to)

\* The slots that cut [from, to] into consecutive windows.
Cuts(from, to) == SUBSET ((from + 1)..(to - 1))

Windows(from, to, cuts) ==
    LET pts == {from, to} \cup cuts
        nxt(p) == CHOOSE q \in pts : q > p /\ \A r \in pts : r > p => q <= r
    IN  {FetchGetLogs(p, nxt(p)) : p \in pts \ {to}}

(***************************************************************************)
(* ScrollFetch::FetchGetLogs: the batch indices of both slots; no new      *)
(* batch is Noop; otherwise the batch index must advance by exactly one    *)
(* (assert!) and the logs of blocks from_scroll_height ..                  *)
(* to_scroll_height - 1 become events at height to_slot.  A failed assert  *)
(* is a panic: no result.                                                  *)
(***************************************************************************)
GetLogsOk(m) ==
    LET fb == batch_index_of_beacon_slot(m.from)
        tb == batch_index_of_beacon_slot(m.to)
    IN  fb = tb \/ fb + 1 = tb

\* Mutant of GetLogsBlocks: the NOTE'd "- 1" dropped from to_block.
GetLogsBlocks_NoMinusOne(m) ==
    LET fb == batch_index_of_beacon_slot(m.from)
        tb == batch_index_of_beacon_slot(m.to)
    IN  IF fb = tb THEN {}
        ELSE scroll_height_of_batch_index(fb)..scroll_height_of_batch_index(tb)

\* Mutant of GetLogsBlocks: from_block one past the first batch's height.
GetLogsBlocks_FromPlusOne(m) ==
    LET fb == batch_index_of_beacon_slot(m.from)
        tb == batch_index_of_beacon_slot(m.to)
    IN  IF fb = tb THEN {}
        ELSE (scroll_height_of_batch_index(fb) + 1)..(scroll_height_of_batch_index(tb) - 1)

GetLogsBlocks(m) ==
    LET fb == batch_index_of_beacon_slot(m.from)
        tb == batch_index_of_beacon_slot(m.to)
    IN  IF fb = tb THEN {}
        ELSE scroll_height_of_batch_index(fb)..(scroll_height_of_batch_index(tb) - 1)

\* Mutant of EventHeight: the event reported at the window's first slot.
EventHeight_FromSlot(m) == m.from

\* event_height: revision height to_slot.
EventHeight(m) == m.to

-----------------------------------------------------------------------------
Init ==
    /\ commit \in {f \in [Batches -> Slots] :
                      f[0] = 0 /\ \A b \in 1..MaxBatch : f[b - 1] < f[b]}
    /\ l2 \in {f \in [Batches -> 0..MaxL2] :
                  f[0] = 0 /\ \A b \in 1..MaxBatch : f[b] - f[b - 1] \in 1..MaxStride}
    /\ cursor = 0
    /\ pending = {}
    /\ fetched = [n \in 0..MaxL2 |-> 0]
    /\ events = {}
    /\ panicked = {}

\* The poller requests the next slot range.
Poll ==
    /\ cursor < MaxSlot
    /\ \E to \in (cursor + 1)..(IF cursor + MaxWindow < MaxSlot THEN cursor + MaxWindow ELSE MaxSlot) :
        /\ pending' = pending \cup {fetch_block_range(cursor, to)}
        /\ cursor' = to
    /\ UNCHANGED <<commit, l2, fetched, events, panicked>>

\* Mutant of DoFetchEvents: the two slots swapped.
DoFetchEvents_Swapped(m) ==
    /\ m.type = "FetchEvents"
    /\ pending' = (pending \ {m}) \cup {FetchBeaconBlockRange(m.to, m.from)}
    /\ UNCHANGED <<commit, l2, cursor, fetched, events, panicked>>

\* ScrollFetch::FetchEvents: the beacon slot range of the two heights.
DoFetchEvents(m) ==
    /\ m.type = "FetchEvents"
    /\ pending' = (pending \ {m}) \cup {FetchBeaconBlockRange(m.from, m.to)}
    /\ UNCHANGED <<commit, l2, cursor, fetched, events, panicked>>

\* ScrollFetch::FetchBeaconBlockRange: fetch_beacon_block_range.
DoFetchBeaconBlockRange(m) ==
    /\ m.type = "FetchBeaconBlockRange"
    /\ \E cuts \in Cuts(m.from, m.to) :
        pending' = (pending \ {m}) \cup Windows(m.from, m.to, cuts)
    /\ UNCHANGED <<commit, l2, cursor, fetched, events, panicked>>

DoFetchGetLogs(m) ==
    /\ m.type = "FetchGetLogs"
    /\ m \notin panicked
    /\ IF GetLogsOk(m)
       THEN /\ pending' = pending \ {m}
            /\ fetched' = [n \in DOMAIN fetched |->
                             IF n \in GetLogsBlocks(m) THEN fetched[n] + 1 ELSE fetched[n]]
            /\ events' = events \cup {<<n, EventHeight(m)>> : n \in GetLogsBlocks(m)}
            /\ UNCHANGED panicked
       ELSE /\ panicked' = panicked \cup {m}
            /\ UNCHANGED <<pending, fetched, events>>
    /\ UNCHANGED <<commit, l2, cursor>>

Next ==
    \/ Poll
    \/ \E m \in pending : DoFetchEvents(m) \/ DoFetchBeaconBlockRange(m) \/ DoFetchGetLogs(m)

Spec == Init /\ [][Next]_vars

-----------------------------------------------------------------------------
TypeOK ==
    /\ cursor \in Slots
    /\ \A m \in pending : m.from \in Slots /\ m.to \in Slots /\ m.from < m.to
    /\ fetched \in [0..MaxL2 -> Nat]
    /\ events \subseteq (0..MaxL2) \X Slots
    /\ panicked \subseteq pending

\* The batch that contains Scroll block n.
BatchOf(n) == CHOOSE b \in 1..MaxBatch : l2[b - 1] <= n /\ n < l2[b]

(***************************************************************************)
(* "This -1 is very important, else events will be double fetched": over   *)
(* every sequence of windows, cut any way and reduced in any order, no     *)
(* Scroll block's logs are fetched twice.                                  *)
(***************************************************************************)
NoDoubleFetch == \A n \in DOMAIN fetched : fetched[n] <= 1

(***************************************************************************)
(* No gap: once every window the poller asked for is reduced without a     *)
(* panic, the blocks fetched are exactly those of the batches committed    *)
(* by the cursor slot, from genesis to one below the last batch's height.  *)
(***************************************************************************)
NoGap ==
    (pending = {} /\ panicked = {}) =>
        {n \in DOMAIN fetched : fetched[n] > 0}
            = 0..(scroll_height_of_batch_index(batch_index_of_beacon_slot(cursor)) - 1)

(***************************************************************************)
(* An event is never reported at a height before its block is committed    *)
(* to L1: the batch containing the block is committed at or before the    *)
(* event's slot, so state proofs at that height can show it.               *)
(***************************************************************************)
EventHeightCommitted == \A e \in events : commit[BatchOf(e[1])] <= e[2]

(***************************************************************************)
(* Spec 8, scenarios 3 and 4: a window maps to no new batch or to one.     *)
(* FetchGetLogs asserts exactly that; a window in which two batches are    *)
(* committed panics the reduction, and the persisted message panics again  *)
(* every time it is retried.                                               *)
(***************************************************************************)
NoAssertPanic == panicked = {}

=============================================================================
