# TLA+ models of the union relayer, Scroll polling and codecs

This directory holds TLA+ models of the parts of the repository whose
behaviour a model checker can reach, and the TLC runs that check them.
`PROJECT.json` records:

- every component, with its status;
- every run, with what it shows;
- the mutant that each checked property must catch;
- the source lines each definition models;
- the findings and the hazards.

Run any check from this directory with
`tlc -workers 2 -config <cfg> <module>`.

## The system

**Voyager** is an IBC relayer built around a durable queue of `QueueMsg`
terms: `Noop`, `Fetch`, `Wait`, `Event`, `Effect`, `Aggregate`, `Seq`,
`Conc` and `Data`.

- **Work flow.** A worker pops a ready message, reduces it, and commits the
  children and data it produced in one transaction. Reducing an `Effect`
  submits a transaction to a chain.
- **Aggregates.** An `Aggregate` waits until every message in its queue has
  become data. It then joins the data into the typed list its receiver
  declares (`voyager/src/queue/aggregate_data.rs`) and calls the
  receiver's `aggregate`.
- **Event lowering.** The block poller turns each IBC event it observes into
  an `Event` message. `Event::handle` (`relay-message/src/event.rs`) lowers
  it to the next step of the handshake. The step is wrapped in
  `mk_aggregate_wait_for_update`, which updates the counterparty's light
  client to at least the event height before the proof-bearing message is
  sent. An operator can also enqueue `Event::Command(UpdateClient)`, which
  updates a client to the counterparty's latest height.
- **Scroll polling.** For the Scroll rollup, the poller's `FetchEvents` go
  through the beacon slot range. They end as `FetchGetLogs` windows that map
  slots to rollup batches and batches to Scroll block ranges
  (`block-message/src/chain_impls/scroll.rs`).

The light clients depend on these pure components:

- the Scroll chunk and batch-header codecs (`scroll-codec/src/chunk.rs`,
  `unionlabs/src/scroll/batch_header_codec.rs`);
- the ICS23 length prefix (`ics23/src/ops/length_op.rs`);
- the validated proto conversions of the light-client domain types
  (`unionlabs/src/...`).

## Modules

| Module | Models | State and actions |
|---|---|---|
| `AggregateData` | `pluck`, `HCons`/`HNil::try_from_iter`, `do_aggregate` | Operators over sequences of `[kind, ...]` records. `try_from_iter` is RECURSIVE over the wanted kinds. A failed join is a result with `ok = FALSE`, which stands for the panic. |
| `MCAggregateData` | the join against spec 4.6 | `want` is the receiver's kinds; data `Arrive` one at a time; `Fire` joins. The reference `SpecBound` binds the j-th wanted kind to the datum of that kind with the same rank. |
| `Handshake` | what the relayer promises of the connection and channel handshakes | One variable, `stage[c][e]`: the stage of end `e` (`"conn"` or `"chan"`) on chain `c`. `OpenChannel` is the user opening a channel; `OpenTry`, `OpenAck` and `OpenConfirm` move one end one stage given the counterparty's stage. Weak fairness of the handshake steps. |
| `PacketFlow` | what the relayer promises of the packets of one channel | One variable, `packet[p]`: `NONE`, `SENT`, `RECEIVED` or `ACKED`. `Send` (in sequence), `Recv`, `Ack`; an ORDERED channel receives and acknowledges in sequence. Weak fairness of each packet's `Recv` and `Ack`. |
| `Relay` | the connection and channel handshakes and packet relaying through the queue | Details below. Refines `Handshake` and `PacketFlow`. |
| `MCRelay` | instance of `Relay` | `MaxHeight = 13`, one crash, one empty block. |
| `ScrollFetch` | `fetch_block_range` and `do_fetch`'s FetchEvents, FetchBeaconBlockRange and FetchGetLogs arms | Variables `commit[b]` (slot of batch b), `l2[b]` (Scroll height of batch b), `cursor`, `pending`, `fetched[n]`, `events`, `panicked`. Actions `Poll`, `DoFetchEvents`, `DoFetchBeaconBlockRange`, `DoFetchGetLogs`. |
| `BatchHeader`, `MCBatchHeader` | `BatchHeader::decode` | A header is its byte length and its `l1MessagePopped` value. The MC module decodes every input once. |
| `LengthOp`, `MCLengthOp` | `apply` | Data are their length. `encode_varint` is RECURSIVE. The MC module reads the prefix back and checks it. |
| `Chunk`, `MCChunk` | `ChunkV0::decode`, `ChunkV1::decode`, `BlockContext::decode`, `copy_block_context` | Byte sequences. The l2 transaction loop is RECURSIVE. A `BlockContext` is split into its six fields at the real 60-byte offsets, each kept as its big-endian bytes; `copy_block_context` is the byte string it feeds the hasher. The MC module has a reference encoder. |
| `MCScrollCodec` | the two Scroll decoders in one run | Each behaviour checks either a batch header (as `MCBatchHeader`) or a chunk (as `MCChunk`), so the states add rather than multiply. It also states the hash-input property of `BlockContext`. |
| `DomainConversions`, `MCDomainConversions` | the ethabi `From`/`TryFrom` of `Commit`, the cometbls consensus state and the cometbls `Header`, and proto `From`/`TryFrom` of `Commit`, `PollResponse`, `TrustedSyncCommittee`, the cometbls, tendermint and Scroll consensus states, `MerkleProof`, `MerklePath`, `AccountUpdate`, the cometbls `Header`, `ZeroKnowledgeProof` and `BaseAccount` | One operator per conversion, checking fields in the code's order, with `required!` and nested `try_into` as helpers. Nested messages, hashes and byte strings are model values, with `Bad` for one that its own conversion refuses. The MC module converts every raw value of a small universe to the domain type and back. |

### Relay

- **Variables.** Each of `chain[A]` and `chain[B]` has:
  - a height;
  - the set of consensus heights of its client of the other chain;
  - the height at which its connection end and its channel end reached
    each stage;
  - `pkt[p]`, the height at which it recorded packet p as sent (its
    commitment), received or acknowledged;
  - the events it emitted.

  The other variables are `seen` (the poller's cursor per chain), `queue`
  (a bag of terms), `inflight` (the effect submitted per chain and not yet
  committed), `failed` (rejected transactions), `crashes`, `idle` and
  `commands`.
- **Actions.**
  - `Step` reduces a ready message atomically.
  - `Submit` reduces a message whose reduction submits a transaction. The
    chain applies the transaction now; the queue is committed later.
  - `Commit` commits that reduction.
  - `Crash` loses every uncommitted reduction.
  - `Observe` is the block poller.
  - `Idle` produces an empty block.
  - `ChanOpenInit` is a user opening a channel on A. With
    `ChannelInitAfter = "OPEN"` the user waits for both connection ends to
    be open; with `"INIT"` it only needs A's end initialised, as ICS-04
    allows.
  - `SendPacket` is a user sending the next packet on A's channel, which
    must be OPEN. With `PacketSendAfter = "BOTH"` the user also waits for
    B's end to be OPEN.
  - `IssueCommand(c)` is an operator enqueueing
    `Command::UpdateClient` for the client on c, at most `MaxCommands`
    times.
- **Observe and no-ops.** The poller does not enqueue an event that
  `handle` lowers to `Noop` (the confirm, create-client and update-client
  events). Reducing such an event changes nothing else, so dropping it is
  a stutter of the real system, and it keeps the state space small.
- **Reduction.** `Reduce(m)` is the set of possible results of reducing `m`:
  - an `Aggregate`'s children are reduced in any order;
  - a `Seq` reduces its head;
  - an aggregate fires through `AggregateData!do_aggregate` once its queue
    is empty.
- **Channel events.** `handle` lowers `ChannelOpenInit`, `Try` and `Ack`
  at height h to the spec 4.5 shape: an aggregate that fetches the channel
  end at h, then its connection end (`ConnectionFetchFromChannelEnd`), then
  a `ChannelHandshakeUpdateClient` that waits for the update to h and
  produces the next channel message with a proof at the trusted height.
- **Packet events.** `SendPacket` and `RecvPacket` at height h are lowered
  to an aggregate that fetches the connection end at h and then a
  `PacketUpdateClient`, which waits for the update to h and submits
  `MsgRecvPacket` (after a send) or `MsgAcknowledgement` (after a receipt)
  with a proof at the trusted height. The other packet events are only logged.
- **Commands.** `handle_command` is the `Event::Command` arm: fetch the
  latest state of hc's client, then `AggregateUpdateClientFromClientId`,
  which reads Tr's latest height and submits an update to it when the
  client is behind.
- **Proof height.** Every handshake and packet receiver joins the
  `TrustedClientState` that `mk_aggregate_wait_for_update` produces and
  proves at that client's trusted height, which is h or later. Without
  commands the two are always equal. After a command has moved the client
  past h, a proof at h itself would meet no consensus state.
- **Driver order.** Following spec 5, the events of one chain are reduced
  in the chain's block order (`InBlockOrder`). Everything after the
  lowering is reduced in any order.
- **Sources.** `handle` is `Event::handle`. The queue constructors, the
  reduction rules, the driver, `mk_aggregate_wait_for_update` and the
  receivers come from spec 4.4-4.9 and 5, because their crates are not in
  `src/`. `PROJECT.json` marks them `spec_modelled`.
- **Refinement.** `H == INSTANCE Handshake WITH stage <- ...` maps each
  chain's current stage of each end to the abstract state.
  `ImplementsHandshake == H!Spec` is checked as a property. It says that
  every step of Relay changes the stages as a handshake step or not at all,
  and that both handshakes complete. `P == INSTANCE PacketFlow WITH ...`
  maps each packet to the furthest stage either chain recorded, and
  `ImplementsPacketFlow == P!Spec` says that packets are received only
  after they are sent and acknowledged only after they are received, and
  that every sent packet is received and acknowledged.
- **The chains.** The chains are the environment:
  - an `UpdateClient` adds a consensus height;
  - a handshake message is verified against a consensus state at exactly
    its proof height and the counterparty's end's stage at that height;
  - a channel message is also refused unless the receiving chain's
    connection is OPEN (ICS-04);
  - a packet message needs the receiving chain's channel OPEN, a proof
    that the counterparty recorded the packet by the proof height, and, on
    an ORDERED channel, every earlier packet already recorded; a packet
    already recorded is answered "already processed";
  - a message whose target stage is already reached is answered "already
    processed".

## Runs

| Run | Result | What it shows |
|---|---|---|
| `join` | pass, 960 states | `JoinIsExactFifoMatch`: the join succeeds exactly when the data are the wanted kinds as a bag, and binds first come, first bound, in every arrival order of up to 3 data for up to 2 wanted kinds out of 3. Spec 4.6 says instead that the join succeeds whenever the wanted kinds are present and returns the rest to the pool; the code (and its unit test "extra items") refuses any left-over datum, so a receiver wanting `<<B>>` with pool `<<C, B>>` panics. |
| `relay` | pass, 107k states, about 1.5 min | `NoRejectedMsg`: no chain rejects a handshake or packet message. `ImplementsHandshake`: Relay refines `Handshake`, so each stage changes only as a handshake step allows, and both handshakes complete. `ImplementsPacketFlow`: Relay refines `PacketFlow`, so the packet is received after it is sent, acknowledged after it is received, and both happen. All hold across interleavings, a crash between submit and commit with its re-submission, and an empty block, with the channel opened once the connection is open and the packet sent once both channel ends are open. |
| `relay_command` | pass, 815k states, about 1 min | `NoRejectedMsg` with one operator `Command::UpdateClient` on either chain at any moment, through both handshakes and a packet, with one empty block: the command can move a client past the height of an event still waiting for its update, and no message is rejected, because the receivers prove at the trusted height. Proving at the event height fails this run. |
| `relay_packet_order` | violation | Two packets on an ORDERED channel. Their `SendPacket` events are lowered in block order, but into independent aggregates. Packet 1's aggregate is still fetching its connection end when packet 2's update and `MsgRecvPacket` go through, and B rejects packet 2 as out of sequence. |
| `relay_channel_early` | violation | With the channel opened as soon as A's connection is INIT (ICS-04 allows it), `ChannelOpenInit` is lowered at once. B's client is updated and `ChanOpenTry` reaches B while B's connection is UNINIT, and B rejects it. Spec 7 makes the rejection fatal. |
| `scroll_fetch` | pass, about 800k states | `NoDoubleFetch`, `NoGap` and `EventHeightCommitted`, over every batch schedule of 2 batches in 6 slots with 1-2 blocks per batch, every request window of up to 3 slots, every cut of a window, and every order of reduction. |
| `scroll_fetch_panic` | violation | `NoAssertPanic`: a window spanning two batch commits hits `assert!(from + 1 == to)`. |
| `scroll_codec` | pass, 54k states | `DecodeLengthRule`: batch-header decode accepts exactly the spec length, on both usize widths and in both builds, below the u64 wrap. `V0RoundTrip` (spec 7.1) for chunks of up to two blocks. `V1IsV0WithoutTxs` (the doc comment of `ChunkV1`): v1 accepts exactly what v0 reads as a chunk without transactions, and both cut the same blocks from it. `BlockContextHashInput`: the hasher is fed the first 58 bytes of a decoded `BlockContext`, every field but `numL1Messages` in layout order (spec 9). |
| `batch_header_bitmap` | violation | `BitmapIsTail`: the bitmap is chunked from the whole input. |
| `length_op` | pass, 5.4k states | `ApplyMatchesSpec` for every op and every length up to 300. |
| `chunk_v1_error` | violation | `V1ErrorReportsExpectedLength`: v1 reports numBlocks as the expected length. |
| `conversions` | pass, 1114 states | `ConversionsRoundTrip`: lossless round trip, with Current winning over Next as spec 3 says. |

Every property of a passing run has a mutant in `PROJECT.json`. The mutant is
a plausible bug in the definition the property is about, and TLC finds the
property violated with it. The mutants are:

- the `- 1` dropped from `to_block`;
- `from_block` one too high;
- events reported at the window's first slot;
- a client one block short counting as trusted;
- the proof taken at the event height instead of the trusted height
  (caught by `NoRejectedMsg` in `relay_command`);
- `num_l1_messages` fed to the chunk hasher;
- `ConnectionOpenAck` lowered to `Noop` (caught by `ImplementsHandshake`);
- `RecvPacket` logged like `WriteAcknowledgement` (caught by
  `ImplementsPacketFlow`);
- the in-flight slot never cleared;
- the round-up of the bitmap length left out;
- `Fixed32Little` written big-endian;
- the l2 length bytes required strictly before the end;
- v1 checking "at least" instead of "exactly";
- Current and Next swapped;
- `pluck` dropping the data after the match.

## Bounds and why they are enough

- **Join.** Up to 2 wanted kinds out of 3 and up to 3 data cover these cases:
  - missing, extra and duplicate kinds;
  - a wanted kind repeated;
  - every interleaving of the same kinds.

  `pluck` works on one kind at a time, so a longer list adds no new case.
- **Relay.** The connection handshake, the channel init, the channel
  handshake and one packet need up to 12 blocks on a chain, plus an empty
  block and the re-submission after a crash. No behaviour reaches height
  14 under `MaxHeight = 13`: 13, 14, 15 and 16 give the same 106,942
  states, while 12 gives fewer. One packet exercises every packet step;
  the ORDERED run needs two, and two packets on the passing run would
  only add interleavings of steps the one packet already takes. One crash can hit any in-flight submission;
  a second adds only another copy of the same re-reduction.
  The command run has no crash: a command together with a crash and an
  empty block gives more than 6 million states. Without the empty block no
  chain gets ahead of a pending event and the command can do no harm, so
  the run keeps the empty block. Its 815,444 states are the same at
  `MaxHeight` 13 and 16.
- **ScrollFetch.** Two batches after genesis give:
  - windows with no new batch;
  - windows with one new batch;
  - windows with two new batches, which panic.

  Windows of up to 3 slots, cut anywhere, give adjacent and non-adjacent
  windows whose ends fall on either side of a commit slot. A batch of 1 or 2
  blocks makes the `- 1` matter.
- **Widths.** TLC's integers stop at 2^31, so u64, u32 and usize are
  constants scaled with the same boundaries:
  - in BatchHeader, u64 is 12 bits, and usize is 8 bits (wasm32) or 12 bits
    (64-bit host);
  - in LengthOp, u32 is 16 bits, above every length checked;
  - `BlockContext::LENGTH` is 2 instead of 60 in the chunk framing, which
    leaves the framing unchanged; the field split of `BlockContext::decode`
    uses the real 60 bytes, on one block whose bytes are all distinct, so
    any misplaced or reordered field shows.

  Chunk inputs are every byte string of up to 10 bytes whose first byte
  (numBlocks) is 0, 1 or 2 and whose other bytes are 0 or 1. Those hold up
  to two blocks, so the slice of a second block index is reached, and two
  transactions of at most one byte; `ChunksV0` enumerates every chunk with
  such an encoding.

## Fairness

- `Handshake` has weak fairness of its handshake steps taken together.
  Each step needs the counterparty one stage on, so at most one is enabled
  at a time, and the disjunction's fairness forces each of them. Opening a
  channel is the user's choice and is not fair.
- `PacketFlow` has weak fairness of each packet's `Recv` and `Ack`.
  Sending is the user's choice.
- `Relay` assumes weak fairness of the driver's reduction (`Step` or
  `Submit`), of each chain's `Commit`, and of each chain's `Observe`. The
  driver loops while work is ready, a submitted reduction is eventually
  committed, and the poller keeps polling (spec 4.8, 5).
- `Crash`, `Idle`, `ChanOpenInit`, `SendPacket` and `IssueCommand` are not fair: they are bounded and never forced.
- No other module states a liveness property.

## Not modelled

- **Packet timeouts.** The chains never time a packet out; `TimeoutPacket`
  is only logged by `Event::handle`, and the relayer submits no
  `MsgTimeout`.
- **A packet sent while the counterparty channel is TRYOPEN.** With
  `PacketSendAfter = "SENDER"`, `NoRejectedMsg` fails the same way
  `relay_channel_early` shows for channels: the `MsgRecvPacket` races the
  `ChanOpenConfirm`. The project has no run slot left for a second trace of
  that race, so PROJECT.json lists it as a hazard.
- **The chunk.rs:92 overflow.** `ptr + tx_len as usize` can overflow a
  32-bit usize only for a length prefix within `ptr` of 2^32. A release
  build then wraps below `ptr`, so `get` fails exactly as for a too-long
  transaction. Scaling usize below u32 would add wraps the real build
  cannot have, so this is not modelled.
- **`BatchHeader` near the u64 wrap.** `decode` models the overflow of
  `l1_message_popped + 255` in both builds, but no run checks a popped
  count within 255 of u64::MAX: Scroll never reaches it.
- **`Conc` reduction and the Scroll `DoAggregate` impl.**
- **RPC failures and log decoding** in Scroll polling. A transient RPC
  error panics before the reduction produces anything, and the retry reads
  the same chain state again: a stutter in `ScrollFetch`. An undecodable
  log panics the whole window for good, like the `assert!` of
  `scroll_fetch_panic`; the modelled blocks carry only IBC handler logs.
- **`fetch_beacon_block_range`.** It is outside the sources, so it is an
  arbitrary cut into windows.
- **The Keccak hash** that `copy_block_context` feeds; only its input is
  modelled.
- **The other ethabi conversions** (cfg feature `ethabi`). They mirror the
  proto ones. `MsgConnectionOpenAck` is a declaration only.
- **Custom queries, voyager config, the ucs01-relay types and the
  ethereum-light-client crate root.** These are I/O or declarations.

## Plan for the following work

1. **Relay.**
   - Decide the early-channel, early-packet and packet-order findings: a
     wait on the counterparty's end in the receivers, and a `Seq` over the
     packet effects of one channel, would make those runs pass.
   - Model packet timeouts if a source for them appears.
   - Check commands together with a crash on a machine with more time.
2. **ScrollFetch.** Model `Conc` of the produced events into Relay's queue
   in the composed model.
3. **DomainConversions.** Add per-type mutants (for example a renamed
   `root`/`app_hash` field) if the round-trip property is split per type.
4. **Receivers.** If relay-message/src/aggregate.rs joins the sources,
   confirm that the receivers prove at the trusted height, as modelled.
