------------------------------- MODULE Relay -------------------------------
(***************************************************************************)
(* The relayer's message queue driving the IBC connection handshake, and   *)
(* the channel handshake opened on that connection, between two chains.   *)
(*                                                                         *)
(*  - Event lowering (handle) is relay-message/src/event.rs.               *)
(*  - The join that fires an aggregate is AggregateData                    *)
(*    (voyager/src/queue/aggregate_data.rs).                               *)
(*  - The reduction rules of the queue, the driver with its per-chain      *)
(*    effect slot and crash/restart, mk_aggregate_wait_for_update and the  *)
(*    handshake receivers come from spec.md sections 4.4, 4.5, 4.8, 4.9    *)
(*    and 5: their crates (queue-msg, relay-message/src/aggregate.rs) are  *)
(*    not part of the sources.                                             *)
(*  - The chains are the environment: a height, the consensus heights of   *)
(*    the light client of the counterparty, the history of the connection  *)
(*    and channel ends and the events emitted.  A user opens the channel   *)
(*    (ChanOpenInit) at a connection stage set by ChannelInitAfter.  A     *)
(*    transaction is included in a new block;                              *)
(*    a handshake message is checked against a proof at its proof height, *)
(*    which needs a consensus state at exactly that height; a message the  *)
(*    chain has already applied is answered "already processed".           *)
(***************************************************************************)
EXTENDS Naturals, Sequences, FiniteSets, BagsExt, AggregateData

CONSTANTS
    A, B,          \* the two chains
    MaxHeight,     \* last block height either chain reaches
    MaxCrashes,    \* restarts of the relayer
    MaxIdle,       \* empty blocks produced by the chains, together
    ChannelInitAfter, \* "INIT" or "OPEN": the connection stage a channel is opened at
    MaxPackets,    \* packets a user sends on A's channel
    PacketSendAfter, \* "SENDER" or "BOTH": whose channel end must be open to send
    Ordering,      \* "UNORDERED" or "ORDERED": the channel's ordering
    MaxCommands,   \* Command::UpdateClient messages an operator enqueues
    NONE           \* empty in-flight slot

ASSUME MaxHeight \in 3..20 /\ ChannelInitAfter \in {"INIT", "OPEN"} /\ MaxCrashes \in 0..3 /\ MaxIdle \in 0..3
       /\ MaxPackets \in 0..3 /\ Ordering \in {"UNORDERED", "ORDERED"}
       /\ PacketSendAfter \in {"SENDER", "BOTH"} /\ MaxCommands \in 0..2

Chains == {A, B}
Other(c) == IF c = A THEN B ELSE A

VARIABLES
    chain,     \* chain[c]: [height, clients, since, pkt, events]
    seen,      \* seen[c]: events of c the block poller has enqueued
    queue,     \* bag of persisted top-level queue messages
    inflight,  \* inflight[c]: the message whose effect on c is submitted, not committed
    failed,    \* messages a chain rejected
    crashes,
    idle,
    commands   \* Command::UpdateClient messages enqueued so far

vars == <<chain, seen, queue, inflight, failed, crashes, idle, commands>>

-----------------------------------------------------------------------------
(* Connection and channel ends.  since[e][s] is the height at which end e *)
(* reached stage s (0: not reached).                                       *)

Ends == {"conn", "chan"}
Rank == [UNINIT |-> 0, INIT |-> 1, TRYOPEN |-> 2, OPEN |-> 3]

StageAt(c, e, h) ==
    LET at == chain[c].since[e]
    IN  CASE at["OPEN"] \in 1..h    -> "OPEN"
          [] at["TRYOPEN"] \in 1..h -> "TRYOPEN"
          [] at["INIT"] \in 1..h    -> "INIT"
          [] OTHER                  -> "UNINIT"

Stage(c, e) == StageAt(c, e, chain[c].height)
Conn(c) == Stage(c, "conn")
Chan(c) == Stage(c, "chan")

\* Packets, by sequence.  pkt[p][s] is the height of the block in which the
\* chain recorded packet p as s: its commitment (SENT), its receipt
\* (RECEIVED) or its acknowledgement (ACKED); 0: not recorded.
Packets == 1..MaxPackets
PacketRecords == {"SENT", "RECEIVED", "ACKED"}

-----------------------------------------------------------------------------
(* Queue messages (queue_msg::QueueMsg).                                   *)

noop == [t |-> "noop"]
data(d) == [t |-> "data", d |-> d]
event(c, e) == [t |-> "event", c |-> c, e |-> e]
fetch(c, p) == [t |-> "fetch", c |-> c, p |-> p]
wait(c, p) == [t |-> "wait", c |-> c, p |-> p]
effect(c, m) == [t |-> "effect", c |-> c, m |-> m]
aggregate(q, d, r) == [t |-> "aggregate", q |-> q, d |-> d, r |-> r]
\* seq([]) is done and seq([x]) is x.
seq(xs) ==
    IF xs = <<>> THEN noop ELSE IF Len(xs) = 1 THEN xs[1] ELSE [t |-> "seq", xs |-> xs]

\* Receivers of aggregates.  stage is the handshake event a
\* ChannelHandshakeUpdateClient was made for.
\* p is the packet sequence a packet receiver is about (0: none).
Receiver(kind, hc, h) == [kind |-> kind, hc |-> hc, tr |-> Other(hc), h |-> h, stage |-> kind, p |-> 0]
ChannelHandshakeUpdateClient(ev, hc, h) ==
    [Receiver("ChannelHandshakeUpdateClient", hc, h) EXCEPT !.stage = ev]
PacketUpdateClient(ev, hc, h) ==
    [Receiver("PacketUpdateClient", hc, h) EXCEPT !.stage = ev.type, !.p = ev.p]

\* The data kinds each receiver's AggregatedData HList lists.
RecvKinds(r) ==
    CASE r.kind = "UpdateIfNeeded"                -> <<"ClientState">>
      [] r.kind = "ConnectionFetchFromChannelEnd" -> <<"ChannelEnd">>
      [] r.kind \in {"ChannelHandshakeUpdateClient",
                      "PacketUpdateClient"}           -> <<"ConnectionEnd">>
      [] r.kind = "UpdateClientFromClientId"      -> <<"ClientState">>
      [] r.kind = "UpdateClientToLatest"          -> <<"LatestHeight">>
      [] OTHER                                    -> <<"TrustedClientState">>

\* Wait until Tr's client of Hc trusts height h (spec 4.5): read the
\* client state on Tr and update the client when it is behind.
mk_aggregate_wait_for_update(hc, h) ==
    aggregate(<<fetch(Other(hc), [path |-> "ClientState"])>>, <<>>,
              Receiver("UpdateIfNeeded", hc, h))

\* The receiver that follows each handshake event (event.rs).
NextStep == [ConnectionOpenInit |-> "ConnectionOpenTry",
             ConnectionOpenTry  |-> "ConnectionOpenAck",
             ConnectionOpenAck  |-> "ConnectionOpenConfirm",
             ChannelOpenInit    |-> "ChannelOpenTry",
             ChannelOpenTry     |-> "ChannelOpenAck",
             ChannelOpenAck     |-> "ChannelOpenConfirm",
             SendPacket         |-> "RecvPacket",
             RecvPacket         |-> "AcknowledgePacket"]

\* The step after a connection event, once the update to its height is in.
AfterUpdate(hc, ev) ==
    aggregate(<<mk_aggregate_wait_for_update(hc, ev.h)>>, <<>>,
              Receiver(NextStep[ev.type], hc, ev.h))

\* A channel event: read the channel end at the event height, then its
\* connection end, then update the client (spec 4.5 table).
ChannelEventAggregate(hc, ev) ==
    aggregate(<<aggregate(<<fetch(hc, [path |-> "ChannelEnd", at |-> ev.h])>>, <<>>,
                          Receiver("ConnectionFetchFromChannelEnd", hc, ev.h))>>,
              <<>>, ChannelHandshakeUpdateClient(ev.type, hc, ev.h))

ChannelEvents == {"ChannelOpenInit", "ChannelOpenTry", "ChannelOpenAck"}

\* A packet event: read the connection end at the event height, then
\* update the counterparty's client (spec 4.5 table).
PacketEventAggregate(hc, ev) ==
    aggregate(<<fetch(hc, [path |-> "Connection", at |-> ev.h])>>, <<>>,
              PacketUpdateClient(ev, hc, ev.h))

\* Mutant of PacketEvents: RecvPacket logged like WriteAcknowledgement.
PacketEvents_SendOnly == {"SendPacket"}

PacketEvents == {"SendPacket", "RecvPacket"}

\* Mutant of handle: ConnectionOpenAck logged as observational, like
\* ConnectionOpenConfirm.
handle_AckObservational(hc, ev) ==
    CASE ev.type = "ConnectionOpenInit" -> seq(<<wait(hc, [block |-> ev.h]), AfterUpdate(hc, ev)>>)
      [] ev.type = "ConnectionOpenTry"  -> seq(<<AfterUpdate(hc, ev)>>)
      [] ev.type \in ChannelEvents      -> ChannelEventAggregate(hc, ev)
      [] ev.type \in PacketEvents       -> PacketEventAggregate(hc, ev)
      [] OTHER                          -> noop

(***************************************************************************)
(* Event::handle: lower an IBC event observed on hc to queue messages.     *)
(* ConnectionOpenInit waits for its block, then for the update; Try and    *)
(* Ack aggregate on the update only; ChannelOpen{Init,Try,Ack} go through  *)
(* the channel end and its connection; ConnectionOpenConfirm,              *)
(* ChannelOpenConfirm (like CreateClient and UpdateClient) are only        *)
(* logged; SendPacket and RecvPacket go through the connection end;        *)
(* AcknowledgePacket, TimeoutPacket and WriteAcknowledgement are logged.   *)
(***************************************************************************)
handle(hc, ev) ==
    CASE ev.type = "ConnectionOpenInit" -> seq(<<wait(hc, [block |-> ev.h]), AfterUpdate(hc, ev)>>)
      [] ev.type = "ConnectionOpenTry"  -> seq(<<AfterUpdate(hc, ev)>>)
      [] ev.type = "ConnectionOpenAck"  -> AfterUpdate(hc, ev)
      [] ev.type \in ChannelEvents      -> ChannelEventAggregate(hc, ev)
      [] ev.type \in PacketEvents       -> PacketEventAggregate(hc, ev)
      [] OTHER                          -> noop

(***************************************************************************)
(* UseAggregate::aggregate of each receiver, given its joined data.        *)
(* UpdateIfNeeded: a client already at h or beyond yields its trusted      *)
(* height; otherwise submit an update to h and wait again.                 *)
(* ConnectionFetchFromChannelEnd reads the channel's connection end at h;  *)
(* ChannelHandshakeUpdateClient waits for the update to h; the handshake   *)
(* receivers submit their message with a proof at the trusted height.     *)
(***************************************************************************)
Message == [ConnectionOpenTry     |-> "ConnOpenTry",
            ConnectionOpenAck     |-> "ConnOpenAck",
            ConnectionOpenConfirm |-> "ConnOpenConfirm",
            ChannelOpenTry        |-> "ChanOpenTry",
            ChannelOpenAck        |-> "ChanOpenAck",
            ChannelOpenConfirm    |-> "ChanOpenConfirm",
            RecvPacket            |-> "MsgRecvPacket",
            AcknowledgePacket     |-> "MsgAcknowledgement"]

\* Mutant of ReceiveStep: the proof taken at the event height h rather
\* than at the trusted height of the client.
ReceiveStep_EventHeight(r, joined) ==
    CASE r.kind = "ConnectionFetchFromChannelEnd" ->
            fetch(r.hc, [path |-> "Connection", at |-> r.h])
      [] r.kind \in {"ChannelHandshakeUpdateClient", "PacketUpdateClient"} ->
            aggregate(<<mk_aggregate_wait_for_update(r.hc, r.h)>>, <<>>,
                      [Receiver(NextStep[r.stage], r.hc, r.h) EXCEPT !.p = r.p])
      [] OTHER -> effect(r.tr, [type |-> Message[r.kind], h |-> r.h, p |-> r.p])

\* The receivers other than UpdateIfNeeded.  A handshake or packet receiver
\* joins the TrustedClientState of Tr's client and submits its message
\* with a proof at that client's trusted height, which is h or later.
ReceiveStep(r, joined) ==
    CASE r.kind = "ConnectionFetchFromChannelEnd" ->
            fetch(r.hc, [path |-> "Connection", at |-> r.h])
      [] r.kind \in {"ChannelHandshakeUpdateClient", "PacketUpdateClient"} ->
            aggregate(<<mk_aggregate_wait_for_update(r.hc, r.h)>>, <<>>,
                      [Receiver(NextStep[r.stage], r.hc, r.h) EXCEPT !.p = r.p])
      [] OTHER -> effect(r.tr, [type |-> Message[r.kind], h |-> joined[1].h, p |-> r.p])

UpdateStep(r) ==
    seq(<<effect(r.tr, [type |-> "UpdateClient", h |-> r.h, p |-> 0]), mk_aggregate_wait_for_update(r.hc, r.h)>>)

(***************************************************************************)
(* Event::Command(Command::UpdateClient) on hc: fetch the latest state of  *)
(* hc's client of Tr, then AggregateUpdateClientFromClientId, which reads  *)
(* Tr's latest height and updates the client to it when it is behind.     *)
(***************************************************************************)
command(c) == [t |-> "command", c |-> c]

handle_command(hc) ==
    aggregate(<<fetch(hc, [path |-> "ClientState"])>>, <<>>,
              Receiver("UpdateClientFromClientId", hc, 0))

UpdateClientFromClientId(r, joined) ==
    CASE r.kind = "UpdateClientFromClientId" ->
            aggregate(<<fetch(r.tr, [path |-> "LatestHeight"])>>, <<>>,
                      Receiver("UpdateClientToLatest", r.hc, joined[1].h))
      [] joined[1].h > r.h ->
            effect(r.hc, [type |-> "UpdateClient", h |-> joined[1].h, p |-> 0])
      [] OTHER -> noop

\* Mutant of Receive: a client one block short of h counts as trusted.
Receive_OffByOne(r, joined) ==
    IF r.kind = "UpdateIfNeeded"
    THEN IF joined[1].h + 1 >= r.h
         THEN data([kind |-> "TrustedClientState", h |-> joined[1].h])
         ELSE UpdateStep(r)
    ELSE IF r.kind \in {"UpdateClientFromClientId", "UpdateClientToLatest"}
    THEN UpdateClientFromClientId(r, joined)
    ELSE ReceiveStep(r, joined)

Receive(r, joined) ==
    IF r.kind = "UpdateIfNeeded"
    THEN IF joined[1].h >= r.h
         THEN data([kind |-> "TrustedClientState", h |-> joined[1].h])
         ELSE UpdateStep(r)
    ELSE IF r.kind \in {"UpdateClientFromClientId", "UpdateClientToLatest"}
    THEN UpdateClientFromClientId(r, joined)
    ELSE ReceiveStep(r, joined)

\* do_fetch: the latest client state of c's light client, a channel or
\* connection end of c at a height (FetchState), or c's latest height.
do_fetch(c, p) ==
    CASE p.path = "ClientState" -> data([kind |-> "ClientState", h |-> Max(chain[c].clients)])
      [] p.path = "ChannelEnd"  -> data([kind |-> "ChannelEnd", h |-> p.at])
      [] p.path = "Connection"  -> data([kind |-> "ConnectionEnd", h |-> p.at])
      [] p.path = "LatestHeight" -> data([kind |-> "LatestHeight", h |-> chain[c].height])

\* do_wait: done once the chain has produced the block, else unchanged.
do_wait(m) == IF chain[m.c].height >= m.p.block THEN noop ELSE m

-----------------------------------------------------------------------------
(***************************************************************************)
(* Reduction of one message (spec 4.4): the set of its possible results,   *)
(* each a replacement term and the transaction it submits, if any.         *)
(* Seq reduces its head; Aggregate reduces any message of its queue (they  *)
(* are scheduled independently), collects data, and fires through          *)
(* do_aggregate when its queue is empty.  A failed join is the panic of    *)
(* do_aggregate: no result.                                                *)
(***************************************************************************)
NoTx == [c |-> NONE]
Out(term, tx) == [term |-> term, tx |-> tx]

Absorb(m, i, x) ==
    IF x.t = "data" THEN [m EXCEPT !.q = RemoveAt(@, i), !.d = Append(@, x.d)]
    ELSE IF x = noop THEN [m EXCEPT !.q = RemoveAt(@, i)]
    ELSE [m EXCEPT !.q[i] = x]

RECURSIVE Reduce(_)
Reduce(m) ==
    CASE m.t = "event"  -> {Out(handle(m.c, m.e), NoTx)}
      [] m.t = "command" -> {Out(handle_command(m.c), NoTx)}
      [] m.t = "fetch"  -> {Out(do_fetch(m.c, m.p), NoTx)}
      [] m.t = "wait"   -> {Out(do_wait(m), NoTx)}
      [] m.t = "effect" -> {Out(noop, [c |-> m.c, m |-> m.m])}
      [] m.t = "seq" ->
            {Out(seq(IF o.term = noop THEN Tail(m.xs) ELSE <<o.term>> \o Tail(m.xs)), o.tx)
                : o \in Reduce(Head(m.xs))}
      [] m.t = "aggregate" /\ m.q = <<>> ->
            LET j == do_aggregate(RecvKinds(m.r), m.d)
            IN  IF j.ok THEN {Out(Receive(m.r, j.val), NoTx)} ELSE {}
      [] m.t = "aggregate" ->
            UNION {{Out(Absorb(m, i, o.term), o.tx) : o \in Reduce(m.q[i])} : i \in 1..Len(m.q)}
      [] OTHER -> {}

-----------------------------------------------------------------------------
(***************************************************************************)
(* The chains.  Apply(c, msg) is c's answer to a transaction: the new      *)
(* chain record and whether the chain rejected it.                         *)
(***************************************************************************)
PacketMsgs == {"MsgRecvPacket", "MsgAcknowledgement"}
Msgs == PacketMsgs \cup {"ConnOpenTry", "ConnOpenAck", "ConnOpenConfirm",
         "ChanOpenTry", "ChanOpenAck", "ChanOpenConfirm"}
EndOf(type) == IF type \in {"ChanOpenTry", "ChanOpenAck", "ChanOpenConfirm"} THEN "chan" ELSE "conn"
Step3(t, x, y, z) == CASE t \in {"ConnOpenTry", "ChanOpenTry"} -> x
                       [] t \in {"ConnOpenAck", "ChanOpenAck"} -> y
                       [] OTHER -> z
Target(t) == Step3(t, "TRYOPEN", "OPEN", "OPEN")
Before(t) == Step3(t, "UNINIT", "INIT", "TRYOPEN")
Proves(t) == Step3(t, "INIT", "TRYOPEN", "OPEN")
Emits == [ConnOpenTry |-> "ConnectionOpenTry", ConnOpenAck |-> "ConnectionOpenAck",
          ConnOpenConfirm |-> "ConnectionOpenConfirm", ChanOpenTry |-> "ChannelOpenTry",
          ChanOpenAck |-> "ChannelOpenAck", ChanOpenConfirm |-> "ChannelOpenConfirm",
          UpdateClient |-> "UpdateClient"]

NewBlock(ch, type, p) ==
    [ch EXCEPT !.height = @ + 1,
               !.events = Append(@, [type |-> type, h |-> ch.height + 1, p |-> p])]

\* The proof at msg.h: a consensus state at exactly that height, and the
\* counterparty's end at the stage the message proves.
Verified(c, msg) ==
    /\ msg.h \in chain[c].clients
    /\ StageAt(Other(c), EndOf(msg.type), msg.h) = Proves(msg.type)

\* ICS-04: a channel handshake step needs the chain's connection open.
ConnectionReady(c, msg) == EndOf(msg.type) = "chan" => Conn(c) = "OPEN"

\* A packet message records the packet on c, with a proof that the
\* counterparty recorded it as the previous stage at msg.h.  An ORDERED
\* channel takes packets in sequence only.
Records == [MsgRecvPacket |-> "RECEIVED", MsgAcknowledgement |-> "ACKED"]
ProvesRecord == [MsgRecvPacket |-> "SENT", MsgAcknowledgement |-> "RECEIVED"]
PacketEmits == [MsgRecvPacket |-> "RecvPacket", MsgAcknowledgement |-> "AcknowledgePacket"]

InSequence(c, msg) ==
    Ordering = "ORDERED" => \A q \in 1..(msg.p - 1) : chain[c].pkt[q][Records[msg.type]] # 0

ApplyPacket(c, msg) ==
    LET ch == chain[c]
        r  == Records[msg.type]
    IN
    IF ch.pkt[msg.p][r] # 0
    THEN [ch |-> ch, ok |-> TRUE]
    ELSE IF /\ msg.h \in ch.clients
            /\ chain[Other(c)].pkt[msg.p][ProvesRecord[msg.type]] \in 1..msg.h
            /\ Chan(c) = "OPEN"
            /\ InSequence(c, msg)
    THEN [ch |-> NewBlock([ch EXCEPT !.pkt[msg.p][r] = ch.height + 1],
                          PacketEmits[msg.type], msg.p),
          ok |-> TRUE]
    ELSE [ch |-> ch, ok |-> FALSE]

Apply(c, msg) ==
    LET ch == chain[c]
        e == EndOf(msg.type)
    IN
    IF msg.type \in PacketMsgs THEN ApplyPacket(c, msg)
    ELSE IF msg.type = "UpdateClient"
    THEN IF msg.h \in ch.clients
         THEN [ch |-> ch, ok |-> TRUE]
         ELSE [ch |-> NewBlock([ch EXCEPT !.clients = @ \cup {msg.h}], "UpdateClient", 0),
               ok |-> TRUE]
    ELSE IF Rank[Stage(c, e)] >= Rank[Target(msg.type)]
    THEN [ch |-> ch, ok |-> TRUE]
    ELSE IF Stage(c, e) = Before(msg.type) /\ Verified(c, msg) /\ ConnectionReady(c, msg)
    THEN [ch |-> NewBlock([ch EXCEPT !.since[e][Target(msg.type)] = ch.height + 1],
                          Emits[msg.type], 0),
          ok |-> TRUE]
    ELSE [ch |-> ch, ok |-> FALSE]

-----------------------------------------------------------------------------
(* The driver.                                                             *)

InFlight == {inflight[c].item : c \in {x \in Chains : inflight[x] # NONE}}

\* Spec 5: the events of one chain are reduced in the chain's block order.
InBlockOrder(m) ==
    m.t = "event" => \A x \in BagToSet(queue) : x.t = "event" /\ x.c = m.c => m.e.h <= x.e.h

Ready == {m \in BagToSet(queue) \ InFlight : InBlockOrder(m)}

Replace(q, m, x) == IF x = noop THEN BagRemove(q, m) ELSE BagAdd(BagRemove(q, m), x)

\* Pop a ready message, reduce it and commit the result in one transaction.
Step(m) ==
    /\ m \in Ready
    /\ \E o \in Reduce(m) :
        /\ o.tx = NoTx
        /\ queue' = Replace(queue, m, o.term)
    /\ UNCHANGED <<chain, seen, inflight, failed, crashes, idle, commands>>

\* A reduction that submits a transaction: at most one effect per chain in
\* flight; the chain includes it in a block.  The queue is not yet committed.
Submit(m) ==
    /\ m \in Ready
    /\ \E o \in Reduce(m) :
        /\ o.tx # NoTx
        /\ inflight[o.tx.c] = NONE
        /\ chain[o.tx.c].height < MaxHeight
        /\ LET res == Apply(o.tx.c, o.tx.m) IN
           /\ chain' = [chain EXCEPT ![o.tx.c] = res.ch]
           /\ failed' = IF res.ok THEN failed ELSE failed \cup {<<o.tx.c, o.tx.m>>}
        /\ inflight' = [inflight EXCEPT ![o.tx.c] = [item |-> m, next |-> o.term]]
    /\ UNCHANGED <<seen, queue, crashes, idle, commands>>

\* Mutant of Commit: the in-flight slot is not cleared.
Commit_KeepSlot(c) ==
    /\ inflight[c] # NONE
    /\ queue' = Replace(queue, inflight[c].item, inflight[c].next)
    /\ UNCHANGED <<chain, seen, inflight, failed, crashes, idle, commands>>

\* Commit of a reduction whose transaction was submitted.
Commit(c) ==
    /\ inflight[c] # NONE
    /\ queue' = Replace(queue, inflight[c].item, inflight[c].next)
    /\ inflight' = [inflight EXCEPT ![c] = NONE]
    /\ UNCHANGED <<chain, seen, failed, crashes, idle, commands>>

\* The relayer dies after a submission and before its commit; on restart
\* the uncommitted messages are ready again and will be reduced again.
Crash ==
    /\ crashes < MaxCrashes
    /\ InFlight # {}
    /\ inflight' = [c \in Chains |-> NONE]
    /\ crashes' = crashes + 1
    /\ UNCHANGED <<chain, seen, queue, failed, idle, commands>>

\* The block poller enqueues the next event of c in block order.  An event
\* that Event::handle lowers to Noop is dropped here: its own reduction
\* would only remove it, and nothing reads it in between.
Observe(c) ==
    /\ seen[c] < Len(chain[c].events)
    /\ LET m == event(c, chain[c].events[seen[c] + 1])
       IN  queue' = IF handle(c, m.e) = noop THEN queue ELSE BagAdd(queue, m)
    /\ seen' = [seen EXCEPT ![c] = @ + 1]
    /\ UNCHANGED <<chain, inflight, failed, crashes, idle, commands>>

\* A chain produces a block without relayer transactions.
Idle(c) ==
    /\ idle < MaxIdle
    /\ chain[c].height < MaxHeight
    /\ chain' = [chain EXCEPT ![c].height = @ + 1]
    /\ idle' = idle + 1
    /\ UNCHANGED <<seen, queue, inflight, failed, crashes, commands>>

\* A user opens a channel on A's connection (ChanOpenInit): ICS-04 needs
\* the connection initialised; ChannelInitAfter = "OPEN" waits until both
\* connection ends are open.
ChanOpenInit ==
    /\ Chan(A) = "UNINIT" /\ Chan(B) = "UNINIT"
    /\ IF ChannelInitAfter = "OPEN" THEN Conn(A) = "OPEN" /\ Conn(B) = "OPEN"
                                    ELSE Conn(A) # "UNINIT"
    /\ chain[A].height < MaxHeight
    /\ chain' = [chain EXCEPT ![A] = NewBlock([@ EXCEPT !.since["chan"]["INIT"] = chain[A].height + 1],
                                             "ChannelOpenInit", 0)]
    /\ UNCHANGED <<seen, queue, inflight, failed, crashes, idle, commands>>

\* A user sends the next packet on A's channel, which must be open;
\* PacketSendAfter = "BOTH" waits until B's end is open too.
SendPacket ==
    /\ Chan(A) = "OPEN"
    /\ PacketSendAfter = "BOTH" => Chan(B) = "OPEN"
    /\ chain[A].height < MaxHeight
    /\ \E p \in Packets :
        /\ chain[A].pkt[p]["SENT"] = 0
        /\ \A q \in 1..(p - 1) : chain[A].pkt[q]["SENT"] # 0
        /\ chain' = [chain EXCEPT ![A] = NewBlock([@ EXCEPT !.pkt[p]["SENT"] = chain[A].height + 1],
                                                 "SendPacket", p)]
    /\ UNCHANGED <<seen, queue, inflight, failed, crashes, idle, commands>>

\* An operator enqueues Command::UpdateClient for the client on c.
IssueCommand(c) ==
    /\ commands < MaxCommands
    /\ queue' = BagAdd(queue, command(c))
    /\ commands' = commands + 1
    /\ UNCHANGED <<chain, seen, inflight, failed, crashes, idle>>

(***************************************************************************)
(* Initially both light clients exist with consensus state 1, and A's      *)
(* connection end was opened (ConnectionOpenInit) in block 2.              *)
(***************************************************************************)
Init ==
    /\ chain = [c \in Chains |->
                 [height  |-> IF c = A THEN 2 ELSE 1,
                  clients |-> {1},
                  since   |-> [e \in Ends |-> [s \in {"INIT", "TRYOPEN", "OPEN"} |->
                                 IF c = A /\ e = "conn" /\ s = "INIT" THEN 2 ELSE 0]],
                  pkt     |-> [p \in Packets |-> [s \in PacketRecords |-> 0]],
                  events  |-> IF c = A THEN <<[type |-> "ConnectionOpenInit", h |-> 2, p |-> 0]>>
                                       ELSE <<>>]]
    /\ seen = [c \in Chains |-> 0]
    /\ queue = EmptyBag
    /\ inflight = [c \in Chains |-> NONE]
    /\ failed = {}
    /\ crashes = 0
    /\ idle = 0
    /\ commands = 0

Next ==
    \/ \E m \in Ready : Step(m) \/ Submit(m)
    \/ \E c \in Chains : Commit(c) \/ Observe(c) \/ Idle(c) \/ IssueCommand(c)
    \/ Crash
    \/ ChanOpenInit
    \/ SendPacket

(***************************************************************************)
(* The driver keeps reducing while work is ready and commits what it       *)
(* submitted; the block poller keeps polling.  Crashes and empty blocks    *)
(* are not forced.                                                         *)
(***************************************************************************)
Fairness ==
    /\ WF_vars(\E m \in Ready : Step(m) \/ Submit(m))
    /\ \A c \in Chains : WF_vars(Commit(c)) /\ WF_vars(Observe(c))

Spec == Init /\ [][Next]_vars /\ Fairness

-----------------------------------------------------------------------------
TypeOK ==
    /\ \A c \in Chains :
        /\ chain[c].height \in 1..MaxHeight
        /\ chain[c].clients \subseteq 1..MaxHeight
        /\ seen[c] \in 0..Len(chain[c].events)
        /\ inflight[c] = NONE \/ inflight[c].item \in BagToSet(queue)
    /\ IsABag(queue)
    /\ crashes \in 0..MaxCrashes /\ idle \in 0..MaxIdle /\ commands \in 0..MaxCommands

(***************************************************************************)
(* No chain rejects a handshake or packet message the relayer              *)
(* submits: the update of the target's light client to the proof height  *)
(* is always applied before the proof-bearing message, across              *)
(* interleavings of the two chains'                                        *)
(* events, re-reduction after a crash and the re-submission it causes.     *)
(* This is what event.rs wraps every handshake step in                     *)
(* mk_aggregate_wait_for_update for.                                       *)
(***************************************************************************)
NoRejectedMsg == failed = {}

(***************************************************************************)
(* Relay implements Handshake under the mapping of each end to its stage   *)
(* at the chain's current height.  Safety: every block moves one end one   *)
(* stage, and only when the counterparty's end is, at that moment, at the  *)
(* stage the step proves (a proof at an older height is never stale) and,  *)
(* for a channel, the chain's connection is open.  Liveness: once started, *)
(* the connection handshake and an opened channel's handshake complete on  *)
(* both ends, whatever the crashes (bounded) and however the two chains'   *)
(* blocks and the driver's reductions interleave.                          *)
(***************************************************************************)
H == INSTANCE Handshake WITH stage <- [c \in Chains |-> [e \in Ends |-> Stage(c, e)]]

ImplementsHandshake == H!Spec

\* The furthest stage packet p reached on either chain.
PacketStage(p) ==
    CASE chain[A].pkt[p]["ACKED"] # 0    -> "ACKED"
      [] chain[B].pkt[p]["RECEIVED"] # 0 -> "RECEIVED"
      [] chain[A].pkt[p]["SENT"] # 0     -> "SENT"
      [] OTHER                          -> "NONE"

(***************************************************************************)
(* Relay implements PacketFlow: a packet is received only after it was     *)
(* sent and acknowledged only after it was received, each once, and, on an *)
(* ORDERED channel, in sequence; and every packet a user sends is          *)
(* eventually received on B and acknowledged on A.  This is about the      *)
(* SendPacket and RecvPacket arms of Event::handle and the messages their  *)
(* receivers submit, under crashes and interleaved reductions.             *)
(***************************************************************************)
P == INSTANCE PacketFlow WITH packet <- [p \in Packets |-> PacketStage(p)]

ImplementsPacketFlow == P!Spec

=============================================================================
