----------------------------- MODULE PacketFlow -----------------------------
(***************************************************************************)
(* The packet flow over one channel, from A to B, as the relayer promises  *)
(* to carry it: each packet is sent by a user, received on the            *)
(* counterparty, and its acknowledgement returned to the sender.  The      *)
(* state is only the furthest stage each packet reached.  An ORDERED       *)
(* channel receives and acknowledges packets in sequence.  Every sent      *)
(* packet is eventually received and acknowledged.                        *)
(***************************************************************************)
EXTENDS Naturals

CONSTANTS Packets, Ordering

VARIABLE packet   \* packet[p]: "NONE", "SENT", "RECEIVED" or "ACKED"

Rank == [NONE |-> 0, SENT |-> 1, RECEIVED |-> 2, ACKED |-> 3]

\* Every packet before p has reached stage s.
Earlier(p, s) == \A q \in Packets : q < p => Rank[packet[q]] >= Rank[s]

Advance(p, from, to) ==
    /\ packet[p] = from
    /\ packet' = [packet EXCEPT ![p] = to]

Init == packet = [p \in Packets |-> "NONE"]

Send(p) == Earlier(p, "SENT") /\ Advance(p, "NONE", "SENT")

Recv(p) ==
    /\ Ordering = "ORDERED" => Earlier(p, "RECEIVED")
    /\ Advance(p, "SENT", "RECEIVED")

Ack(p) ==
    /\ Ordering = "ORDERED" => Earlier(p, "ACKED")
    /\ Advance(p, "RECEIVED", "ACKED")

Next == \E p \in Packets : Send(p) \/ Recv(p) \/ Ack(p)

(***************************************************************************)
(* Sending is the user's choice; delivery and acknowledgement of each      *)
(* packet are forced once they are possible.                               *)
(***************************************************************************)
Spec == Init /\ [][Next]_packet /\ \A p \in Packets : WF_packet(Recv(p)) /\ WF_packet(Ack(p))

=============================================================================
