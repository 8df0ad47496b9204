\* An operator's Command::UpdateClient, on either chain and at any moment,
\* racing the relayer's own updates through both handshakes and one packet.
\* One empty block lets a chain get ahead of a pending event; no crash.
CONSTANTS
    A = A
    B = B
    NONE = NONE
    MaxHeight <- MCMaxHeight
    MaxCrashes = 0
    MaxIdle = 1
    ChannelInitAfter = "OPEN"
    MaxPackets = 1
    Ordering = "UNORDERED"
    MaxCommands = 1
    PacketSendAfter = "BOTH"
SPECIFICATION Spec
INVARIANT NoRejectedMsg
\* The relayer stops once every handshake and packet step is done.
CHECK_DEADLOCK FALSE
