\* The connection and channel handshakes and one packet, with users who
\* open the channel and send only once both ends are open.
CONSTANTS
    A = A
    B = B
    NONE = NONE
    MaxHeight <- MCMaxHeight
    MaxCrashes = 1
    MaxIdle = 1
    ChannelInitAfter = "OPEN"
    MaxPackets = 1
    Ordering = "UNORDERED"
    MaxCommands = 0
    PacketSendAfter = "BOTH"
SPECIFICATION Spec
INVARIANT TypeOK
INVARIANT NoRejectedMsg
PROPERTY ImplementsHandshake
PROPERTY ImplementsPacketFlow
CHECK_DEADLOCK FALSE
