\* Two packets on an ORDERED channel, sent once both channel ends are open.
CONSTANTS
    A = A
    B = B
    NONE = NONE
    MaxHeight <- MCMaxHeight
    MaxCrashes = 1
    MaxIdle = 1
    ChannelInitAfter = "OPEN"
    MaxPackets = 2
    Ordering = "ORDERED"
    MaxCommands = 0
    PacketSendAfter = "BOTH"
SPECIFICATION Spec
INVARIANT NoRejectedMsg
CHECK_DEADLOCK FALSE
