\* Relay under the channel-opening rule of ICS-04.
\* A user may open a channel as soon as its connection is initialised (ICS-04).
CONSTANTS
    A = A
    B = B
    NONE = NONE
    MaxHeight <- MCMaxHeight
    MaxCrashes = 1
    MaxIdle = 1
    ChannelInitAfter = "INIT"
    MaxPackets = 0
    Ordering = "UNORDERED"
    MaxCommands = 0
    PacketSendAfter = "BOTH"
SPECIFICATION Spec
INVARIANT NoRejectedMsg
CHECK_DEADLOCK FALSE
