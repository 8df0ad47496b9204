------------------------------ MODULE MCRelay ------------------------------
(* Model values for the two chains and the bounds of the Relay runs.        *)
EXTENDS Relay

\* The connection handshake takes B to height 6 and A to 4; a channel
\* opened afterwards needs 2 more blocks on A and 4 on B; a packet needs
\* its send, an update and the receipt on B, an update and the
\* acknowledgement on A; one empty block may come first.  No behaviour
\* reaches height 14, so 13 cuts nothing.
MCMaxHeight == 13
=============================================================================
