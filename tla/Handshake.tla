------------------------------ MODULE Handshake ------------------------------
(***************************************************************************)
(* The connection (ICS-03) and channel (ICS-04) open handshakes between    *)
(* two chains, as the relayer promises to drive them: the state is only    *)
(* the stage of each end, and each step moves one end one stage, given     *)
(* the stage the counterparty's end is in at that moment.                  *)
(*                                                                         *)
(* A's connection end starts in INIT.  A channel is opened on A by a user  *)
(* once A's connection is initialised (ChannelInitAfter = "INIT") or once  *)
(* both connection ends are open (ChannelInitAfter = "OPEN").  A channel   *)
(* step needs the connection of its chain open.  Every step after an       *)
(* open is eventually taken: the relayer completes what was started.       *)
(***************************************************************************)
CONSTANTS A, B, ChannelInitAfter

VARIABLE stage   \* stage[c][e]: the stage of chain c's end e

Chains == {A, B}
Ends == {"conn", "chan"}
Other(c) == IF c = A THEN B ELSE A

Init == stage = [c \in Chains |-> [e \in Ends |->
                   IF c = A /\ e = "conn" THEN "INIT" ELSE "UNINIT"]]

Move(c, e, from, to) ==
    /\ stage[c][e] = from
    /\ stage' = [stage EXCEPT ![c][e] = to]

\* A channel step needs an open connection on its own chain.
OnOpenConnection(c, e) == e = "chan" => stage[c]["conn"] = "OPEN"

OpenChannel ==
    /\ stage[B]["chan"] = "UNINIT"
    /\ IF ChannelInitAfter = "OPEN"
       THEN stage[A]["conn"] = "OPEN" /\ stage[B]["conn"] = "OPEN"
       ELSE stage[A]["conn"] # "UNINIT"
    /\ Move(A, "chan", "UNINIT", "INIT")

OpenTry(c, e) ==
    /\ stage[Other(c)][e] = "INIT" /\ OnOpenConnection(c, e)
    /\ Move(c, e, "UNINIT", "TRYOPEN")

OpenAck(c, e) ==
    /\ stage[Other(c)][e] = "TRYOPEN" /\ OnOpenConnection(c, e)
    /\ Move(c, e, "INIT", "OPEN")

OpenConfirm(c, e) ==
    /\ stage[Other(c)][e] = "OPEN" /\ OnOpenConnection(c, e)
    /\ Move(c, e, "TRYOPEN", "OPEN")

Steps(c, e) == OpenTry(c, e) \/ OpenAck(c, e) \/ OpenConfirm(c, e)

Next == OpenChannel \/ \E c \in Chains, e \in Ends : Steps(c, e)

(***************************************************************************)
(* Opening a channel is a user's choice; the handshake steps are forced.   *)
(* At most one step is enabled at a time (each needs the counterparty one  *)
(* stage on), so weak fairness of their disjunction forces each of them.   *)
(***************************************************************************)
Spec == Init /\ [][Next]_stage /\ WF_stage(\E c \in Chains, e \in Ends : Steps(c, e))

=============================================================================
