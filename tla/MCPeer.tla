-------------------------------- MODULE MCPeer --------------------------------
(***************************************************************************)
(* The beginning and the end of a peer, checked one at a time: `part`      *)
(* names the one that runs, and the other keeps its initial state.         *)
(*   "handshake": a channel that may lose the first write of either peer,  *)
(*                two retransmissions, and two ordinary frames per side to *)
(*                race the handshake of the other                          *)
(*   "session":   one session of the agent, from start() to its end        *)
(***************************************************************************)
EXTENDS Handshake, PeerShutdown

VARIABLE part

MCInit == part \in {"handshake", "session"} /\ HandshakeInit /\ Init

HandshakeStep == part = "handshake" /\ HandshakeNext /\ UNCHANGED <<part, vars>>
SessionStep == part = "session" /\ Next /\ UNCHANGED <<part, handshakeVars>>

MCNext == HandshakeStep \/ SessionStep

\* The fairness of each component, while it is the one that runs.
MCFairness ==
    /\ \A p \in Peers :
        /\ WF_handshakeVars(part = "handshake" /\ Start(p))
        /\ WF_handshakeVars(part = "handshake" /\ Retransmit(p))
        /\ WF_handshakeVars(part = "handshake" /\ Dispatch(p))
    /\ WF_vars(part = "session" /\ MainStep)
    /\ WF_vars(part = "session" /\ RunnerBegins)
    /\ WF_vars(part = "session" /\ channel = "closed" /\ RunnerStops)
    /\ WF_vars(part = "session" /\ CancelDelivered)
    /\ WF_vars(part = "session" /\ ResumeShutdown)
    /\ WF_vars(part = "session" /\ RetransmitEnds)
    /\ WF_vars(part = "session" /\ HeartbeatEnds)
    /\ \A h \in Handlers :
        WF_vars(part = "session" /\ handler[h] = "cancelled" /\ HandlerCancelled(h))
    /\ \A u \in Users : WF_vars(part = "session" /\ OpenTimesOut(u))
    /\ \A u \in Users : WF_vars(part = "session" /\ user[u] = "ending" /\ UserEnds(u))

MCSpec == MCInit /\ [][MCNext]_<<part, handshakeVars, vars>> /\ MCFairness

-----------------------------------------------------------------------------

\* The handshake ends with both peers ready, whatever the channel loses.
HandshakeEnds == part = "handshake" => HandshakeCompletes

=============================================================================
