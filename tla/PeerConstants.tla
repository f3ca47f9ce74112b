---------------------------- MODULE PeerConstants ----------------------------
(***************************************************************************)
(* The parameters of the modules of a peer's beginning and its end.        *)
(***************************************************************************)
EXTENDS Integers

CONSTANTS
    LossyPeers,         \* peers whose first write the channel may drop
    MaxHellos,          \* bound: HELLO transmissions of one peer
    MaxApp,             \* bound: ordinary frames one peer sends
    Handlers,           \* tasks the runner may spawn for OPEN and LISTEN frames
    Users,              \* coroutines that open streams and use them
    Accepted,           \* users that serve a connection of the reverse listener
    WaitForConnections  \* Server.wait_closed() waits for them (Python 3.12)

Peers == {"client", "agent"}

ASSUME LossyAssumption == LossyPeers \subseteq Peers
ASSUME BoundAssumption == MaxHellos \in Nat /\ MaxApp \in Nat
ASSUME AcceptedAssumption == Accepted \subseteq Users
ASSUME WaitAssumption == WaitForConnections \in BOOLEAN

=============================================================================
