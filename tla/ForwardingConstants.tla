-------------------------- MODULE ForwardingConstants --------------------------
(***************************************************************************)
(* The parameters of the modules of TCP forwarding.                        *)
(***************************************************************************)
EXTENDS Integers, FiniteSets

CONSTANTS
    MaxBytes,           \* MaxBytes[s]: bytes the application at s may write
    Window,             \* bytes a writer may be ahead of the reader
    IdleSides,          \* sides with an idle timeout: the agent passes none
    MaxFaults,          \* lost connections, timeouts, cancellations and ends of the tunnel
    Conns,              \* connections and reverse streams of one session
    Kind,               \* Kind[c]: the rule c belongs to
    MaxStreams,         \* config.max_streams
    WaitForConnections, \* Server.wait_closed() waits for them (Python 3.12.1)
    Requests,           \* LISTEN requests, each for a rule of its own
    MaxListeners        \* the max_streams of the agent's peer

Sides == {"client", "agent"}
Kinds == {"local", "proxy", "socks", "control", "reverse"}

ASSUME BytesAssumption == MaxBytes \in [Sides -> Nat]
ASSUME WindowAssumption == Window \in Nat \ {0}
ASSUME IdleAssumption == IdleSides \subseteq Sides
ASSUME FaultsAssumption == MaxFaults \in Nat
ASSUME ConnsAssumption == IsFiniteSet(Conns)
ASSUME KindAssumption == Kind \in [Conns -> Kinds]
ASSUME MaxStreamsAssumption == MaxStreams \in Nat \ {0}
ASSUME WaitAssumption == WaitForConnections \in BOOLEAN
ASSUME ListenRequestsAssumption == IsFiniteSet(Requests)
ASSUME MaxListenersAssumption == MaxListeners \in Nat \ {0}

=============================================================================
