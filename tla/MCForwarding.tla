----------------------------- MODULE MCForwarding -----------------------------
(***************************************************************************)
(* TCP forwarding, checked one component at a time: `part` names the one   *)
(* that runs, and the others keep their initial states.                    *)
(*   "bridge":    one connection from application to application           *)
(*   "client":    the connections of ClientForwarder and its close()       *)
(*   "listeners": reverse rules that are requested, granted and closed     *)
(***************************************************************************)
EXTENDS Bridge, Forwarding, Listeners

VARIABLE part

MCBytes == [s \in Sides |-> IF s = "client" THEN 2 ELSE 1]

\* A connection of each kind of rule, and two reverse streams.
MCConns == {"l", "p", "s", "h", "r1", "r2"}
MCKind == [c \in MCConns |-> CASE c = "l" -> "local" [] c = "p" -> "proxy" [] c = "s" -> "socks"
                               [] c = "h" -> "control" [] c \in {"r1", "r2"} -> "reverse"]

MCInit == part \in {"bridge", "client", "listeners"} /\ BridgeInit /\ Init /\ ListenersInit

BridgeStep == part = "bridge" /\ BridgeNext /\ UNCHANGED <<part, vars, listenerVars>>
ClientStep == part = "client" /\ Next /\ UNCHANGED <<part, bridgeVars, listenerVars>>
ListenerStep == part = "listeners" /\ ListenersNext /\ UNCHANGED <<part, bridgeVars, vars>>

MCNext == BridgeStep \/ ClientStep \/ ListenerStep

\* The fairness of each component, while it is the one that runs.
MCFairness ==
    /\ WF_bridgeVars(part = "bridge" /\ BridgeProgress)
    /\ WF_vars(part = "client" /\ Progress)
    /\ WF_listenerVars(part = "listeners" /\ ListenersProgress)

MCSpec == MCInit /\ [][MCNext]_<<part, bridgeVars, vars, listenerVars>> /\ MCFairness

-----------------------------------------------------------------------------

\* Every variable has its type.
MCTypeOK == BridgeTypeOK /\ TypeOK /\ ListenersTypeOK

=============================================================================
