---------------------------- MODULE MCMuxStreams -----------------------------
(***************************************************************************)
(* Instances of MuxStreams for model checking.                             *)
(***************************************************************************)
EXTENDS MuxStreams

\* A value for the client and a value for the agent.
Pair(c, a) == [p \in Peers |-> IF p = "client" THEN c ELSE a]

One == Pair(1, 1)
Two == Pair(2, 2)
OneTwo == Pair(1, 2)
FourOne == Pair(4, 1)
ClientOnlyWrites == Pair(1, 0)
AgentOnlyWrites == Pair(0, 1)

Client == {"client"}

=============================================================================
