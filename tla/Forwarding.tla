------------------------------ MODULE Forwarding ------------------------------
(***************************************************************************)
(* ClientForwarder (forwarding.py): the connections its servers accept,    *)
(* the streams the agent opens to its reverse rules, the tasks that serve  *)
(* them, and close(), which runs while they do.  What a task does between  *)
(* socket and stream is the subject of Bridge; here a bridge is a stage.   *)
(***************************************************************************)
EXTENDS ForwardingConstants, Integers, FiniteSets

VARIABLES
    conn,       \* conn[c]: how far c has come
    cancelled,  \* tasks that close() has cancelled and that have not resumed
    closer,     \* where close() stands
    swept,      \* the tasks close() gathers
    peer        \* "up" until the mux has shut down

vars == <<conn, cancelled, closer, swept, peer>>

\* "asking": reading a SOCKS request; "opening": in open_stream; "dialing": in
\* open_connection; "ending": in the bridge's finally clause; "left": the task
\* is gone and the socket is open.
TypeOK ==
    /\ conn \in [Conns -> {"idle", "asking", "opening", "dialing", "bridged", "ending",
                           "serving", "done", "left"}]
    /\ cancelled \subseteq Conns /\ swept \subseteq Conns
    /\ closer \in {"none", "servers", "tasks", "peer", "closed"}
    /\ peer \in {"up", "down"}

Init ==
    /\ conn = [c \in Conns |-> "idle"]
    /\ cancelled = {} /\ swept = {}
    /\ closer = "none"
    /\ peer = "up"

\* self.tasks.  An HTTP connection has no task here, and a reverse stream has
\* none before it is bridged: it is the peer's handler that dials.
Tasks == {c \in Conns :
    \/ conn[c] \in {"asking", "opening", "bridged", "ending"}
    \/ conn[c] = "dialing" /\ Kind[c] # "reverse"}

\* Connections the servers accepted and whose sockets are open.
Attached == {c \in Conns : Kind[c] # "reverse" /\ conn[c] \notin {"idle", "done"}}

Go(c, stage) ==
    /\ conn' = [conn EXCEPT ![c] = stage]
    /\ UNCHANGED <<cancelled, closer, swept, peer>>

-----------------------------------------------------------------------------
(* A server accepts *)

FirstStage(c) == CASE Kind[c] = "local" -> "opening"
                   [] Kind[c] = "proxy" -> "dialing"
                   [] Kind[c] = "socks" -> "asking"

Accept(c) ==
    /\ conn[c] = "idle" /\ Kind[c] \in {"local", "proxy", "socks"}
    /\ closer = "none"
    /\ Go(c, IF Cardinality(Tasks) >= MaxStreams THEN "done" ELSE FirstStage(c))

\* The control HTTP server keeps its connections to itself.
AcceptControl(c) ==
    /\ conn[c] = "idle" /\ Kind[c] = "control"
    /\ closer = "none"
    /\ Go(c, "serving")

-----------------------------------------------------------------------------
(* A task *)

Runs(c) == c \notin cancelled

\* _read_socks_target: a target, or the connection is answered and closed.
Ask(c) ==
    /\ conn[c] = "asking" /\ Runs(c)
    /\ Go(c, "opening") \/ Go(c, "done")

\* open_stream: a stream, or an error and the socket is closed.
Open(c) ==
    /\ conn[c] = "opening" /\ Runs(c)
    /\ (peer = "up" /\ Go(c, "bridged")) \/ Go(c, "done")

\* A proxy rule's open_connection.
Dial(c) ==
    /\ conn[c] = "dialing" /\ Kind[c] = "proxy" /\ Runs(c)
    /\ Go(c, "bridged") \/ Go(c, "done")

\* The connections at both ends of a bridge have ended or failed.
Ends(c) ==
    /\ conn[c] = "bridged" /\ Runs(c)
    /\ Go(c, "ending")

\* The end of the stream ends the bridge; bridge_tcp has none.
StreamEnds(c) == peer = "down" /\ Kind[c] # "proxy" /\ Ends(c)

\* The finally clause has closed the sockets.
Ended(c) ==
    /\ conn[c] = "ending" /\ Runs(c)
    /\ Go(c, "done")

\* An HTTP request is answered; without the mux it fails at once.
Served(c) ==
    /\ conn[c] = "serving"
    /\ Go(c, "done")

(***************************************************************************)
(* CancelledError in a task.  bridge_socket and bridge_tcp go on to their  *)
(* finally clause and _handle_socks has one; in _handle_local and          *)
(* _handle_proxy before the bridge, and inside the finally clause of the   *)
(* bridge before writer.close(), nothing closes the sockets.               *)
(***************************************************************************)
AfterCancel(c) ==
    CASE conn[c] = "bridged" -> {"ending"}
      [] conn[c] # "bridged" /\ Kind[c] = "socks" -> {"done"}
      [] conn[c] = "ending" /\ Kind[c] # "socks" -> {"done", "left"}
      [] OTHER -> {"left"}

CancelArrives(c) ==
    /\ c \in cancelled
    /\ cancelled' = cancelled \ {c}
    /\ \E stage \in AfterCancel(c) : conn' = [conn EXCEPT ![c] = stage]
    /\ UNCHANGED <<closer, swept, peer>>

-----------------------------------------------------------------------------
(* _on_open *)

\* The agent opens a stream for a reverse rule.
RecvOpen(c) ==
    /\ conn[c] = "idle" /\ Kind[c] = "reverse"
    /\ peer = "up"
    /\ Go(c, "dialing")

\* Faulty: the tasks are counted before the connection is made.
BridgeUncounted(c) ==
    /\ conn[c] = "dialing" /\ Kind[c] = "reverse"
    /\ peer = "up"
    /\ Go(c, "bridged") \/ Go(c, "done")

\* The connection is made and the tasks are counted, or the attempt fails.
BridgeReverse(c) ==
    /\ conn[c] = "dialing" /\ Kind[c] = "reverse"
    /\ peer = "up"
    /\ Go(c, IF Cardinality(Tasks) >= MaxStreams THEN "done" ELSE "bridged") \/ Go(c, "done")

\* The peer cancels its handlers when it shuts down.
HandlerEnds(c) ==
    /\ conn[c] = "dialing" /\ Kind[c] = "reverse"
    /\ peer = "down"
    /\ Go(c, "done")

\* The channel ends, and with it the mux.
PeerEnds ==
    /\ peer = "up"
    /\ peer' = "down"
    /\ UNCHANGED <<conn, cancelled, closer, swept>>

-----------------------------------------------------------------------------
(* close *)

CloseServers ==
    /\ closer = "none"
    /\ closer' = "servers"
    /\ UNCHANGED <<conn, cancelled, swept, peer>>

\* Faulty: the tasks are not cancelled, only awaited.
CancelNothing ==
    /\ closer = "servers"
    /\ WaitForConnections => Attached = {}
    /\ closer' = "tasks"
    /\ swept' = Tasks
    /\ UNCHANGED <<conn, cancelled, peer>>

\* The servers have closed: the tasks of this moment are cancelled.
CancelTasks ==
    /\ closer = "servers"
    /\ WaitForConnections => Attached = {}
    /\ closer' = "tasks"
    /\ swept' = Tasks
    /\ cancelled' = Tasks
    /\ UNCHANGED <<conn, peer>>

\* They have ended, and the peer is closed.
ClosePeer ==
    /\ closer = "tasks"
    /\ swept \cap Tasks = {}
    /\ closer' = "closed" /\ peer' = "down"
    /\ UNCHANGED <<conn, cancelled, swept>>

Step(c) ==
    \/ Ask(c) \/ Open(c) \/ Dial(c) \/ Ended(c) \/ CancelArrives(c)
    \/ BridgeReverse(c) \/ HandlerEnds(c) \/ StreamEnds(c)

Next ==
    \/ \E c \in Conns : Accept(c) \/ AcceptControl(c) \/ RecvOpen(c)
                        \/ Step(c) \/ Ends(c) \/ Served(c)
    \/ PeerEnds \/ CloseServers \/ CancelTasks \/ ClosePeer

\* Every await of a task has a timeout or ends with what it waits for; only the
\* applications of a bridge or of an HTTP connection may stay as long as they like.
\* A connection takes a few steps, so that the fairness of one of them is that of all.
Progress == (\E c \in Conns : Step(c)) \/ CancelTasks \/ ClosePeer

Spec == Init /\ [][Next]_vars /\ WF_vars(Progress)

-----------------------------------------------------------------------------

\* However accepts and reverse streams interleave with their connection attempts,
\* the forwarder never serves more than max_streams of them.
TaskLimit == Cardinality(Tasks) <= MaxStreams

\* Where wait_closed() does not wait for connections (Python before 3.12.1), close()
\* returns, however many are open, and nothing of a closed forwarder runs on: a stream
\* the agent opens while close() waits ends with the mux.  From Python 3.12.1 on close()
\* waits for the sockets of the servers before it cancels their tasks.
CloseFinishes == closer = "servers" ~> (closer = "closed" /\ Tasks = {})

=============================================================================
