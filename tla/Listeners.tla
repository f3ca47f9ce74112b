------------------------------ MODULE Listeners ------------------------------
(***************************************************************************)
(* Reverse listeners: request_listener at the client, LISTEN, LISTEN_RESULT*)
(* and CLOSE in the agent's MuxPeer, and the tables and servers of         *)
(* AgentForwarder.  A request may be closed, because the client has given  *)
(* up waiting, at any moment of its handling.                              *)
(***************************************************************************)
EXTENDS ForwardingConstants, Integers, Sequences, FiniteSets

VARIABLES
    asked,      \* asked[r]: the call of request_listener
    toAgent,    \* frames on their way to the agent
    toClient,   \* results on their way to the client
    task,       \* task[r]: the agent's _finish_listen task, in _inbound_requests
    doomed,     \* tasks that a CLOSE has cancelled and that have not resumed
    active,     \* _active_listeners
    closing,    \* requests whose _cancel_listener task has been spawned
    listeners,  \* AgentForwarder.listeners and listeners_by_request
    bound,      \* servers that listen
    stray       \* those that a cancelled start_server has left to nobody

listenerVars == <<asked, toAgent, toClient, task, doomed, active, closing, listeners, bound, stray>>
client == <<asked, toAgent>>
servers == <<bound, stray>>
tables == <<active, closing, listeners>>

ListenersTypeOK ==
    /\ asked \in [Requests -> {"none", "waiting", "granted", "failed"}]
    /\ toAgent \in Seq({"LISTEN", "CLOSE"} \X Requests)
    /\ toClient \in Seq(BOOLEAN \X Requests)
    /\ task \in [Requests -> {"none", "created", "starting", "bound", "granting",
                              "refusing", "over"}]
    /\ doomed \subseteq Requests /\ active \subseteq Requests /\ closing \subseteq Requests
    /\ listeners \subseteq Requests /\ bound \subseteq Requests /\ stray \subseteq Requests

ListenersInit ==
    /\ asked = [r \in Requests |-> "none"]
    /\ toAgent = <<>> /\ toClient = <<>>
    /\ task = [r \in Requests |-> "none"]
    /\ doomed = {} /\ active = {} /\ closing = {}
    /\ listeners = {} /\ bound = {} /\ stray = {}

-----------------------------------------------------------------------------
(* The client *)

RequestListener(r) ==
    /\ asked[r] = "none"
    /\ asked' = [asked EXCEPT ![r] = "waiting"]
    /\ toAgent' = Append(toAgent, <<"LISTEN", r>>)
    /\ UNCHANGED <<toClient, task, doomed, tables, servers>>

\* The wait for the result times out, or its task is cancelled.
GiveUp(r) ==
    /\ asked[r] = "waiting"
    /\ asked' = [asked EXCEPT ![r] = "failed"]
    /\ toAgent' = Append(toAgent, <<"CLOSE", r>>)
    /\ UNCHANGED <<toClient, task, doomed, tables, servers>>

\* LISTEN_RESULT; one that comes too late is dropped.
RecvResult ==
    /\ toClient # <<>>
    /\ toClient' = Tail(toClient)
    /\ LET ok == Head(toClient)[1]
           r == Head(toClient)[2]
       IN asked' = [asked EXCEPT ![r] =
            IF @ # "waiting" THEN @ ELSE IF ok THEN "granted" ELSE "failed"]
    /\ UNCHANGED <<toAgent, task, doomed, tables, servers>>

-----------------------------------------------------------------------------
(* The agent's runner *)

Inbound == {r \in Requests : task[r] \notin {"none", "over"}}

RecvListen ==
    /\ toAgent # <<>> /\ Head(toAgent)[1] = "LISTEN"
    /\ toAgent' = Tail(toAgent)
    /\ LET r == Head(toAgent)[2] IN
       IF Cardinality(active) + Cardinality(Inbound) >= MaxListeners
       THEN /\ toClient' = Append(toClient, <<FALSE, r>>) /\ UNCHANGED task
       ELSE /\ task' = [task EXCEPT ![r] = "created"] /\ UNCHANGED toClient
    /\ UNCHANGED <<asked, doomed, tables, servers>>

\* Faulty: a request that is being handled is only cancelled.
RecvCloseEither ==
    /\ toAgent # <<>> /\ Head(toAgent)[1] = "CLOSE"
    /\ toAgent' = Tail(toAgent)
    /\ LET r == Head(toAgent)[2] IN
       IF r \in Inbound
       THEN /\ doomed' = doomed \cup {r} /\ UNCHANGED <<active, closing>>
       ELSE /\ active' = active \ {r} /\ closing' = closing \cup ({r} \cap active)
            /\ UNCHANGED doomed
    /\ UNCHANGED <<asked, toClient, task, listeners, servers>>

\* _handle_close cancels the task of the request, if it has one, and closes the
\* listener, if it is active.
RecvClose ==
    /\ toAgent # <<>> /\ Head(toAgent)[1] = "CLOSE"
    /\ toAgent' = Tail(toAgent)
    /\ LET r == Head(toAgent)[2] IN
       /\ doomed' = doomed \cup ({r} \cap Inbound)
       /\ active' = active \ {r}
       /\ closing' = closing \cup ({r} \cap active)
    /\ UNCHANGED <<asked, toClient, task, listeners, servers>>

-----------------------------------------------------------------------------
(* _finish_listen and _on_listen *)

\* The limit is looked at again, and the endpoint is validated.
Start(r) ==
    /\ task[r] = "created" /\ r \notin doomed
    /\ task' = [task EXCEPT ![r] = IF Cardinality(active) >= MaxListeners THEN "refusing" ELSE "starting"]
    /\ UNCHANGED <<client, toClient, doomed, tables, servers>>

StartFails(r) ==
    /\ task[r] \in {"created", "starting"} /\ r \notin doomed
    /\ task' = [task EXCEPT ![r] = "refusing"]
    /\ UNCHANGED <<client, toClient, doomed, tables, servers>>

\* start_server binds, and yields once before it returns the server.
Bind(r) ==
    /\ task[r] = "starting" /\ r \notin doomed
    /\ task' = [task EXCEPT ![r] = "bound"]
    /\ bound' = bound \cup {r}
    /\ UNCHANGED <<client, toClient, doomed, tables, stray>>

\* The server enters the tables of the forwarder and of the peer.
Register(r) ==
    /\ task[r] = "bound" /\ r \notin doomed
    /\ task' = [task EXCEPT ![r] = "granting"]
    /\ listeners' = listeners \cup {r}
    /\ active' = active \cup {r}
    /\ UNCHANGED <<client, toClient, doomed, closing, servers>>

\* The result is sent.
Answer(r) ==
    /\ task[r] \in {"granting", "refusing"} /\ r \notin doomed
    /\ task' = [task EXCEPT ![r] = "over"]
    /\ toClient' = Append(toClient, <<task[r] = "granting", r>>)
    /\ UNCHANGED <<client, doomed, tables, servers>>

\* CancelledError.  What start_server has bound it does not close, and a result
\* that is being written may have gone out.
Cancelled(r) ==
    /\ r \in doomed
    /\ doomed' = doomed \ {r}
    /\ task' = [task EXCEPT ![r] = "over"]
    /\ stray' = IF task[r] = "bound" THEN stray \cup {r} ELSE stray
    /\ \/ UNCHANGED toClient
       \/ /\ task[r] \in {"granting", "refusing"}
          /\ toClient' = Append(toClient, <<task[r] = "granting", r>>)
    /\ UNCHANGED <<client, tables, bound>>

\* Faulty: the server is only taken from the tables.
CancelListenerTables(r) ==
    /\ r \in closing
    /\ closing' = closing \ {r}
    /\ listeners' = listeners \ {r}
    /\ UNCHANGED <<client, toClient, task, doomed, active, servers>>

\* _cancel_listener
CancelListener(r) ==
    /\ r \in closing
    /\ closing' = closing \ {r}
    /\ listeners' = listeners \ {r}
    /\ bound' = bound \ ({r} \cap listeners)
    /\ UNCHANGED <<client, toClient, task, doomed, active, stray>>

Task(r) ==
    \/ Start(r) \/ StartFails(r) \/ Bind(r) \/ Register(r) \/ Answer(r)
    \/ Cancelled(r) \/ CancelListener(r)

ListenersNext ==
    \/ \E r \in Requests : RequestListener(r) \/ GiveUp(r) \/ Task(r)
    \/ RecvResult \/ RecvListen \/ RecvClose

\* The loops run and frames arrive.  A request takes a few steps, so that the
\* fairness of one of them is that of all.
ListenersProgress == (\E r \in Requests : Task(r)) \/ RecvResult \/ RecvListen \/ RecvClose

ListenersSpec ==
    ListenersInit /\ [][ListenersNext]_listenerVars /\ WF_listenerVars(ListenersProgress)

-----------------------------------------------------------------------------

\* The limit is looked at before the server is started and the listener counted
\* after: never are more active than the peer allows.
ListenerLimit == Cardinality(active) <= MaxListeners

\* The peer's listeners, the forwarder's and the servers are the same, but for
\* those that are being started or closed, and for the ones start_server left.
TablesAgree ==
    /\ listeners = active \cup closing
    /\ bound = listeners \cup stray \cup {r \in Requests : task[r] = "bound"}

\* A request the client has given up ends without a listener, wherever the CLOSE
\* has met it.
GivenUpIsClosed ==
    (\E r \in Requests : asked[r] = "failed") ~>
        \A r \in Requests : asked[r] = "failed" => r \notin bound \ stray

\* When nothing is left to be done, the client believes in the listeners there are.
ClientKnows ==
    toAgent = <<>> /\ toClient = <<>> /\ Inbound = {} /\ closing = {} =>
        listeners = {r \in Requests : asked[r] = "granted"}

\* The limit holds, the tables agree with each other and in the end with the client.
ListenersAgree == ListenerLimit /\ TablesAgree /\ ClientKnows

=============================================================================
