----------------------------- MODULE PeerShutdown -----------------------------
(***************************************************************************)
(* One session of the agent program: a MuxPeer on a freshly opened channel *)
(* (agent.py, _run), from peer.start() to the return of forwarder.close(), *)
(* after which the program opens the next channel.                         *)
(*                                                                         *)
(* The peer ends in MuxPeer._shutdown, which its runner task executes in   *)
(* five stages.  Each may suspend the runner, and at every suspension the  *)
(* other tasks run: timers, handlers, the coroutines that use the peer,    *)
(* and the program's main task, whose close() cancels the runner wherever  *)
(* it stands.                                                              *)
(***************************************************************************)
EXTENDS PeerConstants, Integers

\* The stages of _shutdown by what they wait for: the handshake task, the
\* heartbeat task, the handlers, the listeners, the closing of the channel.
StopRetransmit == 1
StopHeartbeat == 2
StopHandlers == 3
StopListeners == 4
CloseTransport == 5
Finished == 6

VARIABLES
    main,       \* where the program's main task stands
    runner,     \* the task of MuxPeer._run
    stage,      \* how far _shutdown has come; 0 before it
    cancel,     \* close() has cancelled the runner, which has not yet resumed
    ready,      \* _ready is set
    retransmit, \* the task of _handshake_loop; "late" when start() creates it after
                \* _shutdown has looked for it, so that nobody cancels it
    heartbeat,  \* the task of _heartbeat_loop
    handler,    \* handler[h]: a task of _handler_tasks
    listener,   \* the reverse listener, in _active_listeners while active
    user,       \* user[u]: where the coroutine stands
    channel     \* open until transport.close() has run, or the RDP stack ended it

vars == <<main, runner, stage, cancel, ready, retransmit, heartbeat, handler,
          listener, user, channel>>
tasks == <<retransmit, heartbeat, handler>>
clients == <<listener, user>>

TypeOK ==
    /\ main \in {"starting", "waiting", "failing", "up", "closing", "sweeping",
                 "joining", "left"}
    /\ runner \in {"created", "reading", "shutdown", "ended", "aborted"}
    /\ stage \in 0..Finished
    /\ cancel \in BOOLEAN
    /\ ready \in BOOLEAN
    /\ retransmit \in {"none", "running", "late", "cancelled", "ended"}
    /\ heartbeat \in {"running", "cancelled", "ended"}
    /\ handler \in [Handlers -> {"none", "running", "cancelled", "ended"}]
    /\ listener \in {"none", "active", "closing", "closed"}
    /\ user \in [Users -> {"idle", "opening", "using", "ending", "done"}]
    /\ channel \in {"open", "closed"}

\* start() has created the runner and the heartbeat and is writing HELLO.
Init ==
    /\ main = "starting"
    /\ runner = "created"
    /\ stage = 0
    /\ cancel = FALSE
    /\ ready = FALSE
    /\ retransmit = "none"
    /\ heartbeat = "running"
    /\ handler = [h \in Handlers |-> "none"]
    /\ listener = "none"
    /\ user = [u \in Users |-> "idle"]
    /\ channel = "open"

Closing == stage > 0                \* self._closing
Closed == runner = "ended"          \* self._closed
Alive(task) == task \in {"running", "cancelled"}
Cancelled(task) == IF task = "running" THEN "cancelled" ELSE task

-----------------------------------------------------------------------------
(* _shutdown *)

\* Does the runner suspend in stage i?  The gathers of no tasks do not.
Suspends(i) ==
    \/ i = StopRetransmit /\ retransmit # "none"
    \/ i = StopHeartbeat
    \/ i = StopHandlers   /\ \E h \in Handlers : Alive(handler[h])
    \/ i = StopListeners  /\ listener = "active"
    \/ i = CloseTransport /\ channel = "open"

\* What stage i waits for is over.
StageDone(i) ==
    /\ i = StopRetransmit => ~Alive(retransmit)
    /\ i = StopHeartbeat  => ~Alive(heartbeat)
    /\ i = StopHandlers   => \A h \in Handlers : ~Alive(handler[h])
    /\ i = StopListeners /\ WaitForConnections =>
            \A u \in Accepted : user[u] \in {"idle", "done"}

\* Faulty: a failed user is in a state of its own that nothing knows of.
DisconnectToFailed(state, first, last) ==
    IF state = "using" /\ StopListeners \in first..last THEN "ending"
    ELSE IF state = "opening" /\ CloseTransport \in first..last THEN "failed"
    ELSE state

\* Faulty: the pending opens fail before the listeners are waited for.
DisconnectEarly(state, first, last) ==
    IF StopListeners \notin first..last THEN state
    ELSE CASE state = "using"   -> "ending"
           [] state = "opening" -> "done"
           [] OTHER             -> state

\* The effect of stages first..last on the coroutines that use the peer: before
\* the listeners all streams are closed, behind them the pending opens fail.
Disconnect(state, first, last) ==
    IF state = "using" /\ StopListeners \in first..last THEN "ending"
    ELSE IF state = "opening" /\ CloseTransport \in first..last THEN "done"
    ELSE state

\* The runner goes through _shutdown from stage first to the next one that
\* suspends it, or to the end.
ShutdownFrom(first) ==
    \E last \in first..Finished :
        /\ \A i \in first..(last - 1) : ~Suspends(i)
        /\ last # Finished => Suspends(last)
        /\ stage' = last
        /\ runner' = IF last = Finished THEN "ended" ELSE "shutdown"
        /\ retransmit' = IF StopRetransmit \in first..last
                         THEN Cancelled(retransmit) ELSE retransmit
        /\ heartbeat' = IF StopHeartbeat \in first..last
                        THEN Cancelled(heartbeat) ELSE heartbeat
        /\ handler' = IF StopHandlers \in first..last
                      THEN [h \in Handlers |-> Cancelled(handler[h])] ELSE handler
        /\ listener' = IF last = StopListeners THEN "closing"
                       ELSE IF listener = "closing" THEN "closed" ELSE listener
        /\ user' = [u \in Users |-> Disconnect(user[u], first, last)]
        /\ channel' = IF CloseTransport \in first..last THEN "closed" ELSE channel

ResumeShutdown ==
    /\ runner = "shutdown" /\ ~cancel
    /\ StageDone(stage)
    /\ ShutdownFrom(stage + 1)
    /\ UNCHANGED <<main, cancel, ready>>

-----------------------------------------------------------------------------
(* The runner *)

RunnerBegins ==
    /\ runner = "created" /\ ~cancel
    /\ runner' = "reading"
    /\ UNCHANGED <<main, stage, cancel, ready, tasks, clients, channel>>

\* read() returns the end of the channel, or it, the decoder or _dispatch raises.
\* On a channel that is closed it must; on an open one it may.
RunnerStops ==
    /\ runner = "reading" /\ ~cancel
    /\ ShutdownFrom(StopRetransmit)
    /\ UNCHANGED <<main, cancel, ready>>

\* Faulty: _run shuts down at the end of the channel and on errors only.
CancelEndsRunner ==
    /\ cancel
    /\ cancel' = FALSE
    /\ runner' = "aborted"
    /\ UNCHANGED <<main, stage, ready, tasks, clients, channel>>

\* The CancelledError of close() reaches the runner: a task that never ran ends
\* at once, a reading one shuts down, one inside _shutdown leaves it there.
CancelDelivered ==
    /\ cancel
    /\ cancel' = FALSE
    /\ \/ /\ runner = "reading"
          /\ ShutdownFrom(StopRetransmit)
       \/ /\ runner \in {"created", "shutdown"}
          /\ runner' = "aborted"
          /\ UNCHANGED <<stage, tasks, clients, channel>>
    /\ UNCHANGED <<main, ready>>

BecomeReady ==
    /\ runner = "reading" /\ ~ready
    /\ ready' = TRUE
    /\ UNCHANGED <<main, runner, stage, cancel, tasks, clients, channel>>

\* An OPEN or a LISTEN is dispatched.
SpawnHandler(h) ==
    /\ runner = "reading" /\ ready /\ handler[h] = "none"
    /\ handler' = [handler EXCEPT ![h] = "running"]
    /\ UNCHANGED <<main, runner, stage, cancel, ready, retransmit, heartbeat, clients,
                   channel>>

\* The agent's OPEN for a reverse connection is accepted.
OpenAnswered(u) ==
    /\ runner = "reading" /\ user[u] = "opening"
    /\ user' = [user EXCEPT ![u] = "using"]
    /\ UNCHANGED <<main, runner, stage, cancel, ready, tasks, listener, channel>>

\* The RDP stack ends the channel.
ChannelEnds ==
    /\ channel = "open"
    /\ channel' = "closed"
    /\ UNCHANGED <<main, runner, stage, cancel, ready, tasks, clients>>
-----------------------------------------------------------------------------
(* Timers and handlers *)

\* The loop ends when it finds _ready or _closed set, a write fails, or it is
\* cancelled.
RetransmitEnds ==
    /\ \/ retransmit \in {"running", "late"} /\ (ready \/ Closed \/ channel = "closed")
       \/ retransmit = "cancelled"
    /\ retransmit' = "ended"
    /\ UNCHANGED <<main, runner, stage, cancel, ready, heartbeat, handler, clients,
                   channel>>

HeartbeatEnds ==
    /\ heartbeat = "cancelled"
    /\ heartbeat' = "ended"
    /\ UNCHANGED <<main, runner, stage, cancel, ready, retransmit, handler, clients,
                   channel>>

\* The other side has been silent for too long, or a PING could not be written.
HeartbeatGivesUp ==
    /\ heartbeat = "running" /\ ready /\ ~Closed
    /\ heartbeat' = "ended"
    /\ channel' = "closed"
    /\ UNCHANGED <<main, runner, stage, cancel, ready, retransmit, handler, clients>>

EndOf(h) == handler' = [handler EXCEPT ![h] = "ended"]

\* A cancelled handler ends; the CLOSE of its request cancels it too.
HandlerCancelled(h) ==
    /\ \/ handler[h] = "cancelled"
       \/ handler[h] = "running" /\ runner = "reading"
    /\ EndOf(h)
    /\ UNCHANGED <<main, runner, stage, cancel, ready, retransmit, heartbeat, clients,
                   channel>>

\* _finish_listen: the listener is there before its LISTEN_RESULT is sent.
HandlerListens(h) ==
    /\ handler[h] = "running" /\ listener = "none"
    /\ EndOf(h)
    /\ listener' = "active"
    /\ UNCHANGED <<main, runner, stage, cancel, ready, retransmit, heartbeat, user,
                   channel>>

\* _finish_open: the open handler has spawned a bridge for the new stream.
HandlerBridges(h) ==
    /\ handler[h] = "running"
    /\ EndOf(h)
    /\ \E u \in Users \ Accepted :
        /\ user[u] = "idle"
        /\ user' = [user EXCEPT ![u] = "using"]
    /\ UNCHANGED <<main, runner, stage, cancel, ready, retransmit, heartbeat, listener,
                   channel>>

\* The result could not be sent: done() closes the transport.
HandlerFails(h) ==
    /\ handler[h] = "running"
    /\ EndOf(h)
    /\ channel' = IF Closing THEN channel ELSE "closed"
    /\ UNCHANGED <<main, runner, stage, cancel, ready, retransmit, heartbeat, clients>>

-----------------------------------------------------------------------------
(* Coroutines that use the peer *)

\* open_stream.  wait_ready returns at once when _ready is set, whatever else is;
\* then writing OPEN fails on a closed peer or transport.
UserOpens(u) ==
    /\ user[u] = "idle"
    /\ main \in {"starting", "waiting", "failing", "up"}
    /\ ready
    /\ u \in Accepted => listener = "active"
    /\ user' = [user EXCEPT ![u] = IF Closed \/ channel = "closed" THEN "done"
                                   ELSE "opening"]
    /\ UNCHANGED <<main, runner, stage, cancel, ready, tasks, listener, channel>>

\* Faulty: the timeout of an open ends with the peer.
OpenTimesOutOnLivePeer(u) ==
    /\ user[u] = "opening" /\ ~Closing
    /\ user' = [user EXCEPT ![u] = "done"]
    /\ UNCHANGED <<main, runner, stage, cancel, ready, tasks, listener, channel>>

OpenTimesOut(u) ==
    /\ user[u] = "opening"
    /\ user' = [user EXCEPT ![u] = "done"]
    /\ UNCHANGED <<main, runner, stage, cancel, ready, tasks, listener, channel>>

\* The bridge has found its stream closed, or was cancelled, and is cleaning up;
\* or the connection just ends.
UserEnds(u) ==
    /\ user[u] \in {"using", "ending"}
    /\ user' = [user EXCEPT ![u] = "done"]
    /\ UNCHANGED <<main, runner, stage, cancel, ready, tasks, listener, channel>>

-----------------------------------------------------------------------------
(* The main task *)

InUse(u) == user[u] \in {"opening", "using", "ending"}

\* peer.close(), and with it the session unless the runner has to be awaited.
ClosePeer ==
    /\ main' = IF Closed THEN "left" ELSE "joining"
    /\ cancel' = ~Closed

\* forwarder.close() from where it cancels its tasks.
CancelTasks ==
    /\ user' = [u \in Users |-> IF InUse(u) THEN "ending" ELSE user[u]]
    /\ IF \E u \in Users : InUse(u)
       THEN main' = "sweeping" /\ UNCHANGED cancel
       ELSE ClosePeer

\* forwarder.close(), which first closes the listeners it still has and waits.
CloseForwarder ==
    /\ IF listener = "active"
       THEN main' = "closing" /\ UNCHANGED <<cancel, user>>
       ELSE CancelTasks
    /\ UNCHANGED <<runner, stage, ready, heartbeat, handler, listener, channel>>

\* start() has written HELLO and creates the loop that repeats it, on a peer that is
\* shutting down or closed as well; then wait_ready returns, raises, or waits.
HelloSent ==
    /\ main = "starting" /\ runner # "created"
    /\ retransmit' = IF Closing THEN "late" ELSE "running"
    /\ IF Closing /\ ~ready
       THEN CloseForwarder
       ELSE /\ main' = IF ready THEN "up" ELSE "waiting"
            /\ UNCHANGED <<runner, stage, cancel, ready, heartbeat, handler, clients,
                           channel>>

\* HELLO could not be written.
HelloFails ==
    /\ main = "starting"
    /\ runner = "created" => channel = "closed"
    /\ CloseForwarder
    /\ UNCHANGED retransmit

\* One of the two events wait_ready waits for, or the handshake takes too long: a
\* wait that failed still awaits its two helper tasks before it raises.
WaitReady ==
    /\ main = "waiting"
    /\ \/ ready /\ main' = "up"
       \/ ~ready /\ Closed /\ main' = "failing"
    /\ UNCHANGED <<runner, stage, cancel, ready, tasks, clients, channel>>

StartTimeout ==
    /\ main = "waiting" /\ ~ready /\ ~Closed
    /\ main' = "failing"
    /\ UNCHANGED <<runner, stage, cancel, ready, tasks, clients, channel>>

StartFails ==
    /\ main = "failing"
    /\ CloseForwarder
    /\ UNCHANGED retransmit

WaitClosed ==
    /\ main = "up" /\ Closed
    /\ CloseForwarder
    /\ UNCHANGED retransmit

ListenersClosed ==
    /\ main = "closing"
    /\ StageDone(StopListeners)
    /\ CancelTasks
    /\ UNCHANGED <<runner, stage, ready, tasks, listener, channel>>

TasksEnded ==
    /\ main = "sweeping"
    /\ \A u \in Users : user[u] # "ending"
    /\ ClosePeer
    /\ UNCHANGED <<runner, stage, ready, tasks, clients, channel>>

Join ==
    /\ main = "joining" /\ runner \in {"ended", "aborted"}
    /\ main' = "left"
    /\ UNCHANGED <<runner, stage, cancel, ready, tasks, clients, channel>>

-----------------------------------------------------------------------------
HandlerStep(h) ==
    HandlerCancelled(h) \/ HandlerListens(h) \/ HandlerBridges(h) \/ HandlerFails(h)

UserStep(u) == UserOpens(u) \/ OpenTimesOut(u) \/ UserEnds(u)

MainStep ==
    \/ HelloSent \/ HelloFails \/ WaitReady \/ StartTimeout \/ StartFails
    \/ WaitClosed \/ ListenersClosed \/ TasksEnded \/ Join

RunnerStep ==
    \/ RunnerBegins \/ RunnerStops \/ CancelDelivered \/ ResumeShutdown \/ BecomeReady
    \/ \E h \in Handlers : SpawnHandler(h)
    \/ \E u \in Users : OpenAnswered(u)

Next ==
    \/ MainStep
    \/ RunnerStep
    \/ RetransmitEnds \/ HeartbeatEnds \/ HeartbeatGivesUp
    \/ \E h \in Handlers : HandlerStep(h)
    \/ \E u \in Users : UserStep(u)
    \/ ChannelEnds

\* Tasks whose wait is over resume, timers fire, cancelled tasks end, and a read
\* on a closed channel returns.  The channel need not end, nor connections.
Fairness ==
    /\ WF_vars(MainStep)
    /\ WF_vars(RunnerBegins)
    /\ WF_vars(channel = "closed" /\ RunnerStops)
    /\ WF_vars(CancelDelivered)
    /\ WF_vars(ResumeShutdown)
    /\ WF_vars(RetransmitEnds)
    /\ WF_vars(HeartbeatEnds)
    /\ \A h \in Handlers : WF_vars(handler[h] = "cancelled" /\ HandlerCancelled(h))
    /\ \A u \in Users : WF_vars(OpenTimesOut(u))
    /\ \A u \in Users : WF_vars(user[u] = "ending" /\ UserEnds(u))

Spec == Init /\ [][Next]_vars /\ Fairness

-----------------------------------------------------------------------------
(* Properties *)

\* When _closed is set, which is what everybody else goes by, nothing of the peer
\* acts on the channel any more: the heartbeat, the retransmission of HELLO and the
\* handlers have ended, no listener accepts, nobody waits for an answer or uses a
\* stream that still looks open, and the channel is closed.  The stages of _shutdown
\* have to come in the order they do: each stops something a later one relies on.
\* What may still run is the loop that start() creates behind the back of _shutdown,
\* which ends when it next looks at _closed, and the clean-up of users.
ClosedMeansQuiet ==
    Closed =>
        /\ heartbeat = "ended"
        /\ retransmit \in {"none", "late", "ended"}
        /\ \A h \in Handlers : ~Alive(handler[h])
        /\ listener # "active"
        /\ \A u \in Users : user[u] \notin {"opening", "using"}
        /\ channel = "closed"

\* The session does not leave an open channel behind, unless close() met a runner
\* that was inside _shutdown already.
ChannelClosedUnlessAborted ==
    main = "left" => channel = "closed" \/ (Closing /\ ~Closed)

\* "A fatal mux or callback error closes the current virtual channel and reconnects
\* on a fresh channel" (README.md:613): when the program goes on to the next
\* channel, this one is closed.
ChannelClosedBeforeNext == main = "left" => channel = "closed"

\* An ended channel or a peer that has begun to shut down leads to the next
\* attempt to attach: nothing _shutdown and forwarder.close() wait for waits, in a
\* circle, for them.
SessionEnds == (channel = "closed" \/ Closing) ~> main = "left"
=============================================================================
