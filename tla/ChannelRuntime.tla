---------------------------- MODULE ChannelRuntime ----------------------------
(***************************************************************************)
(* The mstsc plugin (mstsc_plugin.py): the COM callbacks of TunnelPlugin,  *)
(* the thread of _ChannelRuntime that each channel is given with its first *)
(* data, and CallbackTransport (transport.py), the queue between them.     *)
(* Joining the thread is given up after five seconds.  The RDP stack makes *)
(* one callback at a time; the threads of the runtimes run beside it.      *)
(***************************************************************************)
EXTENDS ChannelConstants, Integers, Sequences, Functions

Channels == 1..MaxChannels
NoChannel == 0

VARIABLES
    call,       \* the callback that runs
    opened,     \* channels opened so far
    runtime,    \* self.runtime: the channel it belongs to
    held,       \* self.channel, held by AddRef
    lease,      \* the plugin is primary
    thread,     \* thread[k]: the runtime thread of channel k
    started,    \* started[k]: not set, set by the loop, or by a thread that failed before
    stopping,   \* stopping[k]: close() has been called
    cancelled,  \* the task is to be cancelled
    offered,    \* offered[k]: messages OnDataReceived was called with
    queue,      \* queue[k]: messages in _incoming; 0 is the end marker
    queued,     \* queued[k]: _queued_bytes
    taken,      \* taken[k]: what the reader has got and not yet accounted for
    eof,        \* eof[k]: the transport is closed
    got,        \* got[k]: messages read by the mux
    gone,       \* gone[k]: the channel is closed, by channel.Close() or by the stack
    gaveUp,     \* join or start has timed out for this runtime
    shutdown    \* the COM server is to exit

plugin == <<call, opened, runtime, held, lease, shutdown>>
threads == <<thread, started, stopping, cancelled, gaveUp>>
queues == <<queue, queued, taken, eof>>
vars == <<plugin, threads, queues, offered, got, gone>>

TypeOK ==
    /\ call \in {"none", "closing", "joining", "starting", "feeding"}
            \X {"none", "new", "data", "close", "terminate"}
    /\ opened \in 0..MaxChannels
    /\ runtime \in 0..MaxChannels /\ held \in 0..MaxChannels
    /\ lease \in BOOLEAN /\ shutdown \in BOOLEAN
    /\ thread \in [Channels -> {"new", "booting", "running", "draining", "finishing",
                                "deciding", "disconnecting", "ended"}]
    /\ \A f \in {stopping, cancelled, eof, gone, gaveUp} : f \in [Channels -> BOOLEAN]
    /\ started \in [Channels -> {"no", "yes", "failed"}]
    /\ offered \in [Channels -> Nat]
    /\ queued \in [Channels -> 0..MaxQueue]
    /\ DOMAIN queue = Channels /\ DOMAIN taken = Channels /\ DOMAIN got = Channels
    /\ \A k \in Channels :
        /\ queue[k] \in Seq(0..offered[k]) /\ taken[k] \in -1..offered[k]
        /\ got[k] \in Seq(1..offered[k])

Nothing == -1      \* the reader waits in get
No == [k \in Channels |-> FALSE]

\* Initialize has claimed the lease and created the listener.
Init ==
    /\ call = <<"none", "none">> /\ opened = 0
    /\ runtime = NoChannel /\ held = NoChannel
    /\ lease = TRUE /\ shutdown = FALSE
    /\ thread = [k \in Channels |-> "new"]
    /\ started = [k \in Channels |-> "no"]
    /\ stopping = No /\ cancelled = No /\ gaveUp = No
    /\ offered = [k \in Channels |-> 0]
    /\ queue = [k \in Channels |-> <<>>] /\ queued = [k \in Channels |-> 0]
    /\ taken = [k \in Channels |-> Nothing] /\ eof = No
    /\ got = [k \in Channels |-> <<>>]
    /\ gone = No

Alive(k) == thread[k] \notin {"new", "ended"}
Set(f, k) == [f EXCEPT ![k] = TRUE]
Idle == call[1] = "none"
Return == call' = <<"none", "none">>

-----------------------------------------------------------------------------
(* CallbackTransport *)

\* _close_from_thread: the queue is emptied but for the end marker.
CloseQueue(k) ==
    IF eof[k] THEN UNCHANGED queues
    ELSE /\ eof' = Set(eof, k)
         /\ queue' = [queue EXCEPT ![k] = <<0>>]
         /\ queued' = [queued EXCEPT ![k] = @ - Len(queue[k])]
         /\ UNCHANGED taken

Full(k) == queued[k] >= MaxQueue \/ Len(queue[k]) >= MaxQueue

\* read: the worker thread gets an item, then takes its bytes off under the lock.
Get(k) ==
    /\ thread[k] = "running" /\ taken[k] = Nothing /\ queue[k] # <<>>
    /\ taken' = [taken EXCEPT ![k] = Head(queue[k])]
    /\ queue' = [queue EXCEPT ![k] = Tail(@)]
    /\ UNCHANGED <<plugin, threads, offered, queued, eof, got, gone>>

\* Data goes to the mux; the end of the channel ends it.
Read(k) ==
    /\ thread[k] = "running" /\ taken[k] # Nothing
    /\ taken' = [taken EXCEPT ![k] = Nothing]
    /\ queued' = [queued EXCEPT ![k] = IF taken[k] > 0 /\ @ > 0 THEN @ - 1 ELSE @]
    /\ IF eof[k] \/ taken[k] = 0
       THEN thread' = [thread EXCEPT ![k] = "draining"] /\ UNCHANGED got
       ELSE got' = [got EXCEPT ![k] = Append(@, taken[k])] /\ UNCHANGED thread
    /\ UNCHANGED <<plugin, started, stopping, cancelled, gaveUp, offered, queue, eof, gone>>

-----------------------------------------------------------------------------
(* The thread of a runtime *)

\* asyncio.run starts the loop, or fails.
Boot(k) ==
    /\ thread[k] = "booting"
    /\ \/ /\ thread' = [thread EXCEPT ![k] = "running"]
          /\ started' = [started EXCEPT ![k] = "yes"]
       \/ /\ thread' = [thread EXCEPT ![k] = "finishing"]
          /\ UNCHANGED started
    /\ UNCHANGED <<plugin, stopping, cancelled, gaveUp, queues, offered, got, gone>>

\* The mux fails, or the cancellation arrives: the forwarder is closed.
Stop(k) ==
    /\ thread[k] = "running"
    /\ thread' = [thread EXCEPT ![k] = "draining"]
    /\ UNCHANGED <<plugin, started, stopping, cancelled, gaveUp, queues, offered, got, gone>>

CancelArrives(k) == cancelled[k] /\ Stop(k)

\* forwarder.close() has returned; it has closed the transport.
Drained(k) ==
    /\ thread[k] = "draining"
    /\ thread' = [thread EXCEPT ![k] = "finishing"]
    /\ CloseQueue(k)
    /\ UNCHANGED <<plugin, started, stopping, cancelled, gaveUp, offered, got, gone>>

\* Faulty: the channel of a failed mux is left open.
FinishQuietly(k) ==
    /\ thread[k] = "finishing"
    /\ started' = [started EXCEPT ![k] = IF @ = "no" THEN "failed" ELSE @]
    /\ thread' = [thread EXCEPT ![k] = "ended"]
    /\ UNCHANGED <<plugin, stopping, cancelled, gaveUp, queues, offered, got, gone>>

\* started and closed are set.
Finish(k) ==
    /\ thread[k] = "finishing"
    /\ started' = [started EXCEPT ![k] = IF @ = "no" THEN "failed" ELSE @]
    /\ thread' = [thread EXCEPT ![k] = "deciding"]
    /\ UNCHANGED <<plugin, stopping, cancelled, gaveUp, queues, offered, got, gone>>

\* A channel is closed if close() has not been called on its runtime so far.
Decide(k) ==
    /\ thread[k] = "deciding"
    /\ thread' = [thread EXCEPT ![k] = IF stopping[k] THEN "ended" ELSE "disconnecting"]
    /\ UNCHANGED <<plugin, started, stopping, cancelled, gaveUp, queues, offered, got, gone>>

\* channel.Close() has returned, and the stack delivers no more.
Disconnect(k) ==
    /\ thread[k] = "disconnecting"
    /\ thread' = [thread EXCEPT ![k] = "ended"]
    /\ gone' = Set(gone, k)
    /\ UNCHANGED <<plugin, started, stopping, cancelled, gaveUp, queues, offered, got>>

Closed(k) == thread[k] \in {"deciding", "disconnecting", "ended"}       \* self.closed

\* The thread may write to its channel, or close it.
Uses(k) == thread[k] \in {"running", "draining", "disconnecting"}

-----------------------------------------------------------------------------
(* _close_channel and _ChannelRuntime.close *)

\* stopping, the end marker, and the cancellation of the task, if there is one.
CloseRuntime ==
    /\ call[1] = "closing" /\ runtime # NoChannel
    /\ stopping' = Set(stopping, runtime)
    /\ cancelled' = IF thread[runtime] \in {"running", "draining"}
                    THEN Set(cancelled, runtime) ELSE cancelled
    /\ CloseQueue(runtime)
    /\ call' = <<"joining", call[2]>>
    /\ UNCHANGED <<opened, runtime, held, lease, shutdown, thread, started, gaveUp,
                   offered, got, gone>>

\* The reference to the channel is released, which does not close it: it is closed
\* when that is what the callback was about.
AfterClose ==
    /\ gone' = IF held # NoChannel /\ call[2] \in {"close", "terminate"}
               THEN Set(gone, held) ELSE gone
    /\ \/ /\ call[2] = "new"
          /\ opened' = opened + 1
          /\ held' = opened' /\ runtime' = opened'
          /\ UNCHANGED <<lease, shutdown>>
       \/ /\ call[2] # "new"
          /\ runtime' = NoChannel /\ held' = NoChannel
          /\ lease' = (lease /\ call[2] # "terminate")
          /\ shutdown' = (shutdown \/ (lease /\ call[2] = "terminate"))
          /\ UNCHANGED opened

\* Faulty: the thread is not waited for.
JoinNot ==
    /\ call[1] \in {"joining", "closing"} /\ (call[1] = "closing" => runtime = NoChannel)
    /\ gaveUp' = gaveUp
    /\ Return /\ AfterClose
    /\ UNCHANGED <<thread, started, stopping, cancelled, queues, offered, got>>

\* The thread has ended or five seconds have passed; the channel is released, and
\* the callback goes on.
Join ==
    /\ \/ call[1] = "closing" /\ runtime = NoChannel /\ UNCHANGED gaveUp
       \/ /\ call[1] = "joining"
          /\ gaveUp' = IF Alive(runtime) THEN Set(gaveUp, runtime) ELSE gaveUp
    /\ Return /\ AfterClose
    /\ UNCHANGED <<thread, started, stopping, cancelled, queues, offered, got>>

-----------------------------------------------------------------------------
(* The callbacks *)

Begin(step, name) ==
    /\ call' = <<step, name>>
    /\ UNCHANGED <<opened, runtime, held, lease, shutdown, threads, queues, got, gone>>

OnNewChannelConnection ==
    /\ Idle /\ lease /\ opened < MaxChannels
    /\ Begin("closing", "new") /\ UNCHANGED offered

\* OnClose, Disconnected and Terminated.
OnClose(name) ==
    /\ Idle /\ ~shutdown /\ name \in {"close", "terminate"}
    /\ Begin("closing", name) /\ UNCHANGED offered

\* OnDataReceived: a runtime whose thread is over is torn down, one that has no
\* thread is started.
OnDataReceived ==
    /\ Idle /\ held # NoChannel /\ ~gone[held]
    /\ FoldFunction(+, 0, offered) < MaxData
    /\ offered' = [offered EXCEPT ![held] = @ + 1]
    /\ \/ Closed(runtime) /\ Begin("closing", "data")
       \/ ~Closed(runtime) /\ started[runtime] # "no" /\ Begin("feeding", "data")
       \/ /\ ~Closed(runtime) /\ started[runtime] = "no"
          /\ call' = <<"starting", "data">>
          /\ thread' = [thread EXCEPT ![runtime] = "booting"]
          /\ UNCHANGED <<opened, runtime, held, lease, shutdown, started, stopping,
                         cancelled, gaveUp, queues, got, gone>>

\* start() returns; its failure, or five seconds without an answer, closes the channel.
StartReturns ==
    /\ call[1] = "starting"
    /\ IF started[runtime] = "yes" THEN Begin("feeding", "data") ELSE Begin("closing", "data")
    /\ UNCHANGED offered

\* Faulty: a message the queue has no room for is dropped.
FeedOrDrop ==
    /\ call[1] = "feeding"
    /\ Return
    /\ IF Closed(runtime) \/ eof[runtime] \/ Full(runtime) THEN UNCHANGED <<queue, queued>>
       ELSE /\ queue' = [queue EXCEPT ![runtime] = Append(@, offered[runtime])]
            /\ queued' = [queued EXCEPT ![runtime] = @ + 1]
    /\ UNCHANGED <<opened, runtime, held, lease, shutdown, threads, taken, eof,
                   offered, got, gone>>

\* feed: a closed transport takes nothing, a full one closes the channel.
Feed ==
    /\ call[1] = "feeding"
    /\ IF ~Closed(runtime) /\ ~eof[runtime] /\ Full(runtime)
       THEN call' = <<"closing", "data">> /\ UNCHANGED <<queue, queued>>
       ELSE /\ Return
            /\ IF Closed(runtime) \/ eof[runtime] THEN UNCHANGED <<queue, queued>>
               ELSE /\ queue' = [queue EXCEPT ![runtime] = Append(@, offered[runtime])]
                    /\ queued' = [queued EXCEPT ![runtime] = @ + 1]
    /\ UNCHANGED <<opened, runtime, held, lease, shutdown, threads, taken, eof,
                   offered, got, gone>>

Callback == CloseRuntime \/ Join \/ StartReturns \/ Feed

Thread(k) ==
    \/ Get(k) \/ Read(k) \/ Boot(k) \/ CancelArrives(k) \/ Drained(k)
    \/ Finish(k) \/ Decide(k) \/ Disconnect(k)

Next ==
    \/ OnNewChannelConnection \/ OnDataReceived
    \/ \E name \in {"close", "terminate"} : OnClose(name)
    \/ Callback
    \/ \E k \in Channels : Thread(k) \/ Stop(k)

Spec == Init /\ [][Next]_vars /\ WF_vars(Callback) /\ \A k \in Channels : WF_vars(Thread(k))

-----------------------------------------------------------------------------

\* What the mux reads on a channel is what the stack delivered, from the first
\* message on and without a gap: a message that the queue refuses is followed by
\* no other.
NoGap == \A k \in Channels : \A i \in 1..Len(got[k]) : got[k][i] = i

\* _queued_bytes counts what is in the queue or on its way to the mux, even when
\* the queue is closed between get and the lock, and keeps to its limit.  A closed
\* queue holds nothing but the end marker.
CountExact == \A k \in Channels :
    /\ queued[k] = (IF eof[k] THEN 0 ELSE Len(queue[k])) + (IF taken[k] > 0 THEN 1 ELSE 0)
    /\ eof[k] => queue[k] \in {<<0>>, <<>>}
    /\ Len(queue[k]) <= MaxQueue

\* The queue between the callbacks and the thread loses nothing and counts what it holds.
QueueKept == NoGap /\ CountExact

\* The channel is released only when its runtime can no longer write to it or
\* close it, unless the wait for the thread has been given up.
NoUseAfterRelease == \A k \in Channels : Uses(k) /\ ~gaveUp[k] => held = k

\* A callback has let go of the channel, and kept its runtime from closing it.
LetGo(k) == stopping[k] /\ held # k

\* A runtime that is over, by itself or because the stack ends its channel, has its
\* channel closed.  The exception is a channel that a callback lets go of before its
\* thread decides: OnDataReceived, when start() fails, the queue is full or the thread
\* has just come to its end, and OnNewChannelConnection.  They only release it, and it
\* stays open until the agent, whose timeouts are not modelled here, closes its end.
FailureCloses == \A k \in Channels :
    thread[k] \in {"finishing", "deciding", "ended"} ~> gone[k] \/ LetGo(k)

=============================================================================
