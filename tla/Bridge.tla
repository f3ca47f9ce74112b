-------------------------------- MODULE Bridge --------------------------------
(***************************************************************************)
(* One forwarded connection from end to end: an application's socket at    *)
(* either side, bridge_socket (forwarding.py) at either side, and between  *)
(* them one stream of the mux, reduced to what MuxStreams shows of it:     *)
(* frames arrive in order and a CLOSE after a HALF_CLOSE keeps the data.   *)
(*                                                                         *)
(* Bytes are counted, not named: a pump moves one at a time.  Credit       *)
(* returns as soon as the reading bridge takes a byte.                     *)
(***************************************************************************)
EXTENDS ForwardingConstants, Integers, Sequences

Other(s) == IF s = "client" THEN "agent" ELSE "client"

VARIABLES
    wrote,      \* wrote[s]: bytes the application at s has written to its socket
    end,        \* end[s]: "open", "eof" once it has shut down writing, "reset" once it is gone
    given,      \* given[s]: bytes written to the socket of the application at s
    fin,        \* fin[s]: how bridge s ended the socket: "none", "eof", "closed"
    up,         \* up[s]: the task of socket_to_mux
    down,       \* down[s]: the task of mux_to_socket
    bridge,     \* bridge[s]: where bridge_socket stands
    aborted,    \* aborted[s]: abort_reason is not empty
    stream,     \* stream[s]: the MuxStream at s
    sent,       \* sent[s]: DATA frames sent by s
    wire,       \* wire[s]: frames from s on their way
    tunnel,     \* the mux is up
    faults      \* how many have happened

bridgeVars == <<wrote, end, given, fin, up, down, bridge, aborted, stream, sent, wire, tunnel, faults>>
apps == <<wrote, end>>
tasks == <<bridge, aborted>>

BridgeTypeOK ==
    /\ wrote \in [Sides -> Nat] /\ given \in [Sides -> Nat]
    /\ sent \in [Sides -> Nat]
    /\ end \in [Sides -> {"open", "eof", "reset"}]
    /\ fin \in [Sides -> {"none", "eof", "closed"}]
    /\ up \in [Sides -> {"read", "write", "eof", "done", "failed", "cancelled"}]
    /\ down \in [Sides -> {"read", "drain", "done", "failed", "cancelled"}]
    /\ bridge \in [Sides -> {"running", "unwinding", "closing", "released", "done", "cut"}]
    /\ aborted \in [Sides -> BOOLEAN]
    /\ stream \in [Sides -> [buffer : 0..Window, localEof : BOOLEAN, remoteEof : BOOLEAN,
                             closed : BOOLEAN, reset : BOOLEAN]]
    /\ wire \in [Sides -> Seq({"DATA", "HALF_CLOSE", "CLOSE"})]
    /\ tunnel \in BOOLEAN
    /\ faults \in 0..MaxFaults

BridgeInit ==
    /\ wrote = [s \in Sides |-> 0] /\ end = [s \in Sides |-> "open"]
    /\ given = [s \in Sides |-> 0] /\ fin = [s \in Sides |-> "none"]
    /\ up = [s \in Sides |-> "read"] /\ down = [s \in Sides |-> "read"]
    /\ bridge = [s \in Sides |-> "running"]
    /\ aborted = [s \in Sides |-> FALSE]
    /\ stream = [s \in Sides |-> [buffer |-> 0, localEof |-> FALSE, remoteEof |-> FALSE,
                                  closed |-> FALSE, reset |-> FALSE]]
    /\ sent = [s \in Sides |-> 0] /\ wire = [s \in Sides |-> <<>>]
    /\ tunnel = TRUE
    /\ faults = 0

-----------------------------------------------------------------------------
\* One of the MaxFaults faults happens.
Fault == faults < MaxFaults /\ faults' = faults + 1

(* The applications.  A connection that is lost is lost in both directions. *)

AppWrites(s) ==
    /\ end[s] = "open" /\ wrote[s] < MaxBytes[s]
    /\ wrote' = [wrote EXCEPT ![s] = @ + 1]
    /\ UNCHANGED <<end, given, fin, up, down, tasks, stream, sent, wire, tunnel, faults>>

AppEnds(s) ==
    /\ end[s] = "open"
    /\ end' = [end EXCEPT ![s] = "eof"]
    /\ UNCHANGED <<wrote, given, fin, up, down, tasks, stream, sent, wire, tunnel, faults>>

AppDies(s) ==
    /\ end[s] # "reset" /\ Fault
    /\ end' = [end EXCEPT ![s] = "reset"]
    /\ UNCHANGED <<wrote, given, fin, up, down, tasks, stream, sent, wire, tunnel>>

-----------------------------------------------------------------------------
(* The stream at one side *)

\* MuxStream._mark_closed: the buffer goes, and reads see the end.
MarkClosed(st, remote) ==
    [st EXCEPT !.closed = TRUE, !.remoteEof = TRUE, !.buffer = 0, !.reset = @ \/ remote]

\* Faulty: a reset leaves no trace beside the end of data.
RemoteCloseAsEof(st) ==
    IF st.closed THEN st
    ELSE IF st.remoteEof THEN [st EXCEPT !.closed = TRUE]
    ELSE MarkClosed(st, FALSE)

\* MuxStream._remote_close: after a HALF_CLOSE the buffer stays to be read.
RemoteClose(st) ==
    IF st.closed THEN st
    ELSE IF st.remoteEof THEN [st EXCEPT !.closed = TRUE]
    ELSE MarkClosed(st, TRUE)

\* Faulty: nobody waits for credit.
SendableAlways(s) == TRUE

\* There is credit: the reader's bridge returns it as it reads.
Sendable(s) == sent[s] - given[Other(s)] < Window

\* A frame of s arrives at the other side, where a stream that is closed has
\* left the table.
Deliver(s) ==
    /\ wire[s] # <<>>
    /\ LET o == Other(s)
           st == stream[o]
       IN stream' = [stream EXCEPT ![o] =
            CASE Head(wire[s]) = "CLOSE" -> RemoteClose(st)
              [] Head(wire[s]) = "DATA" /\ ~st.closed -> [st EXCEPT !.buffer = @ + 1]
              [] Head(wire[s]) = "HALF_CLOSE" /\ ~st.closed -> [st EXCEPT !.remoteEof = TRUE]
              [] OTHER -> st]
    /\ wire' = [wire EXCEPT ![s] = Tail(@)]
    /\ UNCHANGED <<apps, given, fin, up, down, tasks, sent, tunnel, faults>>

\* The mux shuts down at both sides; what is on the wire is lost.
EndTunnel ==
    /\ tunnel
    /\ tunnel' = FALSE
    /\ stream' = [s \in Sides |-> RemoteClose(stream[s])]
    /\ wire' = [s \in Sides |-> <<>>]
    /\ UNCHANGED <<apps, given, fin, up, down, tasks, sent>>

TunnelEnds == Fault /\ EndTunnel

\* What s puts on the wire, while there is one.
Send(s, frame) == wire' = IF tunnel THEN [wire EXCEPT ![s] = Append(@, frame)] ELSE wire

-----------------------------------------------------------------------------
(* socket_to_mux *)

Pumping(s) == bridge[s] \in {"running", "unwinding"}

UpRead(s) ==
    /\ Pumping(s) /\ up[s] = "read"
    /\ \/ /\ end[s] = "reset"
          /\ up' = [up EXCEPT ![s] = "failed"]
       \/ /\ end[s] # "reset" /\ sent[s] < wrote[s]
          /\ up' = [up EXCEPT ![s] = "write"]
       \/ /\ end[s] = "eof" /\ sent[s] = wrote[s]
          /\ up' = [up EXCEPT ![s] = "eof"]
    /\ UNCHANGED <<apps, given, fin, down, tasks, stream, sent, wire, tunnel, faults>>

\* stream.write waits for credit, and fails when the stream is closed.
UpWrite(s) ==
    /\ Pumping(s) /\ up[s] = "write"
    /\ \/ /\ stream[s].closed
          /\ up' = [up EXCEPT ![s] = "failed"]
          /\ UNCHANGED <<sent, wire>>
       \/ /\ ~stream[s].closed /\ Sendable(s)
          /\ up' = [up EXCEPT ![s] = "read"]
          /\ sent' = [sent EXCEPT ![s] = @ + 1]
          /\ Send(s, "DATA")
    /\ UNCHANGED <<apps, given, fin, down, tasks, stream, tunnel, faults>>

\* Faulty: the end of the data is not passed on.
UpEofKept(s) ==
    /\ Pumping(s) /\ up[s] = "eof"
    /\ up' = [up EXCEPT ![s] = "done"]
    /\ stream' = [stream EXCEPT ![s].localEof = TRUE]
    /\ UNCHANGED <<apps, given, fin, down, tasks, sent, wire, tunnel, faults>>

\* stream.write_eof does nothing, and does not fail, when the stream is closed.
UpEof(s) ==
    /\ Pumping(s) /\ up[s] = "eof"
    /\ up' = [up EXCEPT ![s] = "done"]
    /\ IF stream[s].closed
       THEN UNCHANGED <<stream, wire>>
       ELSE /\ stream' = [stream EXCEPT ![s].localEof = TRUE]
            /\ Send(s, "HALF_CLOSE")
    /\ UNCHANGED <<apps, given, fin, down, tasks, sent, tunnel, faults>>

(* mux_to_socket *)

\* stream.read and writer.write, or the end of the stream and writer.write_eof.
DownRead(s) ==
    /\ Pumping(s) /\ down[s] = "read"
    /\ \/ /\ stream[s].buffer > 0
          /\ stream' = [stream EXCEPT ![s].buffer = @ - 1]
          /\ given' = [given EXCEPT ![s] = @ + 1]
          /\ down' = [down EXCEPT ![s] = "drain"]
          /\ UNCHANGED fin
       \/ /\ stream[s].buffer = 0 /\ stream[s].remoteEof
          /\ IF stream[s].reset
             THEN down' = [down EXCEPT ![s] = "failed"] /\ UNCHANGED fin
             ELSE down' = [down EXCEPT ![s] = "drain"] /\ fin' = [fin EXCEPT ![s] = "eof"]
          /\ UNCHANGED <<given, stream>>
    /\ UNCHANGED <<apps, up, tasks, sent, wire, tunnel, faults>>

\* writer.drain returns when the application has read enough, or raises when it is
\* gone; while the application does not read, nothing else ends it.
DownDrain(s) ==
    /\ Pumping(s) /\ down[s] = "drain"
    /\ down' = [down EXCEPT ![s] =
         IF end[s] = "reset" THEN "failed" ELSE IF fin[s] = "eof" THEN "done" ELSE "read"]
    /\ UNCHANGED <<apps, given, fin, up, tasks, stream, sent, wire, tunnel, faults>>

-----------------------------------------------------------------------------
(* bridge_socket around its pumps *)

Unwind(s, abort) ==
    /\ bridge' = [bridge EXCEPT ![s] = "unwinding"]
    /\ aborted' = [aborted EXCEPT ![s] = abort]
    /\ UNCHANGED <<apps, given, fin, up, down, stream, sent, wire, tunnel>>

\* Faulty: a pump that fails is only taken from the pending ones.
ObserveBoth(s) ==
    /\ bridge[s] = "running"
    /\ up[s] \in {"done", "failed"} /\ down[s] \in {"done", "failed"}
    /\ Unwind(s, up[s] = "failed" \/ down[s] = "failed")
    /\ UNCHANGED faults

\* asyncio.wait returns: a pump has failed, or none is pending.
Observe(s) ==
    /\ bridge[s] = "running"
    /\ \/ up[s] = "failed" \/ down[s] = "failed"
       \/ up[s] = "done" /\ down[s] = "done"
    /\ Unwind(s, up[s] = "failed" \/ down[s] = "failed")
    /\ UNCHANGED faults

\* idle_monitor raises: any two steps may be idle_timeout apart.
Expire(s) ==
    /\ s \in IdleSides /\ bridge[s] = "running" /\ Fault
    /\ Unwind(s, TRUE)

\* The forwarder's close cancels the task; what it cancels inside the finally
\* clause skips the rest of it.
Cancel(s) == Fault /\
    \/ /\ bridge[s] = "running"
       /\ Unwind(s, TRUE)
    \/ /\ bridge[s] \in {"unwinding", "closing", "released"}
       /\ bridge' = [bridge EXCEPT ![s] = "cut"]
       /\ UNCHANGED <<apps, given, fin, up, down, aborted, stream, sent, wire, tunnel>>

CancelledPump(task) == IF task \in {"done", "failed"} THEN task ELSE "cancelled"

\* The pumps are cancelled and gathered.  A write that is cancelled may have put
\* its frame on the wire.
StopPumps(s) ==
    /\ bridge[s] = "unwinding"
    /\ bridge' = [bridge EXCEPT ![s] = "closing"]
    /\ up' = [up EXCEPT ![s] = CancelledPump(@)]
    /\ down' = [down EXCEPT ![s] = CancelledPump(@)]
    /\ \/ UNCHANGED <<stream, sent, wire>>
       \/ /\ up[s] = "write" /\ ~stream[s].closed /\ Sendable(s)
          /\ sent' = [sent EXCEPT ![s] = @ + 1]
          /\ Send(s, "DATA")
          /\ UNCHANGED stream
       \/ /\ up[s] = "eof" /\ ~stream[s].closed
          /\ stream' = [stream EXCEPT ![s].localEof = TRUE]
          /\ Send(s, "HALF_CLOSE")
          /\ UNCHANGED sent
    /\ UNCHANGED <<apps, given, fin, aborted, tunnel, faults>>

\* stream.close
CloseStream(s) ==
    /\ bridge[s] = "closing"
    /\ bridge' = [bridge EXCEPT ![s] = "released"]
    /\ IF stream[s].closed
       THEN /\ stream' = [stream EXCEPT ![s].buffer = 0]
            /\ UNCHANGED wire
       ELSE /\ stream' = [stream EXCEPT ![s] = MarkClosed(@, FALSE)]
            /\ Send(s, "CLOSE")
    /\ UNCHANGED <<apps, given, fin, up, down, aborted, sent, tunnel, faults>>

\* writer.close
CloseSocket(s) ==
    /\ bridge[s] = "released"
    /\ bridge' = [bridge EXCEPT ![s] = "done"]
    /\ fin' = [fin EXCEPT ![s] = IF @ = "none" THEN "closed" ELSE @]
    /\ UNCHANGED <<apps, given, up, down, aborted, stream, sent, wire, tunnel, faults>>

\* ClientForwarder.close and AgentForwarder.close close the peer after their tasks.
PeerCloses ==
    /\ \E s \in Sides : bridge[s] = "cut"
    /\ EndTunnel
    /\ UNCHANGED faults

Pump(s) == UpRead(s) \/ UpWrite(s) \/ UpEof(s)
PumpBack(s) == DownRead(s) \/ DownDrain(s)
Clean(s) == StopPumps(s) \/ CloseStream(s) \/ CloseSocket(s)
BridgeTask(s) == Observe(s) \/ Clean(s)
App(s) == AppWrites(s) \/ AppEnds(s) \/ AppDies(s)

BridgeNext ==
    \/ \E s \in Sides :
        App(s) \/ Deliver(s) \/ Pump(s) \/ PumpBack(s) \/ BridgeTask(s) \/ Expire(s) \/ Cancel(s)
    \/ TunnelEnds
    \/ PeerCloses

\* drain waits for an application that is there.
Blocked(s) == Pumping(s) /\ down[s] = "drain" /\ end[s] # "reset"

\* The loop runs every task that can go on, and frames arrive; but nothing makes an
\* application read.  What cancels a bridge closes the peer next.  Each of these can
\* go on only finitely often, so that the fairness of one of them is that of all.
BridgeProgress ==
    \/ \E s \in Sides :
        \/ Deliver(s) \/ Pump(s) \/ BridgeTask(s)
        \/ ~Blocked(s) /\ PumpBack(s)
    \/ PeerCloses

BridgeSpec == BridgeInit /\ [][BridgeNext]_bridgeVars /\ WF_bridgeVars(BridgeProgress)

-----------------------------------------------------------------------------

\* An application that is shown the end of the data by write_eof has been given
\* every byte the application at the other side wrote, and that one has ended
\* its data itself: neither a reset, nor an idle timeout, nor the end of the
\* tunnel is passed on as a half-close.
EofIsComplete == \A s \in Sides : fin[s] = "eof" =>
    given[s] = wrote[Other(s)] /\ end[Other(s)] # "open"

\* A bridge that ends without a reason was not the first to give up: it has taken
\* and passed on all of its application's data, and shown it the end of the
\* other's.
CleanEndIsWhole == \A s \in Sides :
    bridge[s] \in {"closing", "released", "done"} /\ ~aborted[s] =>
        /\ sent[s] = wrote[s]
        /\ fin[s] = "eof"

\* An end of data that a bridge shows its application, or that it ends with, is the
\* end of all the data.
EndsAreTrue == EofIsComplete /\ CleanEndIsWhole

Over(s) == bridge[s] \in {"done", "cut"}

\* The application at s never makes drain wait for ever.
KeepsReading(s) == []<>~Blocked(s)

\* The reset of a stream ends the bridge at the side that receives it, if the
\* application there keeps reading or goes away, and whatever else its socket does.
\* A bridge that waits in drain does not see the reset, and the agent's has no idle
\* timeout: on an application that has stopped reading for good it stays.
ResetEndsBridge == \A s \in Sides :
    KeepsReading(s) => (stream[s].reset ~> Over(s))

\* When both applications have ended their data or are gone, and those that are there
\* keep reading, both bridges end, whichever order the ends are carried in.
BothEndsRelease == (\A s \in Sides : KeepsReading(s)) =>
    ((\A s \in Sides : end[s] # "open") ~> (\A s \in Sides : Over(s)))

=============================================================================
