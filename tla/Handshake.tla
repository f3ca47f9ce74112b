------------------------------ MODULE Handshake ------------------------------
(***************************************************************************)
(* The opening handshake of two MuxPeers over one virtual channel          *)
(* (rdpflux/mux.py): each side sends HELLO, acknowledges every HELLO it    *)
(* receives, repeats its own until it is ready, and treats any other frame *)
(* that reaches it before it is ready as a fatal protocol error.           *)
(*                                                                         *)
(* The channel is FIFO in each direction.  mstsc may silently lose the     *)
(* first write made on it; LossyPeers are the peers whose first write can  *)
(* go missing.                                                             *)
(***************************************************************************)
EXTENDS PeerConstants, Integers, Sequences

Other(p) == IF p = "client" THEN "agent" ELSE "client"

Kinds == {"HELLO", "HELLO_ACK", "APP"}

VARIABLES
    wire,       \* wire[p]: frames p has written and the other has not read
    hellos,     \* hellos[p]: how often p has sent its HELLO; 0 before start()
    apps,       \* apps[p]: ordinary frames p has sent
    helloRecv,  \* _hello_received
    ackRecv,    \* _hello_ack_received
    acking,     \* the runner is inside the await that sends HELLO_ACK
    isReady,      \* the _ready event
    failed      \* the runner stopped with a ProtocolError

handshakeVars == <<wire, hellos, apps, helloRecv, ackRecv, acking, isReady, failed>>

HandshakeTypeOK ==
    /\ wire \in [Peers -> Seq(Kinds)]
    /\ hellos \in [Peers -> Nat]
    /\ apps \in [Peers -> Nat]
    /\ helloRecv \in [Peers -> BOOLEAN]
    /\ ackRecv \in [Peers -> BOOLEAN]
    /\ acking \in [Peers -> BOOLEAN]
    /\ isReady \in [Peers -> BOOLEAN]
    /\ failed \in [Peers -> BOOLEAN]

HandshakeInit ==
    /\ wire = [p \in Peers |-> <<>>]
    /\ hellos = [p \in Peers |-> 0]
    /\ apps = [p \in Peers |-> 0]
    /\ helloRecv = [p \in Peers |-> FALSE]
    /\ ackRecv = [p \in Peers |-> FALSE]
    /\ acking = [p \in Peers |-> FALSE]
    /\ isReady = [p \in Peers |-> FALSE]
    /\ failed = [p \in Peers |-> FALSE]

Started(p) == hellos[p] > 0 /\ ~failed[p]

(***************************************************************************)
(* start(): HELLO is the first frame to take the write lock, so it is also *)
(* the only write that the channel can lose.                               *)
(***************************************************************************)
Start(p) ==
    /\ hellos[p] = 0
    /\ hellos' = [hellos EXCEPT ![p] = 1]
    /\ \/ wire' = [wire EXCEPT ![p] = Append(@, "HELLO")]
       \/ p \in LossyPeers /\ wire' = wire
    /\ UNCHANGED <<apps, helloRecv, ackRecv, acking, isReady, failed>>

\* Faulty: HELLO is no longer repeated once the other peer's has arrived.
RetransmitUntilHello(p) ==
    /\ Started(p)
    /\ hellos[p] < MaxHellos
    /\ ~helloRecv[p]
    /\ hellos' = [hellos EXCEPT ![p] = @ + 1]
    /\ wire' = [wire EXCEPT ![p] = Append(@, "HELLO")]
    /\ UNCHANGED <<apps, helloRecv, ackRecv, acking, isReady, failed>>

\* One round of _handshake_loop: the sleep ends and the peer is not ready.
Retransmit(p) ==
    /\ Started(p)
    /\ hellos[p] < MaxHellos
    /\ ~isReady[p]
    /\ hellos' = [hellos EXCEPT ![p] = @ + 1]
    /\ wire' = [wire EXCEPT ![p] = Append(@, "HELLO")]
    /\ UNCHANGED <<apps, helloRecv, ackRecv, acking, isReady, failed>>

\* The runner of p takes the next frame off the channel.
Take(p, kind) ==
    /\ Started(p)
    /\ ~acking[p]
    /\ wire[Other(p)] # <<>>
    /\ Head(wire[Other(p)]) = kind

(***************************************************************************)
(* The HELLO branch of _dispatch.  The acknowledgement joins the write     *)
(* order at once; the runner then waits for that write, and only after it  *)
(* decides whether the handshake is complete (SendAckDone).                *)
(***************************************************************************)
RecvHello(p) ==
    /\ Take(p, "HELLO")
    /\ helloRecv' = [helloRecv EXCEPT ![p] = TRUE]
    /\ acking' = [acking EXCEPT ![p] = TRUE]
    /\ wire' = [wire EXCEPT ![Other(p)] = Tail(@), ![p] = Append(@, "HELLO_ACK")]
    /\ UNCHANGED <<hellos, apps, ackRecv, isReady, failed>>

\* Faulty: either flag is taken for the whole handshake.
MaybeReadyOnHello(p, hello, ack) == isReady[p] \/ hello
MaybeReadyOnAck(p, hello, ack) == isReady[p] \/ ack

\* _maybe_ready, with the two flags it reads.
MaybeReady(p, hello, ack) == isReady[p] \/ (hello /\ ack)

SendAckDone(p) ==
    /\ acking[p]
    /\ acking' = [acking EXCEPT ![p] = FALSE]
    /\ isReady' = [isReady EXCEPT ![p] = MaybeReady(p, helloRecv[p], ackRecv[p])]
    /\ UNCHANGED <<wire, hellos, apps, helloRecv, ackRecv, failed>>

\* The HELLO_ACK branch of _dispatch; a duplicate changes nothing.
RecvAck(p) ==
    /\ Take(p, "HELLO_ACK")
    /\ ackRecv' = [ackRecv EXCEPT ![p] = TRUE]
    /\ isReady' = [isReady EXCEPT ![p] = MaybeReady(p, helloRecv[p], TRUE)]
    /\ wire' = [wire EXCEPT ![Other(p)] = Tail(@)]
    /\ UNCHANGED <<hellos, apps, helloRecv, acking, failed>>

(***************************************************************************)
(* Any other frame.  Before _ready is set it is the protocol error         *)
(* "message received before handshake", which stops the runner.            *)
(***************************************************************************)
RecvApp(p) ==
    /\ Take(p, "APP")
    /\ failed' = [failed EXCEPT ![p] = ~isReady[p]]
    /\ wire' = [wire EXCEPT ![Other(p)] = Tail(@)]
    /\ UNCHANGED <<hellos, apps, helloRecv, ackRecv, acking, isReady>>

\* A task that waited for the handshake (open_stream, request_listener and the
\* heartbeat all do) sends a frame of its own.
SendApp(p) ==
    /\ Started(p)
    /\ isReady[p]
    /\ apps[p] < MaxApp
    /\ apps' = [apps EXCEPT ![p] = @ + 1]
    /\ wire' = [wire EXCEPT ![p] = Append(@, "APP")]
    /\ UNCHANGED <<hellos, helloRecv, ackRecv, acking, isReady, failed>>

Dispatch(p) == RecvHello(p) \/ SendAckDone(p) \/ RecvAck(p) \/ RecvApp(p)

HandshakeNext == \E p \in Peers :
            Start(p) \/ Retransmit(p) \/ Dispatch(p) \/ SendApp(p)

(***************************************************************************)
(* Both programs do call start(), the runner keeps reading, and the        *)
(* retransmission timer keeps firing.  Nothing obliges a peer to send an   *)
(* ordinary frame.                                                         *)
(***************************************************************************)
HandshakeFairness == \A p \in Peers :
    /\ WF_handshakeVars(Start(p))
    /\ WF_handshakeVars(Retransmit(p))
    /\ WF_handshakeVars(Dispatch(p))

HandshakeSpec == HandshakeInit /\ [][HandshakeNext]_handshakeVars /\ HandshakeFairness

-----------------------------------------------------------------------------

\* No honest peer is ever stopped by "message received before handshake": a
\* side that considers itself ready and starts to talk never outruns the other
\* side's handshake, even when the first write in a direction was lost.
NoEarlyFrame == \A p \in Peers : ~failed[p]

\* Readiness is mutual knowledge: a peer is ready only once the other has
\* received its HELLO, and has at least an acknowledgement on the way to it.
ReadyIsMutual == \A p \in Peers : isReady[p] =>
    /\ helloRecv[Other(p)]
    /\ \/ ackRecv[Other(p)]
       \/ \E i \in 1..Len(wire[p]) : wire[p][i] = "HELLO_ACK"

\* The handshake ends: the comment on _handshake_loop promises that one
\* delivered HELLO per side is enough to make both sides ready.
HandshakeCompletes == <>[](\A p \in Peers : isReady[p])

=============================================================================
