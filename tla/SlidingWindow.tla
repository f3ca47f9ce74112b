---------------------------- MODULE SlidingWindow ----------------------------
(***************************************************************************)
(* What one direction of one stream promises its two ends, without frames, *)
(* wires or closings: bytes are numbered from 1 in the order the writer    *)
(* sends them, they arrive and are read in that order, and the writer is   *)
(* never more than Window bytes ahead of the credit it has been given back.*)
(*                                                                         *)
(* MuxStreams implements this for every stream and both directions.        *)
(***************************************************************************)
EXTENDS Integers

CONSTANT Window     \* INITIAL_WINDOW

VARIABLES
    sent,       \* bytes the writer has put on the wire
    recvd,      \* bytes that have entered the receiver's buffer
    read,       \* bytes the receiving application has taken
    credited    \* bytes whose credit has returned to the writer

vars == <<sent, recvd, read, credited>>

Init == sent = 0 /\ recvd = 0 /\ read = 0 /\ credited = 0

Send(n) ==
    /\ sent + n <= credited + Window
    /\ sent' = sent + n
    /\ UNCHANGED <<recvd, read, credited>>

Deliver(n) ==
    /\ recvd + n <= sent
    /\ recvd' = recvd + n
    /\ UNCHANGED <<sent, read, credited>>

Take(n) ==
    /\ read + n <= recvd
    /\ read' = read + n
    /\ UNCHANGED <<sent, recvd, credited>>

Credit(n) ==
    /\ credited + n <= read
    /\ credited' = credited + n
    /\ UNCHANGED <<sent, recvd, read>>

Next == \E n \in 1..Window : Send(n) \/ Deliver(n) \/ Take(n) \/ Credit(n)

Spec == Init /\ [][Next]_vars

-----------------------------------------------------------------------------

\* The four counters stay in order, and the whole loop holds at most Window
\* bytes: data on the wire, data in the receiver's buffer and credit on its way
\* back together.
InOrder ==
    /\ {sent, recvd, read, credited} \subseteq Nat
    /\ credited <= read /\ read <= recvd /\ recvd <= sent
    /\ sent - credited <= Window

\* The receiver never has to hold more than one window.
BufferBound == recvd - read <= Window

=============================================================================
