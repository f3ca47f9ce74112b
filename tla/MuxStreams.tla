----------------------------- MODULE MuxStreams ------------------------------
(***************************************************************************)
(* The streams of two MuxPeers that are past their handshake               *)
(* (rdpflux/mux.py): opening, accepting and rejecting a stream, writing    *)
(* under per-stream and aggregate credit, reading and returning credit,    *)
(* half-closing, closing from either end or from both at once, and late    *)
(* frames for streams that are already gone.                               *)
(*                                                                         *)
(* The event loop runs a handler without interruption up to its next       *)
(* await, so one action is the code between two points where a task can be *)
(* suspended.  A frame enters wire[p] when its sender takes its place in   *)
(* the FIFO queue of _write_lock; from there on its order is fixed.        *)
(*                                                                         *)
(* A payload is the range of positions (from, upto] its bytes have in what *)
(* the writer sends on that stream, and a WINDOW_UPDATE is the range of    *)
(* positions its reader has consumed.  The code puts only the length of    *)
(* the range on the wire, and only the length is used by the actions; the  *)
(* positions are there for the properties, as are the fields sent, recvd,  *)
(* rd, credited and sawEof of a stream.                                    *)
(***************************************************************************)
EXTENDS Integers, Sequences, FiniteSets

CONSTANTS
    MaxId,          \* largest stream ID (0xFFFFFFFF in the code)
    Window,         \* INITIAL_WINDOW
    Chunk,          \* CHUNK_SIZE
    MaxStreams,     \* MaxStreams[p]: max_streams of peer p
    Aggregate,      \* MAX_BUFFERED_DATA
    Openers,        \* peers whose application opens streams
    MaxBytes        \* bound, MaxBytes[p]: bytes p writes to one stream

Peers == {"client", "agent"}

ASSUME IdAssumption == MaxId \in Nat
ASSUME WindowAssumption == Window \in Nat \ {0} /\ Chunk \in Nat \ {0}
ASSUME LimitAssumption ==
    /\ MaxStreams \in [Peers -> Nat \ {0}]
    /\ Aggregate \in Nat /\ Chunk <= Aggregate
    /\ Openers \subseteq Peers
    /\ MaxBytes \in [Peers -> Nat]

Ids == 1..MaxId
Other(p) == IF p = "client" THEN "agent" ELSE "client"

VARIABLES
    nextId,     \* _next_stream_id
    highest,    \* _highest_peer_id
    table,      \* the keys of peer.streams
    st,         \* st[p][s]: the MuxStream object of p for ID s
    wire,       \* wire[p]: frames p has sent and the other has not dispatched
    incoming,   \* _incoming_buffered
    outgoing,   \* _outgoing_buffered
    err         \* why the runner of p stopped, or "none"

vars == <<nextId, highest, table, st, wire, incoming, outgoing, err>>

-----------------------------------------------------------------------------
(* Frames and streams.                                                     *)

FrameKinds == {"OPEN", "OPEN_RESULT", "DATA", "WINDOW_UPDATE", "HALF_CLOSE", "CLOSE"}

Frame == {f \in [kind : FrameKinds, id : Ids, ok : BOOLEAN, from : Nat, upto : Nat] :
            f.from <= f.upto}

Control(kind, s) == [kind |-> kind, id |-> s, ok |-> TRUE, from |-> 0, upto |-> 0]
OpenResult(s, ok) == [Control("OPEN_RESULT", s) EXCEPT !.ok = ok]
Span(kind, s, from, n) ==
    [Control(kind, s) EXCEPT !.from = from, !.upto = from + n]
Length(f) == f.upto - f.from

(***************************************************************************)
(* The phase of a stream is where the coroutine that owns it stands:       *)
(*   unused     no object yet                                              *)
(*   opening    open_stream waits for the OPEN_RESULT future               *)
(*   granted, refused   the future is resolved, open_stream not yet resumed*)
(*   accepting  _finish_open runs the open handler                         *)
(*   open       the application holds the stream                           *)
(*   gone       the application has closed it, or never got it             *)
(***************************************************************************)
Phases == {"unused", "opening", "granted", "refused", "accepting", "open", "gone"}

Stream == [
    phase : Phases,
    credit : Nat,       \* _send_credit
    reserved : Nat,     \* _outgoing_reserved
    held : Nat,         \* credit taken by a write that waits in _reserve_outgoing
    rcredit : Nat,      \* _receive_credit
    buf : Nat,          \* len(_read_buffer)
    leof : BOOLEAN,     \* _local_eof
    reof : BOOLEAN,     \* _remote_eof
    closed : BOOLEAN,   \* _closed
    reset : BOOLEAN,    \* _remote_reset
    sent : Nat, recvd : Nat, rd : Nat, credited : Nat, sawEof : BOOLEAN]

\* MuxStream.__init__
NewStream(phase) == [
    phase |-> phase, credit |-> Window, reserved |-> 0, held |-> 0,
    rcredit |-> Window, buf |-> 0, leof |-> FALSE, reof |-> FALSE,
    closed |-> FALSE, reset |-> FALSE,
    sent |-> 0, recvd |-> 0, rd |-> 0, credited |-> 0, sawEof |-> FALSE]

Errors == {"none", "id", "unexpected", "unknown", "closure", "window", "aggregate", "credit"}

TypeOK ==
    /\ nextId \in [Peers -> Nat \ {0}]
    /\ highest \in [Peers -> Nat]
    /\ table \in [Peers -> SUBSET Ids]
    /\ st \in [Peers -> [Ids -> Stream]]
    /\ wire \in [Peers -> Seq(Frame)]
    /\ incoming \in [Peers -> Nat]
    /\ outgoing \in [Peers -> Nat]
    /\ err \in [Peers -> Errors]

Init ==
    /\ nextId = [p \in Peers |-> IF p = "client" THEN 1 ELSE 2]
    /\ highest = [p \in Peers |-> 0]
    /\ table = [p \in Peers |-> {}]
    /\ st = [p \in Peers |-> [s \in Ids |-> NewStream("unused")]]
    /\ wire = [p \in Peers |-> <<>>]
    /\ incoming = [p \in Peers |-> 0]
    /\ outgoing = [p \in Peers |-> 0]
    /\ err = [p \in Peers |-> "none"]

-----------------------------------------------------------------------------
(* Pieces the handlers share.                                              *)

Up(p) == err[p] = "none"
Become(p, s, r) == st' = [st EXCEPT ![p][s] = r]
Send(p, f) == wire' = [wire EXCEPT ![p] = Append(@, f)]
Remove(p, s) == table' = [table EXCEPT ![p] = @ \ {s}]

\* _release_incoming and _release_outgoing, which never go below zero.
Release(counter, p, amount) ==
    [counter EXCEPT ![p] = IF amount > @ THEN 0 ELSE @ - amount]

\* _mark_closed: the buffer is discarded and its credit restored.
MarkClosed(r, remote) == IF r.closed THEN r ELSE [r EXCEPT
    !.closed = TRUE, !.reof = TRUE, !.reset = @ \/ remote,
    !.buf = 0, !.rcredit = IF @ + r.buf > Window THEN Window ELSE @ + r.buf,
    !.credit = Window, !.reserved = 0]

\* Faulty: every CLOSE is taken for the end of a graceful shutdown.
RemoteCloseAlwaysGraceful(r) ==
    IF r.closed THEN r ELSE [r EXCEPT !.closed = TRUE, !.credit = Window, !.reserved = 0]

\* Faulty: the graceful branch forgets _release_outgoing_reserved.
RemoteCloseKeepsReserved(r) ==
    IF r.closed THEN r
    ELSE IF r.reof THEN [r EXCEPT !.closed = TRUE, !.credit = Window]
    ELSE MarkClosed(r, TRUE)

\* _remote_close: after HALF_CLOSE the buffer survives until it has been read.
RemoteClose(r) ==
    IF r.closed THEN r
    ELSE IF r.reof THEN [r EXCEPT !.closed = TRUE, !.credit = Window, !.reserved = 0]
    ELSE MarkClosed(r, TRUE)

\* A stream stays in the table while a graceful close leaves bytes to read.
KeptAfterClose(r) == r.reof /\ r.buf > 0

\* Replace stream s of p by r: give back what it no longer buffers or
\* reserves, and drop it from the table unless it is to be kept.
Finish(p, s, r, keep) ==
    /\ Become(p, s, r)
    /\ incoming' = Release(incoming, p, st[p][s].buf - r.buf)
    /\ outgoing' = Release(outgoing, p, st[p][s].reserved - r.reserved)
    /\ IF keep THEN table' = table ELSE Remove(p, s)

\* _is_stale_id: an ID of p's own parity it has allocated, or one of the
\* peer's it has seen.
OwnId(p, s) == (s % 2 = 1) = (p = "client")
Stale(p, s) == IF OwnId(p, s) THEN s < nextId[p] ELSE s <= highest[p]

-----------------------------------------------------------------------------
(* Opening.                                                                *)

\* open_stream up to its wait for the result.  At the limit, or with the ID
\* space exhausted, it raises and changes nothing.
OpenStream(p) ==
    LET s == nextId[p] IN
    /\ Up(p)
    /\ p \in Openers
    /\ s <= MaxId
    /\ Cardinality(table[p]) < MaxStreams[p]
    /\ nextId' = [nextId EXCEPT ![p] = s + 2]
    /\ table' = [table EXCEPT ![p] = @ \cup {s}]
    /\ Become(p, s, NewStream("opening"))
    /\ Send(p, Control("OPEN", s))
    /\ UNCHANGED <<highest, incoming, outgoing, err>>

\* _mark_closed and the end of open_stream.  A stream that the peer has already
\* closed is left as it is, in the table if that is where it was.
Forget(p, s) ==
    Finish(p, s, [MarkClosed(st[p][s], FALSE) EXCEPT !.phase = "gone"], st[p][s].closed)

\* Faulty: the peer is not told.
OpenTimeoutSilently(p, s) ==
    /\ Up(p)
    /\ st[p][s].phase \in {"opening", "granted", "refused"}
    /\ Forget(p, s)
    /\ UNCHANGED <<nextId, highest, wire, err>>

\* The wait times out or is cancelled, perhaps when the result is already there
\* (asyncio.wait_for of Python 3.12 lets the cancellation win): the stream is
\* closed and the peer told.
OpenTimeout(p, s) ==
    /\ Up(p)
    /\ st[p][s].phase \in {"opening", "granted", "refused"}
    /\ Forget(p, s)
    /\ Send(p, Control("CLOSE", s))
    /\ UNCHANGED <<nextId, highest, err>>

\* open_stream resumes with a result: it returns the stream ...
OpenGranted(p, s) ==
    /\ Up(p)
    /\ st[p][s].phase = "granted"
    /\ Become(p, s, [st[p][s] EXCEPT !.phase = "open"])
    /\ UNCHANGED <<nextId, highest, table, wire, incoming, outgoing, err>>

\* ... or raises and forgets it.
OpenRefused(p, s) ==
    /\ Up(p)
    /\ st[p][s].phase = "refused"
    /\ Forget(p, s)
    /\ UNCHANGED <<nextId, highest, wire, err>>

\* The open handler succeeds; the application starts on the stream.
AcceptDone(p, s) ==
    /\ Up(p)
    /\ st[p][s].phase = "accepting"
    /\ Become(p, s, [st[p][s] EXCEPT !.phase = "open"])
    /\ Send(p, OpenResult(s, TRUE))
    /\ UNCHANGED <<nextId, highest, table, incoming, outgoing, err>>

\* The open handler raises.
AcceptFail(p, s) ==
    LET r == [RemoteClose(st[p][s]) EXCEPT !.phase = "gone"] IN
    /\ Up(p)
    /\ st[p][s].phase = "accepting"
    /\ Finish(p, s, r, KeptAfterClose(r))
    /\ Send(p, OpenResult(s, FALSE))
    /\ UNCHANGED <<nextId, highest, err>>

-----------------------------------------------------------------------------
(* The application's end of an open stream.                                *)

Writable(p, s) ==
    /\ Up(p)
    /\ st[p][s].phase = "open"
    /\ ~st[p][s].leof
    /\ ~st[p][s].closed
    /\ st[p][s].held = 0       \* _write_serial is free

\* Faulty: the chunk is cut to the window instead of the credit that is left.
SendableByWindow(p, s, n) ==
    /\ Writable(p, s)
    /\ n <= Chunk
    /\ n <= Window
    /\ st[p][s].sent + n <= MaxBytes[p]

\* The next chunk of a write: at most Chunk bytes, at most the credit there is.
Sendable(p, s, n) ==
    /\ Writable(p, s)
    /\ n <= Chunk
    /\ n <= st[p][s].credit
    /\ st[p][s].sent + n <= MaxBytes[p]

\* _reserve_outgoing finds room, the bytes are reserved and the frame is sent.
SendData(p, s, n, r) ==
    /\ outgoing[p] + n <= Aggregate
    /\ outgoing' = [outgoing EXCEPT ![p] = @ + n]
    /\ Become(p, s, [r EXCEPT !.reserved = @ + n, !.sent = @ + n])
    /\ Send(p, Span("DATA", s, r.sent, n))

WriteChunk(p, s, n) ==
    /\ Sendable(p, s, n)
    /\ SendData(p, s, n, [st[p][s] EXCEPT !.credit = @ - n])
    /\ UNCHANGED <<nextId, highest, table, incoming, err>>

\* No room: the write keeps the stream credit it took and waits.
WriteHold(p, s, n) ==
    /\ Sendable(p, s, n)
    /\ outgoing[p] + n > Aggregate
    /\ Become(p, s, [st[p][s] EXCEPT !.credit = @ - n, !.held = n])
    /\ UNCHANGED <<nextId, highest, table, wire, incoming, outgoing, err>>

WriteResume(p, s) ==
    LET n == st[p][s].held IN
    /\ Up(p)
    /\ n > 0
    /\ ~st[p][s].closed
    /\ SendData(p, s, n, [st[p][s] EXCEPT !.held = 0])
    /\ UNCHANGED <<nextId, highest, table, incoming, err>>

\* The wait ends with an exception: StreamClosed once the stream is closed, or
\* a cancellation, after which an open stream gets its credit back.
WriteAbort(p, s) ==
    LET r == st[p][s] IN
    /\ Up(p)
    /\ r.held > 0
    /\ Become(p, s, [r EXCEPT !.held = 0,
                              !.credit = IF r.closed THEN @ ELSE @ + r.held])
    /\ UNCHANGED <<nextId, highest, table, wire, incoming, outgoing, err>>

WriteEof(p, s) ==
    /\ Writable(p, s)
    /\ Become(p, s, [st[p][s] EXCEPT !.leof = TRUE])
    /\ Send(p, Control("HALF_CLOSE", s))
    /\ UNCHANGED <<nextId, highest, table, incoming, outgoing, err>>

\* Faulty: a read takes the size it was asked for, not what is buffered.
ReadUnclamped(p, s, n) ==
    LET r == [st[p][s] EXCEPT !.buf = @ - n, !.rcredit = @ + n, !.rd = @ + n] IN
    /\ Up(p)
    /\ st[p][s].phase = "open"
    /\ st[p][s].buf > 0
    /\ Finish(p, s, r, ~(r.closed /\ r.buf = 0))
    /\ IF r.closed THEN wire' = wire
       ELSE Send(p, Span("WINDOW_UPDATE", s, st[p][s].rd, n))
    /\ UNCHANGED <<nextId, highest, err>>

\* read() with bytes in the buffer; the credit goes back unless the stream has
\* been closed since.
Read(p, s, n) ==
    LET r == [st[p][s] EXCEPT !.buf = @ - n, !.rcredit = @ + n, !.rd = @ + n] IN
    /\ Up(p)
    /\ st[p][s].phase = "open"
    /\ n <= st[p][s].buf
    /\ Finish(p, s, r, ~(r.closed /\ r.buf = 0))
    /\ IF r.closed THEN wire' = wire
       ELSE Send(p, Span("WINDOW_UPDATE", s, st[p][s].rd, n))
    /\ UNCHANGED <<nextId, highest, err>>

\* read() returns b"" at the end of the stream.  It is a clean end of file for
\* the application exactly when remote_reset is not set.
ReadEof(p, s) ==
    LET r == st[p][s] IN
    /\ Up(p)
    /\ r.phase = "open"
    /\ ~r.sawEof
    /\ r.buf = 0
    /\ r.reof \/ r.closed
    /\ Finish(p, s, [r EXCEPT !.sawEof = ~r.reset], ~r.closed)
    /\ UNCHANGED <<nextId, highest, wire, err>>

\* close() on a stream the application still holds.
Close(p, s) ==
    /\ Up(p)
    /\ st[p][s].phase = "open"
    /\ ~st[p][s].closed
    /\ Finish(p, s, [MarkClosed(st[p][s], FALSE) EXCEPT !.phase = "gone"], FALSE)
    /\ Send(p, Control("CLOSE", s))
    /\ UNCHANGED <<nextId, highest, err>>

\* close() after the peer's CLOSE: what was left to read is dropped.
CloseAgain(p, s) ==
    LET r == st[p][s] IN
    /\ Up(p)
    /\ r.phase = "open"
    /\ r.closed
    /\ Finish(p, s, [r EXCEPT !.phase = "gone", !.buf = 0,
            !.rcredit = IF @ + r.buf > Window THEN Window ELSE @ + r.buf], FALSE)
    /\ UNCHANGED <<nextId, highest, wire, err>>

-----------------------------------------------------------------------------
(* _dispatch: the runner of p handles the next frame of the other peer.    *)

In(p) == Head(wire[Other(p)])

Arrives(p, kinds) ==
    /\ Up(p)
    /\ wire[Other(p)] # <<>>
    /\ In(p).kind \in kinds

Pop(p) == wire' = [wire EXCEPT ![Other(p)] = Tail(@)]
PopAndSend(p, f) ==
    wire' = [wire EXCEPT ![Other(p)] = Tail(@), ![p] = Append(@, f)]

Ignore(p) == Pop(p) /\ UNCHANGED <<nextId, highest, table, st, incoming, outgoing, err>>

\* A ProtocolError leaves _dispatch and ends the runner.
Fail(p, why) ==
    /\ err' = [err EXCEPT ![p] = why]
    /\ Pop(p)
    /\ UNCHANGED <<nextId, highest, table, st, incoming, outgoing>>

\* _validate_peer_request_id
ValidRequest(p, s) == ~OwnId(p, s) /\ s > highest[p]

\* Faulty: the limit is checked only where streams are opened.
RecvOpenUnlimited(p) ==
    LET s == In(p).id IN
    /\ Arrives(p, {"OPEN"})
    /\ \/ ~ValidRequest(p, s) /\ Fail(p, "id")
       \/ /\ ValidRequest(p, s)
          /\ highest' = [highest EXCEPT ![p] = s]
          /\ table' = [table EXCEPT ![p] = @ \cup {s}]
          /\ Become(p, s, NewStream("accepting"))
          /\ Pop(p)
          /\ UNCHANGED <<nextId, incoming, outgoing, err>>

\* Faulty: a rejected request is not recorded as seen.
RecvOpenForgetsRejected(p) ==
    LET s == In(p).id IN
    /\ Arrives(p, {"OPEN"})
    /\ \/ ~ValidRequest(p, s) /\ Fail(p, "id")
       \/ /\ ValidRequest(p, s)
          /\ Cardinality(table[p]) < MaxStreams[p]
          /\ highest' = [highest EXCEPT ![p] = s]
          /\ table' = [table EXCEPT ![p] = @ \cup {s}]
          /\ Become(p, s, NewStream("accepting"))
          /\ Pop(p)
          /\ UNCHANGED <<nextId, incoming, outgoing, err>>
       \/ /\ ValidRequest(p, s)
          /\ Cardinality(table[p]) >= MaxStreams[p]
          /\ PopAndSend(p, OpenResult(s, FALSE))
          /\ UNCHANGED <<nextId, highest, table, st, incoming, outgoing, err>>

RecvOpen(p) ==
    LET s == In(p).id IN
    /\ Arrives(p, {"OPEN"})
    /\ \/ ~ValidRequest(p, s) /\ Fail(p, "id")
       \/ /\ ValidRequest(p, s)
          /\ Cardinality(table[p]) < MaxStreams[p]
          /\ highest' = [highest EXCEPT ![p] = s]
          /\ table' = [table EXCEPT ![p] = @ \cup {s}]
          /\ Become(p, s, NewStream("accepting"))
          /\ Pop(p)
          /\ UNCHANGED <<nextId, incoming, outgoing, err>>
       \/ /\ ValidRequest(p, s)
          /\ Cardinality(table[p]) >= MaxStreams[p]
          /\ highest' = [highest EXCEPT ![p] = s]
          /\ PopAndSend(p, OpenResult(s, FALSE))
          /\ UNCHANGED <<nextId, table, st, incoming, outgoing, err>>

RecvOpenResult(p) ==
    LET f == In(p) IN
    /\ Arrives(p, {"OPEN_RESULT"})
    /\ \/ /\ st[p][f.id].phase = "opening"
          /\ Become(p, f.id, [st[p][f.id] EXCEPT
                                !.phase = IF f.ok THEN "granted" ELSE "refused"])
          /\ Pop(p)
          /\ UNCHANGED <<nextId, highest, table, incoming, outgoing, err>>
       \/ st[p][f.id].phase # "opening" /\ Stale(p, f.id) /\ Ignore(p)
       \/ st[p][f.id].phase # "opening" /\ ~Stale(p, f.id) /\ Fail(p, "unexpected")

\* Faulty: every frame for a stream that is gone is fatal.
RecvLateFatal(p) ==
    /\ Arrives(p, {"DATA", "WINDOW_UPDATE", "HALF_CLOSE", "CLOSE"})
    /\ In(p).id \notin table[p]
    /\ Fail(p, "unknown")

\* _live_stream, and the end of _handle_close: a frame for a stream that is not
\* in the table is dropped when the stream has existed, and fatal otherwise.
RecvLate(p) ==
    LET s == In(p).id IN
    /\ Arrives(p, {"DATA", "WINDOW_UPDATE", "HALF_CLOSE", "CLOSE"})
    /\ s \notin table[p]
    /\ IF Stale(p, s) THEN Ignore(p) ELSE Fail(p, "unknown")

\* _receive, with the three checks in the order the code makes them.
RecvData(p) ==
    LET f == In(p)
        n == Length(f)
        r == st[p][f.id] IN
    /\ Arrives(p, {"DATA"})
    /\ f.id \in table[p]
    /\ IF r.reof \/ r.closed THEN Fail(p, "closure")
       ELSE IF n > r.rcredit THEN Fail(p, "window")
       ELSE IF incoming[p] + n > Aggregate THEN Fail(p, "aggregate")
       ELSE /\ Become(p, f.id, [r EXCEPT !.rcredit = @ - n, !.buf = @ + n, !.recvd = @ + n])
            /\ incoming' = [incoming EXCEPT ![p] = @ + n]
            /\ Pop(p)
            /\ UNCHANGED <<nextId, highest, table, outgoing, err>>

\* Faulty: the stream's credit is restored, the aggregate reservation is not.
RecvWindowUpdateLeaks(p) ==
    LET f == In(p)
        n == Length(f)
        r == st[p][f.id] IN
    /\ Arrives(p, {"WINDOW_UPDATE"})
    /\ f.id \in table[p]
    /\ IF n = 0 \/ n > Window - r.credit \/ n > r.reserved THEN Fail(p, "credit")
       ELSE /\ Become(p, f.id, [r EXCEPT !.credit = @ + n, !.credited = @ + n])
            /\ Pop(p)
            /\ UNCHANGED <<nextId, highest, table, incoming, outgoing, err>>

\* _add_credit
RecvWindowUpdate(p) ==
    LET f == In(p)
        n == Length(f)
        r == st[p][f.id] IN
    /\ Arrives(p, {"WINDOW_UPDATE"})
    /\ f.id \in table[p]
    /\ IF n = 0 \/ n > Window - r.credit \/ n > r.reserved THEN Fail(p, "credit")
       ELSE /\ Finish(p, f.id, [r EXCEPT !.credit = @ + n, !.reserved = @ - n,
                                         !.credited = @ + n], TRUE)
            /\ Pop(p)
            /\ UNCHANGED <<nextId, highest, err>>

\* _receive_eof
RecvHalfClose(p) ==
    LET s == In(p).id IN
    /\ Arrives(p, {"HALF_CLOSE"})
    /\ s \in table[p]
    /\ Become(p, s, [st[p][s] EXCEPT !.reof = TRUE])
    /\ Pop(p)
    /\ UNCHANGED <<nextId, highest, table, incoming, outgoing, err>>

\* _handle_close for a stream in the table; a handler that is still running for
\* the request is cancelled.
RecvClose(p) ==
    LET s == In(p).id
        r == RemoteClose(st[p][s]) IN
    /\ Arrives(p, {"CLOSE"})
    /\ s \in table[p]
    /\ Finish(p, s, [r EXCEPT !.phase = IF @ = "accepting" THEN "gone" ELSE @],
              KeptAfterClose(r))
    /\ Pop(p)
    /\ UNCHANGED <<nextId, highest, err>>

Dispatch(p) ==
    \/ RecvOpen(p) \/ RecvOpenResult(p) \/ RecvLate(p) \/ RecvData(p)
    \/ RecvWindowUpdate(p) \/ RecvHalfClose(p) \/ RecvClose(p)

\* The coroutines of the mux itself resume.
Resume(p, s) ==
    \/ OpenGranted(p, s) \/ OpenRefused(p, s) \/ AcceptDone(p, s) \/ AcceptFail(p, s)

\* _reserve_outgoing wakes up by itself: there is room, or the stream is closed.
WriteWakes(p, s) == WriteResume(p, s) \/ (st[p][s].closed /\ WriteAbort(p, s))

Write(p, s) ==
    \/ \E n \in 1..Chunk : WriteChunk(p, s, n) \/ WriteHold(p, s, n)
    \/ WriteEof(p, s)

Reading(p, s) == ReadEof(p, s) \/ \E n \in 1..Window : Read(p, s, n)

Closing(p, s) == Close(p, s) \/ CloseAgain(p, s)

Next == \E p \in Peers :
    \/ OpenStream(p)
    \/ Dispatch(p)
    \/ \E s \in Ids :
        \/ OpenTimeout(p, s) \/ Resume(p, s)
        \/ Write(p, s) \/ WriteResume(p, s) \/ WriteAbort(p, s)
        \/ Reading(p, s) \/ Closing(p, s)

(***************************************************************************)
(* The runner keeps dispatching, tasks whose wait is over resume, and an   *)
(* application that holds a stream keeps reading it (both bridge_socket    *)
(* and the control handler loop on read()) and closes it once the peer     *)
(* has.  Nobody is obliged to open, write, half-close, or close first.     *)
(***************************************************************************)
Fairness == \A p \in Peers :
    /\ WF_vars(Dispatch(p))
    /\ \A s \in Ids :
        /\ WF_vars(Resume(p, s))
        /\ WF_vars(WriteWakes(p, s))
        /\ WF_vars(Reading(p, s))

Spec == Init /\ [][Next]_vars /\ Fairness

-----------------------------------------------------------------------------
(* Properties.                                                             *)

\* Two peers that run this code never make each other raise a ProtocolError,
\* which would end every stream of the tunnel: no interleaving of opens,
\* timeouts, writes, reads, half-closes and closes puts a frame on the wire that
\* the other side's checks in _dispatch, _receive and _add_credit refuse.
NoProtocolError == \A p \in Peers : err[p] = "none"

\* What a side counts against the aggregate caps is exactly what its live
\* streams buffer or have reserved; a stream that has left the table holds on
\* to nothing (_reserve_incoming, _release_incoming, _reserve_outgoing,
\* _release_outgoing).
Buffered(p) == UNION {{s} \X (1..st[p][s].buf) : s \in table[p]}
Reserved(p) == UNION {{s} \X (1..st[p][s].reserved) : s \in table[p]}
AggregatesExact == \A p \in Peers :
    /\ incoming[p] = Cardinality(Buffered(p))
    /\ outgoing[p] = Cardinality(Reserved(p))
    /\ outgoing[p] <= Aggregate

\* An application that sees a clean end of file (read() returns b"" and
\* remote_reset is not set) has read every byte the peer wrote, and the peer
\* did half-close: neither an abort nor a CLOSE that overtakes the reader is
\* ever mistaken for the end of the data.
CleanEofIsComplete == \A p \in Peers : \A s \in Ids :
    st[p][s].sawEof =>
        st[Other(p)][s].leof /\ st[p][s].rd = st[Other(p)][s].sent

\* Neither opening nor accepting takes a peer past its max_streams.
StreamLimit == \A p \in Peers : Cardinality(table[p]) <= MaxStreams[p]

\* Every stream, in both directions, is a sliding window: data arrives in order
\* and the sender is never more than one window ahead of the reader.
Direction(p, s) == INSTANCE SlidingWindow WITH
    sent <- st[p][s].sent, recvd <- st[Other(p)][s].recvd,
    read <- st[Other(p)][s].rd, credited <- st[p][s].credited
ImplementsWindow ==
    /\ \A p \in Peers : \A s \in Ids : Direction(p, s)!Init
    /\ [][\A p \in Peers : \A s \in Ids :
            [Direction(p, s)!Next]_<<st[p][s].sent, st[Other(p)][s].recvd,
                                     st[Other(p)][s].rd, st[p][s].credited>>]_vars

\* No stream is left behind: when one end has given a stream up, by closing it,
\* by a timeout of its open or by a failed handler, the other end's table
\* entry goes away too, unless open_stream gave it up at the moment it had been
\* granted (KeptForReader is about those).
StreamsReleased == \A p \in Peers : \A s \in Ids :
    st[Other(p)][s].phase = "gone" ~> s \notin table[p] \/ st[p][s].phase = "gone"

\* "Preserve data already delivered before HALF_CLOSE until the application reads
\* it" (_remote_close): a closed stream that stays in the table for its bytes has
\* an application to read them, or open_stream is about to hand it to one.
KeptForReader == \A p \in Peers : \A s \in table[p] :
    st[p][s].closed => st[p][s].phase \in {"granted", "open"}

\* Why that is so: an entry whose other end is gone has its end in sight.  The
\* CLOSE or the refusal that removes it is on the wire, or has arrived and only
\* bytes to read, or open_stream's own next step, are left.
NoOrphan == \A p \in Peers : \A s \in table[p] :
    st[Other(p)][s].phase = "gone" =>
        \/ \E i \in 1..Len(wire[Other(p)]) :
                LET f == wire[Other(p)][i] IN
                f.id = s /\ (f.kind = "CLOSE" \/ (f.kind = "OPEN_RESULT" /\ ~f.ok))
        \/ st[p][s].closed /\ st[p][s].buf > 0
        \/ st[p][s].phase = "refused"

\* A write that waits for aggregate credit gets it, or learns that its stream
\* has been closed.
HeldWriteEnds == \A p \in Peers : \A s \in Ids :
    st[p][s].held > 0 ~> st[p][s].held = 0

=============================================================================
