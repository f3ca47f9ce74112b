-------------------------- MODULE MuxStreamsProofs ---------------------------
(***************************************************************************)
(* Proofs about MuxStreams for every number of streams, window, chunk size,*)
(* stream limit and aggregate cap.                                         *)
(***************************************************************************)
EXTENDS MuxStreams, FiniteSetTheorems, TLAPS

USE IdAssumption, WindowAssumption, LimitAssumption

-----------------------------------------------------------------------------
(* What the helpers return.                                                *)

LEMMA PeersType ==
    ASSUME NEW p \in Peers
    PROVE  Other(p) \in Peers /\ Other(p) # p
BY DEF Peers, Other

LEMMA NewStreamType ==
    ASSUME NEW phase \in Phases
    PROVE  NewStream(phase) \in Stream
BY DEF NewStream, Stream

\* The updates of a stream that the actions make, with their new values named.
LEMMA StreamUpdates ==
    ASSUME NEW r \in Stream, NEW a \in Nat, NEW b \in Nat, NEW c \in Nat, NEW v \in BOOLEAN
    PROVE  /\ [r EXCEPT !.reserved = a, !.sent = b] \in Stream
           /\ [r EXCEPT !.credit = a, !.held = b] \in Stream
           /\ [r EXCEPT !.held = a, !.credit = b] \in Stream
           /\ [r EXCEPT !.buf = a, !.rcredit = b, !.rd = c] \in Stream
           /\ [r EXCEPT !.phase = "gone", !.buf = a, !.rcredit = b] \in Stream
           /\ [r EXCEPT !.rcredit = a, !.buf = b, !.recvd = c] \in Stream
           /\ [r EXCEPT !.credit = a, !.reserved = b, !.credited = c] \in Stream
           /\ [r EXCEPT !.sawEof = v] \in Stream
           /\ [r EXCEPT !.reof = v] \in Stream
BY DEF Stream, Phases

LEMMA MarkClosedType ==
    ASSUME NEW r \in Stream, NEW remote \in BOOLEAN
    PROVE  MarkClosed(r, remote) \in Stream
<1> DEFINE reset == r.reset \/ remote
           rcredit == IF r.rcredit + r.buf > Window THEN Window ELSE r.rcredit + r.buf
<1>1. reset \in BOOLEAN
  OBVIOUS
<1>2. rcredit \in Nat
  BY DEF Stream
<1> HIDE DEF reset, rcredit
<1>3. [r EXCEPT !.closed = TRUE, !.reof = TRUE, !.reset = reset, !.buf = 0,
                !.rcredit = rcredit, !.credit = Window, !.reserved = 0] \in Stream
  BY <1>1, <1>2 DEF Stream
<1> QED
  BY <1>3 DEF MarkClosed, reset, rcredit

LEMMA RemoteCloseType ==
    ASSUME NEW r \in Stream
    PROVE  RemoteClose(r) \in Stream
BY MarkClosedType DEF RemoteClose, Stream

LEMMA FrameType ==
    ASSUME NEW kind \in FrameKinds, NEW s \in Ids, NEW ok \in BOOLEAN,
           NEW from \in Nat, NEW n \in Nat
    PROVE  /\ Control(kind, s) \in Frame
           /\ OpenResult(s, ok) \in Frame
           /\ Span(kind, s, from, n) \in Frame
<1>1. Control(kind, s) \in Frame
  BY DEF Control, Frame
<1>2. Control("OPEN_RESULT", s) \in Frame
  BY DEF Control, Frame, FrameKinds
<1>3. OpenResult(s, ok) \in Frame
  BY <1>2 DEF OpenResult, Frame
<1>4. Span(kind, s, from, n) \in Frame
  <2> DEFINE upto == from + n
  <2>1. upto \in Nat /\ from <= upto
    OBVIOUS
  <2> HIDE DEF upto
  <2>2. [Control(kind, s) EXCEPT !.from = from, !.upto = upto] \in Frame
    BY <1>1, <2>1 DEF Frame
  <2> QED
    BY <2>2 DEF Span, upto
<1> QED
  BY <1>1, <1>3, <1>4

LEMMA ReleaseType ==
    ASSUME NEW counter \in [Peers -> Nat], NEW p \in Peers, NEW amount \in Int
    PROVE  Release(counter, p, amount) \in [Peers -> Nat]
BY DEF Release

LEMMA FinishType ==
    ASSUME TypeOK, NEW p \in Peers, NEW s \in Ids, NEW r \in Stream, NEW keep \in BOOLEAN,
           Finish(p, s, r, keep)
    PROVE  /\ st' \in [Peers -> [Ids -> Stream]]
           /\ incoming' \in [Peers -> Nat]
           /\ outgoing' \in [Peers -> Nat]
           /\ table' \in [Peers -> SUBSET Ids]
<1>1. st[p][s] \in Stream
  BY DEF TypeOK
<1>2. st[p][s].buf - r.buf \in Int /\ st[p][s].reserved - r.reserved \in Int
  BY <1>1 DEF Stream
<1>3. incoming' \in [Peers -> Nat] /\ outgoing' \in [Peers -> Nat]
  BY <1>2, ReleaseType DEF Finish, TypeOK
<1>4. st' \in [Peers -> [Ids -> Stream]]
  BY DEF Finish, Become, TypeOK
<1>5. table' \in [Peers -> SUBSET Ids]
  <2>1. table \in [Peers -> SUBSET Ids]
    BY DEF TypeOK
  <2>2. table' = table \/ Remove(p, s)
    BY DEF Finish
  <2> QED
    BY <2>1, <2>2 DEF Remove
<1> QED
  BY <1>3, <1>4, <1>5

LEMMA BecomeType ==
    ASSUME TypeOK, NEW p \in Peers, NEW s \in Ids, NEW r \in Stream, Become(p, s, r)
    PROVE  st' \in [Peers -> [Ids -> Stream]]
BY DEF Become, TypeOK

LEMMA SendType ==
    ASSUME TypeOK, NEW p \in Peers, NEW f \in Frame, Send(p, f)
    PROVE  wire' \in [Peers -> Seq(Frame)]
BY DEF Send, TypeOK

LEMMA InType ==
    ASSUME TypeOK, NEW p \in Peers, wire[Other(p)] # <<>>
    PROVE  In(p) \in Frame /\ Tail(wire[Other(p)]) \in Seq(Frame)
BY PeersType DEF In, TypeOK

LEMMA PopType ==
    ASSUME TypeOK, NEW p \in Peers, wire[Other(p)] # <<>>, Pop(p)
    PROVE  wire' \in [Peers -> Seq(Frame)]
BY InType, PeersType DEF Pop, TypeOK

LEMMA PopAndSendType ==
    ASSUME TypeOK, NEW p \in Peers, wire[Other(p)] # <<>>, NEW f \in Frame,
           PopAndSend(p, f)
    PROVE  wire' \in [Peers -> Seq(Frame)]
<1>1. Tail(wire[Other(p)]) \in Seq(Frame) /\ Append(wire[p], f) \in Seq(Frame)
  BY InType DEF TypeOK
<1> QED
  BY <1>1, PeersType DEF PopAndSend, TypeOK

-----------------------------------------------------------------------------
(* TypeOK is kept by every step.                                           *)

LEMMA OpenTypes ==
    ASSUME TypeOK, NEW p \in Peers, OpenStream(p)
    PROVE  TypeOK'
<1> DEFINE s == nextId[p]
<1>1. s \in Ids
  BY DEF OpenStream, TypeOK, Ids
<1>2. st' \in [Peers -> [Ids -> Stream]]
  BY <1>1, NewStreamType, BecomeType DEF OpenStream, Phases
<1>3. wire' \in [Peers -> Seq(Frame)]
  <2>1. Control("OPEN", s) \in Frame
    BY <1>1 DEF Control, Frame, FrameKinds
  <2>2. Send(p, Control("OPEN", s))
    BY DEF OpenStream
  <2> HIDE DEF s
  <2> QED
    BY <2>1, <2>2, SendType
<1>4. nextId' \in [Peers -> Nat \ {0}] /\ table' \in [Peers -> SUBSET Ids]
  BY <1>1 DEF OpenStream, TypeOK
<1> QED
  BY <1>2, <1>3, <1>4 DEF OpenStream, TypeOK

\* Every action that replaces a stream by MarkClosed of it, in phase gone.
LEMMA ClosedType ==
    ASSUME NEW r \in Stream
    PROVE  /\ [MarkClosed(r, FALSE) EXCEPT !.phase = "gone"] \in Stream
           /\ [RemoteClose(r) EXCEPT !.phase = "gone"] \in Stream
           /\ [RemoteClose(r) EXCEPT !.phase = IF @ = "accepting" THEN "gone" ELSE @] \in Stream
           /\ KeptAfterClose(RemoteClose(r)) \in BOOLEAN
<1> DEFINE m == MarkClosed(r, FALSE)
           c == RemoteClose(r)
<1>1. m \in Stream /\ c \in Stream
  BY MarkClosedType, RemoteCloseType
<1> HIDE DEF m, c
<1>2. /\ [m EXCEPT !.phase = "gone"] \in Stream
      /\ [c EXCEPT !.phase = "gone"] \in Stream
  BY <1>1 DEF Stream, Phases
<1>3. [c EXCEPT !.phase = IF @ = "accepting" THEN "gone" ELSE @] \in Stream
  BY <1>1 DEF Stream, Phases
<1> QED
  BY <1>2, <1>3 DEF m, c, KeptAfterClose

LEMMA ForgetType ==
    ASSUME TypeOK, NEW p \in Peers, NEW s \in Ids, Forget(p, s)
    PROVE  /\ st' \in [Peers -> [Ids -> Stream]]
           /\ incoming' \in [Peers -> Nat] /\ outgoing' \in [Peers -> Nat]
           /\ table' \in [Peers -> SUBSET Ids]
<1> DEFINE c == [MarkClosed(st[p][s], FALSE) EXCEPT !.phase = "gone"]
<1>1. c \in Stream /\ st[p][s].closed \in BOOLEAN
  <2>1. st[p][s] \in Stream
    BY DEF TypeOK
  <2>2. st[p][s].closed \in BOOLEAN
    BY <2>1 DEF Stream
  <2> QED
    BY <2>1, <2>2, ClosedType
<1>2. Finish(p, s, c, st[p][s].closed)
  BY DEF Forget
<1> HIDE DEF c
<1> QED
  BY <1>1, <1>2, FinishType

LEMMA ResumeTypes ==
    ASSUME TypeOK, NEW p \in Peers, NEW s \in Ids, OpenTimeout(p, s) \/ Resume(p, s)
    PROVE  TypeOK'
<1> DEFINE r == st[p][s]
<1>0. r \in Stream
  BY DEF TypeOK
<1>c. Control("CLOSE", s) \in Frame /\ \A ok \in BOOLEAN : OpenResult(s, ok) \in Frame
  BY FrameType DEF FrameKinds
<1>o. [r EXCEPT !.phase = "open"] \in Stream
  BY <1>0 DEF Stream, Phases
<1>1. CASE OpenTimeout(p, s)
  <2>1. wire' \in [Peers -> Seq(Frame)]
    BY <1>1, <1>c, SendType DEF OpenTimeout
  <2> QED
    BY <1>1, <2>1, ForgetType DEF OpenTimeout, TypeOK
<1>2. CASE OpenGranted(p, s)
  BY <1>2, <1>o, BecomeType DEF OpenGranted, TypeOK
<1>3. CASE OpenRefused(p, s)
  BY <1>3, ForgetType DEF OpenRefused, TypeOK
<1>4. CASE AcceptDone(p, s)
  <2>1. wire' \in [Peers -> Seq(Frame)]
    BY <1>4, <1>c, SendType DEF AcceptDone
  <2> QED
    BY <1>4, <1>o, <2>1, BecomeType DEF AcceptDone, TypeOK
<1>5. CASE AcceptFail(p, s)
  <2> DEFINE c == [RemoteClose(r) EXCEPT !.phase = "gone"]
  <2>1. c \in Stream /\ KeptAfterClose(c) \in BOOLEAN
    BY <1>0, ClosedType DEF KeptAfterClose
  <2>2. Finish(p, s, c, KeptAfterClose(c)) /\ Send(p, OpenResult(s, FALSE))
    BY <1>5 DEF AcceptFail
  <2>3. wire' \in [Peers -> Seq(Frame)]
    BY <2>2, <1>c, SendType
  <2> HIDE DEF c
  <2>4. /\ st' \in [Peers -> [Ids -> Stream]]
        /\ incoming' \in [Peers -> Nat] /\ outgoing' \in [Peers -> Nat]
        /\ table' \in [Peers -> SUBSET Ids]
    BY <2>1, <2>2, FinishType
  <2> QED
    BY <1>5, <2>3, <2>4 DEF AcceptFail, TypeOK
<1> QED
  BY <1>1, <1>2, <1>3, <1>4, <1>5 DEF Resume

LEMMA SendDataType ==
    ASSUME TypeOK, NEW p \in Peers, NEW s \in Ids, NEW n \in Nat, NEW r \in Stream,
           SendData(p, s, n, r)
    PROVE  /\ st' \in [Peers -> [Ids -> Stream]]
           /\ wire' \in [Peers -> Seq(Frame)]
           /\ outgoing' \in [Peers -> Nat]
<1>1. Span("DATA", s, r.sent, n) \in Frame
  BY FrameType DEF FrameKinds, Stream
<1>2. wire' \in [Peers -> Seq(Frame)]
  BY <1>1, SendType DEF SendData
<1>3. [r EXCEPT !.reserved = @ + n, !.sent = @ + n] \in Stream
  <2>1. r.reserved + n \in Nat /\ r.sent + n \in Nat
    BY DEF Stream
  <2> QED
    BY <2>1, StreamUpdates
<1>4. st' \in [Peers -> [Ids -> Stream]]
  BY <1>3, BecomeType DEF SendData
<1>5. outgoing' \in [Peers -> Nat]
  BY DEF SendData, TypeOK
<1> QED
  BY <1>2, <1>4, <1>5

LEMMA WriteTypes ==
    ASSUME TypeOK, NEW p \in Peers, NEW s \in Ids,
           Write(p, s) \/ WriteResume(p, s) \/ WriteAbort(p, s)
    PROVE  TypeOK'
<1> DEFINE r == st[p][s]
<1>0. r \in Stream
  BY DEF TypeOK
<1>1. ASSUME NEW n \in 1..Chunk, WriteChunk(p, s, n) PROVE TypeOK'
  <2>1. n \in Nat /\ [r EXCEPT !.credit = @ - n] \in Stream
    BY <1>0, <1>1 DEF WriteChunk, Sendable, Stream
  <2>2. SendData(p, s, n, [r EXCEPT !.credit = @ - n])
    BY <1>1 DEF WriteChunk
  <2> QED
    BY <1>1, <2>1, <2>2, SendDataType DEF WriteChunk, TypeOK
<1>2. ASSUME NEW n \in 1..Chunk, WriteHold(p, s, n) PROVE TypeOK'
  <2>1. [r EXCEPT !.credit = @ - n, !.held = n] \in Stream
    <3>1. r.credit - n \in Nat /\ n \in Nat
      BY <1>0, <1>2 DEF WriteHold, Sendable, Stream
    <3> QED
      BY <1>0, <3>1, StreamUpdates
  <2> QED
    BY <1>2, <2>1, BecomeType DEF WriteHold, TypeOK
<1>3. CASE WriteResume(p, s)
  <2>1. r.held \in Nat /\ [r EXCEPT !.held = 0] \in Stream
    BY <1>0 DEF Stream
  <2>2. SendData(p, s, r.held, [r EXCEPT !.held = 0])
    BY <1>3 DEF WriteResume
  <2> QED
    BY <1>3, <2>1, <2>2, SendDataType DEF WriteResume, TypeOK
<1>4. CASE WriteAbort(p, s)
  <2>1. [r EXCEPT !.held = 0, !.credit = IF r.closed THEN @ ELSE @ + r.held] \in Stream
    <3>1. (IF r.closed THEN r.credit ELSE r.credit + r.held) \in Nat
      BY <1>0 DEF Stream
    <3> QED
      BY <1>0, <3>1, StreamUpdates
  <2> QED
    BY <1>4, <2>1, BecomeType DEF WriteAbort, TypeOK
<1>5. CASE WriteEof(p, s)
  <2>1. [r EXCEPT !.leof = TRUE] \in Stream
    BY <1>0 DEF Stream
  <2>2. wire' \in [Peers -> Seq(Frame)]
    BY <1>5, FrameType, SendType DEF WriteEof, FrameKinds
  <2> QED
    BY <1>5, <2>1, <2>2, BecomeType DEF WriteEof, TypeOK
<1> QED
  BY <1>1, <1>2, <1>3, <1>4, <1>5 DEF Write

LEMMA ReadTypes ==
    ASSUME TypeOK, NEW p \in Peers, NEW s \in Ids, Reading(p, s)
    PROVE  TypeOK'
<1> DEFINE r == st[p][s]
<1>0. r \in Stream
  BY DEF TypeOK
<1>1. ASSUME NEW n \in 1..Window, Read(p, s, n) PROVE TypeOK'
  <2> DEFINE c == [r EXCEPT !.buf = @ - n, !.rcredit = @ + n, !.rd = @ + n]
             keep == ~(c.closed /\ c.buf = 0)
  <2>1. n \in Nat /\ c \in Stream /\ keep \in BOOLEAN
    <3>1. n \in Nat /\ r.buf - n \in Nat /\ r.rcredit + n \in Nat /\ r.rd + n \in Nat
      BY <1>0, <1>1 DEF Read, Stream
    <3>2. c \in Stream
      BY <1>0, <3>1, StreamUpdates
    <3> QED
      BY <3>1, <3>2
  <2>2. Finish(p, s, c, keep)
    BY <1>1 DEF Read
  <2>3. wire' \in [Peers -> Seq(Frame)]
    <3>1. Span("WINDOW_UPDATE", s, r.rd, n) \in Frame
      BY <1>0, <2>1, FrameType DEF FrameKinds, Stream
    <3> QED
      BY <1>1, <3>1, SendType DEF Read, TypeOK
  <2> HIDE DEF c, keep
  <2>4. /\ st' \in [Peers -> [Ids -> Stream]]
        /\ incoming' \in [Peers -> Nat] /\ outgoing' \in [Peers -> Nat]
        /\ table' \in [Peers -> SUBSET Ids]
    BY <2>1, <2>2, FinishType
  <2> QED
    BY <1>1, <2>3, <2>4 DEF Read, TypeOK
<1>2. CASE ReadEof(p, s)
  <2> DEFINE c == [r EXCEPT !.sawEof = ~r.reset]
  <2>1. c \in Stream /\ (~r.closed) \in BOOLEAN
    <3>1. (~r.reset) \in BOOLEAN
      OBVIOUS
    <3> QED
      BY <1>0, <3>1, StreamUpdates
  <2>2. Finish(p, s, c, ~r.closed)
    BY <1>2 DEF ReadEof
  <2> HIDE DEF c
  <2>3. /\ st' \in [Peers -> [Ids -> Stream]]
        /\ incoming' \in [Peers -> Nat] /\ outgoing' \in [Peers -> Nat]
        /\ table' \in [Peers -> SUBSET Ids]
    BY <2>1, <2>2, FinishType
  <2> QED
    BY <1>2, <2>3 DEF ReadEof, TypeOK
<1> QED
  BY <1>1, <1>2 DEF Reading

LEMMA CloseTypes ==
    ASSUME TypeOK, NEW p \in Peers, NEW s \in Ids, Closing(p, s)
    PROVE  TypeOK'
<1> DEFINE r == st[p][s]
<1>0. r \in Stream
  BY DEF TypeOK
<1>1. CASE Close(p, s)
  <2> DEFINE c == [MarkClosed(r, FALSE) EXCEPT !.phase = "gone"]
  <2>1. c \in Stream
    BY <1>0, ClosedType
  <2>2. Finish(p, s, c, FALSE) /\ Send(p, Control("CLOSE", s))
    BY <1>1 DEF Close
  <2>3. wire' \in [Peers -> Seq(Frame)]
    BY <2>2, FrameType, SendType DEF FrameKinds
  <2> HIDE DEF c
  <2> QED
    BY <1>1, <2>1, <2>2, <2>3, FinishType DEF Close, TypeOK
<1>2. CASE CloseAgain(p, s)
  <2> DEFINE c == [r EXCEPT !.phase = "gone", !.buf = 0,
                    !.rcredit = IF @ + r.buf > Window THEN Window ELSE @ + r.buf]
  <2>1. c \in Stream
    <3>1. (IF r.rcredit + r.buf > Window THEN Window ELSE r.rcredit + r.buf) \in Nat
      BY <1>0 DEF Stream
    <3> QED
      BY <1>0, <3>1, StreamUpdates
  <2>2. Finish(p, s, c, FALSE)
    BY <1>2 DEF CloseAgain
  <2> HIDE DEF c
  <2> QED
    BY <1>2, <2>1, <2>2, FinishType DEF CloseAgain, TypeOK
<1> QED
  BY <1>1, <1>2 DEF Closing

\* The branches of a handler that touch no stream.
LEMMA DroppedTypes ==
    ASSUME TypeOK, NEW p \in Peers, wire[Other(p)] # <<>>, NEW why \in Errors,
           Ignore(p) \/ Fail(p, why)
    PROVE  TypeOK'
<1>1. wire' \in [Peers -> Seq(Frame)]
  BY PopType DEF Ignore, Fail
<1>2. err' \in [Peers -> Errors]
  BY DEF Ignore, Fail, TypeOK
<1> QED
  BY <1>1, <1>2 DEF Ignore, Fail, TypeOK

LEMMA RecvOpenTypes ==
    ASSUME TypeOK, NEW p \in Peers, RecvOpen(p)
    PROVE  TypeOK'
<1> DEFINE s == In(p).id
<1>1. wire[Other(p)] # <<>> /\ s \in Ids
  BY InType DEF RecvOpen, Arrives, Frame
<1>2. s \in Nat
  BY <1>1 DEF Ids
<1>3. CASE ~ValidRequest(p, s) /\ Fail(p, "id")
  BY <1>1, <1>3, DroppedTypes DEF Errors
<1>4. CASE /\ highest' = [highest EXCEPT ![p] = s]
           /\ table' = [table EXCEPT ![p] = @ \cup {s}]
           /\ Become(p, s, NewStream("accepting"))
           /\ Pop(p)
           /\ UNCHANGED <<nextId, incoming, outgoing, err>>
  <2>1. wire' \in [Peers -> Seq(Frame)]
    BY <1>1, <1>4, PopType
  <2>2. st' \in [Peers -> [Ids -> Stream]]
    BY <1>1, <1>4, NewStreamType, BecomeType DEF Phases
  <2>3. table' \in [Peers -> SUBSET Ids] /\ highest' \in [Peers -> Nat]
    BY <1>1, <1>2, <1>4 DEF TypeOK
  <2> QED
    BY <1>4, <2>1, <2>2, <2>3 DEF TypeOK
<1>5. CASE /\ highest' = [highest EXCEPT ![p] = s]
           /\ PopAndSend(p, OpenResult(s, FALSE))
           /\ UNCHANGED <<nextId, table, st, incoming, outgoing, err>>
  <2>1. OpenResult(s, FALSE) \in Frame
    BY <1>1, FrameType DEF FrameKinds
  <2>2. wire' \in [Peers -> Seq(Frame)]
    BY <1>1, <1>5, <2>1, PopAndSendType
  <2>3. highest' \in [Peers -> Nat]
    BY <1>2, <1>5 DEF TypeOK
  <2> QED
    BY <1>5, <2>2, <2>3 DEF TypeOK
<1> QED
  BY <1>3, <1>4, <1>5 DEF RecvOpen

LEMMA RecvStreamTypes ==
    ASSUME TypeOK, NEW p \in Peers,
           \/ RecvOpenResult(p) \/ RecvLate(p) \/ RecvData(p)
           \/ RecvWindowUpdate(p) \/ RecvHalfClose(p) \/ RecvClose(p)
    PROVE  TypeOK'
<1> DEFINE f == In(p)
           s == f.id
           r == st[p][s]
           n == Length(f)
<1>0. wire[Other(p)] # <<>>
  BY DEF RecvOpenResult, RecvLate, RecvData, RecvWindowUpdate, RecvHalfClose, RecvClose, Arrives
<1>1. f \in Frame /\ s \in Ids /\ r \in Stream /\ n \in Nat
  <2>1. f \in Frame /\ s \in Ids
    BY <1>0, InType DEF Frame
  <2>2. r \in Stream
    BY <2>1 DEF TypeOK
  <2>3. n \in Nat
    BY <2>1 DEF Frame, Length
  <2> QED
    BY <2>1, <2>2, <2>3
<1>d. \A why \in Errors : Ignore(p) \/ Fail(p, why) => TypeOK'
  BY <1>0, DroppedTypes
<1>w. Pop(p) => wire' \in [Peers -> Seq(Frame)]
  BY <1>0, PopType
<1>2. CASE RecvOpenResult(p)
  <2>1. [r EXCEPT !.phase = IF f.ok THEN "granted" ELSE "refused"] \in Stream
    BY <1>1 DEF Stream, Phases
  <2>2. CASE /\ Become(p, s, [r EXCEPT !.phase = IF f.ok THEN "granted" ELSE "refused"])
             /\ Pop(p)
             /\ UNCHANGED <<nextId, highest, table, incoming, outgoing, err>>
    BY <1>1, <1>w, <2>1, <2>2, BecomeType DEF TypeOK
  <2>3. CASE Ignore(p) \/ Fail(p, "unexpected")
    BY <1>d, <2>3 DEF Errors
  <2> QED
    BY <1>2, <2>2, <2>3 DEF RecvOpenResult
<1>3. CASE RecvLate(p)
  BY <1>3, <1>d DEF RecvLate, Errors
<1>4. CASE RecvData(p)
  <2> DEFINE c == [r EXCEPT !.rcredit = @ - n, !.buf = @ + n, !.recvd = @ + n]
  <2>1. CASE Fail(p, "closure") \/ Fail(p, "window") \/ Fail(p, "aggregate")
    BY <1>d, <2>1 DEF Errors
  <2>2. CASE /\ n <= r.rcredit
             /\ Become(p, s, c)
             /\ incoming' = [incoming EXCEPT ![p] = @ + n]
             /\ Pop(p)
             /\ UNCHANGED <<nextId, highest, table, outgoing, err>>
    <3>1. r.rcredit - n \in Nat /\ r.buf + n \in Nat /\ r.recvd + n \in Nat
      BY <1>1, <2>2 DEF Stream
    <3>2. c \in Stream
      BY <1>1, <3>1, StreamUpdates
    <3>3. st' \in [Peers -> [Ids -> Stream]]
      <4> HIDE DEF c, s
      <4> QED
        BY <1>1, <2>2, <3>2, BecomeType
    <3>4. incoming' \in [Peers -> Nat]
      BY <1>1, <2>2 DEF TypeOK
    <3> QED
      BY <1>w, <2>2, <3>3, <3>4 DEF TypeOK
  <2>3. n > r.rcredit \/ n <= r.rcredit
    BY <1>1 DEF Stream
  <2> QED
    BY <1>4, <2>1, <2>2, <2>3 DEF RecvData
<1>5. CASE RecvWindowUpdate(p)
  <2> DEFINE c == [r EXCEPT !.credit = @ + n, !.reserved = @ - n, !.credited = @ + n]
  <2>1. CASE Fail(p, "credit")
    BY <1>d, <2>1 DEF Errors
  <2>2. CASE /\ n <= r.reserved
             /\ Finish(p, s, c, TRUE)
             /\ Pop(p)
             /\ UNCHANGED <<nextId, highest, err>>
    <3>1. r.credit + n \in Nat /\ r.reserved - n \in Nat /\ r.credited + n \in Nat
      BY <1>1, <2>2 DEF Stream
    <3>2. c \in Stream
      BY <1>1, <3>1, StreamUpdates
    <3>3. /\ st' \in [Peers -> [Ids -> Stream]]
          /\ incoming' \in [Peers -> Nat] /\ outgoing' \in [Peers -> Nat]
          /\ table' \in [Peers -> SUBSET Ids]
      <4> HIDE DEF c, s
      <4> QED
        BY <1>1, <2>2, <3>2, FinishType
    <3> QED
      BY <1>w, <2>2, <3>3 DEF TypeOK
  <2>3. n > r.reserved \/ n <= r.reserved
    BY <1>1 DEF Stream
  <2> QED
    BY <1>5, <2>1, <2>2, <2>3 DEF RecvWindowUpdate
<1>6. CASE RecvHalfClose(p)
  <2>1. [r EXCEPT !.reof = TRUE] \in Stream
    BY <1>1, StreamUpdates
  <2>2. Become(p, s, [r EXCEPT !.reof = TRUE])
    BY <1>6 DEF RecvHalfClose
  <2>3. st' \in [Peers -> [Ids -> Stream]]
    BY <1>1, <2>1, <2>2, BecomeType
  <2> QED
    BY <1>6, <1>w, <2>3 DEF RecvHalfClose, TypeOK
<1>7. CASE RecvClose(p)
  <2> DEFINE c == [RemoteClose(r) EXCEPT !.phase = IF @ = "accepting" THEN "gone" ELSE @]
             keep == KeptAfterClose(RemoteClose(r))
  <2>1. c \in Stream /\ keep \in BOOLEAN
    BY <1>1, ClosedType
  <2>2. Finish(p, s, c, keep)
    BY <1>7 DEF RecvClose
  <2>3. /\ st' \in [Peers -> [Ids -> Stream]]
        /\ incoming' \in [Peers -> Nat] /\ outgoing' \in [Peers -> Nat]
        /\ table' \in [Peers -> SUBSET Ids]
    <3> HIDE DEF c, s, keep
    <3> QED
      BY <1>1, <2>1, <2>2, FinishType
  <2> QED
    BY <1>7, <1>w, <2>3 DEF RecvClose, TypeOK
<1> QED
  BY <1>2, <1>3, <1>4, <1>5, <1>6, <1>7

\* Every variable keeps its type for every value of the constants.  This is where
\* the credit arithmetic of write, _receive and _add_credit is shown never to go
\* below zero.
THEOREM StreamsTypeOK == Spec => []TypeOK
<1>1. Init => TypeOK
  <2> SUFFICES ASSUME Init PROVE TypeOK
    OBVIOUS
  <2>1. st \in [Peers -> [Ids -> Stream]]
    BY NewStreamType DEF Init, Phases
  <2>2. wire \in [Peers -> Seq(Frame)]
    BY DEF Init
  <2>3. err \in [Peers -> Errors]
    BY DEF Init, Errors
  <2> QED
    BY <2>1, <2>2, <2>3 DEF Init, TypeOK
<1>2. TypeOK /\ [Next]_vars => TypeOK'
  <2> SUFFICES ASSUME TypeOK, [Next]_vars PROVE TypeOK'
    OBVIOUS
  <2>1. ASSUME NEW p \in Peers, OpenStream(p) PROVE TypeOK'
    BY <2>1, OpenTypes
  <2>2. ASSUME NEW p \in Peers, Dispatch(p) PROVE TypeOK'
    BY <2>2, RecvOpenTypes, RecvStreamTypes DEF Dispatch
  <2>3. ASSUME NEW p \in Peers, NEW s \in Ids, OpenTimeout(p, s) \/ Resume(p, s)
        PROVE TypeOK'
    BY <2>3, ResumeTypes
  <2>4. ASSUME NEW p \in Peers, NEW s \in Ids,
               Write(p, s) \/ WriteResume(p, s) \/ WriteAbort(p, s)
        PROVE TypeOK'
    BY <2>4, WriteTypes
  <2>5. ASSUME NEW p \in Peers, NEW s \in Ids, Reading(p, s) \/ Closing(p, s)
        PROVE TypeOK'
    BY <2>5, ReadTypes, CloseTypes
  <2>6. CASE UNCHANGED vars
    BY <2>6 DEF vars, TypeOK
  <2> QED
    BY <2>1, <2>2, <2>3, <2>4, <2>5, <2>6 DEF Next
<1> QED
  BY <1>1, <1>2, PTL DEF Spec

-----------------------------------------------------------------------------
(* The stream limit.                                                       *)

\* What a step does to a stream table: it drops streams, or it adds one where
\* there is room.
TableGrows(p) ==
    /\ Cardinality(table[p]) < MaxStreams[p]
    /\ \E s \in Ids : table'[p] = table[p] \cup {s}

TableStep == \A p \in Peers : table'[p] \subseteq table[p] \/ TableGrows(p)

LEMMA FinishTable ==
    ASSUME TypeOK, NEW p \in Peers, NEW s \in Ids, NEW r, NEW keep, Finish(p, s, r, keep)
    PROVE  TableStep
BY DEF Finish, Remove, TypeOK, TableStep

LEMMA StepTable ==
    ASSUME TypeOK, Next
    PROVE  TableStep
<1>0. ASSUME UNCHANGED table PROVE TableStep
  BY <1>0 DEF TableStep
<1>1. ASSUME NEW p \in Peers, OpenStream(p) PROVE TableStep
  <2>1. nextId[p] \in Ids
    BY <1>1 DEF OpenStream, TypeOK, Ids
  <2> QED
    BY <1>1, <2>1 DEF OpenStream, TableStep, TableGrows, TypeOK
<1>2. ASSUME NEW p \in Peers, RecvOpen(p) PROVE TableStep
  <2>1. In(p).id \in Ids
    BY <1>2, InType DEF RecvOpen, Arrives, Frame
  <2> QED
    BY <1>2, <2>1 DEF RecvOpen, Fail, TableStep, TableGrows, TypeOK
<1>3. ASSUME NEW p \in Peers, Dispatch(p) PROVE TableStep
  <2>1. CASE RecvOpen(p)
    BY <1>2, <2>1
  <2>2. CASE RecvOpenResult(p) \/ RecvLate(p) \/ RecvData(p) \/ RecvHalfClose(p)
    BY <1>0, <2>2 DEF RecvOpenResult, RecvLate, RecvData, RecvHalfClose, Ignore, Fail
  <2>3. CASE RecvWindowUpdate(p) \/ RecvClose(p)
    <3>1. In(p).id \in Ids
      BY <2>3, InType DEF RecvWindowUpdate, RecvClose, Arrives, Frame
    <3> QED
      BY <1>0, <2>3, <3>1, FinishTable DEF RecvWindowUpdate, RecvClose, Fail
  <2> QED
    BY <1>3, <2>1, <2>2, <2>3 DEF Dispatch
<1>4. ASSUME NEW p \in Peers, NEW s \in Ids,
             \/ OpenTimeout(p, s) \/ Resume(p, s)
             \/ Reading(p, s) \/ Closing(p, s)
      PROVE TableStep
  BY <1>0, <1>4, FinishTable DEF OpenTimeout, Forget, Resume, OpenGranted, OpenRefused, AcceptDone,
     AcceptFail, Reading, Read, ReadEof, Closing, Close, CloseAgain
<1>5. ASSUME NEW p \in Peers, NEW s \in Ids,
             Write(p, s) \/ WriteResume(p, s) \/ WriteAbort(p, s)
      PROVE TableStep
  BY <1>0, <1>5 DEF Write, WriteChunk, WriteHold, WriteResume, WriteAbort, WriteEof
<1> QED
  BY <1>1, <1>3, <1>4, <1>5 DEF Next

\* No peer ever holds more streams than its max_streams, whoever opened them:
\* open_stream and the OPEN branch of _dispatch are the only places that add to
\* the table, and both look at its size without an await in between.
THEOREM StreamLimitHolds == Spec => []StreamLimit
<1>1. Init => StreamLimit
  BY FS_EmptySet DEF Init, StreamLimit
<1>2. TypeOK /\ StreamLimit /\ [Next]_vars => StreamLimit'
  <2> SUFFICES ASSUME TypeOK, StreamLimit, [Next]_vars, NEW p \in Peers
               PROVE  Cardinality(table'[p]) <= MaxStreams[p]
    BY DEF StreamLimit
  <2>1. IsFiniteSet(table[p]) /\ Cardinality(table[p]) \in Nat
    <3>1. IsFiniteSet(Ids)
      BY FS_Interval DEF Ids
    <3>2. table[p] \subseteq Ids
      BY DEF TypeOK
    <3> QED
      BY <3>1, <3>2, FS_Subset, FS_CardinalityType
  <2>2. Cardinality(table[p]) <= MaxStreams[p] /\ MaxStreams[p] \in Nat
    BY DEF StreamLimit
  <2>3. table'[p] \subseteq table[p] \/ TableGrows(p)
    BY StepTable DEF vars, TableStep
  <2>4. CASE table'[p] \subseteq table[p]
    <3>1. Cardinality(table'[p]) \in Nat /\ Cardinality(table'[p]) <= Cardinality(table[p])
      BY <2>1, <2>4, FS_Subset, FS_CardinalityType
    <3> QED
      BY <2>1, <2>2, <3>1
  <2>5. CASE TableGrows(p)
    <3>1. PICK s \in Ids : table'[p] = table[p] \cup {s}
      BY <2>5 DEF TableGrows
    <3>2. \/ Cardinality(table'[p]) = Cardinality(table[p])
          \/ Cardinality(table'[p]) = Cardinality(table[p]) + 1
      BY <2>1, <3>1, FS_AddElement
    <3> QED
      BY <2>1, <2>2, <2>5, <3>2 DEF TableGrows
  <2> QED
    BY <2>3, <2>4, <2>5
<1> QED
  BY <1>1, <1>2, StreamsTypeOK, PTL DEF Spec

=============================================================================
