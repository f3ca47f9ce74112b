------------------------ MODULE MuxGuaranteesProofs -------------------------
(***************************************************************************)
(* What follows from the invariant of MuxProtocolProofs: a clean end of    *)
(* file is complete, the aggregate counters are exact, no frame is refused *)
(* when the caps leave room, no stream is orphaned, and each direction of  *)
(* a stream is a sliding window.                                           *)
(***************************************************************************)
EXTENDS MuxProtocolProofs

USE IdAssumption, WindowAssumption, LimitAssumption

-----------------------------------------------------------------------------
(* No frame is refused, but for want of aggregate room.                    *)

\* The checks of _receive and of _add_credit.
LEMMA DataFits ==
    ASSUME Inv, NEW p \in Peers, RecvData(p)
    PROVE  LET r == st[p][In(p).id] IN
           /\ ~r.reof /\ ~r.closed /\ ~(Length(In(p)) > r.rcredit)
           /\ Length(In(p)) \in Nat \ {0} /\ r.recvd + Length(In(p)) <= st[Other(p)][In(p).id].sent
<1> DEFINE h == In(p)
           s == h.id
           q == Other(p)
           r == st[p][s]
           a == st[q][s]
<1>1. /\ Arrives(p, FrameKinds) /\ h.kind = "DATA" /\ s \in table[p]
      /\ s \in Ids /\ RecvStep(p, s)
  <2>1. Arrives(p, FrameKinds) /\ h.kind = "DATA" /\ s \in table[p]
    BY DEF RecvData, Arrives, FrameKinds
  <2>2. s \in Ids
    BY <2>1, Arrival
  <2> QED
    BY <2>1, <2>2, RecvDatas
<1>2. /\ q \in Peers /\ Other(q) = p /\ r \in Stream /\ a \in Stream /\ h \in Frame
      /\ StreamOK(p, s) /\ StreamOK(q, s) /\ ~Told(p, s)
      /\ Taken(wire[q], wire'[q], h, s)
  BY <1>1, Now, RecvParts DEF In
<1>3. /\ LocalOK(r, s \in table[p]) /\ LocalOK(a, s \in table[q])
      /\ EofOK(q, s) /\ CreditOK(q, s)
      /\ Spans(wire[q], "DATA", s, r.recvd, a.sent)
  BY <1>2 DEF StreamOK, DataOK
<1>4. /\ r.recvd \in Nat /\ r.rd \in Nat /\ r.buf \in Nat /\ r.rcredit \in Nat
      /\ a.sent \in Nat /\ a.credited \in Nat /\ h.from \in Nat /\ h.upto \in Nat
  BY <1>2 DEF Stream, Frame
<1>5. r.recvd <= h.from /\ h.from < h.upto /\ h.upto <= a.sent
  BY <1>1, <1>2, <1>3, <1>4 DEF Taken, FrameKinds
<1>6. ~r.closed
  BY <1>1, <1>2 DEF Told
<1>7. ~r.reof
  <2>1. r.phase # "gone" /\ ~r.reset
    BY <1>3, <1>6 DEF LocalOK
  <2>2. r.reof => r.recvd = a.sent
    BY <1>2, <1>3, <2>1 DEF EofOK
  <2> QED
    BY <1>4, <1>5, <2>2
<1>8. a.sent <= a.credited + Window /\ a.credited <= r.rd
  BY <1>2, <1>3 DEF LocalOK, CreditOK
<1>9. r.rd + r.buf = r.recvd /\ r.rcredit + r.buf = Window
  BY <1>3, <1>6 DEF LocalOK
<1>10. Length(h) \in Nat \ {0} /\ Length(h) <= r.rcredit /\ r.recvd + Length(h) <= a.sent
  BY <1>4, <1>5, <1>8, <1>9 DEF Length
<1> HIDE DEF h, r, a
<1>11. /\ ~r.reof /\ ~r.closed /\ ~(Length(h) > r.rcredit)
       /\ Length(h) \in Nat \ {0} /\ r.recvd + Length(h) <= a.sent
  BY <1>4, <1>6, <1>7, <1>10
<1> QED
  BY <1>11 DEF h, r, a

LEMMA UpdateFits ==
    ASSUME Inv, NEW p \in Peers, RecvWindowUpdate(p)
    PROVE  LET r == st[p][In(p).id]
               n == Length(In(p)) IN
           /\ ~(n = 0 \/ n > Window - r.credit \/ n > r.reserved)
           /\ n \in Nat \ {0} /\ r.credited + n <= st[Other(p)][In(p).id].rd
<1> DEFINE h == In(p)
           s == h.id
           q == Other(p)
           r == st[p][s]
           a == st[q][s]
           n == Length(h)
<1>1. /\ Arrives(p, FrameKinds) /\ h.kind = "WINDOW_UPDATE" /\ s \in table[p]
      /\ s \in Ids /\ RecvStep(p, s)
  <2>1. Arrives(p, FrameKinds) /\ h.kind = "WINDOW_UPDATE" /\ s \in table[p]
    BY DEF RecvWindowUpdate, Arrives, FrameKinds
  <2>2. s \in Ids
    BY <2>1, Arrival
  <2> QED
    BY <2>1, <2>2, RecvUpdates
<1>2. /\ q \in Peers /\ Other(q) = p /\ r \in Stream /\ a \in Stream /\ h \in Frame
      /\ StreamOK(p, s) /\ StreamOK(q, s) /\ ~Told(p, s)
      /\ Taken(wire[q], wire'[q], h, s)
  BY <1>1, Now, RecvParts DEF In
<1>3. /\ LocalOK(r, s \in table[p]) /\ LocalOK(a, s \in table[q])
      /\ a.recvd <= r.sent
      /\ Spans(wire[q], "WINDOW_UPDATE", s, r.credited, a.rd)
  BY <1>2 DEF StreamOK, DataOK, CreditOK
<1>4. /\ r.credit \in Nat /\ r.reserved \in Nat /\ r.held \in Nat /\ r.sent \in Nat
      /\ r.credited \in Nat /\ a.rd \in Nat /\ a.buf \in Nat /\ a.recvd \in Nat
      /\ h.from \in Nat /\ h.upto \in Nat
  BY <1>2 DEF Stream, Frame
<1>5. r.credited <= h.from /\ h.from < h.upto /\ h.upto <= a.rd
  BY <1>1, <1>2, <1>3, <1>4 DEF Taken, FrameKinds
<1>6. ~r.closed
  BY <1>1, <1>2 DEF Told
<1>7. r.credit + r.held + r.reserved = Window /\ r.reserved + r.credited = r.sent
  BY <1>3, <1>6 DEF LocalOK
<1>8. a.rd + a.buf <= a.recvd
  BY <1>3 DEF LocalOK
<1>9. /\ n \in Nat \ {0} /\ r.credited + n <= a.rd
      /\ n <= r.reserved /\ n <= Window - r.credit
  BY <1>3, <1>4, <1>5, <1>7, <1>8 DEF Length
<1> HIDE DEF h, r, a, n
<1>10. /\ ~(n = 0 \/ n > Window - r.credit \/ n > r.reserved)
       /\ n \in Nat \ {0} /\ r.credited + n <= a.rd
  BY <1>4, <1>9
<1> QED
  BY <1>10 DEF h, r, a, n

LEMMA NoOtherError ==
    ASSUME Inv, NEW p \in Peers,
           \/ OpenStream(p) \/ RecvOpen(p) \/ RecvAction(p)
           \/ \E s \in Ids : AppAction(p, s)
    PROVE  err' = err \/ (RecvData(p) /\ Fail(p, "aggregate") /\ incoming[p] + Length(In(p)) > Aggregate)
<1>1. CASE OpenStream(p)
  BY <1>1 DEF OpenStream
<1>2. ASSUME NEW s \in Ids, AppAction(p, s) PROVE err' = err
  BY <1>2, AppActions DEF AppAction, AppStep
<1>3. CASE RecvOpen(p)
  <2>1. TypeOK' /\ ValidRequest(p, In(p).id)
    BY <1>3, RecvOpenTypes, RequestsKeep DEF Inv
  <2> QED
    BY <1>3, <2>1 DEF RecvOpen
<1>4. CASE RecvData(p)
  <2>1. err' = err \/ (Fail(p, "aggregate") /\ incoming[p] + Length(In(p)) > Aggregate)
    BY <1>4, DataFits, Zenon DEF RecvData
  <2> QED
    BY <1>4, <2>1
<1>5. CASE RecvWindowUpdate(p)
  BY <1>5, UpdateFits, Zenon DEF RecvWindowUpdate
<1>6. CASE RecvHalfClose(p) \/ RecvClose(p)
  BY <1>6 DEF RecvHalfClose, RecvClose
<1>7. CASE RecvOpenResult(p) \/ RecvLate(p)
  <2>1. In(p).id \in Ids /\ RecvStep(p, In(p).id)
    <3>1. TypeOK'
      BY <1>7, RecvStreamTypes DEF Inv
    <3> QED
      BY <1>7, <3>1, RecvOthers
  <2>2. Stale(p, In(p).id)
    BY <2>1, RecvParts
  <2> QED
    BY <1>7, <2>2 DEF RecvOpenResult, RecvLate, Ignore
<1> QED
  BY <1>1, <1>2, <1>3, <1>4, <1>5, <1>6, <1>7 DEF RecvAction

-----------------------------------------------------------------------------
(* Counting the bytes of all streams of a peer.                            *)

\* One element for each unit of f, over all IDs.
Cells(f) == UNION {{s} \X (1..f[s]) : s \in Ids}
Levels == [Ids -> 0..Window]

LEMMA CellsFinite ==
    ASSUME NEW f \in Levels
    PROVE  /\ IsFiniteSet(Cells(f)) /\ Cardinality(Cells(f)) \in Nat
           /\ Cells(f) \subseteq Ids \X (1..Window)
<1>1. IsFiniteSet(Ids \X (1..Window))
  <2>1. MaxId \in Int /\ Window \in Int /\ 1 \in Int
    OBVIOUS
  <2>2. IsFiniteSet(1..MaxId) /\ IsFiniteSet(1..Window)
    BY <2>1, FS_Interval
  <2> QED
    BY <2>2, FS_Product DEF Ids
<1>2. Cells(f) \subseteq Ids \X (1..Window)
  <2>1. ASSUME NEW s \in Ids PROVE {s} \X (1..f[s]) \subseteq Ids \X (1..Window)
    <3>1. 1..f[s] \subseteq 1..Window
      BY DEF Levels
    <3> QED
      BY <3>1
  <2> QED
    BY <2>1 DEF Cells
<1> QED
  BY <1>1, <1>2, FS_Subset, FS_CardinalityType

\* The cells of one stream and of the others.
LEMMA CellsSplit ==
    ASSUME NEW f \in Levels, NEW s \in Ids, NEW R,
           R = UNION {{y} \X (1..f[y]) : y \in Ids \ {s}}
    PROVE  /\ IsFiniteSet(R) /\ Cardinality(R) \in Nat
           /\ Cardinality(Cells(f)) = Cardinality(R) + f[s]
<1> DEFINE C == {s} \X (1..f[s])
<1>1. f[s] \in Nat
  BY DEF Levels
<1>2. IsFiniteSet(C) /\ Cardinality(C) = f[s]
  <2>1. IsFiniteSet({s}) /\ Cardinality({s}) = 1
    BY FS_Singleton
  <2>2. IsFiniteSet(1..f[s]) /\ Cardinality(1..f[s]) = f[s]
    <3>1. f[s] \in Int /\ 1 \in Int
      BY <1>1
    <3>2. /\ IsFiniteSet(1..f[s])
          /\ Cardinality(1..f[s]) = IF 1 > f[s] THEN 0 ELSE f[s] - 1 + 1
      BY <3>1, FS_Interval
    <3> QED
      BY <1>1, <3>2
  <2>3. IsFiniteSet(C) /\ Cardinality(C) = Cardinality({s}) * Cardinality(1..f[s])
    BY <2>1, <2>2, FS_Product
  <2> QED
    BY <1>1, <2>1, <2>2, <2>3
<1>3. Cells(f) = R \cup C
  BY DEF Cells
<1>4. R \cap C = {}
  OBVIOUS
<1>5. IsFiniteSet(R) /\ Cardinality(R) \in Nat
  BY <1>3, CellsFinite, FS_Subset, FS_CardinalityType
<1>6. Cardinality({}) = 0
  BY FS_EmptySet
<1> HIDE DEF C
<1>7. Cardinality(R \cup C) = Cardinality(R) + Cardinality(C) - Cardinality(R \cap C)
  BY <1>2, <1>5, FS_Union
<1>z. Cardinality(R \cap C) = 0
  BY <1>4, <1>6, Zenon
<1>8. Cardinality(R \cup C) = Cardinality(R) + f[s]
  <2>1. ASSUME NEW a \in Nat, NEW b \in Nat, NEW c, NEW d, c = a + b - d, d = 0 PROVE c = a + b
    BY <2>1
  <2> QED
    BY <1>1, <1>2, <1>5, <1>z, <1>7
<1> QED
  BY <1>3, <1>5, <1>8

\* Changing the amount of one stream.
LEMMA CellsChange ==
    ASSUME NEW f \in Levels, NEW g \in Levels, NEW s \in Ids,
           \A y \in Ids : y # s => g[y] = f[y]
    PROVE  /\ Cardinality(Cells(f)) \in Nat /\ f[s] <= Cardinality(Cells(f))
           /\ Cardinality(Cells(g)) = Cardinality(Cells(f)) - f[s] + g[s]
<1> DEFINE R == UNION {{y} \X (1..f[y]) : y \in Ids \ {s}}
<1>1. R = UNION {{y} \X (1..g[y]) : y \in Ids \ {s}}
  OBVIOUS
<1> HIDE DEF R
<1>2. Cardinality(R) \in Nat /\ Cardinality(Cells(f)) = Cardinality(R) + f[s]
  BY CellsSplit DEF R
<1>3. Cardinality(Cells(g)) = Cardinality(R) + g[s]
  BY <1>1, CellsSplit
<1>4. f[s] \in Nat /\ g[s] \in Nat
  BY DEF Levels
<1> QED
  BY <1>2, <1>3, <1>4

-----------------------------------------------------------------------------
(* The counters of the aggregate caps.                                     *)

Buffers(p) == [s \in Ids |-> st[p][s].buf]
Reserves(p) == [s \in Ids |-> st[p][s].reserved]

CountsOK == \A p \in Peers :
    /\ incoming[p] = Cardinality(Cells(Buffers(p)))
    /\ outgoing[p] = Cardinality(Cells(Reserves(p)))
    /\ outgoing[p] <= Aggregate

InLevels == \A p \in Peers : Buffers(p) \in Levels /\ Reserves(p) \in Levels

LEMMA WithinWindow == Inv => InLevels
<1> SUFFICES ASSUME Inv, NEW p \in Peers
             PROVE  Buffers(p) \in Levels /\ Reserves(p) \in Levels
  BY DEF InLevels
<1>1. ASSUME NEW s \in Ids
      PROVE  st[p][s].buf \in 0..Window /\ st[p][s].reserved \in 0..Window
  <2> DEFINE r == st[p][s]
  <2>1. r \in Stream /\ LocalOK(r, s \in table[p])
    BY Now DEF StreamOK
  <2>2. /\ r.buf \in Nat /\ r.reserved \in Nat /\ r.rcredit \in Nat
        /\ r.credit \in Nat /\ r.held \in Nat
    BY <2>1 DEF Stream
  <2>3. r.buf <= Window
    <3>1. CASE s \in table[p]
      BY <2>1, <2>2, <3>1 DEF LocalOK
    <3>2. CASE s \notin table[p]
      BY <2>1, <2>2, <3>2 DEF LocalOK
    <3> QED
      BY <3>1, <3>2
  <2>4. r.reserved <= Window
    <3>1. CASE r.closed
      BY <2>1, <2>2, <3>1 DEF LocalOK
    <3>2. CASE ~r.closed
      BY <2>1, <2>2, <3>2 DEF LocalOK
    <3> QED
      BY <3>1, <3>2
  <2> QED
    BY <2>2, <2>3, <2>4
<1> QED
  BY <1>1 DEF Buffers, Reserves, Levels

\* Only streams in the table count.
LEMMA CountsExact == Inv /\ CountsOK => AggregatesExact
<1> SUFFICES ASSUME Inv, CountsOK, NEW p \in Peers
             PROVE  Cells(Buffers(p)) = Buffered(p) /\ Cells(Reserves(p)) = Reserved(p)
  BY DEF CountsOK, AggregatesExact
<1>1. table[p] \subseteq Ids
  BY DEF Inv, TypeOK
<1>2. ASSUME NEW s \in Ids, s \notin table[p]
      PROVE  1..st[p][s].buf = {} /\ 1..st[p][s].reserved = {}
  <2>1. st[p][s].buf = 0 /\ st[p][s].reserved = 0
    <3>1. LocalOK(st[p][s], s \in table[p])
      BY Now DEF StreamOK
    <3> QED
      BY <1>2, <3>1 DEF LocalOK
  <2> QED
    BY <2>1
<1>3. Cells(Buffers(p)) = UNION {{s} \X (1..st[p][s].buf) : s \in Ids}
  BY DEF Cells, Buffers
<1>4. Cells(Reserves(p)) = UNION {{s} \X (1..st[p][s].reserved) : s \in Ids}
  BY DEF Cells, Reserves
<1> QED
  BY <1>1, <1>2, <1>3, <1>4 DEF Buffered, Reserved

\* The counters of p follow what its stream s buffers and reserves.
Shift(p, s) ==
    /\ \A x \in Peers, y \in Ids : x # p \/ y # s => st'[x][y] = st[x][y]
    /\ incoming' = [incoming EXCEPT ![p] = @ - st[p][s].buf + st'[p][s].buf]
    /\ outgoing' = [outgoing EXCEPT ![p] = @ - st[p][s].reserved + st'[p][s].reserved]
    /\ outgoing'[p] <= Aggregate

LEMMA ShiftKeeps ==
    ASSUME Inv, Inv', CountsOK, NEW p \in Peers, NEW s \in Ids, Shift(p, s)
    PROVE  CountsOK'
<1>1. ASSUME NEW x \in Peers
      PROVE  /\ incoming'[x] = Cardinality(Cells(Buffers(x)'))
             /\ outgoing'[x] = Cardinality(Cells(Reserves(x)'))
             /\ outgoing'[x] <= Aggregate
  <2> DEFINE f == Buffers(x)
             g == Buffers(x)'
             a == Reserves(x)
             b == Reserves(x)'
  <2>1. f \in Levels /\ g \in Levels /\ a \in Levels /\ b \in Levels
    <3>1. InLevels
      BY WithinWindow
    <3>2. InLevels'
      BY WithinWindow, PTL
    <3> QED
      BY <3>1, <3>2 DEF InLevels
  <2> SUFFICES /\ incoming'[x] = Cardinality(Cells(g))
               /\ outgoing'[x] = Cardinality(Cells(b))
               /\ outgoing'[x] <= Aggregate
    OBVIOUS
  <2>2. /\ incoming[x] = Cardinality(Cells(f)) /\ outgoing[x] = Cardinality(Cells(a))
        /\ outgoing[x] <= Aggregate
        /\ incoming[x] \in Nat /\ outgoing[x] \in Nat
        /\ incoming \in [Peers -> Nat] /\ outgoing \in [Peers -> Nat]
    BY DEF CountsOK, Inv, TypeOK
  <2>3. CASE x = p
    <3>1. /\ \A y \in Ids : y # s => g[y] = f[y] /\ b[y] = a[y]
          /\ f[s] = st[p][s].buf /\ g[s] = st'[p][s].buf
          /\ a[s] = st[p][s].reserved /\ b[s] = st'[p][s].reserved
      BY <2>3 DEF Shift, Buffers, Reserves
    <3>2. /\ incoming'[x] = incoming[x] - f[s] + g[s]
          /\ outgoing'[x] = outgoing[x] - a[s] + b[s]
          /\ outgoing'[x] <= Aggregate
      BY <2>2, <2>3, <3>1 DEF Shift
    <3> HIDE DEF f, g, a, b
    <3>3. Cardinality(Cells(g)) = Cardinality(Cells(f)) - f[s] + g[s]
      BY <2>1, <3>1, CellsChange
    <3>4. Cardinality(Cells(b)) = Cardinality(Cells(a)) - a[s] + b[s]
      BY <2>1, <3>1, CellsChange
    <3> QED
      BY <2>2, <3>2, <3>3, <3>4
  <2>4. CASE x # p
    <3>1. f = g /\ a = b /\ incoming'[x] = incoming[x] /\ outgoing'[x] = outgoing[x]
      BY <2>2, <2>4 DEF Shift, Buffers, Reserves
    <3> HIDE DEF f, g, a, b
    <3> QED
      BY <2>2, <3>1
  <2> QED
    BY <2>3, <2>4
<1> QED
  BY <1>1 DEF CountsOK

\* No stream holds more than the counter.
LEMMA Counted ==
    ASSUME Inv, CountsOK, NEW p \in Peers, NEW s \in Ids
    PROVE  st[p][s].buf <= incoming[p] /\ st[p][s].reserved <= outgoing[p]
<1>1. Buffers(p) \in Levels /\ Reserves(p) \in Levels
  BY WithinWindow DEF InLevels
<1>2. Buffers(p)[s] <= Cardinality(Cells(Buffers(p))) /\ Reserves(p)[s] <= Cardinality(Cells(Reserves(p)))
  BY <1>1, CellsChange
<1>3. Buffers(p)[s] = st[p][s].buf /\ Reserves(p)[s] = st[p][s].reserved
  BY DEF Buffers, Reserves
<1> QED
  BY <1>2, <1>3 DEF CountsOK

LEMMA FinishShifts ==
    ASSUME Inv, CountsOK, NEW p \in Peers, NEW s \in Ids, NEW t, NEW keep \in BOOLEAN,
           Finish(p, s, t, keep),
           t.buf \in Nat, t.reserved \in Nat, t.reserved <= st[p][s].reserved
    PROVE  Shift(p, s)
<1> DEFINE r == st[p][s]
           buf == t.buf
           reserved == t.reserved
<1>1. /\ incoming \in [Peers -> Nat] /\ outgoing \in [Peers -> Nat]
      /\ r.buf \in Nat /\ r.reserved \in Nat /\ outgoing[p] <= Aggregate
  <2>1. r \in Stream
    BY Now
  <2> QED
    BY <2>1 DEF Inv, TypeOK, CountsOK, Stream
<1>2. r.buf <= incoming[p] /\ r.reserved <= outgoing[p]
  BY Counted
<1>3. /\ \A x \in Peers, y \in Ids : x # p \/ y # s => st'[x][y] = st[x][y]
      /\ st'[p][s] = t
  BY FinishIs DEF Inv, Elsewhere
<1>4. /\ incoming' = [incoming EXCEPT ![p] = IF r.buf - buf > @ THEN 0 ELSE @ - (r.buf - buf)]
      /\ outgoing' = [outgoing EXCEPT ![p] = IF r.reserved - reserved > @ THEN 0
                                              ELSE @ - (r.reserved - reserved)]
  BY DEF Finish, Release
<1>5. buf \in Nat /\ reserved \in Nat /\ reserved <= r.reserved
  OBVIOUS
<1> HIDE DEF r, buf, reserved
<1>6. /\ incoming' = [incoming EXCEPT ![p] = @ - r.buf + buf]
      /\ outgoing' = [outgoing EXCEPT ![p] = @ - r.reserved + reserved]
  <2>1. /\ ~(r.buf - buf > incoming[p]) /\ ~(r.reserved - reserved > outgoing[p])
        /\ incoming[p] - (r.buf - buf) = incoming[p] - r.buf + buf
        /\ outgoing[p] - (r.reserved - reserved) = outgoing[p] - r.reserved + reserved
    BY <1>1, <1>2, <1>5
  <2> QED
    BY <1>4, <2>1
<1>7. outgoing'[p] <= Aggregate
  <2>1. outgoing'[p] = outgoing[p] - r.reserved + reserved
    BY <1>1, <1>6
  <2> QED
    BY <1>1, <1>5, <2>1
<1> QED
  BY <1>3, <1>6, <1>7 DEF Shift, r, buf, reserved

\* A step that changes what a stream buffers by b and what it reserves by c.
LEMMA BecomeShifts ==
    ASSUME Inv, CountsOK, NEW p \in Peers, NEW s \in Ids, NEW t, Become(p, s, t),
           NEW b \in Nat, NEW c \in Nat,
           t.buf = st[p][s].buf + b, t.reserved = st[p][s].reserved + c,
           incoming' = [incoming EXCEPT ![p] = @ + b],
           outgoing' = [outgoing EXCEPT ![p] = @ + c],
           outgoing[p] + c <= Aggregate
    PROVE  Shift(p, s)
<1> DEFINE r == st[p][s]
<1>1. /\ incoming \in [Peers -> Nat] /\ outgoing \in [Peers -> Nat]
      /\ r.buf \in Nat /\ r.reserved \in Nat
  <2>1. r \in Stream
    BY Now
  <2> QED
    BY <2>1 DEF Inv, TypeOK, Stream
<1>2. /\ \A x \in Peers, y \in Ids : x # p \/ y # s => st'[x][y] = st[x][y]
      /\ st'[p][s] = t
  BY DEF Become, Inv, TypeOK
<1> HIDE DEF r
<1>3. /\ incoming[p] + b = incoming[p] - r.buf + (r.buf + b)
      /\ outgoing[p] + c = outgoing[p] - r.reserved + (r.reserved + c)
  BY <1>1
<1>4. /\ incoming' = [incoming EXCEPT ![p] = @ - r.buf + (r.buf + b)]
      /\ outgoing' = [outgoing EXCEPT ![p] = @ - r.reserved + (r.reserved + c)]
  BY <1>3
<1>5. outgoing'[p] <= Aggregate
  BY <1>1
<1> QED
  BY <1>2, <1>4, <1>5 DEF Shift, r

\* ... or nothing at all.
LEMMA StillShifts ==
    ASSUME Inv, CountsOK, NEW p \in Peers, NEW s \in Ids, NEW t, Become(p, s, t),
           t.buf = st[p][s].buf, t.reserved = st[p][s].reserved, UNCHANGED <<incoming, outgoing>>
    PROVE  Shift(p, s)
<1>1. /\ st[p][s].buf \in Nat /\ st[p][s].reserved \in Nat
      /\ incoming \in [Peers -> Nat] /\ outgoing \in [Peers -> Nat] /\ outgoing[p] <= Aggregate
  <2>1. st[p][s] \in Stream
    BY Now
  <2> QED
    BY <2>1 DEF Inv, TypeOK, CountsOK, Stream
<1>2. /\ \A x \in Peers, y \in Ids : x # p \/ y # s => st'[x][y] = st[x][y]
      /\ st'[p][s] = t
  BY DEF Become, Inv, TypeOK
<1>3. /\ incoming[p] - st[p][s].buf + t.buf = incoming[p]
      /\ outgoing[p] - st[p][s].reserved + t.reserved = outgoing[p]
  BY <1>1
<1>4. /\ incoming' = [incoming EXCEPT ![p] = @ - st[p][s].buf + t.buf]
      /\ outgoing' = [outgoing EXCEPT ![p] = @ - st[p][s].reserved + t.reserved]
  BY <1>1, <1>3
<1> QED
  BY <1>1, <1>2, <1>4 DEF Shift

LEMMA StillCounts ==
    ASSUME CountsOK, UNCHANGED <<st, incoming, outgoing>>
    PROVE  CountsOK'
BY DEF CountsOK, Buffers, Reserves

LEMMA ClosingShifts ==
    ASSUME Inv, CountsOK, NEW p \in Peers, NEW s \in Ids,
           OpenTimeout(p, s) \/ OpenRefused(p, s) \/ AcceptFail(p, s) \/ Closing(p, s)
    PROVE  Shift(p, s)
<1> DEFINE r == st[p][s]
           m == MarkClosed(r, FALSE)
           c == RemoteClose(r)
<1>1. r \in Stream /\ LocalOK(r, s \in table[p]) /\ r.closed \in BOOLEAN
  <2>1. r \in Stream /\ LocalOK(r, s \in table[p])
    BY Now DEF StreamOK
  <2> QED
    BY <2>1 DEF Stream
<1>2. m \in Stream /\ m.reserved = 0 /\ c \in Stream /\ c.reserved = 0
  BY <1>1, ClosedIs, RemoteClosedIs
<1>3. ASSUME NEW a \in Stream, a.reserved = 0
      PROVE  /\ [a EXCEPT !.phase = "gone"].buf \in Nat
             /\ [a EXCEPT !.phase = "gone"].reserved \in Nat
             /\ [a EXCEPT !.phase = "gone"].reserved <= r.reserved
  BY <1>1, <1>3 DEF Stream
<1>4. CASE OpenTimeout(p, s) \/ OpenRefused(p, s)
  <2> DEFINE t == [m EXCEPT !.phase = "gone"]
             keep == r.closed
  <2>1. Finish(p, s, t, keep)
    BY <1>4 DEF OpenTimeout, OpenRefused, Forget
  <2> HIDE DEF m
  <2>2. t.buf \in Nat /\ t.reserved \in Nat /\ t.reserved <= r.reserved /\ keep \in BOOLEAN
    BY <1>1, <1>2, <1>3
  <2> HIDE DEF t, keep
  <2> QED
    BY <2>1, <2>2, FinishShifts
<1>5. CASE AcceptFail(p, s)
  <2> DEFINE t == [c EXCEPT !.phase = "gone"]
             keep == KeptAfterClose(t)
  <2>1. Finish(p, s, t, keep) /\ keep \in BOOLEAN
    BY <1>5 DEF AcceptFail, KeptAfterClose
  <2> HIDE DEF c
  <2>2. t.buf \in Nat /\ t.reserved \in Nat /\ t.reserved <= r.reserved
    BY <1>1, <1>2, <1>3
  <2> HIDE DEF t, keep
  <2> QED
    BY <2>1, <2>2, FinishShifts
<1>6. CASE Close(p, s)
  <2>1. Finish(p, s, [m EXCEPT !.phase = "gone"], FALSE)
    BY <1>6 DEF Close
  <2> HIDE DEF m, r
  <2> QED
    BY <1>1, <1>2, <1>3, <2>1, FinishShifts DEF r
<1>7. CASE CloseAgain(p, s)
  <2> DEFINE rcredit == IF r.rcredit + r.buf > Window THEN Window ELSE r.rcredit + r.buf
             t == [r EXCEPT !.phase = "gone", !.buf = 0, !.rcredit = rcredit]
  <2>1. Finish(p, s, t, FALSE)
    BY <1>7 DEF CloseAgain
  <2> HIDE DEF rcredit
  <2>2. t.buf \in Nat /\ t.reserved \in Nat /\ t.reserved <= r.reserved
    BY <1>1 DEF Stream
  <2> HIDE DEF t
  <2> QED
    BY <2>1, <2>2, FinishShifts
<1> QED
  BY <1>4, <1>5, <1>6, <1>7 DEF Closing

LEMMA ReadingShifts ==
    ASSUME Inv, CountsOK, NEW p \in Peers, NEW s \in Ids, Reading(p, s)
    PROVE  Shift(p, s)
<1> DEFINE r == st[p][s]
<1>1. r \in Stream
  BY Now
<1>2. ASSUME NEW n \in 1..Window, Read(p, s, n) PROVE Shift(p, s)
  <2> DEFINE t == [r EXCEPT !.buf = @ - n, !.rcredit = @ + n, !.rd = @ + n]
             keep == ~(t.closed /\ t.buf = 0)
  <2>1. Finish(p, s, t, keep) /\ n <= r.buf /\ keep \in BOOLEAN
    BY <1>2 DEF Read
  <2>2. t.buf \in Nat /\ t.reserved \in Nat /\ t.reserved <= r.reserved
    BY <1>1, <2>1 DEF Stream
  <2> HIDE DEF t, keep
  <2> QED
    BY <2>1, <2>2, FinishShifts
<1>3. CASE ReadEof(p, s)
  <2> DEFINE t == [r EXCEPT !.sawEof = ~r.reset]
             keep == ~r.closed
  <2>1. Finish(p, s, t, keep) /\ keep \in BOOLEAN
    BY <1>3 DEF ReadEof
  <2>2. t.buf \in Nat /\ t.reserved \in Nat /\ t.reserved <= r.reserved
    BY <1>1 DEF Stream
  <2> HIDE DEF t, keep
  <2> QED
    BY <2>1, <2>2, FinishShifts
<1> QED
  BY <1>2, <1>3 DEF Reading

LEMMA WritingShifts ==
    ASSUME Inv, CountsOK, NEW p \in Peers, NEW s \in Ids,
           \/ Write(p, s) \/ WriteResume(p, s) \/ WriteAbort(p, s)
           \/ OpenGranted(p, s) \/ AcceptDone(p, s)
    PROVE  Shift(p, s)
<1> DEFINE r == st[p][s]
<1>1. r \in Stream /\ r.reserved \in Nat /\ r.buf \in Nat /\ incoming \in [Peers -> Nat]
  <2>1. r \in Stream
    BY Now
  <2> QED
    BY <2>1 DEF Stream, Inv, TypeOK
<1>2. ASSUME NEW n \in Nat, NEW c \in Stream, SendData(p, s, n, c), incoming' = incoming,
             c.buf = r.buf, c.reserved = r.reserved
      PROVE  Shift(p, s)
  <2> DEFINE reserved == c.reserved + n
             sent == c.sent + n
             t == [c EXCEPT !.reserved = reserved, !.sent = sent]
  <2>1. /\ Become(p, s, t) /\ outgoing' = [outgoing EXCEPT ![p] = @ + n]
        /\ outgoing[p] + n <= Aggregate
    BY <1>2 DEF SendData
  <2> HIDE DEF reserved, sent
  <2>2. t.buf = c.buf /\ t.reserved = reserved
    BY DEF Stream
  <2> HIDE DEF t
  <2>3. t.buf = r.buf + 0 /\ t.reserved = r.reserved + n
    BY <1>1, <1>2, <2>2 DEF reserved
  <2>4. incoming' = [incoming EXCEPT ![p] = @ + 0]
    BY <1>1, <1>2
  <2> QED
    BY <2>1, <2>3, <2>4, BecomeShifts
<1>3. ASSUME NEW t, Become(p, s, t), t.buf = r.buf, t.reserved = r.reserved,
             UNCHANGED <<incoming, outgoing>>
      PROVE  Shift(p, s)
  BY <1>3, StillShifts
<1>4. ASSUME NEW n \in 1..Chunk, WriteChunk(p, s, n) PROVE Shift(p, s)
  <2> DEFINE credit == r.credit - n
             c == [r EXCEPT !.credit = credit]
  <2>1. SendData(p, s, n, c) /\ incoming' = incoming /\ n \in Nat
    BY <1>4 DEF WriteChunk
  <2>2. credit \in Nat
    BY <1>1, <1>4 DEF WriteChunk, Sendable, Stream
  <2> HIDE DEF credit
  <2>3. c \in Stream /\ c.buf = r.buf /\ c.reserved = r.reserved
    BY <1>1, <2>2 DEF Stream
  <2> HIDE DEF c
  <2> QED
    BY <1>2, <2>1, <2>3
<1>5. CASE WriteResume(p, s)
  <2> DEFINE n == r.held
             c == [r EXCEPT !.held = 0]
  <2>1. SendData(p, s, n, c) /\ incoming' = incoming
    BY <1>5 DEF WriteResume
  <2>2. n \in Nat /\ c \in Stream /\ c.buf = r.buf /\ c.reserved = r.reserved
    BY <1>1 DEF Stream
  <2> HIDE DEF c, n
  <2> QED
    BY <1>2, <2>1, <2>2
<1>6. ASSUME NEW n \in 1..Chunk, WriteHold(p, s, n) PROVE Shift(p, s)
  <2> DEFINE t == [r EXCEPT !.credit = @ - n, !.held = n]
  <2>1. Become(p, s, t) /\ UNCHANGED <<incoming, outgoing>>
    BY <1>6 DEF WriteHold
  <2>2. t.buf = r.buf /\ t.reserved = r.reserved
    BY <1>1 DEF Stream
  <2> HIDE DEF t
  <2> QED
    BY <1>3, <2>1, <2>2
<1>7. CASE WriteAbort(p, s)
  <2> DEFINE t == [r EXCEPT !.held = 0, !.credit = IF r.closed THEN @ ELSE @ + r.held]
  <2>1. Become(p, s, t) /\ UNCHANGED <<incoming, outgoing>>
    BY <1>7 DEF WriteAbort
  <2>2. t.buf = r.buf /\ t.reserved = r.reserved
    BY <1>1 DEF Stream
  <2> HIDE DEF t
  <2> QED
    BY <1>3, <2>1, <2>2
<1>8. CASE WriteEof(p, s)
  <2> DEFINE t == [r EXCEPT !.leof = TRUE]
  <2>1. Become(p, s, t) /\ UNCHANGED <<incoming, outgoing>>
    BY <1>8 DEF WriteEof
  <2>2. t.buf = r.buf /\ t.reserved = r.reserved
    BY <1>1 DEF Stream
  <2> HIDE DEF t
  <2> QED
    BY <1>3, <2>1, <2>2
<1>9. CASE OpenGranted(p, s) \/ AcceptDone(p, s)
  <2> DEFINE t == [r EXCEPT !.phase = "open"]
  <2>1. Become(p, s, t) /\ UNCHANGED <<incoming, outgoing>>
    BY <1>9 DEF OpenGranted, AcceptDone
  <2>2. t.buf = r.buf /\ t.reserved = r.reserved
    BY <1>1 DEF Stream
  <2> HIDE DEF t
  <2> QED
    BY <1>3, <2>1, <2>2
<1> QED
  BY <1>4, <1>5, <1>6, <1>7, <1>8, <1>9 DEF Write

\* A new stream holds nothing, and neither did the ID.
LEMMA OpeningShifts ==
    ASSUME Inv, CountsOK, NEW p \in Peers, OpenStream(p) \/ RecvOpen(p)
    PROVE  (\E s \in Ids : Shift(p, s)) \/ UNCHANGED <<st, incoming, outgoing>>
<1>1. ASSUME NEW s \in Ids, NEW phase, Become(p, s, NewStream(phase)), st[p][s] = NewStream("unused"),
             UNCHANGED <<incoming, outgoing>>
      PROVE  Shift(p, s)
  <2>1. /\ NewStream(phase).buf = st[p][s].buf
        /\ NewStream(phase).reserved = st[p][s].reserved
    BY <1>1 DEF NewStream
  <2> QED
    BY <1>1, <2>1, StillShifts
<1>2. CASE OpenStream(p)
  <2>1. nextId[p] \in Ids
    BY <1>2 DEF OpenStream, Inv, TypeOK, Ids
  <2>2. PICK y \in Ids : y = nextId[p]
    BY <2>1
  <2>3. Become(p, y, NewStream("opening")) /\ UNCHANGED <<incoming, outgoing>>
    BY <1>2, <2>2 DEF OpenStream
  <2>4. st[p][y] = NewStream("unused")
    BY <2>2, FreshId
  <2> QED
    BY <1>1, <2>3, <2>4
<1>3. CASE RecvOpen(p)
  <2>1. /\ wire[Other(p)] # <<>> /\ In(p).kind = "OPEN" /\ In(p).id \in Ids /\ Up(p)
    BY <1>3, InType DEF RecvOpen, Arrives, Frame, Inv
  <2>2. PICK y \in Ids : y = In(p).id
    BY <2>1
  <2>3. st[p][y] = NewStream("unused")
    BY <2>1, <2>2, RequestIs
  <2>4. \/ Become(p, y, NewStream("accepting")) /\ UNCHANGED <<incoming, outgoing>>
        \/ UNCHANGED <<st, incoming, outgoing>>
    BY <1>3, <2>2 DEF RecvOpen, Fail
  <2> QED
    BY <1>1, <2>3, <2>4
<1> QED
  BY <1>2, <1>3

LEMMA ReceivingShifts ==
    ASSUME Inv, CountsOK, NEW p \in Peers, RecvAction(p)
    PROVE  (\E s \in Ids : Shift(p, s)) \/ UNCHANGED <<st, incoming, outgoing>>
<1> DEFINE h == In(p)
           s == h.id
           r == st[p][s]
           n == Length(h)
<1>1. /\ h \in Frame /\ s \in Ids /\ r \in Stream /\ LocalOK(r, s \in table[p]) /\ n \in Nat
      /\ r.buf \in Nat /\ r.reserved \in Nat
      /\ incoming \in [Peers -> Nat] /\ outgoing \in [Peers -> Nat]
  <2>1. Arrives(p, FrameKinds)
    BY DEF RecvAction, RecvOpenResult, RecvLate, RecvData, RecvWindowUpdate, RecvHalfClose, RecvClose,
           Arrives, FrameKinds
  <2>2. h \in Frame /\ s \in Ids /\ r \in Stream /\ LocalOK(r, s \in table[p])
    BY <2>1, Arrival
  <2>3. n \in Nat
    BY <2>2 DEF Frame, Length
  <2> QED
    BY <2>2, <2>3 DEF Stream, Inv, TypeOK
<1>2. CASE RecvOpenResult(p) \/ RecvLate(p)
  <2> DEFINE t == [r EXCEPT !.phase = IF h.ok THEN "granted" ELSE "refused"]
  <2>1. \/ Become(p, s, t) /\ UNCHANGED <<incoming, outgoing>>
        \/ UNCHANGED <<st, incoming, outgoing>>
    BY <1>2 DEF RecvOpenResult, RecvLate, Ignore, Fail
  <2>2. t.buf = r.buf /\ t.reserved = r.reserved
    BY <1>1 DEF Stream
  <2> HIDE DEF t, s
  <2> QED
    BY <1>1, <2>1, <2>2, StillShifts
<1>3. CASE RecvData(p)
  <2> DEFINE t == [r EXCEPT !.rcredit = @ - n, !.buf = @ + n, !.recvd = @ + n]
  <2>1. \/ Become(p, s, t) /\ incoming' = [incoming EXCEPT ![p] = @ + n] /\ outgoing' = outgoing
        \/ UNCHANGED <<st, incoming, outgoing>>
    BY <1>3, Zenon DEF RecvData, Fail
  <2>2. t.buf = r.buf + n /\ t.reserved = r.reserved + 0
    BY <1>1 DEF Stream
  <2>3. outgoing' = outgoing => outgoing' = [outgoing EXCEPT ![p] = @ + 0]
    BY <1>1
  <2>4. outgoing[p] + 0 <= Aggregate
    BY <1>1 DEF CountsOK
  <2> HIDE DEF t, s, n
  <2> QED
    BY <1>1, <2>1, <2>2, <2>3, <2>4, BecomeShifts
<1>4. CASE RecvWindowUpdate(p)
  <2> DEFINE t == [r EXCEPT !.credit = @ + n, !.reserved = @ - n, !.credited = @ + n]
  <2>1. Finish(p, s, t, TRUE)
    BY <1>4, UpdateFits, Zenon DEF RecvWindowUpdate
  <2>2. n <= r.reserved
    BY <1>1, <1>4, UpdateFits
  <2>3. t.buf \in Nat /\ t.reserved \in Nat /\ t.reserved <= r.reserved
    BY <1>1, <2>2 DEF Stream
  <2> HIDE DEF t, s
  <2> QED
    BY <1>1, <2>1, <2>3, FinishShifts
<1>5. CASE RecvHalfClose(p)
  <2> DEFINE t == [r EXCEPT !.reof = TRUE]
  <2>1. Become(p, s, t) /\ UNCHANGED <<incoming, outgoing>>
    BY <1>5 DEF RecvHalfClose
  <2>2. t.buf = r.buf /\ t.reserved = r.reserved
    BY <1>1 DEF Stream
  <2> HIDE DEF t, s
  <2> QED
    BY <1>1, <2>1, <2>2, StillShifts
<1>6. CASE RecvClose(p)
  <2> DEFINE c == RemoteClose(r)
             phase == IF c.phase = "accepting" THEN "gone" ELSE c.phase
             t == [c EXCEPT !.phase = phase]
             keep == KeptAfterClose(c)
  <2>1. Finish(p, s, t, keep) /\ keep \in BOOLEAN
    BY <1>6 DEF RecvClose, KeptAfterClose
  <2>2. c \in Stream /\ c.reserved = 0
    <3> HIDE DEF r
    <3> QED
      BY <1>1, RemoteClosedIs
  <2> HIDE DEF c
  <2>3. t.buf \in Nat /\ t.reserved \in Nat /\ t.reserved <= r.reserved
    BY <1>1, <2>2 DEF Stream
  <2> HIDE DEF t, s, keep
  <2> QED
    BY <1>1, <2>1, <2>3, FinishShifts
<1> QED
  BY <1>2, <1>3, <1>4, <1>5, <1>6 DEF RecvAction

\* The counters, with a cell for each byte of every ID.
LEMMA CountsHold == Spec => []CountsOK
<1>1. Init => CountsOK
  <2> SUFFICES ASSUME Init, NEW p \in Peers
               PROVE  /\ incoming[p] = Cardinality(Cells(Buffers(p)))
                      /\ outgoing[p] = Cardinality(Cells(Reserves(p)))
                      /\ outgoing[p] <= Aggregate
    BY DEF CountsOK
  <2>1. \A s \in Ids : st[p][s].buf = 0 /\ st[p][s].reserved = 0
    BY DEF Init, NewStream
  <2>2. Cells(Buffers(p)) = {} /\ Cells(Reserves(p)) = {}
    BY <2>1 DEF Cells, Buffers, Reserves
  <2>3. incoming[p] = 0 /\ outgoing[p] = 0 /\ 0 <= Aggregate
    BY DEF Init
  <2> QED
    BY <2>2, <2>3, FS_EmptySet
<1>2. Inv /\ Inv' /\ CountsOK /\ [Next]_vars => CountsOK'
  <2> SUFFICES ASSUME Inv, Inv', CountsOK, [Next]_vars PROVE CountsOK'
    OBVIOUS
  <2>1. ASSUME NEW p \in Peers, OpenStream(p) \/ RecvOpen(p) \/ RecvAction(p) PROVE CountsOK'
    BY <2>1, OpeningShifts, ReceivingShifts, ShiftKeeps, StillCounts
  <2>2. ASSUME NEW p \in Peers, NEW s \in Ids, AppAction(p, s) PROVE CountsOK'
    <3>1. Shift(p, s)
      BY <2>2, ClosingShifts, ReadingShifts, WritingShifts DEF AppAction, Resume
    <3> QED
      BY <3>1, ShiftKeeps
  <2>3. CASE UNCHANGED vars
    BY <2>3, StillCounts DEF vars
  <2> QED
    BY <2>1, <2>2, <2>3, NextIs
<1> QED
  BY <1>1, <1>2, StreamsInvariant, PTL DEF Spec

\* The counters of the aggregate caps are exact for every number of streams and
\* every window: _reserve_incoming, _release_incoming, _reserve_outgoing and
\* _release_outgoing are called with what the streams gain and lose, and the
\* clamp at zero in the two release functions is never needed.
THEOREM AggregatesAreExact == Spec => []AggregatesExact
BY CountsHold, CountsExact, StreamsInvariant, PTL

-----------------------------------------------------------------------------
(* The errors that are left.                                               *)

\* The only check of _dispatch, _receive and _add_credit that can fail between
\* two peers running this code is the one against MAX_BUFFERED_DATA.
OnlyAggregate == \A p \in Peers : err[p] \in {"none", "aggregate"}

\* No frame is ever refused for its ID, its stream, its credit, its order or its
\* length: whatever the two applications do, a runner can only be stopped by
\* the aggregate cap on received data.
THEOREM OnlyAggregateFails == Spec => []OnlyAggregate
<1>1. Init => OnlyAggregate
  BY DEF Init, OnlyAggregate
<1>2. Inv /\ OnlyAggregate /\ [Next]_vars => OnlyAggregate'
  <2> SUFFICES ASSUME Inv, OnlyAggregate, [Next]_vars PROVE OnlyAggregate'
    OBVIOUS
  <2>1. CASE UNCHANGED vars
    BY <2>1 DEF vars, OnlyAggregate
  <2>2. ASSUME NEW p \in Peers,
               \/ OpenStream(p) \/ RecvOpen(p) \/ RecvAction(p)
               \/ \E s \in Ids : AppAction(p, s)
        PROVE  OnlyAggregate'
    <3>1. err' = err \/ err' = [err EXCEPT ![p] = "aggregate"]
      BY <2>2, NoOtherError DEF Fail
    <3>2. err \in [Peers -> Errors]
      BY DEF Inv, TypeOK
    <3> QED
      BY <3>1, <3>2 DEF OnlyAggregate
  <2> QED
    BY <2>1, <2>2, NextIs
<1> QED
  BY <1>1, <1>2, StreamsInvariant, PTL DEF Spec

\* The aggregate cap covers the windows of all the streams a peer may hold.
\* MuxPeer's defaults satisfy it with equality: 128 streams of 256 KiB, 32 MiB.
Roomy == \A p \in Peers : MaxStreams[p] * Window <= Aggregate

\* What a peer buffers, with one stream raised to a full window, still fits the
\* windows of the streams in its table.
LEMMA BuffersFit ==
    ASSUME Inv, StreamLimit, CountsOK, Roomy, NEW p \in Peers, NEW s \in table[p]
    PROVE  incoming[p] - st[p][s].buf + Window <= Aggregate
<1> DEFINE f == Buffers(p)
           g == [f EXCEPT ![s] = Window]
           T == table[p]
<1>1. s \in Ids /\ T \subseteq Ids /\ incoming[p] = Cardinality(Cells(f)) /\ f[s] = st[p][s].buf
  BY DEF Inv, TypeOK, CountsOK, Buffers
<1>2. f \in Levels
  BY WithinWindow DEF InLevels
<1>3. g \in Levels /\ g[s] = Window /\ \A y \in Ids : y # s => g[y] = f[y]
  BY <1>1, <1>2 DEF Levels
<1>4. \A y \in Ids : y \notin T => g[y] = 0
  <2>1. ASSUME NEW y \in Ids, y \notin T PROVE f[y] = 0
    BY <2>1, Now DEF StreamOK, LocalOK, Buffers
  <2> QED
    BY <1>3, <2>1
<1>5. IsFiniteSet(T) /\ Cardinality(T) \in Nat
  <2>1. MaxId \in Int /\ 1 \in Int
    OBVIOUS
  <2>2. IsFiniteSet(Ids)
    BY <2>1, FS_Interval DEF Ids
  <2> QED
    BY <1>1, <2>2, FS_Subset, FS_CardinalityType
<1>6. IsFiniteSet(1..Window) /\ Cardinality(1..Window) = Window
  <2>1. Window \in Int /\ 1 \in Int /\ ~(1 > Window) /\ Window - 1 + 1 = Window
    OBVIOUS
  <2> QED
    BY <2>1, FS_Interval
<1> HIDE DEF f, g, T
<1>7. Cells(g) \subseteq T \X (1..Window)
  <2>1. ASSUME NEW y \in Ids PROVE {y} \X (1..g[y]) \subseteq T \X (1..Window)
    <3>1. CASE y \in T
      <4>1. 1..g[y] \subseteq 1..Window
        BY <1>3 DEF Levels
      <4> QED
        BY <3>1, <4>1
    <3>2. CASE y \notin T
      <4>1. 1..g[y] = {}
        BY <1>4, <3>2
      <4> QED
        BY <4>1
    <3> QED
      BY <3>1, <3>2
  <2> QED
    BY <2>1 DEF Cells
<1>8. Cardinality(Cells(g)) <= Cardinality(T) * Window
  <2>1. /\ IsFiniteSet(T \X (1..Window))
        /\ Cardinality(T \X (1..Window)) = Cardinality(T) * Window
    BY <1>5, <1>6, FS_Product
  <2> QED
    BY <1>7, <2>1, FS_Subset
<1>9. Cardinality(T) * Window <= Aggregate
  <2>1. Cardinality(T) <= MaxStreams[p] /\ MaxStreams[p] \in Nat
    BY DEF StreamLimit, T
  <2>2. ASSUME NEW a \in Nat, NEW b \in Nat, NEW c \in Nat, a <= b PROVE a * c <= b * c
    BY <2>2
  <2>3. Cardinality(T) * Window <= MaxStreams[p] * Window
    BY <1>5, <2>1, <2>2
  <2>4. MaxStreams[p] * Window <= Aggregate
    BY DEF Roomy
  <2>5. Cardinality(T) * Window \in Nat /\ MaxStreams[p] * Window \in Nat
    BY <1>5, <2>1
  <2> QED
    BY <2>3, <2>4, <2>5
<1>10. /\ Cardinality(Cells(f)) \in Nat
       /\ Cardinality(Cells(g)) = Cardinality(Cells(f)) - f[s] + g[s]
  BY <1>1, <1>2, <1>3, CellsChange
<1>11. f[s] \in Nat
  BY <1>1, <1>2 DEF Levels
<1>12. Cardinality(T) * Window \in Nat
  BY <1>5
<1> QED
  BY <1>1, <1>3, <1>8, <1>9, <1>10, <1>11, <1>12

\* With such a cap no runner is ever stopped: two peers that run this code never
\* make each other raise a ProtocolError.
THEOREM NeverRefused ==
    ASSUME Roomy
    PROVE  Spec => []NoProtocolError
<1>1. Init => NoProtocolError
  BY DEF Init, NoProtocolError
<1>2. Inv /\ CountsOK /\ StreamLimit /\ NoProtocolError /\ [Next]_vars => NoProtocolError'
  <2> SUFFICES ASSUME Inv, CountsOK, StreamLimit, NoProtocolError, [Next]_vars
               PROVE  err' = err
    BY DEF NoProtocolError
  <2>1. ASSUME NEW p \in Peers, RecvData(p)
        PROVE  ~(incoming[p] + Length(In(p)) > Aggregate)
    <3> DEFINE s == In(p).id
               r == st[p][s]
               n == Length(In(p))
    <3>1. s \in table[p] /\ s \in Ids /\ r \in Stream /\ incoming[p] \in Nat
      BY <2>1 DEF RecvData, Inv, TypeOK
    <3>2. ~r.reof /\ ~r.closed /\ ~(n > r.rcredit) /\ n \in Nat
      BY <2>1, DataFits
    <3>3. r.rcredit + r.buf = Window
      BY <3>1, <3>2, Now DEF StreamOK, LocalOK
    <3>4. incoming[p] - r.buf + Window <= Aggregate
      BY <3>1, BuffersFit
    <3>5. r.rcredit \in Nat /\ r.buf \in Nat
      BY <3>1 DEF Stream
    <3> HIDE DEF s, r, n
    <3>6. ~(incoming[p] + n > Aggregate)
      BY <3>1, <3>2, <3>3, <3>4, <3>5
    <3> QED
      BY <3>6 DEF n
  <2>2. CASE UNCHANGED vars
    BY <2>2 DEF vars
  <2> QED
    BY <2>1, <2>2, NextIs, NoOtherError
<1> QED
  BY <1>1, <1>2, StreamsInvariant, CountsHold, StreamLimitHolds, PTL DEF Spec

-----------------------------------------------------------------------------
(* No stream is orphaned.                                                  *)

\* When one end has given s up and p has it, will have it or has yet to hear of
\* it, and has not been told, what tells it is on the wire.
ReleaseOK(p, s) ==
    LET q == Other(p) IN
    /\ st[q][s].phase = "gone"
    /\ s \in table[p] \/ ~Stale(p, s)
    /\ ~Told(p, s)
    => Has(wire[q], "CLOSE", s) \/ Refuses(wire[q], s)
Released == \A p \in Peers, s \in Ids : ReleaseOK(p, s)

LEMMA UntouchedReleased ==
    ASSUME NEW p \in Peers, NEW s \in Ids, Untouched(s), ReleaseOK(p, s)
    PROVE  ReleaseOK(p, s)'
<1> DEFINE q == Other(p)
<1>1. q \in Peers
  BY Sides
<1>2. /\ st'[p][s] = st[p][s] /\ st'[q][s] = st[q][s]
      /\ s \in table'[p] <=> s \in table[p]
      /\ Stale(p, s)' <=> Stale(p, s)
      /\ Alike(wire[q], wire'[q], s) /\ "CLOSE" \in FrameKinds
  BY <1>1 DEF Untouched, FrameKinds
<1>3. /\ Has(wire[q], "CLOSE", s) => Has(wire'[q], "CLOSE", s)
      /\ Refuses(wire[q], s) => Refuses(wire'[q], s)
  BY <1>2 DEF Alike
<1>4. Told(p, s)' <=> Told(p, s)
  BY <1>2 DEF Told
<1> QED
  BY <1>2, <1>3, <1>4 DEF ReleaseOK

\* An end that is over, and that the other has not been told of, is not held.
LEMMA OverUnheld ==
    ASSUME Inv, NEW p \in Peers, NEW s \in Ids, Over(p, s), s \in table[p] \/ ~Stale(p, s)
    PROVE  Told(p, s)
<1>1. LocalOK(st[p][s], s \in table[p]) /\ IdOK(p, s)
  BY Now DEF StreamOK
<1>2. st[p][s].phase = "unused" => s \notin table[p]
  BY <1>1 DEF LocalOK
<1>3. Stale(p, s)
  BY <1>1 DEF Over, IdOK
<1>4. st[p][s].phase = "gone" /\ s \in table[p]
  BY <1>2, <1>3 DEF Over
<1>5. st[p][s].closed
  BY <1>1, <1>4 DEF LocalOK
<1> QED
  BY <1>4, <1>5 DEF Told

LEMMA AppReleases ==
    ASSUME Inv, NEW p \in Peers, NEW s \in Ids, AppStep(p, s),
           ReleaseOK(p, s), ReleaseOK(Other(p), s)
    PROVE  ReleaseOK(p, s)' /\ ReleaseOK(Other(p), s)'
<1> DEFINE q == Other(p)
           r == st[p][s]
           t == st'[p][s]
<1>1. /\ q \in Peers /\ Other(q) = p /\ EndOK(p, s) /\ EndOK(q, s) /\ IdOK(p, s)
      /\ LocalOK(r, s \in table[p])
  BY Now DEF StreamOK
<1>2. /\ Moves(r, t) /\ LocalOK(t, s \in table'[p])
      /\ st'[q][s] = st[q][s]
      /\ s \in table'[q] <=> s \in table[q]
      /\ s \in table'[p] => s \in table[p]
      /\ Stale(p, s)' <=> Stale(p, s)
      /\ Stale(q, s)' <=> Stale(q, s)
      /\ wire' = wire \/ \E f \in Frame : Adds(p, s, f)
  BY <1>1, AppParts DEF Only
<1>3. wire'[q] = wire[q]
  BY <1>2 DEF Adds
<1>4. ReleaseOK(p, s)'
  <2>1. Stale(p, s)
    BY <1>1, <1>2 DEF IdOK, Moves
  <2>2. ASSUME s \in table'[p], Told(p, s) PROVE Told(p, s)'
    <3>1. CASE r.closed
      <4>1. t.closed
        BY <1>2, <3>1 DEF Moves
      <4> QED
        BY <2>2, <4>1 DEF Told
    <3>2. CASE r.phase = "refused"
      <4>1. t.phase = "gone"
        BY <1>2, <3>2 DEF Moves
      <4>2. t.closed
        BY <1>2, <4>1 DEF LocalOK
      <4> QED
        BY <2>2, <4>2 DEF Told
    <3> QED
      BY <2>2, <3>1, <3>2 DEF Told
  <2> QED
    BY <1>2, <1>3, <2>1, <2>2 DEF ReleaseOK
<1>5. ReleaseOK(q, s)'
  <2>1. Told(q, s)' <=> Told(q, s)
    BY <1>2 DEF Told
  <2>2. SUFFICES ASSUME t.phase = "gone", s \in table[q] \/ ~Stale(q, s), ~Told(q, s)
                 PROVE  Has(wire'[p], "CLOSE", s) \/ Refuses(wire'[p], s)
    BY <1>1, <1>2, <2>1 DEF ReleaseOK
  <2>3. "CLOSE" \in FrameKinds
    BY DEF FrameKinds
  <2>4. CASE \E f \in Frame : Adds(p, s, f)
    <3>1. PICK f \in Frame : Adds(p, s, f)
      BY <2>4
    <3>2. IsFinal(f) /\ Extended(wire[p], wire'[p], f, s)
      BY <2>2, <3>1 DEF Adds, Says
    <3> QED
      BY <2>3, <3>2 DEF Extended, IsFinal
  <2>5. CASE wire' = wire /\ ~\E f \in Frame : Adds(p, s, f)
    <3>1. r.phase = "gone" \/ Told(p, s) \/ \E f \in Frame : wire' = [wire EXCEPT ![p] = Append(@, f)]
      BY <2>2 DEF AppStep
    <3>2. ASSUME NEW f \in Frame, wire' = [wire EXCEPT ![p] = Append(@, f)] PROVE FALSE
      <4>1. wire'[p] = Append(wire[p], f) /\ wire[p] \in Seq(Frame)
        BY <3>2 DEF Inv, TypeOK
      <4>2. Len(wire'[p]) = Len(wire[p]) + 1 /\ Len(wire[p]) \in Nat
        BY <4>1, AppendIs
      <4> QED
        BY <2>5, <4>2
    <3>3. CASE r.phase = "gone"
      BY <1>1, <2>2, <2>5, <3>3 DEF ReleaseOK
    <3>4. CASE Told(p, s)
      <4>1. Over(q, s)
        BY <1>1, <3>4 DEF EndOK
      <4> QED
        BY <1>1, <2>2, <4>1, OverUnheld
    <3> QED
      BY <3>1, <3>2, <3>3, <3>4
  <2> QED
    BY <1>2, <2>4, <2>5
<1> QED
  BY <1>4, <1>5

LEMMA RecvReleases ==
    ASSUME Inv, NEW p \in Peers, NEW s \in Ids, RecvStep(p, s),
           ReleaseOK(p, s), ReleaseOK(Other(p), s)
    PROVE  ReleaseOK(p, s)' /\ ReleaseOK(Other(p), s)'
<1> DEFINE q == Other(p)
           h == Head(wire[q])
           r == st[p][s]
           t == st'[p][s]
<1>1. /\ q \in Peers /\ Other(q) = p /\ EndOK(q, s) /\ IdOK(q, s) /\ PhaseOK(q, s)
  BY Now DEF StreamOK
<1>2. /\ Takes(r, t, h, s \in table[p], ~Up(p)') /\ LocalOK(t, s \in table'[p])
      /\ Taken(wire[q], wire'[q], h, s) /\ h \in Frame
      /\ wire'[p] = wire[p]
      /\ st'[q][s] = st[q][s]
      /\ s \in table'[q] <=> s \in table[q]
      /\ s \in table'[p] => s \in table[p]
      /\ Stale(p, s)' <=> Stale(p, s)
      /\ Stale(q, s)' <=> Stale(q, s)
      /\ Stale(p, s)
      /\ Mentions(wire[q], s)
  <2>1. Only(p, s)
    BY RecvParts
  <2>2. LocalOK(t, s \in table'[p])
    BY <2>1 DEF Only
  <2> QED
    BY <1>1, <2>2, RecvParts
<1>3. {"CLOSE", "OPEN_RESULT"} \subseteq FrameKinds
  BY DEF FrameKinds
<1> HIDE DEF h
<1>4. ReleaseOK(q, s)'
  <2>1. Told(q, s)' <=> Told(q, s)
    BY <1>2 DEF Told
  <2>2. SUFFICES ASSUME t.phase = "gone", s \in table[q] \/ ~Stale(q, s), ~Told(q, s)
                 PROVE  Has(wire[p], "CLOSE", s) \/ Refuses(wire[p], s)
    BY <1>1, <1>2, <2>1 DEF ReleaseOK
  <2>3. r.phase = "gone" \/ h.kind = "CLOSE"
    BY <1>2, <2>2 DEF Takes
  <2>4. CASE r.phase = "gone"
    BY <1>1, <2>2, <2>4 DEF ReleaseOK
  <2>5. CASE h.kind = "CLOSE"
    <3>1. Has(wire[q], "CLOSE", s)
      BY <1>2, <2>5 DEF Taken
    <3>2. Over(q, s)
      BY <1>1, <3>1 DEF EndOK
    <3> QED
      BY <1>1, <2>2, <3>2, OverUnheld
  <2> QED
    BY <2>3, <2>4, <2>5
<1>5. ReleaseOK(p, s)'
  <2>1. SUFFICES ASSUME st[q][s].phase = "gone", s \in table'[p], ~Told(p, s)'
                 PROVE  Has(wire'[q], "CLOSE", s) \/ Refuses(wire'[q], s)
    BY <1>2 DEF ReleaseOK
  <2>2. ~Told(p, s)
    BY <1>1, <1>2 DEF EndOK
  <2>3. Has(wire[q], "CLOSE", s) \/ Refuses(wire[q], s)
    BY <1>2, <2>1, <2>2 DEF ReleaseOK
  <2>4. ~t.closed /\ t.phase # "refused"
    BY <2>1 DEF Told
  <2>5. h.kind # "CLOSE"
    BY <1>2, <2>1, <2>4 DEF Takes
  <2>6. ~IsRefusal(h)
    <3>1. SUFFICES ASSUME IsRefusal(h) PROVE FALSE
      OBVIOUS
    <3>2. Refuses(wire[q], s) /\ Has(wire[q], "OPEN_RESULT", s)
      BY <1>2, <1>3, <3>1 DEF Taken, IsRefusal
    <3>3. ~OwnId(q, s)
      BY <1>1, <3>2 DEF IdOK
    <3>4. r.phase \in {"opening", "gone"}
      BY <1>1, <3>2, <3>3 DEF PhaseOK, AnswerOK
    <3>5. CASE r.phase = "opening"
      BY <1>2, <2>4, <3>1, <3>5 DEF Takes, IsRefusal
    <3>6. CASE r.phase = "gone"
      <4>1. t.phase = "gone"
        BY <1>2, <3>6 DEF Takes
      <4> QED
        BY <1>2, <2>4, <4>1 DEF LocalOK
    <3> QED
      BY <3>4, <3>5, <3>6
  <2>7. /\ Has(wire[q], "CLOSE", s) => Has(wire'[q], "CLOSE", s)
        /\ Refuses(wire[q], s) => Refuses(wire'[q], s)
    BY <1>2, <1>3, <2>5, <2>6 DEF Taken
  <2> QED
    BY <2>3, <2>7
<1> QED
  BY <1>4, <1>5

LEMMA RequestReleases ==
    ASSUME Inv, NEW p \in Peers, RecvOpen(p), NEW y \in Ids, y = In(p).id,
           Accepts(p, y) \/ Refuse(p, y), Stale(p, y)', ReleaseOK(p, y)
    PROVE  ReleaseOK(p, y)' /\ ReleaseOK(Other(p), y)'
<1> DEFINE q == Other(p)
           a == st[q][y]
<1>1. /\ q \in Peers /\ q # p /\ Other(q) = p /\ wire[q] \in Seq(Frame)
      /\ wire[q] # <<>> /\ In(p).kind = "OPEN" /\ Up(p) /\ TypeOK
  BY Now, Sides DEF RecvOpen, Arrives, Inv
<1>2. /\ ~Stale(p, y) /\ st[p][y] = NewStream("unused") /\ y \notin table[p]
      /\ Taken(wire[q], Tail(wire[q]), Head(wire[q]), y)
  BY <1>1, RequestIs
<1>3. ~st[p][y].closed /\ st[p][y].phase = "unused"
  BY <1>2 DEF NewStream
<1>4. CASE Accepts(p, y)
  <2>1. st'[p][y].phase = "accepting" /\ st'[q][y] = a /\ wire'[q] = Tail(wire[q])
    BY <1>1, <1>4 DEF Accepts, Pop, TypeOK, NewStream
  <2>2. a.phase = "gone" => Has(wire[q], "CLOSE", y) \/ Refuses(wire[q], y)
    BY <1>2, <1>3 DEF ReleaseOK, Told
  <2>3. /\ Has(wire[q], "CLOSE", y) => Has(Tail(wire[q]), "CLOSE", y)
        /\ Refuses(wire[q], y) => Refuses(Tail(wire[q]), y)
    <3>1. "CLOSE" \in FrameKinds /\ Head(wire[q]).kind = "OPEN" /\ ~IsRefusal(Head(wire[q]))
      BY <1>1 DEF FrameKinds, IsRefusal, In
    <3> QED
      BY <1>2, <3>1 DEF Taken
  <2>4. a.phase = "gone" => Has(wire'[q], "CLOSE", y) \/ Refuses(wire'[q], y)
    BY <2>1, <2>2, <2>3, Zenon
  <2>5. ReleaseOK(p, y)'
    BY <2>1, <2>4 DEF ReleaseOK
  <2>6. ReleaseOK(q, y)'
    BY <1>1, <2>1 DEF ReleaseOK
  <2> QED
    BY <2>5, <2>6
<1>5. CASE Refuse(p, y)
  <2>1. y \notin table'[p] /\ st'[p][y].phase = "unused"
    BY <1>2, <1>3, <1>5 DEF Refuse
  <2>2. ReleaseOK(p, y)'
    BY <2>1 DEF ReleaseOK
  <2>3. ReleaseOK(q, y)'
    BY <1>1, <2>1 DEF ReleaseOK
  <2> QED
    BY <2>2, <2>3
<1> QED
  BY <1>4, <1>5

\* All the streams but s, and s at both ends.
LEMMA ReleaseBeside ==
    ASSUME Released, NEW p \in Peers, NEW s \in Ids,
           \A y \in Ids : y # s => Untouched(y),
           ReleaseOK(p, s)', ReleaseOK(Other(p), s)'
    PROVE  Released'
<1> SUFFICES ASSUME NEW x \in Peers, NEW y \in Ids PROVE ReleaseOK(x, y)'
  BY DEF Released
<1>1. CASE y # s
  BY <1>1, UntouchedReleased DEF Released
<1>2. CASE y = s
  <2>1. x = p \/ x = Other(p)
    BY Sides
  <2> QED
    BY <1>2, <2>1
<1> QED
  BY <1>1, <1>2

\* Whoever gives a stream up tells the other end, and the message stays on the
\* wire until that end has acted on it.
THEOREM NoneOrphaned == Spec => []NoOrphan
<1>1. Init => Released
  BY PeersType DEF Init, Released, ReleaseOK, NewStream
<1>2. Inv /\ Inv' /\ Released /\ [Next]_vars => Released'
  <2> SUFFICES ASSUME Inv, Inv', Released, [Next]_vars PROVE Released'
    OBVIOUS
  <2>0. TypeOK /\ TypeOK'
    BY DEF Inv
  <2>1. ASSUME NEW p \in Peers, OpenStream(p) PROVE Released'
    <3>1. nextId[p] \in Ids
      BY <2>0, <2>1 DEF OpenStream, TypeOK, Ids
    <3>2. PICK y \in Ids : y = nextId[p]
      BY <3>1
    <3>3. \A s \in Ids : s # y => Untouched(s)
      BY <2>0, <2>1, <3>2, OpenKeeps
    <3>4. st[Other(p)][y].phase = "unused" /\ Other(p) \in Peers /\ Other(p) # p /\ Other(Other(p)) = p
      BY <3>2, FreshId, Sides DEF NewStream
    <3>5. st'[p][y].phase = "opening" /\ st'[Other(p)][y].phase = "unused"
      BY <2>0, <2>1, <3>2, <3>4 DEF OpenStream, Become, TypeOK, NewStream
    <3>6. ReleaseOK(p, y)' /\ ReleaseOK(Other(p), y)'
      BY <3>4, <3>5 DEF ReleaseOK
    <3> QED
      BY <3>3, <3>6, ReleaseBeside
  <2>2. ASSUME NEW p \in Peers, RecvOpen(p) PROVE Released'
    <3>1. PICK y \in Ids : y = In(p).id
      BY <2>0, <2>2, RequestsKeep
    <3>2. /\ \A s \in Ids : s # y => Untouched(s)
          /\ Accepts(p, y) \/ Refuse(p, y)
          /\ ValidRequest(p, y)
      BY <2>0, <2>2, <3>1, RequestsKeep
    <3>3. Stale(p, y)'
      <4>1. highest' = [highest EXCEPT ![p] = y]
        BY <2>2, <3>1, <3>2 DEF RecvOpen
      <4>2. highest'[p] = y /\ y <= y /\ ~OwnId(p, y)
        BY <2>0, <3>2, <4>1 DEF TypeOK, ValidRequest, Ids
      <4> QED
        BY <4>2 DEF Stale, OwnId
    <3>4. ReleaseOK(p, y)' /\ ReleaseOK(Other(p), y)'
      BY <2>2, <3>1, <3>2, <3>3, RequestReleases DEF Released
    <3> QED
      BY <3>2, <3>4, ReleaseBeside
  <2>3. ASSUME NEW p \in Peers, RecvAction(p) PROVE Released'
    <3>1. PICK s \in Ids : s = In(p).id
      BY <2>0, <2>3, RecvOthers DEF RecvAction
    <3>2. RecvStep(p, s) /\ \A y \in Ids : y # s => Untouched(y)
      BY <2>0, <2>3, <3>1, RecvOthers DEF RecvAction
    <3>3. ReleaseOK(p, s) /\ ReleaseOK(Other(p), s)
      BY Sides DEF Released
    <3>4. ReleaseOK(p, s)' /\ ReleaseOK(Other(p), s)'
      BY <3>2, <3>3, RecvReleases
    <3> QED
      BY <3>2, <3>4, ReleaseBeside
  <2>4. ASSUME NEW p \in Peers, NEW s \in Ids, AppAction(p, s) PROVE Released'
    <3>1. AppStep(p, s)
      BY <2>4, AppActions DEF AppAction
    <3>2. \A y \in Ids : y # s => Untouched(y)
      BY <2>0, <3>1, AppKeeps
    <3>3. ReleaseOK(p, s) /\ ReleaseOK(Other(p), s)
      BY Sides DEF Released
    <3>4. ReleaseOK(p, s)' /\ ReleaseOK(Other(p), s)'
      BY <3>1, <3>3, AppReleases
    <3> QED
      BY <3>2, <3>4, ReleaseBeside
  <2>5. CASE UNCHANGED vars
    BY <2>5 DEF vars, Released, ReleaseOK, Stale, OwnId, Told, Has, Refuses
  <2> QED
    BY <2>1, <2>2, <2>3, <2>4, <2>5, NextIs
<1>3. Inv /\ Released => NoOrphan
  <2> SUFFICES ASSUME Inv, Released, NEW p \in Peers, NEW s \in table[p],
                      st[Other(p)][s].phase = "gone"
               PROVE  \/ Has(wire[Other(p)], "CLOSE", s) \/ Refuses(wire[Other(p)], s)
                      \/ st[p][s].closed /\ st[p][s].buf > 0
                      \/ st[p][s].phase = "refused"
    BY DEF NoOrphan, Has, Refuses, IsRefusal
  <2>1. s \in Ids
    BY DEF Inv, TypeOK
  <2>2. Told(p, s) \/ Has(wire[Other(p)], "CLOSE", s) \/ Refuses(wire[Other(p)], s)
    BY <2>1 DEF Released, ReleaseOK
  <2>3. st[p][s].closed => st[p][s].buf > 0
    BY <2>1, Now DEF StreamOK, LocalOK
  <2> QED
    BY <2>2, <2>3 DEF Told
<1> QED
  BY <1>1, <1>2, <1>3, StreamsInvariant, PTL DEF Spec

-----------------------------------------------------------------------------
(* Every stream is a pair of sliding windows.                              *)

Counters(p, s) == <<st[p][s].sent, st[Other(p)][s].recvd, st[Other(p)][s].rd, st[p][s].credited>>
Slides(p, s) == [Direction(p, s)!Next]_(Counters(p, s))

\* The positions of the writer and of the reader are those of a window.
InOrder == \A p \in Peers, s \in Ids : Direction(p, s)!InOrder

LEMMA PositionsInOrder == Inv => InOrder
<1> SUFFICES ASSUME Inv, NEW p \in Peers, NEW s \in Ids PROVE Direction(p, s)!InOrder
  BY DEF InOrder
<1> DEFINE r == st[p][s]
           a == st[Other(p)][s]
<1>1. /\ r \in Stream /\ a \in Stream
      /\ LocalOK(r, s \in table[p]) /\ LocalOK(a, s \in table[Other(p)])
      /\ DataOK(p, s) /\ CreditOK(p, s)
  BY Now DEF StreamOK
<1>2. /\ r.sent \in Nat /\ r.credited \in Nat /\ a.recvd \in Nat /\ a.rd \in Nat /\ a.buf \in Nat
  BY <1>1 DEF Stream
<1>3. a.recvd <= r.sent /\ r.credited <= a.rd
  BY <1>1 DEF DataOK, CreditOK
<1>4. a.rd + a.buf <= a.recvd /\ r.sent <= r.credited + Window
  BY <1>1 DEF LocalOK
<1> QED
  BY <1>2, <1>3, <1>4 DEF Direction!InOrder

\* One of the four positions advances, the other three stay.
LEMMA OneAdvances ==
    ASSUME InOrder, InOrder', NEW p \in Peers, NEW s \in Ids,
           LET r == st[p][s]
               t == st'[p][s]
               a == st[Other(p)][s]
               b == st'[Other(p)][s] IN
           \/ r.sent <= t.sent /\ b.recvd = a.recvd /\ b.rd = a.rd /\ t.credited = r.credited
           \/ t.sent = r.sent /\ a.recvd <= b.recvd /\ b.rd = a.rd /\ t.credited = r.credited
           \/ t.sent = r.sent /\ b.recvd = a.recvd /\ a.rd <= b.rd /\ t.credited = r.credited
           \/ t.sent = r.sent /\ b.recvd = a.recvd /\ b.rd = a.rd /\ r.credited <= t.credited
    PROVE  Slides(p, s)
<1> DEFINE r == st[p][s]
           t == st'[p][s]
           a == st[Other(p)][s]
           b == st'[Other(p)][s]
<1>1. Direction(p, s)!InOrder /\ Direction(p, s)!InOrder'
  BY DEF InOrder
<1>2. /\ r.sent \in Nat /\ a.recvd \in Nat /\ a.rd \in Nat /\ r.credited \in Nat
      /\ r.credited <= a.rd /\ a.rd <= a.recvd /\ a.recvd <= r.sent /\ r.sent - r.credited <= Window
  BY <1>1 DEF Direction!InOrder
<1>3. /\ t.sent \in Nat /\ b.recvd \in Nat /\ b.rd \in Nat /\ t.credited \in Nat
      /\ t.credited <= b.rd /\ b.rd <= b.recvd /\ b.recvd <= t.sent /\ t.sent - t.credited <= Window
  BY <1>1 DEF Direction!InOrder
<1>4. CASE r.sent < t.sent /\ b.recvd = a.recvd /\ b.rd = a.rd /\ t.credited = r.credited
  <2> DEFINE n == t.sent - r.sent
  <2>1. n \in 1..Window /\ t.sent = r.sent + n /\ r.sent + n <= r.credited + Window
    BY <1>2, <1>3, <1>4
  <2> HIDE DEF n
  <2>2. Direction(p, s)!Send(n)
    BY <1>4, <2>1 DEF Direction!Send
  <2> QED
    BY <2>1, <2>2 DEF Slides, Direction!Next
<1>5. CASE t.sent = r.sent /\ a.recvd < b.recvd /\ b.rd = a.rd /\ t.credited = r.credited
  <2> DEFINE n == b.recvd - a.recvd
  <2>1. n \in 1..Window /\ b.recvd = a.recvd + n /\ a.recvd + n <= r.sent
    BY <1>2, <1>3, <1>5
  <2> HIDE DEF n
  <2>2. Direction(p, s)!Deliver(n)
    BY <1>5, <2>1 DEF Direction!Deliver
  <2> QED
    BY <2>1, <2>2 DEF Slides, Direction!Next
<1>6. CASE t.sent = r.sent /\ b.recvd = a.recvd /\ a.rd < b.rd /\ t.credited = r.credited
  <2> DEFINE n == b.rd - a.rd
  <2>1. n \in 1..Window /\ b.rd = a.rd + n /\ a.rd + n <= a.recvd
    BY <1>2, <1>3, <1>6
  <2> HIDE DEF n
  <2>2. Direction(p, s)!Take(n)
    BY <1>6, <2>1 DEF Direction!Take
  <2> QED
    BY <2>1, <2>2 DEF Slides, Direction!Next
<1>7. CASE t.sent = r.sent /\ b.recvd = a.recvd /\ b.rd = a.rd /\ r.credited < t.credited
  <2> DEFINE n == t.credited - r.credited
  <2>1. n \in 1..Window /\ t.credited = r.credited + n /\ r.credited + n <= a.rd
    BY <1>2, <1>3, <1>7
  <2> HIDE DEF n
  <2>2. Direction(p, s)!Credit(n)
    BY <1>7, <2>1 DEF Direction!Credit
  <2> QED
    BY <2>1, <2>2 DEF Slides, Direction!Next
<1>8. CASE t.sent = r.sent /\ b.recvd = a.recvd /\ b.rd = a.rd /\ t.credited = r.credited
  BY <1>8 DEF Slides, Counters
<1>9. /\ r.sent <= t.sent => r.sent < t.sent \/ t.sent = r.sent
      /\ a.recvd <= b.recvd => a.recvd < b.recvd \/ b.recvd = a.recvd
      /\ a.rd <= b.rd => a.rd < b.rd \/ b.rd = a.rd
      /\ r.credited <= t.credited => r.credited < t.credited \/ t.credited = r.credited
  BY <1>2, <1>3
<1> QED
  BY <1>4, <1>5, <1>6, <1>7, <1>8, <1>9

LEMMA AppSlides ==
    ASSUME Inv, Inv', InOrder, InOrder', NEW p \in Peers, NEW s \in Ids, AppStep(p, s)
    PROVE  Slides(p, s) /\ Slides(Other(p), s)
<1> DEFINE q == Other(p)
           r == st[p][s]
           t == st'[p][s]
<1>1. q \in Peers /\ Other(q) = p /\ r \in Stream /\ t \in Stream
  BY Now DEF Inv, TypeOK
<1>2. /\ Moves(r, t) /\ st'[q][s] = st[q][s]
      /\ t.sent = r.sent \/ \E f \in Frame : Adds(p, s, f)
  BY AppParts
<1>3. r.sent \in Nat /\ t.sent \in Nat
  BY <1>1 DEF Stream
<1>4. r.sent <= t.sent
  <2>1. ASSUME NEW f \in Frame, Adds(p, s, f) PROVE r.sent <= t.sent
    <3>1. Says(r, t, f)
      BY <2>1 DEF Adds
    <3>2. r.sent < t.sent \/ t.sent = r.sent
      BY <3>1 DEF Says
    <3> QED
      BY <1>3, <3>2
  <2> QED
    BY <1>2, <1>3, <2>1
<1>5. r.rd <= t.rd /\ t.recvd = r.recvd /\ t.credited = r.credited
  BY <1>2 DEF Moves
<1> HIDE DEF r, t
<1>6. Slides(p, s)
  BY <1>2, <1>4, <1>5, OneAdvances DEF r, t
<1>7. Slides(q, s)
  BY <1>1, <1>2, <1>5, OneAdvances DEF r, t
<1> QED
  BY <1>6, <1>7

LEMMA RecvSlides ==
    ASSUME Inv, Inv', InOrder, InOrder', NEW p \in Peers, NEW s \in Ids, RecvStep(p, s)
    PROVE  Slides(p, s) /\ Slides(Other(p), s)
<1> DEFINE q == Other(p)
           h == Head(wire[q])
           r == st[p][s]
           t == st'[p][s]
<1>1. q \in Peers /\ Other(q) = p /\ r \in Stream
  BY Now
<1>2. /\ Takes(r, t, h, s \in table[p], ~Up(p)') /\ h \in Frame
      /\ st'[q][s] = st[q][s]
  BY RecvParts
<1>3. r.recvd \in Nat /\ r.credited \in Nat /\ Length(h) \in Nat
  BY <1>1, <1>2 DEF Stream, Frame, Length
<1> HIDE DEF h
<1>4. r.recvd <= t.recvd /\ r.credited <= t.credited
  BY <1>2, <1>3 DEF Takes
<1>5. t.sent = r.sent /\ t.rd = r.rd
  BY <1>2 DEF Takes
<1> HIDE DEF r, t
<1>6. Slides(p, s)
  BY <1>2, <1>4, <1>5, OneAdvances DEF r, t
<1>7. Slides(q, s)
  BY <1>1, <1>2, <1>4, <1>5, OneAdvances DEF r, t
<1> QED
  BY <1>6, <1>7

\* A stream whose ends are as they were, or that is only being opened, stands still.
LEMMA StillSlides ==
    ASSUME NEW p \in Peers, NEW s \in Ids, \A x \in Peers : st'[x][s] = st[x][s]
    PROVE  Slides(p, s)
<1>1. Other(p) \in Peers
  BY Sides
<1> QED
  BY <1>1 DEF Slides, Counters

LEMMA BesideSlides ==
    ASSUME NEW p \in Peers, NEW s \in Ids,
           \A y \in Ids : y # s => Untouched(y),
           Slides(p, s), Slides(Other(p), s)
    PROVE  \A x \in Peers, y \in Ids : Slides(x, y)
<1> SUFFICES ASSUME NEW x \in Peers, NEW y \in Ids PROVE Slides(x, y)
  OBVIOUS
<1>1. CASE y # s
  BY <1>1, StillSlides DEF Untouched
<1>2. CASE y = s
  <2>1. x = p \/ x = Other(p)
    BY Sides
  <2> QED
    BY <1>2, <2>1
<1> QED
  BY <1>1, <1>2

LEMMA FreshSlides ==
    ASSUME NEW p \in Peers, NEW s \in Ids, NEW x \in Peers, NEW phase,
           st[p][s] = NewStream("unused"), st'[p][s] = NewStream(phase),
           st'[Other(p)][s] = st[Other(p)][s], x = p \/ x = Other(p)
    PROVE  Slides(x, s)
<1>1. /\ Other(p) \in Peers /\ Other(Other(p)) = p
      /\ st'[p][s].sent = st[p][s].sent /\ st'[p][s].recvd = st[p][s].recvd
      /\ st'[p][s].rd = st[p][s].rd /\ st'[p][s].credited = st[p][s].credited
  BY Sides DEF NewStream
<1> QED
  BY <1>1 DEF Slides, Counters

LEMMA StreamsSlide == Inv /\ Inv' /\ [Next]_vars => \A p \in Peers, s \in Ids : Slides(p, s)
<1> SUFFICES ASSUME Inv, Inv', [Next]_vars PROVE \A p \in Peers, s \in Ids : Slides(p, s)
  OBVIOUS
<1>0. TypeOK /\ TypeOK' /\ InOrder /\ InOrder'
  <2>1. InOrder'
    BY PositionsInOrder, PTL
  <2> QED
    BY <2>1, PositionsInOrder DEF Inv
<1>1. ASSUME NEW p \in Peers, OpenStream(p) PROVE \A x \in Peers, s \in Ids : Slides(x, s)
  <2>1. nextId[p] \in Ids
    BY <1>0, <1>1 DEF OpenStream, TypeOK, Ids
  <2>2. PICK y \in Ids : y = nextId[p]
    BY <2>1
  <2>3. \A s \in Ids : s # y => Untouched(s)
    BY <1>0, <1>1, <2>2, OpenKeeps
  <2>4. st[p][y] = NewStream("unused") /\ Other(p) \in Peers /\ Other(p) # p
    BY <2>2, FreshId, Sides
  <2>5. st'[p][y] = NewStream("opening") /\ st'[Other(p)][y] = st[Other(p)][y]
    BY <1>0, <1>1, <2>2, <2>4 DEF OpenStream, Become, TypeOK
  <2>6. Slides(p, y) /\ Slides(Other(p), y)
    BY <2>4, <2>5, FreshSlides
  <2> QED
    BY <2>3, <2>6, BesideSlides
<1>2. ASSUME NEW p \in Peers, RecvOpen(p) PROVE \A x \in Peers, s \in Ids : Slides(x, s)
  <2>1. PICK y \in Ids : y = In(p).id
    BY <1>0, <1>2, RequestsKeep
  <2>2. /\ \A s \in Ids : s # y => Untouched(s)
        /\ Accepts(p, y) \/ Refuse(p, y)
    BY <1>0, <1>2, <2>1, RequestsKeep
  <2>3. /\ st[p][y] = NewStream("unused") /\ Other(p) \in Peers /\ Other(p) # p
        /\ Other(Other(p)) = p
    BY <1>2, <2>1, RequestIs, Sides DEF RecvOpen, Arrives
  <2>4. CASE Accepts(p, y)
    <3>1. st'[p][y] = NewStream("accepting") /\ st'[Other(p)][y] = st[Other(p)][y]
      BY <1>0, <2>3, <2>4 DEF Accepts, TypeOK
    <3>2. Slides(p, y) /\ Slides(Other(p), y)
      BY <2>3, <3>1, FreshSlides
    <3> QED
      BY <2>2, <3>2, BesideSlides
  <2>5. CASE Refuse(p, y)
    BY <2>5, StillSlides DEF Refuse
  <2> QED
    BY <2>2, <2>4, <2>5
<1>3. ASSUME NEW p \in Peers, RecvAction(p) PROVE \A x \in Peers, s \in Ids : Slides(x, s)
  <2>1. PICK s \in Ids : s = In(p).id
    BY <1>0, <1>3, RecvOthers DEF RecvAction
  <2>2. RecvStep(p, s) /\ \A y \in Ids : y # s => Untouched(y)
    BY <1>0, <1>3, <2>1, RecvOthers DEF RecvAction
  <2>3. Slides(p, s) /\ Slides(Other(p), s)
    BY <1>0, <2>2, RecvSlides
  <2> QED
    BY <2>2, <2>3, BesideSlides
<1>4. ASSUME NEW p \in Peers, NEW s \in Ids, AppAction(p, s)
      PROVE  \A x \in Peers, y \in Ids : Slides(x, y)
  <2>1. AppStep(p, s)
    BY <1>4, AppActions DEF AppAction
  <2>2. \A y \in Ids : y # s => Untouched(y)
    BY <1>0, <2>1, AppKeeps
  <2>3. Slides(p, s) /\ Slides(Other(p), s)
    BY <1>0, <2>1, AppSlides
  <2> QED
    BY <2>2, <2>3, BesideSlides
<1>5. CASE UNCHANGED vars
  BY <1>5, StillSlides DEF vars
<1> QED
  BY <1>1, <1>2, <1>3, <1>4, <1>5, NextIs

\* MuxStreams implements SlidingWindow, once for each stream and direction: every
\* step of the two peers sends, delivers, reads or credits within the window, or
\* does not concern that direction at all.
THEOREM StreamsAreWindows == Spec => ImplementsWindow
<1> DEFINE First == \A p \in Peers : \A s \in Ids : Direction(p, s)!Init
           Step == \A p \in Peers : \A s \in Ids :
                     [Direction(p, s)!Next]_<<st[p][s].sent, st[Other(p)][s].recvd,
                                              st[Other(p)][s].rd, st[p][s].credited>>
<1>1. Init => First
  BY PeersType DEF Init, Direction!Init, NewStream
<1>2. Inv /\ Inv' /\ [Next]_vars => Step
  BY StreamsSlide DEF Slides, Counters
<1>3. Spec => First /\ [][Step]_vars
  <2> HIDE DEF First, Step
  <2> QED
    BY <1>1, <1>2, StreamsInvariant, PTL DEF Spec
<1> QED
  BY <1>3 DEF ImplementsWindow

\* Hence, for every stream and in both directions, bytes are sent, received, read
\* and credited in that order, and no more than a window of them is under way.
THEOREM WindowsInOrder == Spec => []InOrder
BY PositionsInOrder, StreamsInvariant, PTL

=============================================================================
