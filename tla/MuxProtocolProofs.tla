------------------------- MODULE MuxProtocolProofs --------------------------
(***************************************************************************)
(* Why two peers that run rdpflux/mux.py understand each other, for every  *)
(* number of streams, window, chunk, stream limit and aggregate cap.       *)
(*                                                                         *)
(* One inductive invariant, Inv, relates for each ID the two stream        *)
(* objects, the two tables and every frame on the two wires.  Its parts    *)
(* say what a wire may hold of a stream (an OPEN first, an answer before   *)
(* anything else, nothing after a CLOSE or a refusal, spans of data without*)
(* a gap) and what each end then knows.  An action of the application's    *)
(* side is an AppStep, one of the runner a RecvStep: these two say what    *)
(* the proofs need of an action, and each part of Inv is shown for them    *)
(* and for the two ways a stream comes into being, OpenStream and RecvOpen.*)
(* MuxGuaranteesProofs draws the consequences.                             *)
(***************************************************************************)
EXTENDS MuxStreamsProofs

USE IdAssumption, WindowAssumption, LimitAssumption

-----------------------------------------------------------------------------
(* What a wire says of one stream.                                         *)

IsRefusal(f) == f.kind = "OPEN_RESULT" /\ ~f.ok
IsFinal(f) == f.kind = "CLOSE" \/ IsRefusal(f)

Mentions(w, s) == \E i \in 1..Len(w) : w[i].id = s
Has(w, kind, s) == \E i \in 1..Len(w) : w[i].id = s /\ w[i].kind = kind
Refuses(w, s) == \E i \in 1..Len(w) : w[i].id = s /\ IsRefusal(w[i])

\* OPEN comes before every other frame of the stream; OPENs come in the order of IDs.
OpenFirst(w, s) ==
    \A i \in 1..Len(w) : w[i].id = s => \E j \in 1..i : w[j].id = s /\ w[j].kind = "OPEN"
OpensRise(w) == \A i, j \in 1..Len(w) :
    i < j /\ w[i].kind = "OPEN" /\ w[j].kind = "OPEN" => w[i].id < w[j].id

\* The answer to an OPEN comes before every other frame.
ResultFirst(w, s) ==
    \A i \in 1..Len(w) : w[i].id = s => \E j \in 1..i : w[j].id = s /\ w[j].kind = "OPEN_RESULT"

\* Nothing follows a CLOSE or a refusal, and nothing comes with a refusal.
FinalLast(w, s) == \A i, j \in 1..Len(w) :
    w[i].id = s /\ w[j].id = s /\ IsFinal(w[i]) => j <= i
RefusalAlone(w, s) == \A i, j \in 1..Len(w) :
    w[i].id = s /\ w[j].id = s /\ IsRefusal(w[i]) => i = j
OnlyRefusals(w, s) == \A i \in 1..Len(w) : w[i].id = s => IsRefusal(w[i])

\* No data follows HALF_CLOSE.
EofLast(w, s) == \A i, j \in 1..Len(w) :
    /\ w[i].id = s /\ w[i].kind = "HALF_CLOSE"
    /\ w[j].id = s /\ w[j].kind = "DATA"
    => j < i

\* The spans of the DATA frames, or of the WINDOW_UPDATEs, are not empty, lie
\* between two positions, and come in order; those of the data leave no gap.
Spans(w, kind, s, low, high) ==
    /\ \A i \in 1..Len(w) : w[i].id = s /\ w[i].kind = kind =>
        low <= w[i].from /\ w[i].from < w[i].upto /\ w[i].upto <= high
    /\ \A i, j \in 1..Len(w) :
        /\ i < j
        /\ w[i].id = s /\ w[i].kind = kind
        /\ w[j].id = s /\ w[j].kind = kind
        => w[i].upto <= w[j].from
Covers(w, s, low, high) == \A k \in (low + 1)..high :
    \E i \in 1..Len(w) : w[i].id = s /\ w[i].kind = "DATA" /\ w[i].from < k /\ k <= w[i].upto

-----------------------------------------------------------------------------
(* The inductive invariant.                                                *)

\* A stream object by itself: its credit, its buffer and its flags.
LocalOK(r, here) ==
    /\ r.phase = "unused" => ~here /\ r = NewStream("unused")
    /\ r.phase # "unused" /\ ~r.closed => here
    /\ r.phase = "gone" => r.closed
    /\ r.reset => r.closed
    /\ r.closed => r.reof /\ r.reserved = 0
    /\ r.held > 0 => ~r.leof /\ r.phase \in {"open", "gone"}
    /\ ~r.closed => /\ r.credit + r.held + r.reserved = Window
                    /\ r.reserved + r.credited = r.sent
    /\ r.credited <= r.sent /\ r.sent <= r.credited + Window
    /\ r.rd + r.buf <= r.recvd
    /\ ~r.closed \/ here => r.rd + r.buf = r.recvd /\ r.rcredit + r.buf = Window
    /\ here /\ r.closed => r.buf > 0
    /\ ~here => r.buf = 0 /\ r.reserved = 0

\* IDs are new when they are allocated, and the other end meets them in order.
CountersOK(p) ==
    /\ OwnId(p, nextId[p])
    /\ highest[Other(p)] < nextId[p]
    /\ OpensRise(wire[p])

\* Who speaks of a stream knows it, and OPEN makes it known to the other end.
IdOK(p, s) ==
    LET q == Other(p) IN
    /\ st[p][s].phase # "unused" \/ Mentions(wire[p], s) => Stale(p, s)
    /\ Has(wire[p], "OPEN", s) => OwnId(p, s) /\ ~Stale(q, s)
    /\ Has(wire[p], "OPEN_RESULT", s) => ~OwnId(p, s)
    /\ OwnId(p, s) =>
        /\ Stale(q, s) => Stale(p, s)
        /\ Stale(p, s) => st[p][s].phase # "unused" /\ (Stale(q, s) \/ Has(wire[p], "OPEN", s))
        /\ Stale(q, s) \/ OpenFirst(wire[p], s)

\* p will say nothing more of s; p has said nothing yet; p has been told the end.
Over(p, s) == st[p][s].phase = "gone" \/ (st[p][s].phase = "unused" /\ Stale(p, s))
Waits(p, s) == st[p][s].phase = "accepting" \/ (st[p][s].phase = "unused" /\ ~Stale(p, s))
Told(p, s) == \/ st[p][s].closed /\ (st[p][s].phase # "gone" \/ s \in table[p])
              \/ st[p][s].phase = "refused"

EndOK(p, s) ==
    /\ FinalLast(wire[p], s)
    /\ Has(wire[p], "CLOSE", s) \/ Refuses(wire[p], s) => Over(p, s)
    /\ Told(Other(p), s) => Over(p, s) /\ ~Mentions(wire[p], s)

\* The opening of s, from the side of the peer p that is asked.
AnswerOK(p, s) ==
    LET a == st[Other(p)][s].phase
        b == st[p][s].phase IN
    /\ b = "unused" => OnlyRefusals(wire[p], s)
    /\ Waits(p, s) => ~Mentions(wire[p], s)
    /\ b \in {"unused", "accepting"} =>
        /\ a \notin {"granted", "open"}
        /\ ~Has(wire[Other(p)], "HALF_CLOSE", s)
        /\ ~st[p][s].reof
    /\ RefusalAlone(wire[p], s)
    /\ Refuses(wire[p], s) => a \in {"opening", "gone"} /\ s \notin table[p]
    /\ a = "opening" =>
        /\ ~st[Other(p)][s].closed
        /\ ResultFirst(wire[p], s)
        /\ b \notin {"unused", "accepting"} => Has(wire[p], "OPEN_RESULT", s)
    /\ a = "refused" => ~st[Other(p)][s].closed /\ s \notin table[p]

PhaseOK(p, s) ==
    IF OwnId(p, s) THEN st[p][s].phase # "accepting"
    ELSE st[p][s].phase \notin {"opening", "granted", "refused"} /\ AnswerOK(p, s)

\* The data from p to the other end, and its end.
DataOK(p, s) ==
    LET q == Other(p) IN
    /\ st[q][s].recvd <= st[p][s].sent
    /\ Spans(wire[p], "DATA", s, st[q][s].recvd, st[p][s].sent)
    /\ EofLast(wire[p], s)
    /\ Has(wire[p], "HALF_CLOSE", s) => st[p][s].leof
    /\ Up(q) /\ (s \in table[q] \/ ~Stale(q, s)) =>
        Covers(wire[p], s, st[q][s].recvd, st[p][s].sent)

EofOK(p, s) ==
    LET r == st[Other(p)][s] IN
    /\ r.reof /\ ~r.reset /\ r.phase # "gone" =>
        st[p][s].leof /\ r.recvd = st[p][s].sent /\ r.rd + r.buf = r.recvd
    /\ r.sawEof => st[p][s].leof /\ r.rd = st[p][s].sent

\* The credit that comes back to p.
CreditOK(p, s) ==
    LET q == Other(p) IN
    /\ st[p][s].credited <= st[q][s].rd
    /\ Spans(wire[q], "WINDOW_UPDATE", s, st[p][s].credited, st[q][s].rd)

StreamOK(p, s) ==
    /\ LocalOK(st[p][s], s \in table[p])
    /\ IdOK(p, s) /\ EndOK(p, s) /\ PhaseOK(p, s)
    /\ DataOK(p, s) /\ EofOK(p, s) /\ CreditOK(p, s)

Inv ==
    /\ TypeOK
    /\ \A p \in Peers : CountersOK(p) /\ \A s \in Ids : StreamOK(p, s)

-----------------------------------------------------------------------------
(* How these change when a frame is sent, and when one is taken.           *)

LEMMA AppendIs ==
    ASSUME NEW w \in Seq(Frame), NEW f \in Frame
    PROVE  /\ Append(w, f) \in Seq(Frame)
           /\ Len(w) \in Nat /\ Len(Append(w, f)) = Len(w) + 1
           /\ \A i \in 1..Len(w) : Append(w, f)[i] = w[i] /\ w[i] \in Frame
           /\ Append(w, f)[Len(w) + 1] = f
OBVIOUS

LEMMA TailIs ==
    ASSUME NEW w \in Seq(Frame), w # <<>>
    PROVE  /\ Tail(w) \in Seq(Frame) /\ Head(w) \in Frame /\ Head(w) = w[1]
           /\ Len(w) \in Nat \ {0} /\ Len(Tail(w)) = Len(w) - 1
           /\ \A i \in 1..Len(w) : w[i] \in Frame
           /\ \A i \in 1..(Len(w) - 1) : Tail(w)[i] = w[i + 1]
OBVIOUS

\* v says of s what w does.
Alike(w, v, s) ==
    /\ Mentions(v, s) => Mentions(w, s)
    /\ Refuses(v, s) => Refuses(w, s)
    /\ Refuses(w, s) => Refuses(v, s)
    /\ \A k \in FrameKinds : Has(v, k, s) => Has(w, k, s)
    /\ \A k \in FrameKinds : Has(w, k, s) => Has(v, k, s)
    /\ OpenFirst(w, s) => OpenFirst(v, s)
    /\ ResultFirst(w, s) => ResultFirst(v, s)
    /\ FinalLast(w, s) => FinalLast(v, s)
    /\ RefusalAlone(w, s) => RefusalAlone(v, s)
    /\ OnlyRefusals(w, s) => OnlyRefusals(v, s)
    /\ EofLast(w, s) => EofLast(v, s)
    /\ \A k \in FrameKinds, low, high \in Nat : Spans(w, k, s, low, high) => Spans(v, k, s, low, high)
    /\ \A low, high \in Nat : Covers(w, s, low, high) => Covers(v, s, low, high)

\* The frames of s are the same, and d places further on in w.
Shifted(w, v, s, d) ==
    /\ \A i \in 1..Len(v) : v[i].id = s => i + d \in 1..Len(w) /\ w[i + d] = v[i]
    /\ \A i \in 1..Len(w) : w[i].id = s => i - d \in 1..Len(v) /\ v[i - d] = w[i]

LEMMA ShiftedAlike ==
    ASSUME NEW w \in Seq(Frame), NEW v \in Seq(Frame), NEW s \in Ids, NEW d \in {0, 1},
           Shifted(w, v, s, d)
    PROVE  Alike(w, v, s)
<1>0. Len(w) \in Nat /\ Len(v) \in Nat
  OBVIOUS
<1>1. ASSUME NEW i \in 1..Len(v), v[i].id = s
      PROVE  i + d \in 1..Len(w) /\ w[i + d] = v[i] /\ w[i + d].id = s
  BY <1>1 DEF Shifted
<1>2. ASSUME NEW i \in 1..Len(w), w[i].id = s
      PROVE  i - d \in 1..Len(v) /\ v[i - d] = w[i] /\ v[i - d].id = s
  BY <1>2 DEF Shifted
<1>3. ASSUME NEW i \in 1..Len(v), NEW j \in 1..Len(v)
      PROVE  (i + d < j + d <=> i < j) /\ (i + d <= j + d <=> i <= j) /\ (i + d = j + d <=> i = j)
  BY <1>0
<1>4. /\ Mentions(v, s) => Mentions(w, s)
      /\ Refuses(v, s) => Refuses(w, s)
      /\ Refuses(w, s) => Refuses(v, s)
      /\ \A k \in FrameKinds : Has(v, k, s) => Has(w, k, s)
      /\ \A k \in FrameKinds : Has(w, k, s) => Has(v, k, s)
  <2>1. Mentions(v, s) => Mentions(w, s)
    BY <1>1 DEF Mentions
  <2>2. (Refuses(v, s) => Refuses(w, s)) /\ (Refuses(w, s) => Refuses(v, s))
    BY <1>1, <1>2 DEF Refuses
  <2>3. ASSUME NEW k \in FrameKinds PROVE (Has(v, k, s) => Has(w, k, s)) /\ (Has(w, k, s) => Has(v, k, s))
    BY <1>1, <1>2 DEF Has
  <2> QED
    BY <2>1, <2>2, <2>3
<1>5. ASSUME NEW kind, NEW i \in 1..Len(v), v[i].id = s,
             \E j \in 1..(i + d) : w[j].id = s /\ w[j].kind = kind
      PROVE  \E j \in 1..i : v[j].id = s /\ v[j].kind = kind
  <2>1. PICK j \in 1..(i + d) : w[j].id = s /\ w[j].kind = kind
    BY <1>5
  <2>2. j \in 1..Len(w) /\ j - d <= i
    BY <1>0, <1>1, <1>5
  <2>3. j - d \in 1..Len(v) /\ v[j - d] = w[j]
    BY <1>2, <2>1, <2>2
  <2>4. j - d \in 1..i
    BY <2>2, <2>3
  <2> QED
    BY <2>1, <2>3, <2>4
<1>6. /\ OpenFirst(w, s) => OpenFirst(v, s)
      /\ ResultFirst(w, s) => ResultFirst(v, s)
  BY <1>1, <1>5 DEF OpenFirst, ResultFirst
<1>7. FinalLast(w, s) => FinalLast(v, s)
  <2> SUFFICES ASSUME FinalLast(w, s), NEW i \in 1..Len(v), NEW j \in 1..Len(v),
                      v[i].id = s, v[j].id = s, IsFinal(v[i])
               PROVE  j <= i
    BY DEF FinalLast
  <2> QED
    BY <1>1, <1>3 DEF FinalLast
<1>8. RefusalAlone(w, s) => RefusalAlone(v, s)
  <2> SUFFICES ASSUME RefusalAlone(w, s), NEW i \in 1..Len(v), NEW j \in 1..Len(v),
                      v[i].id = s, v[j].id = s, IsRefusal(v[i])
               PROVE  i = j
    BY DEF RefusalAlone
  <2> QED
    BY <1>1, <1>3 DEF RefusalAlone
<1>9. OnlyRefusals(w, s) => OnlyRefusals(v, s)
  BY <1>1 DEF OnlyRefusals
<1>10. EofLast(w, s) => EofLast(v, s)
  <2> SUFFICES ASSUME EofLast(w, s), NEW i \in 1..Len(v), NEW j \in 1..Len(v),
                      v[i].id = s, v[i].kind = "HALF_CLOSE", v[j].id = s, v[j].kind = "DATA"
               PROVE  j < i
    BY DEF EofLast
  <2> QED
    BY <1>1, <1>3 DEF EofLast
<1>11. \A k \in FrameKinds, low, high \in Nat : Spans(w, k, s, low, high) => Spans(v, k, s, low, high)
  <2> SUFFICES ASSUME NEW k \in FrameKinds, NEW low \in Nat, NEW high \in Nat, Spans(w, k, s, low, high)
               PROVE  Spans(v, k, s, low, high)
    OBVIOUS
  <2>1. ASSUME NEW i \in 1..Len(v), v[i].id = s, v[i].kind = k
        PROVE  low <= v[i].from /\ v[i].from < v[i].upto /\ v[i].upto <= high
    BY <1>1, <2>1 DEF Spans
  <2>2. ASSUME NEW i \in 1..Len(v), NEW j \in 1..Len(v), i < j,
               v[i].id = s, v[i].kind = k, v[j].id = s, v[j].kind = k
        PROVE  v[i].upto <= v[j].from
    <3> DEFINE a == i + d
               b == j + d
    <3>1. a \in 1..Len(w) /\ b \in 1..Len(w) /\ a < b /\ w[a] = v[i] /\ w[b] = v[j]
      BY <1>1, <1>3, <2>2
    <3> HIDE DEF a, b
    <3> QED
      BY <2>2, <3>1 DEF Spans
  <2> QED
    BY <2>1, <2>2 DEF Spans
<1>12. \A low, high \in Nat : Covers(w, s, low, high) => Covers(v, s, low, high)
  BY <1>2 DEF Covers
<1> QED
  BY <1>4, <1>6, <1>7, <1>8, <1>9, <1>10, <1>11, <1>12 DEF Alike

\* A frame of another stream changes nothing, sent or taken.
LEMMA AppendOther ==
    ASSUME NEW w \in Seq(Frame), NEW f \in Frame, NEW s \in Ids, f.id # s
    PROVE  Alike(w, Append(w, f), s)
<1> DEFINE v == Append(w, f)
<1>1. /\ v \in Seq(Frame) /\ Len(w) \in Nat /\ Len(v) = Len(w) + 1
      /\ \A i \in 1..Len(w) : v[i] = w[i]
      /\ v[Len(w) + 1] = f
  BY AppendIs
<1> HIDE DEF v
<1>2. Shifted(w, v, s, 0)
  BY <1>1 DEF Shifted
<1>3. Alike(w, v, s)
  BY <1>1, <1>2, ShiftedAlike
<1> QED
  BY <1>3 DEF v

LEMMA TailOther ==
    ASSUME NEW w \in Seq(Frame), w # <<>>, NEW s \in Ids, Head(w).id # s
    PROVE  Alike(w, Tail(w), s)
<1> DEFINE v == Tail(w)
<1>1. /\ v \in Seq(Frame) /\ Len(w) \in Nat \ {0} /\ Len(v) = Len(w) - 1
      /\ \A i \in 1..(Len(w) - 1) : v[i] = w[i + 1]
      /\ w[1].id # s
  BY TailIs
<1> HIDE DEF v
<1>2. ASSUME NEW i \in 1..Len(w), w[i].id = s PROVE i - 1 \in 1..Len(v) /\ v[i - 1] = w[i]
  <2>1. i # 1
    BY <1>1, <1>2
  <2>2. i - 1 \in 1..(Len(w) - 1) /\ (i - 1) + 1 = i
    BY <1>1, <2>1
  <2> QED
    BY <1>1, <2>2
<1>3. Shifted(w, v, s, 1)
  BY <1>1, <1>2 DEF Shifted
<1>4. Alike(w, v, s)
  BY <1>1, <1>3, ShiftedAlike
<1> QED
  BY <1>4 DEF v

\* A frame f of the stream itself makes v of w when it is sent ...
Extended(w, v, f, s) ==
    /\ \A k \in FrameKinds : Has(v, k, s) <=> Has(w, k, s) \/ f.kind = k
    /\ Refuses(v, s) => Refuses(w, s) \/ IsRefusal(f)
    /\ Refuses(w, s) \/ IsRefusal(f) => Refuses(v, s)
    /\ OpenFirst(w, s) /\ (Has(w, "OPEN", s) \/ f.kind = "OPEN") => OpenFirst(v, s)
    /\ ResultFirst(w, s) /\ (Has(w, "OPEN_RESULT", s) \/ f.kind = "OPEN_RESULT")
         => ResultFirst(v, s)
    /\ ~Has(w, "CLOSE", s) /\ ~Refuses(w, s) => FinalLast(v, s)
    /\ ~Refuses(w, s) /\ ~IsRefusal(f) => RefusalAlone(v, s)
    /\ ~Mentions(w, s) => RefusalAlone(v, s)
    /\ ~Mentions(w, s) /\ IsRefusal(f) => OnlyRefusals(v, s)
    /\ EofLast(w, s) /\ (f.kind = "DATA" => ~Has(w, "HALF_CLOSE", s)) => EofLast(v, s)
    /\ \A k \in FrameKinds, low, high \in Nat : Spans(w, k, s, low, high) =>
         /\ f.kind # k => Spans(v, k, s, low, high)
         /\ f.kind = k /\ low <= high /\ f.from = high /\ high < f.upto
             => Spans(v, k, s, low, f.upto)
    /\ \A low, high \in Nat : Covers(w, s, low, high) =>
         /\ f.kind # "DATA" => Covers(v, s, low, high)
         /\ f.kind = "DATA" /\ f.from = high => Covers(v, s, low, f.upto)

\* ... and when it is taken.
Taken(w, v, h, s) ==
    /\ Mentions(w, s) /\ Has(w, h.kind, s) /\ (IsRefusal(h) => Refuses(w, s))
    /\ Mentions(v, s) => Mentions(w, s)
    /\ Refuses(v, s) => Refuses(w, s)
    /\ Refuses(w, s) /\ ~IsRefusal(h) => Refuses(v, s)
    /\ \A k \in FrameKinds : Has(v, k, s) => Has(w, k, s)
    /\ \A k \in FrameKinds : Has(w, k, s) /\ h.kind # k => Has(v, k, s)
    /\ OpenFirst(w, s) => h.kind = "OPEN"
    /\ ResultFirst(w, s) => h.kind = "OPEN_RESULT"
    /\ OnlyRefusals(w, s) => IsRefusal(h) /\ OnlyRefusals(v, s)
    /\ FinalLast(w, s) => FinalLast(v, s) /\ (IsFinal(h) => ~Mentions(v, s))
    /\ RefusalAlone(w, s) =>
         RefusalAlone(v, s) /\ ~Refuses(v, s) /\ (IsRefusal(h) => ~Mentions(v, s))
    /\ EofLast(w, s) => EofLast(v, s) /\ (h.kind = "HALF_CLOSE" => ~Has(v, "DATA", s))
    /\ \A k \in FrameKinds, low, high \in Nat : Spans(w, k, s, low, high) =>
         /\ h.kind # k => Spans(v, k, s, low, high)
         /\ h.kind = k =>
             /\ low <= h.from /\ h.from < h.upto /\ h.upto <= high
             /\ Spans(v, k, s, h.upto, high)
    /\ \A low, high \in Nat : Covers(w, s, low, high) /\ Spans(w, "DATA", s, low, high) =>
         /\ h.kind # "DATA" => Covers(v, s, low, high)
         /\ h.kind = "DATA" => h.from = low /\ Covers(v, s, h.upto, high)

LEMMA AppendSame ==
    ASSUME NEW w \in Seq(Frame), NEW f \in Frame, NEW s \in Ids, f.id = s
    PROVE  Extended(w, Append(w, f), f, s)
<1> DEFINE v == Append(w, f)
           n == Len(w)
<1>1. /\ n \in Nat /\ Len(v) = n + 1
      /\ \A i \in 1..n : v[i] = w[i] /\ w[i] \in Frame
      /\ v[n + 1] = f
  BY AppendIs
<1> HIDE DEF v, n
<1>2. \A i \in 1..Len(v) : (i \in 1..n /\ v[i] = w[i]) \/ (i = n + 1 /\ v[i] = f)
  BY <1>1
<1>3. \A i \in 1..n : i \in 1..Len(v) /\ v[i] = w[i]
  BY <1>1
<1>4. n + 1 \in 1..Len(v)
  BY <1>1
<1>5. \A k \in FrameKinds : Has(v, k, s) <=> Has(w, k, s) \/ f.kind = k
  <2> SUFFICES ASSUME NEW k \in FrameKinds PROVE Has(v, k, s) <=> Has(w, k, s) \/ f.kind = k
    OBVIOUS
  <2>1. Has(v, k, s) => Has(w, k, s) \/ f.kind = k
    BY <1>2 DEF Has, n
  <2>2. Has(w, k, s) => Has(v, k, s)
    BY <1>3 DEF Has, n
  <2>3. f.kind = k => Has(v, k, s)
    BY <1>1, <1>4 DEF Has
  <2> QED
    BY <2>1, <2>2, <2>3
<1>6. /\ Refuses(v, s) => Refuses(w, s) \/ IsRefusal(f)
      /\ Refuses(w, s) \/ IsRefusal(f) => Refuses(v, s)
  BY <1>1, <1>2, <1>3, <1>4 DEF Refuses, n
<1>7. ASSUME NEW kind,
             \A i \in 1..n : w[i].id = s => \E j \in 1..i : w[j].id = s /\ w[j].kind = kind,
             f.kind = kind \/ \E i \in 1..n : w[i].id = s /\ w[i].kind = kind,
             NEW i \in 1..Len(v), v[i].id = s
      PROVE  \E j \in 1..i : v[j].id = s /\ v[j].kind = kind
  <2>1. CASE i \in 1..n
    <3>1. PICK j \in 1..i : w[j].id = s /\ w[j].kind = kind
      BY <1>3, <1>7, <2>1
    <3>2. j \in 1..n
      BY <1>1, <2>1
    <3> QED
      BY <1>3, <3>1, <3>2
  <2>2. CASE i = n + 1 /\ f.kind = kind
    BY <1>1, <1>7, <2>2
  <2>3. CASE i = n + 1 /\ \E j \in 1..n : w[j].id = s /\ w[j].kind = kind
    BY <1>1, <1>3, <2>3
  <2> QED
    BY <1>2, <1>7, <2>1, <2>2, <2>3
<1>8. /\ OpenFirst(w, s) /\ (Has(w, "OPEN", s) \/ f.kind = "OPEN") => OpenFirst(v, s)
      /\ ResultFirst(w, s) /\ (Has(w, "OPEN_RESULT", s) \/ f.kind = "OPEN_RESULT")
            => ResultFirst(v, s)
  BY <1>7 DEF OpenFirst, ResultFirst, Has, n
<1>9. ASSUME ~Has(w, "CLOSE", s), ~Refuses(w, s) PROVE FinalLast(v, s)
  <2>1. \A i \in 1..n : w[i].id = s => ~IsFinal(w[i])
    BY <1>9 DEF Has, Refuses, IsFinal, n
  <2>2. ASSUME NEW i \in 1..Len(v), NEW j \in 1..Len(v), v[i].id = s, IsFinal(v[i])
        PROVE  j <= i
    <3>1. i = n + 1
      BY <1>2, <2>1, <2>2
    <3> QED
      BY <1>1, <3>1
  <2> QED
    BY <2>2 DEF FinalLast
<1>10. ~Refuses(w, s) /\ ~IsRefusal(f) => RefusalAlone(v, s)
  BY <1>2 DEF Refuses, RefusalAlone, n
<1>11. ASSUME ~Mentions(w, s)
       PROVE  RefusalAlone(v, s) /\ (IsRefusal(f) => OnlyRefusals(v, s))
  <2>1. \A i \in 1..Len(v) : v[i].id = s => i = n + 1 /\ v[i] = f
    BY <1>2, <1>11 DEF Mentions, n
  <2> QED
    BY <2>1 DEF RefusalAlone, OnlyRefusals
<1>12. ASSUME EofLast(w, s), f.kind = "DATA" => ~Has(w, "HALF_CLOSE", s) PROVE EofLast(v, s)
  <2> SUFFICES ASSUME NEW i \in 1..Len(v), NEW j \in 1..Len(v),
                      v[i].id = s, v[i].kind = "HALF_CLOSE", v[j].id = s, v[j].kind = "DATA"
               PROVE  j < i
    BY DEF EofLast
  <2>1. CASE i \in 1..n /\ j \in 1..n
    BY <1>3, <1>12, <2>1 DEF EofLast, n
  <2>2. CASE i = n + 1 /\ j \in 1..n
    BY <1>1, <2>2
  <2>3. CASE i \in 1..n /\ j = n + 1
    BY <1>1, <1>3, <1>12, <2>3 DEF Has, n
  <2>4. CASE i = n + 1 /\ j = n + 1
    BY <1>1, <2>4
  <2> QED
    BY <1>2, <2>1, <2>2, <2>3, <2>4
<1>13. ASSUME NEW k \in FrameKinds, NEW low \in Nat, NEW high \in Nat, Spans(w, k, s, low, high)
       PROVE  /\ f.kind # k => Spans(v, k, s, low, high)
              /\ f.kind = k /\ low <= high /\ f.from = high /\ high < f.upto
                    => Spans(v, k, s, low, f.upto)
  <2>1. CASE f.kind # k
    <3>1. \A i \in 1..Len(v) : v[i].kind = k => i \in 1..n /\ v[i] = w[i]
      BY <1>2, <2>1
    <3> QED
      BY <1>13, <2>1, <3>1 DEF Spans, n
  <2>2. ASSUME f.kind = k, low <= high, f.from = high, high < f.upto
        PROVE  Spans(v, k, s, low, f.upto)
    <3>0. f.from \in Nat /\ f.upto \in Nat
      BY DEF Frame
    <3>1. \A i \in 1..n : w[i].id = s /\ w[i].kind = k =>
            /\ w[i].from \in Nat /\ w[i].upto \in Nat
            /\ low <= w[i].from /\ w[i].from < w[i].upto /\ w[i].upto <= high
      BY <1>1, <1>13 DEF Spans, Frame, n
    <3>2. ASSUME NEW i \in 1..Len(v), v[i].id = s, v[i].kind = k
          PROVE  low <= v[i].from /\ v[i].from < v[i].upto /\ v[i].upto <= f.upto
      BY <1>2, <2>2, <3>0, <3>1, <3>2
    <3>3. ASSUME NEW i \in 1..Len(v), NEW j \in 1..Len(v), i < j,
                 v[i].id = s, v[i].kind = k, v[j].id = s, v[j].kind = k
          PROVE  v[i].upto <= v[j].from
      <4>1. i \in 1..n /\ v[i] = w[i]
        BY <1>1, <1>2, <3>3
      <4>2. CASE j \in 1..n
        BY <1>3, <1>13, <3>3, <4>1, <4>2 DEF Spans, n
      <4>3. CASE j = n + 1
        BY <1>1, <2>2, <3>1, <3>3, <4>1, <4>3
      <4> QED
        BY <1>2, <4>2, <4>3
    <3> QED
      BY <3>2, <3>3 DEF Spans
  <2> QED
    BY <2>1, <2>2
<1>14. ASSUME NEW low \in Nat, NEW high \in Nat, Covers(w, s, low, high)
       PROVE  /\ f.kind # "DATA" => Covers(v, s, low, high)
              /\ f.kind = "DATA" /\ f.from = high => Covers(v, s, low, f.upto)
  <2>1. Covers(v, s, low, high)
    BY <1>3, <1>14 DEF Covers, n
  <2>2. ASSUME f.kind = "DATA", f.from = high PROVE Covers(v, s, low, f.upto)
    <3> SUFFICES ASSUME NEW k \in (low + 1)..f.upto
                 PROVE  \E i \in 1..Len(v) :
                            v[i].id = s /\ v[i].kind = "DATA" /\ v[i].from < k /\ k <= v[i].upto
      BY DEF Covers
    <3>1. CASE k <= high
      BY <2>1, <3>1 DEF Covers
    <3>2. CASE high < k
      <4>1. f.upto \in Nat
        BY DEF Frame
      <4> QED
        BY <1>1, <1>4, <2>2, <3>2, <4>1
    <3>3. k \in Int /\ high \in Int
      BY DEF Frame
    <3> QED
      BY <3>1, <3>2, <3>3
  <2> QED
    BY <2>1, <2>2
<1> QED
  BY <1>5, <1>6, <1>8, <1>9, <1>10, <1>11, <1>12, <1>13, <1>14 DEF v, Extended

LEMMA TailSame ==
    ASSUME NEW w \in Seq(Frame), w # <<>>, NEW s \in Ids, Head(w).id = s
    PROVE  Taken(w, Tail(w), Head(w), s)
<1> DEFINE v == Tail(w)
           h == Head(w)
           n == Len(w)
<1>1. /\ n \in Nat \ {0} /\ Len(v) = n - 1 /\ h = w[1] /\ h \in Frame
      /\ \A i \in 1..n : w[i] \in Frame
      /\ \A i \in 1..(n - 1) : v[i] = w[i + 1]
  BY TailIs
<1>0. h.id = s
  OBVIOUS
<1> HIDE DEF v, h, n
<1>2. ASSUME NEW i \in 1..Len(v) PROVE i + 1 \in 1..n /\ i + 1 # 1 /\ v[i] = w[i + 1]
  BY <1>1
<1>3. ASSUME NEW i \in 1..n, i # 1 PROVE i - 1 \in 1..Len(v) /\ v[i - 1] = w[i]
  <2>1. i - 1 \in 1..(n - 1) /\ (i - 1) + 1 = i
    BY <1>1, <1>3
  <2> QED
    BY <1>1, <2>1
<1>4. 1 \in 1..n /\ w[1] = h
  BY <1>1
<1>5. ASSUME NEW i \in 1..Len(v), NEW j \in 1..Len(v)
      PROVE  (i + 1 < j + 1 <=> i < j) /\ (i + 1 <= j + 1 <=> i <= j) /\ (i + 1 = j + 1 <=> i = j)
  BY <1>1
<1>6. /\ Mentions(w, s) /\ Has(w, h.kind, s) /\ (IsRefusal(h) => Refuses(w, s))
      /\ Mentions(v, s) => Mentions(w, s)
      /\ Refuses(v, s) => Refuses(w, s)
      /\ \A k \in FrameKinds : Has(v, k, s) => Has(w, k, s)
  BY <1>0, <1>2, <1>4 DEF Mentions, Has, Refuses, n
<1>7. /\ \A k \in FrameKinds : Has(w, k, s) /\ h.kind # k => Has(v, k, s)
      /\ Refuses(w, s) /\ ~IsRefusal(h) => Refuses(v, s)
  BY <1>3, <1>4 DEF Has, Refuses, n
<1>8. /\ OpenFirst(w, s) => h.kind = "OPEN"
      /\ ResultFirst(w, s) => h.kind = "OPEN_RESULT"
  <2>1. \A j \in 1..1 : j = 1
    OBVIOUS
  <2> QED
    BY <1>0, <1>4, <2>1 DEF OpenFirst, ResultFirst, n
<1>9. OnlyRefusals(w, s) => IsRefusal(h) /\ OnlyRefusals(v, s)
  BY <1>0, <1>2, <1>4 DEF OnlyRefusals, n
<1>10. ASSUME FinalLast(w, s) PROVE FinalLast(v, s) /\ (IsFinal(h) => ~Mentions(v, s))
  <2>1. ASSUME NEW i \in 1..Len(v), NEW j \in 1..Len(v), v[i].id = s, v[j].id = s, IsFinal(v[i])
        PROVE  j <= i
    <3>1. i + 1 \in 1..n /\ j + 1 \in 1..n /\ w[i + 1] = v[i] /\ w[j + 1] = v[j]
      BY <1>2
    <3>2. j + 1 <= i + 1
      BY <1>10, <2>1, <3>1 DEF FinalLast, n
    <3> QED
      BY <1>5, <3>2
  <2>2. ASSUME IsFinal(h), NEW i \in 1..Len(v), v[i].id = s PROVE FALSE
    <3>1. i + 1 \in 1..n /\ w[i + 1].id = s
      BY <1>2, <2>2
    <3>2. i + 1 <= 1
      BY <1>0, <1>4, <1>10, <2>2, <3>1 DEF FinalLast, n
    <3> QED
      BY <1>1, <3>2
  <2> QED
    BY <2>1, <2>2 DEF FinalLast, Mentions
<1>11. ASSUME RefusalAlone(w, s)
       PROVE  RefusalAlone(v, s) /\ ~Refuses(v, s) /\ (IsRefusal(h) => ~Mentions(v, s))
  <2>1. ASSUME NEW i \in 1..Len(v), NEW j \in 1..Len(v), v[i].id = s, v[j].id = s, IsRefusal(v[i])
        PROVE  i = j
    <3>1. i + 1 \in 1..n /\ j + 1 \in 1..n /\ w[i + 1] = v[i] /\ w[j + 1] = v[j]
      BY <1>2
    <3>2. i + 1 = j + 1
      BY <1>11, <2>1, <3>1 DEF RefusalAlone, n
    <3> QED
      BY <1>5, <3>2
  <2>2. ASSUME IsRefusal(h), NEW i \in 1..Len(v), v[i].id = s PROVE FALSE
    BY <1>0, <1>2, <1>4, <1>11, <2>2 DEF RefusalAlone, n
  <2>3. ASSUME NEW i \in 1..Len(v), v[i].id = s, IsRefusal(v[i]) PROVE FALSE
    BY <1>0, <1>2, <1>4, <1>11, <2>3 DEF RefusalAlone, n
  <2>4. RefusalAlone(v, s)
    BY <2>1 DEF RefusalAlone
  <2>5. ~Refuses(v, s)
    BY <2>3 DEF Refuses
  <2>6. IsRefusal(h) => ~Mentions(v, s)
    BY <2>2 DEF Mentions
  <2> QED
    BY <2>4, <2>5, <2>6
<1>12. ASSUME EofLast(w, s)
       PROVE  EofLast(v, s) /\ (h.kind = "HALF_CLOSE" => ~Has(v, "DATA", s))
  <2>1. ASSUME NEW i \in 1..Len(v), NEW j \in 1..Len(v),
               v[i].id = s, v[i].kind = "HALF_CLOSE", v[j].id = s, v[j].kind = "DATA"
        PROVE  j < i
    <3>1. i + 1 \in 1..n /\ j + 1 \in 1..n /\ w[i + 1] = v[i] /\ w[j + 1] = v[j]
      BY <1>2
    <3>2. j + 1 < i + 1
      BY <1>12, <2>1, <3>1 DEF EofLast, n
    <3> QED
      BY <1>5, <3>2
  <2>2. ASSUME h.kind = "HALF_CLOSE", NEW i \in 1..Len(v), v[i].id = s, v[i].kind = "DATA"
        PROVE  FALSE
    <3>1. i + 1 < 1
      BY <1>0, <1>2, <1>4, <1>12, <2>2 DEF EofLast, n
    <3> QED
      BY <1>1, <3>1
  <2> QED
    BY <2>1, <2>2 DEF EofLast, Has
<1>13. ASSUME NEW k \in FrameKinds, NEW low \in Nat, NEW high \in Nat, Spans(w, k, s, low, high)
       PROVE  /\ h.kind # k => Spans(v, k, s, low, high)
              /\ h.kind = k =>
                    /\ low <= h.from /\ h.from < h.upto /\ h.upto <= high
                    /\ Spans(v, k, s, h.upto, high)
  <2>1. ASSUME NEW i \in 1..Len(v), NEW j \in 1..Len(v), i < j,
               v[i].id = s, v[i].kind = k, v[j].id = s, v[j].kind = k
        PROVE  v[i].upto <= v[j].from
    <3> DEFINE a == i + 1
               b == j + 1
    <3>1. a \in 1..n /\ b \in 1..n /\ a < b /\ w[a] = v[i] /\ w[b] = v[j]
      BY <1>2, <1>5, <2>1
    <3> HIDE DEF a, b
    <3> QED
      BY <1>13, <2>1, <3>1 DEF Spans, n
  <2>2. ASSUME NEW i \in 1..Len(v), v[i].id = s, v[i].kind = k
        PROVE  /\ low <= v[i].from /\ v[i].from < v[i].upto /\ v[i].upto <= high
               /\ h.kind = k => h.upto <= v[i].from
    <3> DEFINE a == i + 1
    <3>1. a \in 1..n /\ 1 < a /\ w[a] = v[i]
      BY <1>1, <1>2
    <3> HIDE DEF a
    <3> QED
      BY <1>0, <1>4, <1>13, <2>2, <3>1 DEF Spans, n
  <2>3. h.kind = k => low <= h.from /\ h.from < h.upto /\ h.upto <= high
    BY <1>0, <1>4, <1>13 DEF Spans, n
  <2> QED
    BY <2>1, <2>2, <2>3 DEF Spans
<1>14. ASSUME NEW low \in Nat, NEW high \in Nat,
              Covers(w, s, low, high), Spans(w, "DATA", s, low, high)
       PROVE  /\ h.kind # "DATA" => Covers(v, s, low, high)
              /\ h.kind = "DATA" => h.from = low /\ Covers(v, s, h.upto, high)
  <2>1. ASSUME NEW k \in (low + 1)..high, ~(h.kind = "DATA" /\ k <= h.upto)
        PROVE  \E i \in 1..Len(v) :
                    v[i].id = s /\ v[i].kind = "DATA" /\ v[i].from < k /\ k <= v[i].upto
    <3>1. PICK i \in 1..n : w[i].id = s /\ w[i].kind = "DATA" /\ w[i].from < k /\ k <= w[i].upto
      BY <1>14 DEF Covers, n
    <3>2. i # 1
      BY <1>4, <2>1, <3>1
    <3> QED
      BY <1>3, <3>1, <3>2
  <2>2. h.kind # "DATA" => Covers(v, s, low, high)
    BY <2>1 DEF Covers
  <2>3. ASSUME h.kind = "DATA" PROVE h.from = low /\ Covers(v, s, h.upto, high)
    <3>0. h.from \in Nat /\ h.upto \in Nat
      BY <1>1 DEF Frame
    <3>1. low <= h.from /\ h.from < h.upto /\ h.upto <= high
      BY <1>0, <1>4, <1>14, <2>3 DEF Spans, n
    <3>2. h.from = low
      <4>1. SUFFICES ASSUME low < h.from PROVE FALSE
        BY <3>0, <3>1
      <4>2. low + 1 \in (low + 1)..high
        BY <3>0, <3>1
      <4>3. PICK i \in 1..n : w[i].id = s /\ w[i].kind = "DATA" /\ w[i].from < low + 1
        BY <1>14, <4>2 DEF Covers, n
      <4>4. i # 1
        BY <1>4, <3>0, <4>1, <4>3
      <4>5. h.upto <= w[i].from
        BY <1>0, <1>1, <1>4, <1>14, <2>3, <4>3, <4>4 DEF Spans, n
      <4> QED
        BY <1>1, <3>0, <3>1, <4>1, <4>3, <4>5 DEF Frame
    <3>3. \A k \in (h.upto + 1)..high : k \in (low + 1)..high /\ ~(k <= h.upto)
      BY <3>0, <3>1
    <3>4. Covers(v, s, h.upto, high)
      BY <2>1, <3>3 DEF Covers
    <3> QED
      BY <3>2, <3>4
  <2> QED
    BY <2>2, <2>3
<1> QED
  BY <1>6, <1>7, <1>8, <1>9, <1>10, <1>11, <1>12, <1>13, <1>14 DEF v, h, Taken

\* Data all of which has been taken.
LEMMA NothingLeft ==
    ASSUME NEW w \in Seq(Frame), NEW s \in Ids, NEW low \in Nat, NEW high \in Nat,
           low <= high, Covers(w, s, low, high), ~Has(w, "DATA", s)
    PROVE  low = high
<1>1. \A k \in (low + 1)..high : FALSE
  BY DEF Covers, Has
<1> QED
  BY <1>1

\* What a wire that says nothing of s says.
LEMMA Silent ==
    ASSUME NEW w, NEW s \in Ids, ~Mentions(w, s)
    PROVE  /\ ~Refuses(w, s) /\ \A k \in FrameKinds : ~Has(w, k, s)
           /\ OpenFirst(w, s) /\ ResultFirst(w, s) /\ FinalLast(w, s) /\ RefusalAlone(w, s)
           /\ OnlyRefusals(w, s) /\ EofLast(w, s)
           /\ \A k \in FrameKinds, low, high \in Nat : Spans(w, k, s, low, high)
BY DEF Mentions, Refuses, Has, OpenFirst, ResultFirst, FinalLast, RefusalAlone, OnlyRefusals,
       EofLast, Spans

\* The order of the OPENs.
LEMMA OpensKept ==
    ASSUME NEW w \in Seq(Frame), OpensRise(w)
    PROVE  /\ w # <<>> => OpensRise(Tail(w))
           /\ \A f \in Frame : f.kind # "OPEN" => OpensRise(Append(w, f))
           /\ \A f \in Frame :
                (\A i \in 1..Len(w) : w[i].kind = "OPEN" => w[i].id < f.id) => OpensRise(Append(w, f))
<1>1. ASSUME w # <<>> PROVE OpensRise(Tail(w))
  <2> DEFINE v == Tail(w)
  <2>1. /\ Len(w) \in Nat \ {0} /\ Len(v) = Len(w) - 1
        /\ \A i \in 1..(Len(w) - 1) : v[i] = w[i + 1]
    BY <1>1, TailIs
  <2> HIDE DEF v
  <2>2. SUFFICES ASSUME NEW i \in 1..Len(v), NEW j \in 1..Len(v), i < j,
                        v[i].kind = "OPEN", v[j].kind = "OPEN"
                 PROVE  v[i].id < v[j].id
    BY DEF OpensRise, v
  <2> DEFINE a == i + 1
             b == j + 1
  <2>3. a \in 1..Len(w) /\ b \in 1..Len(w) /\ a < b /\ v[i] = w[a] /\ v[j] = w[b]
    BY <2>1, <2>2
  <2> HIDE DEF a, b
  <2> QED
    BY <2>2, <2>3 DEF OpensRise
<1>2. ASSUME NEW f \in Frame,
             \/ f.kind # "OPEN"
             \/ \A i \in 1..Len(w) : w[i].kind = "OPEN" => w[i].id < f.id
      PROVE  OpensRise(Append(w, f))
  <2> DEFINE v == Append(w, f)
  <2>1. /\ Len(w) \in Nat /\ Len(v) = Len(w) + 1
        /\ \A i \in 1..Len(w) : v[i] = w[i]
        /\ v[Len(w) + 1] = f
    BY AppendIs
  <2> HIDE DEF v
  <2>2. SUFFICES ASSUME NEW i \in 1..Len(v), NEW j \in 1..Len(v), i < j,
                        v[i].kind = "OPEN", v[j].kind = "OPEN"
                 PROVE  v[i].id < v[j].id
    BY DEF OpensRise, v
  <2>3. i \in 1..Len(w) /\ v[i] = w[i]
    BY <2>1, <2>2
  <2>4. CASE j \in 1..Len(w)
    BY <2>1, <2>2, <2>3, <2>4 DEF OpensRise
  <2>5. CASE j = Len(w) + 1
    BY <1>2, <2>1, <2>2, <2>3, <2>5
  <2> QED
    BY <2>1, <2>4, <2>5
<1> QED
  BY <1>1, <1>2

LEMMA SpansWider ==
    ASSUME NEW w \in Seq(Frame), NEW s \in Ids, NEW k, NEW low \in Nat, NEW high \in Nat,
           NEW a \in Nat, NEW b \in Nat, a <= low, high <= b, Spans(w, k, s, low, high)
    PROVE  Spans(w, k, s, a, b)
<1>1. ASSUME NEW i \in 1..Len(w), w[i].id = s, w[i].kind = k
      PROVE  a <= w[i].from /\ w[i].from < w[i].upto /\ w[i].upto <= b
  <2>1. w[i].from \in Nat /\ w[i].upto \in Nat
    BY DEF Frame
  <2>2. low <= w[i].from /\ w[i].from < w[i].upto /\ w[i].upto <= high
    BY <1>1 DEF Spans
  <2> QED
    BY <2>1, <2>2
<1>2. ASSUME NEW i \in 1..Len(w), NEW j \in 1..Len(w), i < j,
             w[i].id = s, w[i].kind = k, w[j].id = s, w[j].kind = k
      PROVE  w[i].upto <= w[j].from
  BY <1>2 DEF Spans
<1> QED
  BY <1>1, <1>2 DEF Spans

\* Of the two peers exactly one allocates an ID, and it knows it by nextId.
LEMMA Sides ==
    ASSUME NEW p \in Peers, NEW s \in Ids
    PROVE  /\ Other(p) \in Peers /\ Other(p) # p /\ Other(Other(p)) = p
           /\ \A x \in Peers : x = p \/ x = Other(p)
           /\ OwnId(p, s) => ~OwnId(Other(p), s)
           /\ ~OwnId(p, s) => OwnId(Other(p), s)
BY DEF Peers, Other, OwnId

-----------------------------------------------------------------------------
(* A step leaves the streams it does not touch as they are.                *)

\* What StreamOK says of s at p and at the other end is as it was.
Untouched(s) == \A p \in Peers :
    /\ st'[p][s] = st[p][s]
    /\ s \in table'[p] <=> s \in table[p]
    /\ Stale(p, s)' <=> Stale(p, s)
    /\ Alike(wire[p], wire'[p], s)
    /\ Up(p)' => Up(p)

LEMMA UntouchedOK ==
    ASSUME TypeOK, TypeOK', NEW p \in Peers, NEW s \in Ids, Untouched(s), StreamOK(p, s)
    PROVE  StreamOK(p, s)'
<1> DEFINE q == Other(p)
<1>0. q \in Peers /\ q # p
  BY Sides
<1>1. /\ st'[p][s] = st[p][s] /\ st'[q][s] = st[q][s]
      /\ Alike(wire[p], wire'[p], s) /\ Alike(wire[q], wire'[q], s)
      /\ Up(q)' => Up(q)
  BY <1>0 DEF Untouched
<1>2. /\ s \in table'[p] <=> s \in table[p]
      /\ s \in table'[q] <=> s \in table[q]
      /\ Stale(p, s)' <=> Stale(p, s)
      /\ Stale(q, s)' <=> Stale(q, s)
  BY <1>0 DEF Untouched
<1>3. /\ st[p][s] \in Stream /\ st[q][s] \in Stream
      /\ {"OPEN", "OPEN_RESULT", "DATA", "HALF_CLOSE", "WINDOW_UPDATE", "CLOSE"} \subseteq FrameKinds
  BY <1>0 DEF TypeOK, FrameKinds
<1>4. LocalOK(st'[p][s], s \in table'[p])
  BY <1>1, <1>2 DEF StreamOK, LocalOK
<1>5. IdOK(p, s)'
  BY <1>1, <1>2, <1>3 DEF StreamOK, IdOK, Alike, OwnId
<1>6. /\ Over(p, s)' <=> Over(p, s)
      /\ Waits(p, s)' <=> Waits(p, s)
      /\ Told(q, s)' <=> Told(q, s)
  BY <1>1, <1>2 DEF Over, Told, Waits
<1>7. EndOK(p, s)'
  BY <1>1, <1>3, <1>6 DEF StreamOK, EndOK, Alike
<1>8. AnswerOK(p, s) => AnswerOK(p, s)'
  BY <1>1, <1>2, <1>3, <1>6 DEF AnswerOK, Alike
<1>9. PhaseOK(p, s)'
  BY <1>1, <1>8 DEF StreamOK, PhaseOK, OwnId
<1>10. st[q][s].recvd \in Nat /\ st[p][s].sent \in Nat /\ st[p][s].credited \in Nat /\ st[q][s].rd \in Nat
  BY <1>3 DEF Stream
<1>11. DataOK(p, s)'
  BY <1>1, <1>2, <1>3, <1>10 DEF StreamOK, DataOK, Alike
<1>12. EofOK(p, s)'
  BY <1>1 DEF StreamOK, EofOK
<1>13. CreditOK(p, s)'
  BY <1>1, <1>3, <1>10 DEF StreamOK, CreditOK, Alike
<1> QED
  BY <1>4, <1>5, <1>7, <1>9, <1>11, <1>12, <1>13 DEF StreamOK

-----------------------------------------------------------------------------
(* Steps of a stream's own side.                                           *)

\* Only stream s of p is replaced, and no stream enters a table.
Only(p, s) ==
    /\ \A x \in Peers, y \in Ids : x # p \/ y # s =>
        st'[x][y] = st[x][y] /\ (y \in table'[x] <=> y \in table[x])
    /\ s \in table'[p] => s \in table[p]
    /\ LocalOK(st'[p][s], s \in table'[p])
    /\ UNCHANGED <<nextId, highest>>

\* What stream r becomes.
Moves(r, t) ==
    /\ r.phase # "unused"
    /\ t.phase \in {"open", "gone"}
    /\ t.phase = "open" =>
        /\ r.phase \in {"granted", "accepting", "open"}
        /\ t.reof = r.reof /\ t.reset = r.reset
        /\ t.rd + t.buf = r.rd + r.buf
    /\ t.recvd = r.recvd /\ t.credited = r.credited /\ r.rd <= t.rd
    /\ r.leof => t.leof /\ t.sent = r.sent
    /\ r.closed => t.closed
    /\ t.sawEof =>
        \/ r.sawEof /\ (t.rd = r.rd \/ r.buf > 0)
        \/ r.reof /\ ~r.reset /\ r.phase = "open" /\ r.buf = 0 /\ t.rd = r.rd

\* What it says when it does.
Says(r, t, f) ==
    /\ r.phase # "gone"
    /\ f.kind = "OPEN_RESULT" <=> r.phase = "accepting"
    /\ f.kind \in {"OPEN_RESULT", "CLOSE", "DATA", "HALF_CLOSE", "WINDOW_UPDATE"}
    /\ IsFinal(f) <=> t.phase = "gone"
    /\ f.kind = "HALF_CLOSE" => r.phase = "open" /\ t.leof
    /\ IF f.kind = "DATA" THEN ~r.leof /\ f.from = r.sent /\ f.upto = t.sent /\ r.sent < t.sent
       ELSE t.sent = r.sent
    /\ f.kind = "WINDOW_UPDATE" => f.from = r.rd /\ f.upto = t.rd /\ r.rd < t.rd

AppStep(p, s) ==
    LET r == st[p][s]
        t == st'[p][s] IN
    /\ Only(p, s)
    /\ err' = err
    /\ Moves(r, t)
    /\ Told(p, s)' => Told(p, s)
    /\ \/ /\ wire' = wire /\ r.phase # "accepting" /\ t.sent = r.sent
          /\ t.phase = "gone" => r.phase = "gone" \/ Told(p, s)
       \/ \E f \in Frame :
            /\ f.id = s
            /\ wire' = [wire EXCEPT ![p] = Append(@, f)]
            /\ Says(r, t, f)
            /\ IsRefusal(f) => s \notin table'[p]

\* A frame sent by p on s.
Adds(p, s, f) ==
    /\ f \in Frame /\ f.id = s
    /\ wire'[Other(p)] = wire[Other(p)]
    /\ wire'[p] = Append(wire[p], f) /\ Extended(wire[p], wire'[p], f, s)
    /\ Says(st[p][s], st'[p][s], f)
    /\ IsRefusal(f) => s \notin table'[p]

LEMMA AppParts ==
    ASSUME Inv, NEW p \in Peers, NEW s \in Ids, AppStep(p, s)
    PROVE  /\ Only(p, s) /\ Moves(st[p][s], st'[p][s])
           /\ st'[Other(p)][s] = st[Other(p)][s]
           /\ s \in table'[Other(p)] <=> s \in table[Other(p)]
           /\ \A x \in Peers, y \in Ids : Stale(x, y)' <=> Stale(x, y)
           /\ \A x \in Peers : Up(x)' <=> Up(x)
           /\ \/ wire' = wire /\ st[p][s].phase # "accepting" /\ st'[p][s].sent = st[p][s].sent
              \/ \E f \in Frame : Adds(p, s, f)
<1>1. st'[Other(p)][s] = st[Other(p)][s] /\ (s \in table'[Other(p)] <=> s \in table[Other(p)])
  BY Sides DEF AppStep, Only
<1>2. /\ \A x \in Peers, y \in Ids : Stale(x, y)' <=> Stale(x, y)
      /\ \A x \in Peers : Up(x)' <=> Up(x)
  BY DEF AppStep, Only, Stale, OwnId, Up
<1>3. ASSUME NEW f \in Frame, f.id = s, wire' = [wire EXCEPT ![p] = Append(@, f)],
             Says(st[p][s], st'[p][s], f), IsRefusal(f) => s \notin table'[p]
      PROVE  Adds(p, s, f)
  <2>1. wire[p] \in Seq(Frame) /\ wire'[p] = Append(wire[p], f) /\ wire'[Other(p)] = wire[Other(p)]
    BY <1>3, Sides DEF Inv, TypeOK
  <2>2. Extended(wire[p], wire'[p], f, s)
    <3>1. Extended(wire[p], Append(wire[p], f), f, s)
      BY <1>3, <2>1, AppendSame
    <3> QED
      BY <2>1, <3>1, Zenon
  <2> QED
    BY <1>3, <2>1, <2>2 DEF Adds
<1> QED
  BY <1>1, <1>2, <1>3 DEF AppStep

\* The facts about p, s and the other end that the following lemmas use.
LEMMA Now ==
    ASSUME Inv, NEW p \in Peers, NEW s \in Ids
    PROVE  /\ Other(p) \in Peers /\ Other(Other(p)) = p
           /\ StreamOK(p, s) /\ StreamOK(Other(p), s)
           /\ st[p][s] \in Stream /\ st[Other(p)][s] \in Stream
           /\ wire[p] \in Seq(Frame) /\ wire[Other(p)] \in Seq(Frame)
BY Sides DEF Inv, TypeOK

LEMMA AppId ==
    ASSUME Inv, NEW p \in Peers, NEW s \in Ids, AppStep(p, s)
    PROVE  IdOK(p, s)' /\ IdOK(Other(p), s)'
<1> DEFINE q == Other(p)
<1>1. /\ q \in Peers /\ Other(q) = p /\ wire[p] \in Seq(Frame)
      /\ IdOK(p, s) /\ IdOK(q, s) /\ PhaseOK(p, s)
  BY Now DEF StreamOK
<1>2. /\ st'[q][s] = st[q][s]
      /\ st[p][s].phase # "unused" /\ st'[p][s].phase # "unused"
      /\ Stale(p, s)' <=> Stale(p, s)
      /\ Stale(q, s)' <=> Stale(q, s)
      /\ wire'[q] = wire[q]
  BY <1>1, AppParts DEF Moves, Adds
<1>3. IdOK(q, s)'
  BY <1>1, <1>2 DEF IdOK, OwnId
<1>4. CASE wire' = wire
  BY <1>1, <1>2, <1>4 DEF IdOK, OwnId
<1>5. ASSUME NEW f \in Frame, Adds(p, s, f) PROVE IdOK(p, s)'
  <2>1. /\ Extended(wire[p], wire'[p], f, s)
        /\ f.kind # "OPEN"
        /\ f.kind = "OPEN_RESULT" => st[p][s].phase = "accepting"
    BY <1>5 DEF Adds, Says
  <2>2. /\ Has(wire'[p], "OPEN", s) <=> Has(wire[p], "OPEN", s)
        /\ Has(wire'[p], "OPEN_RESULT", s) <=> Has(wire[p], "OPEN_RESULT", s) \/ f.kind = "OPEN_RESULT"
        /\ OpenFirst(wire[p], s) /\ Has(wire[p], "OPEN", s) => OpenFirst(wire'[p], s)
    BY <1>1, <2>1 DEF FrameKinds, Extended
  <2>3. f.kind = "OPEN_RESULT" => ~OwnId(p, s)
    BY <1>1, <2>1 DEF PhaseOK
  <2> QED
    BY <1>1, <1>2, <2>2, <2>3 DEF IdOK, OwnId
<1> QED
  BY <1>3, <1>4, <1>5, AppParts

LEMMA AppEnd ==
    ASSUME Inv, NEW p \in Peers, NEW s \in Ids, AppStep(p, s)
    PROVE  EndOK(p, s)' /\ EndOK(Other(p), s)'
<1> DEFINE q == Other(p)
<1>1. /\ q \in Peers /\ Other(q) = p /\ wire[p] \in Seq(Frame)
      /\ EndOK(p, s) /\ EndOK(q, s) /\ LocalOK(st[p][s], s \in table[p])
  BY Now DEF StreamOK
<1>2. /\ st'[q][s] = st[q][s]
      /\ s \in table'[q] <=> s \in table[q]
      /\ st[p][s].phase # "unused" /\ st'[p][s].phase \in {"open", "gone"}
      /\ st'[p][s].phase = "open" => st[p][s].phase # "gone"
      /\ Stale(p, s)' <=> Stale(p, s)
      /\ Stale(q, s)' <=> Stale(q, s)
      /\ wire'[q] = wire[q]
      /\ Told(p, s)' => Told(p, s)
  <2>1. wire'[q] = wire[q]
    BY AppParts DEF Adds
  <2>2. Told(p, s)' => Told(p, s)
    BY DEF AppStep
  <2>3. /\ st[p][s].phase # "unused" /\ st'[p][s].phase \in {"open", "gone"}
        /\ st'[p][s].phase = "open" => st[p][s].phase # "gone"
    <3>1. Moves(st[p][s], st'[p][s])
      BY AppParts
    <3> QED
      BY <3>1 DEF Moves
  <2>4. /\ st'[q][s] = st[q][s]
        /\ s \in table'[q] <=> s \in table[q]
        /\ Stale(p, s)' <=> Stale(p, s)
        /\ Stale(q, s)' <=> Stale(q, s)
    BY <1>1, AppParts
  <2> QED
    BY <2>1, <2>2, <2>3, <2>4
<1>3. /\ Over(q, s)' <=> Over(q, s)
      /\ Told(q, s)' <=> Told(q, s)
      /\ Over(p, s) => Over(p, s)'
  BY <1>2 DEF Over, Told
<1>4. EndOK(q, s)'
  BY <1>1, <1>2, <1>3 DEF EndOK
<1>5. CASE wire' = wire
  BY <1>1, <1>3, <1>4, <1>5 DEF EndOK
<1>6. ASSUME NEW f \in Frame, Adds(p, s, f) PROVE EndOK(p, s)'
  <2>1. /\ Extended(wire[p], wire'[p], f, s)
        /\ st[p][s].phase # "gone"
        /\ IsFinal(f) => st'[p][s].phase = "gone"
    BY <1>6 DEF Adds, Says
  <2>2. ~Over(p, s)
    BY <1>2, <2>1 DEF Over
  <2>3. ~Has(wire[p], "CLOSE", s) /\ ~Refuses(wire[p], s) /\ ~Told(q, s)
    BY <1>1, <2>2 DEF EndOK
  <2>4. /\ FinalLast(wire'[p], s)
        /\ Has(wire'[p], "CLOSE", s) \/ Refuses(wire'[p], s) => IsFinal(f)
    BY <1>1, <2>1, <2>3 DEF FrameKinds, Extended, IsFinal
  <2>5. IsFinal(f) => Over(p, s)'
    BY <2>1 DEF Over
  <2> QED
    BY <1>3, <2>3, <2>4, <2>5 DEF EndOK
<1> QED
  BY <1>4, <1>5, <1>6, AppParts

LEMMA AppPhase ==
    ASSUME Inv, NEW p \in Peers, NEW s \in Ids, AppStep(p, s)
    PROVE  PhaseOK(p, s)' /\ PhaseOK(Other(p), s)'
<1> DEFINE q == Other(p)
           r == st[p][s]
           t == st'[p][s]
<1>1. /\ q \in Peers /\ Other(q) = p /\ wire[p] \in Seq(Frame)
      /\ PhaseOK(p, s) /\ PhaseOK(q, s) /\ IdOK(p, s) /\ IdOK(q, s)
      /\ LocalOK(r, s \in table[p]) /\ EndOK(p, s) /\ EndOK(q, s)
      /\ r \in Stream /\ st[q][s] \in Stream
  BY Now DEF StreamOK
<1>2. /\ st'[q][s] = st[q][s]
      /\ s \in table'[q] <=> s \in table[q]
      /\ s \in table'[p] => s \in table[p]
      /\ Stale(p, s)' <=> Stale(p, s)
      /\ Stale(q, s)' <=> Stale(q, s)
      /\ wire'[q] = wire[q]
      /\ r.phase # "unused" /\ t.phase \in {"open", "gone"}
      /\ t.phase = "open" => r.phase \in {"granted", "accepting", "open"}
      /\ wire'[p] = wire[p] => r.phase # "accepting"
  <2>1. \A f \in Frame : Append(wire[p], f) # wire[p]
    <3>1. \A f \in Frame : Len(Append(wire[p], f)) # Len(wire[p])
      BY <1>1
    <3> QED
      BY <3>1
  <2> QED
    BY <1>1, <2>1, AppParts DEF Moves, Adds, Only
<1>3. Waits(q, s)' <=> Waits(q, s)
  BY <1>2 DEF Waits
<1>4. CASE OwnId(p, s)
  <2>1. ~OwnId(q, s) /\ AnswerOK(q, s) /\ r.phase # "accepting"
    BY <1>1, <1>4, Sides DEF PhaseOK
  <2>2. Has(wire'[p], "HALF_CLOSE", s) => Has(wire[p], "HALF_CLOSE", s) \/ r.phase = "open"
    <3>1. ASSUME NEW f \in Frame, Adds(p, s, f)
          PROVE  Has(wire'[p], "HALF_CLOSE", s) => Has(wire[p], "HALF_CLOSE", s) \/ r.phase = "open"
      <4>1. /\ Extended(wire[p], wire'[p], f, s)
            /\ f.kind = "HALF_CLOSE" => r.phase = "open"
        BY <3>1 DEF Adds, Says
      <4> QED
        BY <1>1, <4>1 DEF FrameKinds, Extended
    <3> QED
      BY <3>1, AppParts
  <2>3. st'[Other(q)][s] = t /\ wire'[Other(q)] = wire'[p]
    BY <1>1
  <2>4. AnswerOK(q, s)'
    <3> DEFINE b == st[q][s].phase
    <3>1. b \in {"unused", "accepting"} =>
            /\ t.phase \notin {"granted", "open"}
            /\ ~Has(wire'[p], "HALF_CLOSE", s)
            /\ ~st[q][s].reof
      BY <1>1, <1>2, <2>1, <2>2 DEF AnswerOK
    <3>2. Refuses(wire[q], s) => t.phase = "gone" /\ s \notin table[q]
      BY <1>1, <1>2, <2>1 DEF AnswerOK
    <3>3. t.phase # "opening" /\ t.phase # "refused"
      BY <1>2
    <3>4. (b = "unused" => OnlyRefusals(wire[q], s)) /\ RefusalAlone(wire[q], s)
          /\ (Waits(q, s) => ~Mentions(wire[q], s))
      BY <2>1 DEF AnswerOK
    <3> QED
      BY <1>2, <1>3, <2>3, <3>1, <3>2, <3>3, <3>4 DEF AnswerOK
  <2> QED
    BY <1>1, <1>2, <1>4, <2>1, <2>4 DEF PhaseOK, OwnId
<1>5. CASE ~OwnId(p, s)
  <2> DEFINE a == st[q][s]
  <2>1. OwnId(q, s) /\ AnswerOK(p, s) /\ a.phase # "accepting"
    BY <1>1, <1>5, Sides DEF PhaseOK
  <2>2. t.phase \notin {"unused", "accepting"} /\ ~Waits(p, s)'
    BY <1>2 DEF Waits
  <2>3. r.phase = "accepting" => Waits(p, s) /\ ~Over(p, s)
    BY DEF Waits, Over
  <2>4. CASE wire' = wire
    <3>1. r.phase \notin {"unused", "accepting"}
      BY <1>2, <2>4
    <3>2. AnswerOK(p, s)'
      BY <1>1, <1>2, <2>1, <2>2, <2>4, <3>1 DEF AnswerOK
    <3> QED
      BY <1>2, <1>5, <2>1, <3>2 DEF PhaseOK, OwnId
  <2>5. ASSUME NEW f \in Frame, Adds(p, s, f) PROVE PhaseOK(p, s)' /\ PhaseOK(q, s)'
    <3>1. /\ Extended(wire[p], wire'[p], f, s)
          /\ r.phase # "gone"
          /\ f.kind = "OPEN_RESULT" <=> r.phase = "accepting"
          /\ IsRefusal(f) => s \notin table'[p]
      BY <2>5 DEF Adds, Says
    <3>2. ~Refuses(wire[p], s)
      BY <1>1, <1>2, <3>1 DEF EndOK, Over
    <3>3. RefusalAlone(wire'[p], s)
      <4>1. CASE r.phase = "accepting"
        <5>1. ~Mentions(wire[p], s)
          BY <2>1, <2>3, <4>1 DEF AnswerOK
        <5> QED
          BY <1>1, <3>1, <5>1 DEF Extended
      <4>2. CASE r.phase # "accepting"
        <5>1. ~IsRefusal(f)
          BY <3>1, <4>2 DEF IsRefusal
        <5> QED
          BY <1>1, <3>1, <3>2, <5>1 DEF Extended
      <4> QED
        BY <4>1, <4>2
    <3>4. Refuses(wire'[p], s) => a.phase \in {"opening", "gone"} /\ s \notin table'[p]
      <4>1. SUFFICES ASSUME Refuses(wire'[p], s)
                     PROVE  a.phase \in {"opening", "gone"} /\ s \notin table'[p]
        OBVIOUS
      <4>2. IsRefusal(f)
        BY <1>1, <3>1, <3>2, <4>1 DEF Extended
      <4>3. r.phase = "accepting" /\ s \notin table'[p]
        BY <3>1, <4>2 DEF IsRefusal
      <4>4. a.phase \notin {"granted", "open"}
        BY <2>1, <4>3 DEF AnswerOK
      <4>5. a.phase # "refused"
        BY <1>1, <2>3, <4>3 DEF EndOK, Told
      <4>6. a.phase # "unused"
        BY <1>1, <1>2, <2>1 DEF IdOK
      <4> QED
        BY <1>1, <2>1, <4>3, <4>4, <4>5, <4>6 DEF Stream, Phases
    <3>5. a.phase = "opening" => ResultFirst(wire'[p], s) /\ Has(wire'[p], "OPEN_RESULT", s)
      <4>1. SUFFICES ASSUME a.phase = "opening"
                     PROVE  ResultFirst(wire'[p], s) /\ Has(wire'[p], "OPEN_RESULT", s)
        OBVIOUS
      <4>2. /\ ResultFirst(wire[p], s)
            /\ Has(wire[p], "OPEN_RESULT", s) \/ f.kind = "OPEN_RESULT"
        BY <1>2, <2>1, <3>1, <4>1 DEF AnswerOK
      <4> QED
        BY <1>1, <3>1, <4>2 DEF FrameKinds, Extended
    <3>6. a.phase = "opening" => ~a.closed
      BY <2>1 DEF AnswerOK
    <3>7. a.phase = "refused" => ~a.closed /\ s \notin table'[p]
      BY <1>2, <2>1 DEF AnswerOK
    <3>8. AnswerOK(p, s)'
      BY <1>1, <1>2, <2>2, <3>3, <3>4, <3>5, <3>6, <3>7 DEF AnswerOK
    <3> QED
      BY <1>1, <1>2, <1>5, <2>1, <3>8 DEF PhaseOK, OwnId
  <2> QED
    BY <2>4, <2>5, <1>1, <1>2, AppParts
<1> QED
  BY <1>4, <1>5

LEMMA AppData ==
    ASSUME Inv, NEW p \in Peers, NEW s \in Ids, AppStep(p, s)
    PROVE  DataOK(p, s)' /\ DataOK(Other(p), s)'
<1> DEFINE q == Other(p)
           r == st[p][s]
           t == st'[p][s]
           o == st[q][s]
<1>1. /\ q \in Peers /\ Other(q) = p
      /\ DataOK(p, s) /\ DataOK(q, s)
      /\ r \in Stream /\ o \in Stream
  BY Now DEF StreamOK
<1>n. r.sent \in Nat /\ o.recvd \in Nat /\ r.recvd \in Nat /\ o.sent \in Nat
  BY <1>1 DEF Stream
<1>2. /\ st'[q][s] = o
      /\ s \in table'[q] <=> s \in table[q]
      /\ s \in table'[p] => s \in table[p]
      /\ Stale(p, s)' <=> Stale(p, s)
      /\ Stale(q, s)' <=> Stale(q, s)
      /\ Up(p)' <=> Up(p)
      /\ Up(q)' <=> Up(q)
      /\ wire'[q] = wire[q]
      /\ t.recvd = r.recvd
      /\ r.leof => t.leof
  BY <1>1, AppParts DEF Moves, Adds, Only
<1>3. DataOK(q, s)'
  <2>1. st'[Other(q)][s] = t /\ Up(Other(q))' = Up(p)'
    BY <1>1
  <2> QED
    BY <1>1, <1>2, <2>1 DEF DataOK
<1>4. CASE wire' = wire /\ t.sent = r.sent
  BY <1>1, <1>2, <1>4 DEF DataOK
<1>5. ASSUME NEW f \in Frame, Adds(p, s, f) PROVE DataOK(p, s)'
  <2>1. /\ Extended(wire[p], wire'[p], f, s)
        /\ IF f.kind = "DATA" THEN ~r.leof /\ f.from = r.sent /\ f.upto = t.sent /\ r.sent < t.sent
           ELSE t.sent = r.sent
        /\ f.kind = "HALF_CLOSE" => t.leof
    BY <1>5 DEF Adds, Says
  <2>2. /\ o.recvd <= r.sent
        /\ Spans(wire[p], "DATA", s, o.recvd, r.sent)
        /\ EofLast(wire[p], s)
        /\ Has(wire[p], "HALF_CLOSE", s) => r.leof
        /\ Up(q) /\ (s \in table[q] \/ ~Stale(q, s)) => Covers(wire[p], s, o.recvd, r.sent)
    BY <1>1 DEF DataOK
  <2>3. /\ Has(wire'[p], "HALF_CLOSE", s) => t.leof
        /\ EofLast(wire'[p], s)
    BY <1>2, <2>1, <2>2 DEF Extended, FrameKinds
  <2>4. CASE f.kind = "DATA"
    <3>1. f.upto = t.sent /\ f.upto \in Nat /\ o.recvd <= t.sent
      BY <1>n, <2>1, <2>2, <2>4 DEF Frame
    <3>2. Spans(wire'[p], "DATA", s, o.recvd, t.sent)
      BY <1>n, <2>1, <2>2, <2>4 DEF Extended, FrameKinds
    <3>3. Covers(wire[p], s, o.recvd, r.sent) => Covers(wire'[p], s, o.recvd, t.sent)
      BY <1>n, <2>1, <2>4 DEF Extended
    <3> QED
      BY <1>2, <2>2, <2>3, <3>1, <3>2, <3>3 DEF DataOK
  <2>5. CASE f.kind # "DATA"
    <3>1. t.sent = r.sent
      BY <2>1, <2>5
    <3>2. Spans(wire'[p], "DATA", s, o.recvd, r.sent)
      BY <1>n, <2>1, <2>2, <2>5 DEF Extended, FrameKinds
    <3>3. Covers(wire[p], s, o.recvd, r.sent) => Covers(wire'[p], s, o.recvd, r.sent)
      BY <1>n, <2>1, <2>5 DEF Extended
    <3> QED
      BY <1>2, <2>2, <2>3, <3>1, <3>2, <3>3 DEF DataOK
  <2> QED
    BY <2>4, <2>5
<1> QED
  BY <1>3, <1>4, <1>5, AppParts

LEMMA AppEof ==
    ASSUME Inv, NEW p \in Peers, NEW s \in Ids, AppStep(p, s)
    PROVE  EofOK(p, s)' /\ EofOK(Other(p), s)'
<1> DEFINE q == Other(p)
           r == st[p][s]
           t == st'[p][s]
           o == st[q][s]
<1>1. /\ q \in Peers /\ Other(q) = p
      /\ EofOK(p, s) /\ EofOK(q, s) /\ DataOK(q, s) /\ LocalOK(r, s \in table[p])
      /\ r \in Stream /\ o \in Stream
  BY Now DEF StreamOK
<1>2. st'[q][s] = o /\ Moves(r, t)
  BY AppParts
<1>3. EofOK(p, s)'
  BY <1>1, <1>2 DEF EofOK, Moves
<1>4. t.reof /\ ~t.reset /\ t.phase # "gone" =>
            o.leof /\ t.recvd = o.sent /\ t.rd + t.buf = t.recvd
  BY <1>1, <1>2 DEF EofOK, Moves
<1>5. t.sawEof => o.leof /\ t.rd = o.sent
  <2>1. SUFFICES ASSUME t.sawEof PROVE o.leof /\ t.rd = o.sent
    OBVIOUS
  <2>2. CASE r.sawEof
    <3>1. o.leof /\ r.rd = o.sent
      BY <1>1, <2>2 DEF EofOK
    <3>2. r.rd + r.buf <= r.recvd /\ r.recvd <= o.sent
      BY <1>1 DEF LocalOK, DataOK
    <3>3. ~(r.buf > 0)
      BY <1>1, <3>1, <3>2 DEF Stream
    <3> QED
      BY <1>1, <1>2, <2>1, <3>1, <3>3 DEF Moves
  <2>3. CASE ~r.sawEof
    <3>1. r.reof /\ ~r.reset /\ r.phase = "open" /\ r.buf = 0 /\ t.rd = r.rd
      BY <1>2, <2>1, <2>3 DEF Moves
    <3>2. o.leof /\ r.recvd = o.sent /\ r.rd + r.buf = r.recvd
      BY <1>1, <3>1 DEF EofOK
    <3> QED
      BY <1>1, <3>1, <3>2 DEF Stream
  <2> QED
    BY <2>2, <2>3
<1>6. EofOK(q, s)'
  <2>1. st'[Other(q)][s] = t
    BY <1>1
  <2> QED
    BY <1>2, <1>4, <1>5, <2>1 DEF EofOK
<1> QED
  BY <1>3, <1>6

LEMMA AppCredit ==
    ASSUME Inv, NEW p \in Peers, NEW s \in Ids, AppStep(p, s), st'[p][s] \in Stream
    PROVE  CreditOK(p, s)' /\ CreditOK(Other(p), s)'
<1> DEFINE q == Other(p)
           r == st[p][s]
           t == st'[p][s]
           o == st[q][s]
<1>1. /\ q \in Peers /\ Other(q) = p /\ wire[p] \in Seq(Frame)
      /\ CreditOK(p, s) /\ CreditOK(q, s)
      /\ r \in Stream /\ o \in Stream
  BY Now DEF StreamOK
<1>2. /\ st'[q][s] = o /\ wire'[q] = wire[q]
      /\ t.credited = r.credited /\ r.rd <= t.rd
  BY <1>1, AppParts DEF Moves, Adds
<1>3. CreditOK(p, s)'
  BY <1>1, <1>2 DEF CreditOK
<1>4. /\ o.credited <= r.rd /\ Spans(wire[p], "WINDOW_UPDATE", s, o.credited, r.rd)
      /\ o.credited \in Nat /\ r.rd \in Nat /\ t.rd \in Nat
  BY <1>1 DEF CreditOK, Stream
<1>5. Spans(wire[p], "WINDOW_UPDATE", s, o.credited, t.rd)
  BY <1>1, <1>2, <1>4, SpansWider
<1>6. Spans(wire'[p], "WINDOW_UPDATE", s, o.credited, t.rd)
  <2>1. CASE wire' = wire
    BY <1>5, <2>1
  <2>2. ASSUME NEW f \in Frame, Adds(p, s, f)
        PROVE  Spans(wire'[p], "WINDOW_UPDATE", s, o.credited, t.rd)
    <3>1. /\ Extended(wire[p], wire'[p], f, s)
          /\ f.kind = "WINDOW_UPDATE" => f.from = r.rd /\ f.upto = t.rd /\ r.rd < t.rd
      BY <2>2 DEF Adds, Says
    <3>2. CASE f.kind = "WINDOW_UPDATE"
      BY <1>4, <3>1, <3>2 DEF Extended, FrameKinds
    <3>3. CASE f.kind # "WINDOW_UPDATE"
      BY <1>4, <1>5, <3>1, <3>3 DEF Extended, FrameKinds
    <3> QED
      BY <3>2, <3>3
  <2> QED
    BY <2>1, <2>2, AppParts
<1>7. CreditOK(q, s)'
  <2>1. st'[Other(q)][s] = t /\ wire'[Other(q)] = wire'[p] /\ o.credited <= t.rd
    BY <1>1, <1>2, <1>4
  <2> QED
    BY <1>2, <1>6, <2>1 DEF CreditOK
<1> QED
  BY <1>3, <1>7

\* The streams beside the one a step is about.
LEMMA Beside ==
    ASSUME TypeOK, TypeOK', NEW p \in Peers, NEW s \in Ids,
           \A y \in Ids : y # s => Untouched(y),
           \A x \in Peers, y \in Ids : StreamOK(x, y),
           StreamOK(p, s)', StreamOK(Other(p), s)'
    PROVE  \A x \in Peers, y \in Ids : StreamOK(x, y)'
<1> SUFFICES ASSUME NEW x \in Peers, NEW y \in Ids PROVE StreamOK(x, y)'
  OBVIOUS
<1>1. CASE y # s
  BY <1>1, UntouchedOK
<1>2. CASE y = s
  <2>1. x = p \/ x = Other(p)
    BY Sides
  <2> QED
    BY <1>2, <2>1
<1> QED
  BY <1>1, <1>2

LEMMA AppKeeps ==
    ASSUME Inv, TypeOK', NEW p \in Peers, NEW s \in Ids, AppStep(p, s)
    PROVE  Inv' /\ \A y \in Ids : y # s => Untouched(y)
<1> DEFINE q == Other(p)
<1>1. q \in Peers /\ q # p /\ wire[p] \in Seq(Frame) /\ st'[p][s] \in Stream
  BY Sides DEF Inv, TypeOK
<1>2. /\ Only(p, s)
      /\ st'[q][s] = st[q][s]
      /\ s \in table'[q] <=> s \in table[q]
      /\ \A x \in Peers, y \in Ids : Stale(x, y)' <=> Stale(x, y)
      /\ \A x \in Peers : Up(x)' <=> Up(x)
  BY AppParts
<1>3. StreamOK(p, s)' /\ StreamOK(q, s)'
  <2>1. LocalOK(st'[p][s], s \in table'[p]) /\ LocalOK(st'[q][s], s \in table'[q])
    <3>1. LocalOK(st[q][s], s \in table[q])
      BY <1>1 DEF Inv, StreamOK
    <3>2. LocalOK(st'[q][s], s \in table'[q])
      BY <1>2, <3>1 DEF LocalOK
    <3> QED
      BY <1>2, <3>2 DEF Only
  <2> QED
    BY <1>1, <2>1, AppId, AppEnd, AppPhase, AppData, AppEof, AppCredit DEF StreamOK
<1>4. \/ wire' = wire
      \/ \E f \in Frame : f.id = s /\ f.kind # "OPEN"
            /\ wire'[q] = wire[q] /\ wire'[p] = Append(wire[p], f)
  <2>1. wire' = wire \/ \E f \in Frame : Adds(p, s, f)
    BY AppParts
  <2>2. ASSUME NEW f \in Frame, Adds(p, s, f)
        PROVE  f.id = s /\ f.kind # "OPEN" /\ wire'[q] = wire[q] /\ wire'[p] = Append(wire[p], f)
    <3>1. Says(st[p][s], st'[p][s], f)
      BY <2>2 DEF Adds
    <3>2. f.kind # "OPEN"
      BY <3>1 DEF Says
    <3> QED
      BY <2>2, <3>2 DEF Adds
  <2> QED
    BY <2>1, <2>2
<1>5. ASSUME NEW y \in Ids, y # s PROVE Untouched(y)
  <2>1. ASSUME NEW x \in Peers PROVE Alike(wire[x], wire'[x], y)
    <3>1. Alike(wire[x], wire[x], y)
      BY DEF Alike
    <3>2. CASE wire'[x] = wire[x]
      BY <3>1, <3>2
    <3>3. CASE x = p /\ \E f \in Frame : f.id = s /\ wire'[p] = Append(wire[p], f)
      BY <1>1, <1>5, <3>3, AppendOther
    <3> QED
      BY <1>4, <3>2, <3>3, Sides
  <2> QED
    BY <1>2, <1>5, <2>1 DEF Untouched, Only
<1>6. ASSUME NEW x \in Peers PROVE CountersOK(x)'
  <2>1. CountersOK(x) /\ wire[x] \in Seq(Frame)
    BY DEF Inv, TypeOK
  <2>2. nextId' = nextId /\ highest' = highest
    BY <1>2 DEF Only
  <2>3. OpensRise(wire'[x])
    <3>1. OpensRise(wire[x])
      BY <2>1 DEF CountersOK
    <3>2. CASE wire'[x] = wire[x]
      BY <3>1, <3>2
    <3>3. CASE x = p /\ \E f \in Frame : f.kind # "OPEN" /\ wire'[p] = Append(wire[p], f)
      BY <2>1, <3>1, <3>3, OpensKept
    <3> QED
      BY <1>4, <3>2, <3>3, Sides
  <2> QED
    BY <2>1, <2>2, <2>3 DEF CountersOK, OwnId
<1>7. \A x \in Peers, y \in Ids : StreamOK(x, y)'
  BY <1>3, <1>5, Beside DEF Inv
<1> QED
  BY <1>5, <1>6, <1>7 DEF Inv

-----------------------------------------------------------------------------
(* Steps that take a frame other than OPEN.                                *)

\* What stream r becomes when it takes frame h; here says that it is in the
\* table, and lost that the peer stops.
Takes(r, t, h, here, lost) ==
    /\ \/ t.phase = r.phase /\ ~(r.phase = "opening" /\ h.kind = "OPEN_RESULT")
       \/ /\ r.phase = "opening" /\ h.kind = "OPEN_RESULT"
          /\ t.phase = (IF h.ok THEN "granted" ELSE "refused")
       \/ r.phase = "accepting" /\ h.kind = "CLOSE" /\ t.phase = "gone"
    /\ t.closed # r.closed => h.kind = "CLOSE"
    /\ h.kind = "CLOSE" /\ here => t.closed
    /\ t.leof = r.leof /\ t.sent = r.sent
    /\ t.rd = r.rd /\ t.sawEof = r.sawEof
    /\ IF h.kind = "DATA" /\ here /\ ~lost
       THEN t.recvd = r.recvd + Length(h) /\ ~r.reof /\ t.reof = r.reof
       ELSE /\ t.recvd = r.recvd
            /\ \/ t.reof = r.reof /\ t.reset = r.reset /\ t.buf = r.buf
               \/ h.kind = "CLOSE" /\ t.reset /\ t.phase \notin {"unused", "accepting"}
               \/ h.kind = "HALF_CLOSE" /\ here /\ t.reof /\ t.reset = r.reset /\ t.buf = r.buf
    /\ IF h.kind = "WINDOW_UPDATE" /\ here /\ ~lost
       THEN t.credited = r.credited + Length(h)
       ELSE t.credited = r.credited

RecvStep(p, s) ==
    LET w == wire[Other(p)]
        h == Head(w) IN
    /\ w # <<>> /\ h.id = s /\ h.kind # "OPEN"
    /\ wire' = [wire EXCEPT ![Other(p)] = Tail(w)]
    /\ Only(p, s)
    /\ Up(p)
    /\ \A x \in Peers : Up(x)' => Up(x)
    /\ Takes(st[p][s], st'[p][s], h, s \in table[p], ~Up(p)')

LEMMA RecvParts ==
    ASSUME Inv, NEW p \in Peers, NEW s \in Ids, RecvStep(p, s)
    PROVE  LET q == Other(p)
               h == Head(wire[q]) IN
           /\ Only(p, s) /\ Takes(st[p][s], st'[p][s], h, s \in table[p], ~Up(p)')
           /\ h \in Frame /\ h.kind # "OPEN" /\ h.id = s
           /\ Taken(wire[q], wire'[q], h, s)
           /\ wire'[p] = wire[p] /\ wire'[q] = Tail(wire[q]) /\ wire[q] # <<>>
           /\ wire'[q] \in Seq(Frame)
           /\ st'[q][s] = st[q][s]
           /\ s \in table'[q] <=> s \in table[q]
           /\ s \in table'[p] => s \in table[p]
           /\ \A x \in Peers, y \in Ids : Stale(x, y)' <=> Stale(x, y)
           /\ Up(p) /\ \A x \in Peers : Up(x)' => Up(x)
           /\ Mentions(wire[q], s) /\ Stale(q, s) /\ Stale(p, s)
           /\ ~Told(p, s) /\ ~Waits(q, s)
<1> DEFINE q == Other(p)
           w == wire[q]
           h == Head(w)
<1>1. q \in Peers /\ q # p /\ Other(q) = p /\ w \in Seq(Frame) /\ w # <<>> /\ h.id = s
  BY Now, Sides DEF RecvStep
<1>2. /\ h \in Frame /\ h.kind # "OPEN"
      /\ wire'[q] = Tail(w) /\ wire'[p] = wire[p]
  <2>1. h \in Frame
    BY <1>1, TailIs
  <2>2. wire' = [wire EXCEPT ![q] = Tail(w)] /\ h.kind # "OPEN"
    BY DEF RecvStep
  <2>3. wire \in [Peers -> Seq(Frame)]
    BY DEF Inv, TypeOK
  <2> QED
    BY <1>1, <2>1, <2>2, <2>3
<1>t. wire'[q] \in Seq(Frame)
  BY <1>1, <1>2, TailIs
<1>3. Taken(w, wire'[q], h, s)
  <2>1. Taken(w, Tail(w), h, s)
    BY <1>1, TailSame
  <2> QED
    BY <1>2, <2>1, Zenon
<1>4. /\ st'[q][s] = st[q][s]
      /\ s \in table'[q] <=> s \in table[q]
      /\ s \in table'[p] => s \in table[p]
  BY <1>1 DEF RecvStep, Only
<1>5. \A x \in Peers, y \in Ids : Stale(x, y)' <=> Stale(x, y)
  BY DEF RecvStep, Only, Stale, OwnId
<1>6. Mentions(w, s) /\ Has(w, h.kind, s)
  BY <1>3 DEF Taken
<1>7. IdOK(p, s) /\ IdOK(q, s) /\ EndOK(q, s) /\ PhaseOK(q, s)
  BY Now DEF StreamOK
<1>8. Stale(q, s)
  BY <1>6, <1>7 DEF IdOK
<1>9. Stale(p, s)
  <2>1. CASE OwnId(p, s)
    BY <1>1, <1>7, <1>8, <2>1 DEF IdOK
  <2>2. CASE ~OwnId(p, s)
    <3>1. ~OpenFirst(w, s)
      BY <1>2, <1>3 DEF Taken
    <3> QED
      BY <1>1, <1>7, <2>2, <3>1, Sides DEF IdOK
  <2> QED
    BY <2>1, <2>2
<1>10. ~Told(p, s)
  BY <1>1, <1>6, <1>7 DEF EndOK
<1>11. ~Waits(q, s)
  <2>1. CASE OwnId(q, s)
    BY <1>7, <1>8, <2>1 DEF PhaseOK, Waits
  <2>2. CASE ~OwnId(q, s)
    BY <1>6, <1>7, <2>2 DEF PhaseOK, AnswerOK
  <2> QED
    BY <2>1, <2>2
<1> QED
  BY <1>1, <1>2, <1>t, <1>3, <1>4, <1>5, <1>6, <1>8, <1>9, <1>10, <1>11 DEF RecvStep

LEMMA RecvId ==
    ASSUME Inv, NEW p \in Peers, NEW s \in Ids, RecvStep(p, s)
    PROVE  IdOK(p, s)' /\ IdOK(Other(p), s)'
<1> DEFINE q == Other(p)
           h == Head(wire[q])
<1>1. q \in Peers /\ Other(q) = p /\ IdOK(p, s) /\ IdOK(q, s)
  BY Now DEF StreamOK
<1>2. /\ Takes(st[p][s], st'[p][s], h, s \in table[p], ~Up(p)')
      /\ h.kind # "OPEN"
      /\ Taken(wire[q], wire'[q], h, s)
      /\ wire'[p] = wire[p]
      /\ st'[q][s] = st[q][s]
      /\ Stale(p, s)' <=> Stale(p, s)
      /\ Stale(q, s)' <=> Stale(q, s)
      /\ Stale(p, s) /\ Stale(q, s)
  BY <1>1, RecvParts
<1>3. st[p][s].phase # "unused" => st'[p][s].phase # "unused"
  BY <1>2 DEF Takes
<1>4. IdOK(p, s)'
  BY <1>1, <1>2, <1>3 DEF IdOK, OwnId
<1>5. /\ Has(wire'[q], "OPEN", s) => Has(wire[q], "OPEN", s)
      /\ Has(wire'[q], "OPEN_RESULT", s) => Has(wire[q], "OPEN_RESULT", s)
  BY <1>2 DEF Taken, FrameKinds
<1>6. IdOK(q, s)'
  BY <1>1, <1>2, <1>5 DEF IdOK, OwnId
<1> QED
  BY <1>4, <1>6

LEMMA RecvEnd ==
    ASSUME Inv, NEW p \in Peers, NEW s \in Ids, RecvStep(p, s)
    PROVE  EndOK(p, s)' /\ EndOK(Other(p), s)'
<1> DEFINE q == Other(p)
           h == Head(wire[q])
           r == st[p][s]
           t == st'[p][s]
<1>1. q \in Peers /\ Other(q) = p /\ EndOK(p, s) /\ EndOK(q, s)
  BY Now DEF StreamOK
<1>2. /\ Takes(r, t, h, s \in table[p], ~Up(p)')
      /\ Taken(wire[q], wire'[q], h, s)
      /\ wire'[p] = wire[p]
      /\ st'[q][s] = st[q][s]
      /\ s \in table'[p] => s \in table[p]
      /\ s \in table'[q] <=> s \in table[q]
      /\ Stale(p, s)' <=> Stale(p, s)
      /\ Stale(q, s)' <=> Stale(q, s)
      /\ ~Told(p, s)
  BY <1>1, RecvParts
<1>3. /\ Over(q, s)' <=> Over(q, s)
      /\ Told(q, s)' <=> Told(q, s)
      /\ Over(p, s) => Over(p, s)'
  BY <1>2 DEF Over, Told, Takes
<1>4. EndOK(p, s)'
  BY <1>1, <1>2, <1>3 DEF EndOK
<1>5. /\ FinalLast(wire'[q], s)
      /\ Has(wire'[q], "CLOSE", s) \/ Refuses(wire'[q], s) => Over(q, s)
      /\ IsFinal(h) => Over(q, s) /\ ~Mentions(wire'[q], s)
  BY <1>1, <1>2 DEF EndOK, Taken, FrameKinds, IsFinal
<1>6. Told(p, s)' => IsFinal(h)
  BY <1>2 DEF Told, Takes, IsFinal, IsRefusal
<1>7. Told(Other(q), s)' <=> Told(p, s)'
  BY <1>1
<1>8. EndOK(q, s)'
  BY <1>1, <1>3, <1>5, <1>6, <1>7 DEF EndOK
<1> QED
  BY <1>4, <1>8

LEMMA RecvPhase ==
    ASSUME Inv, NEW p \in Peers, NEW s \in Ids, RecvStep(p, s)
    PROVE  PhaseOK(p, s)' /\ PhaseOK(Other(p), s)'
<1> DEFINE q == Other(p)
           h == Head(wire[q])
           r == st[p][s]
           t == st'[p][s]
           o == st[q][s]
<1>1. /\ q \in Peers /\ Other(q) = p
      /\ PhaseOK(p, s) /\ PhaseOK(q, s) /\ EndOK(q, s)
  BY Now DEF StreamOK
<1>2. /\ Takes(r, t, h, s \in table[p], ~Up(p)')
      /\ Taken(wire[q], wire'[q], h, s)
      /\ wire'[p] = wire[p]
      /\ st'[q][s] = o
      /\ s \in table'[p] => s \in table[p]
      /\ s \in table'[q] <=> s \in table[q]
      /\ Stale(p, s)' <=> Stale(p, s)
      /\ Stale(q, s)' <=> Stale(q, s)
      /\ Stale(p, s)
      /\ ~Told(p, s) /\ ~Waits(q, s) /\ Mentions(wire[q], s)
  BY <1>1, RecvParts
<1>3. Waits(q, s)' <=> Waits(q, s)
  BY <1>2 DEF Waits
<1>w. st'[Other(q)][s] = t /\ wire'[Other(q)] = wire'[p]
  BY <1>1
<1>4. CASE OwnId(p, s)
  <2>1. ~OwnId(q, s) /\ AnswerOK(q, s) /\ r.phase # "accepting" /\ t.phase # "accepting"
    BY <1>1, <1>2, <1>4, Sides DEF PhaseOK, Takes
  <2>2. o.phase = "unused" => IsRefusal(h) /\ OnlyRefusals(wire'[q], s)
    BY <1>2, <2>1 DEF AnswerOK, Taken
  <2>3. o.phase \in {"unused", "accepting"} =>
            /\ t.phase \notin {"granted", "open"}
            /\ ~Has(wire'[p], "HALF_CLOSE", s)
            /\ ~o.reof
    <3>1. SUFFICES ASSUME o.phase \in {"unused", "accepting"}
                   PROVE  /\ t.phase \notin {"granted", "open"}
                          /\ ~Has(wire'[p], "HALF_CLOSE", s)
                          /\ ~o.reof
      OBVIOUS
    <3>2. o.phase = "unused" /\ IsRefusal(h)
      BY <1>2, <2>2, <3>1 DEF Waits
    <3> QED
      BY <1>1, <1>2, <2>1, <3>2 DEF AnswerOK, Takes, IsRefusal
  <2>4. RefusalAlone(wire'[q], s) /\ ~Refuses(wire'[q], s)
    BY <2>1, <1>2 DEF AnswerOK, Taken
  <2>5. t.phase # "opening"
    <3>1. r.phase = "opening" => h.kind = "OPEN_RESULT"
      BY <1>1, <1>2, <2>1 DEF AnswerOK, Taken
    <3> QED
      BY <1>2, <3>1 DEF Takes
  <2>6. t.phase = "refused" => ~t.closed /\ s \notin table'[q]
    <3>1. SUFFICES ASSUME t.phase = "refused" PROVE ~t.closed /\ s \notin table'[q]
      OBVIOUS
    <3>2. r.phase = "opening" /\ IsRefusal(h)
      BY <1>2, <3>1 DEF Takes, IsRefusal, Told
    <3>3. ~r.closed /\ s \notin table[q]
      BY <1>1, <1>2, <2>1, <3>2 DEF AnswerOK, Taken
    <3> QED
      BY <1>2, <3>2, <3>3 DEF Takes, IsRefusal
  <2>7. AnswerOK(q, s)'
    BY <1>2, <1>3, <1>w, <2>2, <2>3, <2>4, <2>5, <2>6 DEF AnswerOK
  <2> QED
    BY <1>1, <1>2, <1>4, <2>1, <2>7 DEF PhaseOK, OwnId
<1>5. CASE ~OwnId(p, s)
  <2>1. OwnId(q, s) /\ AnswerOK(p, s) /\ r.phase \notin {"opening", "granted", "refused"}
    BY <1>1, <1>5, Sides DEF PhaseOK
  <2>2. \/ t.phase = r.phase
        \/ r.phase = "accepting" /\ h.kind = "CLOSE" /\ t.phase = "gone"
    BY <1>2, <2>1 DEF Takes
  <2>3. Waits(p, s)' => Waits(p, s)
    BY <1>2, <2>2 DEF Waits
  <2>4. t.phase \in {"unused", "accepting"} =>
            /\ o.phase \notin {"granted", "open"}
            /\ ~Has(wire'[q], "HALF_CLOSE", s)
            /\ ~t.reof
    <3>1. SUFFICES ASSUME t.phase \in {"unused", "accepting"}
                   PROVE  /\ o.phase \notin {"granted", "open"}
                          /\ ~Has(wire'[q], "HALF_CLOSE", s)
                          /\ ~t.reof
      OBVIOUS
    <3>2. t.phase = r.phase
      BY <2>2, <3>1
    <3>3. o.phase \notin {"granted", "open"} /\ ~Has(wire[q], "HALF_CLOSE", s) /\ ~r.reof
      BY <2>1, <3>1, <3>2 DEF AnswerOK
    <3>4. h.kind # "HALF_CLOSE" /\ ~Has(wire'[q], "HALF_CLOSE", s)
      BY <1>2, <3>3 DEF Taken, FrameKinds
    <3>5. ~t.reof
      BY <1>2, <3>1, <3>3, <3>4 DEF Takes
    <3> QED
      BY <3>3, <3>4, <3>5
  <2>5. o.phase = "opening" =>
            /\ ~o.closed
            /\ ResultFirst(wire'[p], s)
            /\ t.phase \notin {"unused", "accepting"} => Has(wire'[p], "OPEN_RESULT", s)
    <3>1. SUFFICES ASSUME o.phase = "opening"
                   PROVE  /\ ~o.closed
                          /\ ResultFirst(wire'[p], s)
                          /\ t.phase \notin {"unused", "accepting"} => Has(wire'[p], "OPEN_RESULT", s)
      OBVIOUS
    <3>2. h.kind # "CLOSE"
      <4>1. ~Over(q, s)
        BY <3>1 DEF Over
      <4> QED
        BY <1>1, <1>2, <4>1 DEF EndOK, Taken
    <3> QED
      BY <1>2, <2>1, <2>2, <3>1, <3>2 DEF AnswerOK
  <2>6. /\ t.phase = "unused" => OnlyRefusals(wire'[p], s)
        /\ Waits(p, s)' => ~Mentions(wire'[p], s)
        /\ RefusalAlone(wire'[p], s)
        /\ Refuses(wire'[p], s) => o.phase \in {"opening", "gone"} /\ s \notin table'[p]
        /\ o.phase = "refused" => ~o.closed /\ s \notin table'[p]
    BY <1>2, <2>1, <2>2, <2>3 DEF AnswerOK
  <2>7. AnswerOK(p, s)'
    BY <1>2, <2>4, <2>5, <2>6 DEF AnswerOK
  <2> QED
    BY <1>1, <1>2, <1>5, <2>1, <2>2, <2>7 DEF PhaseOK, OwnId
<1> QED
  BY <1>4, <1>5

LEMMA RecvBytes ==
    ASSUME Inv, NEW p \in Peers, NEW s \in Ids, RecvStep(p, s)
    PROVE  DataOK(p, s)' /\ DataOK(Other(p), s)'
<1> DEFINE q == Other(p)
           h == Head(wire[q])
           r == st[p][s]
           t == st'[p][s]
           o == st[q][s]
<1>1. /\ q \in Peers /\ Other(q) = p /\ wire[q] \in Seq(Frame)
      /\ DataOK(p, s) /\ DataOK(q, s)
      /\ r \in Stream /\ o \in Stream
  BY Now DEF StreamOK
<1>2. /\ Takes(r, t, h, s \in table[p], ~Up(p)')
      /\ Taken(wire[q], wire'[q], h, s)
      /\ wire'[p] = wire[p]
      /\ st'[q][s] = o
      /\ s \in table'[p] => s \in table[p]
      /\ s \in table'[q] <=> s \in table[q]
      /\ Stale(p, s)' <=> Stale(p, s)
      /\ Stale(q, s)' <=> Stale(q, s)
      /\ Stale(p, s)
      /\ Up(p) /\ (Up(q)' => Up(q))
      /\ h \in Frame
  BY <1>1, RecvParts
<1>3. DataOK(p, s)'
  <2>1. t.sent = r.sent /\ t.leof = r.leof
    BY <1>2 DEF Takes
  <2> QED
    BY <1>1, <1>2, <2>1 DEF DataOK
<1>n. r.recvd \in Nat /\ o.sent \in Nat /\ h.from \in Nat /\ h.upto \in Nat
  BY <1>1, <1>2 DEF Stream, Frame
<1>4. /\ r.recvd <= o.sent
      /\ Spans(wire[q], "DATA", s, r.recvd, o.sent)
      /\ EofLast(wire[q], s)
      /\ Has(wire[q], "HALF_CLOSE", s) => o.leof
      /\ s \in table[p] => Covers(wire[q], s, r.recvd, o.sent)
  BY <1>1, <1>2 DEF DataOK
<1>5. EofLast(wire'[q], s) /\ (Has(wire'[q], "HALF_CLOSE", s) => o.leof)
  BY <1>2, <1>4 DEF Taken, FrameKinds
<1>6. /\ t.recvd <= o.sent
      /\ Spans(wire'[q], "DATA", s, t.recvd, o.sent)
      /\ Up(p)' /\ s \in table'[p] => Covers(wire'[q], s, t.recvd, o.sent)
  <2>1. CASE h.kind # "DATA"
    <3>1. t.recvd = r.recvd
      BY <1>2, <2>1 DEF Takes
    <3> QED
      BY <1>2, <1>4, <1>n, <2>1, <3>1 DEF Taken, FrameKinds
  <2>2. CASE h.kind = "DATA" /\ s \in table[p] /\ Up(p)'
    <3>1. t.recvd = r.recvd + Length(h)
      BY <1>2, <2>2 DEF Takes
    <3>2. /\ h.from = r.recvd /\ h.upto <= o.sent
          /\ Spans(wire'[q], "DATA", s, h.upto, o.sent)
          /\ Covers(wire'[q], s, h.upto, o.sent)
      BY <1>2, <1>4, <1>n, <2>2 DEF Taken, FrameKinds
    <3>3. t.recvd = h.upto
      BY <1>n, <3>1, <3>2 DEF Length
    <3> QED
      BY <3>2, <3>3
  <2>3. CASE h.kind = "DATA" /\ ~(s \in table[p] /\ Up(p)')
    <3>1. t.recvd = r.recvd
      BY <1>2, <2>3 DEF Takes
    <3>0. /\ r.recvd <= h.from /\ h.from < h.upto
          /\ Spans(wire'[q], "DATA", s, h.upto, o.sent)
      BY <1>2, <1>4, <1>n, <2>3 DEF Taken, FrameKinds
    <3>2. r.recvd <= h.upto /\ Spans(wire'[q], "DATA", s, h.upto, o.sent)
      BY <1>n, <3>0
    <3>3. wire'[q] \in Seq(Frame)
      BY <1>1, RecvParts
    <3>4. Spans(wire'[q], "DATA", s, r.recvd, o.sent)
      <4>1. r.recvd \in Nat /\ h.upto \in Nat /\ o.sent \in Nat /\ o.sent <= o.sent
        BY <1>n
      <4> HIDE DEF h, r, o
      <4> QED
        BY <3>2, <3>3, <4>1, SpansWider
    <3> QED
      BY <1>2, <1>4, <2>3, <3>1, <3>4
  <2> QED
    BY <2>1, <2>2, <2>3
<1>7. DataOK(q, s)'
  <2>1. st'[Other(q)][s] = t /\ (Up(Other(q))' <=> Up(p)')
    BY <1>1
  <2>2. table'[Other(q)] = table'[p] /\ (Stale(Other(q), s)' <=> Stale(p, s)')
    BY <1>1
  <2> QED
    BY <1>2, <1>5, <1>6, <2>1, <2>2 DEF DataOK
<1> QED
  BY <1>3, <1>7

LEMMA RecvEof ==
    ASSUME Inv, NEW p \in Peers, NEW s \in Ids, RecvStep(p, s)
    PROVE  EofOK(p, s)' /\ EofOK(Other(p), s)'
<1> DEFINE q == Other(p)
           h == Head(wire[q])
           r == st[p][s]
           t == st'[p][s]
           o == st[q][s]
<1>1. /\ q \in Peers /\ Other(q) = p
      /\ EofOK(p, s) /\ EofOK(q, s) /\ DataOK(q, s) /\ LocalOK(r, s \in table[p])
      /\ r \in Stream /\ o \in Stream
  BY Now DEF StreamOK
<1>2. /\ Takes(r, t, h, s \in table[p], ~Up(p)')
      /\ Taken(wire[q], wire'[q], h, s)
      /\ st'[q][s] = o
      /\ Up(p)
      /\ h \in Frame
      /\ wire'[q] \in Seq(Frame)
  BY <1>1, RecvParts
<1>3. EofOK(p, s)'
  BY <1>1, <1>2 DEF EofOK, Takes
<1>4. t.sawEof => o.leof /\ t.rd = o.sent
  BY <1>1, <1>2 DEF EofOK, Takes
<1>5. ASSUME t.reof, ~t.reset, t.phase # "gone"
      PROVE  o.leof /\ t.recvd = o.sent /\ t.rd + t.buf = t.recvd
  <2>1. r.phase # "gone" /\ t.rd = r.rd
    BY <1>2, <1>5 DEF Takes
  <2>2. CASE r.reof
    <3>1. ~(h.kind = "DATA" /\ s \in table[p] /\ Up(p)')
      BY <1>2, <2>2 DEF Takes
    <3>2. t.recvd = r.recvd /\ t.buf = r.buf /\ ~r.reset
      BY <1>2, <1>5, <3>1 DEF Takes
    <3> QED
      BY <1>1, <2>1, <2>2, <3>2 DEF EofOK
  <2>3. CASE ~r.reof
    <3>1. h.kind = "HALF_CLOSE" /\ s \in table[p] /\ t.recvd = r.recvd /\ t.buf = r.buf
      BY <1>2, <1>5, <2>3 DEF Takes
    <3>2. /\ r.recvd <= o.sent
          /\ Spans(wire[q], "DATA", s, r.recvd, o.sent)
          /\ EofLast(wire[q], s)
          /\ Has(wire[q], "HALF_CLOSE", s) => o.leof
          /\ Covers(wire[q], s, r.recvd, o.sent)
          /\ r.recvd \in Nat /\ o.sent \in Nat
      BY <1>1, <1>2, <3>1 DEF DataOK, Stream
    <3>3. o.leof /\ ~Has(wire'[q], "DATA", s) /\ Covers(wire'[q], s, r.recvd, o.sent)
      BY <1>2, <3>1, <3>2 DEF Taken
    <3>4. r.recvd = o.sent
      BY <1>2, <3>2, <3>3, NothingLeft
    <3>5. r.rd + r.buf = r.recvd
      BY <1>1, <3>1 DEF LocalOK
    <3> QED
      BY <2>1, <3>1, <3>3, <3>4, <3>5
  <2> QED
    BY <2>2, <2>3
<1>6. EofOK(q, s)'
  <2>1. st'[Other(q)][s] = t
    BY <1>1
  <2> QED
    BY <1>2, <1>4, <1>5, <2>1 DEF EofOK
<1> QED
  BY <1>3, <1>6

LEMMA RecvCredit ==
    ASSUME Inv, NEW p \in Peers, NEW s \in Ids, RecvStep(p, s), st'[p][s] \in Stream
    PROVE  CreditOK(p, s)' /\ CreditOK(Other(p), s)'
<1> DEFINE q == Other(p)
           h == Head(wire[q])
           r == st[p][s]
           t == st'[p][s]
           o == st[q][s]
<1>1. /\ q \in Peers /\ Other(q) = p /\ wire[q] \in Seq(Frame)
      /\ CreditOK(p, s) /\ CreditOK(q, s)
      /\ r \in Stream /\ o \in Stream
  BY Now DEF StreamOK
<1>2. /\ Takes(r, t, h, s \in table[p], ~Up(p)')
      /\ Taken(wire[q], wire'[q], h, s)
      /\ wire'[p] = wire[p]
      /\ st'[q][s] = o
      /\ h \in Frame
      /\ wire'[q] \in Seq(Frame)
  BY <1>1, RecvParts
<1>3. CreditOK(q, s)'
  <2>1. st'[Other(q)][s] = t /\ wire'[Other(q)] = wire'[p] /\ t.rd = r.rd
    BY <1>1, <1>2 DEF Takes
  <2> QED
    BY <1>1, <1>2, <2>1 DEF CreditOK
<1>n. /\ r.credited \in Nat /\ t.credited \in Nat /\ o.rd \in Nat
      /\ h.from \in Nat /\ h.upto \in Nat /\ h.from <= h.upto
  BY <1>1, <1>2 DEF Stream, Frame
<1>4. r.credited <= o.rd /\ Spans(wire[q], "WINDOW_UPDATE", s, r.credited, o.rd)
  BY <1>1 DEF CreditOK
<1>5. t.credited <= o.rd /\ Spans(wire'[q], "WINDOW_UPDATE", s, t.credited, o.rd)
  <2>1. CASE h.kind # "WINDOW_UPDATE"
    <3>1. t.credited = r.credited
      BY <1>2, <2>1 DEF Takes
    <3> QED
      BY <1>2, <1>4, <1>n, <2>1, <3>1 DEF Taken, FrameKinds
  <2>2. CASE h.kind = "WINDOW_UPDATE"
    <3>1. /\ r.credited <= h.from /\ h.upto <= o.rd
          /\ Spans(wire'[q], "WINDOW_UPDATE", s, h.upto, o.rd)
      BY <1>2, <1>4, <1>n, <2>2 DEF Taken, FrameKinds
    <3>2. t.credited = r.credited \/ t.credited = r.credited + (h.upto - h.from)
      BY <1>2 DEF Takes, Length
    <3>3. t.credited <= h.upto
      BY <1>n, <3>1, <3>2
    <3>4. Spans(wire'[q], "WINDOW_UPDATE", s, t.credited, o.rd)
      <4>1. t.credited \in Nat /\ h.upto \in Nat /\ o.rd \in Nat /\ o.rd <= o.rd
        BY <1>n
      <4>2. wire'[q] \in Seq(Frame)
        BY <1>2
      <4> HIDE DEF h, r, o, t
      <4> QED
        BY <3>1, <3>3, <4>1, <4>2, SpansWider
    <3> QED
      BY <1>n, <3>1, <3>3, <3>4
  <2> QED
    BY <2>1, <2>2
<1>6. CreditOK(p, s)'
  BY <1>2, <1>5 DEF CreditOK
<1> QED
  BY <1>3, <1>6

LEMMA RecvKeeps ==
    ASSUME Inv, TypeOK', NEW p \in Peers, NEW s \in Ids, RecvStep(p, s)
    PROVE  Inv' /\ \A y \in Ids : y # s => Untouched(y)
<1> DEFINE q == Other(p)
<1>1. q \in Peers /\ q # p /\ Other(q) = p /\ wire[q] \in Seq(Frame) /\ st'[p][s] \in Stream
  <2>1. st'[p][s] \in Stream
    BY DEF TypeOK
  <2> QED
    BY <2>1, Now, Sides
<1>2. /\ Only(p, s)
      /\ st'[q][s] = st[q][s]
      /\ s \in table'[q] <=> s \in table[q]
      /\ \A x \in Peers, y \in Ids : Stale(x, y)' <=> Stale(x, y)
      /\ \A x \in Peers : Up(x)' => Up(x)
      /\ wire[q] # <<>> /\ Head(wire[q]).id = s
      /\ wire'[p] = wire[p] /\ wire'[q] = Tail(wire[q])
  BY RecvParts
<1>3. StreamOK(p, s)' /\ StreamOK(q, s)'
  <2>1. LocalOK(st'[p][s], s \in table'[p]) /\ LocalOK(st'[q][s], s \in table'[q])
    <3>1. LocalOK(st[q][s], s \in table[q])
      BY <1>1 DEF Inv, StreamOK
    <3>2. LocalOK(st'[q][s], s \in table'[q])
      BY <1>2, <3>1 DEF LocalOK
    <3> QED
      BY <1>2, <3>2 DEF Only
  <2> QED
    BY <1>1, <2>1, RecvId, RecvEnd, RecvPhase, RecvBytes, RecvEof, RecvCredit DEF StreamOK
<1>4. ASSUME NEW y \in Ids, y # s PROVE Untouched(y)
  <2>1. ASSUME NEW x \in Peers PROVE Alike(wire[x], wire'[x], y)
    <3>1. Alike(wire[x], wire[x], y)
      BY DEF Alike
    <3>2. CASE x = p
      BY <1>2, <3>1, <3>2
    <3>3. CASE x = q
      <4>1. Alike(wire[q], Tail(wire[q]), y)
        BY <1>1, <1>2, <1>4, TailOther
      <4> QED
        BY <1>2, <3>3, <4>1, Zenon
    <3> QED
      BY <3>2, <3>3, Sides
  <2> QED
    BY <1>2, <1>4, <2>1 DEF Untouched, Only
<1>5. ASSUME NEW x \in Peers PROVE CountersOK(x)'
  <2>1. CountersOK(x) /\ wire[x] \in Seq(Frame)
    BY DEF Inv, TypeOK
  <2>2. nextId' = nextId /\ highest' = highest
    BY <1>2 DEF Only
  <2>3. OpensRise(wire'[x])
    <3>1. OpensRise(wire[x]) /\ (wire[x] # <<>> => OpensRise(Tail(wire[x])))
      BY <2>1, OpensKept DEF CountersOK
    <3>2. CASE x = p
      BY <1>2, <3>1, <3>2
    <3>3. CASE x = q
      BY <1>2, <3>1, <3>3, Zenon
    <3> QED
      BY <3>2, <3>3, Sides
  <2> QED
    BY <2>1, <2>2, <2>3 DEF CountersOK, OwnId
<1>6. \A x \in Peers, y \in Ids : StreamOK(x, y)'
  BY <1>3, <1>4, Beside DEF Inv
<1> QED
  BY <1>4, <1>5, <1>6 DEF Inv

-----------------------------------------------------------------------------
(* The actions of a stream's own side are such steps.                      *)

Elsewhere(p, s) == \A x \in Peers, y \in Ids : x # p \/ y # s =>
    st'[x][y] = st[x][y] /\ (y \in table'[x] <=> y \in table[x])

LEMMA FinishIs ==
    ASSUME TypeOK, NEW p \in Peers, NEW s \in Ids, NEW t, NEW keep \in BOOLEAN,
           Finish(p, s, t, keep)
    PROVE  /\ Elsewhere(p, s) /\ st'[p][s] = t
           /\ s \in table'[p] <=> keep /\ s \in table[p]
<1>1. Elsewhere(p, s)
  BY DEF Finish, Become, Remove, TypeOK, Elsewhere
<1>2. st'[p][s] = t
  BY DEF Finish, Become, TypeOK
<1>3. s \in table'[p] <=> keep /\ s \in table[p]
  BY DEF Finish, Remove, TypeOK
<1> QED
  BY <1>1, <1>2, <1>3

LEMMA BecomeIs ==
    ASSUME TypeOK, NEW p \in Peers, NEW s \in Ids, NEW t, Become(p, s, t), table' = table
    PROVE  /\ Elsewhere(p, s) /\ st'[p][s] = t
           /\ s \in table'[p] <=> s \in table[p]
BY DEF Become, TypeOK, Elsewhere

\* The new stream is sound, and has not been told of an end.
Turns(r, t, was, here) ==
    /\ Moves(r, t) /\ LocalOK(t, here)
    /\ here => was
    /\ t.closed /\ (t.phase # "gone" \/ here) => r.closed /\ (r.phase # "gone" \/ was)

LEMMA TurnsApp ==
    ASSUME NEW p \in Peers, NEW s \in Ids, NEW t, NEW here \in BOOLEAN,
           Elsewhere(p, s), st'[p][s] = t, s \in table'[p] <=> here,
           Turns(st[p][s], t, s \in table[p], here),
           UNCHANGED <<nextId, highest, err>>,
           \/ /\ wire' = wire /\ st[p][s].phase # "accepting" /\ t.sent = st[p][s].sent
              /\ t.phase = "gone" => st[p][s].phase = "gone" \/ Told(p, s)
           \/ \E f \in Frame : f.id = s /\ Send(p, f) /\ Says(st[p][s], t, f)
                               /\ (IsRefusal(f) => ~here)
    PROVE  AppStep(p, s)
<1>1. LocalOK(st'[p][s], s \in table'[p])
  BY DEF Turns, LocalOK
<1>2. Only(p, s)
  BY <1>1 DEF Only, Elsewhere, Turns
<1>3. Told(p, s)' => Told(p, s)
  BY DEF Told, Turns, Moves
<1> QED
  BY <1>2, <1>3 DEF AppStep, Turns, Send

LEMMA ClosedIs ==
    ASSUME NEW r \in Stream, NEW here, LocalOK(r, here), NEW remote \in BOOLEAN
    PROVE  LET m == MarkClosed(r, remote) IN
           /\ m \in Stream /\ m.phase = r.phase
           /\ m.closed /\ m.reof /\ m.reserved = 0
           /\ m.held = r.held /\ m.leof = r.leof
           /\ m.sent = r.sent /\ m.recvd = r.recvd /\ m.rd = r.rd
           /\ m.credited = r.credited /\ m.sawEof = r.sawEof
           /\ r.closed => m.buf = r.buf /\ m.rcredit = r.rcredit /\ m.reset = r.reset
           /\ ~r.closed => m.buf = 0 /\ m.rcredit = Window /\ (m.reset <=> r.reset \/ remote)
<1>1. MarkClosed(r, remote) \in Stream
  BY MarkClosedType
<1>2. CASE r.closed
  BY <1>1, <1>2 DEF MarkClosed, LocalOK
<1>3. CASE ~r.closed
  <2>1. r.rcredit + r.buf = Window
    BY <1>3 DEF LocalOK
  <2> QED
    BY <1>1, <1>3, <2>1 DEF MarkClosed, Stream
<1> QED
  BY <1>2, <1>3

\* A stream given up by its side: open_stream's end, and close().
LEMMA GoneTurns ==
    ASSUME NEW r \in Stream, NEW was \in BOOLEAN, NEW here \in BOOLEAN, LocalOK(r, was),
           r.phase # "unused", here <=> was /\ r.closed
    PROVE  LET t == [MarkClosed(r, FALSE) EXCEPT !.phase = "gone"] IN
           Turns(r, t, was, here) /\ t.phase = "gone" /\ t.sent = r.sent
<1> DEFINE m == MarkClosed(r, FALSE)
           t == [m EXCEPT !.phase = "gone"]
<1>1. /\ m \in Stream
      /\ m.closed /\ m.reof /\ m.reserved = 0
      /\ m.held = r.held /\ m.leof = r.leof
      /\ m.sent = r.sent /\ m.recvd = r.recvd /\ m.rd = r.rd
      /\ m.credited = r.credited /\ m.sawEof = r.sawEof
      /\ r.closed => m.buf = r.buf /\ m.rcredit = r.rcredit /\ m.reset = r.reset
      /\ ~r.closed => m.buf = 0 /\ m.rcredit = Window
  BY ClosedIs
<1> HIDE DEF m
<1>2. /\ t.phase = "gone"
      /\ t.closed /\ t.reof /\ t.reserved = 0
      /\ t.held = r.held /\ t.leof = r.leof
      /\ t.sent = r.sent /\ t.recvd = r.recvd /\ t.rd = r.rd
      /\ t.credited = r.credited /\ t.sawEof = r.sawEof
      /\ t.buf = m.buf /\ t.rcredit = m.rcredit
  BY <1>1 DEF Stream
<1> HIDE DEF t
<1>3. t.buf = r.buf \/ t.buf = 0
  BY <1>1, <1>2
<1>4. r.rd \in Nat /\ r.buf \in Nat /\ r.recvd \in Nat
  BY DEF Stream
<1>5. LocalOK(t, here)
  BY <1>1, <1>2, <1>3, <1>4 DEF LocalOK
<1>6. Moves(r, t)
  BY <1>1, <1>2, <1>4 DEF Moves
<1> QED
  BY <1>2, <1>5, <1>6 DEF Turns, t, m

LEMMA OpenEnds ==
    ASSUME Inv, NEW p \in Peers, NEW s \in Ids,
           OpenTimeout(p, s) \/ OpenRefused(p, s) \/ Close(p, s)
    PROVE  AppStep(p, s)
<1> DEFINE r == st[p][s]
           t == [MarkClosed(r, FALSE) EXCEPT !.phase = "gone"]
           was == s \in table[p]
           f == Control("CLOSE", s)
<1>1. TypeOK /\ r \in Stream /\ LocalOK(r, was) /\ was \in BOOLEAN /\ r.closed \in BOOLEAN
  <2>1. TypeOK /\ r \in Stream /\ LocalOK(r, was)
    BY Now DEF Inv, StreamOK
  <2> QED
    BY <2>1 DEF Stream
<1>2. f \in Frame /\ f.id = s /\ f.kind = "CLOSE"
  BY FrameType DEF FrameKinds, Control
<1>3. Says(r, t, f) \/ t.phase # "gone" \/ t.sent # r.sent \/ r.phase \in {"gone", "accepting"}
  BY <1>2 DEF Says, IsFinal
<1>4. CASE OpenTimeout(p, s) \/ OpenRefused(p, s)
  <2>0. Forget(p, s) /\ r.phase \in {"opening", "granted", "refused"}
    BY <1>4 DEF OpenTimeout, OpenRefused
  <2>1. Finish(p, s, t, r.closed) /\ r.phase \in {"opening", "granted", "refused"}
    BY <2>0, Zenon DEF Forget
  <2>2. Turns(r, t, was, r.closed /\ was) /\ t.phase = "gone" /\ t.sent = r.sent
    <3> HIDE DEF r, was
    <3>1. r.closed /\ was => was
      OBVIOUS
    <3> QED
      BY <1>1, <2>1, <3>1, GoneTurns
  <2>3. UNCHANGED <<nextId, highest, err>> /\ ((wire' = wire /\ Told(p, s)) \/ Send(p, f))
    BY <1>4 DEF OpenTimeout, OpenRefused, Told
  <2> HIDE DEF t, f
  <2>4. /\ Elsewhere(p, s) /\ st'[p][s] = t
        /\ s \in table'[p] <=> r.closed /\ was
    BY <1>1, <2>1, FinishIs
  <2> QED
    BY <1>1, <1>2, <1>3, <2>1, <2>2, <2>3, <2>4, TurnsApp DEF IsRefusal
<1>5. CASE Close(p, s)
  <2>1. Finish(p, s, t, FALSE) /\ r.phase = "open" /\ ~r.closed
    BY <1>5 DEF Close
  <2>2. Turns(r, t, was, FALSE) /\ t.phase = "gone" /\ t.sent = r.sent
    BY <1>1, <2>1, GoneTurns
  <2>3. UNCHANGED <<nextId, highest, err>> /\ Send(p, f)
    BY <1>5 DEF Close
  <2> HIDE DEF t, f
  <2>4. /\ Elsewhere(p, s) /\ st'[p][s] = t
        /\ s \in table'[p] <=> FALSE
    BY <1>1, <2>1, FinishIs
  <2> QED
    BY <1>1, <1>2, <1>3, <2>1, <2>2, <2>3, <2>4, TurnsApp DEF IsRefusal
<1> QED
  BY <1>4, <1>5

LEMMA OpenAnswered ==
    ASSUME Inv, NEW p \in Peers, NEW s \in Ids, OpenGranted(p, s) \/ AcceptDone(p, s)
    PROVE  AppStep(p, s)
<1> DEFINE r == st[p][s]
           t == [r EXCEPT !.phase = "open"]
           was == s \in table[p]
           f == OpenResult(s, TRUE)
<1>1. TypeOK /\ r \in Stream /\ LocalOK(r, was)
  BY Now DEF Inv, StreamOK
<1>2. f \in Frame /\ f.id = s /\ f.kind = "OPEN_RESULT" /\ f.ok
  BY FrameType DEF FrameKinds, OpenResult, Control
<1>3. /\ Become(p, s, t) /\ UNCHANGED <<nextId, highest, table, err>>
      /\ \/ r.phase = "granted" /\ wire' = wire
         \/ r.phase = "accepting" /\ Send(p, f)
  BY DEF OpenGranted, AcceptDone
<1>t. /\ t.phase = "open" /\ t.credit = r.credit /\ t.reserved = r.reserved /\ t.held = r.held
      /\ t.rcredit = r.rcredit /\ t.buf = r.buf
      /\ t.leof = r.leof /\ t.reof = r.reof /\ t.closed = r.closed /\ t.reset = r.reset
      /\ t.sent = r.sent /\ t.recvd = r.recvd /\ t.rd = r.rd
      /\ t.credited = r.credited /\ t.sawEof = r.sawEof
  BY <1>1 DEF Stream
<1> HIDE DEF t, f
<1>4. Turns(r, t, was, was)
  <2>1. Moves(r, t)
    <3>1. r.rd \in Nat
      BY <1>1 DEF Stream
    <3> QED
      BY <1>t, <1>3, <3>1 DEF Moves
  <2>2. LocalOK(t, was)
    BY <1>1, <1>t, <1>3 DEF LocalOK
  <2> QED
    BY <1>t, <1>3, <2>1, <2>2 DEF Turns
<1>5. t.sent = r.sent /\ (r.phase = "accepting" => Says(r, t, f))
  BY <1>2, <1>t DEF Says, IsFinal, IsRefusal
<1>6. /\ Elsewhere(p, s) /\ st'[p][s] = t
      /\ s \in table'[p] <=> was
  BY <1>1, <1>3, BecomeIs
<1>7. was \in BOOLEAN /\ t.phase # "gone" /\ ~IsRefusal(f)
  BY <1>2, <1>t DEF IsRefusal
<1>8. \/ wire' = wire /\ r.phase # "accepting"
      \/ \E g \in Frame : g.id = s /\ Send(p, g) /\ Says(r, t, g) /\ ~IsRefusal(g)
  BY <1>2, <1>3, <1>5, <1>7
<1> HIDE DEF r, was
<1> QED
  BY <1>3, <1>4, <1>5, <1>6, <1>7, <1>8, TurnsApp DEF r, was

LEMMA OpenFails ==
    ASSUME Inv, NEW p \in Peers, NEW s \in Ids, AcceptFail(p, s)
    PROVE  AppStep(p, s)
<1> DEFINE r == st[p][s]
           m == MarkClosed(r, TRUE)
           t == [m EXCEPT !.phase = "gone"]
           was == s \in table[p]
           f == OpenResult(s, FALSE)
<1>1. TypeOK /\ r \in Stream /\ LocalOK(r, was) /\ PhaseOK(p, s) /\ r.phase = "accepting"
  BY Now DEF Inv, StreamOK, AcceptFail
<1>2. f \in Frame /\ f.id = s /\ f.kind = "OPEN_RESULT" /\ ~f.ok
  BY FrameType DEF FrameKinds, OpenResult, Control
<1>3. ~r.reof /\ ~r.closed
  <2>1. ~OwnId(p, s)
    BY <1>1 DEF PhaseOK
  <2> QED
    BY <1>1, <2>1 DEF PhaseOK, AnswerOK, LocalOK
<1>4. RemoteClose(r) = m
  BY <1>3 DEF RemoteClose
<1>5. Finish(p, s, t, KeptAfterClose(t)) /\ Send(p, f) /\ UNCHANGED <<nextId, highest, err>>
  BY <1>4 DEF AcceptFail
<1>6. /\ m \in Stream
      /\ m.closed /\ m.reof /\ m.reserved = 0
      /\ m.held = r.held /\ m.leof = r.leof
      /\ m.sent = r.sent /\ m.recvd = r.recvd /\ m.rd = r.rd
      /\ m.credited = r.credited /\ m.sawEof = r.sawEof
      /\ m.buf = 0 /\ m.rcredit = Window
  BY <1>1, <1>3, ClosedIs
<1> HIDE DEF m
<1>7. /\ t.phase = "gone"
      /\ t.closed /\ t.reof /\ t.reserved = 0
      /\ t.held = r.held /\ t.leof = r.leof
      /\ t.sent = r.sent /\ t.recvd = r.recvd /\ t.rd = r.rd
      /\ t.credited = r.credited /\ t.sawEof = r.sawEof
      /\ t.buf = 0 /\ t.rcredit = Window
  BY <1>6 DEF Stream
<1> HIDE DEF t, f
<1>8. KeptAfterClose(t) = FALSE
  BY <1>7 DEF KeptAfterClose
<1>9. Turns(r, t, was, FALSE)
  <2>1. r.rd \in Nat /\ r.buf \in Nat /\ r.recvd \in Nat
    BY <1>1 DEF Stream
  <2>2. LocalOK(t, FALSE)
    BY <1>1, <1>3, <1>7, <2>1 DEF LocalOK
  <2>3. Moves(r, t)
    BY <1>1, <1>7, <2>1 DEF Moves
  <2> QED
    BY <1>7, <2>2, <2>3 DEF Turns
<1>10. Says(r, t, f)
  BY <1>1, <1>2, <1>7 DEF Says, IsFinal, IsRefusal
<1>11. /\ Elsewhere(p, s) /\ st'[p][s] = t
       /\ s \in table'[p] <=> FALSE
  <2>1. Finish(p, s, t, FALSE)
    BY <1>5, <1>8, Zenon
  <2> QED
    BY <1>1, <2>1, FinishIs
<1> QED
  BY <1>2, <1>5, <1>9, <1>10, <1>11, TurnsApp

LEMMA WriteSends ==
    ASSUME Inv, NEW p \in Peers, NEW s \in Ids,
           WriteResume(p, s) \/ (\E n \in 1..Chunk : WriteChunk(p, s, n)) \/ WriteEof(p, s)
    PROVE  AppStep(p, s)
<1> DEFINE r == st[p][s]
           was == s \in table[p]
<1>1. /\ TypeOK /\ r \in Stream /\ LocalOK(r, was)
      /\ UNCHANGED <<nextId, highest, table, err>>
  BY Now DEF Inv, StreamOK, WriteResume, WriteChunk, WriteEof
<1>b. was \in BOOLEAN
  OBVIOUS
<1>n. /\ r.reserved \in Nat /\ r.sent \in Nat /\ r.credit \in Nat /\ r.held \in Nat
      /\ r.credited \in Nat
  BY <1>1 DEF Stream
<1>3. ASSUME NEW n \in Nat \ {0}, NEW c \in Stream,
             SendData(p, s, n, c), r.phase = "open", ~r.leof, ~r.closed,
             c.credit + n + r.reserved = Window, c.held = 0,
             c = [r EXCEPT !.credit = c.credit, !.held = 0]
      PROVE  AppStep(p, s)
  <2> DEFINE reserved == r.reserved + n
             sent == r.sent + n
             t == [c EXCEPT !.reserved = reserved, !.sent = sent]
             f == Span("DATA", s, r.sent, n)
  <2>1. reserved \in Nat /\ sent \in Nat
    BY <1>n
  <2>2. c.reserved = r.reserved /\ c.sent = r.sent
    BY <1>1, <1>3 DEF Stream
  <2>3. Become(p, s, t) /\ Send(p, f)
    BY <1>3, <2>2 DEF SendData
  <2>4. f \in Frame /\ f.id = s /\ f.kind = "DATA" /\ f.from = r.sent /\ f.upto = sent
    <3>1. f \in Frame
      BY <1>n, FrameType DEF FrameKinds
    <3> QED
      BY <3>1 DEF Span, Control
  <2> HIDE DEF reserved, sent, f
  <2>5. /\ t.credit + t.held + t.reserved = Window /\ t.held = 0
        /\ t.reserved = reserved /\ t.sent = sent
        /\ t.phase = r.phase /\ t.rcredit = r.rcredit /\ t.buf = r.buf
        /\ t.leof = r.leof /\ t.reof = r.reof /\ t.closed = r.closed /\ t.reset = r.reset
        /\ t.recvd = r.recvd /\ t.rd = r.rd /\ t.credited = r.credited /\ t.sawEof = r.sawEof
    <3>1. /\ t.credit = c.credit /\ t.held = 0 /\ t.reserved = reserved /\ t.sent = sent
          /\ t.phase = r.phase /\ t.rcredit = r.rcredit /\ t.buf = r.buf
          /\ t.leof = r.leof /\ t.reof = r.reof /\ t.closed = r.closed /\ t.reset = r.reset
          /\ t.recvd = r.recvd /\ t.rd = r.rd /\ t.credited = r.credited /\ t.sawEof = r.sawEof
      BY <1>1, <1>3 DEF Stream
    <3>2. c.credit \in Nat
      BY <1>3 DEF Stream
    <3> QED
      BY <1>3, <1>n, <3>1, <3>2 DEF reserved
  <2> HIDE DEF t
  <2>6. Turns(r, t, was, was)
    <3>1. /\ reserved + r.credited = sent /\ r.credited <= sent /\ sent <= r.credited + Window
          /\ r.sent < sent
      <4>1. c.credit \in Nat /\ r.reserved + r.credited = r.sent
        BY <1>1, <1>3 DEF Stream, LocalOK
      <4> QED
        BY <1>3, <1>n, <4>1 DEF reserved, sent
    <3>2. LocalOK(t, was)
      BY <1>1, <1>3, <2>5, <3>1 DEF LocalOK
    <3>3. Moves(r, t)
      <4>1. r.rd \in Nat
        BY <1>1 DEF Stream
      <4> QED
        BY <1>3, <2>5, <4>1 DEF Moves
    <3> QED
      BY <1>3, <2>5, <3>2, <3>3 DEF Turns
  <2>7. Says(r, t, f)
    <3>1. r.sent < sent
      BY <1>n DEF sent
    <3> QED
      BY <1>3, <2>4, <2>5, <3>1 DEF Says, IsFinal, IsRefusal
  <2>8. /\ Elsewhere(p, s) /\ st'[p][s] = t
        /\ s \in table'[p] <=> was
    BY <1>1, <2>3, BecomeIs
  <2> QED
    BY <1>1, <1>b, <2>3, <2>4, <2>6, <2>7, <2>8, TurnsApp DEF IsRefusal
<1>4. ASSUME NEW n \in 1..Chunk, WriteChunk(p, s, n) PROVE AppStep(p, s)
  <2> DEFINE credit == r.credit - n
             c == [r EXCEPT !.credit = credit]
  <2>1. /\ r.phase = "open" /\ ~r.leof /\ ~r.closed /\ r.held = 0
        /\ n <= r.credit /\ n \in Nat \ {0} /\ SendData(p, s, n, c)
    BY <1>4 DEF WriteChunk, Sendable, Writable
  <2>2. credit \in Nat /\ credit + n + r.reserved = Window
    BY <1>1, <1>n, <2>1 DEF LocalOK
  <2> HIDE DEF credit
  <2>3. c \in Stream /\ c.credit = credit /\ c.held = 0 /\ c = [r EXCEPT !.credit = c.credit, !.held = 0]
    BY <1>1, <2>1, <2>2 DEF Stream
  <2> HIDE DEF c
  <2> QED
    BY <1>3, <2>1, <2>2, <2>3
<1>5. CASE WriteResume(p, s)
  <2> DEFINE n == r.held
             c == [r EXCEPT !.held = 0]
  <2>1. /\ n > 0 /\ ~r.closed /\ SendData(p, s, n, c)
    BY <1>5 DEF WriteResume
  <2>2. /\ n \in Nat \ {0} /\ ~r.leof /\ r.phase = "open" /\ r.credit + n + r.reserved = Window
    BY <1>1, <1>n, <2>1 DEF LocalOK
  <2>3. c \in Stream /\ c.credit = r.credit /\ c.held = 0 /\ c = [r EXCEPT !.credit = c.credit, !.held = 0]
    BY <1>1 DEF Stream
  <2> HIDE DEF c, n
  <2> QED
    BY <1>3, <2>1, <2>2, <2>3
<1>6. CASE WriteEof(p, s)
  <2> DEFINE t == [r EXCEPT !.leof = TRUE]
             f == Control("HALF_CLOSE", s)
  <2>1. /\ r.phase = "open" /\ ~r.leof /\ ~r.closed /\ r.held = 0
        /\ Become(p, s, t) /\ Send(p, f)
    BY <1>6 DEF WriteEof, Writable
  <2>2. f \in Frame /\ f.id = s /\ f.kind = "HALF_CLOSE"
    BY FrameType DEF FrameKinds, Control
  <2>3. /\ t.phase = r.phase /\ t.credit = r.credit /\ t.reserved = r.reserved /\ t.held = 0
        /\ t.rcredit = r.rcredit /\ t.buf = r.buf
        /\ t.leof /\ t.reof = r.reof /\ t.closed = r.closed /\ t.reset = r.reset
        /\ t.sent = r.sent /\ t.recvd = r.recvd /\ t.rd = r.rd
        /\ t.credited = r.credited /\ t.sawEof = r.sawEof
    BY <1>1, <2>1 DEF Stream
  <2> HIDE DEF t, f
  <2>4. Turns(r, t, was, was)
    <3>1. LocalOK(t, was)
      BY <1>1, <1>n, <2>1, <2>3 DEF LocalOK
    <3>2. Moves(r, t)
      <4>1. r.rd \in Nat
        BY <1>1 DEF Stream
      <4> QED
        BY <2>1, <2>3, <4>1 DEF Moves
    <3> QED
      BY <2>1, <2>3, <3>1, <3>2 DEF Turns
  <2>5. Says(r, t, f)
    <3>1. r.phase = "open" /\ t.phase = "open" /\ f.kind = "HALF_CLOSE" /\ t.leof /\ t.sent = r.sent
      BY <2>1, <2>2, <2>3
    <3> QED
      BY <3>1 DEF Says, IsFinal, IsRefusal
  <2>6. /\ Elsewhere(p, s) /\ st'[p][s] = t
        /\ s \in table'[p] <=> was
    BY <1>1, <2>1, BecomeIs
  <2>7. /\ UNCHANGED <<nextId, highest, err>>
        /\ f.id = s /\ Send(p, f) /\ Says(r, t, f) /\ ~IsRefusal(f)
    BY <1>1, <2>1, <2>2, <2>5 DEF IsRefusal
  <2> QED
    BY <1>b, <2>2, <2>4, <2>6, <2>7, TurnsApp
<1> QED
  BY <1>4, <1>5, <1>6

LEMMA WriteWaits ==
    ASSUME Inv, NEW p \in Peers, NEW s \in Ids,
           WriteAbort(p, s) \/ \E n \in 1..Chunk : WriteHold(p, s, n)
    PROVE  AppStep(p, s)
<1> DEFINE r == st[p][s]
           was == s \in table[p]
<1>1. /\ TypeOK /\ r \in Stream /\ LocalOK(r, was)
      /\ UNCHANGED <<nextId, highest, err>> /\ table' = table /\ wire' = wire
  BY Now DEF Inv, StreamOK, WriteAbort, WriteHold
<1>b. was \in BOOLEAN
  OBVIOUS
<1>n. r.reserved \in Nat /\ r.credit \in Nat /\ r.held \in Nat /\ r.rd \in Nat
  BY <1>1 DEF Stream
<1>2. ASSUME NEW credit \in Nat, NEW held \in Nat,
             r.phase \in {"open", "gone"}, held > 0 => r.phase = "open" /\ ~r.leof,
             ~r.closed => credit + held + r.reserved = Window,
             Become(p, s, [r EXCEPT !.credit = credit, !.held = held])
      PROVE  AppStep(p, s)
  <2> DEFINE t == [r EXCEPT !.credit = credit, !.held = held]
  <2>1. /\ t.phase = r.phase /\ t.credit = credit /\ t.reserved = r.reserved /\ t.held = held
        /\ t.rcredit = r.rcredit /\ t.buf = r.buf
        /\ t.leof = r.leof /\ t.reof = r.reof /\ t.closed = r.closed /\ t.reset = r.reset
        /\ t.sent = r.sent /\ t.recvd = r.recvd /\ t.rd = r.rd
        /\ t.credited = r.credited /\ t.sawEof = r.sawEof
    BY <1>1 DEF Stream
  <2>2. Become(p, s, t)
    BY <1>2
  <2> HIDE DEF t
  <2>3. Turns(r, t, was, was)
    <3>1. LocalOK(t, was)
      BY <1>1, <1>2, <2>1 DEF LocalOK
    <3>2. Moves(r, t)
      BY <1>2, <1>n, <2>1 DEF Moves
    <3> QED
      BY <1>2, <2>1, <3>1, <3>2 DEF Turns
  <2>4. /\ Elsewhere(p, s) /\ st'[p][s] = t
        /\ s \in table'[p] <=> was
    BY <1>1, <2>2, BecomeIs
  <2>5. /\ UNCHANGED <<nextId, highest, err>>
        /\ wire' = wire /\ r.phase # "accepting" /\ t.sent = r.sent
        /\ t.phase = "gone" => r.phase = "gone"
    BY <1>1, <1>2, <2>1
  <2> QED
    BY <1>b, <2>3, <2>4, <2>5, TurnsApp
<1>3. ASSUME NEW n \in 1..Chunk, WriteHold(p, s, n) PROVE AppStep(p, s)
  <2> DEFINE credit == r.credit - n
  <2>1. /\ r.phase = "open" /\ ~r.leof /\ ~r.closed /\ r.held = 0
        /\ n <= r.credit /\ n \in Nat \ {0}
        /\ Become(p, s, [r EXCEPT !.credit = credit, !.held = n])
    <3>1. /\ r.phase = "open" /\ ~r.leof /\ ~r.closed /\ r.held = 0 /\ n <= r.credit
          /\ Become(p, s, [r EXCEPT !.credit = credit, !.held = n])
      BY <1>3, Zenon DEF WriteHold, Sendable, Writable
    <3> QED
      BY <3>1
  <2>2. credit \in Nat /\ credit + n + r.reserved = Window
    BY <1>1, <1>n, <2>1 DEF LocalOK
  <2> HIDE DEF credit
  <2> QED
    BY <1>2, <2>1, <2>2
<1>4. CASE WriteAbort(p, s)
  <2> DEFINE credit == IF r.closed THEN r.credit ELSE r.credit + r.held
             held == 0
  <2>1. r.held > 0 /\ Become(p, s, [r EXCEPT !.credit = credit, !.held = held])
    <3>1. r.held > 0 /\ Become(p, s, [r EXCEPT !.held = held, !.credit = credit])
      BY <1>4 DEF WriteAbort
    <3>2. [r EXCEPT !.held = held, !.credit = credit] = [r EXCEPT !.credit = credit, !.held = held]
      BY <1>1 DEF Stream
    <3> QED
      BY <3>1, <3>2
  <2>2. credit \in Nat /\ (~r.closed => credit + held + r.reserved = Window)
    BY <1>1, <1>n DEF LocalOK
  <2>3. r.phase \in {"open", "gone"} /\ held \in Nat /\ ~(held > 0)
    BY <1>1, <2>1 DEF LocalOK
  <2> HIDE DEF credit, held
  <2> QED
    BY <1>2, <2>1, <2>2, <2>3
<1> QED
  BY <1>3, <1>4

LEMMA Reads ==
    ASSUME Inv, NEW p \in Peers, NEW s \in Ids, NEW n \in 1..Window, Read(p, s, n)
    PROVE  AppStep(p, s)
<1> DEFINE r == st[p][s]
           was == s \in table[p]
           buf == r.buf - n
           rcredit == r.rcredit + n
           rd == r.rd + n
           t == [r EXCEPT !.buf = buf, !.rcredit = rcredit, !.rd = rd]
           f == Span("WINDOW_UPDATE", s, r.rd, n)
           here == ~(t.closed /\ t.buf = 0)
<1>1. /\ TypeOK /\ r \in Stream /\ LocalOK(r, was)
      /\ UNCHANGED <<nextId, highest, err>>
      /\ r.phase = "open" /\ n <= r.buf
      /\ Finish(p, s, t, here)
      /\ IF t.closed THEN wire' = wire ELSE Send(p, f)
  BY Now DEF Inv, StreamOK, Read
<1>n. /\ n \in Nat \ {0} /\ r.rd \in Nat /\ r.buf \in Nat /\ r.rcredit \in Nat /\ r.recvd \in Nat
      /\ buf \in Nat /\ rcredit \in Nat /\ rd \in Nat /\ r.rd < rd
      /\ rd + buf = r.rd + r.buf /\ rcredit + buf = r.rcredit + r.buf
  BY <1>1 DEF Stream
<1>2. was
  BY <1>1, <1>n DEF LocalOK
<1>3. f \in Frame /\ f.id = s /\ f.kind = "WINDOW_UPDATE" /\ f.from = r.rd /\ f.upto = rd
  <2>1. f \in Frame
    BY <1>n, FrameType DEF FrameKinds
  <2> QED
    BY <2>1 DEF Span, Control
<1> HIDE DEF buf, rcredit, rd, f
<1>4. /\ t.phase = r.phase /\ t.credit = r.credit /\ t.reserved = r.reserved /\ t.held = r.held
      /\ t.rcredit = rcredit /\ t.buf = buf
      /\ t.leof = r.leof /\ t.reof = r.reof /\ t.closed = r.closed /\ t.reset = r.reset
      /\ t.sent = r.sent /\ t.recvd = r.recvd /\ t.rd = rd
      /\ t.credited = r.credited /\ t.sawEof = r.sawEof
  BY <1>1 DEF Stream
<1>5. here <=> ~(r.closed /\ buf = 0)
  BY <1>4
<1> HIDE DEF t
<1>6. Turns(r, t, was, here)
  <2>1. LocalOK(t, here)
    <3>1. rd + buf = r.recvd /\ rcredit + buf = Window
      BY <1>1, <1>2, <1>n DEF LocalOK
    <3> QED
      BY <1>1, <1>2, <1>4, <1>5, <1>n, <3>1 DEF LocalOK
  <2>2. Moves(r, t)
    BY <1>1, <1>4, <1>n DEF Moves
  <2> QED
    BY <1>1, <1>2, <1>4, <2>1, <2>2 DEF Turns
<1>7. /\ Elsewhere(p, s) /\ st'[p][s] = t
      /\ s \in table'[p] <=> here
  BY <1>1, <1>2, FinishIs
<1>8. Says(r, t, f) /\ ~IsRefusal(f)
  BY <1>1, <1>3, <1>4, <1>n DEF Says, IsFinal, IsRefusal
<1>9. here \in BOOLEAN
  OBVIOUS
<1> HIDE DEF here
<1> QED
  BY <1>1, <1>3, <1>4, <1>6, <1>7, <1>8, <1>9, TurnsApp

LEMMA ReadsEnd ==
    ASSUME Inv, NEW p \in Peers, NEW s \in Ids, ReadEof(p, s) \/ CloseAgain(p, s)
    PROVE  AppStep(p, s)
<1> DEFINE r == st[p][s]
           was == s \in table[p]
<1>1. /\ TypeOK /\ r \in Stream /\ LocalOK(r, was)
      /\ UNCHANGED <<nextId, highest, err>> /\ wire' = wire
      /\ r.phase = "open"
  BY Now DEF Inv, StreamOK, ReadEof, CloseAgain
<1>n. r.rd \in Nat /\ r.buf \in Nat /\ r.recvd \in Nat /\ r.closed \in BOOLEAN /\ r.reset \in BOOLEAN
  BY <1>1 DEF Stream
<1>2. CASE ReadEof(p, s)
  <2> DEFINE saw == ~r.reset
             t == [r EXCEPT !.sawEof = saw]
  <2>1. /\ r.buf = 0 /\ (r.reof \/ r.closed)
        /\ Finish(p, s, t, ~r.closed)
    BY <1>2 DEF ReadEof
  <2>2. /\ t.phase = r.phase /\ t.credit = r.credit /\ t.reserved = r.reserved /\ t.held = r.held
        /\ t.rcredit = r.rcredit /\ t.buf = r.buf
        /\ t.leof = r.leof /\ t.reof = r.reof /\ t.closed = r.closed /\ t.reset = r.reset
        /\ t.sent = r.sent /\ t.recvd = r.recvd /\ t.rd = r.rd
        /\ t.credited = r.credited /\ (t.sawEof => ~r.reset)
    BY <1>1 DEF Stream
  <2> HIDE DEF t
  <2>3. was <=> ~r.closed
    BY <1>1, <2>1 DEF LocalOK
  <2>4. Turns(r, t, was, was)
    <3>1. LocalOK(t, was)
      BY <1>1, <2>2 DEF LocalOK
    <3>2. r.reof
      BY <1>1, <2>1 DEF LocalOK
    <3>3. Moves(r, t)
      BY <1>1, <1>n, <2>1, <2>2, <3>2 DEF Moves
    <3> QED
      BY <1>1, <2>2, <3>1, <3>3 DEF Turns
  <2>5. /\ Elsewhere(p, s) /\ st'[p][s] = t
        /\ s \in table'[p] <=> was
    BY <1>1, <1>n, <2>1, <2>3, FinishIs
  <2>6. was \in BOOLEAN
    OBVIOUS
  <2> QED
    BY <1>1, <2>2, <2>4, <2>5, <2>6, TurnsApp
<1>3. CASE CloseAgain(p, s)
  <2> DEFINE rcredit == IF r.rcredit + r.buf > Window THEN Window ELSE r.rcredit + r.buf
             t == [r EXCEPT !.phase = "gone", !.buf = 0, !.rcredit = rcredit]
  <2>1. r.closed /\ Finish(p, s, t, FALSE)
    BY <1>3 DEF CloseAgain
  <2> HIDE DEF rcredit
  <2>2. /\ t.phase = "gone" /\ t.credit = r.credit /\ t.reserved = r.reserved /\ t.held = r.held
        /\ t.buf = 0
        /\ t.leof = r.leof /\ t.reof = r.reof /\ t.closed = r.closed /\ t.reset = r.reset
        /\ t.sent = r.sent /\ t.recvd = r.recvd /\ t.rd = r.rd
        /\ t.credited = r.credited /\ t.sawEof = r.sawEof
    BY <1>1 DEF Stream
  <2> HIDE DEF t
  <2>3. Turns(r, t, was, FALSE)
    <3>1. LocalOK(t, FALSE)
      BY <1>1, <1>n, <2>1, <2>2 DEF LocalOK
    <3>2. Moves(r, t)
      BY <1>1, <1>n, <2>1, <2>2 DEF Moves
    <3> QED
      BY <2>2, <3>1, <3>2 DEF Turns
  <2>4. /\ Elsewhere(p, s) /\ st'[p][s] = t
        /\ s \in table'[p] <=> FALSE
    BY <1>1, <2>1, FinishIs
  <2>5. Told(p, s)
    BY <1>1, <2>1 DEF Told
  <2> QED
    BY <1>1, <2>2, <2>3, <2>4, <2>5, TurnsApp
<1> QED
  BY <1>2, <1>3

-----------------------------------------------------------------------------
(* The handlers of the frames other than OPEN are such steps.              *)

LEMMA TurnsRecv ==
    ASSUME TypeOK, NEW p \in Peers, NEW s \in Ids, NEW t, NEW here \in BOOLEAN,
           Elsewhere(p, s), st'[p][s] = t, s \in table'[p] <=> here,
           LocalOK(t, here), here => s \in table[p],
           wire[Other(p)] # <<>>, In(p).id = s, In(p).kind # "OPEN", Pop(p),
           UNCHANGED <<nextId, highest>>,
           Up(p), \A x \in Peers : Up(x)' => Up(x),
           Takes(st[p][s], t, In(p), s \in table[p], ~Up(p)')
    PROVE  RecvStep(p, s)
<1>1. LocalOK(st'[p][s], s \in table'[p])
  BY DEF LocalOK
<1>2. Only(p, s)
  BY <1>1 DEF Only, Elsewhere
<1> QED
  BY <1>2 DEF RecvStep, In, Pop

\* The facts about the frame that arrives.
LEMMA Arrival ==
    ASSUME Inv, NEW p \in Peers, NEW kinds, Arrives(p, kinds)
    PROVE  LET h == In(p)
               r == st[p][h.id] IN
           /\ TypeOK /\ h \in Frame /\ h.id \in Ids /\ h.kind \in kinds
           /\ wire[Other(p)] # <<>> /\ Up(p)
           /\ r \in Stream /\ LocalOK(r, h.id \in table[p])
<1>1. TypeOK /\ wire[Other(p)] # <<>> /\ Up(p) /\ In(p).kind \in kinds
  BY DEF Inv, Arrives
<1>2. In(p) \in Frame /\ In(p).id \in Ids
  BY <1>1, InType DEF Frame
<1>3. st[p][In(p).id] \in Stream /\ LocalOK(st[p][In(p).id], In(p).id \in table[p])
  BY <1>2, Now DEF StreamOK
<1> QED
  BY <1>1, <1>2, <1>3

LEMMA RecvDropped ==
    ASSUME Inv, NEW p \in Peers, Arrives(p, FrameKinds), In(p).kind # "OPEN",
           ~(st[p][In(p).id].phase = "opening" /\ In(p).kind = "OPEN_RESULT"),
           In(p).kind = "CLOSE" => In(p).id \notin table[p],
           \/ Ignore(p) /\ (In(p).id \notin table[p] \/ In(p).kind = "OPEN_RESULT")
           \/ \E why \in Errors \ {"none"} : Fail(p, why)
    PROVE  RecvStep(p, In(p).id)
<1> DEFINE h == In(p)
           s == h.id
           r == st[p][s]
<1>1. /\ TypeOK /\ s \in Ids /\ wire[Other(p)] # <<>> /\ Up(p)
      /\ r \in Stream /\ LocalOK(r, s \in table[p])
  BY Arrival
<1>2. Pop(p) /\ UNCHANGED <<nextId, highest, table, st>>
  BY DEF Ignore, Fail
<1>3. /\ \A x \in Peers : Up(x)' => Up(x)
      /\ Fail(p, "none") \/ ~Up(p)' \/ s \notin table[p] \/ h.kind = "OPEN_RESULT"
  BY <1>1 DEF Ignore, Fail, Up, TypeOK
<1>4. ~Up(p)' \/ s \notin table[p] \/ h.kind = "OPEN_RESULT"
  BY <1>1 DEF Ignore, Fail, Up, TypeOK
<1> HIDE DEF h
<1>5. Takes(r, r, h, s \in table[p], ~Up(p)')
  BY <1>4 DEF Takes, h
<1>6. Elsewhere(p, s) /\ st'[p][s] = r /\ (s \in table'[p] <=> s \in table[p])
  BY <1>2 DEF Elsewhere
<1>7. (s \in table[p]) \in BOOLEAN
  OBVIOUS
<1> QED
  BY <1>1, <1>2, <1>3, <1>5, <1>6, <1>7, TurnsRecv DEF h

LEMMA RecvResults ==
    ASSUME Inv, NEW p \in Peers, RecvOpenResult(p)
    PROVE  RecvStep(p, In(p).id)
<1> DEFINE h == In(p)
           s == h.id
           r == st[p][s]
           phase == IF h.ok THEN "granted" ELSE "refused"
           t == [r EXCEPT !.phase = phase]
           was == s \in table[p]
<1>1. Arrives(p, {"OPEN_RESULT"}) /\ Arrives(p, FrameKinds) /\ h.kind = "OPEN_RESULT"
  BY DEF RecvOpenResult, Arrives, FrameKinds
<1>2. /\ TypeOK /\ s \in Ids /\ wire[Other(p)] # <<>> /\ Up(p)
      /\ r \in Stream /\ LocalOK(r, was)
  BY <1>1, Arrival
<1>3. CASE r.phase # "opening" /\ (Ignore(p) \/ Fail(p, "unexpected"))
  BY <1>1, <1>3, RecvDropped DEF Errors
<1>4. CASE /\ r.phase = "opening"
           /\ Become(p, s, t)
           /\ Pop(p)
           /\ UNCHANGED <<nextId, highest, table, incoming, outgoing, err>>
  <2>1. /\ t.phase = phase /\ t.credit = r.credit /\ t.reserved = r.reserved /\ t.held = r.held
        /\ t.rcredit = r.rcredit /\ t.buf = r.buf
        /\ t.leof = r.leof /\ t.reof = r.reof /\ t.closed = r.closed /\ t.reset = r.reset
        /\ t.sent = r.sent /\ t.recvd = r.recvd /\ t.rd = r.rd
        /\ t.credited = r.credited /\ t.sawEof = r.sawEof
    BY <1>2 DEF Stream
  <2>2. Become(p, s, t)
    BY <1>4
  <2> HIDE DEF t
  <2>3. phase \notin {"unused", "gone", "opening"}
    OBVIOUS
  <2>4. LocalOK(t, was)
    BY <1>2, <1>4, <2>1, <2>3 DEF LocalOK
  <2>5. Takes(r, t, h, was, ~Up(p)')
    BY <1>1, <1>4, <2>1 DEF Takes
  <2>6. /\ Elsewhere(p, s) /\ st'[p][s] = t
        /\ s \in table'[p] <=> was
    BY <1>2, <1>4, <2>2, BecomeIs
  <2>7. was \in BOOLEAN /\ Pop(p) /\ UNCHANGED <<nextId, highest>> /\ \A x \in Peers : Up(x)' => Up(x)
    BY <1>4 DEF Up
  <2> HIDE DEF h, was
  <2> QED
    BY <1>1, <1>2, <2>4, <2>5, <2>6, <2>7, TurnsRecv DEF h, was
<1> QED
  BY <1>3, <1>4 DEF RecvOpenResult

LEMMA RecvLates ==
    ASSUME Inv, NEW p \in Peers, RecvLate(p)
    PROVE  RecvStep(p, In(p).id)
<1>1. /\ Arrives(p, FrameKinds) /\ In(p).kind \notin {"OPEN", "OPEN_RESULT"} /\ In(p).id \notin table[p]
      /\ \/ Ignore(p) /\ In(p).id \notin table[p]
         \/ Fail(p, "unknown")
  BY DEF RecvLate, Arrives, FrameKinds
<1> QED
  BY <1>1, RecvDropped DEF Errors

\* What the handlers make of a stream, as far as the invariant is concerned.
LEMMA DataIs ==
    ASSUME NEW r \in Stream, NEW n \in Nat, LocalOK(r, TRUE), ~r.closed, ~(n > r.rcredit)
    PROVE  LET t == [r EXCEPT !.rcredit = @ - n, !.buf = @ + n, !.recvd = @ + n] IN
           /\ LocalOK(t, TRUE)
           /\ t.phase = r.phase /\ t.recvd = r.recvd + n
           /\ t.leof = r.leof /\ t.reof = r.reof /\ t.closed = r.closed
           /\ t.sent = r.sent /\ t.rd = r.rd
           /\ t.credited = r.credited /\ t.sawEof = r.sawEof
<1> DEFINE rcredit == r.rcredit - n
           buf == r.buf + n
           recvd == r.recvd + n
           t == [r EXCEPT !.rcredit = rcredit, !.buf = buf, !.recvd = recvd]
<1>1. r.rcredit \in Nat /\ r.buf \in Nat /\ r.recvd \in Nat /\ r.rd \in Nat
  BY DEF Stream
<1>2. rcredit \in Nat /\ buf \in Nat /\ recvd \in Nat
  BY <1>1
<1>3. rcredit + buf = Window /\ r.rd + buf = recvd
  BY <1>1 DEF LocalOK
<1>e. recvd = r.recvd + n
  OBVIOUS
<1> HIDE DEF rcredit, buf, recvd
<1>4. /\ t.phase = r.phase /\ t.credit = r.credit /\ t.reserved = r.reserved /\ t.held = r.held
      /\ t.rcredit = rcredit /\ t.buf = buf
      /\ t.leof = r.leof /\ t.reof = r.reof /\ t.closed = r.closed /\ t.reset = r.reset
      /\ t.sent = r.sent /\ t.recvd = recvd /\ t.rd = r.rd
      /\ t.credited = r.credited /\ t.sawEof = r.sawEof
  BY DEF Stream
<1> HIDE DEF t
<1>5. LocalOK(t, TRUE)
  BY <1>1, <1>2, <1>3, <1>4 DEF LocalOK
<1>6. /\ LocalOK(t, TRUE)
      /\ t.phase = r.phase /\ t.recvd = r.recvd + n
      /\ t.leof = r.leof /\ t.reof = r.reof /\ t.closed = r.closed
      /\ t.sent = r.sent /\ t.rd = r.rd
      /\ t.credited = r.credited /\ t.sawEof = r.sawEof
  BY <1>4, <1>5, <1>e
<1> QED
  BY <1>6 DEF t, rcredit, buf, recvd

LEMMA UpdateIs ==
    ASSUME NEW r \in Stream, NEW n \in Nat, LocalOK(r, TRUE), n # 0, ~(n > r.reserved)
    PROVE  LET t == [r EXCEPT !.credit = @ + n, !.reserved = @ - n, !.credited = @ + n] IN
           /\ LocalOK(t, TRUE)
           /\ t.phase = r.phase /\ t.recvd = r.recvd /\ t.buf = r.buf
           /\ t.leof = r.leof /\ t.reof = r.reof /\ t.closed = r.closed /\ t.reset = r.reset
           /\ t.sent = r.sent /\ t.rd = r.rd
           /\ t.credited = r.credited + n /\ t.sawEof = r.sawEof
<1> DEFINE credit == r.credit + n
           reserved == r.reserved - n
           credited == r.credited + n
           t == [r EXCEPT !.credit = credit, !.reserved = reserved, !.credited = credited]
<1>1. r.credit \in Nat /\ r.reserved \in Nat /\ r.credited \in Nat /\ r.sent \in Nat /\ r.held \in Nat
  BY DEF Stream
<1>2. credit \in Nat /\ reserved \in Nat /\ credited \in Nat
  BY <1>1
<1>3. ~r.closed
  BY <1>1 DEF LocalOK
<1>4. /\ credit + r.held + reserved = Window /\ reserved + credited = r.sent
      /\ credited <= r.sent /\ r.sent <= credited + Window
  BY <1>1, <1>3 DEF LocalOK
<1>e. credited = r.credited + n
  OBVIOUS
<1> HIDE DEF credit, reserved, credited
<1>5. /\ t.phase = r.phase /\ t.credit = credit /\ t.reserved = reserved /\ t.held = r.held
      /\ t.rcredit = r.rcredit /\ t.buf = r.buf
      /\ t.leof = r.leof /\ t.reof = r.reof /\ t.closed = r.closed /\ t.reset = r.reset
      /\ t.sent = r.sent /\ t.recvd = r.recvd /\ t.rd = r.rd
      /\ t.credited = credited /\ t.sawEof = r.sawEof
  BY DEF Stream
<1> HIDE DEF t
<1>6. LocalOK(t, TRUE)
  BY <1>1, <1>3, <1>4, <1>5 DEF LocalOK
<1>7. /\ LocalOK(t, TRUE)
      /\ t.phase = r.phase /\ t.recvd = r.recvd /\ t.buf = r.buf
      /\ t.leof = r.leof /\ t.reof = r.reof /\ t.closed = r.closed /\ t.reset = r.reset
      /\ t.sent = r.sent /\ t.rd = r.rd
      /\ t.credited = r.credited + n /\ t.sawEof = r.sawEof
  BY <1>5, <1>6, <1>e
<1> QED
  BY <1>7 DEF t, credit, reserved, credited

LEMMA RecvDatas ==
    ASSUME Inv, NEW p \in Peers, RecvData(p)
    PROVE  RecvStep(p, In(p).id)
<1> DEFINE h == In(p)
           s == h.id
           r == st[p][s]
           n == Length(h)
           t == [r EXCEPT !.rcredit = @ - n, !.buf = @ + n, !.recvd = @ + n]
<1>1. Arrives(p, FrameKinds) /\ h.kind = "DATA" /\ s \in table[p]
  BY DEF RecvData, Arrives, FrameKinds
<1>2. /\ TypeOK /\ h \in Frame /\ s \in Ids /\ wire[Other(p)] # <<>> /\ Up(p)
      /\ r \in Stream /\ LocalOK(r, s \in table[p])
  BY <1>1, Arrival
<1>3. CASE Fail(p, "closure") \/ Fail(p, "window") \/ Fail(p, "aggregate")
  BY <1>1, <1>3, RecvDropped DEF Errors
<1>4. CASE /\ ~r.reof /\ ~r.closed /\ ~(n > r.rcredit)
           /\ Become(p, s, t)
           /\ Pop(p)
           /\ UNCHANGED <<nextId, highest, table, err>>
  <2>1. n \in Nat /\ LocalOK(r, TRUE)
    BY <1>1, <1>2 DEF Frame, Length, LocalOK
  <2>2. /\ LocalOK(t, TRUE)
        /\ t.phase = r.phase /\ t.recvd = r.recvd + n
        /\ t.leof = r.leof /\ t.reof = r.reof /\ t.closed = r.closed
        /\ t.sent = r.sent /\ t.rd = r.rd
        /\ t.credited = r.credited /\ t.sawEof = r.sawEof
    <3> HIDE DEF n, r
    <3> QED
      BY <1>2, <1>4, <2>1, DataIs
  <2>3. Become(p, s, t)
    BY <1>4
  <2> HIDE DEF t
  <2>4. Takes(r, t, h, s \in table[p], ~Up(p)')
    <3>1. t.recvd = r.recvd + Length(h)
      BY <2>2 DEF n
    <3>2. h.kind = "DATA" /\ ~r.reof
      BY <1>1, <1>4
    <3>3. Up(p)'
      BY <1>2, <1>4 DEF Up
    <3> HIDE DEF h, s, r
    <3> QED
      BY <1>1, <2>2, <3>1, <3>2, <3>3 DEF Takes
  <2>5. /\ Elsewhere(p, s) /\ st'[p][s] = t
        /\ s \in table'[p] <=> TRUE
    BY <1>1, <1>2, <1>4, <2>3, BecomeIs
  <2>6. Pop(p) /\ UNCHANGED <<nextId, highest>> /\ \A x \in Peers : Up(x)' => Up(x)
    BY <1>4 DEF Up
  <2> HIDE DEF h
  <2> QED
    BY <1>1, <1>2, <2>2, <2>4, <2>5, <2>6, TurnsRecv DEF h
<1> QED
  BY <1>3, <1>4, Zenon DEF RecvData

LEMMA RecvUpdates ==
    ASSUME Inv, NEW p \in Peers, RecvWindowUpdate(p)
    PROVE  RecvStep(p, In(p).id)
<1> DEFINE h == In(p)
           s == h.id
           r == st[p][s]
           n == Length(h)
           t == [r EXCEPT !.credit = @ + n, !.reserved = @ - n, !.credited = @ + n]
<1>1. Arrives(p, FrameKinds) /\ h.kind = "WINDOW_UPDATE" /\ s \in table[p]
  BY DEF RecvWindowUpdate, Arrives, FrameKinds
<1>2. /\ TypeOK /\ h \in Frame /\ s \in Ids /\ wire[Other(p)] # <<>> /\ Up(p)
      /\ r \in Stream /\ LocalOK(r, s \in table[p])
  BY <1>1, Arrival
<1>3. CASE Fail(p, "credit")
  BY <1>1, <1>3, RecvDropped DEF Errors
<1>4. CASE /\ n # 0 /\ ~(n > r.reserved)
           /\ Finish(p, s, t, TRUE)
           /\ Pop(p)
           /\ UNCHANGED <<nextId, highest, err>>
  <2>1. n \in Nat /\ LocalOK(r, TRUE)
    BY <1>1, <1>2 DEF Frame, Length, LocalOK
  <2>2. /\ LocalOK(t, TRUE)
        /\ t.phase = r.phase /\ t.recvd = r.recvd /\ t.buf = r.buf
        /\ t.leof = r.leof /\ t.reof = r.reof /\ t.closed = r.closed /\ t.reset = r.reset
        /\ t.sent = r.sent /\ t.rd = r.rd
        /\ t.credited = r.credited + n /\ t.sawEof = r.sawEof
    <3> HIDE DEF n, r
    <3> QED
      BY <1>2, <1>4, <2>1, UpdateIs
  <2>3. Finish(p, s, t, TRUE)
    BY <1>4
  <2> HIDE DEF t
  <2>4. Takes(r, t, h, s \in table[p], ~Up(p)')
    <3>1. t.credited = r.credited + Length(h)
      BY <2>2 DEF n
    <3>2. Up(p)'
      BY <1>2, <1>4 DEF Up
    <3>3. h.kind = "WINDOW_UPDATE" /\ s \in table[p]
      BY <1>1
    <3> HIDE DEF h, s, r
    <3> QED
      BY <2>2, <3>1, <3>2, <3>3 DEF Takes
  <2>5. /\ Elsewhere(p, s) /\ st'[p][s] = t
        /\ s \in table'[p] <=> TRUE
    BY <1>1, <1>2, <2>3, FinishIs
  <2>6. Pop(p) /\ UNCHANGED <<nextId, highest>> /\ \A x \in Peers : Up(x)' => Up(x)
    BY <1>4 DEF Up
  <2> HIDE DEF h
  <2> QED
    BY <1>1, <1>2, <2>2, <2>4, <2>5, <2>6, TurnsRecv DEF h
<1> QED
  BY <1>3, <1>4, Zenon DEF RecvWindowUpdate

LEMMA RecvEofs ==
    ASSUME Inv, NEW p \in Peers, RecvHalfClose(p)
    PROVE  RecvStep(p, In(p).id)
<1> DEFINE h == In(p)
           s == h.id
           r == st[p][s]
           t == [r EXCEPT !.reof = TRUE]
<1>1. Arrives(p, FrameKinds) /\ h.kind = "HALF_CLOSE" /\ s \in table[p]
  BY DEF RecvHalfClose, Arrives, FrameKinds
<1>2. /\ TypeOK /\ s \in Ids /\ wire[Other(p)] # <<>> /\ Up(p)
      /\ r \in Stream /\ LocalOK(r, s \in table[p])
  BY <1>1, Arrival
<1>3. /\ t.phase = r.phase /\ t.credit = r.credit /\ t.reserved = r.reserved /\ t.held = r.held
      /\ t.rcredit = r.rcredit /\ t.buf = r.buf
      /\ t.leof = r.leof /\ t.reof /\ t.closed = r.closed /\ t.reset = r.reset
      /\ t.sent = r.sent /\ t.recvd = r.recvd /\ t.rd = r.rd
      /\ t.credited = r.credited /\ t.sawEof = r.sawEof
  BY <1>2 DEF Stream
<1>4. /\ Become(p, s, t) /\ Pop(p) /\ UNCHANGED <<nextId, highest, table, err>>
  BY DEF RecvHalfClose
<1> HIDE DEF t
<1>5. LocalOK(t, TRUE)
  BY <1>1, <1>2, <1>3 DEF LocalOK
<1>6. Takes(r, t, h, s \in table[p], ~Up(p)')
  <2>1. h.kind = "HALF_CLOSE" /\ s \in table[p]
    BY <1>1
  <2> HIDE DEF h, s, r
  <2> QED
    BY <1>3, <2>1 DEF Takes
<1>7. /\ Elsewhere(p, s) /\ st'[p][s] = t
      /\ s \in table'[p] <=> TRUE
  BY <1>1, <1>2, <1>4, BecomeIs
<1>8. \A x \in Peers : Up(x)' => Up(x)
  BY <1>4 DEF Up
<1> HIDE DEF h
<1> QED
  BY <1>1, <1>2, <1>4, <1>5, <1>6, <1>7, <1>8, TurnsRecv DEF h

LEMMA RemoteClosedIs ==
    ASSUME NEW r \in Stream, NEW here, LocalOK(r, here)
    PROVE  LET m == RemoteClose(r) IN
           /\ m \in Stream /\ m.phase = r.phase
           /\ m.closed /\ m.reof /\ m.reserved = 0
           /\ m.held = r.held /\ m.leof = r.leof
           /\ m.sent = r.sent /\ m.recvd = r.recvd /\ m.rd = r.rd
           /\ m.credited = r.credited /\ m.sawEof = r.sawEof
           /\ \/ m.reof = r.reof /\ m.buf = r.buf /\ m.rcredit = r.rcredit /\ m.reset = r.reset
              \/ ~r.closed /\ m.buf = 0 /\ m.rcredit = Window /\ m.reset
<1>1. RemoteClose(r) \in Stream
  BY RemoteCloseType
<1>2. CASE r.closed
  BY <1>1, <1>2 DEF RemoteClose, LocalOK
<1>3. CASE ~r.closed /\ r.reof
  BY <1>1, <1>3 DEF RemoteClose, Stream
<1>4. CASE ~r.closed /\ ~r.reof
  <2>1. RemoteClose(r) = MarkClosed(r, TRUE)
    BY <1>4 DEF RemoteClose
  <2>2. TRUE \in BOOLEAN
    OBVIOUS
  <2> DEFINE m == MarkClosed(r, TRUE)
  <2>3. /\ m \in Stream /\ m.phase = r.phase
        /\ m.closed /\ m.reof /\ m.reserved = 0
        /\ m.held = r.held /\ m.leof = r.leof
        /\ m.sent = r.sent /\ m.recvd = r.recvd /\ m.rd = r.rd
        /\ m.credited = r.credited /\ m.sawEof = r.sawEof
        /\ m.buf = 0 /\ m.rcredit = Window /\ m.reset
    BY <1>4, <2>2, ClosedIs
  <2> HIDE DEF m
  <2> QED
    BY <1>4, <2>1, <2>3 DEF m
<1> QED
  BY <1>2, <1>3, <1>4

LEMMA RecvCloses ==
    ASSUME Inv, NEW p \in Peers, RecvClose(p)
    PROVE  RecvStep(p, In(p).id)
<1> DEFINE h == In(p)
           s == h.id
           r == st[p][s]
           m == RemoteClose(r)
           phase == IF m.phase = "accepting" THEN "gone" ELSE m.phase
           t == [m EXCEPT !.phase = phase]
           keep == KeptAfterClose(m)
<1>1. Arrives(p, FrameKinds) /\ h.kind = "CLOSE" /\ s \in table[p]
  BY DEF RecvClose, Arrives, FrameKinds
<1>2. /\ TypeOK /\ s \in Ids /\ wire[Other(p)] # <<>> /\ Up(p)
      /\ r \in Stream /\ LocalOK(r, s \in table[p])
  BY <1>1, Arrival
<1>3. r.phase # "unused"
  BY <1>1, <1>2 DEF LocalOK
<1>4. /\ m \in Stream /\ m.phase = r.phase
      /\ m.closed /\ m.reof /\ m.reserved = 0
      /\ m.held = r.held /\ m.leof = r.leof
      /\ m.sent = r.sent /\ m.recvd = r.recvd /\ m.rd = r.rd
      /\ m.credited = r.credited /\ m.sawEof = r.sawEof
      /\ \/ m.reof = r.reof /\ m.buf = r.buf /\ m.rcredit = r.rcredit /\ m.reset = r.reset
         \/ ~r.closed /\ m.buf = 0 /\ m.rcredit = Window /\ m.reset
  <2> HIDE DEF r
  <2> QED
    BY <1>2, RemoteClosedIs
<1>5. /\ Finish(p, s, t, keep) /\ Pop(p) /\ UNCHANGED <<nextId, highest, err>>
  BY DEF RecvClose
<1>6. keep <=> m.buf > 0
  BY <1>4 DEF KeptAfterClose
<1>7. keep \in BOOLEAN
  BY DEF KeptAfterClose
<1> HIDE DEF m, keep
<1>8. /\ t.phase = (IF r.phase = "accepting" THEN "gone" ELSE r.phase)
      /\ t.reserved = 0 /\ t.held = r.held
      /\ t.rcredit = m.rcredit /\ t.buf = m.buf
      /\ t.leof = r.leof /\ t.reof /\ t.closed /\ t.reset = m.reset
      /\ t.sent = r.sent /\ t.recvd = r.recvd /\ t.rd = r.rd
      /\ t.credited = r.credited /\ t.sawEof = r.sawEof
  BY <1>4 DEF Stream
<1> HIDE DEF t
<1>9. LocalOK(t, keep)
  <2>1. /\ r.rd \in Nat /\ r.buf \in Nat /\ r.recvd \in Nat /\ r.rcredit \in Nat
        /\ m.buf \in Nat
    BY <1>2, <1>4 DEF Stream
  <2>2. t.rd + t.buf <= t.recvd /\ (keep => t.rd + t.buf = t.recvd /\ t.rcredit + t.buf = Window)
    <3>1. r.rd + r.buf = r.recvd /\ r.rcredit + r.buf = Window
      BY <1>1, <1>2 DEF LocalOK
    <3>2. keep => m.buf # 0
      BY <1>6
    <3> HIDE DEF r
    <3>3. t.rd = r.rd /\ t.buf = m.buf /\ t.recvd = r.recvd /\ t.rcredit = m.rcredit
      BY <1>8
    <3>4. CASE m.buf = r.buf /\ m.rcredit = r.rcredit
      BY <2>1, <3>1, <3>3, <3>4
    <3>5. CASE m.buf = 0
      BY <2>1, <3>1, <3>2, <3>3, <3>5
    <3> QED
      BY <1>4, <3>4, <3>5
  <2>3. ~keep => t.buf = 0
    BY <1>6, <1>8, <2>1
  <2> QED
    BY <1>1, <1>2, <1>3, <1>6, <1>8, <2>1, <2>2, <2>3 DEF LocalOK
<1>10. Takes(r, t, h, s \in table[p], ~Up(p)')
  <2>1. h.kind = "CLOSE" /\ s \in table[p]
    BY <1>1
  <2>2. \/ t.reof = r.reof /\ t.reset = r.reset /\ t.buf = r.buf
        \/ t.reset /\ t.phase \notin {"unused", "accepting"}
    <3>1. CASE m.reof = r.reof /\ m.buf = r.buf /\ m.rcredit = r.rcredit /\ m.reset = r.reset
      <4>1. t.reof = r.reof
        BY <1>2, <1>4, <1>8, <3>1 DEF Stream
      <4> QED
        BY <1>8, <3>1, <4>1
    <3>2. CASE m.reset
      BY <1>3, <1>8, <3>2
    <3> QED
      BY <1>4, <3>1, <3>2
  <2> HIDE DEF h, s, r
  <2> QED
    BY <1>8, <2>1, <2>2 DEF Takes
<1>11. /\ Elsewhere(p, s) /\ st'[p][s] = t
       /\ s \in table'[p] <=> keep
  BY <1>1, <1>2, <1>5, <1>7, FinishIs
<1>12. \A x \in Peers : Up(x)' => Up(x)
  BY <1>5 DEF Up
<1> HIDE DEF h
<1> QED
  BY <1>1, <1>2, <1>5, <1>7, <1>9, <1>10, <1>11, <1>12, TurnsRecv DEF h

\* All of them keep the invariant.
LEMMA RecvOthers ==
    ASSUME Inv, TypeOK', NEW p \in Peers,
           \/ RecvOpenResult(p) \/ RecvLate(p) \/ RecvData(p)
           \/ RecvWindowUpdate(p) \/ RecvHalfClose(p) \/ RecvClose(p)
    PROVE  /\ In(p).id \in Ids /\ RecvStep(p, In(p).id) /\ Inv'
           /\ \A s \in Ids : s # In(p).id => Untouched(s)
<1>1. In(p).id \in Ids
  BY InType DEF RecvOpenResult, RecvLate, RecvData, RecvWindowUpdate, RecvHalfClose, RecvClose,
     Arrives, Frame, Inv
<1>2. RecvStep(p, In(p).id)
  BY RecvResults, RecvLates, RecvDatas, RecvUpdates, RecvEofs, RecvCloses
<1> QED
  BY <1>1, <1>2, RecvKeeps

LEMMA AppActions ==
    ASSUME Inv, NEW p \in Peers, NEW s \in Ids,
           \/ OpenTimeout(p, s) \/ Resume(p, s)
           \/ Write(p, s) \/ WriteResume(p, s) \/ WriteAbort(p, s)
           \/ Reading(p, s) \/ Closing(p, s)
    PROVE  AppStep(p, s)
BY OpenEnds, OpenAnswered, OpenFails, WriteSends, WriteWaits, Reads, ReadsEnd
   DEF Resume, Write, Reading, Closing

-----------------------------------------------------------------------------
(* Opening a stream.                                                       *)

LEMMA FreshLocal ==
    ASSUME NEW phase \in {"opening", "accepting"}
    PROVE  LocalOK(NewStream(phase), TRUE)
BY DEF NewStream, LocalOK

\* Nothing has been said or done about the next ID.
LEMMA FreshId ==
    ASSUME Inv, NEW p \in Peers, nextId[p] \in Ids
    PROVE  LET y == nextId[p]
               q == Other(p) IN
           /\ OwnId(p, y) /\ ~OwnId(q, y) /\ ~Stale(p, y) /\ ~Stale(q, y)
           /\ st[p][y] = NewStream("unused") /\ st[q][y] = NewStream("unused")
           /\ y \notin table[p] /\ y \notin table[q]
           /\ ~Mentions(wire[p], y) /\ ~Mentions(wire[q], y)
<1> DEFINE y == nextId[p]
           q == Other(p)
<1>1. /\ CountersOK(p) /\ StreamOK(p, y) /\ StreamOK(q, y)
      /\ y \in Nat /\ highest[q] \in Nat /\ q \in Peers
  BY Sides DEF Inv, TypeOK
<1>2. OwnId(p, y) /\ ~OwnId(q, y)
  BY <1>1, Sides DEF CountersOK
<1>3. ~Stale(p, y)
  BY <1>1, <1>2 DEF Stale
<1>4. ~Stale(q, y)
  BY <1>1, <1>2 DEF Stale, CountersOK
<1>5. /\ st[p][y].phase = "unused" /\ st[q][y].phase = "unused"
      /\ ~Mentions(wire[p], y) /\ ~Mentions(wire[q], y)
  BY <1>1, <1>3, <1>4 DEF StreamOK, IdOK
<1>6. /\ st[p][y] = NewStream("unused") /\ st[q][y] = NewStream("unused")
      /\ y \notin table[p] /\ y \notin table[q]
  BY <1>1, <1>5 DEF StreamOK, LocalOK
<1> QED
  BY <1>2, <1>3, <1>4, <1>5, <1>6

LEMMA Parity ==
    ASSUME NEW n \in Nat, NEW m \in Nat, m % 2 = 1 <=> n % 2 = 1
    PROVE  /\ m < n + 2 => m < n \/ m = n
           /\ m < n \/ m = n => m < n + 2
<1>1. m # n + 1
  OBVIOUS
<1> QED
  BY <1>1

\* Staleness after a step, by the counters.
LEMMA StaleNext ==
    ASSUME NEW p, NEW s
    PROVE  Stale(p, s)' <=> IF OwnId(p, s) THEN s < nextId'[p] ELSE s <= highest'[p]
BY DEF Stale, OwnId

\* The new stream fits in with the others, and these are left alone.
LEMMA OpenKeeps ==
    ASSUME Inv, TypeOK', NEW p \in Peers, OpenStream(p), NEW y \in Ids, y = nextId[p]
    PROVE  Inv' /\ \A s \in Ids : s # y => Untouched(s)
<1> DEFINE q == Other(p)
           f == Control("OPEN", y)
<1>1. /\ q \in Peers /\ q # p /\ Other(q) = p
      /\ TypeOK /\ y \in Nat
      /\ wire[p] \in Seq(Frame) /\ wire[q] \in Seq(Frame)
      /\ \A x \in Peers : CountersOK(x)
  BY Sides DEF Inv, TypeOK, Ids
<1>2. /\ nextId' = [nextId EXCEPT ![p] = y + 2] /\ highest' = highest /\ err' = err
      /\ table' = [table EXCEPT ![p] = @ \cup {y}]
      /\ Become(p, y, NewStream("opening")) /\ Send(p, f)
  BY DEF OpenStream
<1>3. /\ OwnId(p, y) /\ ~OwnId(q, y) /\ ~Stale(p, y) /\ ~Stale(q, y)
      /\ st[p][y] = NewStream("unused") /\ st[q][y] = NewStream("unused")
      /\ y \notin table[p] /\ y \notin table[q]
      /\ ~Mentions(wire[p], y) /\ ~Mentions(wire[q], y)
  BY <1>1, FreshId
<1>4. f \in Frame /\ f.id = y /\ f.kind = "OPEN"
  BY <1>1, FrameType DEF FrameKinds, Control
<1>5. /\ wire'[p] = Append(wire[p], f) /\ wire'[q] = wire[q]
      /\ st'[p][y] = NewStream("opening") /\ st'[q][y] = NewStream("unused")
      /\ y \in table'[p] /\ y \notin table'[q]
      /\ nextId'[p] = y + 2 /\ nextId'[q] = nextId[q]
      /\ \A x \in Peers, s \in Ids : s # y =>
            st'[x][s] = st[x][s] /\ (s \in table'[x] <=> s \in table[x])
  <2>1. wire'[p] = Append(wire[p], f) /\ wire'[q] = wire[q]
    BY <1>1, <1>2 DEF Send, TypeOK
  <2>2. /\ nextId'[p] = y + 2 /\ nextId'[q] = nextId[q]
        /\ y \in table'[p] /\ y \notin table'[q]
        /\ \A x \in Peers, s \in Ids : s # y => (s \in table'[x] <=> s \in table[x])
    BY <1>1, <1>2, <1>3 DEF TypeOK
  <2>3. /\ st'[p][y] = NewStream("opening") /\ st'[q][y] = NewStream("unused")
        /\ \A x \in Peers, s \in Ids : s # y => st'[x][s] = st[x][s]
    BY <1>1, <1>2, <1>3 DEF Become, TypeOK
  <2> QED
    BY <2>1, <2>2, <2>3
<1> HIDE DEF f
<1>6. \A s \in Ids : OwnId(p, s) => (s < y + 2 <=> s < y \/ s = y)
  <2> SUFFICES ASSUME NEW s \in Ids, OwnId(p, s) PROVE s < y + 2 <=> s < y \/ s = y
    OBVIOUS
  <2>1. s \in Nat
    BY DEF Ids
  <2>2. s % 2 = 1 <=> y % 2 = 1
    BY <1>3 DEF OwnId
  <2> QED
    BY <1>1, <2>1, <2>2, Parity, Zenon
<1>7. Stale(p, y)' /\ ~Stale(q, y)'
  <2>1. y < nextId'[p] /\ OwnId(p, y)
    BY <1>1, <1>3, <1>5
  <2>2. ~(y <= highest[q]) /\ ~OwnId(q, y) /\ highest' = highest
    BY <1>2, <1>3 DEF Stale
  <2> QED
    BY <2>1, <2>2, StaleNext
<1>8. ASSUME NEW s \in Ids, s # y PROVE Untouched(s)
  <2>1. Stale(p, s)' <=> Stale(p, s)
    <3>1. OwnId(p, s) => (s < nextId'[p] <=> s < nextId[p])
      BY <1>5, <1>6, <1>8
    <3> QED
      BY <1>2, <3>1, StaleNext DEF Stale
  <2>2. Stale(q, s)' <=> Stale(q, s)
    BY <1>2, <1>5, StaleNext DEF Stale
  <2>3. Alike(wire[p], wire'[p], s)
    <3>1. Alike(wire[p], Append(wire[p], f), s)
      BY <1>1, <1>4, <1>8, AppendOther
    <3> QED
      BY <1>5, <3>1, Zenon
  <2>4. Alike(wire[q], wire'[q], s)
    BY <1>5 DEF Alike
  <2>5. \A x \in Peers : x = p \/ x = q
    BY Sides
  <2>6. ASSUME NEW x \in Peers
        PROVE  /\ st'[x][s] = st[x][s]
               /\ s \in table'[x] <=> s \in table[x]
               /\ Up(x)' => Up(x)
    BY <1>2, <1>5, <1>8 DEF Up
  <2> QED
    BY <2>1, <2>2, <2>3, <2>4, <2>5, <2>6 DEF Untouched
<1>9. /\ \A k \in FrameKinds : Has(wire'[p], k, y) <=> k = "OPEN"
      /\ ~Refuses(wire'[p], y)
      /\ OpenFirst(wire'[p], y) /\ FinalLast(wire'[p], y) /\ EofLast(wire'[p], y)
      /\ \A k \in FrameKinds : k # "OPEN" => Spans(wire'[p], k, y, 0, 0)
  <2>1. Extended(wire[p], wire'[p], f, y)
    <3>1. Extended(wire[p], Append(wire[p], f), f, y)
      BY <1>1, <1>4, AppendSame
    <3> QED
      BY <1>5, <3>1, Zenon
  <2>2. /\ ~Refuses(wire[p], y) /\ \A k \in FrameKinds : ~Has(wire[p], k, y)
        /\ OpenFirst(wire[p], y) /\ EofLast(wire[p], y)
        /\ \A k \in FrameKinds : Spans(wire[p], k, y, 0, 0)
    BY <1>1, <1>3, Silent
  <2>3. ~IsRefusal(f) /\ f.kind # "DATA"
    BY <1>4 DEF IsRefusal
  <2>4. {"OPEN", "CLOSE", "DATA"} \subseteq FrameKinds
    BY DEF FrameKinds
  <2> QED
    BY <1>4, <2>1, <2>2, <2>3, <2>4 DEF Extended
<1>10. /\ ~Refuses(wire[q], y) /\ \A k \in FrameKinds : ~Has(wire[q], k, y)
       /\ ResultFirst(wire[q], y) /\ FinalLast(wire[q], y) /\ RefusalAlone(wire[q], y)
       /\ OnlyRefusals(wire[q], y) /\ EofLast(wire[q], y)
       /\ \A k \in FrameKinds : Spans(wire[q], k, y, 0, 0)
  BY <1>1, <1>3, Silent
<1>11. \A w : Covers(w, y, 0, 0)
  BY DEF Covers
<1>12. {"OPEN", "OPEN_RESULT", "DATA", "HALF_CLOSE", "WINDOW_UPDATE", "CLOSE"} \subseteq FrameKinds
  BY DEF FrameKinds
<1>13. /\ st'[p][y].phase = "opening" /\ ~st'[p][y].closed /\ ~st'[p][y].reof /\ ~st'[p][y].sawEof
       /\ st'[p][y].sent = 0 /\ st'[p][y].recvd = 0 /\ st'[p][y].rd = 0 /\ st'[p][y].credited = 0
       /\ st'[q][y].phase = "unused" /\ ~st'[q][y].closed /\ ~st'[q][y].reof /\ ~st'[q][y].sawEof
       /\ st'[q][y].sent = 0 /\ st'[q][y].recvd = 0 /\ st'[q][y].rd = 0 /\ st'[q][y].credited = 0
  BY <1>5 DEF NewStream
<1>14. StreamOK(p, y)'
  <2>1. LocalOK(st'[p][y], y \in table'[p])
    <3>1. LocalOK(NewStream("opening"), TRUE)
      BY FreshLocal
    <3> QED
      BY <1>5, <3>1 DEF LocalOK
  <2>2. IdOK(p, y)'
    BY <1>3, <1>7, <1>9, <1>12, <1>13 DEF IdOK, OwnId
  <2>3. EndOK(p, y)'
    BY <1>9, <1>12, <1>13 DEF EndOK, Told
  <2>4. PhaseOK(p, y)'
    BY <1>3, <1>13 DEF PhaseOK, OwnId
  <2>5. DataOK(p, y)'
    BY <1>9, <1>11, <1>12, <1>13 DEF DataOK
  <2>6. EofOK(p, y)'
    BY <1>13 DEF EofOK
  <2>7. CreditOK(p, y)'
    BY <1>5, <1>10, <1>12, <1>13 DEF CreditOK
  <2> QED
    BY <2>1, <2>2, <2>3, <2>4, <2>5, <2>6, <2>7 DEF StreamOK
<1>15. StreamOK(q, y)'
  <2>0. st'[Other(q)][y] = st'[p][y] /\ wire'[Other(q)] = wire'[p] /\ wire'[q] = wire[q]
        /\ (Stale(Other(q), y)' <=> Stale(p, y)')
    BY <1>1, <1>5
  <2>1. LocalOK(st'[q][y], y \in table'[q])
    BY <1>5 DEF LocalOK, NewStream
  <2>2. IdOK(q, y)'
    BY <1>3, <1>5, <1>7, <1>10, <1>12, <1>13 DEF IdOK, OwnId
  <2>3. EndOK(q, y)'
    BY <2>0, <1>10, <1>12, <1>13 DEF EndOK, Told
  <2>4. AnswerOK(q, y)'
    BY <2>0, <1>3, <1>9, <1>10, <1>12, <1>13 DEF AnswerOK, Waits
  <2>5. PhaseOK(q, y)'
    BY <1>3, <1>13, <2>4 DEF PhaseOK, OwnId
  <2>6. DataOK(q, y)'
    BY <2>0, <1>10, <1>11, <1>12, <1>13 DEF DataOK
  <2>7. EofOK(q, y)'
    BY <2>0, <1>13 DEF EofOK
  <2>8. CreditOK(q, y)'
    BY <2>0, <1>9, <1>12, <1>13 DEF CreditOK
  <2> QED
    BY <2>1, <2>2, <2>3, <2>5, <2>6, <2>7, <2>8 DEF StreamOK
<1>16. CountersOK(p)'
  <2>1. OwnId(p, y + 2)
    <3>1. (y + 2) % 2 = y % 2
      BY <1>1
    <3> QED
      BY <1>3, <3>1 DEF OwnId
  <2>2. highest'[q] < y + 2
    <3>1. highest[q] < y /\ highest[q] \in Nat
      BY <1>1 DEF CountersOK, TypeOK
    <3> QED
      BY <1>1, <1>2, <3>1
  <2>3. OpensRise(wire'[p])
    <3>1. ASSUME NEW i \in 1..Len(wire[p]), wire[p][i].kind = "OPEN" PROVE wire[p][i].id < f.id
      <4> DEFINE s == wire[p][i].id
      <4>1. s \in Ids
        <5>1. wire[p][i] \in Frame
          BY <1>1
        <5> QED
          BY <5>1 DEF Frame
      <4>2. Has(wire[p], "OPEN", s) /\ Mentions(wire[p], s)
        BY <3>1 DEF Has, Mentions
      <4>3. OwnId(p, s) /\ Stale(p, s)
        BY <4>1, <4>2, Now DEF StreamOK, IdOK
      <4> QED
        BY <1>4, <4>3 DEF Stale
    <3>2. OpensRise(Append(wire[p], f))
      BY <1>1, <1>4, <3>1, OpensKept DEF CountersOK
    <3> QED
      BY <1>5, <3>2, Zenon
  <2> QED
    BY <1>5, <2>1, <2>2, <2>3 DEF CountersOK, OwnId
<1>17. CountersOK(q)'
  <2>1. CountersOK(q)
    BY <1>1
  <2> QED
    BY <1>2, <1>5, <2>1 DEF CountersOK, OwnId
<1>18. \A x \in Peers, s \in Ids : StreamOK(x, s)'
  BY <1>1, <1>8, <1>14, <1>15, Beside DEF Inv
<1>19. \A x \in Peers : CountersOK(x)'
  BY <1>16, <1>17, Sides
<1> QED
  BY <1>8, <1>18, <1>19 DEF Inv

-----------------------------------------------------------------------------
(* A request arrives.                                                      *)

LEMMA FirstOpen ==
    ASSUME NEW w \in Seq(Frame), w # <<>>, OpensRise(w), Head(w).kind = "OPEN"
    PROVE  /\ ~Has(Tail(w), "OPEN", Head(w).id)
           /\ \A s \in Ids : Has(w, "OPEN", s) /\ s # Head(w).id => Head(w).id < s
<1> DEFINE v == Tail(w)
<1>1. /\ Len(w) \in Nat \ {0} /\ Len(v) = Len(w) - 1 /\ Head(w) = w[1]
      /\ \A i \in 1..(Len(w) - 1) : v[i] = w[i + 1]
      /\ Head(w) \in Frame
  BY TailIs
<1> HIDE DEF v
<1>2. ASSUME NEW i \in 1..Len(v), v[i].id = w[1].id, v[i].kind = "OPEN" PROVE FALSE
  <2> DEFINE a == i + 1
  <2>1. a \in 1..Len(w) /\ 1 \in 1..Len(w) /\ 1 < a /\ v[i] = w[a]
    BY <1>1
  <2> HIDE DEF a
  <2>2. w[1].id < w[a].id
    BY <1>1, <1>2, <2>1 DEF OpensRise
  <2>3. w[1].id \in Nat
    BY <1>1 DEF Frame, Ids
  <2> QED
    BY <1>2, <2>1, <2>2, <2>3
<1>3. ASSUME NEW s \in Ids, Has(w, "OPEN", s), s # w[1].id PROVE w[1].id < s
  <2>1. PICK i \in 1..Len(w) : w[i].id = s /\ w[i].kind = "OPEN"
    BY <1>3 DEF Has
  <2>2. 1 \in 1..Len(w) /\ 1 < i
    BY <1>1, <1>3, <2>1
  <2> QED
    BY <1>1, <2>1, <2>2 DEF OpensRise
<1> QED
  BY <1>1, <1>2, <1>3 DEF Has, v

\* The two outcomes for the request y: p accepts it, or refuses it at its limit.
Accepts(p, y) ==
    /\ st' = [st EXCEPT ![p][y] = NewStream("accepting")]
    /\ table' = [table EXCEPT ![p] = @ \cup {y}]
    /\ Pop(p)
Refuse(p, y) ==
    /\ UNCHANGED <<st, table>>
    /\ PopAndSend(p, OpenResult(y, FALSE))

\* What is known of a request when it arrives.
LEMMA RequestIs ==
    ASSUME Inv, NEW p \in Peers, NEW y \in Ids, wire[Other(p)] # <<>>,
           In(p).kind = "OPEN", In(p).id = y, Up(p)
    PROVE  LET q == Other(p) IN
           /\ OwnId(q, y) /\ ~OwnId(p, y) /\ Stale(q, y) /\ ~Stale(p, y)
           /\ st[p][y] = NewStream("unused") /\ y \notin table[p] /\ ~Mentions(wire[p], y)
           /\ ~Told(q, y)
           /\ st[q][y].phase \in {"opening", "gone"}
           /\ st[q][y].phase = "opening" => ~st[q][y].closed
           /\ ~Has(wire[q], "HALF_CLOSE", y)
           /\ st[q][y].recvd = 0 /\ st[q][y].rd = 0 /\ st[q][y].credited = 0
           /\ Taken(wire[q], Tail(wire[q]), Head(wire[q]), y)
           /\ Covers(wire[q], y, 0, st[q][y].sent)
<1> DEFINE q == Other(p)
           a == st[q][y]
<1>1. /\ q \in Peers /\ Other(q) = p /\ wire[q] \in Seq(Frame) /\ a \in Stream
      /\ StreamOK(p, y) /\ StreamOK(q, y)
  BY Now
<1>2. /\ Taken(wire[q], Tail(wire[q]), Head(wire[q]), y)
      /\ Has(wire[q], "OPEN", y) /\ Mentions(wire[q], y)
  <2>1. Taken(wire[q], Tail(wire[q]), Head(wire[q]), y)
    BY <1>1, TailSame DEF In
  <2> QED
    BY <2>1 DEF Taken, In
<1>3. OwnId(q, y) /\ Stale(q, y) /\ ~Stale(p, y) /\ ~OwnId(p, y) /\ a.phase # "unused"
  BY <1>1, <1>2, Sides DEF StreamOK, IdOK
<1>4. st[p][y] = NewStream("unused") /\ y \notin table[p] /\ ~Mentions(wire[p], y)
  BY <1>1, <1>3 DEF StreamOK, IdOK, LocalOK
<1>5. /\ st[p][y].phase = "unused" /\ st[p][y].sent = 0 /\ st[p][y].rd = 0 /\ st[p][y].recvd = 0
  BY <1>4 DEF NewStream
<1>6. ~Told(q, y)
  BY <1>1, <1>3, <1>5 DEF StreamOK, EndOK, Over
<1>7. /\ a.phase \notin {"granted", "open"} /\ ~Has(wire[q], "HALF_CLOSE", y)
      /\ a.phase = "opening" => ~a.closed
  BY <1>1, <1>3, <1>5 DEF StreamOK, PhaseOK, AnswerOK
<1>8. a.phase \notin {"refused", "accepting"}
  BY <1>1, <1>3, <1>6 DEF StreamOK, PhaseOK, Told
<1>9. a.phase \in {"opening", "gone"}
  BY <1>1, <1>3, <1>7, <1>8 DEF Stream, Phases
<1>10. a.recvd = 0 /\ a.rd = 0 /\ a.credited = 0
  <2>1. a.recvd \in Nat /\ a.rd \in Nat /\ a.credited \in Nat /\ a.buf \in Nat
    BY <1>1 DEF Stream
  <2>2. a.recvd <= 0 /\ a.credited <= 0
    BY <1>1, <1>5 DEF StreamOK, DataOK, CreditOK
  <2>3. a.rd + a.buf <= a.recvd
    BY <1>1 DEF StreamOK, LocalOK
  <2> QED
    BY <2>1, <2>2, <2>3
<1>11. Covers(wire[q], y, 0, a.sent)
  BY <1>1, <1>3, <1>5 DEF StreamOK, DataOK
<1> QED
  BY <1>2, <1>3, <1>4, <1>6, <1>7, <1>9, <1>10, <1>11

LEMMA RequestKeeps ==
    ASSUME Inv, TypeOK', NEW p \in Peers, NEW y \in Ids, wire[Other(p)] # <<>>,
           In(p).kind = "OPEN", In(p).id = y, Up(p),
           highest' = [highest EXCEPT ![p] = y], UNCHANGED <<nextId, err>>,
           Accepts(p, y) \/ Refuse(p, y)
    PROVE  Inv' /\ \A s \in Ids : s # y => Untouched(s)
<1> DEFINE q == Other(p)
           a == st[q][y]
           h == Head(wire[q])
           f == OpenResult(y, FALSE)
<1>1. /\ q \in Peers /\ q # p /\ Other(q) = p
      /\ TypeOK /\ y \in Nat
      /\ wire[p] \in Seq(Frame) /\ wire[q] \in Seq(Frame) /\ a \in Stream
      /\ StreamOK(p, y) /\ StreamOK(q, y)
      /\ \A x \in Peers : x = p \/ x = q
      /\ \A x \in Peers : CountersOK(x)
  <2>1. TypeOK /\ y \in Nat /\ \A x \in Peers : CountersOK(x)
    BY DEF Inv, Ids
  <2> QED
    BY <2>1, Sides, Now
<1>2. /\ OwnId(q, y) /\ ~OwnId(p, y) /\ Stale(q, y) /\ ~Stale(p, y)
      /\ st[p][y] = NewStream("unused") /\ y \notin table[p] /\ ~Mentions(wire[p], y)
      /\ ~Told(q, y)
      /\ a.phase \in {"opening", "gone"}
      /\ a.phase = "opening" => ~a.closed
      /\ ~Has(wire[q], "HALF_CLOSE", y)
      /\ a.recvd = 0 /\ a.rd = 0 /\ a.credited = 0
      /\ Taken(wire[q], Tail(wire[q]), h, y)
      /\ Covers(wire[q], y, 0, a.sent)
  BY RequestIs
<1>3. h = In(p) /\ h.kind = "OPEN" /\ h.id = y /\ h \in Frame
  BY <1>1 DEF In
<1>4. f \in Frame /\ f.id = y /\ f.kind = "OPEN_RESULT" /\ IsRefusal(f)
  BY FrameType DEF FrameKinds, OpenResult, Control, IsRefusal
<1> HIDE DEF h, f
<1>5. /\ wire'[q] = Tail(wire[q]) /\ Taken(wire[q], wire'[q], h, y)
      /\ st'[q][y] = a
      /\ y \in table'[q] <=> y \in table[q]
      /\ \A x \in Peers, s \in Ids : s # y =>
            st'[x][s] = st[x][s] /\ (s \in table'[x] <=> s \in table[x])
      /\ \/ wire'[p] = wire[p] /\ st'[p][y] = NewStream("accepting") /\ y \in table'[p]
         \/ /\ wire'[p] = Append(wire[p], f)
            /\ st'[p][y] = NewStream("unused") /\ y \notin table'[p]
  <2>1. wire'[q] = Tail(wire[q]) /\ (Accepts(p, y) => wire'[p] = wire[p])
    BY <1>1 DEF Accepts, Refuse, Pop, PopAndSend, TypeOK
  <2>2. Refuse(p, y) => wire'[p] = Append(wire[p], f)
    BY <1>1 DEF Refuse, PopAndSend, TypeOK, f
  <2>3. Taken(wire[q], wire'[q], h, y)
    BY <1>2, <2>1, Zenon
  <2>4. Accepts(p, y) =>
          /\ st'[q][y] = a /\ st'[p][y] = NewStream("accepting")
          /\ \A x \in Peers, s \in Ids : s # y => st'[x][s] = st[x][s]
    BY <1>1 DEF Accepts, TypeOK
  <2>5. Accepts(p, y) =>
          /\ y \in table'[p] /\ (y \in table'[q] <=> y \in table[q])
          /\ \A x \in Peers, s \in Ids : s # y => (s \in table'[x] <=> s \in table[x])
    <3>1. Accepts(p, y) => table'[p] = table[p] \cup {y} /\ table'[q] = table[q]
      BY <1>1 DEF Accepts, TypeOK
    <3> QED
      BY <1>1, <3>1
  <2>6. Refuse(p, y) =>
          /\ st'[q][y] = a /\ st'[p][y] = NewStream("unused") /\ y \notin table'[p]
          /\ \A x \in Peers, s \in Ids : s # y =>
               st'[x][s] = st[x][s] /\ (s \in table'[x] <=> s \in table[x])
          /\ y \in table'[q] <=> y \in table[q]
    BY <1>1, <1>2 DEF Refuse
  <2>7. CASE Accepts(p, y)
    BY <2>1, <2>3, <2>4, <2>5, <2>7
  <2>8. CASE Refuse(p, y)
    BY <2>1, <2>2, <2>3, <2>6, <2>8
  <2> QED
    BY <2>7, <2>8
<1>6. /\ highest'[p] = y /\ highest'[q] = highest[q] /\ nextId' = nextId
      /\ y < nextId[q] /\ highest[p] < y /\ highest[p] \in Nat /\ nextId[q] \in Nat
  <2>1. highest[p] \in Nat /\ nextId[q] \in Nat /\ highest'[p] = y /\ highest'[q] = highest[q]
    BY <1>1 DEF TypeOK
  <2>2. y < nextId[q] /\ ~(y <= highest[p])
    BY <1>2 DEF Stale
  <2> QED
    BY <1>1, <2>1, <2>2
<1>7. Stale(p, y)' /\ Stale(q, y)'
  <2>1. y <= highest'[p] /\ y < nextId'[q]
    BY <1>1, <1>6
  <2>2. (y % 2 = 1 <=> p = "client") => FALSE
    BY <1>2 DEF OwnId
  <2>3. y % 2 = 1 <=> q = "client"
    BY <1>2 DEF OwnId
  <2>4. Stale(p, y)'
    BY <2>1, <2>2 DEF Stale, OwnId
  <2>5. Stale(q, y)'
    BY <2>1, <2>3 DEF Stale, OwnId
  <2> QED
    BY <2>4, <2>5
<1>8. ~Has(wire'[q], "OPEN", y) /\ \A s \in Ids : Has(wire[q], "OPEN", s) /\ s # y => y < s
  <2>1. OpensRise(wire[q])
    BY <1>1 DEF CountersOK
  <2>2. Head(wire[q]).kind = "OPEN" /\ Head(wire[q]).id = y /\ wire[q] # <<>>
    BY <1>3 DEF h
  <2>3. /\ ~Has(Tail(wire[q]), "OPEN", Head(wire[q]).id)
        /\ \A s \in Ids : Has(wire[q], "OPEN", s) /\ s # Head(wire[q]).id => Head(wire[q]).id < s
    BY <1>1, <2>1, <2>2, FirstOpen
  <2>4. ~Has(Tail(wire[q]), "OPEN", y)
    BY <2>2, <2>3
  <2>5. \A s \in Ids : Has(wire[q], "OPEN", s) /\ s # y => y < s
    BY <2>2, <2>3
  <2>6. ~Has(wire'[q], "OPEN", y)
    BY <1>5, <2>4, Zenon
  <2> QED
    BY <2>5, <2>6
<1>9. ASSUME NEW s \in Ids, s # y PROVE Untouched(s)
  <2>1. Stale(p, s)' <=> Stale(p, s)
    <3>0. s \in Nat
      BY DEF Ids
    <3>1. CASE OwnId(p, s)
      BY <1>6, <3>1 DEF Stale, OwnId
    <3>2. CASE ~OwnId(p, s)
      <4>1. OwnId(q, s) /\ IdOK(q, s)
        BY <1>1, <3>2, Sides DEF Inv, StreamOK
      <4>2. s <= highest[p] \/ y < s
        <5>0. (highest[p] < s /\ s < y) \/ s <= highest[p] \/ y < s
          BY <1>1, <1>6, <1>9, <3>0
        <5>1. SUFFICES ASSUME highest[p] < s, s < y PROVE FALSE
          BY <5>0
        <5>2. Stale(q, s) /\ ~Stale(p, s)
          <6>1. s < nextId[q] /\ ~(s <= highest[p])
            BY <1>1, <1>6, <3>0, <5>1
          <6> QED
            BY <3>2, <4>1, <6>1 DEF Stale
        <5>3. Has(wire[q], "OPEN", s)
          BY <1>1, <4>1, <5>2 DEF IdOK
        <5> QED
          BY <1>1, <1>8, <1>9, <3>0, <5>1, <5>3
      <4>3. s <= y <=> s <= highest[p]
        BY <1>1, <1>6, <1>9, <3>0, <4>2
      <4> QED
        BY <1>6, <3>2, <4>3 DEF Stale, OwnId
    <3> QED
      BY <3>1, <3>2
  <2>2. Stale(q, s)' <=> Stale(q, s)
    BY <1>6 DEF Stale, OwnId
  <2>3. Alike(wire[p], wire'[p], s)
    <3>1. Alike(wire[p], Append(wire[p], f), s) /\ Alike(wire[p], wire[p], s)
      <4>1. Alike(wire[p], Append(wire[p], f), s)
        BY <1>1, <1>4, <1>9, AppendOther
      <4> QED
        BY <4>1 DEF Alike
    <3> QED
      BY <1>5, <3>1, Zenon
  <2>4. Alike(wire[q], wire'[q], s)
    <3>1. Alike(wire[q], Tail(wire[q]), s)
      BY <1>1, <1>3, <1>9, TailOther DEF h
    <3> QED
      BY <1>5, <3>1, Zenon
  <2>5. \A x \in Peers : st'[x][s] = st[x][s] /\ (s \in table'[x] <=> s \in table[x])
    BY <1>5, <1>9
  <2>6. \A x \in Peers : Up(x)' => Up(x)
    BY DEF Up
  <2> QED
    BY <1>1, <2>1, <2>2, <2>3, <2>4, <2>5, <2>6 DEF Untouched

<1>10. /\ st'[p][y].phase \in {"unused", "accepting"}
       /\ ~st'[p][y].closed /\ ~st'[p][y].reof /\ ~st'[p][y].sawEof
       /\ ~st'[p][y].leof /\ ~st[p][y].leof
       /\ st'[p][y].sent = 0 /\ st'[p][y].recvd = 0 /\ st'[p][y].rd = 0 /\ st'[p][y].credited = 0
       /\ st[p][y].sent = 0 /\ st[p][y].recvd = 0 /\ st[p][y].rd = 0 /\ st[p][y].credited = 0
       /\ st[p][y].phase = "unused"
       /\ y \in table'[p] <=> st'[p][y].phase = "accepting"
  BY <1>2, <1>5 DEF NewStream
<1>11. {"OPEN", "OPEN_RESULT", "DATA", "HALF_CLOSE", "WINDOW_UPDATE", "CLOSE"} \subseteq FrameKinds
  BY DEF FrameKinds
<1>12. /\ FinalLast(wire'[p], y) /\ EofLast(wire'[p], y)
       /\ RefusalAlone(wire'[p], y) /\ ResultFirst(wire'[p], y)
       /\ \A k \in FrameKinds : Has(wire'[p], k, y) => k = "OPEN_RESULT"
       /\ \A k \in FrameKinds : k # "OPEN_RESULT" => Spans(wire'[p], k, y, 0, 0)
       /\ st'[p][y].phase = "accepting" => ~Mentions(wire'[p], y) /\ ~Refuses(wire'[p], y)
       /\ OnlyRefusals(wire'[p], y)
  <2>1. /\ ~Refuses(wire[p], y) /\ \A k \in FrameKinds : ~Has(wire[p], k, y)
        /\ FinalLast(wire[p], y) /\ EofLast(wire[p], y)
        /\ RefusalAlone(wire[p], y) /\ ResultFirst(wire[p], y) /\ OnlyRefusals(wire[p], y)
        /\ \A k \in FrameKinds : Spans(wire[p], k, y, 0, 0)
    BY <1>2, Silent
  <2>2. CASE wire'[p] = wire[p] /\ st'[p][y] = NewStream("accepting")
    BY <1>2, <2>1, <2>2, Zenon
  <2>3. CASE wire'[p] = Append(wire[p], f) /\ st'[p][y] = NewStream("unused")
    <3>1. Extended(wire[p], wire'[p], f, y)
      <4>1. Extended(wire[p], Append(wire[p], f), f, y)
        BY <1>1, <1>4, AppendSame
      <4> QED
        BY <2>3, <4>1, Zenon
    <3>2. st'[p][y].phase = "unused"
      BY <2>3 DEF NewStream
    <3> QED
      BY <1>2, <1>4, <1>11, <2>1, <3>1, <3>2 DEF Extended
  <2> QED
    BY <1>5, <2>2, <2>3
<1>13. \A w : Covers(w, y, 0, 0)
  BY DEF Covers
<1>14. /\ st'[Other(p)][y] = a /\ st'[Other(q)][y] = st'[p][y]
       /\ wire'[Other(p)] = wire'[q] /\ wire'[Other(q)] = wire'[p]
       /\ st[Other(q)][y] = st[p][y] /\ wire[Other(q)] = wire[p]
       /\ Stale(Other(p), y)' /\ Stale(Other(q), y)'
       /\ y \in table'[Other(q)] <=> y \in table'[p]
       /\ y \in table'[Other(p)] <=> y \in table[q]
  BY <1>1, <1>5, <1>7
<1>15. a.sent \in Nat
  BY <1>1 DEF Stream
<1>16. ~Told(q, y)' /\ ~Told(p, y)'
  BY <1>2, <1>5, <1>10 DEF Told
<1>17. StreamOK(p, y)'
  <2>1. LocalOK(st'[p][y], y \in table'[p])
    <3>1. LocalOK(NewStream("accepting"), TRUE)
      BY FreshLocal
    <3>2. LocalOK(NewStream("unused"), FALSE)
      BY DEF LocalOK, NewStream
    <3> QED
      BY <1>5, <3>1, <3>2 DEF LocalOK
  <2>2. IdOK(p, y)'
    BY <1>2, <1>7, <1>11, <1>12 DEF IdOK, OwnId
  <2>3. EndOK(p, y)'
    <3>1. Refuses(wire'[p], y) => Over(p, y)'
      BY <1>7, <1>10, <1>12 DEF Over
    <3> QED
      BY <1>1, <1>11, <1>12, <1>16, <3>1 DEF EndOK
  <2>4. AnswerOK(p, y)'
    <3>1. Waits(p, y)' => ~Mentions(wire'[p], y)
      BY <1>7, <1>10, <1>12 DEF Waits
    <3>2. ~Has(wire'[q], "HALF_CLOSE", y)
      BY <1>2, <1>5, <1>11 DEF Taken
    <3>3. Refuses(wire'[p], y) => y \notin table'[p]
      BY <1>10, <1>12
    <3>4. /\ a.phase \in {"opening", "gone"}
          /\ a.phase = "opening" => ~a.closed
          /\ st'[p][y].phase \in {"unused", "accepting"} /\ ~st'[p][y].reof
          /\ OnlyRefusals(wire'[p], y) /\ RefusalAlone(wire'[p], y) /\ ResultFirst(wire'[p], y)
          /\ st'[Other(p)][y] = a /\ wire'[Other(p)] = wire'[q]
      BY <1>2, <1>10, <1>12, <1>14
    <3> HIDE DEF a, q
    <3> QED
      BY <3>1, <3>2, <3>3, <3>4 DEF AnswerOK
  <2>5. PhaseOK(p, y)'
    BY <1>2, <1>10, <2>4 DEF PhaseOK, OwnId
  <2>6. DataOK(p, y)'
    BY <1>2, <1>10, <1>11, <1>12, <1>13, <1>14 DEF DataOK
  <2>7. EofOK(p, y)'
    BY <1>1, <1>10, <1>14 DEF EofOK, StreamOK
  <2>8. CreditOK(p, y)'
    <3>1. Spans(wire[q], "WINDOW_UPDATE", y, 0, 0)
      BY <1>1, <1>2, <1>10 DEF StreamOK, CreditOK
    <3>2. Spans(wire'[q], "WINDOW_UPDATE", y, 0, 0)
      BY <1>3, <1>5, <1>11, <3>1 DEF Taken
    <3> QED
      BY <1>2, <1>10, <1>14, <3>2 DEF CreditOK
  <2> QED
    BY <2>1, <2>2, <2>3, <2>5, <2>6, <2>7, <2>8 DEF StreamOK
<1>18. StreamOK(q, y)'
  <2>1. LocalOK(st'[q][y], y \in table'[q])
    BY <1>1, <1>5 DEF LocalOK, StreamOK
  <2>2. IdOK(q, y)'
    <3>1. a.phase # "unused" /\ ~Has(wire[q], "OPEN_RESULT", y)
      BY <1>1, <1>2 DEF StreamOK, IdOK
    <3>2. ~Has(wire'[q], "OPEN_RESULT", y)
      BY <1>5, <1>11, <3>1 DEF Taken
    <3> QED
      BY <1>5, <1>7, <1>8, <1>14, <3>1, <3>2 DEF IdOK, OwnId
  <2>3. EndOK(q, y)'
    <3>1. EndOK(q, y)
      BY <1>1 DEF StreamOK
    <3>2. FinalLast(wire'[q], y)
      BY <1>5, <3>1 DEF EndOK, Taken
    <3>3. Has(wire'[q], "CLOSE", y) \/ Refuses(wire'[q], y) => Over(q, y)
      BY <1>5, <1>11, <3>1 DEF EndOK, Taken
    <3>4. Over(q, y) => Over(q, y)'
      BY <1>5, <1>7 DEF Over
    <3>5. ~Told(Other(q), y)'
      BY <1>1, <1>16
    <3> QED
      BY <3>2, <3>3, <3>4, <3>5 DEF EndOK
  <2>4. PhaseOK(q, y)'
    BY <1>1, <1>2, <1>5 DEF PhaseOK, OwnId
  <2>5. DataOK(q, y)'
    <3>1. /\ 0 <= a.sent /\ Spans(wire[q], "DATA", y, 0, a.sent) /\ EofLast(wire[q], y)
      BY <1>1, <1>10 DEF StreamOK, DataOK
    <3>2. /\ Spans(wire'[q], "DATA", y, 0, a.sent) /\ EofLast(wire'[q], y)
          /\ Covers(wire'[q], y, 0, a.sent)
      BY <1>2, <1>3, <1>5, <1>11, <1>15, <3>1 DEF Taken
    <3>3. ~Has(wire'[q], "HALF_CLOSE", y)
      BY <1>2, <1>5, <1>11 DEF Taken
    <3> QED
      BY <1>5, <1>10, <1>14, <3>1, <3>2, <3>3 DEF DataOK
  <2>6. EofOK(q, y)'
    BY <1>10, <1>14 DEF EofOK
  <2>7. CreditOK(q, y)'
    BY <1>2, <1>5, <1>10, <1>11, <1>12, <1>14 DEF CreditOK
  <2> QED
    BY <2>1, <2>2, <2>3, <2>4, <2>5, <2>6, <2>7 DEF StreamOK
<1>19. CountersOK(p)'
  <2>1. CountersOK(p)
    BY <1>1
  <2>2. OpensRise(wire'[p])
    <3>1. OpensRise(wire[p]) /\ OpensRise(Append(wire[p], f))
      BY <1>1, <1>4, <2>1, OpensKept DEF CountersOK
    <3> QED
      BY <1>5, <3>1, Zenon
  <2> QED
    BY <1>6, <2>1, <2>2 DEF CountersOK, OwnId
<1>20. CountersOK(q)'
  <2>1. CountersOK(q)
    BY <1>1
  <2>2. OpensRise(wire'[q])
    <3>1. OpensRise(Tail(wire[q]))
      BY <1>1, <2>1, OpensKept DEF CountersOK
    <3> QED
      BY <1>5, <3>1, Zenon
  <2> QED
    BY <1>1, <1>6, <2>1, <2>2 DEF CountersOK, OwnId
<1>21. \A x \in Peers, s \in Ids : StreamOK(x, s)'
  BY <1>1, <1>9, <1>17, <1>18, Beside DEF Inv
<1>22. \A x \in Peers : CountersOK(x)'
  BY <1>1, <1>19, <1>20
<1> QED
  BY <1>9, <1>21, <1>22 DEF Inv

LEMMA RequestsKeep ==
    ASSUME Inv, TypeOK', NEW p \in Peers, RecvOpen(p)
    PROVE  /\ In(p).id \in Ids /\ ValidRequest(p, In(p).id) /\ Inv'
           /\ \A s \in Ids : s # In(p).id => Untouched(s)
           /\ Accepts(p, In(p).id) \/ Refuse(p, In(p).id)
<1>1. /\ wire[Other(p)] # <<>> /\ In(p).kind = "OPEN" /\ In(p).id \in Ids /\ Up(p)
  BY InType DEF RecvOpen, Arrives, Frame, Inv
<1>2. PICK y \in Ids : y = In(p).id
  BY <1>1
<1>3. ~OwnId(p, y) /\ ~Stale(p, y)
  BY <1>1, <1>2, RequestIs
<1>4. ValidRequest(p, y)
  <2>1. y \in Nat /\ highest[p] \in Nat
    BY DEF Ids, Inv, TypeOK
  <2> QED
    BY <1>3, <2>1 DEF ValidRequest, Stale
<1>5. /\ highest' = [highest EXCEPT ![p] = y] /\ UNCHANGED <<nextId, err>>
      /\ Accepts(p, y) \/ Refuse(p, y)
  BY <1>2, <1>4, Zenon DEF RecvOpen, Accepts, Refuse, Become
<1> QED
  BY <1>1, <1>2, <1>4, <1>5, RequestKeeps

-----------------------------------------------------------------------------
(* The invariant.                                                          *)

LEMMA InvInit == Init => Inv
<1> SUFFICES ASSUME Init PROVE Inv
  OBVIOUS
<1>1. TypeOK
  <2>1. st \in [Peers -> [Ids -> Stream]]
    BY NewStreamType DEF Init, Phases
  <2>2. wire \in [Peers -> Seq(Frame)] /\ err \in [Peers -> Errors]
    BY DEF Init, Errors
  <2> QED
    BY <2>1, <2>2 DEF Init, TypeOK
<1>2. ASSUME NEW p \in Peers PROVE CountersOK(p)
  <2>1. OwnId(p, nextId[p]) /\ highest[Other(p)] < nextId[p]
    BY <1>2, PeersType DEF Init, OwnId, Peers
  <2>2. OpensRise(wire[p])
    BY <1>2 DEF Init, OpensRise
  <2> QED
    BY <2>1, <2>2 DEF CountersOK
<1>3. ASSUME NEW p \in Peers, NEW s \in Ids PROVE StreamOK(p, s)
  <2> DEFINE q == Other(p)
             u == NewStream("unused")
  <2>1. /\ q \in Peers /\ st[p][s] = u /\ st[q][s] = u
        /\ s \notin table[p] /\ s \notin table[q]
        /\ wire[p] = <<>> /\ wire[q] = <<>>
    BY <1>3, PeersType DEF Init
  <2>2. /\ u.phase = "unused" /\ ~u.closed /\ ~u.reof /\ ~u.sawEof
        /\ u.sent = 0 /\ u.recvd = 0 /\ u.rd = 0 /\ u.credited = 0
    BY DEF NewStream
  <2>3. ~Mentions(wire[p], s) /\ ~Mentions(wire[q], s)
    BY <2>1 DEF Mentions
  <2>4. ~Stale(p, s) /\ ~Stale(q, s)
    <3>1. ASSUME NEW x \in Peers PROVE ~Stale(x, s)
      <4>1. s \in Nat /\ 1 <= s /\ (s % 2 = 1 => ~(s < 1)) /\ (s % 2 # 1 => ~(s < 2))
        BY DEF Ids
      <4>2. highest[x] = 0 /\ nextId[x] = (IF x = "client" THEN 1 ELSE 2)
        BY DEF Init
      <4>3. ~(s <= highest[x])
        BY <4>1, <4>2
      <4>4. OwnId(x, s) => ~(s < nextId[x])
        BY <4>1, <4>2 DEF OwnId
      <4> QED
        BY <4>3, <4>4 DEF Stale
    <3> QED
      BY <2>1, <3>1
  <2>5. /\ ~Refuses(wire[p], s) /\ ~Refuses(wire[q], s)
        /\ \A k \in FrameKinds : ~Has(wire[p], k, s) /\ ~Has(wire[q], k, s)
        /\ OpenFirst(wire[p], s) /\ ResultFirst(wire[p], s) /\ FinalLast(wire[p], s)
        /\ RefusalAlone(wire[p], s) /\ OnlyRefusals(wire[p], s) /\ EofLast(wire[p], s)
        /\ \A k \in FrameKinds : Spans(wire[p], k, s, 0, 0) /\ Spans(wire[q], k, s, 0, 0)
    BY <2>3, Silent
  <2>6. LocalOK(st[p][s], s \in table[p])
    <3>1. LocalOK(u, FALSE)
      BY DEF LocalOK, NewStream
    <3> QED
      BY <2>1, <3>1 DEF LocalOK
  <2>7. {"OPEN", "OPEN_RESULT", "DATA", "HALF_CLOSE", "WINDOW_UPDATE", "CLOSE"} \subseteq FrameKinds
    BY DEF FrameKinds
  <2>8. ~Told(q, s)
    BY <2>1, <2>2 DEF Told
  <2> HIDE DEF u
  <2>9. IdOK(p, s)
    BY <2>1, <2>2, <2>3, <2>4, <2>5, <2>7 DEF IdOK
  <2>10. EndOK(p, s)
    BY <2>5, <2>7, <2>8 DEF EndOK
  <2>11. PhaseOK(p, s)
    BY <2>1, <2>2, <2>3, <2>5, <2>7 DEF PhaseOK, AnswerOK
  <2>12. DataOK(p, s)
    BY <2>1, <2>2, <2>5, <2>7 DEF DataOK, Covers
  <2>13. EofOK(p, s) /\ CreditOK(p, s)
    BY <2>1, <2>2, <2>5, <2>7 DEF EofOK, CreditOK
  <2> QED
    BY <2>6, <2>9, <2>10, <2>11, <2>12, <2>13 DEF StreamOK
<1> QED
  BY <1>1, <1>2, <1>3 DEF Inv

\* An action is one of four kinds.
AppAction(p, s) ==
    \/ OpenTimeout(p, s) \/ Resume(p, s)
    \/ Write(p, s) \/ WriteResume(p, s) \/ WriteAbort(p, s)
    \/ Reading(p, s) \/ Closing(p, s)
RecvAction(p) ==
    \/ RecvOpenResult(p) \/ RecvLate(p) \/ RecvData(p)
    \/ RecvWindowUpdate(p) \/ RecvHalfClose(p) \/ RecvClose(p)

LEMMA NextIs ==
    ASSUME Next
    PROVE  \E p \in Peers :
              \/ OpenStream(p) \/ RecvOpen(p) \/ RecvAction(p)
              \/ \E s \in Ids : AppAction(p, s)
BY DEF Next, Dispatch, AppAction, RecvAction

LEMMA ActionTypes ==
    ASSUME TypeOK, NEW p \in Peers,
           \/ OpenStream(p) \/ RecvOpen(p) \/ RecvAction(p)
           \/ \E s \in Ids : AppAction(p, s)
    PROVE  TypeOK'
BY OpenTypes, RecvOpenTypes, RecvStreamTypes, ResumeTypes, WriteTypes, ReadTypes, CloseTypes
   DEF AppAction, RecvAction

LEMMA InvStep == Inv /\ [Next]_vars => Inv'
<1> SUFFICES ASSUME Inv, [Next]_vars PROVE Inv'
  OBVIOUS
<1>0. TypeOK
  BY DEF Inv
<1>1. ASSUME NEW p \in Peers, OpenStream(p) PROVE Inv'
  <2>1. nextId[p] \in Ids
    BY <1>0, <1>1 DEF OpenStream, TypeOK, Ids
  <2>2. PICK y \in Ids : y = nextId[p]
    BY <2>1
  <2> QED
    BY <1>0, <1>1, <2>2, OpenTypes, OpenKeeps
<1>2. ASSUME NEW p \in Peers, RecvOpen(p) PROVE Inv'
  BY <1>0, <1>2, RecvOpenTypes, RequestsKeep
<1>3. ASSUME NEW p \in Peers, RecvAction(p) PROVE Inv'
  BY <1>0, <1>3, ActionTypes, RecvOthers DEF RecvAction
<1>4. ASSUME NEW p \in Peers, NEW s \in Ids, AppAction(p, s) PROVE Inv'
  <2>1. TypeOK'
    BY <1>0, <1>4, ActionTypes
  <2>2. AppStep(p, s)
    BY <1>4, AppActions DEF AppAction
  <2> QED
    BY <2>1, <2>2, AppKeeps
<1>5. CASE UNCHANGED vars
  <2>1. ASSUME NEW p \in Peers, NEW s \in Ids PROVE StreamOK(p, s)'
    <3>1. \A x \in Peers : Alike(wire[x], wire'[x], s)
      BY <1>5 DEF vars, Alike
    <3>2. Untouched(s)
      BY <1>5, <3>1 DEF vars, Untouched, Stale, OwnId, Up
    <3>3. TypeOK' /\ StreamOK(p, s)
      BY <1>0, <1>5 DEF Inv, TypeOK, vars
    <3> QED
      BY <1>0, <3>2, <3>3, UntouchedOK
  <2>2. ASSUME NEW p \in Peers PROVE CountersOK(p)'
    BY <1>5 DEF vars, CountersOK, OwnId, OpensRise, Inv
  <2>3. TypeOK'
    BY <1>0, <1>5 DEF TypeOK, vars
  <2> QED
    BY <2>1, <2>2, <2>3 DEF Inv
<1> QED
  BY <1>1, <1>2, <1>3, <1>4, <1>5, NextIs

\* What holds of every stream, every wire and every counter at every moment.
THEOREM StreamsInvariant == Spec => []Inv
BY InvInit, InvStep, PTL DEF Spec

\* A clean end of file is the end of the data: when read() has returned b"" with
\* remote_reset unset, the peer had half-closed the stream and every byte it wrote
\* has been read.
THEOREM CleanEofIsEnd == Spec => []CleanEofIsComplete
<1>1. Inv => CleanEofIsComplete
  BY Sides DEF Inv, StreamOK, EofOK, CleanEofIsComplete
<1> QED
  BY <1>1, StreamsInvariant, PTL

=============================================================================
