--------------------------- MODULE ForwardingProofs ---------------------------
(***************************************************************************)
(* The task limit of ClientForwarder, for any number of connections of any *)
(* kinds and any limit; the limit on reverse listeners with the agreement  *)
(* of all their tables, for any number of requests; and what a bridged     *)
(* connection shows its applications, for any window, any number of bytes  *)
(* and of faults.                                                          *)
(*                                                                         *)
(* The task limit is inductive with the types: a step either adds no task, *)
(* or adds one after having counted fewer than MaxStreams.  What has to be *)
(* shown is that no other step of a connection makes it a task, above all  *)
(* none of those that follow a cancellation.                               *)
(*                                                                         *)
(* The limit on listeners counts the requests under way with the listeners:*)
(* a listener enters the table while its request is still counted.  The    *)
(* agreement rests on what the frames under way say of each request: its   *)
(* LISTEN comes before its CLOSE, a CLOSE that has been handled has doomed *)
(* the task or closed the listener, and a result tells of what is there.   *)
(*                                                                         *)
(* That the ends are true rests on where the bytes are.  What one side has *)
(* sent and the other has neither given nor buffered is at the head of the *)
(* wire; the half-close is behind it, and is sent when the application has *)
(* ended and all it wrote is sent.  So a stream that ends without a reset  *)
(* has brought everything, except the one that its own bridge closed, and  *)
(* of that one the bridge shows nothing any more.                          *)
(***************************************************************************)
EXTENDS MCForwarding, FiniteSetTheorems, TLAPS

-----------------------------------------------------------------------------
(* The connections of the forwarder.                                       *)

Stages == {"idle", "asking", "opening", "dialing", "bridged", "ending", "serving", "done", "left"}

\* The connections are a function to stages.
ConnOK == conn \in [Conns -> Stages]

\* Whether a connection of kind k at stage s has a task.
IsTask(k, s) == s \in {"asking", "opening", "bridged", "ending"} \/ (s = "dialing" /\ k # "reverse")

\* The tasks are the connections at such a stage.
LEMMA TasksAre == Tasks = {c \in Conns : IsTask(Kind[c], conn[c])}
BY DEF Tasks, IsTask

\* A step of one connection that makes it no task adds none.
LEMMA NoNewTask ==
    ASSUME ConnOK, NEW c \in Conns, NEW s \in Stages,
           conn' = [conn EXCEPT ![c] = s],
           IsTask(Kind[c], s) => IsTask(Kind[c], conn[c])
    PROVE  ConnOK' /\ Tasks' \subseteq Tasks
<1>1. ConnOK'
  BY DEF ConnOK
<1>2. ASSUME NEW d \in Conns, IsTask(Kind[d], conn'[d]) PROVE IsTask(Kind[d], conn[d])
  <2>1. CASE d = c
    BY <2>1, <1>2 DEF ConnOK
  <2>2. CASE d # c
    BY <2>2, <1>2 DEF ConnOK
  <2>3. QED BY <2>1, <2>2
<1>3. Tasks' = {d \in Conns : IsTask(Kind[d], conn'[d])}
  BY DEF Tasks, IsTask
<1>4. QED BY <1>1, <1>2, <1>3, TasksAre

\* A step of one connection adds at most that one.
LEMMA OneNewTask ==
    ASSUME ConnOK, NEW c \in Conns, NEW s \in Stages, conn' = [conn EXCEPT ![c] = s]
    PROVE  ConnOK' /\ Tasks' \subseteq Tasks \cup {c}
<1>1. ConnOK'
  BY DEF ConnOK
<1>2. Tasks' = {d \in Conns : IsTask(Kind[d], conn'[d])}
  BY DEF Tasks, IsTask
<1>3. \A d \in Conns : d # c => conn'[d] = conn[d]
  BY DEF ConnOK
<1>4. QED BY <1>1, <1>2, <1>3, TasksAre

\* Tasks that are fewer than the limit leave room for one.
LEMMA RoomForOne ==
    ASSUME NEW S, NEW T, NEW c, IsFiniteSet(S), Cardinality(S) < MaxStreams, T \subseteq S \cup {c}
    PROVE  Cardinality(T) <= MaxStreams
<1>1. IsFiniteSet(S \cup {c}) /\ Cardinality(S) \in Nat
  BY FS_AddElement, FS_CardinalityType
<1>2. Cardinality(S \cup {c}) <= Cardinality(S) + 1
  <2>1. CASE c \in S
    <3>1. S \cup {c} = S
      BY <2>1
    <3>2. QED BY <3>1, <1>1
  <2>2. CASE c \notin S
    <3>1. Cardinality(S \cup {c}) = Cardinality(S) + 1
      BY <2>2, FS_AddElement
    <3>2. QED BY <3>1, <1>1
  <2>3. QED BY <2>1, <2>2
<1>3. IsFiniteSet(T) /\ Cardinality(T) <= Cardinality(S \cup {c})
  BY <1>1, FS_Subset
<1>4. Cardinality(T) \in Nat /\ Cardinality(S \cup {c}) \in Nat
  BY <1>1, <1>3, FS_CardinalityType
<1>5. QED BY <1>1, <1>2, <1>3, <1>4, MaxStreamsAssumption

\* Tasks that are no more than before keep the limit.
LEMMA NoMore ==
    ASSUME TaskLimit, NEW T, T \subseteq Tasks
    PROVE  Cardinality(T) <= MaxStreams
<1>1. IsFiniteSet(Tasks)
  BY ConnsAssumption, FS_Subset DEF Tasks
<1>2. Cardinality(T) <= Cardinality(Tasks) /\ Cardinality(T) \in Nat /\ Cardinality(Tasks) \in Nat
  BY <1>1, FS_Subset, FS_CardinalityType
<1>3. QED BY <1>2, MaxStreamsAssumption DEF TaskLimit

\* A cancelled connection goes on only from a bridge to its finally clause, which
\* is part of the same task.
LEMMA CancelAddsNone ==
    ASSUME NEW c \in Conns, NEW s \in AfterCancel(c)
    PROVE  s \in Stages /\ (IsTask(Kind[c], s) => IsTask(Kind[c], conn[c]))
<1>1. CASE conn[c] = "bridged"
  BY <1>1 DEF AfterCancel, IsTask, Stages
<1>2. CASE conn[c] # "bridged"
  <2>1. s \in {"done", "left"}
    BY <1>2 DEF AfterCancel
  <2>2. QED BY <2>1 DEF IsTask, Stages
<1>3. QED BY <1>1, <1>2

-----------------------------------------------------------------------------

\* The first stage of an accepted connection is a stage.
LEMMA FirstStageOK ==
    ASSUME NEW c \in Conns, Kind[c] \in {"local", "proxy", "socks"}
    PROVE  FirstStage(c) \in Stages
BY DEF FirstStage, Stages

\* Every step keeps the limit.
LEMMA NextLimit == ConnOK /\ TaskLimit /\ [Next]_vars => (ConnOK /\ TaskLimit)'
<1> SUFFICES ASSUME ConnOK, TaskLimit, [Next]_vars PROVE (ConnOK /\ TaskLimit)'
  OBVIOUS
<1> USE DEF Go
<1>0. IsFiniteSet(Tasks)
  BY ConnsAssumption, FS_Subset DEF Tasks
<1>a. ASSUME NEW c \in Conns, NEW s \in Stages, Go(c, s),
             IsTask(Kind[c], s) => IsTask(Kind[c], conn[c])
      PROVE  (ConnOK /\ TaskLimit)'
  <2>1. ConnOK' /\ Tasks' \subseteq Tasks
    BY <1>a, NoNewTask
  <2>2. QED BY <2>1, NoMore DEF TaskLimit
<1>b. ASSUME NEW c \in Conns, NEW s \in Stages, Go(c, s), Cardinality(Tasks) < MaxStreams
      PROVE  (ConnOK /\ TaskLimit)'
  <2>1. ConnOK' /\ Tasks' \subseteq Tasks \cup {c}
    BY <1>b, OneNewTask
  <2>2. QED BY <1>0, <1>b, <2>1, RoomForOne DEF TaskLimit
<1>c. Cardinality(Tasks) \in Nat
  BY <1>0, FS_CardinalityType
<1>d. ASSUME UNCHANGED conn PROVE (ConnOK /\ TaskLimit)'
  BY <1>d DEF ConnOK, TaskLimit, Tasks
<1>1. ASSUME NEW c \in Conns, Accept(c) PROVE (ConnOK /\ TaskLimit)'
  <2>1. CASE Cardinality(Tasks) >= MaxStreams
    <3>1. Go(c, "done")
      BY <1>1, <2>1 DEF Accept
    <3>2. QED BY <3>1, <1>a DEF IsTask, Stages
  <2>2. CASE ~(Cardinality(Tasks) >= MaxStreams)
    <3>1. Go(c, FirstStage(c)) /\ FirstStage(c) \in Stages
      BY <1>1, <2>2, FirstStageOK DEF Accept
    <3>2. Cardinality(Tasks) < MaxStreams
      BY <2>2, <1>c, MaxStreamsAssumption
    <3>3. QED BY <3>1, <3>2, <1>b
  <2>3. QED BY <2>1, <2>2
<1>2. ASSUME NEW c \in Conns, AcceptControl(c) PROVE (ConnOK /\ TaskLimit)'
  BY <1>2, <1>a DEF AcceptControl, IsTask, Stages
<1>3. ASSUME NEW c \in Conns, RecvOpen(c) PROVE (ConnOK /\ TaskLimit)'
  BY <1>3, <1>a DEF RecvOpen, IsTask, Stages
<1>4. ASSUME NEW c \in Conns, Ask(c) PROVE (ConnOK /\ TaskLimit)'
  BY <1>4, <1>a DEF Ask, IsTask, Stages
<1>5. ASSUME NEW c \in Conns, Open(c) PROVE (ConnOK /\ TaskLimit)'
  BY <1>5, <1>a DEF Open, IsTask, Stages
<1>6. ASSUME NEW c \in Conns, Dial(c) PROVE (ConnOK /\ TaskLimit)'
  BY <1>6, <1>a DEF Dial, IsTask, Stages
<1>7. ASSUME NEW c \in Conns, Ends(c) PROVE (ConnOK /\ TaskLimit)'
  BY <1>7, <1>a DEF Ends, IsTask, Stages
<1>8. ASSUME NEW c \in Conns, Ended(c) \/ Served(c) \/ HandlerEnds(c) PROVE (ConnOK /\ TaskLimit)'
  BY <1>8, <1>a DEF Ended, Served, HandlerEnds, IsTask, Stages
<1>9. ASSUME NEW c \in Conns, CancelArrives(c) PROVE (ConnOK /\ TaskLimit)'
  <2>1. PICK s \in AfterCancel(c) : conn' = [conn EXCEPT ![c] = s]
    BY <1>9 DEF CancelArrives
  <2>2. ConnOK' /\ Tasks' \subseteq Tasks
    BY <2>1, CancelAddsNone, NoNewTask
  <2>3. QED BY <2>2, NoMore DEF TaskLimit
<1>10. ASSUME NEW c \in Conns, BridgeReverse(c) PROVE (ConnOK /\ TaskLimit)'
  <2>1. CASE Go(c, "done")
    BY <2>1, <1>a DEF IsTask, Stages
  <2>2. CASE ~(Cardinality(Tasks) >= MaxStreams) /\ Go(c, "bridged")
    <3>1. Cardinality(Tasks) < MaxStreams
      BY <2>2, <1>c, MaxStreamsAssumption
    <3>2. QED BY <3>1, <2>2, <1>b DEF Stages
  <2>3. QED BY <1>10, <2>1, <2>2 DEF BridgeReverse
<1>11. ASSUME PeerEnds \/ CloseServers \/ CancelTasks \/ ClosePeer PROVE (ConnOK /\ TaskLimit)'
  BY <1>11, <1>d DEF PeerEnds, CloseServers, CancelTasks, ClosePeer
<1>12. ASSUME UNCHANGED vars PROVE (ConnOK /\ TaskLimit)'
  BY <1>12, <1>d DEF vars
<1>13. ASSUME NEW c \in Conns, Step(c) PROVE (ConnOK /\ TaskLimit)'
  BY <1>13, <1>4, <1>5, <1>6, <1>7, <1>8, <1>9, <1>10 DEF Step, StreamEnds
<1>14. QED BY <1>1, <1>2, <1>3, <1>7, <1>8, <1>11, <1>12, <1>13 DEF Next

\* However accepts, reverse streams, cancellations and close() interleave, the
\* forwarder serves no more than max_streams connections at a time: the checks of
\* len(self.tasks) in _accept and in _on_open, after its await, are enough.
THEOREM TasksBounded == Spec => []TaskLimit
<1>1. Init => ConnOK /\ TaskLimit
  <2> SUFFICES ASSUME Init PROVE ConnOK /\ TaskLimit
    OBVIOUS
  <2>1. ConnOK
    BY DEF Init, ConnOK, Stages
  <2>2. Tasks = {}
    BY DEF Init, Tasks
  <2>3. Cardinality(Tasks) = 0
    BY <2>2, FS_EmptySet
  <2>4. QED BY <2>1, <2>3, MaxStreamsAssumption DEF TaskLimit
<1>2. QED BY <1>1, NextLimit, PTL DEF Spec

-----------------------------------------------------------------------------
(* The requests for listeners and the frames about them.                   *)

Frames == {"LISTEN", "CLOSE"} \X Requests
Results == BOOLEAN \X Requests

In(x, q) == \E i \in 1..Len(q) : q[i] = x
Listening(r) == In(<<"LISTEN", r>>, toAgent)
Closing(r) == In(<<"CLOSE", r>>, toAgent)
Result(ok, r) == In(<<ok, r>>, toClient)

\* A LISTEN is the first frame about its request.
ListenFirst == \A i, j \in 1..Len(toAgent) :
    i < j /\ toAgent[j][1] = "LISTEN" => toAgent[i][2] # toAgent[j][2]

Early == {"none", "created", "starting", "bound", "refusing"}
Underway == {"created", "starting", "bound", "granting", "refusing"}

\* Nothing is known of a request that has not been made, and of one whose LISTEN
\* has not arrived nothing at the agent.
NewOK(r) ==
    /\ asked[r] = "none" => task[r] = "none" /\ ~Listening(r) /\ ~Closing(r)
                            /\ ~Result(TRUE, r) /\ ~Result(FALSE, r)
    /\ Listening(r) => task[r] = "none" /\ ~Result(TRUE, r) /\ ~Result(FALSE, r)

\* A request whose server is not registered is in no table.
EarlyOK(r) == task[r] \in Early =>
    r \notin active /\ r \notin closing /\ r \notin stray /\ ~Result(TRUE, r)

\* The CLOSE of a request that was given up is under way, or has done its work.
FailedOK(r) ==
    /\ r \in doomed => task[r] \in Underway /\ asked[r] = "failed"
    /\ Closing(r) => asked[r] = "failed"
    /\ asked[r] = "failed" /\ ~Closing(r) =>
        /\ r \notin active /\ ~Listening(r)
        /\ task[r] \in Underway => r \in doomed

\* A listener that is active will be known, and what is known is active.
KnownOK(r) ==
    /\ asked[r] = "waiting" /\ r \in active => task[r] = "granting" \/ Result(TRUE, r)
    /\ asked[r] = "waiting" /\ (task[r] = "granting" \/ Result(TRUE, r)) => r \in active
    /\ asked[r] = "granted" => r \in active
    /\ Result(FALSE, r) => r \notin active /\ task[r] \notin Underway /\ ~Listening(r)

Disjoint == active \cap closing = {} /\ stray \cap (active \cup closing) = {}

RequestOK(r) == NewOK(r) /\ EarlyOK(r) /\ FailedOK(r) /\ KnownOK(r)

\* The part about frames and requests.
FramesInv == ListenersTypeOK /\ ListenFirst /\ \A r \in Requests : RequestOK(r)

\* The part about the tables, which rests on it.
TablesInv == Disjoint /\ TablesAgree

\* The part about the limit.
Counted == active \cup Inbound
LimitInv == Cardinality(Counted) <= MaxListeners

-----------------------------------------------------------------------------
(* Sequences *)

LEMMA InEmpty == \A x : ~In(x, <<>>)
BY DEF In

LEMMA InAppend ==
    ASSUME NEW T, NEW q \in Seq(T), NEW y \in T, NEW x
    PROVE  In(x, Append(q, y)) <=> In(x, q) \/ x = y
<1>1. Len(Append(q, y)) = Len(q) + 1 /\ Len(q) \in Nat
  OBVIOUS
<1>2. \A i \in 1..Len(q) : Append(q, y)[i] = q[i]
  OBVIOUS
<1>3. Append(q, y)[Len(q) + 1] = y
  OBVIOUS
<1>4. ASSUME In(x, Append(q, y)) PROVE In(x, q) \/ x = y
  BY <1>1, <1>2, <1>3, <1>4 DEF In
<1>5. ASSUME In(x, q) \/ x = y PROVE In(x, Append(q, y))
  BY <1>1, <1>2, <1>3, <1>5 DEF In
<1>6. QED BY <1>4, <1>5

LEMMA InTail ==
    ASSUME NEW T, NEW q \in Seq(T), q # <<>>, NEW x
    PROVE  In(x, q) <=> x = Head(q) \/ In(x, Tail(q))
<1>1. Len(q) \in Nat \ {0} /\ Len(Tail(q)) = Len(q) - 1 /\ Head(q) = q[1]
  OBVIOUS
<1>2. \A i \in 1..Len(Tail(q)) : Tail(q)[i] = q[i + 1]
  OBVIOUS
<1>3. ASSUME In(x, q) PROVE x = Head(q) \/ In(x, Tail(q))
  <2>1. PICK i \in 1..Len(q) : q[i] = x
    BY <1>3 DEF In
  <2>2. CASE i = 1
    BY <2>1, <2>2, <1>1
  <2>3. CASE i # 1
    <3>1. i - 1 \in 1..Len(Tail(q)) /\ Tail(q)[i - 1] = q[i]
      BY <2>3, <1>1, <1>2
    <3>2. QED BY <3>1, <2>1 DEF In
  <2>4. QED BY <2>2, <2>3
<1>4. ASSUME x = Head(q) \/ In(x, Tail(q)) PROVE In(x, q)
  <2>1. CASE x = Head(q)
    BY <2>1, <1>1 DEF In
  <2>2. CASE In(x, Tail(q))
    <3>1. PICK i \in 1..Len(Tail(q)) : Tail(q)[i] = x
      BY <2>2 DEF In
    <3>2. i + 1 \in 1..Len(q) /\ q[i + 1] = x
      BY <3>1, <1>1, <1>2
    <3>3. QED BY <3>2 DEF In
  <2>3. QED BY <1>4, <2>1, <2>2
<1>5. QED BY <1>3, <1>4

LEMMA Pairs == \A x, y :
    /\ <<TRUE, x>> = <<TRUE, y>> <=> x = y
    /\ <<FALSE, x>> = <<FALSE, y>> <=> x = y
    /\ <<TRUE, x>> # <<FALSE, y>>
    /\ <<"LISTEN", x>> = <<"LISTEN", y>> <=> x = y
    /\ <<"CLOSE", x>> = <<"CLOSE", y>> <=> x = y
    /\ <<"LISTEN", x>> # <<"CLOSE", y>>
<1>1. \A x, y : <<TRUE, x>> = <<TRUE, y>> <=> x = y
  OBVIOUS
<1>2. \A x, y : <<FALSE, x>> = <<FALSE, y>> <=> x = y
  OBVIOUS
<1>3. \A x, y : <<TRUE, x>> # <<FALSE, y>>
  OBVIOUS
<1>4. \A x, y : <<"LISTEN", x>> = <<"LISTEN", y>> <=> x = y
  OBVIOUS
<1>5. \A x, y : <<"CLOSE", x>> = <<"CLOSE", y>> <=> x = y
  OBVIOUS
<1>6. \A x, y : <<"LISTEN", x>> # <<"CLOSE", y>>
  OBVIOUS
<1>7. QED BY <1>1, <1>2, <1>3, <1>4, <1>5, <1>6, Zenon

\* A result is positive or negative.
LEMMA PairIs ==
    ASSUME NEW h, NEW R, h \in BOOLEAN \X R
    PROVE  /\ h[2] \in R
           /\ \/ h = <<TRUE, h[2]>> /\ h[1] = TRUE
              \/ h = <<FALSE, h[2]>> /\ h[1] = FALSE
<1>1. PICK b \in BOOLEAN, r \in R : h = <<b, r>>
  OBVIOUS
<1>2. h[2] = r /\ h[1] = b
  BY <1>1
<1>3. CASE b
  <2>1. b = TRUE
    BY <1>3
  <2>2. QED BY <1>1, <1>2, <2>1, Zenon
<1>4. CASE ~b
  <2>1. b = FALSE
    BY <1>4
  <2>2. QED BY <1>1, <1>2, <2>1, Zenon
<1>5. QED BY <1>3, <1>4

\* What is sent to the agent next, about a request that has no frame under way or
\* as a CLOSE, leaves every LISTEN first.
LEMMA FirstAppend ==
    ASSUME toAgent \in Seq(Frames), ListenFirst,
           NEW f \in Frames, toAgent' = Append(toAgent, f),
           f[1] = "LISTEN" => \A k \in {"LISTEN", "CLOSE"} : ~In(<<k, f[2]>>, toAgent)
    PROVE  ListenFirst'
<1>1. Len(toAgent') = Len(toAgent) + 1 /\ Len(toAgent) \in Nat
  OBVIOUS
<1>2. \A i \in 1..Len(toAgent) : toAgent'[i] = toAgent[i] /\ toAgent[i] \in Frames
  OBVIOUS
<1>3. toAgent'[Len(toAgent) + 1] = f
  OBVIOUS
<1>4. SUFFICES ASSUME NEW i \in 1..Len(toAgent'), NEW j \in 1..Len(toAgent'), i < j,
                      toAgent'[j][1] = "LISTEN"
               PROVE  toAgent'[i][2] # toAgent'[j][2]
  BY DEF ListenFirst
<1>5. CASE j \in 1..Len(toAgent)
  BY <1>1, <1>2, <1>4, <1>5 DEF ListenFirst
<1>6. CASE j = Len(toAgent) + 1
  <2>1. i \in 1..Len(toAgent) /\ toAgent'[i] = toAgent[i] /\ toAgent[i] \in Frames
    BY <1>1, <1>2, <1>4, <1>6
  <2>2. toAgent[i][1] \in {"LISTEN", "CLOSE"} /\ toAgent[i] = <<toAgent[i][1], toAgent[i][2]>>
    BY <2>1 DEF Frames
  <2>3. In(<<toAgent[i][1], toAgent[i][2]>>, toAgent)
    BY <2>1, <2>2 DEF In
  <2>4. toAgent[i][2] # f[2]
    BY <2>2, <2>3, <1>3, <1>4, <1>6
  <2>5. QED BY <2>1, <2>4, <1>3, <1>6
<1>7. j \in 1..Len(toAgent) \/ j = Len(toAgent) + 1
  BY <1>1
<1>8. QED BY <1>5, <1>6, <1>7

\* After the first frame is taken, the LISTEN of its request is not among the rest.
LEMMA FirstTail ==
    ASSUME toAgent \in Seq(Frames), ListenFirst, toAgent # <<>>, toAgent' = Tail(toAgent)
    PROVE  ListenFirst' /\ ~In(<<"LISTEN", Head(toAgent)[2]>>, toAgent')
<1>1. Len(toAgent) \in Nat \ {0} /\ Len(toAgent') = Len(toAgent) - 1 /\ Head(toAgent) = toAgent[1]
  OBVIOUS
<1>2. \A i \in 1..Len(toAgent') : toAgent'[i] = toAgent[i + 1] /\ i + 1 \in 1..Len(toAgent)
  BY <1>1
<1>3. ListenFirst'
  BY <1>1, <1>2 DEF ListenFirst
<1>4. ASSUME NEW i \in 1..Len(toAgent'), toAgent'[i] = <<"LISTEN", Head(toAgent)[2]>> PROVE FALSE
  BY <1>1, <1>2, <1>4 DEF ListenFirst
<1>5. ~\E i \in 1..Len(toAgent') : toAgent'[i] = <<"LISTEN", Head(toAgent)[2]>>
  BY <1>4
<1>6. ~In(<<"LISTEN", Head(toAgent)[2]>>, toAgent')
  BY <1>5 DEF In
<1>7. QED BY <1>3, <1>6

-----------------------------------------------------------------------------
(* The frames and the requests *)

\* The result of a request says whether it was granted.
LEMMA AnswerSays ==
    ASSUME NEW r, toClient' = Append(toClient, <<task[r] = "granting", r>>)
    PROVE  /\ task[r] = "granting" => toClient' = Append(toClient, <<TRUE, r>>)
           /\ task[r] # "granting" => toClient' = Append(toClient, <<FALSE, r>>)
<1>1. CASE task[r] = "granting"
  <2>1. (task[r] = "granting") = TRUE
    BY <1>1
  <2>2. toClient' = Append(toClient, <<TRUE, r>>)
    BY <2>1, Zenon
  <2>3. QED BY <2>2, <1>1
<1>2. CASE task[r] # "granting"
  <2>1. (task[r] = "granting") = FALSE
    BY <1>2
  <2>2. toClient' = Append(toClient, <<FALSE, r>>)
    BY <2>1, Zenon
  <2>3. QED BY <2>2, <1>2
<1>3. QED BY <1>1, <1>2

LEMMA ResultTyped ==
    ASSUME toClient \in Seq(Results), NEW r \in Requests,
           toClient' = Append(toClient, <<task[r] = "granting", r>>)
    PROVE  toClient' \in Seq(Results)
<1>1. <<TRUE, r>> \in Results /\ <<FALSE, r>> \in Results
  BY DEF Results
<1>2. Append(toClient, <<TRUE, r>>) \in Seq(Results) /\ Append(toClient, <<FALSE, r>>) \in Seq(Results)
  BY <1>1
<1>3. QED BY <1>2, AnswerSays

\* The first frame is a LISTEN, and its request is refused or handled.
LEMMA RecvListenIs ==
    ASSUME ListenersTypeOK, RecvListen
    PROVE  \E r \in Requests :
               /\ Head(toAgent) = <<"LISTEN", r>>
               /\ \/ toClient' = Append(toClient, <<FALSE, r>>) /\ task' = task
                  \/ /\ ~(Cardinality(active) + Cardinality(Inbound) >= MaxListeners)
                     /\ task' = [task EXCEPT ![r] = "created"] /\ toClient' = toClient
<1> DEFINE r == Head(toAgent)[2]
<1> DEFINE full == Cardinality(active) + Cardinality(Inbound) >= MaxListeners
<1>1. r \in Requests /\ Head(toAgent) = <<"LISTEN", r>>
  <2>1. Head(toAgent) \in {"LISTEN", "CLOSE"} \X Requests /\ Head(toAgent)[1] = "LISTEN"
    BY DEF ListenersTypeOK, RecvListen
  <2>2. QED BY <2>1
<1>2. IF full
      THEN toClient' = Append(toClient, <<FALSE, r>>) /\ UNCHANGED task
      ELSE task' = [task EXCEPT ![r] = "created"] /\ UNCHANGED toClient
  BY Zenon DEF RecvListen
<1> HIDE DEF r
<1>3. CASE full
  BY <1>1, <1>2, <1>3, Zenon
<1>4. CASE ~full
  <2> HIDE DEF full
  <2>1. task' = [task EXCEPT ![r] = "created"] /\ toClient' = toClient
    BY <1>2, <1>4
  <2> USE DEF full
  <2>2. QED BY <1>1, <1>4, <2>1, Zenon
<1>5. QED BY <1>3, <1>4

LEMMA TypeStep == ListenersTypeOK /\ [ListenersNext]_listenerVars => ListenersTypeOK'
<1> SUFFICES ASSUME ListenersTypeOK, [ListenersNext]_listenerVars PROVE ListenersTypeOK'
  OBVIOUS
<1> USE DEF ListenersTypeOK, client, servers, tables
<1>1. ASSUME NEW r \in Requests, RequestListener(r) PROVE ListenersTypeOK'
  BY <1>1 DEF RequestListener
<1>2. ASSUME NEW r \in Requests, GiveUp(r) PROVE ListenersTypeOK'
  BY <1>2 DEF GiveUp
<1>3. CASE RecvResult
  BY <1>3 DEF RecvResult
<1>4. CASE RecvListen
  <2>1. PICK r \in Requests :
           \/ toClient' = Append(toClient, <<FALSE, r>>) /\ task' = task
           \/ task' = [task EXCEPT ![r] = "created"] /\ toClient' = toClient
    BY <1>4, RecvListenIs
  <2>2. toClient' \in Seq(Results)
    <3>1. toClient \in Seq(Results) /\ <<FALSE, r>> \in Results
      BY DEF Results
    <3>2. Append(toClient, <<FALSE, r>>) \in Seq(Results)
      BY <3>1
    <3>3. QED BY <2>1, <3>1, <3>2
  <2>3. toAgent' \in Seq(Frames)
    BY <1>4 DEF RecvListen, Frames
  <2>4. task' \in [Requests -> {"none", "created", "starting", "bound", "granting",
                                 "refusing", "over"}]
    BY <2>1
  <2>5. UNCHANGED <<asked, doomed, tables, servers>>
    BY <1>4 DEF RecvListen
  <2>6. QED BY <2>2, <2>3, <2>4, <2>5 DEF Results, Frames
<1>5. CASE RecvClose
  <2>1. Head(toAgent) \in {"LISTEN", "CLOSE"} \X Requests /\ Head(toAgent)[2] \in Requests
    BY <1>5 DEF RecvClose
  <2>2. QED BY <1>5, <2>1 DEF RecvClose
<1>6. ASSUME NEW r \in Requests, Start(r) \/ StartFails(r) PROVE ListenersTypeOK'
  BY <1>6 DEF Start, StartFails
<1>7. ASSUME NEW r \in Requests, Bind(r) \/ Register(r) PROVE ListenersTypeOK'
  BY <1>7 DEF Bind, Register
<1>8. ASSUME NEW r \in Requests, Answer(r) PROVE ListenersTypeOK'
  <2>1. toClient' \in Seq(BOOLEAN \X Requests)
    BY <1>8, ResultTyped DEF Answer, Results
  <2>2. QED BY <1>8, <2>1 DEF Answer
<1>9. ASSUME NEW r \in Requests, Cancelled(r) PROVE ListenersTypeOK'
  <2>1. toClient' \in Seq(BOOLEAN \X Requests)
    BY <1>9, ResultTyped DEF Cancelled, Results
  <2>2. QED BY <1>9, <2>1 DEF Cancelled
<1>10. ASSUME NEW r \in Requests, CancelListener(r) PROVE ListenersTypeOK'
  BY <1>10 DEF CancelListener
<1>11. CASE UNCHANGED listenerVars
  BY <1>11 DEF listenerVars
<1>12. QED
  BY <1>1, <1>2, <1>3, <1>4, <1>5, <1>6, <1>7, <1>8, <1>9, <1>10, <1>11 DEF ListenersNext, Task

\* The requests after a step that sends nothing to the agent and receives nothing.
LEMMA FirstKept ==
    ASSUME ListenFirst, toAgent' = toAgent
    PROVE  ListenFirst'
BY DEF ListenFirst

LEMMA AskOK ==
    ASSUME FramesInv, NEW r \in Requests, RequestListener(r)
    PROVE  ListenFirst' /\ \A x \in Requests : RequestOK(x)'
<1> USE DEF FramesInv, ListenersTypeOK
<1>1. toAgent \in Seq(Frames) /\ <<"LISTEN", r>> \in Frames /\ toAgent' = Append(toAgent, <<"LISTEN", r>>)
  BY DEF RequestListener, Frames
<1>2. NewOK(r) /\ FailedOK(r)
  BY DEF RequestOK
<1>3. ~Listening(r) /\ ~Closing(r)
  BY <1>2 DEF RequestListener, NewOK
<1>4. ListenFirst'
  BY <1>1, <1>3, FirstAppend DEF Listening, Closing
<1>5. ASSUME NEW x \in Requests PROVE RequestOK(x)'
  <2>1. Listening(x)' <=> Listening(x) \/ x = r
    BY <1>1, InAppend, <<"LISTEN", x>> = <<"LISTEN", r>> <=> x = r DEF Listening
  <2>2. Closing(x)' <=> Closing(x)
    <3>1. <<"CLOSE", x>> # <<"LISTEN", r>>
      OBVIOUS
    <3>2. QED BY <1>1, <3>1, InAppend DEF Closing
  <2>3. \A ok \in BOOLEAN : Result(ok, x)' <=> Result(ok, x)
    BY DEF RequestListener, Result
  <2>4. RequestOK(x)
    OBVIOUS
  <2>5. asked'[x] = (IF x = r THEN "waiting" ELSE asked[x]) /\ asked[r] = "none"
    BY DEF RequestListener
  <2>6. UNCHANGED <<task, doomed, active, closing, stray>>
    BY DEF RequestListener, tables, servers
  <2>7. QED
    BY <1>2, <2>1, <2>2, <2>3, <2>4, <2>5, <2>6
    DEF RequestOK, NewOK, EarlyOK, FailedOK, KnownOK, Early, Underway
<1>6. QED BY <1>4, <1>5

LEMMA GiveUpOK ==
    ASSUME FramesInv, NEW r \in Requests, GiveUp(r)
    PROVE  ListenFirst' /\ \A x \in Requests : RequestOK(x)'
<1> USE DEF FramesInv, ListenersTypeOK
<1>1. toAgent \in Seq(Frames) /\ <<"CLOSE", r>> \in Frames /\ toAgent' = Append(toAgent, <<"CLOSE", r>>)
  BY DEF GiveUp, Frames
<1>2. ListenFirst'
  BY <1>1, FirstAppend
<1>3. ASSUME NEW x \in Requests PROVE RequestOK(x)'
  <2>1. Closing(x)' <=> Closing(x) \/ x = r
    BY <1>1, InAppend, <<"CLOSE", x>> = <<"CLOSE", r>> <=> x = r DEF Closing
  <2>2. Listening(x)' <=> Listening(x)
    <3>1. <<"LISTEN", x>> # <<"CLOSE", r>>
      OBVIOUS
    <3>2. QED BY <1>1, <3>1, InAppend DEF Listening
  <2>3. \A ok \in BOOLEAN : Result(ok, x)' <=> Result(ok, x)
    BY DEF GiveUp, Result
  <2>4. RequestOK(x)
    OBVIOUS
  <2>5. asked'[x] = (IF x = r THEN "failed" ELSE asked[x]) /\ asked[r] = "waiting"
    BY DEF GiveUp
  <2>6. UNCHANGED <<task, doomed, active, closing, stray>>
    BY DEF GiveUp, tables, servers
  <2>7. QED
    BY <2>1, <2>2, <2>3, <2>4, <2>5, <2>6
    DEF RequestOK, NewOK, EarlyOK, FailedOK, KnownOK, Early, Underway
<1>4. QED BY <1>2, <1>3

\* A result about q is received.
LEMMA RecvResultIs ==
    ASSUME ListenersTypeOK, RecvResult
    PROVE  \E q \in Requests :
               \/ /\ Head(toClient) = <<TRUE, q>>
                  /\ asked' = [asked EXCEPT ![q] = IF @ # "waiting" THEN @ ELSE "granted"]
               \/ /\ Head(toClient) = <<FALSE, q>>
                  /\ asked' = [asked EXCEPT ![q] = IF @ # "waiting" THEN @ ELSE "failed"]
<1> DEFINE ok == Head(toClient)[1]
<1> DEFINE q == Head(toClient)[2]
<1>1. Head(toClient) \in BOOLEAN \X Requests
  BY DEF ListenersTypeOK, RecvResult
<1>2. /\ q \in Requests
      /\ \/ Head(toClient) = <<TRUE, q>> /\ ok
         \/ Head(toClient) = <<FALSE, q>> /\ ~ok
  <2>1. q \in Requests
    BY <1>1
  <2>2. \/ Head(toClient) = <<TRUE, q>> /\ ok
        \/ Head(toClient) = <<FALSE, q>> /\ ~ok
    BY <1>1, PairIs, Zenon
  <2>3. QED BY <2>1, <2>2
<1>3. asked' = [asked EXCEPT ![q] = IF @ # "waiting" THEN @ ELSE IF ok THEN "granted" ELSE "failed"]
  BY Zenon DEF RecvResult
<1> HIDE DEF ok, q
<1>4. CASE Head(toClient) = <<TRUE, q>> /\ ok
  BY <1>2, <1>3, <1>4, Zenon
<1>5. CASE Head(toClient) = <<FALSE, q>> /\ ~ok
  BY <1>2, <1>3, <1>5, Zenon
<1>6. QED BY <1>2, <1>4, <1>5

LEMMA RecvResultOK ==
    ASSUME FramesInv, RecvResult
    PROVE  ListenFirst' /\ \A x \in Requests : RequestOK(x)'
<1> USE DEF FramesInv, ListenersTypeOK
<1>1. PICK q \in Requests :
               \/ /\ Head(toClient) = <<TRUE, q>>
                  /\ asked' = [asked EXCEPT ![q] = IF @ # "waiting" THEN @ ELSE "granted"]
               \/ /\ Head(toClient) = <<FALSE, q>>
                  /\ asked' = [asked EXCEPT ![q] = IF @ # "waiting" THEN @ ELSE "failed"]
  BY RecvResultIs
<1>2. toClient \in Seq(Results) /\ toClient # <<>> /\ toClient' = Tail(toClient)
  BY DEF RecvResult, Results
<1>3. UNCHANGED <<toAgent, task, doomed, active, closing, stray>>
  BY DEF RecvResult, tables, servers
<1>4. ListenFirst'
  BY <1>3, FirstKept
<1>5. ASSUME NEW x \in Requests PROVE RequestOK(x)'
  <2>1. (Listening(x)' <=> Listening(x)) /\ (Closing(x)' <=> Closing(x))
    BY <1>3 DEF Listening, Closing
  <2>2. \A y : In(y, toClient) <=> y = Head(toClient) \/ In(y, toClient')
    BY <1>2, InTail
  <2>3. CASE Head(toClient) = <<TRUE, q>>
    <3>1. (Result(TRUE, x) <=> x = q \/ Result(TRUE, x)') /\ (Result(FALSE, x) <=> Result(FALSE, x)')
      BY <2>2, <2>3, Pairs, Zenon DEF Result
    <3>2. asked'[x] = IF x = q /\ asked[x] = "waiting" THEN "granted" ELSE asked[x]
      <4>1. asked' = [asked EXCEPT ![q] = IF @ # "waiting" THEN @ ELSE "granted"]
        BY <1>1, <2>3, Pairs, Zenon
      <4>2. QED BY <4>1
    <3>3. RequestOK(x)
      OBVIOUS
    <3>4. QED
      BY <1>3, <2>1, <3>1, <3>2, <3>3
      DEF RequestOK, NewOK, EarlyOK, FailedOK, KnownOK, Early, Underway
  <2>4. CASE Head(toClient) = <<FALSE, q>>
    <3>a. Result(FALSE, x) <=> x = q \/ Result(FALSE, x)'
      BY <2>2, <2>4, Pairs DEF Result
    <3>b. Result(TRUE, x) <=> Result(TRUE, x)'
      <4>1. <<TRUE, x>> # Head(toClient)
        <5>1. <<TRUE, x>> # <<FALSE, q>>
          OBVIOUS
        <5>2. QED BY <2>4, <5>1, Zenon
      <4>2. In(<<TRUE, x>>, toClient) <=> In(<<TRUE, x>>, toClient')
        BY <2>2, <4>1, Zenon
      <4>3. QED BY <4>2, Zenon DEF Result
    <3>1. (Result(FALSE, x) <=> x = q \/ Result(FALSE, x)') /\ (Result(TRUE, x) <=> Result(TRUE, x)')
      BY <3>a, <3>b
    <3>2. asked'[x] = IF x = q /\ asked[x] = "waiting" THEN "failed" ELSE asked[x]
      <4>1. asked' = [asked EXCEPT ![q] = IF @ # "waiting" THEN @ ELSE "failed"]
        BY <1>1, <2>4, Pairs, Zenon
      <4>2. QED BY <4>1
    <3>3. RequestOK(x)
      OBVIOUS
    <3>4. QED
      BY <1>3, <2>1, <3>1, <3>2, <3>3
      DEF RequestOK, NewOK, EarlyOK, FailedOK, KnownOK, Early, Underway
  <2>5. QED BY <1>1, <2>3, <2>4
<1>6. QED BY <1>4, <1>5

LEMMA RecvListenOK ==
    ASSUME FramesInv, RecvListen
    PROVE  ListenFirst' /\ \A x \in Requests : RequestOK(x)'
<1> USE DEF FramesInv, ListenersTypeOK
<1>1. PICK r \in Requests :
           /\ Head(toAgent) = <<"LISTEN", r>>
           /\ \/ toClient' = Append(toClient, <<FALSE, r>>) /\ task' = task
              \/ task' = [task EXCEPT ![r] = "created"] /\ toClient' = toClient
  BY RecvListenIs
<1>2. toAgent \in Seq(Frames) /\ toAgent # <<>> /\ toAgent' = Tail(toAgent)
  BY DEF RecvListen, Frames
<1>3. UNCHANGED <<asked, doomed, active, closing, stray>>
  BY DEF RecvListen, tables, servers
<1>4. ListenFirst' /\ ~In(<<"LISTEN", r>>, toAgent')
  <2>1. Head(toAgent)[2] = r
    BY <1>1
  <2>2. QED BY <1>2, <2>1, FirstTail
<1>5. \A y : In(y, toAgent) <=> y = Head(toAgent) \/ In(y, toAgent')
  BY <1>2, InTail
<1>6. ASSUME NEW x \in Requests PROVE RequestOK(x)'
  <2>1. /\ x = r => ~Listening(x)'
        /\ x # r => (Listening(x)' <=> Listening(x))
        /\ Closing(x)' <=> Closing(x)
        /\ Listening(r)
    <3>1. Listening(r)
      BY <1>1, <1>5 DEF Listening
    <3>2. Closing(x)' <=> Closing(x)
      BY <1>1, <1>5, Pairs, Zenon DEF Closing
    <3>3. CASE x = r
      <4>1. ~In(<<"LISTEN", x>>, toAgent')
        BY <1>4, <3>3, Zenon
      <4>2. QED BY <3>1, <3>2, <3>3, <4>1, Zenon DEF Listening
    <3>4. CASE x # r
      <4>1. <<"LISTEN", x>> # Head(toAgent)
        <5>1. <<"LISTEN", x>> # <<"LISTEN", r>> /\ Head(toAgent) = <<"LISTEN", r>>
          BY <1>1, <3>4
        <5>2. QED BY <5>1, Zenon
      <4>2. In(<<"LISTEN", x>>, toAgent) <=> In(<<"LISTEN", x>>, toAgent')
        BY <1>5, <4>1, Zenon
      <4>3. QED BY <3>1, <3>2, <3>4, <4>2, Zenon DEF Listening
    <3>5. QED BY <3>3, <3>4
  <2>2. RequestOK(x) /\ RequestOK(r)
    OBVIOUS
  <2>3. task[r] = "none" /\ ~Result(TRUE, r) /\ ~Result(FALSE, r) /\ asked[r] # "none"
    BY <2>1, <2>2 DEF RequestOK, NewOK
  <2>4. CASE toClient' = Append(toClient, <<FALSE, r>>) /\ task' = task
    <3>1. toClient \in Seq(Results) /\ <<FALSE, r>> \in Results
      BY DEF Results
    <3>2. \A y : In(y, toClient') <=> In(y, toClient) \/ y = <<FALSE, r>>
      BY <2>4, <3>1, InAppend
    <3>3. (Result(FALSE, x)' <=> Result(FALSE, x) \/ x = r) /\ (Result(TRUE, x)' <=> Result(TRUE, x))
      BY <3>2, Pairs, Zenon DEF Result
    <3>4. QED
      BY <1>3, <2>1, <2>2, <2>3, <2>4, <3>3
      DEF RequestOK, NewOK, EarlyOK, FailedOK, KnownOK, Early, Underway
  <2>5. CASE task' = [task EXCEPT ![r] = "created"] /\ toClient' = toClient
    <3>1. (Result(FALSE, x)' <=> Result(FALSE, x)) /\ (Result(TRUE, x)' <=> Result(TRUE, x))
      BY <2>5 DEF Result
    <3>2. task'[x] = IF x = r THEN "created" ELSE task[x]
      BY <2>5
    <3>3. QED
      BY <1>3, <2>1, <2>2, <2>3, <3>1, <3>2
      DEF RequestOK, NewOK, EarlyOK, FailedOK, KnownOK, Early, Underway
  <2>6. QED BY <1>1, <2>4, <2>5
<1>7. QED BY <1>4, <1>6

LEMMA RecvCloseOK ==
    ASSUME FramesInv, RecvClose
    PROVE  ListenFirst' /\ \A x \in Requests : RequestOK(x)'
<1> USE DEF FramesInv, ListenersTypeOK
<1> DEFINE r == Head(toAgent)[2]
<1>1. toAgent \in Seq(Frames) /\ toAgent # <<>> /\ toAgent' = Tail(toAgent)
  BY DEF RecvClose, Frames
<1>2. r \in Requests /\ Head(toAgent) = <<"CLOSE", r>>
  <2>1. Head(toAgent) \in Frames /\ Head(toAgent)[1] = "CLOSE"
    BY <1>1 DEF RecvClose
  <2>2. QED BY <2>1 DEF Frames
<1>3. /\ doomed' = doomed \cup ({r} \cap Inbound)
      /\ active' = active \ {r}
      /\ closing' = closing \cup ({r} \cap active)
      /\ UNCHANGED <<asked, toClient, task, stray>>
  BY DEF RecvClose, servers
<1>4. ListenFirst' /\ ~In(<<"LISTEN", r>>, toAgent')
  BY <1>1, FirstTail
<1>5. \A y : In(y, toAgent) <=> y = Head(toAgent) \/ In(y, toAgent')
  BY <1>1, InTail
<1> HIDE DEF r
<1>6. ASSUME NEW x \in Requests PROVE RequestOK(x)'
  <2>1. Listening(x)' <=> Listening(x)
    <3>1. <<"LISTEN", x>> # <<"CLOSE", r>>
      OBVIOUS
    <3>2. QED BY <1>2, <1>5, <3>1, Zenon DEF Listening
  <2>2. x = r => ~Listening(x)'
    BY <1>4, Zenon DEF Listening
  <2>3. x # r => (Closing(x)' <=> Closing(x))
    <3>1. x # r => <<"CLOSE", x>> # <<"CLOSE", r>>
      OBVIOUS
    <3>2. QED BY <1>2, <1>5, <3>1, Zenon DEF Closing
  <2>4. Closing(r)
    BY <1>2, <1>5, Zenon DEF Closing
  <2>5. \A ok \in BOOLEAN : Result(ok, x)' <=> Result(ok, x)
    BY <1>3 DEF Result
  <2>6. RequestOK(x) /\ RequestOK(r)
    BY <1>2
  <2>7. x \in Inbound <=> task[x] \in Underway
    BY DEF Inbound, Underway
  <2>8. CASE x # r
    <3>1. /\ x \in doomed' <=> x \in doomed
          /\ x \in active' <=> x \in active
          /\ x \in closing' <=> x \in closing
      BY <1>3, <2>8
    <3>2. QED
      BY <1>3, <2>1, <2>3, <2>5, <2>6, <2>8, <3>1
      DEF RequestOK, NewOK, EarlyOK, FailedOK, KnownOK
  <2>9. CASE x = r
    <3>1. /\ x \in doomed' <=> x \in doomed \/ task[x] \in Underway
          /\ x \notin active'
          /\ x \in closing' <=> x \in closing \/ x \in active
      BY <1>2, <1>3, <2>7, <2>9
    <3>2. asked[x] = "failed" /\ Closing(x)
      BY <2>4, <2>6, <2>9 DEF RequestOK, FailedOK
    <3>3. QED
      BY <1>3, <2>1, <2>2, <2>5, <2>6, <2>9, <3>1, <3>2
      DEF RequestOK, NewOK, EarlyOK, FailedOK, KnownOK
  <2>10. QED BY <2>8, <2>9
<1>7. QED BY <1>4, <1>6

\* The steps of a task that send nothing.
LEMMA QuietOK ==
    ASSUME FramesInv, NEW r \in Requests,
           Start(r) \/ StartFails(r) \/ Bind(r) \/ Register(r) \/ CancelListener(r)
    PROVE  ListenFirst' /\ \A x \in Requests : RequestOK(x)'
<1> USE DEF FramesInv, ListenersTypeOK
<1>1. UNCHANGED <<asked, toAgent, toClient, doomed, stray>>
  BY DEF Start, StartFails, Bind, Register, CancelListener, client, servers, tables
<1>2. ListenFirst'
  BY <1>1, FirstKept
<1>3. ASSUME NEW x \in Requests PROVE RequestOK(x)'
  <2>1. /\ Listening(x)' <=> Listening(x)
        /\ Closing(x)' <=> Closing(x)
        /\ Result(TRUE, x)' <=> Result(TRUE, x)
        /\ Result(FALSE, x)' <=> Result(FALSE, x)
    BY <1>1 DEF Listening, Closing, Result
  <2>2. RequestOK(x)
    OBVIOUS
  <2> USE <1>1, <2>1, <2>2 DEF RequestOK, NewOK, EarlyOK, FailedOK, KnownOK, Early, Underway
  <2>3. CASE Start(r)
    <3>1. /\ task[r] = "created"
          /\ task'[x] = task[x] \/ (x = r /\ task'[x] \in {"refusing", "starting"})
          /\ UNCHANGED <<active, closing>>
      BY <2>3 DEF Start, tables
    <3>2. QED BY <3>1
  <2>4. CASE StartFails(r)
    BY <2>4 DEF StartFails, tables
  <2>5. CASE Bind(r)
    BY <2>5 DEF Bind, tables
  <2>6. CASE Register(r)
    <3>1. task[r] = "bound" /\ r \notin doomed /\ task' = [task EXCEPT ![r] = "granting"]
      BY <2>6 DEF Register
    <3>2. active' = active \cup {r} /\ closing' = closing
      BY <2>6 DEF Register
    <3>3. CASE x = r
      BY <3>1, <3>2, <3>3
    <3>4. CASE x # r
      BY <3>1, <3>2, <3>4
    <3>5. QED BY <3>3, <3>4
  <2>7. CASE CancelListener(r)
    BY <2>7 DEF CancelListener
  <2>8. QED BY <2>3, <2>4, <2>5, <2>6, <2>7
<1>4. QED BY <1>2, <1>3

\* What the results are after one has been sent.
LEMMA ResultSent ==
    ASSUME ListenersTypeOK, NEW r \in Requests,
           toClient' = Append(toClient, <<task[r] = "granting", r>>)
    PROVE  \A x \in Requests :
               /\ Result(TRUE, x)' <=> Result(TRUE, x) \/ (x = r /\ task[r] = "granting")
               /\ Result(FALSE, x)' <=> Result(FALSE, x) \/ (x = r /\ task[r] # "granting")
<1>1. toClient \in Seq(Results) /\ <<TRUE, r>> \in Results /\ <<FALSE, r>> \in Results
  BY DEF ListenersTypeOK, Results
<1>2. SUFFICES ASSUME NEW x \in Requests
               PROVE  /\ Result(TRUE, x)' <=> Result(TRUE, x) \/ (x = r /\ task[r] = "granting")
                      /\ Result(FALSE, x)' <=> Result(FALSE, x) \/ (x = r /\ task[r] # "granting")
  OBVIOUS
<1>3. <<TRUE, x>> # <<FALSE, r>> /\ <<FALSE, x>> # <<TRUE, r>>
  OBVIOUS
<1>4. (<<TRUE, x>> = <<TRUE, r>> <=> x = r) /\ (<<FALSE, x>> = <<FALSE, r>> <=> x = r)
  OBVIOUS
<1>5. CASE task[r] = "granting"
  <2>1. toClient' = Append(toClient, <<TRUE, r>>)
    BY <1>5, AnswerSays
  <2>2. \A y : In(y, toClient') <=> In(y, toClient) \/ y = <<TRUE, r>>
    <3>1. \A y : In(y, Append(toClient, <<TRUE, r>>)) <=> In(y, toClient) \/ y = <<TRUE, r>>
      BY <1>1, InAppend, Zenon
    <3>2. QED BY <2>1, <3>1, Zenon
  <2>3. In(<<TRUE, x>>, toClient') <=> In(<<TRUE, x>>, toClient) \/ x = r
    BY <1>4, <2>2
  <2>4. In(<<FALSE, x>>, toClient') <=> In(<<FALSE, x>>, toClient)
    BY <1>3, <2>2
  <2>5. QED BY <1>5, <2>3, <2>4 DEF Result
<1>6. CASE task[r] # "granting"
  <2>1. toClient' = Append(toClient, <<FALSE, r>>)
    BY <1>6, AnswerSays
  <2>2. \A y : In(y, toClient') <=> In(y, toClient) \/ y = <<FALSE, r>>
    <3>1. \A y : In(y, Append(toClient, <<FALSE, r>>)) <=> In(y, toClient) \/ y = <<FALSE, r>>
      BY <1>1, InAppend, Zenon
    <3>2. QED BY <2>1, <3>1, Zenon
  <2>3. In(<<FALSE, x>>, toClient') <=> In(<<FALSE, x>>, toClient) \/ x = r
    BY <1>4, <2>2
  <2>4. In(<<TRUE, x>>, toClient') <=> In(<<TRUE, x>>, toClient)
    BY <1>3, <2>2
  <2>5. QED BY <1>6, <2>3, <2>4 DEF Result
<1>7. QED BY <1>5, <1>6

LEMMA AnswerOK ==
    ASSUME FramesInv, NEW r \in Requests, Answer(r)
    PROVE  ListenFirst' /\ \A x \in Requests : RequestOK(x)'
<1> USE DEF FramesInv, ListenersTypeOK
<1>1. UNCHANGED <<asked, toAgent, doomed, active, closing, stray>>
  BY DEF Answer, client, servers, tables
<1>2. ListenFirst'
  BY <1>1, FirstKept
<1>3. /\ task[r] \in {"granting", "refusing"} /\ r \notin doomed
      /\ task' = [task EXCEPT ![r] = "over"]
  BY DEF Answer
<1>4. \A x \in Requests :
          /\ Result(TRUE, x)' <=> Result(TRUE, x) \/ (x = r /\ task[r] = "granting")
          /\ Result(FALSE, x)' <=> Result(FALSE, x) \/ (x = r /\ task[r] # "granting")
  BY ResultSent DEF Answer
<1>5. ASSUME NEW x \in Requests PROVE RequestOK(x)'
  <2>1. (Listening(x)' <=> Listening(x)) /\ (Closing(x)' <=> Closing(x))
    BY <1>1 DEF Listening, Closing
  <2>2. RequestOK(x)
    OBVIOUS
  <2>3. CASE x = r
    <3>1. task'[x] = "over"
      BY <1>3, <2>3
    <3>2. QED
      BY <1>1, <1>3, <1>4, <2>1, <2>2, <2>3, <3>1
      DEF RequestOK, NewOK, EarlyOK, FailedOK, KnownOK, Early, Underway
  <2>4. CASE x # r
    <3>1. task'[x] = task[x] /\ (Result(TRUE, x)' <=> Result(TRUE, x))
          /\ (Result(FALSE, x)' <=> Result(FALSE, x))
      BY <1>3, <1>4, <2>4
    <3>2. QED
      BY <1>1, <2>1, <2>2, <3>1 DEF RequestOK, NewOK, EarlyOK, FailedOK, KnownOK
  <2>5. QED BY <2>3, <2>4
<1>6. QED BY <1>2, <1>5

LEMMA CancelledOK ==
    ASSUME FramesInv, NEW r \in Requests, Cancelled(r)
    PROVE  ListenFirst' /\ \A x \in Requests : RequestOK(x)'
<1> USE DEF FramesInv, ListenersTypeOK
<1>1. UNCHANGED <<asked, toAgent, active, closing>>
  BY DEF Cancelled, client, tables
<1>2. ListenFirst'
  BY <1>1, FirstKept
<1>3. /\ r \in doomed /\ doomed' = doomed \ {r}
      /\ task' = [task EXCEPT ![r] = "over"]
      /\ stray' = IF task[r] = "bound" THEN stray \cup {r} ELSE stray
  BY DEF Cancelled
<1>4. RequestOK(r) /\ task[r] \in Underway /\ asked[r] = "failed"
  BY <1>3 DEF RequestOK, FailedOK
<1>5. \A x \in Requests :
          /\ Result(TRUE, x)' <=> Result(TRUE, x)
          /\ Result(FALSE, x)' <=> Result(FALSE, x)
      \/ /\ task[r] \in {"granting", "refusing"}
         /\ \A y \in Requests :
              /\ Result(TRUE, y)' <=> Result(TRUE, y) \/ (y = r /\ task[r] = "granting")
              /\ Result(FALSE, y)' <=> Result(FALSE, y) \/ (y = r /\ task[r] # "granting")
  <2>1. CASE toClient' = toClient
    BY <2>1 DEF Result
  <2>2. CASE /\ task[r] \in {"granting", "refusing"}
             /\ toClient' = Append(toClient, <<task[r] = "granting", r>>)
    BY <2>2, ResultSent
  <2>3. QED BY <2>1, <2>2 DEF Cancelled
<1>6. ASSUME NEW x \in Requests PROVE RequestOK(x)'
  <2>1. (Listening(x)' <=> Listening(x)) /\ (Closing(x)' <=> Closing(x))
    BY <1>1 DEF Listening, Closing
  <2>2. RequestOK(x)
    OBVIOUS
  <2>3. CASE x = r
    <3>1. task'[x] = "over" /\ x \notin doomed'
      BY <1>3, <2>3
    <3>2. Result(FALSE, x)' => Result(FALSE, x) \/ task[r] = "refusing"
      BY <1>5, <2>3
    <3>3. QED
      BY <1>1, <1>4, <2>1, <2>2, <2>3, <3>1, <3>2
      DEF RequestOK, NewOK, EarlyOK, FailedOK, KnownOK, Early, Underway
  <2>4. CASE x # r
    <3>1. /\ task'[x] = task[x]
          /\ Result(TRUE, x)' <=> Result(TRUE, x)
          /\ Result(FALSE, x)' <=> Result(FALSE, x)
          /\ x \in doomed' <=> x \in doomed
          /\ x \in stray' <=> x \in stray
      BY <1>3, <1>5, <2>4
    <3>2. QED
      BY <1>1, <2>1, <2>2, <3>1 DEF RequestOK, NewOK, EarlyOK, FailedOK, KnownOK
  <2>5. QED BY <2>3, <2>4
<1>7. QED BY <1>2, <1>6

\* Every step keeps the types and the agreement of frames and requests.
LEMMA FramesStep == FramesInv /\ [ListenersNext]_listenerVars => FramesInv'
<1> SUFFICES ASSUME FramesInv, [ListenersNext]_listenerVars PROVE FramesInv'
  OBVIOUS
<1>1. ListenersTypeOK'
  BY TypeStep DEF FramesInv
<1>2. ListenFirst' /\ \A x \in Requests : RequestOK(x)'
  <2>1. ASSUME NEW r \in Requests, RequestListener(r) \/ GiveUp(r) \/ Task(r)
        PROVE  ListenFirst' /\ \A x \in Requests : RequestOK(x)'
    BY <2>1, AskOK, GiveUpOK, QuietOK, AnswerOK, CancelledOK DEF Task
  <2>2. CASE RecvResult \/ RecvListen \/ RecvClose
    BY <2>2, RecvResultOK, RecvListenOK, RecvCloseOK
  <2>3. CASE UNCHANGED listenerVars
    <3>1. UNCHANGED <<asked, toAgent, toClient, task, doomed, active, closing, stray>>
      BY <2>3 DEF listenerVars
    <3>2. QED
      BY <3>1 DEF FramesInv, ListenFirst, RequestOK, NewOK, EarlyOK, FailedOK, KnownOK,
                  Listening, Closing, Result
  <2>4. QED BY <2>1, <2>2, <2>3 DEF ListenersNext
<1>3. QED BY <1>1, <1>2 DEF FramesInv

-----------------------------------------------------------------------------
(* The tables *)

LEMMA TablesStep == FramesInv /\ TablesInv /\ [ListenersNext]_listenerVars => TablesInv'
<1> SUFFICES ASSUME FramesInv, TablesInv, [ListenersNext]_listenerVars PROVE TablesInv'
  OBVIOUS
<1> USE DEF TablesInv, Disjoint, TablesAgree
<1>1. ListenersTypeOK /\ \A r \in Requests : EarlyOK(r) /\ FailedOK(r)
  BY DEF FramesInv, RequestOK
<1>2. CASE UNCHANGED <<task, active, closing, listeners, bound, stray>>
  BY <1>2
<1>3. CASE RecvListen
  <2>1. PICK r \in Requests :
           /\ Head(toAgent) = <<"LISTEN", r>>
           /\ task' = task \/ task' = [task EXCEPT ![r] = "created"]
    BY <1>1, <1>3, RecvListenIs
  <2>2. UNCHANGED <<active, closing, listeners, bound, stray>>
    BY <1>3 DEF RecvListen, tables, servers
  <2>3. task[r] = "none"
    <3>1. toAgent \in Seq(Frames) /\ toAgent # <<>>
      BY <1>1, <1>3 DEF RecvListen, ListenersTypeOK, Frames
    <3>2. In(<<"LISTEN", r>>, toAgent)
      BY <2>1, <3>1, InTail
    <3>3. NewOK(r)
      BY DEF FramesInv, RequestOK
    <3>4. QED BY <3>2, <3>3 DEF NewOK, Listening
  <2>4. {s \in Requests : task'[s] = "bound"} = {s \in Requests : task[s] = "bound"}
    BY <1>1, <2>1, <2>3 DEF ListenersTypeOK
  <2>5. QED BY <2>2, <2>4
<1>4. CASE RecvClose
  <2> DEFINE r == Head(toAgent)[2]
  <2>1. active' = active \ {r} /\ closing' = closing \cup ({r} \cap active)
    BY <1>4 DEF RecvClose
  <2>2. UNCHANGED <<task, listeners, bound, stray>>
    BY <1>4 DEF RecvClose, servers
  <2> HIDE DEF r
  <2>3. QED BY <2>1, <2>2
<1>5. ASSUME NEW r \in Requests, Start(r) \/ StartFails(r) \/ Answer(r) PROVE TablesInv'
  <2>1. UNCHANGED <<active, closing, listeners, bound, stray>>
    BY <1>5 DEF Start, StartFails, Answer, tables, servers
  <2>2. {s \in Requests : task'[s] = "bound"} = {s \in Requests : task[s] = "bound"}
    BY <1>1, <1>5 DEF Start, StartFails, Answer, ListenersTypeOK
  <2>3. QED BY <2>1, <2>2
<1>6. ASSUME NEW r \in Requests, Bind(r) PROVE TablesInv'
  <2>1. {s \in Requests : task'[s] = "bound"} = {s \in Requests : task[s] = "bound"} \cup {r}
    BY <1>1, <1>6 DEF Bind, ListenersTypeOK
  <2>2. bound' = bound \cup {r} /\ UNCHANGED <<active, closing, listeners, stray>>
    BY <1>6 DEF Bind, tables
  <2>3. QED BY <2>1, <2>2
<1>7. ASSUME NEW r \in Requests, Register(r) PROVE TablesInv'
  <2>1. {s \in Requests : task'[s] = "bound"} = {s \in Requests : task[s] = "bound"} \ {r}
    BY <1>1, <1>7 DEF Register, ListenersTypeOK
  <2>2. /\ active' = active \cup {r} /\ listeners' = listeners \cup {r}
        /\ UNCHANGED <<closing, bound, stray>>
    BY <1>7 DEF Register, servers
  <2>3. task[r] = "bound" /\ r \notin active /\ r \notin closing /\ r \notin stray
    BY <1>1, <1>7 DEF Register, EarlyOK, Early
  <2>4. r \in bound
    BY <2>3
  <2>5. QED BY <2>1, <2>2, <2>3, <2>4
<1>8. ASSUME NEW r \in Requests, Cancelled(r) PROVE TablesInv'
  <2>1. {s \in Requests : task'[s] = "bound"} = {s \in Requests : task[s] = "bound"} \ {r}
    BY <1>1, <1>8 DEF Cancelled, ListenersTypeOK
  <2>2. UNCHANGED <<active, closing, listeners, bound>>
    BY <1>8 DEF Cancelled, tables
  <2>3. stray' = IF task[r] = "bound" THEN stray \cup {r} ELSE stray
    BY <1>8 DEF Cancelled
  <2>4. task[r] = "bound" => r \notin active /\ r \notin closing
    BY <1>1 DEF EarlyOK, Early
  <2>5. CASE task[r] = "bound"
    BY <2>1, <2>2, <2>3, <2>4, <2>5
  <2>6. CASE task[r] # "bound"
    BY <2>1, <2>2, <2>3, <2>6
  <2>7. QED BY <2>5, <2>6
<1>9. ASSUME NEW r \in Requests, CancelListener(r) PROVE TablesInv'
  <2>1. /\ r \in closing /\ closing' = closing \ {r} /\ listeners' = listeners \ {r}
        /\ bound' = bound \ ({r} \cap listeners)
        /\ UNCHANGED <<task, active, stray>>
    BY <1>9 DEF CancelListener
  <2>2. r \notin active /\ r \in listeners /\ r \notin stray
    BY <2>1
  <2>3. task[r] # "bound"
    BY <1>1, <2>1 DEF EarlyOK, Early
  <2>4. QED BY <2>1, <2>2, <2>3
<1>10. ASSUME NEW r \in Requests, RequestListener(r) \/ GiveUp(r) PROVE TablesInv'
  BY <1>10, <1>2 DEF RequestListener, GiveUp, tables, servers
<1>11. CASE RecvResult
  BY <1>11, <1>2 DEF RecvResult, tables, servers
<1>12. CASE UNCHANGED listenerVars
  BY <1>12, <1>2 DEF listenerVars
<1>13. QED
  BY <1>3, <1>4, <1>5, <1>6, <1>7, <1>8, <1>9, <1>10, <1>11, <1>12 DEF ListenersNext, Task

-----------------------------------------------------------------------------
(* The limit *)

LEMMA CountedFinite ==
    ASSUME ListenersTypeOK
    PROVE  IsFiniteSet(active) /\ IsFiniteSet(Inbound) /\ IsFiniteSet(Counted)
<1>1. active \subseteq Requests /\ Inbound \subseteq Requests /\ Counted \subseteq Requests
  BY DEF ListenersTypeOK, Inbound, Counted
<1>2. QED BY <1>1, FS_Subset, ListenRequestsAssumption

\* A step that counts nothing new.
LEMMA CountNoMore ==
    ASSUME ListenersTypeOK, LimitInv, Counted' \subseteq Counted
    PROVE  LimitInv'
<1>1. /\ Cardinality(Counted') <= Cardinality(Counted)
      /\ Cardinality(Counted') \in Nat /\ Cardinality(Counted) \in Nat
  BY CountedFinite, FS_Subset, FS_CardinalityType
<1>2. QED BY <1>1, MaxListenersAssumption DEF LimitInv

LEMMA LimitStep == FramesInv /\ LimitInv /\ [ListenersNext]_listenerVars => LimitInv'
<1> SUFFICES ASSUME FramesInv, LimitInv, [ListenersNext]_listenerVars PROVE LimitInv'
  OBVIOUS
<1>1. ListenersTypeOK
  BY DEF FramesInv
<1>2. CASE RecvListen
  <2>1. PICK r \in Requests :
           \/ task' = task
           \/ /\ ~(Cardinality(active) + Cardinality(Inbound) >= MaxListeners)
              /\ task' = [task EXCEPT ![r] = "created"]
    BY <1>1, <1>2, RecvListenIs
  <2>2. active' = active
    BY <1>2 DEF RecvListen, tables
  <2>3. CASE task' = task
    <3>1. Counted' = Counted
      BY <2>2, <2>3 DEF Counted, Inbound
    <3>2. QED BY <3>1 DEF LimitInv
  <2>4. CASE /\ ~(Cardinality(active) + Cardinality(Inbound) >= MaxListeners)
             /\ task' = [task EXCEPT ![r] = "created"]
    <3>1. Counted' \subseteq Counted \cup {r}
      BY <1>1, <2>2, <2>4 DEF Counted, Inbound, ListenersTypeOK
    <3>2. /\ Cardinality(active) \in Nat /\ Cardinality(Inbound) \in Nat
          /\ Cardinality(Counted) \in Nat
      BY <1>1, CountedFinite, FS_CardinalityType
    <3>3. Cardinality(active \cap Inbound) \in Nat
      BY <1>1, CountedFinite, FS_Intersection, FS_CardinalityType
    <3>4. Cardinality(Counted)
             = Cardinality(active) + Cardinality(Inbound) - Cardinality(active \cap Inbound)
      BY <1>1, CountedFinite, FS_Union DEF Counted
    <3>5. Cardinality(Counted) + 1 <= MaxListeners
      BY <2>4, <3>2, <3>3, <3>4, MaxListenersAssumption
    <3>6. /\ IsFiniteSet(Counted \cup {r}) /\ Cardinality(Counted \cup {r}) \in Nat
          /\ Cardinality(Counted \cup {r}) <= Cardinality(Counted) + 1
      <4>1. IsFiniteSet(Counted \cup {r}) /\ Cardinality(Counted \cup {r}) \in Nat
        BY <1>1, CountedFinite, FS_AddElement, FS_CardinalityType
      <4>2. CASE r \in Counted
        <5>1. Counted \cup {r} = Counted
          BY <4>2
        <5>2. Cardinality(Counted \cup {r}) = Cardinality(Counted)
          BY <5>1, Zenon
        <5>3. QED BY <4>1, <5>2, <3>2
      <4>3. CASE r \notin Counted
        <5>1. Cardinality(Counted \cup {r}) = Cardinality(Counted) + 1
          BY <1>1, <4>3, CountedFinite, FS_AddElement
        <5>2. QED BY <4>1, <5>1, <3>2
      <4>4. QED BY <4>2, <4>3
    <3>7. Cardinality(Counted') <= Cardinality(Counted \cup {r}) /\ Cardinality(Counted') \in Nat
      BY <3>1, <3>6, FS_Subset, FS_CardinalityType
    <3>8. QED BY <3>2, <3>5, <3>6, <3>7, MaxListenersAssumption DEF LimitInv
  <2>5. QED BY <2>1, <2>3, <2>4
<1>3. ASSUME NEW r \in Requests, Task(r) PROVE Counted' \subseteq Counted
  <2> USE <1>1 DEF Counted, Inbound, ListenersTypeOK, tables
  <2>1. CASE Start(r) \/ StartFails(r)
    BY <2>1 DEF Start, StartFails
  <2>2. CASE Bind(r)
    BY <2>2 DEF Bind
  <2>3. CASE Register(r)
    BY <2>3 DEF Register
  <2>4. CASE Answer(r)
    BY <2>4 DEF Answer
  <2>5. CASE Cancelled(r)
    BY <2>5 DEF Cancelled
  <2>6. CASE CancelListener(r)
    BY <2>6 DEF CancelListener
  <2>7. QED BY <1>3, <2>1, <2>2, <2>3, <2>4, <2>5, <2>6 DEF Task
<1>4. ASSUME NEW r \in Requests, RequestListener(r) \/ GiveUp(r) PROVE Counted' \subseteq Counted
  BY <1>4 DEF RequestListener, GiveUp, tables, Counted, Inbound
<1>5. CASE RecvResult
  BY <1>5, <1>1, CountNoMore DEF RecvResult, tables, Counted, Inbound
<1>6. CASE RecvClose
  BY <1>6, <1>1, CountNoMore DEF RecvClose, Counted, Inbound
<1>7. CASE UNCHANGED listenerVars
  BY <1>7, <1>1, CountNoMore DEF listenerVars, Counted, Inbound
<1>8. QED BY <1>1, <1>2, <1>3, <1>4, <1>5, <1>6, <1>7, CountNoMore DEF ListenersNext

-----------------------------------------------------------------------------

Inv == FramesInv /\ TablesInv /\ LimitInv

LEMMA InitInv == ListenersInit => Inv
<1> SUFFICES ASSUME ListenersInit PROVE Inv
  OBVIOUS
<1>1. FramesInv
  <2>1. ListenersTypeOK
    BY DEF ListenersInit, ListenersTypeOK
  <2>2. ListenFirst
    BY DEF ListenersInit, ListenFirst
  <2>3. ASSUME NEW r \in Requests PROVE RequestOK(r)
    <3>1. ~Listening(r) /\ ~Closing(r) /\ ~Result(TRUE, r) /\ ~Result(FALSE, r)
      BY InEmpty, Zenon DEF ListenersInit, Listening, Closing, Result
    <3>2. QED
      BY <3>1 DEF ListenersInit, RequestOK, NewOK, EarlyOK, FailedOK, KnownOK, Underway
  <2>4. QED BY <2>1, <2>2, <2>3 DEF FramesInv
<1>2. TablesInv
  BY DEF ListenersInit, TablesInv, Disjoint, TablesAgree
<1>3. LimitInv
  <2>1. Counted = {}
    BY DEF ListenersInit, Counted, Inbound
  <2>2. Cardinality(Counted) = 0
    BY <2>1, FS_EmptySet
  <2>3. QED BY <2>2, MaxListenersAssumption DEF LimitInv
<1>4. QED BY <1>1, <1>2, <1>3 DEF Inv

LEMMA InvAgrees == Inv => ListenersAgree
<1> SUFFICES ASSUME Inv PROVE ListenersAgree
  OBVIOUS
<1>1. ListenersTypeOK /\ TablesInv /\ \A r \in Requests : RequestOK(r)
  BY DEF Inv, FramesInv
<1>2. ListenerLimit
  <2>1. Cardinality(active) <= Cardinality(Counted)
    BY <1>1, CountedFinite, FS_Subset DEF Counted
  <2>2. Cardinality(active) \in Nat /\ Cardinality(Counted) \in Nat
    BY <1>1, CountedFinite, FS_CardinalityType
  <2>3. QED BY <2>1, <2>2, MaxListenersAssumption DEF Inv, LimitInv, ListenerLimit
<1>3. TablesAgree
  BY <1>1 DEF TablesInv
<1>4. ClientKnows
  <2>1. SUFFICES ASSUME toAgent = <<>>, toClient = <<>>, Inbound = {}, closing = {}
                 PROVE  listeners = {r \in Requests : asked[r] = "granted"}
    BY DEF ClientKnows
  <2>2. listeners = active /\ active \subseteq Requests
    BY <1>1, <2>1 DEF TablesInv, TablesAgree, ListenersTypeOK
  <2>3. ASSUME NEW r \in Requests PROVE r \in active <=> asked[r] = "granted"
    <3>1. ~Closing(r) /\ ~Result(TRUE, r)
      BY <2>1, InEmpty, Zenon DEF Closing, Result
    <3>2. task[r] \in {"none", "over"}
      BY <2>1 DEF Inbound
    <3>3. asked[r] \in {"none", "waiting", "granted", "failed"}
      BY <1>1 DEF ListenersTypeOK
    <3>4. NewOK(r) /\ EarlyOK(r) /\ FailedOK(r) /\ KnownOK(r)
      BY <1>1 DEF RequestOK
    <3>5. QED
      BY <3>1, <3>2, <3>3, <3>4 DEF NewOK, EarlyOK, FailedOK, KnownOK, Early
  <2>4. QED BY <2>2, <2>3
<1>5. QED BY <1>2, <1>3, <1>4 DEF ListenersAgree

\* Wherever a CLOSE meets a LISTEN that is being handled, and however many
\* requests there are: never are more listeners active than the agent's peer
\* allows, its tables and the forwarder's agree with the servers that listen, and
\* when nothing is under way the client believes in exactly the listeners there are.
THEOREM ListenersCorrect == ListenersSpec => []ListenersAgree
<1>1. Inv /\ [ListenersNext]_listenerVars => Inv'
  BY FramesStep, TablesStep, LimitStep DEF Inv
<1>2. QED BY <1>1, InitInv, InvAgrees, PTL DEF ListenersSpec

-----------------------------------------------------------------------------
(* One bridged connection.                                                 *)

\* What s has sent and the bridge at the other side has neither given its
\* application nor has in its buffer.
Coming(s) == sent[s] - given[Other(s)] - stream[Other(s)].buffer

LEMMA SidesLemma ==
    /\ \A s \in Sides : Other(s) \in Sides /\ Other(s) # s /\ Other(Other(s)) = s
    /\ \A s, r \in Sides : r = s \/ r = Other(s)
BY DEF Sides, Other

StreamType == [buffer : Nat, localEof : BOOLEAN, remoteEof : BOOLEAN, closed : BOOLEAN,
               reset : BOOLEAN]

BridgeTypes ==
    /\ wrote \in [Sides -> Nat] /\ given \in [Sides -> Nat]
    /\ sent \in [Sides -> Nat]
    /\ end \in [Sides -> {"open", "eof", "reset"}]
    /\ fin \in [Sides -> {"none", "eof", "closed"}]
    /\ up \in [Sides -> {"read", "write", "eof", "done", "failed", "cancelled"}]
    /\ down \in [Sides -> {"read", "drain", "done", "failed", "cancelled"}]
    /\ bridge \in [Sides -> {"running", "unwinding", "closing", "released", "done", "cut"}]
    /\ aborted \in [Sides -> BOOLEAN]
    /\ stream \in [Sides -> StreamType]
    /\ wire \in [Sides -> Seq({"DATA", "HALF_CLOSE", "CLOSE"})]
    /\ tunnel \in BOOLEAN
    /\ faults \in 0..MaxFaults

\* How far the pump from the application has come, and why it stopped.
UpOK(s) ==
    /\ sent[s] <= wrote[s]
    /\ up[s] = "write" => sent[s] < wrote[s]
    /\ up[s] \in {"eof", "done"} \/ stream[s].localEof =>
            sent[s] = wrote[s] /\ end[s] # "open"
    /\ stream[s].localEof => up[s] \in {"done", "cancelled"}

\* What is on the wire from s, as long as the stream at the other side reads it: first
\* the data that is coming, behind it the half-close and the close.
WireOK(s) ==
    LET st == stream[Other(s)] IN
    /\ \A i \in 1..Len(wire[s]) : wire[s][i] = "HALF_CLOSE" => stream[s].localEof
    /\ \A i \in 1..Len(wire[s]) : wire[s][i] = "CLOSE" => stream[s].closed
    /\ Coming(s) >= 0 /\ sent[s] - given[Other(s)] <= Window
    /\ ~st.remoteEof => /\ Coming(s) <= Len(wire[s])
                        /\ \A i \in 1..Len(wire[s]) : wire[s][i] = "DATA" <=> i <= Coming(s)
    /\ st.remoteEof /\ ~st.closed => \A i \in 1..Len(wire[s]) : wire[s][i] # "DATA"

\* The end of a stream that was not reset is that of all data.
StreamOK(s) ==
    /\ stream[s].closed => stream[s].remoteEof
    /\ stream[s].reset => stream[s].closed
    /\ /\ stream[s].remoteEof /\ ~stream[s].reset
       /\ stream[s].closed => bridge[s] \in {"running", "unwinding"}
       => stream[Other(s)].localEof /\ Coming(Other(s)) = 0
    /\ ~tunnel => stream[s].closed /\ wire[s] = <<>>

\* What the application has been shown, and on what ground.
DownOK(s) ==
    /\ fin[s] = "eof" => given[s] = wrote[Other(s)] /\ end[Other(s)] # "open"
    /\ down[s] = "done" => fin[s] = "eof"
    /\ bridge[s] \in {"unwinding", "closing", "released", "done"} /\ ~aborted[s] =>
            up[s] = "done" /\ down[s] = "done"

BridgeInv ==
    /\ BridgeTypes
    /\ \A s \in Sides : UpOK(s) /\ WireOK(s) /\ StreamOK(s) /\ DownOK(s)

LEMMA BridgeInitInv == BridgeInit => BridgeInv
<1> SUFFICES ASSUME BridgeInit PROVE BridgeInv
  OBVIOUS
<1>1. BridgeTypes
  BY FaultsAssumption DEF BridgeInit, BridgeTypes, StreamType
<1>2. ASSUME NEW s \in Sides PROVE UpOK(s) /\ WireOK(s) /\ StreamOK(s) /\ DownOK(s)
  BY SidesLemma, WindowAssumption
  DEF BridgeInit, UpOK, WireOK, StreamOK, DownOK, Coming
<1> QED
  BY <1>1, <1>2 DEF BridgeInv

\* The application writes, ends or dies.
LEMMA AppBridge == ASSUME BridgeInv, NEW s \in Sides, App(s) PROVE BridgeInv'
<1>0. /\ UNCHANGED <<given, fin, up, down, bridge, aborted, stream, sent, wire, tunnel>>
      /\ BridgeTypes
  BY DEF BridgeInv, App, AppWrites, AppEnds, AppDies, tasks
<1>1. BridgeTypes'
  <2>a. wrote \in [Sides -> Nat] /\ end \in [Sides -> {"open", "eof", "reset"}]
    BY <1>0 DEF BridgeTypes
  <2>1. wrote' \in [Sides -> Nat]
    BY <2>a DEF App, AppWrites, AppEnds, AppDies
  <2>2. end' \in [Sides -> {"open", "eof", "reset"}]
    BY <2>a DEF App, AppWrites, AppEnds, AppDies
  <2>3. faults' \in 0..MaxFaults
    BY <1>0, FaultsAssumption DEF App, AppWrites, AppEnds, AppDies, Fault, BridgeTypes
  <2> QED
    BY <1>0, <2>1, <2>2, <2>3 DEF BridgeTypes
<1>2. ASSUME NEW x \in Sides
      PROVE  UpOK(x)' /\ WireOK(x)' /\ StreamOK(x)' /\ DownOK(x)'
  <2>1. UpOK(x)'
    BY SidesLemma
    DEF BridgeInv, BridgeTypes, UpOK, App, AppWrites, AppEnds, AppDies
  <2>2. WireOK(x)' /\ StreamOK(x)'
    BY SidesLemma
    DEF BridgeInv, WireOK, StreamOK, Coming, App, AppWrites, AppEnds, AppDies, tasks, apps
  <2>3. DownOK(x)'
    BY SidesLemma
    DEF BridgeInv, BridgeTypes, DownOK, App, AppWrites, AppEnds, AppDies, tasks
  <2> QED
    BY <2>1, <2>2, <2>3
<1> QED
  BY <1>1, <1>2 DEF BridgeInv


\* Only the bookkeeping of bridge_socket moves.
LEMMA BookBridge ==
    ASSUME BridgeInv, NEW s \in Sides,
           UNCHANGED <<apps, given, up, down, stream, sent, wire, tunnel>>,
           fin' \in [Sides -> {"none", "eof", "closed"}],
           \A x \in Sides : fin'[x] = "eof" <=> fin[x] = "eof",
           bridge' \in [Sides -> {"running", "unwinding", "closing", "released", "done", "cut"}],
           aborted' \in [Sides -> BOOLEAN], faults' \in 0..MaxFaults,
           \A x \in Sides : bridge'[x] \in {"running", "unwinding"} =>
                bridge[x] \in {"running", "unwinding"},
           \A x \in Sides :
                bridge'[x] \in {"unwinding", "closing", "released", "done"} /\ ~aborted'[x] =>
                    up[x] = "done" /\ down[x] = "done"
    PROVE  BridgeInv'
<1>1. BridgeTypes'
  BY DEF BridgeInv, BridgeTypes, apps
<1>2. ASSUME NEW x \in Sides
      PROVE  UpOK(x)' /\ WireOK(x)' /\ StreamOK(x)' /\ DownOK(x)'
  <2>1. UpOK(x)' /\ WireOK(x)'
    BY DEF BridgeInv, UpOK, WireOK, Coming, apps
  <2>2. StreamOK(x)'
    BY SidesLemma DEF BridgeInv, StreamOK, Coming
  <2>3. DownOK(x)'
    BY DEF BridgeInv, DownOK, apps
  <2> QED
    BY <2>1, <2>2, <2>3
<1> QED
  BY <1>1, <1>2 DEF BridgeInv

LEMMA UnwindBridge ==
    ASSUME BridgeInv, NEW s \in Sides, NEW a \in BOOLEAN, Unwind(s, a), bridge[s] = "running",
           ~a => up[s] = "done" /\ down[s] = "done", faults' \in 0..MaxFaults
    PROVE  BridgeInv'
<1>1. /\ UNCHANGED <<apps, given, up, down, stream, sent, wire, tunnel, fin>>
      /\ bridge' = [bridge EXCEPT ![s] = "unwinding"]
      /\ aborted' = [aborted EXCEPT ![s] = a]
  BY DEF Unwind, apps
<1>2. BridgeTypes
  BY DEF BridgeInv
<1>3. ASSUME NEW x \in Sides,
             bridge'[x] \in {"unwinding", "closing", "released", "done"}, ~aborted'[x]
      PROVE  up[x] = "done" /\ down[x] = "done"
  <2>1. CASE x = s
    BY <1>1, <1>2, <1>3, <2>1 DEF BridgeTypes
  <2>2. CASE x # s
    BY <1>1, <1>2, <1>3, <2>2 DEF BridgeTypes, BridgeInv, DownOK
  <2> QED
    BY <2>1, <2>2
<1>4. /\ bridge' \in [Sides -> {"running", "unwinding", "closing", "released", "done", "cut"}]
      /\ aborted' \in [Sides -> BOOLEAN] /\ fin' \in [Sides -> {"none", "eof", "closed"}]
      /\ \A x \in Sides : bridge'[x] \in {"running", "unwinding"} =>
                bridge[x] \in {"running", "unwinding"}
  BY <1>1, <1>2 DEF BridgeTypes
<1> QED
  BY <1>1, <1>3, <1>4, BookBridge

\* asyncio.wait returns, the timer expires, or the task is cancelled in it.
LEMMA StopBridge ==
    ASSUME BridgeInv, NEW s \in Sides, Observe(s) \/ Expire(s) \/ Cancel(s) \/ CloseSocket(s)
    PROVE  BridgeInv'
<1>0. BridgeTypes /\ faults \in 0..MaxFaults /\ MaxFaults \in Nat
  BY FaultsAssumption DEF BridgeInv, BridgeTypes
<1>a. Fault => faults' \in 0..MaxFaults
  BY <1>0 DEF Fault
<1>1. CASE Observe(s)
  <2> DEFINE a == up[s] = "failed" \/ down[s] = "failed"
  <2>1. bridge[s] = "running" /\ Unwind(s, a) /\ faults' = faults
    BY <1>1 DEF Observe
  <2>2. a \in BOOLEAN /\ (~a => up[s] = "done" /\ down[s] = "done")
    BY <1>1 DEF Observe
  <2> HIDE DEF a
  <2> QED
    BY <1>0, <2>1, <2>2, UnwindBridge
<1>2. CASE Expire(s)
  BY <1>a, <1>2, UnwindBridge DEF Expire
<1>3. CASE Cancel(s) /\ bridge[s] = "running"
  BY <1>a, <1>3, UnwindBridge DEF Cancel
<1>4. CASE Cancel(s) /\ bridge[s] # "running"
  <2>1. /\ UNCHANGED <<apps, given, up, down, stream, sent, wire, tunnel, fin, aborted>>
        /\ bridge' = [bridge EXCEPT ![s] = "cut"] /\ faults' \in 0..MaxFaults
    BY <1>a, <1>4 DEF Cancel, apps
  <2>2. /\ bridge \in [Sides -> {"running", "unwinding", "closing", "released", "done", "cut"}]
        /\ aborted \in [Sides -> BOOLEAN] /\ fin \in [Sides -> {"none", "eof", "closed"}]
    BY <1>0 DEF BridgeTypes
  <2>3. /\ bridge' \in [Sides -> {"running", "unwinding", "closing", "released", "done", "cut"}]
        /\ \A x \in Sides : bridge'[x] = bridge[x] \/ bridge'[x] = "cut"
    BY <2>1, <2>2
  <2>4. ASSUME NEW x \in Sides,
               bridge'[x] \in {"unwinding", "closing", "released", "done"}, ~aborted'[x]
        PROVE  up[x] = "done" /\ down[x] = "done"
    BY <2>1, <2>3, <2>4 DEF BridgeInv, DownOK
  <2> QED
    BY <2>1, <2>2, <2>3, <2>4, BookBridge
<1>5. CASE CloseSocket(s)
  <2>1. /\ UNCHANGED <<apps, given, up, down, stream, sent, wire, tunnel, aborted, faults>>
        /\ bridge[s] = "released" /\ bridge' = [bridge EXCEPT ![s] = "done"]
        /\ fin' = [fin EXCEPT ![s] = IF @ = "none" THEN "closed" ELSE @]
    BY <1>5 DEF CloseSocket, apps
  <2>2. /\ fin' \in [Sides -> {"none", "eof", "closed"}]
        /\ \A x \in Sides : fin'[x] = "eof" <=> fin[x] = "eof"
    BY <1>0, <2>1 DEF BridgeTypes
  <2>3. /\ bridge' \in [Sides -> {"running", "unwinding", "closing", "released", "done", "cut"}]
        /\ \A x \in Sides : bridge'[x] \in {"running", "unwinding"} =>
                bridge[x] \in {"running", "unwinding"}
        /\ \A x \in Sides : bridge'[x] \in {"unwinding", "closing", "released", "done"} =>
                bridge[x] \in {"unwinding", "closing", "released", "done"}
    BY <1>0, <2>1 DEF BridgeTypes
  <2>4. ASSUME NEW x \in Sides,
               bridge'[x] \in {"unwinding", "closing", "released", "done"}, ~aborted'[x]
        PROVE  up[x] = "done" /\ down[x] = "done"
    BY <2>1, <2>3, <2>4 DEF BridgeInv, DownOK
  <2>5. aborted' \in [Sides -> BOOLEAN] /\ faults' \in 0..MaxFaults
    BY <1>0, <2>1 DEF BridgeTypes
  <2> QED
    BY <2>1, <2>2, <2>3, <2>4, <2>5, BookBridge
<1> QED
  BY <1>1, <1>2, <1>3, <1>4, <1>5

-----------------------------------------------------------------------------
(* The wire.                                                               *)

\* A frame is put behind the others.
LEMMA SendBridge ==
    ASSUME BridgeInv, NEW s \in Sides, NEW f \in {"DATA", "HALF_CLOSE", "CLOSE"}, Send(s, f),
           ~stream[s].closed
    PROVE  /\ wire' \in [Sides -> Seq({"DATA", "HALF_CLOSE", "CLOSE"})]
           /\ wire'[Other(s)] = wire[Other(s)]
           /\ Len(wire[s]) \in Nat /\ Len(wire'[s]) = Len(wire[s]) + 1
           /\ wire'[s][Len(wire[s]) + 1] = f
           /\ \A i \in 1..Len(wire[s]) : wire'[s][i] = wire[s][i]
           /\ \A i \in 1..Len(wire'[s]) :
                \/ i \in 1..Len(wire[s]) /\ wire'[s][i] = wire[s][i]
                \/ i = Len(wire[s]) + 1 /\ wire'[s][i] = f
           /\ tunnel
<1>1. tunnel
  BY DEF BridgeInv, StreamOK
<1>2. wire \in [Sides -> Seq({"DATA", "HALF_CLOSE", "CLOSE"})]
  BY DEF BridgeInv, BridgeTypes
<1>3. wire' = [wire EXCEPT ![s] = Append(wire[s], f)]
  BY <1>1, <1>2 DEF Send
<1>4. /\ wire' \in [Sides -> Seq({"DATA", "HALF_CLOSE", "CLOSE"})]
      /\ wire'[Other(s)] = wire[Other(s)]
      /\ Len(wire[s]) \in Nat /\ Len(wire'[s]) = Len(wire[s]) + 1
      /\ wire'[s][Len(wire[s]) + 1] = f
      /\ \A i \in 1..Len(wire[s]) : wire'[s][i] = wire[s][i]
  BY <1>2, <1>3, SidesLemma
<1>5. \A i \in 1..Len(wire'[s]) : i \in 1..Len(wire[s]) \/ i = Len(wire[s]) + 1
  BY <1>4
<1> QED
  BY <1>1, <1>4, <1>5

\* The first frame is taken.
LEMMA TakeBridge ==
    ASSUME BridgeInv, NEW s \in Sides, wire[s] # <<>>, wire' = [wire EXCEPT ![s] = Tail(@)]
    PROVE  /\ wire' \in [Sides -> Seq({"DATA", "HALF_CLOSE", "CLOSE"})]
           /\ wire'[Other(s)] = wire[Other(s)]
           /\ Len(wire[s]) \in Nat \ {0} /\ Len(wire'[s]) = Len(wire[s]) - 1
           /\ \A i \in 1..Len(wire'[s]) :
                i + 1 \in 1..Len(wire[s]) /\ wire'[s][i] = wire[s][i + 1]
           /\ 1 \in 1..Len(wire[s]) /\ Head(wire[s]) = wire[s][1]
           /\ Head(wire[s]) \in {"DATA", "HALF_CLOSE", "CLOSE"}
<1>2. wire \in [Sides -> Seq({"DATA", "HALF_CLOSE", "CLOSE"})]
  BY DEF BridgeInv, BridgeTypes
<1> QED
  BY <1>2, SidesLemma

\* A CLOSE, or the end of the tunnel, at a stream.
LEMMA RemoteCloseLemma ==
    ASSUME NEW st \in StreamType, st.closed => st.remoteEof
    PROVE  LET r == RemoteClose(st) IN
           /\ r \in StreamType
           /\ r.closed /\ r.remoteEof /\ (r.localEof <=> st.localEof)
           /\ st.closed => r = st
           /\ st.remoteEof => r.buffer = st.buffer /\ (r.reset <=> st.reset)
           /\ ~st.remoteEof => r.buffer = 0 /\ r.reset
<1> DEFINE r == RemoteClose(st)
<1>1. CASE st.closed
  BY <1>1 DEF RemoteClose, StreamType
<1>2. CASE ~st.closed /\ st.remoteEof
  BY <1>2 DEF RemoteClose, StreamType
<1>3. CASE ~st.closed /\ ~st.remoteEof
  <2>1. r = [st EXCEPT !.closed = TRUE, !.remoteEof = TRUE, !.buffer = 0, !.reset = TRUE]
    BY <1>3 DEF RemoteClose, MarkClosed
  <2> HIDE DEF r
  <2>2. /\ r \in StreamType /\ r.localEof = st.localEof /\ r.closed = TRUE
        /\ r.remoteEof = TRUE /\ r.buffer = 0 /\ r.reset = TRUE
    BY <2>1 DEF StreamType
  <2> QED
    BY <1>3, <2>2 DEF r
<1> QED
  BY <1>1, <1>2, <1>3

\* A frame arrives.
LEMMA DeliverBridge == ASSUME BridgeInv, NEW s \in Sides, Deliver(s) PROVE BridgeInv'
<1> DEFINE o == Other(s)
           st == stream[o]
           new == stream'[o]
           f == Head(wire[s])
           w == wire[s]
           v == wire'[s]
           c == Coming(s)
<1>1. /\ wire[s] # <<>> /\ wire' = [wire EXCEPT ![s] = Tail(@)]
      /\ UNCHANGED <<wrote, end, given, fin, up, down, bridge, aborted, sent, tunnel, faults>>
      /\ \E r : /\ stream' = [stream EXCEPT ![o] = r]
                /\ f = "CLOSE" => r = RemoteClose(st)
                /\ f = "DATA" => r = IF st.closed THEN st ELSE [st EXCEPT !.buffer = @ + 1]
                /\ f = "HALF_CLOSE" => r = IF st.closed THEN st ELSE [st EXCEPT !.remoteEof = TRUE]
  BY DEF Deliver, apps, tasks
<1>2. /\ o \in Sides /\ o # s /\ Other(o) = s /\ \A x \in Sides : x = s \/ x = o
      /\ BridgeTypes
  BY SidesLemma DEF BridgeInv
<1>3. /\ wire' \in [Sides -> Seq({"DATA", "HALF_CLOSE", "CLOSE"})]
      /\ wire'[o] = wire[o]
      /\ Len(w) \in Nat \ {0} /\ Len(v) = Len(w) - 1
      /\ \A i \in 1..Len(v) : i + 1 \in 1..Len(w) /\ v[i] = w[i + 1]
      /\ 1 \in 1..Len(w) /\ f = w[1]
      /\ f \in {"DATA", "HALF_CLOSE", "CLOSE"}
  BY <1>1, TakeBridge
<1>4. /\ stream \in [Sides -> StreamType]
      /\ given \in [Sides -> Nat] /\ sent \in [Sides -> Nat]
  BY <1>2 DEF BridgeTypes
<1>5. stream'[s] = stream[s]
  BY <1>1, <1>2, <1>4
<1>6. /\ (new.localEof <=> st.localEof) /\ (st.closed => new = st)
      /\ new.closed <=> st.closed \/ f = "CLOSE"
      /\ new.remoteEof <=> st.remoteEof \/ f = "HALF_CLOSE" \/ f = "CLOSE"
      /\ new.reset <=> st.reset \/ (f = "CLOSE" /\ ~st.remoteEof)
      /\ new.buffer = IF f = "DATA" /\ ~st.closed THEN st.buffer + 1
                      ELSE IF f = "CLOSE" /\ ~st.remoteEof THEN 0 ELSE st.buffer
      /\ stream' \in [Sides -> StreamType]
  <2>0. /\ st \in StreamType
        /\ st.closed => st.remoteEof
    BY <1>2, <1>4 DEF BridgeInv, StreamOK
  <2> HIDE DEF st, f
  <2>1. PICK r : /\ stream' = [stream EXCEPT ![o] = r]
                 /\ f = "CLOSE" => r = RemoteClose(st)
                 /\ f = "DATA" => r = IF st.closed THEN st ELSE [st EXCEPT !.buffer = @ + 1]
                 /\ f = "HALF_CLOSE" => r = IF st.closed THEN st ELSE [st EXCEPT !.remoteEof = TRUE]
    BY <1>1
  <2>2. new = r
    BY <1>2, <1>4, <2>1
  <2> HIDE DEF new
  <2>3. CASE f = "DATA"
    BY <1>2, <1>4, <2>0, <2>1, <2>2, <2>3 DEF StreamType
  <2>4. CASE f = "HALF_CLOSE"
    BY <1>2, <1>4, <2>0, <2>1, <2>2, <2>4 DEF StreamType
  <2>5. CASE f = "CLOSE"
    <3>1. r = RemoteClose(st)
      BY <2>1, <2>5
    <3> QED
      BY <1>2, <1>4, <2>0, <2>1, <2>2, <2>5, <3>1, RemoteCloseLemma
  <2> QED
    BY <1>3, <2>3, <2>4, <2>5
<1>7. BridgeTypes'
  BY <1>1, <1>2, <1>3, <1>6 DEF BridgeTypes
<1>8. /\ Coming(o)' = Coming(o)
      /\ Coming(s)' = sent[s] - given[o] - new.buffer /\ c = sent[s] - given[o] - st.buffer
      /\ c \in Int /\ st.buffer \in Nat
  BY <1>1, <1>2, <1>4, <1>5 DEF Coming, StreamType
<1>b. sent[s] \in Nat /\ given[o] \in Nat
  BY <1>2, <1>4
<1>9. ASSUME NEW x \in Sides PROVE UpOK(x)' /\ DownOK(x)'
  <2>1. stream'[x].localEof <=> stream[x].localEof
    BY <1>2, <1>5, <1>6
  <2> QED
    BY <1>1, <2>1 DEF BridgeInv, UpOK, DownOK
<1>10. WireOK(o)' /\ StreamOK(s)'
  <2>1. WireOK(o) /\ StreamOK(s)
    BY <1>2 DEF BridgeInv
  <2> HIDE DEF new, st, f
  <2>2. WireOK(o)'
    BY <1>1, <1>2, <1>3, <1>5, <1>6, <1>8, <2>1 DEF WireOK, new, st
  <2>3. StreamOK(s)'
    BY <1>1, <1>2, <1>3, <1>5, <1>6, <1>8, <2>1 DEF StreamOK, new, st
  <2> QED
    BY <2>2, <2>3
<1>11. /\ \A i \in 1..Len(w) : w[i] = "HALF_CLOSE" => stream[s].localEof
       /\ \A i \in 1..Len(w) : w[i] = "CLOSE" => stream[s].closed
       /\ c >= 0 /\ sent[s] - given[o] <= Window
       /\ ~st.remoteEof => c <= Len(w) /\ \A i \in 1..Len(w) : w[i] = "DATA" <=> i <= c
       /\ st.remoteEof /\ ~st.closed => \A i \in 1..Len(w) : w[i] # "DATA"
  BY DEF BridgeInv, WireOK
<1>12. /\ st.closed => st.remoteEof
       /\ st.reset => st.closed
       /\ /\ st.remoteEof /\ ~st.reset
          /\ st.closed => bridge[o] \in {"running", "unwinding"}
          => stream[s].localEof /\ c = 0
       /\ tunnel
  BY <1>1, <1>2 DEF BridgeInv, StreamOK
\* What the frame is tells how much is coming.
<1>13. /\ f = "DATA" => st.closed \/ (~st.remoteEof /\ c >= 1)
       /\ f # "DATA" /\ ~st.remoteEof => c = 0
  BY <1>3, <1>8, <1>11
<1> HIDE DEF new, st, f, w, v, c, o
<1>14. WireOK(s)'
  <2>1. /\ \A i \in 1..Len(v) : v[i] = "HALF_CLOSE" => stream'[s].localEof
        /\ \A i \in 1..Len(v) : v[i] = "CLOSE" => stream'[s].closed
    BY <1>3, <1>5, <1>11
  <2>2. Coming(s)' >= 0 /\ sent'[s] - given'[o] <= Window
    BY <1>1, <1>b, <1>6, <1>8, <1>11, <1>13
  <2>3. ASSUME ~new.remoteEof
        PROVE  /\ Coming(s)' <= Len(v)
               /\ \A i \in 1..Len(v) : v[i] = "DATA" <=> i <= Coming(s)'
    <3>1. f = "DATA" /\ ~st.remoteEof /\ ~st.closed /\ Coming(s)' = c - 1
      BY <1>3, <1>b, <1>6, <1>8, <1>12, <2>3
    <3> QED
      BY <1>3, <1>8, <1>11, <3>1
  <2>4. ASSUME new.remoteEof, ~new.closed
        PROVE  \A i \in 1..Len(v) : v[i] # "DATA"
    <3>1. CASE st.remoteEof
      BY <1>3, <1>6, <1>11, <2>4, <3>1
    <3>2. CASE ~st.remoteEof
      BY <1>3, <1>6, <1>8, <1>11, <1>13, <2>4, <3>2
    <3> QED
      BY <3>1, <3>2
  <2> QED
    BY <2>1, <2>2, <2>3, <2>4 DEF WireOK, new, v, o
<1>15. StreamOK(o)'
  <2>1. (new.closed => new.remoteEof) /\ (new.reset => new.closed) /\ tunnel'
    BY <1>1, <1>6, <1>12
  <2>2. ASSUME new.remoteEof, ~new.reset, new.closed => bridge[o] \in {"running", "unwinding"}
        PROVE  stream'[s].localEof /\ Coming(s)' = 0
    <3>1. CASE st.remoteEof
      BY <1>5, <1>6, <1>8, <1>12, <1>13, <2>2, <3>1
    <3>2. CASE ~st.remoteEof
      <4>1. f = "HALF_CLOSE"
        BY <1>6, <2>2, <3>2
      <4> QED
        BY <1>3, <1>5, <1>6, <1>8, <1>11, <1>13, <3>2, <4>1
    <3> QED
      BY <3>1, <3>2
  <2> QED
    BY <1>1, <1>2, <2>1, <2>2 DEF StreamOK, new
<1> QED
  BY <1>2, <1>7, <1>9, <1>10, <1>14, <1>15 DEF BridgeInv

\* The tunnel ends: what is on the wire is lost, and streams that have not seen their
\* half-close are reset.
LEMMA TunnelBridge ==
    ASSUME BridgeInv, EndTunnel, faults' \in 0..MaxFaults
    PROVE  BridgeInv'
<1>1. /\ stream' = [x \in Sides |-> RemoteClose(stream[x])] /\ wire' = [x \in Sides |-> <<>>]
      /\ UNCHANGED <<wrote, end, given, fin, up, down, bridge, aborted, sent>> /\ ~tunnel'
      /\ tunnel' \in BOOLEAN
  BY DEF EndTunnel, apps, tasks
<1>2. BridgeTypes /\ stream \in [Sides -> StreamType]
      /\ given \in [Sides -> Nat] /\ sent \in [Sides -> Nat]
  BY DEF BridgeInv, BridgeTypes
<1>3. ASSUME NEW x \in Sides
      PROVE  /\ stream'[x] \in StreamType
             /\ stream'[x].localEof <=> stream[x].localEof
             /\ stream'[x].closed /\ stream'[x].remoteEof
             /\ stream[x].remoteEof => /\ stream'[x].buffer = stream[x].buffer
                                       /\ stream'[x].reset <=> stream[x].reset
             /\ ~stream[x].remoteEof => stream'[x].buffer = 0 /\ stream'[x].reset
  <2>1. stream[x] \in StreamType /\ (stream[x].closed => stream[x].remoteEof)
    BY <1>2 DEF BridgeInv, StreamOK
  <2>2. stream'[x] = RemoteClose(stream[x])
    BY <1>1
  <2> QED
    BY <2>1, <2>2, RemoteCloseLemma
<1>4. BridgeTypes'
  <2>1. stream' \in [Sides -> StreamType]
    BY <1>1, <1>3
  <2>2. wire' \in [Sides -> Seq({"DATA", "HALF_CLOSE", "CLOSE"})]
    BY <1>1
  <2> QED
    BY <1>1, <1>2, <2>1, <2>2 DEF BridgeTypes
<1>5. ASSUME NEW x \in Sides
      PROVE  UpOK(x)' /\ WireOK(x)' /\ StreamOK(x)' /\ DownOK(x)'
  <2>1. UpOK(x)' /\ DownOK(x)'
    BY <1>1, <1>3 DEF BridgeInv, UpOK, DownOK
  <2>2. Other(x) \in Sides /\ Other(Other(x)) = x
    BY SidesLemma
  <2>3. wire'[x] = <<>>
    BY <1>1
  <2>4. \A y \in Sides : /\ Coming(y) \in Int /\ Coming(y)' \in Int
                         /\ stream[Other(y)].remoteEof => Coming(y)' = Coming(y)
                         /\ ~stream[Other(y)].remoteEof => Coming(y)' = sent[y] - given[Other(y)]
                         /\ Coming(y)' >= Coming(y)
    <3> SUFFICES ASSUME NEW y \in Sides
                 PROVE  /\ Coming(y) \in Int /\ Coming(y)' \in Int
                        /\ stream[Other(y)].remoteEof => Coming(y)' = Coming(y)
                        /\ ~stream[Other(y)].remoteEof => Coming(y)' = sent[y] - given[Other(y)]
                        /\ Coming(y)' >= Coming(y)
      OBVIOUS
    <3>1. Other(y) \in Sides /\ stream[Other(y)].buffer \in Nat
      BY <1>2, SidesLemma DEF StreamType
    <3>2. stream'[Other(y)].buffer \in Nat
      BY <1>3, <3>1 DEF StreamType
    <3>3. /\ sent[y] \in Nat /\ given[Other(y)] \in Nat
          /\ sent'[y] = sent[y] /\ given'[Other(y)] = given[Other(y)]
      BY <1>1, <1>2, <3>1
    <3>4. /\ stream[Other(y)].remoteEof => stream'[Other(y)].buffer = stream[Other(y)].buffer
          /\ ~stream[Other(y)].remoteEof => stream'[Other(y)].buffer = 0
      BY <1>3, <3>1
    <3> QED
      BY <3>1, <3>2, <3>3, <3>4 DEF Coming
  <2>5. WireOK(x)'
    <3>1. Coming(x) >= 0 /\ sent[x] - given[Other(x)] <= Window
      BY DEF BridgeInv, WireOK
    <3>2. stream'[Other(x)].remoteEof /\ stream'[Other(x)].closed
      BY <1>3, <2>2
    <3>3. Coming(x)' >= 0
      BY <2>4, <3>1
    <3> QED
      BY <1>1, <2>3, <3>1, <3>2, <3>3 DEF WireOK
  <2>6. StreamOK(x)'
    <3>1. StreamOK(x) /\ StreamOK(Other(x))
      BY <2>2 DEF BridgeInv
    <3> QED
      BY <1>1, <1>3, <2>2, <2>3, <2>4, <3>1 DEF StreamOK
  <2> QED
    BY <2>1, <2>5, <2>6
<1> QED
  BY <1>4, <1>5 DEF BridgeInv

-----------------------------------------------------------------------------
(* The pumps.                                                              *)

\* The streams and the tunnel are left alone, and so is how much each side gave its
\* application.
LEMMA UpBridge == ASSUME BridgeInv, NEW s \in Sides, UpRead(s) PROVE BridgeInv'
<1>1. /\ UNCHANGED <<wrote, end, given, fin, down, bridge, aborted, stream, sent, wire, tunnel, faults>>
      /\ up[s] = "read" /\ \E v \in {"failed", "write", "eof"} :
            /\ up' = [up EXCEPT ![s] = v]
            /\ v = "write" => sent[s] < wrote[s]
            /\ v = "eof" => sent[s] = wrote[s] /\ end[s] = "eof"
  BY DEF UpRead, apps, tasks
<1>2. BridgeTypes
  BY DEF BridgeInv
<1>3. up' \in [Sides -> {"read", "write", "eof", "done", "failed", "cancelled"}]
  BY <1>1, <1>2 DEF BridgeTypes
<1>4. BridgeTypes'
  BY <1>1, <1>2, <1>3 DEF BridgeTypes
<1>5. ASSUME NEW x \in Sides
      PROVE  UpOK(x)' /\ WireOK(x)' /\ StreamOK(x)' /\ DownOK(x)'
  <2>0. up \in [Sides -> {"read", "write", "eof", "done", "failed", "cancelled"}]
    BY <1>2 DEF BridgeTypes
  <2>1. UpOK(x)'
    BY <1>1, <2>0 DEF BridgeInv, UpOK
  <2>2. WireOK(x)' /\ StreamOK(x)'
    BY <1>1 DEF BridgeInv, WireOK, StreamOK, Coming
  <2>3. DownOK(x)'
    BY <1>1, <2>0 DEF BridgeInv, DownOK
  <2> QED
    BY <2>1, <2>2, <2>3
<1> QED
  BY <1>4, <1>5 DEF BridgeInv

\* A byte is sent, by the pump or by the write that is cancelled with it.
LEMMA DataBridge ==
    ASSUME BridgeInv, NEW s \in Sides, up[s] = "write", ~stream[s].closed, Sendable(s),
           Send(s, "DATA"), sent' = [sent EXCEPT ![s] = @ + 1],
           up' = [up EXCEPT ![s] = up'[s]], up'[s] \in {"read", "cancelled"},
           UNCHANGED <<wrote, end, given, fin, stream, tunnel, faults, aborted>>,
           down' \in [Sides -> {"read", "drain", "done", "failed", "cancelled"}],
           \A x \in Sides : down'[x] = "done" <=> down[x] = "done",
           bridge' \in [Sides -> {"running", "unwinding", "closing", "released", "done", "cut"}],
           \A x \in Sides : bridge'[x] \in {"running", "unwinding"} =>
                bridge[x] \in {"running", "unwinding"},
           \A x \in Sides : bridge'[x] \in {"unwinding", "closing", "released", "done"} =>
                bridge[x] = bridge'[x] \/ bridge[x] = "unwinding"
    PROVE  BridgeInv'
<1> DEFINE o == Other(s)
<1>1. /\ BridgeTypes /\ o \in Sides /\ o # s /\ Other(o) = s
      /\ \A x \in Sides : x = s \/ x = o
  BY SidesLemma DEF BridgeInv
<1>2. /\ sent \in [Sides -> Nat] /\ given \in [Sides -> Nat] /\ wrote \in [Sides -> Nat]
      /\ up \in [Sides -> {"read", "write", "eof", "done", "failed", "cancelled"}]
      /\ stream \in [Sides -> StreamType]
  BY <1>1 DEF BridgeTypes
<1>3. /\ wire' \in [Sides -> Seq({"DATA", "HALF_CLOSE", "CLOSE"})]
      /\ wire'[o] = wire[o]
      /\ Len(wire[s]) \in Nat /\ Len(wire'[s]) = Len(wire[s]) + 1
      /\ \A i \in 1..Len(wire'[s]) :
            \/ i \in 1..Len(wire[s]) /\ wire'[s][i] = wire[s][i]
            \/ i = Len(wire[s]) + 1 /\ wire'[s][i] = "DATA"
      /\ tunnel
  BY SendBridge
<1>a. \A i \in 1..Len(wire[s]) : wire[s][i] \in {"DATA", "HALF_CLOSE", "CLOSE"}
  BY <1>1 DEF BridgeTypes
<1>4. /\ sent' \in [Sides -> Nat] /\ sent'[s] = sent[s] + 1 /\ sent'[o] = sent[o]
      /\ up' \in [Sides -> {"read", "write", "eof", "done", "failed", "cancelled"}]
      /\ up'[o] = up[o]
  BY <1>1, <1>2
<1>5. BridgeTypes'
  BY <1>1, <1>3, <1>4 DEF BridgeTypes
<1>6. /\ sent[s] < wrote[s] /\ ~stream[s].localEof
  BY DEF BridgeInv, UpOK
<1>7. UpOK(s)' /\ UpOK(o)'
  BY <1>1, <1>2, <1>4, <1>6 DEF BridgeInv, UpOK
<1>8. /\ Coming(s)' = Coming(s) + 1 /\ Coming(o)' = Coming(o)
      /\ Coming(s) \in Int
  <2>1. stream[o].buffer \in Nat /\ stream[s].buffer \in Nat
    BY <1>1, <1>2 DEF StreamType
  <2>2. /\ sent[s] \in Nat /\ sent[o] \in Nat /\ given[s] \in Nat /\ given[o] \in Nat
        /\ given' = given /\ stream' = stream
    BY <1>1, <1>2
  <2> QED
    BY <1>1, <1>4, <2>1, <2>2 DEF Coming
\* The wire holds nothing but data, so that the new frame is data behind data.
<1>9. \A i \in 1..Len(wire[s]) : wire[s][i] = "DATA"
  <2>1. \A i \in 1..Len(wire[s]) : wire[s][i] # "HALF_CLOSE" /\ wire[s][i] # "CLOSE"
    BY <1>6 DEF BridgeInv, WireOK
  <2> QED
    BY <1>a, <2>1
<1>10. ~stream[o].remoteEof => Coming(s) = Len(wire[s])
  <2> SUFFICES ASSUME ~stream[o].remoteEof PROVE Coming(s) = Len(wire[s])
    OBVIOUS
  <2>1. /\ Coming(s) >= 0 /\ Coming(s) <= Len(wire[s])
        /\ \A i \in 1..Len(wire[s]) : wire[s][i] = "DATA" <=> i <= Coming(s)
    BY DEF BridgeInv, WireOK
  <2> QED
    BY <1>3, <1>8, <1>9, <2>1
<1>11. ~(stream[o].remoteEof /\ ~stream[o].closed)
  BY <1>1, <1>6 DEF BridgeInv, StreamOK
<1>12. WireOK(s)'
  <2>1. /\ \A i \in 1..Len(wire'[s]) : wire'[s][i] = "DATA"
        /\ Len(wire'[s]) \in Nat
    <3> DEFINE w == wire[s]
               v == wire'[s]
               n == Len(wire[s])
    <3>1. /\ \A i \in 1..Len(v) : \/ i \in 1..n /\ v[i] = w[i]
                                  \/ i = n + 1 /\ v[i] = "DATA"
          /\ n \in Nat /\ Len(v) = n + 1 /\ \A i \in 1..n : w[i] = "DATA"
      BY <1>3, <1>9
    <3> HIDE DEF w, v, n
    <3>2. Len(v) \in Nat /\ \A i \in 1..Len(v) : v[i] = "DATA"
      BY <3>1
    <3> QED
      BY <3>2 DEF v
  <2>2. Coming(s)' >= 0 /\ sent'[s] - given'[o] <= Window
    BY <1>1, <1>2, <1>4, <1>8, WindowAssumption DEF BridgeInv, WireOK, Sendable
  <2>3. ~stream[o].remoteEof => Coming(s)' = Len(wire'[s])
    BY <1>3, <1>8, <1>10
  <2> HIDE DEF o
  <2> QED
    BY <1>11, <2>1, <2>2, <2>3 DEF WireOK, o
<1>13. WireOK(o)' /\ StreamOK(o)' /\ StreamOK(s)'
  <2>1. WireOK(o) /\ StreamOK(o) /\ StreamOK(s)
    BY <1>1 DEF BridgeInv
  <2>2. WireOK(o)'
    BY <1>1, <1>3, <1>4, <1>8, <2>1 DEF WireOK
  <2>3. StreamOK(o)'
    BY <1>1, <1>3, <1>6, <1>8, <2>1 DEF StreamOK
  <2>4. StreamOK(s)'
    BY <1>1, <1>3, <1>8, <2>1 DEF StreamOK
  <2> QED
    BY <2>2, <2>3, <2>4
<1>14. ASSUME NEW x \in Sides PROVE DownOK(x)'
  <2>1. DownOK(x)
    BY DEF BridgeInv
  <2>2. up[x] = "done" => up'[x] = "done"
    BY <1>1, <1>4
  <2> QED
    BY <2>1, <2>2 DEF DownOK
<1> QED
  BY <1>1, <1>5, <1>7, <1>12, <1>13, <1>14 DEF BridgeInv

LEMMA LocalEofLemma ==
    ASSUME NEW st \in StreamType, NEW r, r = [st EXCEPT !.localEof = TRUE]
    PROVE  /\ r \in StreamType /\ r.localEof
           /\ r.buffer = st.buffer /\ (r.remoteEof <=> st.remoteEof)
           /\ (r.closed <=> st.closed) /\ (r.reset <=> st.reset)
BY DEF StreamType

\* The end of the application's data is passed on.
LEMMA EofBridge ==
    ASSUME BridgeInv, NEW s \in Sides, up[s] = "eof", ~stream[s].closed,
           Send(s, "HALF_CLOSE"), stream' = [stream EXCEPT ![s].localEof = TRUE],
           up' = [up EXCEPT ![s] = up'[s]], up'[s] \in {"done", "cancelled"},
           UNCHANGED <<wrote, end, given, fin, sent, tunnel, faults, aborted>>,
           down' \in [Sides -> {"read", "drain", "done", "failed", "cancelled"}],
           \A x \in Sides : down'[x] = "done" <=> down[x] = "done",
           bridge' \in [Sides -> {"running", "unwinding", "closing", "released", "done", "cut"}],
           \A x \in Sides : bridge'[x] \in {"running", "unwinding"} =>
                bridge[x] \in {"running", "unwinding"},
           \A x \in Sides : bridge'[x] \in {"unwinding", "closing", "released", "done"} =>
                bridge[x] = bridge'[x] \/ bridge[x] = "unwinding"
    PROVE  BridgeInv'
<1> DEFINE o == Other(s)
<1>1. /\ BridgeTypes /\ o \in Sides /\ o # s /\ Other(o) = s
      /\ \A x \in Sides : x = s \/ x = o
  BY SidesLemma DEF BridgeInv
<1>2. /\ sent \in [Sides -> Nat] /\ given \in [Sides -> Nat] /\ wrote \in [Sides -> Nat]
      /\ up \in [Sides -> {"read", "write", "eof", "done", "failed", "cancelled"}]
      /\ stream \in [Sides -> StreamType]
  BY <1>1 DEF BridgeTypes
<1>3. /\ wire' \in [Sides -> Seq({"DATA", "HALF_CLOSE", "CLOSE"})]
      /\ wire'[o] = wire[o]
      /\ Len(wire[s]) \in Nat /\ Len(wire'[s]) = Len(wire[s]) + 1
      /\ \A i \in 1..Len(wire'[s]) :
            \/ i \in 1..Len(wire[s]) /\ wire'[s][i] = wire[s][i]
            \/ i = Len(wire[s]) + 1 /\ wire'[s][i] = "HALF_CLOSE"
      /\ tunnel
  BY <1>1, SendBridge DEF BridgeTypes
<1>4. /\ up' \in [Sides -> {"read", "write", "eof", "done", "failed", "cancelled"}]
      /\ up'[o] = up[o] /\ stream'[o] = stream[o]
      /\ stream' \in [Sides -> StreamType] /\ stream'[s].localEof
      /\ stream'[s].buffer = stream[s].buffer
      /\ stream'[s].remoteEof <=> stream[s].remoteEof
      /\ stream'[s].closed <=> stream[s].closed
      /\ stream'[s].reset <=> stream[s].reset
  <2>1. stream'[s] = [stream[s] EXCEPT !.localEof = TRUE] /\ stream[s] \in StreamType
    BY <1>2
  <2>4. /\ stream'[s] \in StreamType /\ stream'[s].localEof
        /\ stream'[s].buffer = stream[s].buffer
        /\ stream'[s].remoteEof <=> stream[s].remoteEof
        /\ stream'[s].closed <=> stream[s].closed
        /\ stream'[s].reset <=> stream[s].reset
    BY <2>1, LocalEofLemma, Zenon
  <2>3. stream' \in [Sides -> StreamType]
    BY <1>2, <2>4
  <2>5. up'[o] = up[o] /\ stream'[o] = stream[o] /\ up' \in [Sides ->
            {"read", "write", "eof", "done", "failed", "cancelled"}]
    BY <1>1, <1>2
  <2> QED
    BY <2>3, <2>4, <2>5
<1>5. BridgeTypes'
  BY <1>1, <1>3, <1>4 DEF BridgeTypes
<1>6. sent[s] = wrote[s] /\ end[s] # "open"
  BY DEF BridgeInv, UpOK
<1>7. UpOK(s)' /\ UpOK(o)'
  BY <1>1, <1>2, <1>4, <1>6 DEF BridgeInv, UpOK
<1>8. /\ Coming(s)' = Coming(s) /\ Coming(o)' = Coming(o)
      /\ Coming(s) \in Int
  <2>1. stream[o].buffer \in Nat /\ stream[s].buffer \in Nat
    BY <1>1, <1>2 DEF StreamType
  <2>2. /\ sent[s] \in Nat /\ sent[o] \in Nat /\ given[s] \in Nat /\ given[o] \in Nat
        /\ given' = given /\ sent' = sent
    BY <1>1, <1>2
  <2> QED
    BY <1>1, <1>4, <2>1, <2>2 DEF Coming
<1>9. WireOK(s)'
  <2>1. WireOK(s)
    BY DEF BridgeInv
  <2> HIDE DEF o
  <2>2. /\ \A i \in 1..Len(wire'[s]) : wire'[s][i] = "CLOSE" => stream'[s].closed
        /\ Coming(s)' >= 0 /\ sent'[s] - given'[o] <= Window
    <3>1. \A i \in 1..Len(wire[s]) : wire[s][i] = "CLOSE" => stream[s].closed
      BY <2>1 DEF WireOK
    <3>2. sent' = sent /\ given' = given
      OBVIOUS
    <3>3. \A i \in 1..Len(wire'[s]) : wire'[s][i] = "CLOSE" => stream'[s].closed
      <4> SUFFICES ASSUME NEW i \in 1..Len(wire'[s]), wire'[s][i] = "CLOSE"
                   PROVE  stream[s].closed
        BY <1>4
      <4>1. i \in 1..Len(wire[s]) /\ wire'[s][i] = wire[s][i]
        BY <1>3
      <4> QED
        BY <3>1, <4>1
    <3>4. Coming(s)' >= 0 /\ sent'[s] - given'[o] <= Window
      BY <1>8, <2>1, <3>2 DEF WireOK, o
    <3> QED
      BY <3>3, <3>4
  <2>3. ASSUME ~stream'[o].remoteEof
        PROVE  /\ Coming(s)' <= Len(wire'[s])
               /\ \A i \in 1..Len(wire'[s]) : wire'[s][i] = "DATA" <=> i <= Coming(s)'
    <3>1. /\ Coming(s) <= Len(wire[s])
          /\ \A i \in 1..Len(wire[s]) : wire[s][i] = "DATA" <=> i <= Coming(s)
      BY <1>4, <2>1, <2>3 DEF WireOK, o
    <3>2. Coming(s)' = Coming(s) /\ Coming(s) \in Int
      BY <1>8
    <3> DEFINE w == wire[s]
               v == wire'[s]
               n == Len(wire[s])
               d == Coming(s)
    <3>3. /\ \A i \in 1..Len(v) : \/ i \in 1..n /\ v[i] = w[i]
                                  \/ i = n + 1 /\ v[i] = "HALF_CLOSE"
          /\ n \in Nat /\ Len(v) = n + 1 /\ d \in Int /\ d <= n
          /\ \A i \in 1..n : w[i] = "DATA" <=> i <= d
      BY <1>3, <3>1, <3>2
    <3> HIDE DEF w, v, n, d
    <3>4. /\ d <= Len(v)
          /\ \A i \in 1..Len(v) : v[i] = "DATA" <=> i <= d
      BY <3>3
    <3> QED
      BY <3>2, <3>4 DEF v, d
  <2>4. ASSUME stream'[o].remoteEof, ~stream'[o].closed
        PROVE  \A i \in 1..Len(wire'[s]) : wire'[s][i] # "DATA"
    <3>1. \A i \in 1..Len(wire[s]) : wire[s][i] # "DATA"
      BY <1>4, <2>1, <2>4 DEF WireOK, o
    <3> QED
      BY <1>3, <3>1
  <2> QED
    BY <1>4, <2>2, <2>3, <2>4 DEF WireOK, o
<1>10. WireOK(o)' /\ StreamOK(o)' /\ StreamOK(s)'
  <2>1. WireOK(o) /\ StreamOK(o) /\ StreamOK(s)
    BY <1>1 DEF BridgeInv
  <2>2. WireOK(o)'
    BY <1>1, <1>3, <1>4, <1>8, <2>1 DEF WireOK
  <2>3. StreamOK(o)'
    BY <1>1, <1>3, <1>4, <1>8, <2>1 DEF StreamOK
  <2>4. StreamOK(s)'
    BY <1>1, <1>3, <1>4, <1>8, <2>1 DEF StreamOK
  <2> QED
    BY <2>2, <2>3, <2>4
<1>11. ASSUME NEW x \in Sides PROVE DownOK(x)'
  <2>1. DownOK(x)
    BY DEF BridgeInv
  <2>2. up[x] = "done" => up'[x] = "done"
    BY <1>1, <1>4
  <2> QED
    BY <2>1, <2>2 DEF DownOK
<1> QED
  BY <1>1, <1>5, <1>7, <1>9, <1>10, <1>11 DEF BridgeInv

\* The pump gives up, or finds its stream closed: nothing else moves.
LEMMA StopUpBridge ==
    ASSUME BridgeInv, NEW s \in Sides, NEW v \in {"failed", "done"},
           up[s] \in {"write", "eof"}, v = "done" => up[s] = "eof",
           up' = [up EXCEPT ![s] = v],
           UNCHANGED <<wrote, end, given, fin, down, bridge, aborted, stream, sent, wire, tunnel, faults>>
    PROVE  BridgeInv'
<1>1. /\ BridgeTypes
      /\ up \in [Sides -> {"read", "write", "eof", "done", "failed", "cancelled"}]
  BY DEF BridgeInv, BridgeTypes
<1>2. /\ up' \in [Sides -> {"read", "write", "eof", "done", "failed", "cancelled"}]
      /\ up'[s] = v /\ \A x \in Sides : x # s => up'[x] = up[x]
  BY <1>1
<1>3. BridgeTypes'
  BY <1>1, <1>2 DEF BridgeTypes
<1>4. ASSUME NEW x \in Sides
      PROVE  UpOK(x)' /\ WireOK(x)' /\ StreamOK(x)' /\ DownOK(x)'
  <2>1. UpOK(x)'
    BY <1>2 DEF BridgeInv, UpOK
  <2>2. WireOK(x)' /\ StreamOK(x)'
    BY DEF BridgeInv, WireOK, StreamOK, Coming
  <2>3. DownOK(x)'
    <3>1. up[x] = "done" => up'[x] = "done"
      BY <1>2
    <3> QED
      BY <3>1 DEF BridgeInv, DownOK
  <2> QED
    BY <2>1, <2>2, <2>3
<1> QED
  BY <1>3, <1>4 DEF BridgeInv

LEMMA UpWriteBridge == ASSUME BridgeInv, NEW s \in Sides, UpWrite(s) PROVE BridgeInv'
<1>1. /\ up[s] = "write" /\ BridgeTypes
      /\ UNCHANGED <<wrote, end, given, fin, down, bridge, aborted, stream, tunnel, faults>>
  BY DEF UpWrite, BridgeInv, apps, tasks
<1>2. CASE stream[s].closed
  BY <1>1, <1>2, StopUpBridge DEF UpWrite
<1>3. CASE ~stream[s].closed
  <2>1. /\ Sendable(s) /\ Send(s, "DATA") /\ sent' = [sent EXCEPT ![s] = @ + 1]
        /\ up' = [up EXCEPT ![s] = "read"]
    BY <1>3 DEF UpWrite
  <2>2. up'[s] = "read"
    BY <1>1, <2>1 DEF BridgeTypes
  <2> QED
    BY <1>1, <1>3, <2>1, <2>2, DataBridge DEF BridgeTypes
<1> QED
  BY <1>2, <1>3

LEMMA UpEofBridge == ASSUME BridgeInv, NEW s \in Sides, UpEof(s) PROVE BridgeInv'
<1>1. /\ up[s] = "eof" /\ up' = [up EXCEPT ![s] = "done"] /\ BridgeTypes
      /\ UNCHANGED <<wrote, end, given, fin, down, bridge, aborted, sent, tunnel, faults>>
  BY DEF UpEof, BridgeInv, apps, tasks
<1>2. CASE stream[s].closed
  BY <1>1, <1>2, StopUpBridge DEF UpEof
<1>3. CASE ~stream[s].closed
  <2>1. stream' = [stream EXCEPT ![s].localEof = TRUE] /\ Send(s, "HALF_CLOSE")
    BY <1>3 DEF UpEof
  <2>2. up'[s] = "done"
    BY <1>1 DEF BridgeTypes
  <2> QED
    BY <1>1, <1>3, <2>1, <2>2, EofBridge DEF BridgeTypes
<1> QED
  BY <1>2, <1>3

\* A byte is taken from the buffer and given to the application.
LEMMA GiveBridge ==
    ASSUME BridgeInv, NEW s \in Sides, stream[s].buffer > 0, down[s] = "read",
           stream' = [stream EXCEPT ![s].buffer = @ - 1], given' = [given EXCEPT ![s] = @ + 1],
           down' = [down EXCEPT ![s] = "drain"], fin[s] # "eof",
           UNCHANGED <<wrote, end, fin, up, bridge, aborted, sent, wire, tunnel, faults>>
    PROVE  BridgeInv'
<1> DEFINE o == Other(s)
<1>1. /\ BridgeTypes /\ o \in Sides /\ o # s /\ Other(o) = s
      /\ \A x \in Sides : x = s \/ x = o
  BY SidesLemma DEF BridgeInv
<1>2. /\ sent \in [Sides -> Nat] /\ given \in [Sides -> Nat]
      /\ stream \in [Sides -> StreamType]
      /\ down \in [Sides -> {"read", "drain", "done", "failed", "cancelled"}]
  BY <1>1 DEF BridgeTypes
<1>3. /\ stream' \in [Sides -> StreamType] /\ stream'[o] = stream[o]
      /\ stream'[s].buffer = stream[s].buffer - 1 /\ stream[s].buffer \in Nat
      /\ stream'[s].localEof = stream[s].localEof
      /\ stream'[s].remoteEof = stream[s].remoteEof
      /\ stream'[s].closed = stream[s].closed /\ stream'[s].reset = stream[s].reset
  BY <1>1, <1>2 DEF StreamType
<1>4. /\ given' \in [Sides -> Nat] /\ given'[s] = given[s] + 1 /\ given'[o] = given[o]
      /\ down' \in [Sides -> {"read", "drain", "done", "failed", "cancelled"}]
      /\ down'[s] = "drain" /\ down'[o] = down[o]
      /\ given[s] \in Nat /\ sent[o] \in Nat /\ sent[s] \in Nat
  BY <1>1, <1>2
<1>5. BridgeTypes'
  BY <1>1, <1>3, <1>4 DEF BridgeTypes
<1>6. Coming(s)' = Coming(s) /\ Coming(o)' = Coming(o)
  BY <1>1, <1>2, <1>3, <1>4 DEF Coming
<1>7. ASSUME NEW x \in Sides
      PROVE  UpOK(x)' /\ WireOK(x)' /\ StreamOK(x)' /\ DownOK(x)'
  <2>1. stream'[x].localEof = stream[x].localEof /\ stream'[x].remoteEof = stream[x].remoteEof
        /\ stream'[x].closed = stream[x].closed /\ stream'[x].reset = stream[x].reset
    BY <1>1, <1>3
  <2>2. UpOK(x)'
    BY <2>1 DEF BridgeInv, UpOK
  <2>3. Other(x) \in Sides /\ Coming(x)' = Coming(x) /\ Coming(Other(x))' = Coming(Other(x))
    BY <1>1, <1>6
  <2>4. /\ stream'[Other(x)].localEof = stream[Other(x)].localEof
        /\ stream'[Other(x)].remoteEof = stream[Other(x)].remoteEof
        /\ stream'[Other(x)].closed = stream[Other(x)].closed
    BY <1>1, <1>3, <2>3
  <2>5. WireOK(x)'
    <3>1. sent'[x] - given'[Other(x)] <= Window
      BY <1>1, <1>2, <1>4, WindowAssumption DEF BridgeInv, WireOK
    <3> QED
      BY <2>1, <2>3, <2>4, <3>1 DEF BridgeInv, WireOK
  <2>6. StreamOK(x)'
    BY <2>1, <2>3, <2>4 DEF BridgeInv, StreamOK
  <2>7. DownOK(x)'
    BY <1>1, <1>4 DEF BridgeInv, DownOK
  <2> QED
    BY <2>2, <2>5, <2>6, <2>7
<1> QED
  BY <1>5, <1>7 DEF BridgeInv

\* The pump to the application moves, with nothing taken.
LEMMA ShownBridge ==
    ASSUME BridgeInv, NEW s \in Sides, NEW d \in {"read", "drain", "done", "failed"},
           NEW f \in {"none", "eof", "closed"},
           down[s] \in {"read", "drain"}, down' = [down EXCEPT ![s] = d],
           fin' = [fin EXCEPT ![s] = f], f = "eof" \/ f = fin[s],
           f = "eof" => given[s] = wrote[Other(s)] /\ end[Other(s)] # "open",
           d = "done" => f = "eof",
           UNCHANGED <<wrote, end, given, up, bridge, aborted, stream, sent, wire, tunnel, faults>>
    PROVE  BridgeInv'
<1>1. /\ BridgeTypes
      /\ fin \in [Sides -> {"none", "eof", "closed"}]
      /\ down \in [Sides -> {"read", "drain", "done", "failed", "cancelled"}]
  BY DEF BridgeInv, BridgeTypes
<1>2. /\ fin' \in [Sides -> {"none", "eof", "closed"}]
      /\ down' \in [Sides -> {"read", "drain", "done", "failed", "cancelled"}]
      /\ down'[s] = d /\ fin'[s] = f
      /\ \A x \in Sides : x # s => down'[x] = down[x] /\ fin'[x] = fin[x]
  BY <1>1
<1>3. BridgeTypes'
  BY <1>1, <1>2 DEF BridgeTypes
<1>4. ASSUME NEW x \in Sides
      PROVE  UpOK(x)' /\ WireOK(x)' /\ StreamOK(x)' /\ DownOK(x)'
  <2>1. UpOK(x)' /\ WireOK(x)' /\ StreamOK(x)'
    BY DEF BridgeInv, UpOK, WireOK, StreamOK, Coming
  <2>2. DownOK(x)'
    BY <1>2 DEF BridgeInv, DownOK
  <2> QED
    BY <2>1, <2>2
<1> QED
  BY <1>3, <1>4 DEF BridgeInv

LEMMA DownBridge ==
    ASSUME BridgeInv, NEW s \in Sides, PumpBack(s)
    PROVE  BridgeInv'
<1> DEFINE o == Other(s)
<1>1. /\ BridgeTypes /\ o \in Sides /\ Other(o) = s
      /\ UNCHANGED <<wrote, end, up, bridge, aborted, sent, wire, tunnel, faults>>
      /\ bridge[s] \in {"running", "unwinding"} /\ down[s] \in {"read", "drain"}
  BY SidesLemma DEF BridgeInv, PumpBack, DownRead, DownDrain, Pumping, apps, tasks
<1>2. /\ fin \in [Sides -> {"none", "eof", "closed"}]
      /\ stream[s].buffer \in Nat /\ sent[o] \in Nat /\ given[s] \in Nat /\ wrote[o] \in Nat
      /\ Coming(o) = sent[o] - given[s] - stream[s].buffer /\ fin = [fin EXCEPT ![s] = fin[s]]
  BY <1>1 DEF BridgeTypes, StreamType, Coming
<1>3. UpOK(o) /\ WireOK(o) /\ StreamOK(s) /\ DownOK(s)
  BY <1>1 DEF BridgeInv
<1>4. CASE DownRead(s) /\ stream[s].buffer > 0
  <2>1. /\ stream' = [stream EXCEPT ![s].buffer = @ - 1] /\ given' = [given EXCEPT ![s] = @ + 1]
        /\ down[s] = "read" /\ down' = [down EXCEPT ![s] = "drain"] /\ fin' = fin
    BY <1>4 DEF DownRead
\* Data in the buffer has not been shown the end.
  <2>2. fin[s] # "eof"
    <3>1. Coming(o) >= 0 /\ sent[o] <= wrote[o] /\ (fin[s] = "eof" => given[s] = wrote[o])
      BY <1>3 DEF WireOK, UpOK, DownOK
    <3> QED
      BY <1>2, <1>4, <3>1
  <2> QED
    BY <1>1, <1>4, <2>1, <2>2, GiveBridge
<1>5. CASE DownRead(s) /\ ~(stream[s].buffer > 0)
  <2>1. /\ stream[s].buffer = 0 /\ stream[s].remoteEof /\ given' = given /\ stream' = stream
        /\ stream[s].reset => down' = [down EXCEPT ![s] = "failed"] /\ fin' = fin
        /\ ~stream[s].reset => /\ down' = [down EXCEPT ![s] = "drain"]
                               /\ fin' = [fin EXCEPT ![s] = "eof"]
    BY <1>5 DEF DownRead
  <2>2. CASE stream[s].reset
    <3>1. /\ fin[s] \in {"none", "eof", "closed"}
          /\ fin[s] = "eof" => given[s] = wrote[o] /\ end[o] # "open"
      BY <1>2, <1>3 DEF DownOK
    <3> QED
      BY <1>1, <1>2, <2>1, <2>2, <3>1, ShownBridge
  <2>3. CASE ~stream[s].reset
    <3>1. stream[o].localEof /\ Coming(o) = 0
      BY <1>1, <1>3, <2>1, <2>3 DEF StreamOK
    <3>2. given[s] = wrote[o] /\ end[o] # "open"
      BY <1>2, <1>3, <2>1, <3>1 DEF UpOK
    <3> QED
      BY <1>1, <2>1, <2>3, <3>2, ShownBridge
  <2> QED
    BY <2>2, <2>3
<1>6. CASE DownDrain(s)
  <2> DEFINE d == IF end[s] = "reset" THEN "failed" ELSE IF fin[s] = "eof" THEN "done" ELSE "read"
  <2>1. down' = [down EXCEPT ![s] = d] /\ fin' = fin /\ given' = given /\ stream' = stream
    BY <1>6 DEF DownDrain
  <2>2. d \in {"read", "done", "failed"} /\ (d = "done" => fin[s] = "eof")
    OBVIOUS
  <2>3. /\ fin[s] \in {"none", "eof", "closed"}
        /\ fin[s] = "eof" => given[s] = wrote[o] /\ end[o] # "open"
    BY <1>2, <1>3 DEF DownOK
  <2> HIDE DEF d
  <2> QED
    BY <1>1, <1>2, <2>1, <2>2, <2>3, ShownBridge
<1> QED
  BY <1>4, <1>5, <1>6 DEF PumpBack

\* The pumps are cancelled and gathered.
LEMMA StopPumpsBridge == ASSUME BridgeInv, NEW s \in Sides, StopPumps(s) PROVE BridgeInv'
<1>1. /\ BridgeTypes /\ bridge[s] = "unwinding" /\ bridge' = [bridge EXCEPT ![s] = "closing"]
      /\ up' = [up EXCEPT ![s] = CancelledPump(up[s])]
      /\ down' = [down EXCEPT ![s] = CancelledPump(down[s])]
      /\ UNCHANGED <<wrote, end, given, fin, aborted, tunnel, faults>>
  BY DEF BridgeInv, StopPumps, apps
<1>2. /\ up \in [Sides -> {"read", "write", "eof", "done", "failed", "cancelled"}]
      /\ down \in [Sides -> {"read", "drain", "done", "failed", "cancelled"}]
      /\ bridge \in [Sides -> {"running", "unwinding", "closing", "released", "done", "cut"}]
  BY <1>1 DEF BridgeTypes
<1>3. /\ down' \in [Sides -> {"read", "drain", "done", "failed", "cancelled"}]
      /\ \A x \in Sides : down'[x] = "done" <=> down[x] = "done"
  BY <1>1, <1>2 DEF CancelledPump
<1>4. /\ up'[s] = CancelledPump(up[s]) /\ up' = [up EXCEPT ![s] = up'[s]]
      /\ up' \in [Sides -> {"read", "write", "eof", "done", "failed", "cancelled"}]
      /\ \A x \in Sides : up'[x] = up[x] \/ (up'[x] = "cancelled" /\ up[x] \notin {"done", "failed"})
  BY <1>1, <1>2 DEF CancelledPump
<1>5. /\ bridge' \in [Sides -> {"running", "unwinding", "closing", "released", "done", "cut"}]
      /\ \A x \in Sides : bridge'[x] \in {"running", "unwinding"} =>
            bridge[x] \in {"running", "unwinding"}
      /\ \A x \in Sides : bridge'[x] \in {"unwinding", "closing", "released", "done"} =>
            bridge[x] = bridge'[x] \/ bridge[x] = "unwinding"
  BY <1>1, <1>2
<1>6. CASE UNCHANGED <<stream, sent, wire>>
  <2>1. BridgeTypes'
    BY <1>1, <1>3, <1>4, <1>5, <1>6 DEF BridgeTypes
  <2>2. ASSUME NEW x \in Sides
        PROVE  UpOK(x)' /\ WireOK(x)' /\ StreamOK(x)' /\ DownOK(x)'
    <3>1. UpOK(x)'
      BY <1>1, <1>4, <1>6 DEF BridgeInv, UpOK
    <3>2. WireOK(x)'
      BY <1>1, <1>6 DEF BridgeInv, WireOK, Coming
    <3>3. StreamOK(x)'
      BY <1>1, <1>5, <1>6, SidesLemma DEF BridgeInv, StreamOK, Coming
    <3>4. DownOK(x)'
      BY <1>1, <1>3, <1>4, <1>5 DEF BridgeInv, DownOK
    <3> QED
      BY <3>1, <3>2, <3>3, <3>4
  <2> QED
    BY <2>1, <2>2 DEF BridgeInv
<1>7. CASE /\ up[s] = "write" /\ ~stream[s].closed /\ Sendable(s)
           /\ sent' = [sent EXCEPT ![s] = @ + 1] /\ Send(s, "DATA") /\ UNCHANGED stream
  <2>1. up'[s] = "cancelled"
    BY <1>4, <1>7 DEF CancelledPump
  <2> QED
    BY <1>1, <1>3, <1>4, <1>5, <1>7, <2>1, DataBridge
<1>8. CASE /\ up[s] = "eof" /\ ~stream[s].closed
           /\ stream' = [stream EXCEPT ![s].localEof = TRUE]
           /\ Send(s, "HALF_CLOSE") /\ UNCHANGED sent
  <2>1. up'[s] = "cancelled"
    BY <1>4, <1>8 DEF CancelledPump
  <2> QED
    BY <1>1, <1>3, <1>4, <1>5, <1>8, <2>1, EofBridge
<1> QED
  BY <1>6, <1>7, <1>8 DEF StopPumps

LEMMA MarkLemma ==
    ASSUME NEW st \in StreamType, NEW r,
           r = [st EXCEPT !.closed = TRUE, !.remoteEof = TRUE, !.buffer = 0, !.reset = st.reset]
    PROVE  /\ r \in StreamType /\ r.closed /\ r.remoteEof /\ r.buffer = 0
           /\ (r.localEof <=> st.localEof) /\ (r.reset <=> st.reset)
<1>1. /\ r \in StreamType /\ r.closed = TRUE /\ r.remoteEof = TRUE /\ r.buffer = 0
      /\ r.localEof = st.localEof /\ r.reset = st.reset
  BY DEF StreamType
<1> QED
  BY <1>1

\* stream.close: what the stream holds is dropped.
LEMMA DropLemma ==
    ASSUME NEW st \in StreamType, NEW r, st.closed => st.remoteEof,
           r = IF st.closed THEN [st EXCEPT !.buffer = 0] ELSE MarkClosed(st, FALSE)
    PROVE  /\ r \in StreamType /\ r.closed /\ r.remoteEof /\ r.buffer = 0
           /\ (r.localEof <=> st.localEof) /\ (r.reset <=> st.reset)
<1>1. CASE st.closed
  BY <1>1 DEF StreamType
<1>2. CASE ~st.closed
  <2>1. (st.reset \/ FALSE) = st.reset
    BY DEF StreamType
  <2>2. r = [st EXCEPT !.closed = TRUE, !.remoteEof = TRUE, !.buffer = 0, !.reset = st.reset]
    BY <1>2, <2>1 DEF MarkClosed
  <2> QED
    BY <2>2, MarkLemma, Zenon
<1> QED
  BY <1>1, <1>2

LEMMA CloseBridge == ASSUME BridgeInv, NEW s \in Sides, CloseStream(s) PROVE BridgeInv'
<1> DEFINE o == Other(s)
<1>1. /\ BridgeTypes /\ o \in Sides /\ o # s /\ Other(o) = s
      /\ \A x \in Sides : x = s \/ x = o
      /\ bridge[s] = "closing" /\ bridge' = [bridge EXCEPT ![s] = "released"]
      /\ UNCHANGED <<wrote, end, given, fin, up, down, aborted, sent, tunnel, faults>>
  BY SidesLemma DEF BridgeInv, CloseStream, apps
<1>2. /\ sent \in [Sides -> Nat] /\ given \in [Sides -> Nat]
      /\ stream \in [Sides -> StreamType]
      /\ bridge \in [Sides -> {"running", "unwinding", "closing", "released", "done", "cut"}]
      /\ wire \in [Sides -> Seq({"DATA", "HALF_CLOSE", "CLOSE"})]
  BY <1>1 DEF BridgeTypes
<1>3. UpOK(s) /\ UpOK(o) /\ WireOK(s) /\ WireOK(o) /\ StreamOK(s) /\ StreamOK(o)
  BY <1>1 DEF BridgeInv
<1>4. /\ bridge' \in [Sides -> {"running", "unwinding", "closing", "released", "done", "cut"}]
      /\ bridge'[s] = "released" /\ bridge'[o] = bridge[o]
  BY <1>1, <1>2
<1>5. /\ stream'[s] \in StreamType /\ stream'[s].closed /\ stream'[s].remoteEof
      /\ stream'[s].buffer = 0 /\ (stream'[s].localEof <=> stream[s].localEof)
      /\ (stream'[s].reset <=> stream[s].reset)
      /\ stream' \in [Sides -> StreamType] /\ stream'[o] = stream[o]
  <2>1. stream' = [stream EXCEPT ![s] = stream'[s]]
        /\ stream'[s] = IF stream[s].closed THEN [stream[s] EXCEPT !.buffer = 0]
                        ELSE MarkClosed(stream[s], FALSE)
    BY <1>2 DEF CloseStream
  <2>2. stream[s] \in StreamType /\ (stream[s].closed => stream[s].remoteEof)
    BY <1>2, <1>3 DEF StreamOK
  <2>3. /\ stream'[s] \in StreamType /\ stream'[s].closed /\ stream'[s].remoteEof
        /\ stream'[s].buffer = 0 /\ (stream'[s].localEof <=> stream[s].localEof)
        /\ (stream'[s].reset <=> stream[s].reset)
    BY <2>1, <2>2, DropLemma, Zenon
  <2>4. stream'[o] = stream[o]
    BY <1>1, <1>2, <2>1
  <2>5. stream' \in [Sides -> StreamType]
    BY <1>2, <2>1, <2>3
  <2> QED
    BY <2>3, <2>4, <2>5
<1>6. /\ Coming(s)' = Coming(s) /\ Coming(s) \in Int
      /\ Coming(o)' = Coming(o) + stream[s].buffer /\ Coming(o) \in Int
      /\ stream[s].buffer \in Nat
  <2>1. stream[o].buffer \in Nat /\ stream[s].buffer \in Nat
    BY <1>1, <1>2 DEF StreamType
  <2>2. /\ sent[s] \in Nat /\ sent[o] \in Nat /\ given[s] \in Nat /\ given[o] \in Nat
        /\ given' = given /\ sent' = sent
    BY <1>1, <1>2
  <2> QED
    BY <1>1, <1>5, <2>1, <2>2 DEF Coming
<1>7. /\ wire' \in [Sides -> Seq({"DATA", "HALF_CLOSE", "CLOSE"})] /\ wire'[o] = wire[o]
      /\ Len(wire[s]) \in Nat /\ Len(wire'[s]) \in Nat /\ Len(wire[s]) <= Len(wire'[s])
      /\ \A i \in 1..Len(wire'[s]) :
            \/ i \in 1..Len(wire[s]) /\ wire'[s][i] = wire[s][i]
            \/ i = Len(wire[s]) + 1 /\ wire'[s][i] = "CLOSE"
      /\ ~tunnel => wire' = wire
  <2>1. CASE stream[s].closed
    BY <1>2, <2>1 DEF CloseStream
  <2>2. CASE ~stream[s].closed
    <3>1. Send(s, "CLOSE")
      BY <2>2 DEF CloseStream
    <3> QED
      BY <2>2, <3>1, SendBridge
  <2> QED
    BY <2>1, <2>2
<1>8. BridgeTypes'
  BY <1>1, <1>4, <1>5, <1>7 DEF BridgeTypes
<1>9. ASSUME NEW x \in Sides PROVE UpOK(x)' /\ DownOK(x)'
  <2>1. stream'[x].localEof <=> stream[x].localEof
    BY <1>1, <1>5
  <2>2. bridge'[x] = bridge[x] \/ (bridge[x] = "closing" /\ bridge'[x] = "released")
    BY <1>1, <1>4
  <2> QED
    BY <1>1, <2>1, <2>2 DEF BridgeInv, UpOK, DownOK
<1>10. WireOK(s)'
  <2>1. /\ \A i \in 1..Len(wire'[s]) : wire'[s][i] = "HALF_CLOSE" => stream'[s].localEof
        /\ \A i \in 1..Len(wire'[s]) : wire'[s][i] = "CLOSE" => stream'[s].closed
    <3>1. /\ \A i \in 1..Len(wire[s]) : wire[s][i] = "HALF_CLOSE" => stream[s].localEof
          /\ \A i \in 1..Len(wire[s]) : wire[s][i] = "CLOSE" => stream[s].closed
      BY <1>3 DEF WireOK
    <3>2. \A i \in 1..Len(wire'[s]) : wire'[s][i] = "HALF_CLOSE" =>
                i \in 1..Len(wire[s]) /\ wire[s][i] = "HALF_CLOSE"
      BY <1>7
    <3> QED
      BY <1>5, <3>1, <3>2
  <2>2. Coming(s)' >= 0 /\ sent'[s] - given'[o] <= Window
    BY <1>1, <1>3, <1>6 DEF WireOK
  <2>3. ASSUME ~stream'[o].remoteEof
        PROVE  /\ Coming(s)' <= Len(wire'[s])
               /\ \A i \in 1..Len(wire'[s]) : wire'[s][i] = "DATA" <=> i <= Coming(s)'
    <3> DEFINE w == wire[s]
               v == wire'[s]
               n == Len(wire[s])
               d == Coming(s)
    <3>3. /\ \A i \in 1..Len(v) : \/ i \in 1..n /\ v[i] = w[i]
                                  \/ i = n + 1 /\ v[i] = "CLOSE"
          /\ n \in Nat /\ Len(v) \in Nat /\ n <= Len(v) /\ d \in Int /\ d <= n
          /\ \A i \in 1..n : w[i] = "DATA" <=> i <= d
      BY <1>3, <1>5, <1>6, <1>7, <2>3 DEF WireOK
    <3> HIDE DEF w, v, n, d
    <3>4. /\ d <= Len(v)
          /\ \A i \in 1..Len(v) : v[i] = "DATA" <=> i <= d
      BY <3>3
    <3> QED
      BY <1>6, <3>4 DEF v, d
  <2>4. ASSUME stream'[o].remoteEof, ~stream'[o].closed
        PROVE  \A i \in 1..Len(wire'[s]) : wire'[s][i] # "DATA"
    BY <1>3, <1>5, <1>7, <2>4 DEF WireOK
  <2> HIDE DEF o
  <2> QED
    BY <2>1, <2>2, <2>3, <2>4 DEF WireOK, o
<1>11. WireOK(o)'
  <2>1. Coming(o)' >= 0 /\ sent'[o] - given'[s] <= Window
    BY <1>1, <1>3, <1>6 DEF WireOK
  <2> QED
    BY <1>1, <1>3, <1>5, <1>7, <2>1 DEF WireOK
<1>12. StreamOK(s)' /\ StreamOK(o)'
  <2>1. tunnel' = tunnel /\ (~tunnel => wire[s] = <<>> /\ wire[o] = <<>> /\ stream[o].closed)
    BY <1>1, <1>3 DEF StreamOK
  <2>2. StreamOK(s)'
    BY <1>4, <1>5, <1>7, <2>1 DEF StreamOK
  <2>3. StreamOK(o)'
    BY <1>1, <1>3, <1>4, <1>5, <1>6, <1>7, <2>1 DEF StreamOK
  <2> QED
    BY <2>2, <2>3
<1> QED
  BY <1>1, <1>8, <1>9, <1>10, <1>11, <1>12 DEF BridgeInv

-----------------------------------------------------------------------------
LEMMA BridgesStep == BridgeInv /\ [BridgeNext]_bridgeVars => BridgeInv'
<1> SUFFICES ASSUME BridgeInv, [BridgeNext]_bridgeVars PROVE BridgeInv'
  OBVIOUS
<1>0. faults \in 0..MaxFaults /\ MaxFaults \in Nat
  BY FaultsAssumption DEF BridgeInv, BridgeTypes
<1>1. ASSUME NEW s \in Sides, App(s) \/ Deliver(s) PROVE BridgeInv'
  BY <1>1, AppBridge, DeliverBridge
<1>2. ASSUME NEW s \in Sides, Pump(s) \/ PumpBack(s) PROVE BridgeInv'
  BY <1>2, UpBridge, UpWriteBridge, UpEofBridge, DownBridge DEF Pump
<1>3. ASSUME NEW s \in Sides, BridgeTask(s) \/ Expire(s) \/ Cancel(s) PROVE BridgeInv'
  BY <1>3, StopBridge, StopPumpsBridge, CloseBridge DEF BridgeTask, Clean
<1>4. CASE TunnelEnds \/ PeerCloses
  BY <1>0, <1>4, TunnelBridge DEF TunnelEnds, PeerCloses, Fault
<1>5. CASE UNCHANGED bridgeVars
  <2>1. UNCHANGED <<wrote, end, given, fin, up, down, bridge, aborted, stream, sent, wire, tunnel, faults>>
    BY <1>5 DEF bridgeVars
  <2>2. BridgeTypes'
    BY <2>1 DEF BridgeInv, BridgeTypes
  <2>3. ASSUME NEW x \in Sides PROVE UpOK(x)' /\ WireOK(x)' /\ StreamOK(x)' /\ DownOK(x)'
    BY <2>1 DEF BridgeInv, UpOK, WireOK, StreamOK, DownOK, Coming
  <2> QED
    BY <2>2, <2>3 DEF BridgeInv
<1> QED
  BY <1>1, <1>2, <1>3, <1>4, <1>5 DEF BridgeNext

\* The bridges of one connection keep their invariant: the data that is coming is at the
\* head of the wire, an end of data that is not a reset follows all of it, and no
\* stream holds or is owed more than a window.
THEOREM BridgeInvariant == BridgeSpec => []BridgeInv
<1>1. BridgeInv /\ [BridgeNext]_bridgeVars => BridgeInv'
  BY BridgesStep
<1> QED
  BY <1>1, BridgeInitInv, PTL DEF BridgeSpec

\* bridge_socket never shows an application a false end of data: whatever is cancelled,
\* expires, is reset or lost with the tunnel, write_eof is called on a socket only when
\* all that the other application wrote has been written to it and that application has
\* ended its data; and a bridge that ends without a reason has passed on all of its own.
THEOREM EndsAreTrueAlways == BridgeSpec => []EndsAreTrue
<1>1. BridgeInv => EndsAreTrue
  <2> SUFFICES ASSUME BridgeInv PROVE EofIsComplete /\ CleanEndIsWhole
    BY DEF EndsAreTrue
  <2>1. EofIsComplete
    BY DEF EofIsComplete, BridgeInv, DownOK
  <2>2. CleanEndIsWhole
    BY DEF CleanEndIsWhole, BridgeInv, DownOK, UpOK
  <2> QED
    BY <2>1, <2>2
<1> QED
  BY <1>1, BridgeInvariant, PTL

LEMMA BuffersBounded == BridgeInv => BridgeTypeOK
<1> SUFFICES ASSUME BridgeInv PROVE BridgeTypeOK
  OBVIOUS
<1>1. BridgeTypes
  BY DEF BridgeInv
<1>2. ASSUME NEW s \in Sides
      PROVE  stream[s] \in [buffer : 0..Window, localEof : BOOLEAN, remoteEof : BOOLEAN,
                            closed : BOOLEAN, reset : BOOLEAN]
  <2>1. Other(s) \in Sides /\ Other(Other(s)) = s
    BY SidesLemma
  <2>2. Coming(Other(s)) >= 0 /\ sent[Other(s)] - given[s] <= Window
    BY <2>1 DEF BridgeInv, WireOK
  <2>3. stream[s] \in StreamType /\ sent[Other(s)] \in Nat /\ given[s] \in Nat
    BY <1>1, <2>1 DEF BridgeTypes
  <2>4. stream[s].buffer \in 0..Window
    BY <2>1, <2>2, <2>3, WindowAssumption DEF Coming, StreamType
  <2> QED
    BY <2>3, <2>4 DEF StreamType
<1>3. stream \in [Sides -> [buffer : 0..Window, localEof : BOOLEAN, remoteEof : BOOLEAN,
                            closed : BOOLEAN, reset : BOOLEAN]]
  BY <1>1, <1>2 DEF BridgeTypes
<1> QED
  BY <1>1, <1>3 DEF BridgeTypes, BridgeTypeOK

\* No buffer of a stream exceeds the window.
THEOREM BridgeTyped == BridgeSpec => []BridgeTypeOK
BY BuffersBounded, BridgeInvariant, PTL

-----------------------------------------------------------------------------
(***************************************************************************)
(* Types of the composition that the run checks.                           *)
(***************************************************************************)

LEMMA ForwarderTypes == TypeOK /\ [Next]_vars => TypeOK'
<1> SUFFICES ASSUME TypeOK, [Next]_vars PROVE TypeOK'
  OBVIOUS
<1>1. ASSUME NEW c \in Conns, NEW s \in Stages, Go(c, s) PROVE TypeOK'
  BY <1>1 DEF Go, TypeOK, Stages
<1>2. ASSUME NEW c \in Conns, Accept(c) PROVE TypeOK'
  <2>1. \E s \in Stages : Go(c, s)
    BY <1>2, FirstStageOK DEF Accept, Stages
  <2>2. QED BY <1>1, <2>1
<1>3. ASSUME NEW c \in Conns,
             \/ AcceptControl(c) \/ RecvOpen(c) \/ Ends(c) \/ Served(c)
             \/ Ask(c) \/ Open(c) \/ Dial(c) \/ Ended(c)
             \/ BridgeReverse(c) \/ HandlerEnds(c) \/ StreamEnds(c)
      PROVE  TypeOK'
  <2>1. \E s \in Stages : Go(c, s)
    BY <1>3 DEF AcceptControl, RecvOpen, Ends, Served, Ask, Open, Dial, Ended, BridgeReverse,
                HandlerEnds, StreamEnds, Stages
  <2>2. QED BY <1>1, <2>1
<1>4. ASSUME NEW c \in Conns, CancelArrives(c) PROVE TypeOK'
  <2>1. PICK s \in AfterCancel(c) : conn' = [conn EXCEPT ![c] = s]
    BY <1>4 DEF CancelArrives
  <2>2. s \in Stages
    BY CancelAddsNone DEF TypeOK, ConnOK, Stages
  <2>3. QED BY <1>4, <2>1, <2>2 DEF CancelArrives, TypeOK, Stages
<1>5. Tasks \subseteq Conns
  BY DEF Tasks
<1>6. ASSUME PeerEnds \/ CloseServers \/ CancelTasks \/ ClosePeer PROVE TypeOK'
  BY <1>5, <1>6 DEF PeerEnds, CloseServers, CancelTasks, ClosePeer, TypeOK
<1>7. CASE UNCHANGED vars
  BY <1>7 DEF vars, TypeOK
<1>8. QED BY <1>2, <1>3, <1>4, <1>6, <1>7 DEF Next, Step

ForwardingInv == BridgeInv /\ TypeOK /\ ListenersTypeOK

\* In the composed system every variable has its type, for any number of connections,
\* bytes and requests, and no buffer of a bridged stream exceeds its window.
THEOREM ForwardingTyped == MCSpec => []MCTypeOK
<1>1. MCInit => ForwardingInv
  <2> SUFFICES ASSUME MCInit PROVE ForwardingInv
    OBVIOUS
  <2>1. BridgeInv
    BY BridgeInitInv DEF MCInit
  <2>2. TypeOK
    BY DEF MCInit, Init, TypeOK
  <2>3. ListenersTypeOK
    BY InitInv DEF MCInit, Inv, FramesInv
  <2>4. QED BY <2>1, <2>2, <2>3 DEF ForwardingInv
<1>2. ForwardingInv /\ [MCNext]_<<part, bridgeVars, vars, listenerVars>> => ForwardingInv'
  <2> SUFFICES ASSUME BridgeInv, TypeOK, ListenersTypeOK,
                      [MCNext]_<<part, bridgeVars, vars, listenerVars>>
               PROVE  ForwardingInv'
    BY DEF ForwardingInv
  <2>1. /\ [BridgeNext]_bridgeVars /\ [Next]_vars /\ [ListenersNext]_listenerVars
    BY DEF MCNext, BridgeStep, ClientStep, ListenerStep
  <2>2. BridgeInv'
    BY <2>1, BridgesStep
  <2>3. TypeOK'
    BY <2>1, ForwarderTypes
  <2>4. ListenersTypeOK'
    BY <2>1, TypeStep
  <2>5. QED BY <2>2, <2>3, <2>4 DEF ForwardingInv
<1>3. ForwardingInv => MCTypeOK
  BY BuffersBounded DEF ForwardingInv, MCTypeOK
<1>4. QED BY <1>1, <1>2, <1>3, PTL DEF MCSpec

=============================================================================
