------------------------------ MODULE PeerProofs ------------------------------
(***************************************************************************)
(* The beginning and the end of a peer.                                    *)
(*                                                                         *)
(* Handshake: its safety, for every choice of lossy peers and with no use  *)
(* of the bounds MaxHellos and MaxApp; HELLO may be repeated any number of *)
(* times.                                                                  *)
(*                                                                         *)
(* PeerShutdown: type correctness, that a peer that says it is closed is   *)
(* quiet, and that a session leaves its channel closed unless close() met  *)
(* a runner inside _shutdown, for any number of handlers and users.  The   *)
(* invariant says of each stage of _shutdown what it leaves behind for the *)
(* later ones.                                                             *)
(***************************************************************************)
EXTENDS Handshake, PeerShutdown, TLAPS

-----------------------------------------------------------------------------
(* One session of the agent.                                               *)

StageOK ==
    /\ runner \in {"created", "reading"} => stage = 0
    /\ runner = "shutdown" => stage \in 1..5
    /\ runner = "ended" => stage = 6

\* The timers are cancelled in the first two stages and have ended after them; a
\* retransmission that start() creates later is "late".
TimersStopped ==
    /\ stage >= 1 => retransmit # "running"
    /\ stage > 1 => retransmit # "cancelled"
    /\ stage >= 2 => heartbeat # "running"
    /\ stage > 2 => heartbeat = "ended"

HandlersStopped ==
    /\ stage >= 3 => \A h \in Handlers : handler[h] # "running"
    /\ stage > 3 => \A h \in Handlers : handler[h] # "cancelled"

StreamsClosed ==
    stage >= 4 => listener # "active" /\ \A u \in Users : user[u] # "using"

OpensFailed ==
    stage >= 5 => channel = "closed" /\ \A u \in Users : user[u] # "opening"

Inv ==
    /\ TypeOK
    /\ StageOK
    /\ TimersStopped
    /\ HandlersStopped
    /\ StreamsClosed
    /\ OpensFailed

USE DEF StopRetransmit, StopHeartbeat, StopHandlers, StopListeners, CloseTransport,
        Finished

\* What ShutdownFrom leaves is well typed, and each stage it passes or enters has
\* done its part.
LEMMA ShutdownLemma ==
    ASSUME Inv,
           NEW first \in 1..6,
           stage = first - 1,
           stage > 0 => StageDone(stage),
           ShutdownFrom(first),
           main' = main, cancel' \in BOOLEAN, ready' = ready
    PROVE  Inv'
<1>1. PICK last \in first..6 :
          /\ \A i \in first..(last - 1) : ~Suspends(i)
          /\ last # 6 => Suspends(last)
          /\ stage' = last
          /\ runner' = IF last = 6 THEN "ended" ELSE "shutdown"
          /\ retransmit' = IF 1 \in first..last THEN Cancelled(retransmit) ELSE retransmit
          /\ heartbeat' = IF 2 \in first..last THEN Cancelled(heartbeat) ELSE heartbeat
          /\ handler' = IF 3 \in first..last
                        THEN [h \in Handlers |-> Cancelled(handler[h])] ELSE handler
          /\ listener' = IF last = 4 THEN "closing"
                         ELSE IF listener = "closing" THEN "closed" ELSE listener
          /\ user' = [u \in Users |-> Disconnect(user[u], first, last)]
          /\ channel' = IF 5 \in first..last THEN "closed" ELSE channel
  BY DEF ShutdownFrom
<1>2. last \in 1..6 /\ first \in 1..last
  OBVIOUS
<1>3. retransmit' \in {"none", "running", "late", "cancelled", "ended"}
      /\ heartbeat' \in {"running", "cancelled", "ended"}
  BY <1>1 DEF Inv, TypeOK, Cancelled
<1>4. handler' \in [Handlers -> {"none", "running", "cancelled", "ended"}]
  BY <1>1 DEF Inv, TypeOK, Cancelled
<1>5. user' \in [Users -> {"idle", "opening", "using", "ending", "done"}]
  BY <1>1 DEF Inv, TypeOK, Disconnect
<1>6. TypeOK'
  BY <1>1, <1>2, <1>3, <1>4, <1>5 DEF Inv, TypeOK
<1>7. StageOK'
  BY <1>1, <1>2 DEF StageOK
<1>8. TimersStopped'
  <2>1. stage' >= 2 => heartbeat' # "running"
    BY <1>1, <1>2 DEF Inv, TimersStopped, Cancelled
  <2>2. stage' > 2 => heartbeat' = "ended"
    <3>1. last > 2 /\ first <= 2 => ~Suspends(2)
      BY <1>1, <1>2
    <3>2. ~(last > 2 /\ first <= 2)
      BY <3>1 DEF Suspends
    <3>3. CASE first = 3
      BY <1>1, <1>2, <3>3 DEF Inv, TypeOK, StageDone, Alive, TimersStopped
    <3>4. CASE first > 3
      BY <1>1, <1>2, <3>4 DEF Inv, TimersStopped
    <3>5. QED
      BY <1>1, <1>2, <3>2, <3>3, <3>4
  <2>3. stage' >= 1 => retransmit' # "running"
    BY <1>1, <1>2 DEF Inv, TimersStopped, Cancelled
  <2>4. stage' > 1 => retransmit' # "cancelled"
    <3>1. CASE first = 1
      <4>1. last > 1 => retransmit = "none"
        BY <1>1, <1>2, <3>1 DEF Suspends
      <4>2. QED
        BY <1>1, <1>2, <4>1 DEF Cancelled
    <3>2. CASE first = 2
      BY <1>1, <1>2, <3>2 DEF StageDone, Alive
    <3>3. CASE first > 2
      BY <1>1, <1>2, <3>3 DEF Inv, TimersStopped
    <3>4. QED
      BY <1>2, <3>1, <3>2, <3>3
  <2>5. QED
    BY <2>1, <2>2, <2>3, <2>4 DEF TimersStopped
<1>9. HandlersStopped'
  <2>1. ASSUME last >= 3, NEW h \in Handlers
        PROVE  handler'[h] # "running"
    BY <1>1, <1>2, <2>1 DEF Inv, TypeOK, HandlersStopped, Cancelled
  <2>2. ASSUME last > 3, NEW h \in Handlers
        PROVE  handler'[h] # "cancelled"
    <3>1. CASE first <= 3
      <4>1. ~Suspends(3)
        BY <1>1, <1>2, <2>2, <3>1
      <4>2. ~Alive(handler[h])
        BY <4>1 DEF Suspends
      <4>3. QED
        BY <1>1, <1>2, <2>2, <3>1, <4>2 DEF Alive, Cancelled
    <3>2. CASE first = 4
      <4>1. ~Alive(handler[h])
        BY <3>2 DEF StageDone
      <4>2. QED
        BY <1>1, <1>2, <3>2, <4>1 DEF Alive
    <3>3. CASE first > 4
      BY <1>1, <1>2, <3>3 DEF Inv, HandlersStopped
    <3>4. QED
      BY <1>2, <3>1, <3>2, <3>3
  <2>3. QED
    BY <1>1, <2>1, <2>2 DEF HandlersStopped
<1>10. StreamsClosed'
  <2>1. last >= 4 => listener' # "active"
    <3>1. CASE last > 4 /\ first <= 4
      <4>1. ~Suspends(4)
        BY <1>1, <1>2, <3>1
      <4>2. QED
        BY <1>1, <3>1, <4>1 DEF Suspends
    <3>2. CASE last > 4 /\ first > 4
      BY <1>1, <1>2, <3>2 DEF Inv, StreamsClosed
    <3>3. QED
      BY <1>1, <1>2, <3>1, <3>2
  <2>2. ASSUME last >= 4, NEW u \in Users
        PROVE  user'[u] # "using"
    BY <1>1, <1>2, <2>2 DEF Inv, StreamsClosed, Disconnect
  <2>3. QED
    BY <1>1, <2>1, <2>2 DEF StreamsClosed
<1>11. OpensFailed'
  BY <1>1, <1>2 DEF Inv, OpensFailed, Disconnect
<1>12. QED
  BY <1>6, <1>7, <1>8, <1>9, <1>10, <1>11 DEF Inv

\* forwarder.close() starts no use of the peer and leaves the stages alone.
LEMMA CancelTasksLemma ==
    ASSUME Inv, CancelTasks
    PROVE  /\ main' \in {"sweeping", "left", "joining"}
           /\ cancel' \in BOOLEAN
           /\ user' \in [Users -> {"idle", "opening", "using", "ending", "done"}]
           /\ \A u \in Users : user'[u] \notin {"opening", "using"}
<1>1. user' = [u \in Users |-> IF InUse(u) THEN "ending" ELSE user[u]]
  BY DEF CancelTasks
<1>2. \A u \in Users : user'[u] \notin {"opening", "using"}
  BY <1>1 DEF InUse
<1>3. user' \in [Users -> {"idle", "opening", "using", "ending", "done"}]
  BY <1>1 DEF Inv, TypeOK
<1>4. main' \in {"sweeping", "left", "joining"} /\ cancel' \in BOOLEAN
  BY DEF CancelTasks, ClosePeer, Inv, TypeOK
<1>5. QED
  BY <1>2, <1>3, <1>4

LEMMA CloseForwarderLemma ==
    ASSUME Inv, CloseForwarder,
           retransmit' \in {"none", "running", "late", "cancelled", "ended"},
           retransmit' = retransmit \/ retransmit' = "late"
    PROVE  Inv'
<1>1. UNCHANGED <<runner, stage, ready, heartbeat, handler, listener, channel>>
  BY DEF CloseForwarder
<1>2. CASE listener = "active"
  BY <1>1, <1>2
  DEF CloseForwarder, Inv, TypeOK, StageOK, TimersStopped, HandlersStopped,
      StreamsClosed, OpensFailed
<1>3. CASE listener # "active"
  <2>1. CancelTasks
    BY <1>3 DEF CloseForwarder
  <2>2. QED
    BY <1>1, <2>1, CancelTasksLemma
    DEF Inv, TypeOK, StageOK, TimersStopped, HandlersStopped, StreamsClosed,
        OpensFailed
<1>4. QED
  BY <1>2, <1>3

LEMMA InitInv == Init => Inv
<1> SUFFICES ASSUME Init PROVE Inv
  OBVIOUS
<1>1. cancel \in BOOLEAN /\ ready \in BOOLEAN
  BY DEF Init
<1>2. handler \in [Handlers -> {"none", "running", "cancelled", "ended"}]
      /\ user \in [Users -> {"idle", "opening", "using", "ending", "done"}]
  BY DEF Init
<1>3. /\ main = "starting" /\ runner = "created" /\ stage = 0 /\ retransmit = "none"
      /\ heartbeat = "running" /\ listener = "none" /\ channel = "open"
  BY DEF Init
<1>4. TypeOK
  BY <1>1, <1>2, <1>3 DEF TypeOK
<1>5. QED
  BY <1>4
  DEF Init, Inv, StageOK, TimersStopped, HandlersStopped, StreamsClosed, OpensFailed

LEMMA MainInv == Inv /\ MainStep => Inv'
<1> SUFFICES ASSUME Inv, MainStep PROVE Inv'
  OBVIOUS
<1> USE DEF StageOK, TimersStopped, HandlersStopped, StreamsClosed, OpensFailed
<1>1. CASE HelloSent
  <2>1. CASE Closing /\ ~ready
    BY <1>1, <2>1, CloseForwarderLemma DEF HelloSent
  <2>2. CASE ~(Closing /\ ~ready)
    BY <1>1, <2>2 DEF HelloSent, Closing, Inv, TypeOK, clients
  <2>3. QED
    BY <2>1, <2>2
<1>2. CASE HelloFails
  BY <1>2, CloseForwarderLemma DEF HelloFails, Inv, TypeOK
<1>3. CASE WaitReady
  BY <1>3 DEF WaitReady, Inv, TypeOK, tasks, clients
<1>4. CASE StartTimeout
  BY <1>4 DEF StartTimeout, Inv, TypeOK, tasks, clients
<1>5. CASE StartFails
  BY <1>5, CloseForwarderLemma DEF StartFails, Inv, TypeOK
<1>6. CASE WaitClosed
  BY <1>6, CloseForwarderLemma DEF WaitClosed, Inv, TypeOK
<1>7. CASE ListenersClosed
  <2>1. CancelTasks /\ UNCHANGED <<runner, stage, ready, tasks, listener, channel>>
    BY <1>7 DEF ListenersClosed
  <2>2. QED
    BY <2>1, CancelTasksLemma DEF Inv, TypeOK, tasks
<1>8. CASE TasksEnded
  BY <1>8 DEF TasksEnded, ClosePeer, Closed, Inv, TypeOK, tasks, clients
<1>9. CASE Join
  BY <1>9 DEF Join, Inv, TypeOK, tasks, clients
<1>10. QED
  BY <1>1, <1>2, <1>3, <1>4, <1>5, <1>6, <1>7, <1>8, <1>9 DEF MainStep

LEMMA RunnerInv == Inv /\ RunnerStep => Inv'
<1> SUFFICES ASSUME Inv, RunnerStep PROVE Inv'
  OBVIOUS
<1>a. runner = "reading" => stage = 0
  BY DEF Inv, StageOK
<1>1. CASE RunnerBegins
  BY <1>1
  DEF RunnerBegins, Inv, TypeOK, tasks, clients, StageOK, TimersStopped,
      HandlersStopped, StreamsClosed, OpensFailed
<1>2. CASE RunnerStops
  BY <1>a, <1>2, ShutdownLemma DEF RunnerStops, Inv, TypeOK
<1>3. CASE CancelDelivered
  <2>a. cancel' \in BOOLEAN /\ main' = main /\ ready' = ready
    BY <1>3 DEF CancelDelivered
  <2>1. CASE runner = "reading" /\ ShutdownFrom(1)
    BY <1>a, <2>a, <2>1, ShutdownLemma
  <2>2. CASE /\ runner' = "aborted"
             /\ UNCHANGED <<stage, tasks, clients, channel>>
    BY <2>a, <2>2
    DEF Inv, TypeOK, tasks, clients, StageOK, TimersStopped,
        HandlersStopped, StreamsClosed, OpensFailed
  <2>3. QED
    BY <1>3, <2>1, <2>2 DEF CancelDelivered
<1>4. CASE ResumeShutdown
  <2>1. stage + 1 \in 1..6 /\ StageDone(stage) /\ ShutdownFrom(stage + 1)
    BY <1>4 DEF ResumeShutdown, Inv, StageOK
  <2>2. main' = main /\ cancel' \in BOOLEAN /\ ready' = ready
    BY <1>4 DEF ResumeShutdown, Inv, TypeOK
  <2>3. stage = (stage + 1) - 1
    BY DEF Inv, TypeOK
  <2>4. QED
    BY <2>1, <2>2, <2>3, ShutdownLemma
<1>5. CASE BecomeReady
  BY <1>5
  DEF BecomeReady, Inv, TypeOK, tasks, clients, StageOK, TimersStopped,
      HandlersStopped, StreamsClosed, OpensFailed
<1>6. ASSUME NEW h \in Handlers, SpawnHandler(h) PROVE Inv'
  BY <1>a, <1>6
  DEF SpawnHandler, Inv, TypeOK, clients, StageOK, TimersStopped, HandlersStopped,
      StreamsClosed, OpensFailed
<1>7. ASSUME NEW u \in Users, OpenAnswered(u) PROVE Inv'
  BY <1>a, <1>7
  DEF OpenAnswered, Inv, TypeOK, tasks, StageOK, TimersStopped, HandlersStopped,
      StreamsClosed, OpensFailed
<1>8. QED
  BY <1>1, <1>2, <1>3, <1>4, <1>5, <1>6, <1>7 DEF RunnerStep

LEMMA TimerInv ==
    Inv /\ (RetransmitEnds \/ HeartbeatEnds \/ HeartbeatGivesUp \/ ChannelEnds) => Inv'
BY DEF RetransmitEnds, HeartbeatEnds, HeartbeatGivesUp, ChannelEnds, Inv, TypeOK, tasks,
       clients, StageOK, TimersStopped, HandlersStopped, StreamsClosed, OpensFailed

LEMMA HandlerInv == ASSUME Inv, NEW h \in Handlers, HandlerStep(h) PROVE Inv'
<1> USE DEF StageOK, TimersStopped, HandlersStopped, StreamsClosed, OpensFailed
<1>1. handler' = [handler EXCEPT ![h] = "ended"]
  BY DEF HandlerStep, HandlerCancelled, HandlerListens, HandlerBridges, HandlerFails,
         EndOf
<1>2. handler' \in [Handlers -> {"none", "running", "cancelled", "ended"}]
  BY <1>1 DEF Inv, TypeOK
<1>3. stage' = stage => HandlersStopped'
  BY <1>1 DEF Inv, TypeOK
<1>4. handler[h] = "running" => stage < 3
  BY DEF Inv, TypeOK
<1>5. CASE HandlerCancelled(h)
  BY <1>2, <1>3, <1>5 DEF HandlerCancelled, Inv, TypeOK, clients
<1>6. CASE HandlerListens(h)
  BY <1>2, <1>3, <1>4, <1>6 DEF HandlerListens, Inv, TypeOK
<1>7. CASE HandlerBridges(h)
  BY <1>2, <1>3, <1>4, <1>7 DEF HandlerBridges, Inv, TypeOK
<1>8. CASE HandlerFails(h)
  BY <1>2, <1>3, <1>8 DEF HandlerFails, Inv, TypeOK, clients
<1>9. QED
  BY <1>5, <1>6, <1>7, <1>8 DEF HandlerStep

LEMMA UserInv == ASSUME Inv, NEW u \in Users, UserStep(u) PROVE Inv'
<1> USE DEF StageOK, TimersStopped, HandlersStopped, StreamsClosed, OpensFailed
<1>1. CASE UserOpens(u)
  BY <1>1 DEF UserOpens, Inv, TypeOK, tasks
<1>2. CASE OpenTimesOut(u)
  BY <1>2 DEF OpenTimesOut, Inv, TypeOK, tasks
<1>3. CASE UserEnds(u)
  BY <1>3 DEF UserEnds, Inv, TypeOK, tasks
<1>4. QED
  BY <1>1, <1>2, <1>3 DEF UserStep

LEMMA NextInv == Inv /\ [Next]_vars => Inv'
<1> SUFFICES ASSUME Inv, [Next]_vars PROVE Inv'
  OBVIOUS
<1>1. CASE UNCHANGED vars
  BY <1>1
  DEF vars, Inv, TypeOK, StageOK, TimersStopped, HandlersStopped, StreamsClosed,
      OpensFailed
<1>2. CASE Next
  BY <1>2, MainInv, RunnerInv, TimerInv, HandlerInv, UserInv DEF Next
<1>3. QED
  BY <1>1, <1>2

LEMMA SpecInv == Spec => []Inv
BY InitInv, NextInv, PTL DEF Spec

\* The record of a session is well typed.
THEOREM ShutdownTypeOK == Spec => []TypeOK
<1>1. Inv => TypeOK
  BY DEF Inv
<1>2. QED
  BY <1>1, SpecInv, PTL

\* For any number of handlers and users, and on every Python version, a peer whose
\* _closed is set has no heartbeat, no handler, no accepting listener and no pending
\* open left, its channel is closed, and of the retransmission of HELLO only a loop
\* that start() created during or after _shutdown can be alive: the order of the
\* stages of MuxPeer._shutdown is right.
THEOREM ShutdownQuiet == Spec => []ClosedMeansQuiet
<1>1. Inv => ClosedMeansQuiet
  BY DEF Inv, TypeOK, StageOK, TimersStopped, HandlersStopped, StreamsClosed,
         OpensFailed, ClosedMeansQuiet, Closed, Alive
<1>2. QED
  BY <1>1, SpecInv, PTL

\* What becomes of the channel when the main task leaves.  close() cancels a runner
\* it finds at work and then joins it; a runner that has not begun is met only when
\* HELLO could not be written.
LeavingOK ==
    /\ cancel => main = "joining" /\ runner \in {"created", "reading", "shutdown"}
    /\ runner = "created" => main = "starting" \/ channel = "closed"
    /\ runner = "aborted" => /\ main \in {"joining", "left"}
                             /\ stage > 0 \/ channel = "closed"
    /\ main = "left" => runner \in {"ended", "aborted"}

\* forwarder.close() is reached only with a runner that has begun, or on a closed channel.
LEMMA CloseForwarderLeaves ==
    ASSUME Inv, LeavingOK, main \notin {"joining", "left"}, CloseForwarder \/ CancelTasks,
           runner = "created" => channel = "closed",
           UNCHANGED <<runner, stage, channel>>
    PROVE  LeavingOK'
<1>1. /\ main' \in {"sweeping", "left", "joining", "closing"}
      /\ main' = "left" => Closed
      /\ cancel' => cancel \/ (main' = "joining" /\ ~Closed)
  BY DEF CloseForwarder, CancelTasks, ClosePeer
<1>2. runner \in {"created", "reading", "shutdown", "ended"}
  BY DEF Inv, TypeOK, LeavingOK
<1> QED
  BY <1>1, <1>2 DEF LeavingOK, Closed

LEMMA MainLeaves == Inv /\ LeavingOK /\ MainStep => LeavingOK'
<1> SUFFICES ASSUME Inv, LeavingOK, MainStep PROVE LeavingOK'
  OBVIOUS
<1>1. CASE HelloSent
  <2>1. CASE Closing /\ ~ready
    <3>1. CloseForwarder /\ main = "starting" /\ runner # "created"
      BY <1>1, <2>1 DEF HelloSent
    <3> QED
      BY <3>1, CloseForwarderLeaves DEF CloseForwarder
  <2>2. CASE ~(Closing /\ ~ready)
    BY <1>1, <2>2 DEF HelloSent, LeavingOK, clients
  <2> QED
    BY <2>1, <2>2
<1>2. CASE HelloFails
  BY <1>2, CloseForwarderLeaves DEF HelloFails, CloseForwarder
<1>3. CASE WaitReady \/ StartTimeout
  BY <1>3 DEF WaitReady, StartTimeout, LeavingOK, tasks, clients
<1>4. CASE StartFails \/ WaitClosed
  BY <1>4, CloseForwarderLeaves DEF StartFails, WaitClosed, CloseForwarder, LeavingOK
<1>5. CASE ListenersClosed
  BY <1>5, CloseForwarderLeaves DEF ListenersClosed, LeavingOK
<1>6. CASE TasksEnded
  BY <1>6 DEF TasksEnded, ClosePeer, Closed, LeavingOK, Inv, TypeOK
<1>7. CASE Join
  BY <1>7 DEF Join, LeavingOK
<1> QED
  BY <1>1, <1>2, <1>3, <1>4, <1>5, <1>6, <1>7 DEF MainStep

LEMMA RunnerLeaves == Inv /\ LeavingOK /\ RunnerStep => LeavingOK'
<1> SUFFICES ASSUME Inv, LeavingOK, RunnerStep PROVE LeavingOK'
  OBVIOUS
\* A runner that goes through _shutdown, or that goes on reading.
<1>1. ASSUME NEW first \in 1..6, ShutdownFrom(first), main' = main, ~cancel',
             runner \in {"reading", "shutdown"}
      PROVE  LeavingOK'
  <2>1. runner' \in {"shutdown", "ended"}
    BY <1>1 DEF ShutdownFrom
  <2> QED
    BY <1>1, <2>1 DEF LeavingOK
<1>2. CASE RunnerStops
  BY <1>1, <1>2 DEF RunnerStops
<1>3. CASE CancelDelivered
  <2>1. CASE runner = "reading" /\ ShutdownFrom(1)
    BY <1>1, <1>3, <2>1 DEF CancelDelivered
  <2>2. CASE runner \in {"created", "shutdown"} /\ runner' = "aborted"
    <3>1. runner = "shutdown" => stage > 0
      BY DEF Inv, StageOK
    <3>2. main = "joining" /\ UNCHANGED <<main, stage, channel>> /\ ~cancel'
      BY <1>3, <2>2 DEF CancelDelivered, LeavingOK
    <3> QED
      BY <2>2, <3>1, <3>2 DEF LeavingOK
  <2> QED
    BY <1>3, <2>1, <2>2 DEF CancelDelivered
<1>4. CASE ResumeShutdown
  <2>1. stage + 1 \in 1..6 /\ ShutdownFrom(stage + 1)
    BY <1>4 DEF ResumeShutdown, Inv, StageOK
  <2> QED
    BY <1>1, <1>4, <2>1 DEF ResumeShutdown
<1>5. CASE RunnerBegins
  BY <1>5 DEF RunnerBegins, LeavingOK
<1>6. ASSUME runner = "reading", UNCHANGED <<main, runner, stage, cancel, channel>>
      PROVE  LeavingOK'
  BY <1>6 DEF LeavingOK
<1> QED
  BY <1>2, <1>3, <1>4, <1>5, <1>6
  DEF RunnerStep, BecomeReady, SpawnHandler, OpenAnswered

LEMMA LeavingInv == Inv /\ LeavingOK /\ [Next]_vars => LeavingOK'
<1> SUFFICES ASSUME Inv, LeavingOK, [Next]_vars PROVE LeavingOK'
  OBVIOUS
\* The others never touch main, runner, stage or cancel, and never open a channel.
<1>1. ASSUME UNCHANGED <<main, runner, stage, cancel>>, channel' \in {channel, "closed"}
      PROVE  LeavingOK'
  BY <1>1 DEF LeavingOK
<1>2. CASE UNCHANGED vars
  BY <1>1, <1>2 DEF vars
<1>3. CASE RetransmitEnds \/ HeartbeatEnds \/ HeartbeatGivesUp \/ ChannelEnds
  BY <1>1, <1>3 DEF RetransmitEnds, HeartbeatEnds, HeartbeatGivesUp, ChannelEnds
<1>4. ASSUME NEW h \in Handlers, HandlerStep(h) PROVE LeavingOK'
  BY <1>1, <1>4
  DEF HandlerStep, HandlerCancelled, HandlerListens, HandlerBridges, HandlerFails
<1>5. ASSUME NEW u \in Users, UserStep(u) PROVE LeavingOK'
  BY <1>1, <1>5 DEF UserStep, UserOpens, OpenTimesOut, UserEnds
<1> QED
  BY <1>2, <1>3, <1>4, <1>5, MainLeaves, RunnerLeaves DEF Next

\* The agent goes on to the next channel only when this one is closed, whatever
\* ended the session and however many handlers, users and connections it had; but
\* for a close() that meets the runner inside _shutdown and cancels it there.
THEOREM ShutdownCloses == Spec => []ChannelClosedUnlessAborted
<1>1. Init => LeavingOK
  BY DEF Init, LeavingOK
<1>2. Inv /\ LeavingOK => ChannelClosedUnlessAborted
  BY DEF Inv, StageOK, OpensFailed, LeavingOK, ChannelClosedUnlessAborted, Closing, Closed
<1> QED
  BY <1>1, <1>2, SpecInv, LeavingInv, PTL DEF Spec

-----------------------------------------------------------------------------
(* The handshake.                                                          *)

LEMMA PeersLemma ==
    /\ \A p \in Peers : Other(p) \in Peers /\ Other(p) # p /\ Other(Other(p)) = p
    /\ \A p, q \in Peers : q = p \/ q = Other(p)
BY DEF Peers, Other

-----------------------------------------------------------------------------
(* The inductive invariant.                                                *)

\* An acknowledgement of p exists only after p has received a HELLO.
AckCausality == \A p \in Peers :
    /\ ackRecv[p] => helloRecv[Other(p)]
    /\ \A i \in 1..Len(wire[p]) : wire[p][i] = "HELLO_ACK" => helloRecv[p]

\* Once p has received a HELLO its acknowledgement is delivered or on the way.
AckUnderway == \A p \in Peers : helloRecv[p] =>
    ackRecv[Other(p)] \/ (\E i \in 1..Len(wire[p]) : wire[p][i] = "HELLO_ACK")

\* An ordinary frame is written by a ready peer, behind an acknowledgement.
AppBehindAck == \A p \in Peers : \A i \in 1..Len(wire[p]) : wire[p][i] = "APP" =>
    /\ isReady[p]
    /\ \/ ackRecv[Other(p)]
       \/ \E j \in 1..(i-1) : wire[p][j] = "HELLO_ACK"

\* isReady is exactly the two flags, except during the await of HELLO_ACK.
ReadyFlags == \A p \in Peers :
    /\ isReady[p] => helloRecv[p] /\ ackRecv[p]
    /\ helloRecv[p] /\ ackRecv[p] /\ ~acking[p] => isReady[p]
    /\ acking[p] => helloRecv[p]

IInv ==
    /\ HandshakeTypeOK
    /\ AckCausality
    /\ AckUnderway
    /\ AppBehindAck
    /\ ReadyFlags
    /\ NoEarlyFrame

-----------------------------------------------------------------------------
(* Two facts about channels.                                               *)

LEMMA AppendFacts ==
    ASSUME NEW s \in Seq(Kinds), NEW k \in Kinds
    PROVE  /\ Append(s, k) \in Seq(Kinds)
           /\ Len(Append(s, k)) = Len(s) + 1
           /\ \A i \in 1..Len(s) : Append(s, k)[i] = s[i]
           /\ Append(s, k)[Len(s) + 1] = k
OBVIOUS

LEMMA TailFacts ==
    ASSUME NEW s \in Seq(Kinds), s # <<>>
    PROVE  /\ Tail(s) \in Seq(Kinds)
           /\ Len(s) \in Nat \ {0}
           /\ Len(Tail(s)) = Len(s) - 1
           /\ \A i \in 1..(Len(s) - 1) : Tail(s)[i] = s[i + 1]
           /\ Head(s) = s[1]
OBVIOUS

\* An acknowledgement that is not at the head stays in front of what follows it.
LEMMA AckShift ==
    ASSUME NEW s \in Seq(Kinds), s # <<>>, Head(s) # "HELLO_ACK",
           NEW n \in Nat, n <= Len(s), \E j \in 1..n : s[j] = "HELLO_ACK"
    PROVE  \E j \in 1..(n - 1) : Tail(s)[j] = "HELLO_ACK"
<1>1. PICK j \in 1..n : s[j] = "HELLO_ACK"
  OBVIOUS
<1>2. j # 1 /\ j - 1 \in 1..(n - 1) /\ j - 1 \in 1..(Len(s) - 1)
  BY <1>1, TailFacts
<1>3. Tail(s)[j - 1] = "HELLO_ACK"
  BY <1>1, <1>2, TailFacts
<1>4. QED BY <1>2, <1>3

-----------------------------------------------------------------------------

LEMMA InitIInv == HandshakeInit => IInv
BY PeersLemma DEF HandshakeInit, IInv, HandshakeTypeOK, AckCausality, AckUnderway, AppBehindAck,
    ReadyFlags,
    NoEarlyFrame, Kinds

USE DEF IInv, Kinds

\* Reading a frame moves every later frame of that direction one place forward.
LEMMA TakeFacts ==
    ASSUME IInv, NEW p \in Peers, NEW k \in Kinds, Take(p, k)
    PROVE  /\ wire[Other(p)] \in Seq(Kinds)
           /\ wire[Other(p)] # <<>>
           /\ Head(wire[Other(p)]) = k
           /\ wire[Other(p)][1] = k
           /\ 1 \in 1..Len(wire[Other(p)])
BY PeersLemma, TailFacts DEF Take, HandshakeTypeOK


\* Writing a frame adds it behind the others of its direction.
LEMMA WriteFacts ==
    ASSUME HandshakeTypeOK, NEW p \in Peers, NEW k \in Kinds,
           wire' = [wire EXCEPT ![p] = Append(@, k)]
    PROVE  /\ wire' \in [Peers -> Seq(Kinds)]
           /\ \A q \in Peers : Len(wire[q]) \in Nat /\ Len(wire'[q]) \in Nat
           /\ \A q \in Peers : q # p => wire'[q] = wire[q]
           /\ Len(wire'[p]) = Len(wire[p]) + 1
           /\ \A i \in 1..Len(wire[p]) : wire'[p][i] = wire[p][i]
           /\ wire'[p][Len(wire[p]) + 1] = k
<1>1. wire[p] \in Seq(Kinds) /\ wire'[p] = Append(wire[p], k)
  BY DEF HandshakeTypeOK
<1>2. QED BY <1>1, AppendFacts DEF HandshakeTypeOK

\* Repeating HELLO cannot disturb the invariant, whenever it happens.
LEMMA HelloIInv ==
    ASSUME IInv, NEW p \in Peers, wire' = [wire EXCEPT ![p] = Append(@, "HELLO")],
           hellos' \in [Peers -> Nat],
           UNCHANGED <<apps, helloRecv, ackRecv, acking, isReady, failed>>
    PROVE  IInv'
<1>1. HandshakeTypeOK'
  BY WriteFacts DEF HandshakeTypeOK
<1>2. AckCausality'
  BY PeersLemma, WriteFacts DEF AckCausality
<1>3. AckUnderway'
  BY PeersLemma, WriteFacts DEF AckUnderway
<1>4. AppBehindAck'
  BY PeersLemma, WriteFacts DEF AppBehindAck
<1>5. ReadyFlags' /\ NoEarlyFrame'
  BY DEF ReadyFlags, NoEarlyFrame
<1>6. QED BY <1>1, <1>2, <1>3, <1>4, <1>5

LEMMA StartIInv == ASSUME IInv, NEW p \in Peers, Start(p) PROVE IInv'
<1>1. hellos' \in [Peers -> Nat]
  BY DEF Start, HandshakeTypeOK
<1>2. CASE wire' = wire
  BY <1>1, <1>2 DEF Start, HandshakeTypeOK, AckCausality, AckUnderway, AppBehindAck, ReadyFlags,
    NoEarlyFrame
<1>3. CASE wire' = [wire EXCEPT ![p] = Append(@, "HELLO")]
  BY <1>1, <1>3, HelloIInv DEF Start
<1>4. QED BY <1>2, <1>3 DEF Start

LEMMA RetransmitIInv == ASSUME IInv, NEW p \in Peers, Retransmit(p) PROVE IInv'
<1>1. hellos' \in [Peers -> Nat]
  BY DEF Retransmit, HandshakeTypeOK
<1>2. QED BY <1>1, HelloIInv DEF Retransmit

LEMMA SendAppIInv == ASSUME IInv, NEW p \in Peers, SendApp(p) PROVE IInv'
<1>0. wire' = [wire EXCEPT ![p] = Append(@, "APP")]
  BY DEF SendApp
<1>1. HandshakeTypeOK'
  BY <1>0, WriteFacts DEF HandshakeTypeOK, SendApp
<1>2. AckCausality'
  BY <1>0, PeersLemma, WriteFacts DEF AckCausality, SendApp
<1>3. AckUnderway'
  BY <1>0, PeersLemma, WriteFacts DEF AckUnderway, SendApp
<1>4. AppBehindAck'
  \* p is ready, so it received a HELLO, and its acknowledgement is ahead.
  <2>1. isReady[p] /\ helloRecv[p]
    BY DEF SendApp, ReadyFlags
  <2>2. ackRecv[Other(p)] \/ (\E j \in 1..Len(wire[p]) : wire[p][j] = "HELLO_ACK")
    BY <2>1 DEF AckUnderway
  <2>3. ackRecv[Other(p)]
          \/ (\E j \in 1..((Len(wire[p]) + 1) - 1) : wire'[p][j] = "HELLO_ACK")
    BY <1>0, <2>2, WriteFacts
  <2>4. QED BY <1>0, <2>1, <2>3, PeersLemma, WriteFacts DEF AppBehindAck, SendApp
<1>5. ReadyFlags' /\ NoEarlyFrame'
  BY DEF SendApp, ReadyFlags, NoEarlyFrame
<1>6. QED BY <1>1, <1>2, <1>3, <1>4, <1>5

LEMMA SendAckDoneIInv == ASSUME IInv, NEW p \in Peers, SendAckDone(p) PROVE IInv'
<1>1. HandshakeTypeOK'
  BY DEF SendAckDone, MaybeReady, HandshakeTypeOK
<1>2. AckCausality' /\ AckUnderway' /\ NoEarlyFrame'
  BY DEF SendAckDone, AckCausality, AckUnderway, NoEarlyFrame
<1>3. AppBehindAck'
  BY DEF SendAckDone, MaybeReady, AppBehindAck, HandshakeTypeOK
<1>4. ReadyFlags'
  BY DEF SendAckDone, MaybeReady, ReadyFlags, HandshakeTypeOK
<1>5. QED BY <1>1, <1>2, <1>3, <1>4

LEMMA RecvAppIInv == ASSUME IInv, NEW p \in Peers, RecvApp(p) PROVE IInv'
<1>0. Take(p, "APP")
  BY DEF RecvApp
<1>1. HandshakeTypeOK'
  BY PeersLemma, TailFacts DEF RecvApp, Take, HandshakeTypeOK
<1>2. AckCausality'
  BY PeersLemma, TailFacts DEF RecvApp, Take, HandshakeTypeOK, AckCausality
<1>3. AckUnderway'
  <2> SUFFICES ASSUME NEW q \in Peers, helloRecv[q], ~ackRecv[Other(q)]
               PROVE  \E i \in 1..Len(wire'[q]) : wire'[q][i] = "HELLO_ACK"
    BY DEF AckUnderway, RecvApp
  <2>1. \E i \in 1..Len(wire[q]) : wire[q][i] = "HELLO_ACK"
    BY DEF AckUnderway
  <2>2. CASE q = p
    BY <2>1, <2>2, PeersLemma DEF RecvApp, HandshakeTypeOK
  <2>3. CASE q = Other(p)
    <3>1. wire'[q] = Tail(wire[q])
      BY <2>3, PeersLemma DEF RecvApp, HandshakeTypeOK
    <3>2. \E j \in 1..(Len(wire[q]) - 1) : Tail(wire[q])[j] = "HELLO_ACK"
      BY <1>0, <2>1, <2>3, TakeFacts, AckShift, TailFacts
    <3>3. QED BY <1>0, <2>3, <3>1, <3>2, TakeFacts, TailFacts
  <2>4. QED BY <2>2, <2>3, PeersLemma
<1>4. AppBehindAck'
  <2> SUFFICES ASSUME NEW q \in Peers, NEW i \in 1..Len(wire'[q]), wire'[q][i] = "APP"
               PROVE  /\ isReady[q]
                      /\ \/ ackRecv[Other(q)]
                         \/ \E j \in 1..(i-1) : wire'[q][j] = "HELLO_ACK"
    BY DEF AppBehindAck, RecvApp
  <2>1. CASE q = p
    BY <2>1, PeersLemma DEF AppBehindAck, RecvApp, HandshakeTypeOK
  <2>2. CASE q = Other(p)
    <3>1. wire'[q] = Tail(wire[q])
      BY <2>2, PeersLemma DEF RecvApp, HandshakeTypeOK
    <3>2. i \in 1..(Len(wire[q]) - 1) /\ i + 1 \in 1..Len(wire[q]) /\ wire[q][i + 1] = "APP"
      BY <1>0, <2>2, <3>1, TakeFacts, TailFacts
    <3>3. /\ isReady[q]
          /\ \/ ackRecv[Other(q)]
             \/ \E j \in 1..i : wire[q][j] = "HELLO_ACK"
      BY <3>2 DEF AppBehindAck
    <3>4. i \in Nat /\ i <= Len(wire[q])
      BY <3>2, <1>0, <2>2, TakeFacts, TailFacts
    <3>5. QED BY <1>0, <2>2, <3>1, <3>3, <3>4, TakeFacts, AckShift
  <2>3. QED BY <2>1, <2>2, PeersLemma
<1>5. ReadyFlags'
  BY DEF RecvApp, ReadyFlags
<1>6. NoEarlyFrame'
  \* The frame at the head has no acknowledgement in front of it, so the
  \* acknowledgement has arrived, and p is ready.
  <2>1. ackRecv[p] /\ isReady[Other(p)]
    <3>1. /\ isReady[Other(p)]
          /\ \/ ackRecv[Other(Other(p))]
             \/ \E j \in 1..(1-1) : wire[Other(p)][j] = "HELLO_ACK"
      BY <1>0, TakeFacts, PeersLemma DEF AppBehindAck
    <3>2. QED BY <3>1, PeersLemma
  <2>2. helloRecv[p]
    BY <2>1, PeersLemma DEF ReadyFlags, AckCausality
  <2>3. isReady[p]
    BY <1>0, <2>1, <2>2 DEF ReadyFlags, Take
  <2>4. QED BY <2>3 DEF RecvApp, NoEarlyFrame, HandshakeTypeOK
<1>7. QED BY <1>1, <1>2, <1>3, <1>4, <1>5, <1>6

\* Reading a frame other than HELLO_ACK keeps every ordinary frame of that
\* direction behind an acknowledgement.
LEMMA TakeKeepsOrder ==
    ASSUME IInv, NEW p \in Peers, NEW k \in Kinds \ {"HELLO_ACK"}, Take(p, k),
           wire'[Other(p)] = Tail(wire[Other(p)])
    PROVE  /\ ~ackRecv[p] /\ helloRecv[Other(p)] =>
                \E j \in 1..Len(wire'[Other(p)]) : wire'[Other(p)][j] = "HELLO_ACK"
           /\ \A i \in 1..Len(wire'[Other(p)]) : wire'[Other(p)][i] = "APP" =>
                /\ isReady[Other(p)]
                /\ \/ ackRecv[p]
                   \/ \E j \in 1..(i-1) : wire'[Other(p)][j] = "HELLO_ACK"
           /\ \A i \in 1..Len(wire'[Other(p)]) : wire'[Other(p)][i] = "HELLO_ACK"
                => helloRecv[Other(p)]
<1> DEFINE q == Other(p)
<1>1. /\ q \in Peers /\ Other(q) = p /\ wire[q] \in Seq(Kinds) /\ wire[q] # <<>>
      /\ Head(wire[q]) # "HELLO_ACK" /\ wire'[q] = Tail(wire[q])
  BY PeersLemma, TakeFacts
<1> HIDE DEF q
<1>2. /\ Len(wire[q]) \in Nat \ {0}
      /\ Len(wire'[q]) = Len(wire[q]) - 1
      /\ \A i \in 1..Len(wire'[q]) :
            i + 1 \in 1..Len(wire[q]) /\ wire'[q][i] = wire[q][i + 1]
  BY <1>1, TailFacts
<1>3. ASSUME ~ackRecv[p], helloRecv[q]
      PROVE  \E j \in 1..Len(wire'[q]) : wire'[q][j] = "HELLO_ACK"
  <2>1. \E j \in 1..Len(wire[q]) : wire[q][j] = "HELLO_ACK"
    BY <1>1, <1>3 DEF AckUnderway
  <2>2. \E j \in 1..(Len(wire[q]) - 1) : Tail(wire[q])[j] = "HELLO_ACK"
    BY <1>1, <1>2, <2>1, AckShift
  <2>3. QED BY <1>1, <1>2, <2>2
<1>4. ASSUME NEW i \in 1..Len(wire'[q]), wire'[q][i] = "APP"
      PROVE  /\ isReady[q]
             /\ \/ ackRecv[p]
                \/ \E j \in 1..(i-1) : wire'[q][j] = "HELLO_ACK"
  <2>1. /\ isReady[q]
        /\ \/ ackRecv[p]
           \/ \E j \in 1..((i+1)-1) : wire[q][j] = "HELLO_ACK"
    BY <1>1, <1>2, <1>4 DEF AppBehindAck
  <2>2. i \in Nat /\ i <= Len(wire[q]) /\ (i + 1) - 1 = i
    BY <1>2
  <2>3. ASSUME \E j \in 1..i : wire[q][j] = "HELLO_ACK"
        PROVE  \E j \in 1..(i-1) : wire'[q][j] = "HELLO_ACK"
    BY <1>1, <2>2, <2>3, AckShift
  <2>4. QED BY <2>1, <2>2, <2>3
<1>5. \A i \in 1..Len(wire'[q]) : wire'[q][i] = "HELLO_ACK" => helloRecv[q]
  BY <1>1, <1>2 DEF AckCausality
<1>6. QED BY <1>3, <1>4, <1>5 DEF q

LEMMA RecvHelloIInv == ASSUME IInv, NEW p \in Peers, RecvHello(p) PROVE IInv'
<1> DEFINE q == Other(p)
<1>0. /\ Take(p, "HELLO")
      /\ q \in Peers /\ q # p /\ Other(q) = p
      /\ wire[p] \in Seq(Kinds) /\ wire[q] \in Seq(Kinds) /\ wire[q] # <<>>
      /\ wire' = [wire EXCEPT ![q] = Tail(@), ![p] = Append(@, "HELLO_ACK")]
  BY PeersLemma, TakeFacts DEF RecvHello, HandshakeTypeOK
<1>1. /\ wire'[q] = Tail(wire[q]) /\ wire'[p] = Append(wire[p], "HELLO_ACK")
      /\ wire' \in [Peers -> Seq(Kinds)]
  BY <1>0, AppendFacts, TailFacts DEF HandshakeTypeOK
<1>2. /\ Len(wire[p]) \in Nat
      /\ Len(wire'[p]) = Len(wire[p]) + 1
      /\ \A i \in 1..Len(wire[p]) : wire'[p][i] = wire[p][i]
      /\ wire'[p][Len(wire[p]) + 1] = "HELLO_ACK"
  BY <1>0, <1>1, AppendFacts
<1>3. /\ helloRecv' = [helloRecv EXCEPT ![p] = TRUE]
      /\ acking' = [acking EXCEPT ![p] = TRUE]
      /\ UNCHANGED <<hellos, apps, ackRecv, isReady, failed>>
  BY DEF RecvHello
<1>4. HandshakeTypeOK'
  BY <1>1, <1>3 DEF HandshakeTypeOK
<1>5. \A r \in Peers : r = p \/ r = q
  BY PeersLemma
<1> HIDE DEF q
<1>6. /\ ~ackRecv[p] /\ helloRecv[q] =>
           \E j \in 1..Len(wire'[q]) : wire'[q][j] = "HELLO_ACK"
      /\ \A i \in 1..Len(wire'[q]) : wire'[q][i] = "APP" =>
           /\ isReady[q]
           /\ \/ ackRecv[p]
              \/ \E j \in 1..(i-1) : wire'[q][j] = "HELLO_ACK"
      /\ \A i \in 1..Len(wire'[q]) : wire'[q][i] = "HELLO_ACK" => helloRecv[q]
  BY <1>0, <1>1, TakeKeepsOrder DEF q
<1>7. AckCausality'
  <2>1. ackRecv[p] => helloRecv[q]
    BY <1>0 DEF AckCausality, q
  <2>2. helloRecv'[p] /\ (helloRecv[q] => helloRecv'[q]) /\ ackRecv' = ackRecv
    BY <1>0, <1>3 DEF HandshakeTypeOK
  <2>3. QED BY <1>0, <1>5, <1>6, <2>1, <2>2 DEF AckCausality, q
<1>8. AckUnderway'
  <2>1. \E i \in 1..Len(wire'[p]) : wire'[p][i] = "HELLO_ACK"
    BY <1>2
  <2>2. helloRecv'[q] = helloRecv[q] /\ ackRecv' = ackRecv
    BY <1>0, <1>3 DEF HandshakeTypeOK
  <2>3. QED BY <1>0, <1>5, <1>6, <2>1, <2>2 DEF AckUnderway, q
<1>9. AppBehindAck'
  <2>1. \A i \in 1..Len(wire'[p]) : wire'[p][i] = "APP" =>
          /\ isReady[p]
          /\ \/ ackRecv[q]
             \/ \E j \in 1..(i-1) : wire'[p][j] = "HELLO_ACK"
    <3> SUFFICES ASSUME NEW i \in 1..Len(wire'[p]), wire'[p][i] = "APP"
                 PROVE  /\ isReady[p]
                        /\ \/ ackRecv[q]
                           \/ \E j \in 1..(i-1) : wire'[p][j] = "HELLO_ACK"
      OBVIOUS
    <3>1. i \in 1..Len(wire[p]) /\ wire[p][i] = "APP"
      BY <1>2
    <3>2. /\ isReady[p]
          /\ \/ ackRecv[q]
             \/ \E j \in 1..(i-1) : wire[p][j] = "HELLO_ACK"
      BY <3>1 DEF AppBehindAck, q
    <3>3. \A j \in 1..(i-1) : wire'[p][j] = wire[p][j]
      BY <1>2, <3>1
    <3>4. QED BY <3>2, <3>3
  <2>2. isReady' = isReady /\ ackRecv' = ackRecv /\ Other(p) = q /\ Other(q) = p
    BY <1>0, <1>3 DEF q
  <2>3. QED BY <1>5, <1>6, <2>1, <2>2 DEF AppBehindAck
<1>10. ReadyFlags' /\ NoEarlyFrame'
  BY <1>3 DEF ReadyFlags, NoEarlyFrame, HandshakeTypeOK
<1>11. QED BY <1>4, <1>7, <1>8, <1>9, <1>10

LEMMA RecvAckIInv == ASSUME IInv, NEW p \in Peers, RecvAck(p) PROVE IInv'
<1> DEFINE q == Other(p)
<1>0. /\ Take(p, "HELLO_ACK")
      /\ q \in Peers /\ q # p /\ Other(q) = p
      /\ wire[q] \in Seq(Kinds) /\ wire[q] # <<>> /\ wire[q][1] = "HELLO_ACK"
      /\ wire' = [wire EXCEPT ![q] = Tail(@)]
  BY PeersLemma, TakeFacts DEF RecvAck
<1>1. /\ wire'[q] = Tail(wire[q]) /\ wire'[p] = wire[p]
      /\ wire' \in [Peers -> Seq(Kinds)]
  BY <1>0, TailFacts DEF HandshakeTypeOK
<1>2. /\ Len(wire[q]) \in Nat \ {0}
      /\ Len(wire'[q]) = Len(wire[q]) - 1
      /\ \A i \in 1..Len(wire'[q]) :
            i + 1 \in 1..Len(wire[q]) /\ wire'[q][i] = wire[q][i + 1]
  BY <1>0, <1>1, TailFacts
<1>3. /\ ackRecv' = [ackRecv EXCEPT ![p] = TRUE]
      /\ isReady' = [isReady EXCEPT ![p] = isReady[p] \/ helloRecv[p]]
      /\ UNCHANGED <<hellos, apps, helloRecv, acking, failed>>
      /\ ~acking[p]
  BY <1>0 DEF RecvAck, MaybeReady, Take
<1>4. HandshakeTypeOK'
  BY <1>1, <1>3 DEF HandshakeTypeOK
<1>5. \A r \in Peers : r = p \/ r = q
  BY PeersLemma
\* The acknowledgement itself shows that q has received a HELLO.
<1>6. helloRecv[q]
  BY <1>0, <1>2 DEF AckCausality
<1> HIDE DEF q
<1>7. AckCausality'
  BY <1>0, <1>1, <1>2, <1>3, <1>5, <1>6 DEF AckCausality, HandshakeTypeOK, q
<1>8. AckUnderway'
  BY <1>0, <1>1, <1>3, <1>5 DEF AckUnderway, HandshakeTypeOK, q
<1>9. AppBehindAck'
  <2>1. \A i \in 1..Len(wire'[q]) : wire'[q][i] = "APP" => isReady[q]
    BY <1>0, <1>2 DEF AppBehindAck
  <2>2. QED BY <1>0, <1>1, <1>3, <1>5, <2>1 DEF AppBehindAck, HandshakeTypeOK, q
<1>10. ReadyFlags' /\ NoEarlyFrame'
  BY <1>3 DEF ReadyFlags, NoEarlyFrame, HandshakeTypeOK
<1>11. QED BY <1>4, <1>7, <1>8, <1>9, <1>10

-----------------------------------------------------------------------------

LEMMA NextIInv == IInv /\ [HandshakeNext]_handshakeVars => IInv'
<1> SUFFICES ASSUME IInv, [HandshakeNext]_handshakeVars PROVE IInv'
  OBVIOUS
<1>1. CASE HandshakeNext
  <2>1. PICK p \in Peers : Start(p) \/ Retransmit(p) \/ Dispatch(p) \/ SendApp(p)
    BY <1>1 DEF HandshakeNext
  <2>2. QED BY <2>1, StartIInv, RetransmitIInv, SendAppIInv, RecvHelloIInv, SendAckDoneIInv,
              RecvAckIInv, RecvAppIInv DEF Dispatch
<1>2. CASE UNCHANGED handshakeVars
  BY <1>2 DEF handshakeVars, HandshakeTypeOK, AckCausality, AckUnderway, AppBehindAck,
      ReadyFlags, NoEarlyFrame
<1>3. QED BY <1>1, <1>2

\* The invariant is inductive, so it holds in every state the two peers reach.
THEOREM HandshakeInvariant == HandshakeSpec => []IInv
<1>1. QED BY InitIInv, NextIInv, PTL DEF HandshakeSpec

\* The variables of the handshake keep their types.
THEOREM HandshakeTypes == HandshakeSpec => []HandshakeTypeOK
<1>1. IInv => HandshakeTypeOK
  OBVIOUS
<1>2. QED BY <1>1, HandshakeInvariant, PTL

\* Whatever first writes the channel loses and however often HELLO is repeated,
\* _dispatch never raises "message received before handshake" between two
\* honest peers.
THEOREM HandshakeSafety == HandshakeSpec => []NoEarlyFrame
<1>1. IInv => NoEarlyFrame
  OBVIOUS
<1>2. QED BY <1>1, HandshakeInvariant, PTL

\* A ready peer knows that the other has its HELLO and will get its
\* acknowledgement.
THEOREM HandshakeMutual == HandshakeSpec => []ReadyIsMutual
<1>1. IInv => ReadyIsMutual
  BY PeersLemma DEF AckCausality, AckUnderway, ReadyFlags, ReadyIsMutual
<1>2. QED BY <1>1, HandshakeInvariant, PTL

===============================================================================
