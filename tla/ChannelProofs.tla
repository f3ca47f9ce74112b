---------------------------- MODULE ChannelProofs ----------------------------
(***************************************************************************)
(* The plugin's runtimes, for any number of channels and messages: a       *)
(* channel is not released under its runtime, and the queue between the    *)
(* callbacks and the thread loses nothing and counts what it holds.  And   *)
(* the WTS transport, for any messages and any loss of chunks: what it     *)
(* returns is whole, as far as lengths can tell, and its handle is used by *)
(* one thread at a time.                                                   *)
(*                                                                         *)
(* What the thread of a runtime reads goes on where it stopped, up to the  *)
(* last message the stack has delivered, until the channel is torn down:   *)
(* a message that is not queued sends its callback into _close_channel,    *)
(* which closes the queue before the next callback.                        *)
(*                                                                         *)
(* What the reassembler has gathered, and what was lost, make up all that  *)
(* the stack has sent since the first chunk of the message gathered: so a  *)
(* message that ends with the chunk of another has lost its own length.    *)
(*                                                                         *)
(* And the send path, as long as no task is cancelled inside a channel     *)
(* write that takes chunks: the chunks on their way to FrameDecoder, with  *)
(* those it holds, are whole frames one after the other, but for the first *)
(* and the last and those that a failed write has cut; so what it returns  *)
(* is what was sent, until it returns the first that was cut.              *)
(***************************************************************************)
EXTENDS MCChannel, TLAPS

Stages == {"new", "booting", "running", "draining", "finishing", "deciding", "disconnecting",
           "ended"}

Typed ==
    /\ call \in {"none", "closing", "joining", "starting", "feeding"}
            \X {"none", "new", "data", "close", "terminate"}
    /\ opened \in 0..MaxChannels
    /\ call[2] = "new" => opened < MaxChannels
    /\ held = runtime /\ runtime \in 0..MaxChannels /\ runtime <= opened
    /\ thread \in [Channels -> Stages]
    /\ gaveUp \in [Channels -> BOOLEAN]

\* A thread that has not ended is that of the runtime in place, or was given up; a
\* channel that is not open has none.
ThreadsOK == \A k \in Channels :
    /\ Alive(k) /\ ~gaveUp[k] => runtime = k
    /\ k > opened => thread[k] = "new"

LEMMA RuntimeChannel ==
    ASSUME Typed, runtime # NoChannel
    PROVE  runtime \in Channels
BY RuntimeAssumption DEF Typed, NoChannel, Channels

\* One step of the thread of k.
LEMMA ThreadStep ==
    ASSUME NEW k \in Channels, Thread(k) \/ Stop(k)
    PROVE  /\ UNCHANGED <<call, opened, runtime, held, gaveUp>>
           /\ \E s \in Stages : thread' = thread \/ thread' = [thread EXCEPT ![k] = s]
           /\ thread[k] \notin {"new", "ended"}
<1>1. CASE Get(k)
  BY <1>1 DEF Get, plugin, threads, Stages
<1>2. CASE Read(k)
  BY <1>2 DEF Read, plugin, Stages
<1>3. CASE Boot(k)
  BY <1>3 DEF Boot, plugin, Stages
<1>4. CASE Stop(k) \/ CancelArrives(k)
  BY <1>4 DEF Stop, CancelArrives, plugin, Stages
<1>5. CASE Drained(k)
  BY <1>5 DEF Drained, plugin, Stages
<1>6. CASE Finish(k)
  BY <1>6 DEF Finish, plugin, Stages
<1>7. CASE Decide(k)
  <2>1. thread' = [thread EXCEPT ![k] = "ended"] \/ thread' = [thread EXCEPT ![k] = "disconnecting"]
    BY <1>7 DEF Decide
  <2>2. QED BY <1>7, <2>1 DEF Decide, plugin, Stages
<1>8. CASE Disconnect(k)
  BY <1>8 DEF Disconnect, plugin, Stages
<1>9. QED BY <1>1, <1>2, <1>3, <1>4, <1>5, <1>6, <1>7, <1>8 DEF Thread

\* A callback ends, and the runtime in place changes.
LEMMA JoinIs ==
    ASSUME Typed, Join
    PROVE  /\ call' = <<"none", "none">> /\ thread' = thread
           /\ \/ runtime = NoChannel /\ gaveUp' = gaveUp
              \/ /\ call[1] = "joining"
                 /\ gaveUp' = IF Alive(runtime) THEN Set(gaveUp, runtime) ELSE gaveUp
           /\ held' = runtime'
           /\ \/ opened' = opened + 1 /\ runtime' = opened + 1 /\ call[2] = "new"
              \/ opened' = opened /\ runtime' = NoChannel
BY DEF Join, AfterClose, Return

\* The stack delivers a message.
LEMMA DataIs ==
    ASSUME OnDataReceived
    PROVE  /\ Idle /\ held # NoChannel
           /\ offered' = [offered EXCEPT ![held] = @ + 1]
           /\ \/ Closed(runtime) /\ Begin("closing", "data")
              \/ ~Closed(runtime) /\ Begin("feeding", "data")
              \/ /\ ~Closed(runtime)
                 /\ call' = <<"starting", "data">>
                 /\ thread' = [thread EXCEPT ![runtime] = "booting"]
                 /\ UNCHANGED <<opened, runtime, held, lease, shutdown, started, stopping,
                                cancelled, gaveUp, queues, got, gone>>
BY Zenon DEF OnDataReceived

LEMMA TypedStep == Typed /\ ThreadsOK /\ [Next]_vars => Typed' /\ ThreadsOK'
<1> SUFFICES ASSUME Typed, ThreadsOK, [Next]_vars PROVE Typed' /\ ThreadsOK'
  OBVIOUS
<1>1. ASSUME NEW k \in Channels, Thread(k) \/ Stop(k) PROVE Typed' /\ ThreadsOK'
  <2>1. /\ UNCHANGED <<call, opened, runtime, held, gaveUp>>
        /\ thread[k] \notin {"new", "ended"}
    BY <1>1, ThreadStep
  <2>2. PICK s \in Stages : thread' = thread \/ thread' = [thread EXCEPT ![k] = s]
    BY <1>1, ThreadStep
  <2>3. Typed'
    BY <2>1, <2>2 DEF Typed
  <2>4. ThreadsOK'
    BY <2>1, <2>2 DEF Typed, ThreadsOK, Alive
  <2>5. QED BY <2>3, <2>4
<1>2. CASE OnNewChannelConnection \/ \E name \in {"close", "terminate"} : OnClose(name)
  <2>1. UNCHANGED <<opened, runtime, held, thread, gaveUp>>
    BY <1>2 DEF OnNewChannelConnection, OnClose, Begin, threads
  <2>2. /\ call' \in {"closing"} \X {"new", "close", "terminate"}
        /\ call'[2] = "new" => opened < MaxChannels
    BY <1>2 DEF OnNewChannelConnection, OnClose, Begin
  <2>3. QED BY <2>1, <2>2 DEF Typed, ThreadsOK, Alive
<1>3. CASE OnDataReceived
  <2>1. runtime \in Channels
    BY <1>3, DataIs, RuntimeChannel DEF Typed
  <2>2. /\ UNCHANGED <<opened, runtime, held, gaveUp>>
        /\ call' \in {"closing", "feeding", "starting"} \X {"data"}
        /\ thread' = thread \/ thread' = [thread EXCEPT ![runtime] = "booting"]
    BY <1>3, DataIs DEF Begin, threads
  <2>3. QED BY <2>1, <2>2 DEF Typed, ThreadsOK, Alive, Stages
<1>4. CASE StartReturns
  <2>1. /\ UNCHANGED <<opened, runtime, held, gaveUp, thread>>
        /\ call' \in {"closing", "feeding"} \X {"data"}
    BY <1>4 DEF StartReturns, Begin, threads
  <2>2. QED BY <2>1 DEF Typed, ThreadsOK, Alive
<1>5. CASE Feed
  <2>1. /\ UNCHANGED <<opened, runtime, held, gaveUp, thread>>
        /\ call' \in {"closing", "none"} \X {"data", "none"}
    BY <1>5 DEF Feed, Return, threads
  <2>2. QED BY <2>1 DEF Typed, ThreadsOK, Alive
<1>6. CASE CloseRuntime
  <2>1. UNCHANGED <<opened, runtime, held, gaveUp, thread>> /\ call' = <<"joining", call[2]>>
    BY <1>6 DEF CloseRuntime
  <2>2. QED BY <2>1 DEF Typed, ThreadsOK, Alive
<1>7. CASE Join
  <2>1. /\ call' = <<"none", "none">> /\ thread' = thread
        /\ \/ runtime = NoChannel /\ gaveUp' = gaveUp
           \/ /\ call[1] = "joining"
              /\ gaveUp' = IF Alive(runtime) THEN Set(gaveUp, runtime) ELSE gaveUp
        /\ held' = runtime'
        /\ \/ opened' = opened + 1 /\ runtime' = opened + 1 /\ call[2] = "new"
           \/ opened' = opened /\ runtime' = NoChannel
    BY <1>7, JoinIs
  <2>2. Typed'
    <3>1. gaveUp' \in [Channels -> BOOLEAN]
      BY <2>1 DEF Typed, Set
    <3>2. thread' \in [Channels -> Stages]
      BY <2>1 DEF Typed
    <3>3. call' \in {"none"} \X {"none"} /\ call'[2] = "none"
      BY <2>1
    <3>4. /\ opened' \in 0..MaxChannels /\ held' = runtime'
          /\ runtime' \in 0..MaxChannels /\ runtime' <= opened'
      BY <2>1, RuntimeAssumption DEF Typed, NoChannel
    <3>5. QED BY <3>1, <3>2, <3>3, <3>4 DEF Typed
  <2>3. ASSUME NEW k \in Channels, Alive(k)' PROVE gaveUp'[k]
    <3>1. Alive(k)
      BY <2>1, <2>3 DEF Alive
    <3>2. CASE gaveUp[k]
      BY <2>1, <3>2 DEF Typed, Set
    <3>3. CASE ~gaveUp[k]
      <4>1. runtime = k /\ runtime # NoChannel
        BY <3>1, <3>3, RuntimeAssumption DEF ThreadsOK, NoChannel, Channels
      <4>2. QED BY <2>1, <3>1, <4>1 DEF Typed, Set
    <3>4. QED BY <3>2, <3>3
  <2>4. ASSUME NEW k \in Channels, k > opened' PROVE thread'[k] = "new"
    <3>1. opened <= opened' /\ opened \in Nat /\ opened' \in Nat /\ k \in Nat
      BY <2>1, RuntimeAssumption DEF Typed, Channels
    <3>2. k > opened
      BY <2>4, <3>1
    <3>3. QED BY <2>1, <3>2 DEF ThreadsOK
  <2>5. QED BY <2>2, <2>3, <2>4 DEF ThreadsOK
<1>8. CASE UNCHANGED vars
  BY <1>8 DEF vars, plugin, threads, Typed, ThreadsOK, Alive
<1>9. QED BY <1>1, <1>2, <1>3, <1>4, <1>5, <1>6, <1>7, <1>8 DEF Next, Callback

\* A channel is released by the plugin only when its runtime can no longer write to
\* it or close it, for any number of channels, unless waiting for the thread was
\* given up.
THEOREM ReleaseAfterJoin == Spec => []NoUseAfterRelease
<1>1. Init => Typed /\ ThreadsOK
  <2> SUFFICES ASSUME Init PROVE Typed /\ ThreadsOK
    OBVIOUS
  <2>1. Typed
    BY RuntimeAssumption DEF Init, Typed, Stages, NoChannel, No
  <2>2. ThreadsOK
    BY DEF Init, ThreadsOK, Alive
  <2>3. QED BY <2>1, <2>2
<1>2. Typed /\ ThreadsOK => NoUseAfterRelease
  BY DEF Typed, ThreadsOK, NoUseAfterRelease, Uses, Alive
<1>3. QED BY <1>1, <1>2, TypedStep, PTL DEF Spec

-----------------------------------------------------------------------------
(* The queue *)

QueueTyped ==
    /\ offered \in [Channels -> Nat]
    /\ queue \in [Channels -> Seq(Nat)]
    /\ queued \in [Channels -> Int]
    /\ taken \in [Channels -> Nat \cup {Nothing}]
    /\ got \in [Channels -> Seq(Nat)]
    /\ eof \in [Channels -> BOOLEAN]

\* The last message the reader has got.
Position(k) == Len(got[k]) + (IF taken[k] = Nothing THEN 0 ELSE 1)

\* An open queue goes on where the reader is, a closed one holds the end marker.
OpenOK(k) == ~eof[k] =>
    /\ taken[k] = Nothing \/ taken[k] = Len(got[k]) + 1
    /\ \A i \in 1..Len(queue[k]) : queue[k][i] = Position(k) + i
ClosedOK(k) == eof[k] => queue[k] \in {<<0>>, <<>>}

CountOK(k) ==
    /\ eof[k] /\ taken[k] > 0 => queued[k] = 1
    /\ eof[k] /\ ~(taken[k] > 0) => queued[k] = 0
    /\ ~eof[k] /\ taken[k] > 0 => queued[k] = Len(queue[k]) + 1
    /\ ~eof[k] /\ ~(taken[k] > 0) => queued[k] = Len(queue[k])
    /\ Len(queue[k]) <= MaxQueue

GotOK(k) == \A i \in 1..Len(got[k]) : got[k][i] = i

\* The queue of the runtime in place ends with the last message delivered, or with
\* the one before while the callback is under way.
UpToDate(k) == runtime = k /\ ~eof[k] /\ ~Closed(k) =>
    Position(k) + Len(queue[k]) = offered[k] - (IF call[2] = "data" THEN 1 ELSE 0)

Pristine(k) == k > opened =>
    offered[k] = 0 /\ queue[k] = <<>> /\ got[k] = <<>> /\ taken[k] = Nothing

ChannelOK(k) ==
    OpenOK(k) /\ ClosedOK(k) /\ CountOK(k) /\ GotOK(k) /\ UpToDate(k) /\ Pristine(k)

\* Where a callback stands says which one it is.
CallOK ==
    /\ call[1] = "none" => call[2] = "none"
    /\ call[1] = "joining" => runtime # NoChannel /\ eof[runtime]
    /\ call[1] \in {"starting", "feeding"} => call[2] = "data" /\ runtime # NoChannel

Inv == Typed /\ ThreadsOK /\ QueueTyped /\ CallOK /\ \A k \in Channels : ChannelOK(k)

\* A closed queue is a queue.
LEMMA CloseQueueOK ==
    ASSUME Inv, NEW k \in Channels, CloseQueue(k), UNCHANGED <<offered, got, taken>>
    PROVE  /\ QueueTyped'
           /\ \A j \in Channels : OpenOK(j)' /\ ClosedOK(j)' /\ CountOK(j)' /\ GotOK(j)'
           /\ eof' = Set(eof, k)
           /\ \A j \in Channels : j # k => queue'[j] = queue[j]
<1>1. QueueTyped /\ \A j \in Channels : ChannelOK(j)
  BY DEF Inv
<1>2. CASE eof[k]
  <2>1. UNCHANGED <<queue, queued, taken, eof>>
    BY <1>2 DEF CloseQueue, queues
  <2>2. eof' = Set(eof, k)
    BY <1>1, <1>2, <2>1 DEF Set, QueueTyped
  <2>3. QED
    BY <1>1, <2>1, <2>2 DEF QueueTyped, ChannelOK, OpenOK, ClosedOK, CountOK, GotOK, Position
<1>3. CASE ~eof[k]
  <2>1. /\ eof' = Set(eof, k)
        /\ queue' = [queue EXCEPT ![k] = <<0>>]
        /\ queued' = [queued EXCEPT ![k] = @ - Len(queue[k])]
    BY <1>3 DEF CloseQueue
  <2>2. <<0>> \in Seq(Nat) /\ Len(<<0>>) = 1
    OBVIOUS
  <2>3. Len(queue[k]) \in Nat /\ queued[k] \in Int
    BY <1>1 DEF QueueTyped
  <2>4. QueueTyped'
    <3>1. queue' \in [Channels -> Seq(Nat)]
      BY <1>1, <2>1, <2>2 DEF QueueTyped
    <3>2. queued' \in [Channels -> Int]
      BY <1>1, <2>1, <2>3 DEF QueueTyped
    <3>3. eof' \in [Channels -> BOOLEAN]
      BY <1>1, <2>1 DEF QueueTyped, Set
    <3>4. QED BY <1>1, <3>1, <3>2, <3>3 DEF QueueTyped
  <2>5. ASSUME NEW j \in Channels PROVE OpenOK(j)' /\ ClosedOK(j)' /\ CountOK(j)' /\ GotOK(j)'
    <3>1. ChannelOK(j)
      BY <1>1
    <3>2. CASE j = k
      <4>1. eof'[j] /\ queue'[j] = <<0>> /\ queued'[j] = queued[j] - Len(queue[j])
        BY <1>1, <2>1, <3>2 DEF QueueTyped, Set
      <4>2. OpenOK(j)' /\ ClosedOK(j)' /\ GotOK(j)'
        BY <3>1, <4>1 DEF ChannelOK, OpenOK, ClosedOK, GotOK
      <4>3. CountOK(j)'
        <5>1. /\ taken[j] > 0 => queued[j] = Len(queue[j]) + 1
              /\ ~(taken[j] > 0) => queued[j] = Len(queue[j])
          BY <1>3, <3>1, <3>2 DEF ChannelOK, CountOK
        <5>2. /\ taken'[j] > 0 => queued'[j] = 1
              /\ ~(taken'[j] > 0) => queued'[j] = 0
          BY <2>3, <3>2, <4>1, <5>1
        <5>3. Len(queue'[j]) = 1
          BY <2>2, <4>1
        <5>4. QED BY <4>1, <5>2, <5>3, RuntimeAssumption DEF CountOK
      <4>4. QED BY <4>2, <4>3
    <3>3. CASE j # k
      <4>1. eof'[j] = eof[j] /\ queue'[j] = queue[j] /\ queued'[j] = queued[j]
        BY <1>1, <2>1, <3>3 DEF QueueTyped, Set
      <4>2. QED
        BY <3>1, <4>1 DEF ChannelOK, OpenOK, ClosedOK, CountOK, GotOK, Position
    <3>4. QED BY <3>2, <3>3
  <2>6. QED BY <1>1, <2>1, <2>4, <2>5 DEF QueueTyped
<1>4. QED BY <1>2, <1>3

\* A step that leaves the queues as they are.
LEMMA QueueSame ==
    ASSUME Inv, UNCHANGED <<queue, queued, taken, eof, offered, got>>,
           opened' \in Nat, opened <= opened',
           \A j \in Channels : UpToDate(j)'
    PROVE  QueueTyped' /\ \A j \in Channels : ChannelOK(j)'
<1>1. QueueTyped'
  BY DEF Inv, QueueTyped
<1>2. ASSUME NEW j \in Channels PROVE Pristine(j)'
  BY RuntimeAssumption DEF Inv, Typed, ChannelOK, Pristine, Channels
<1>3. \A j \in Channels : OpenOK(j)' /\ ClosedOK(j)' /\ CountOK(j)' /\ GotOK(j)'
  BY DEF Inv, ChannelOK, OpenOK, ClosedOK, CountOK, GotOK, Position
<1>4. QED BY <1>1, <1>2, <1>3 DEF ChannelOK

\* A thread that is over stays over.
LEMMA StaysClosed ==
    ASSUME Inv, NEW k \in Channels, Thread(k) \/ Stop(k), NEW j \in Channels, Closed(j)
    PROVE  Closed(j)'
<1>1. thread \in [Channels -> Stages] /\ thread[j] \in {"deciding", "disconnecting", "ended"}
  BY DEF Inv, Typed, Closed
<1>2. CASE Decide(k) \/ Disconnect(k)
  BY <1>1, <1>2 DEF Decide, Disconnect, Closed
<1>3. CASE Get(k)
  BY <1>1, <1>3 DEF Get, threads, Closed
<1>4. CASE Read(k) \/ Boot(k) \/ Stop(k) \/ CancelArrives(k) \/ Drained(k) \/ Finish(k)
  <2>1. thread[k] \in {"running", "booting", "draining", "finishing"}
    BY <1>4 DEF Read, Boot, Stop, CancelArrives, Drained, Finish
  <2>2. \E s \in Stages : thread' = thread \/ thread' = [thread EXCEPT ![k] = s]
    BY <1>4, ThreadStep DEF Thread
  <2>3. QED BY <1>1, <2>1, <2>2 DEF Closed
<1>5. QED BY <1>2, <1>3, <1>4 DEF Thread

\* The steps of a thread that are none of its queue's.
LEMMA ThreadQuiet ==
    ASSUME Inv, NEW k \in Channels,
           Boot(k) \/ Stop(k) \/ CancelArrives(k) \/ Finish(k) \/ Decide(k) \/ Disconnect(k)
    PROVE  QueueTyped' /\ CallOK' /\ \A j \in Channels : ChannelOK(j)'
<1>1. UNCHANGED <<call, opened, runtime, queue, queued, taken, eof, offered, got>>
  BY DEF Boot, Stop, CancelArrives, Finish, Decide, Disconnect, plugin, queues
<1>2. CallOK'
  BY <1>1 DEF Inv, CallOK
<1>3. ASSUME NEW j \in Channels PROVE UpToDate(j)'
  <2>1. Closed(j) => Closed(j)'
    BY StaysClosed DEF Thread
  <2>2. UpToDate(j)
    BY DEF Inv, ChannelOK
  <2>3. QED BY <1>1, <2>1, <2>2 DEF UpToDate, Position
<1>4. opened' \in Nat /\ opened <= opened'
  BY <1>1, RuntimeAssumption DEF Inv, Typed
<1>5. QED BY <1>1, <1>2, <1>3, <1>4, QueueSame

\* The queue is closed by its thread.
LEMMA DrainedOK ==
    ASSUME Inv, NEW k \in Channels, Drained(k)
    PROVE  QueueTyped' /\ CallOK' /\ \A j \in Channels : ChannelOK(j)'
<1>1. CloseQueue(k) /\ UNCHANGED <<call, opened, runtime, offered, got>>
  BY DEF Drained, plugin
<1>2. taken' = taken
  BY <1>1 DEF CloseQueue, queues
<1>3. /\ QueueTyped'
      /\ \A j \in Channels : OpenOK(j)' /\ ClosedOK(j)' /\ CountOK(j)' /\ GotOK(j)'
      /\ eof' = Set(eof, k)
      /\ \A j \in Channels : j # k => queue'[j] = queue[j]
  BY <1>1, <1>2, CloseQueueOK
<1>4. CallOK'
  <2>1. runtime # NoChannel => runtime \in Channels
    BY RuntimeChannel DEF Inv
  <2>2. QED BY <1>1, <1>3, <2>1 DEF Inv, CallOK, QueueTyped, Set
<1>5. ASSUME NEW j \in Channels PROVE UpToDate(j)' /\ Pristine(j)'
  <2>1. UpToDate(j) /\ Pristine(j) /\ eof \in [Channels -> BOOLEAN]
    BY DEF Inv, ChannelOK, QueueTyped
  <2>2. Closed(j) => Closed(j)'
    BY StaysClosed DEF Thread
  <2>3. CASE j = k
    <3>1. eof'[j]
      BY <1>3, <2>1, <2>3 DEF Set
    <3>2. ~(k > opened)
      <4>1. thread[k] # "new" /\ opened \in Nat /\ k \in Nat
        BY RuntimeAssumption DEF Drained, Inv, Typed, Channels
      <4>2. QED BY <4>1 DEF Inv, ThreadsOK
    <3>3. QED BY <1>1, <2>3, <3>1, <3>2 DEF UpToDate, Pristine
  <2>4. CASE j # k
    <3>1. eof'[j] = eof[j] /\ queue'[j] = queue[j]
      BY <1>3, <2>1, <2>4 DEF Set
    <3>2. QED BY <1>1, <1>2, <2>1, <2>2, <3>1 DEF UpToDate, Pristine, Position
  <2>5. QED BY <2>3, <2>4
<1>6. QED BY <1>3, <1>4, <1>5 DEF ChannelOK

\* Where a message stands does not depend on how it is counted.
LEMMA AddOne == \A n, i \in Nat : n + (i + 1) = (n + 1) + i
  OBVIOUS

\* The reader takes the first message.
LEMMA GetOK ==
    ASSUME Inv, NEW k \in Channels, Get(k)
    PROVE  QueueTyped' /\ CallOK' /\ \A j \in Channels : ChannelOK(j)'
<1>1. /\ taken[k] = Nothing /\ queue[k] # <<>>
      /\ taken' = [taken EXCEPT ![k] = Head(queue[k])]
      /\ queue' = [queue EXCEPT ![k] = Tail(@)]
      /\ UNCHANGED <<call, opened, runtime, thread, queued, eof, offered, got>>
  BY DEF Get, plugin, threads
<1>2. QueueTyped /\ \A j \in Channels : ChannelOK(j)
  BY DEF Inv
<1>3. CallOK'
  BY <1>1 DEF Inv, CallOK
<1>4. /\ queue[k] \in Seq(Nat) /\ Len(queue[k]) \in Nat \ {0}
      /\ Tail(queue[k]) \in Seq(Nat) /\ Len(Tail(queue[k])) = Len(queue[k]) - 1
      /\ Head(queue[k]) = queue[k][1] /\ Head(queue[k]) \in Nat
      /\ \A i \in 1..Len(Tail(queue[k])) : Tail(queue[k])[i] = queue[k][i + 1]
  BY <1>1, <1>2 DEF QueueTyped
<1>5. QueueTyped'
  BY <1>1, <1>2, <1>4 DEF QueueTyped
<1>6. ASSUME NEW j \in Channels PROVE ChannelOK(j)'
  <2>1. ChannelOK(j) /\ Len(got[j]) \in Nat
    BY <1>2 DEF QueueTyped
  <2>2. CASE j # k
    <3>1. taken'[j] = taken[j] /\ queue'[j] = queue[j]
      BY <1>1, <1>2, <2>2 DEF QueueTyped
    <3>2. OpenOK(j)' /\ ClosedOK(j)' /\ CountOK(j)' /\ GotOK(j)'
      BY <1>1, <2>1, <3>1 DEF ChannelOK, OpenOK, ClosedOK, CountOK, GotOK, Position
    <3>3. UpToDate(j)' /\ Pristine(j)'
      BY <1>1, <2>1, <3>1 DEF ChannelOK, UpToDate, Pristine, Position, Closed
    <3>4. QED
      BY <3>2, <3>3 DEF ChannelOK
  <2>3. CASE j = k
    <3>1. taken'[j] = queue[j][1] /\ queue'[j] = Tail(queue[j])
      BY <1>1, <1>2, <1>4, <2>3 DEF QueueTyped
    <3>2. taken'[j] \in Nat /\ taken'[j] # Nothing
      BY <1>4, <2>3, <3>1 DEF Nothing
    <3>3. Position(j) = Len(got[j]) /\ Position(j)' = Len(got[j]) + 1
      BY <1>1, <2>1, <2>3, <3>2 DEF Position
    <3>4. OpenOK(j)'
      <4>1. CASE ~eof[j]
        <5>1. \A i \in 1..Len(queue[j]) : queue[j][i] = Len(got[j]) + i
          BY <2>1, <3>3, <4>1 DEF ChannelOK, OpenOK
        <5>2. taken'[j] = Len(got[j]) + 1
          BY <1>4, <2>3, <3>1, <5>1
        <5>3. ASSUME NEW i \in 1..Len(queue'[j]) PROVE queue'[j][i] = Position(j)' + i
          <6>1. i \in Nat /\ i + 1 \in 1..Len(queue[j]) /\ queue'[j][i] = queue[j][i + 1]
            BY <1>4, <2>3, <3>1
          <6>2. queue[j][i + 1] = Len(got[j]) + (i + 1)
            BY <5>1, <6>1
          <6>3. Len(got[j]) + (i + 1) = (Len(got[j]) + 1) + i
            BY Zenon, <2>1, <6>1, AddOne
          <6>4. (Len(got[j]) + 1) + i = Position(j)' + i
            BY Zenon, <3>3
          <6>5. QED BY Zenon, <6>1, <6>2, <6>3, <6>4
        <5>4. QED BY <1>1, <5>2, <5>3 DEF OpenOK
      <4>2. CASE eof[j]
        BY <1>1, <4>2 DEF OpenOK
      <4>3. QED BY <4>1, <4>2
    <3>5. eof[j] => queue[j] = <<0>>
      BY <1>1, <2>1, <2>3 DEF ChannelOK, ClosedOK
    <3>6. ClosedOK(j)'
      <4>1. Tail(<<0>>) = <<>>
        OBVIOUS
      <4>2. QED BY <1>1, <3>1, <3>5, <4>1 DEF ClosedOK
    <3>7. CountOK(j)'
      <4>1. Len(queue[j]) \in Nat \ {0} /\ Len(queue'[j]) = Len(queue[j]) - 1
        BY <1>4, <2>3, <3>1
      <4>2. /\ eof[j] => queued'[j] = 0
            /\ ~eof[j] => queued'[j] = Len(queue[j])
        <5>1. ~(taken[j] > 0) /\ queued' = queued
          BY <1>1, <2>3 DEF Nothing
        <5>2. QED BY <2>1, <5>1 DEF ChannelOK, CountOK
      <4>3. CASE eof[j]
        <5>1. taken'[j] = 0
          BY <3>1, <3>5, <4>3
        <5>2. QED
          BY <1>1, <2>1, <4>1, <4>2, <4>3, <5>1, RuntimeAssumption DEF ChannelOK, CountOK
      <4>4. CASE ~eof[j]
        <5>1. taken'[j] > 0
          BY <1>4, <2>1, <2>3, <3>1, <3>3, <4>4 DEF ChannelOK, OpenOK
        <5>2. queued'[j] = Len(queue'[j]) + 1 /\ Len(queue'[j]) <= MaxQueue
          BY <2>1, <4>1, <4>2, <4>4, RuntimeAssumption DEF ChannelOK, CountOK
        <5>3. QED BY <1>1, <4>4, <5>1, <5>2 DEF CountOK
      <4>5. QED BY <4>3, <4>4
    <3>8. GotOK(j)'
      BY <1>1, <2>1 DEF ChannelOK, GotOK
    <3>9. UpToDate(j)'
      <4>1. Position(j)' + Len(queue'[j]) = Position(j) + Len(queue[j])
        <5>1. Len(queue'[j]) = Len(queue[j]) - 1 /\ Len(queue[j]) \in Nat
          BY <1>4, <2>3, <3>1
        <5> DEFINE n == Len(got[j])  l == Len(queue[j])  m == Len(queue'[j])
        <5>2. n \in Nat /\ l \in Nat /\ m = l - 1
          BY <2>1, <5>1
        <5> HIDE DEF n, l, m
        <5>4. (n + 1) + m = n + l
          BY <5>2
        <5> USE DEF n, l, m
        <5>3. QED BY <3>3, <5>4
      <4>2. QED BY <1>1, <2>1, <4>1 DEF ChannelOK, UpToDate, Closed
    <3>10. Pristine(j)'
      BY <1>1, <2>1, <2>3 DEF ChannelOK, Pristine
    <3>11. QED BY <3>4, <3>6, <3>7, <3>8, <3>9, <3>10 DEF ChannelOK
  <2>4. QED BY <2>2, <2>3
<1>7. QED BY <1>3, <1>5, <1>6

\* It accounts for it, and hands it to the mux unless the queue has been closed.
LEMMA ReadOK ==
    ASSUME Inv, NEW k \in Channels, Read(k)
    PROVE  QueueTyped' /\ CallOK' /\ \A j \in Channels : ChannelOK(j)'
<1>1. /\ taken[k] # Nothing
      /\ taken' = [taken EXCEPT ![k] = Nothing]
      /\ queued' = [queued EXCEPT ![k] = IF taken[k] > 0 /\ @ > 0 THEN @ - 1 ELSE @]
      /\ UNCHANGED <<call, opened, runtime, queue, eof, offered>>
  BY DEF Read, plugin
<1>2. QueueTyped /\ \A j \in Channels : ChannelOK(j)
  BY DEF Inv
<1>3. CallOK'
  BY <1>1 DEF Inv, CallOK
<1>4. /\ eof[k] \/ taken[k] = 0 => got' = got
      /\ ~(eof[k] \/ taken[k] = 0) => got' = [got EXCEPT ![k] = Append(@, taken[k])]
  BY DEF Read
<1>5. got[k] \in Seq(Nat) /\ Len(got[k]) \in Nat /\ taken[k] \in Nat /\ queued[k] \in Int
  BY <1>1, <1>2 DEF QueueTyped
<1>6. /\ Append(got[k], taken[k]) \in Seq(Nat)
      /\ Len(Append(got[k], taken[k])) = Len(got[k]) + 1
      /\ \A i \in 1..Len(got[k]) : Append(got[k], taken[k])[i] = got[k][i]
      /\ Append(got[k], taken[k])[Len(got[k]) + 1] = taken[k]
  BY <1>5
<1>7. QueueTyped'
  <2>1. got' \in [Channels -> Seq(Nat)]
    BY <1>2, <1>4, <1>6 DEF QueueTyped
  <2>2. queued' \in [Channels -> Int]
    BY <1>1, <1>2, <1>5 DEF QueueTyped
  <2>3. taken' \in [Channels -> Nat \cup {Nothing}]
    BY <1>1, <1>2 DEF QueueTyped
  <2>4. QED BY <1>1, <1>2, <2>1, <2>2, <2>3 DEF QueueTyped
<1>8. ASSUME NEW j \in Channels PROVE ChannelOK(j)'
  <2>1. ChannelOK(j) /\ Len(queue[j]) \in Nat /\ queued[j] \in Int
    BY <1>2 DEF QueueTyped
  <2>2. Closed(j) => Closed(j)'
    BY StaysClosed DEF Inv, Thread
  <2>3. CASE j # k
    <3>1. taken'[j] = taken[j] /\ queued'[j] = queued[j] /\ got'[j] = got[j]
      BY <1>1, <1>2, <1>4, <2>3 DEF QueueTyped
    <3>2. QED
      BY <1>1, <2>1, <2>2, <3>1
      DEF ChannelOK, OpenOK, ClosedOK, CountOK, GotOK, UpToDate, Pristine, Position
  <2>4. CASE j = k
    <3>1. /\ taken'[j] = Nothing
          /\ queued'[j] = IF taken[j] > 0 /\ queued[j] > 0 THEN queued[j] - 1 ELSE queued[j]
      BY <1>1, <1>2, <2>4 DEF QueueTyped
    <3>2. CountOK(j)'
      <4>1. /\ eof[j] => queued'[j] = 0
            /\ ~eof[j] => queued'[j] = Len(queue[j])
        <5>1. CASE taken[j] > 0
          <6>1. queued[j] > 0
            BY <2>1, <5>1 DEF ChannelOK, CountOK
          <6>2. QED BY <2>1, <3>1, <5>1, <6>1 DEF ChannelOK, CountOK
        <5>2. CASE ~(taken[j] > 0)
          BY <2>1, <3>1, <5>2 DEF ChannelOK, CountOK
        <5>3. QED BY <5>1, <5>2
      <4>3. ~(taken'[j] > 0)
        BY <3>1 DEF Nothing
      <4>4. Len(queue[j]) <= MaxQueue
        BY <2>1 DEF ChannelOK, CountOK
      <4>5. queue'[j] = queue[j] /\ eof'[j] = eof[j]
        BY <1>1
      <4>6. QED BY <4>1, <4>3, <4>4, <4>5 DEF CountOK
    <3>3. CASE eof[j] \/ taken[j] = 0
      <4>1. got' = got /\ eof[j]
        BY <1>1, <1>4, <1>5, <2>1, <2>4, <3>3 DEF ChannelOK, OpenOK
      <4>2. QED
        BY <1>1, <2>1, <3>1, <3>2, <4>1
        DEF ChannelOK, OpenOK, ClosedOK, GotOK, UpToDate, Pristine
    <3>4. CASE ~(eof[j] \/ taken[j] = 0)
      <4>1. taken[j] = Len(got[j]) + 1 /\ ~eof[j]
        BY <1>1, <2>1, <2>4, <3>4 DEF ChannelOK, OpenOK
      <4>2. got'[j] = Append(got[j], taken[j])
        BY <1>2, <1>4, <2>4, <3>4 DEF QueueTyped
      <4>3. Len(got'[j]) = Len(got[j]) + 1 /\ Len(got[j]) \in Nat
        BY <1>5, <1>6, <2>4, <4>2
      <4>4. Position(j)' = Position(j)
        BY <1>1, <2>4, <3>1, <4>3 DEF Position
      <4>5. GotOK(j)'
        BY <1>6, <2>1, <2>4, <4>1, <4>2, <4>3 DEF ChannelOK, GotOK
      <4>6. OpenOK(j)'
        BY <1>1, <2>1, <3>1, <4>4 DEF ChannelOK, OpenOK
      <4>7. UpToDate(j)'
        BY <1>1, <2>1, <2>2, <4>4 DEF ChannelOK, UpToDate
      <4>8. ClosedOK(j)' /\ Pristine(j)'
        BY <1>1, <2>1, <2>4, <4>1 DEF ChannelOK, ClosedOK, Pristine
      <4>9. QED BY <3>2, <4>5, <4>6, <4>7, <4>8 DEF ChannelOK
    <3>5. QED BY <3>3, <3>4
  <2>5. QED BY <2>3, <2>4
<1>9. QED BY <1>3, <1>7, <1>8

\* _close_channel: the queue in place is closed before the thread is waited for.
LEMMA CloseRuntimeOK ==
    ASSUME Inv, CloseRuntime
    PROVE  QueueTyped' /\ CallOK' /\ \A j \in Channels : ChannelOK(j)'
<1>1. /\ runtime # NoChannel /\ CloseQueue(runtime)
      /\ call' = <<"joining", call[2]>>
      /\ UNCHANGED <<opened, runtime, thread, offered, got>>
  BY DEF CloseRuntime
<1>2. runtime \in Channels
  BY <1>1, RuntimeChannel DEF Inv
<1>3. taken' = taken
  BY <1>1 DEF CloseQueue, queues
<1>4. /\ QueueTyped'
      /\ \A j \in Channels : OpenOK(j)' /\ ClosedOK(j)' /\ CountOK(j)' /\ GotOK(j)'
      /\ eof' = Set(eof, runtime)
      /\ \A j \in Channels : j # runtime => queue'[j] = queue[j]
  BY <1>1, <1>2, <1>3, CloseQueueOK
<1>5. eof'[runtime]
  BY <1>2, <1>4 DEF Inv, QueueTyped, Set
<1>6. CallOK'
  BY <1>1, <1>5 DEF CallOK
<1>7. ASSUME NEW j \in Channels PROVE UpToDate(j)' /\ Pristine(j)'
  <2>1. UpToDate(j)'
    BY <1>1, <1>5 DEF UpToDate
  <2>2. Pristine(j)'
    <3>1. j > opened => j # runtime
      BY RuntimeAssumption DEF Inv, Typed, Channels
    <3>2. QED BY <1>1, <1>3, <1>4, <3>1 DEF Inv, ChannelOK, Pristine
  <2>3. QED BY <2>1, <2>2
<1>8. QED BY <1>4, <1>6, <1>7 DEF ChannelOK

\* The channel is released; a new one has not been used.
LEMMA JoinOK ==
    ASSUME Inv, Join
    PROVE  QueueTyped' /\ CallOK' /\ \A j \in Channels : ChannelOK(j)'
<1>1. /\ call' = <<"none", "none">> /\ thread' = thread
      /\ UNCHANGED <<queue, queued, taken, eof, offered, got>>
      /\ \/ opened' = opened + 1 /\ runtime' = opened + 1
         \/ opened' = opened /\ runtime' = NoChannel
  <2>1. UNCHANGED <<queue, queued, taken, eof, offered, got>>
    BY DEF Join, queues
  <2>2. QED BY <2>1, JoinIs DEF Inv
<1>2. opened \in Nat /\ opened' \in Nat /\ opened <= opened'
  BY <1>1, RuntimeAssumption DEF Inv, Typed
<1>3. CallOK'
  BY <1>1 DEF CallOK
<1>4. ASSUME NEW j \in Channels PROVE UpToDate(j)'
  <2>1. SUFFICES ASSUME runtime' = j, ~eof'[j]
                 PROVE  Position(j)' + Len(queue'[j]) = offered'[j]
    <3>1. offered'[j] \in Nat
      BY <1>1 DEF Inv, QueueTyped
    <3>2. QED BY <1>1, <2>1, <3>1 DEF UpToDate
  <2>2. j > opened
    BY <1>1, <1>2, <2>1, RuntimeAssumption DEF Channels, NoChannel
  <2>3. offered[j] = 0 /\ queue[j] = <<>> /\ got[j] = <<>> /\ taken[j] = Nothing
    BY <2>2 DEF Inv, ChannelOK, Pristine
  <2>4. QED BY <1>1, <2>3 DEF Position
<1>5. QED BY <1>1, <1>2, <1>3, <1>4, QueueSame

\* A callback that stops where a message is under way, or at none.
LEMMA CallbackOK ==
    ASSUME Inv,
           OnNewChannelConnection \/ (\E name \in {"close", "terminate"} : OnClose(name))
               \/ StartReturns
    PROVE  QueueTyped' /\ CallOK' /\ \A j \in Channels : ChannelOK(j)'
<1>1. /\ UNCHANGED <<opened, runtime, thread, queue, queued, taken, eof, offered, got>>
      /\ (call[2] = "data") = (call'[2] = "data")
      /\ \/ call'[1] = "closing"
         \/ call'[1] = "feeding" /\ call'[2] = "data" /\ runtime # NoChannel
  BY DEF OnNewChannelConnection, OnClose, StartReturns, Begin, threads, queues, Idle, Inv, CallOK
<1>2. opened' \in Nat /\ opened <= opened'
  BY <1>1, RuntimeAssumption DEF Inv, Typed
<1>3. CallOK'
  BY <1>1 DEF CallOK
<1>4. ASSUME NEW j \in Channels PROVE UpToDate(j)'
  BY <1>1 DEF Inv, ChannelOK, UpToDate, Position, Closed
<1>5. QED BY <1>1, <1>2, <1>3, <1>4, QueueSame

\* A message is delivered: the queue is one behind.
LEMMA DataOK ==
    ASSUME Inv, OnDataReceived
    PROVE  QueueTyped' /\ CallOK' /\ \A j \in Channels : ChannelOK(j)'
<1>1. /\ call[1] = "none" /\ runtime # NoChannel /\ held = runtime
      /\ offered' = [offered EXCEPT ![runtime] = @ + 1]
      /\ UNCHANGED <<opened, runtime, queue, queued, taken, eof, got>>
      /\ call' \in {"closing", "feeding", "starting"} \X {"data"}
      /\ \/ thread' = thread
         \/ ~Closed(runtime) /\ thread' = [thread EXCEPT ![runtime] = "booting"]
  BY DataIs DEF Inv, Typed, Begin, threads, queues, Idle
<1>2. runtime \in Channels /\ runtime <= opened /\ opened \in Nat
  BY <1>1, RuntimeChannel, RuntimeAssumption DEF Inv, Typed
<1>3. QueueTyped /\ call[2] = "none" /\ \A j \in Channels : ChannelOK(j)
  BY <1>1 DEF Inv, CallOK
<1>4. QueueTyped'
  BY <1>1, <1>2, <1>3 DEF QueueTyped
<1>5. CallOK'
  BY <1>1 DEF CallOK
<1>6. ASSUME NEW j \in Channels PROVE ChannelOK(j)'
  <2>1. ChannelOK(j)
    BY <1>3
  <2>2. OpenOK(j)' /\ ClosedOK(j)' /\ CountOK(j)' /\ GotOK(j)'
    BY <1>1, <2>1 DEF ChannelOK, OpenOK, ClosedOK, CountOK, GotOK, Position
  <2>3. UpToDate(j)'
    <3>1. SUFFICES ASSUME runtime = j, ~eof[j], ~Closed(j)'
                   PROVE  Position(j) + Len(queue[j]) = offered'[j] - 1
      BY <1>1 DEF UpToDate, Position
    <3>2. offered'[j] = offered[j] + 1 /\ offered[j] \in Nat
      BY <1>1, <1>3, <3>1 DEF QueueTyped
    <3>3. ~Closed(j)
      BY <1>1, <3>1 DEF Closed
    <3>4. Position(j) + Len(queue[j]) = offered[j] - 0
      BY <1>3, <2>1, <3>1, <3>3 DEF ChannelOK, UpToDate
    <3>5. QED BY <3>2, <3>4
  <2>4. Pristine(j)'
    <3>1. j > opened => j # runtime
      BY <1>2, RuntimeAssumption DEF Channels
    <3>2. QED BY <1>1, <1>3, <2>1, <3>1 DEF ChannelOK, Pristine, QueueTyped
  <2>5. QED BY <2>2, <2>3, <2>4 DEF ChannelOK
<1>7. QED BY <1>4, <1>5, <1>6

\* feed: the message is queued where the queue goes on, or its callback goes on to close
\* the channel.
LEMMA FeedOK ==
    ASSUME Inv, Feed
    PROVE  QueueTyped' /\ CallOK' /\ \A j \in Channels : ChannelOK(j)'
<1>1. /\ call[2] = "data" /\ runtime # NoChannel
      /\ UNCHANGED <<opened, runtime, thread, taken, eof, offered, got>>
  BY DEF Inv, CallOK, Feed, threads
<1>2. runtime \in Channels /\ runtime <= opened /\ opened \in Nat
  BY <1>1, RuntimeChannel, RuntimeAssumption DEF Inv, Typed
<1>3. QueueTyped /\ \A j \in Channels : ChannelOK(j)
  BY DEF Inv
<1>4. CASE UNCHANGED <<queue, queued>>
  <2>1. \/ call' = <<"closing", "data">>
        \/ call' = <<"none", "none">> /\ (Closed(runtime) \/ eof[runtime])
    <3>1. CASE ~Closed(runtime) /\ ~eof[runtime] /\ ~Full(runtime)
      <4>1. queue' = [queue EXCEPT ![runtime] = Append(@, offered[runtime])]
        BY <3>1 DEF Feed
      <4>2. queue[runtime] \in Seq(Nat) /\ offered[runtime] \in Nat
        BY <1>2, <1>3 DEF QueueTyped
      <4>3. Len(queue'[runtime]) = Len(queue[runtime]) + 1 /\ Len(queue[runtime]) \in Nat
        BY <1>2, <1>3, <4>1, <4>2 DEF QueueTyped
      <4>4. QED BY <1>4, <4>3
    <3>2. CASE ~(~Closed(runtime) /\ ~eof[runtime] /\ ~Full(runtime))
      BY <3>2 DEF Feed, Return
    <3>3. QED BY <3>1, <3>2
  <2>2. CallOK'
    BY <2>1 DEF CallOK
  <2>3. ASSUME NEW j \in Channels PROVE UpToDate(j)'
    <3>1. UpToDate(j) /\ Position(j)' = Position(j)
      BY <1>1, <1>3 DEF ChannelOK, Position
    <3>2. CASE call' = <<"closing", "data">>
      BY <1>1, <1>4, <3>1, <3>2 DEF UpToDate, Closed
    <3>3. CASE Closed(runtime) \/ eof[runtime]
      BY <1>1, <3>3 DEF UpToDate, Closed
    <3>4. QED BY <2>1, <3>2, <3>3
  <2>4. QED BY <1>1, <1>2, <1>4, <2>2, <2>3, QueueSame
<1>5. CASE ~UNCHANGED <<queue, queued>>
  <2>1. /\ ~Closed(runtime) /\ ~eof[runtime] /\ ~Full(runtime)
        /\ call' = <<"none", "none">>
        /\ queue' = [queue EXCEPT ![runtime] = Append(@, offered[runtime])]
        /\ queued' = [queued EXCEPT ![runtime] = @ + 1]
    BY <1>5 DEF Feed, Return
  <2>2. queue[runtime] \in Seq(Nat) /\ offered[runtime] \in Nat /\ queued[runtime] \in Int
    BY <1>2, <1>3 DEF QueueTyped
  <2>3. /\ Append(queue[runtime], offered[runtime]) \in Seq(Nat)
        /\ Len(queue[runtime]) \in Nat
        /\ Len(Append(queue[runtime], offered[runtime])) = Len(queue[runtime]) + 1
        /\ \A i \in 1..Len(queue[runtime]) :
              Append(queue[runtime], offered[runtime])[i] = queue[runtime][i]
        /\ Append(queue[runtime], offered[runtime])[Len(queue[runtime]) + 1] = offered[runtime]
    BY <2>2
  <2>4. QueueTyped'
    <3>1. queue' \in [Channels -> Seq(Nat)]
      BY <1>3, <2>1, <2>3 DEF QueueTyped
    <3>2. queued' \in [Channels -> Int]
      <4>1. queued[runtime] + 1 \in Int
        BY <2>2
      <4>2. QED BY <1>3, <2>1, <4>1 DEF QueueTyped
    <3>3. QED BY <1>1, <1>3, <3>1, <3>2 DEF QueueTyped
  <2>5. CallOK'
    BY <2>1 DEF CallOK
  <2>6. ASSUME NEW j \in Channels PROVE ChannelOK(j)'
    <3>1. ChannelOK(j)
      BY <1>3
    <3>2. CASE j # runtime
      <4>1. queue'[j] = queue[j] /\ queued'[j] = queued[j]
        BY <1>3, <2>1, <3>2 DEF QueueTyped
      <4>2. QED
        BY <1>1, <3>1, <3>2, <4>1
        DEF ChannelOK, OpenOK, ClosedOK, CountOK, GotOK, UpToDate, Pristine, Position
    <3>3. CASE j = runtime
      <4>1. /\ queue'[j] = Append(queue[j], offered[j]) /\ queued'[j] = queued[j] + 1
            /\ Len(queue[j]) \in Nat /\ Len(queue'[j]) = Len(queue[j]) + 1
            /\ ~eof[j] /\ ~eof'[j]
        BY <1>1, <1>2, <1>3, <2>1, <2>3, <3>3 DEF QueueTyped
      <4>2. Position(j)' = Position(j) /\ Position(j) \in Nat
        BY <1>1, <1>3 DEF Position, QueueTyped
      <4>3. Position(j) + Len(queue[j]) = offered[j] - 1
        BY <1>1, <2>1, <3>1, <3>3 DEF ChannelOK, UpToDate
      <4>4. OpenOK(j)'
        <5>1. taken[j] = Nothing \/ taken[j] = Len(got[j]) + 1
          BY <3>1, <4>1 DEF ChannelOK, OpenOK
        <5>2. ASSUME NEW i \in 1..Len(queue'[j]) PROVE queue'[j][i] = Position(j)' + i
          <6>1. CASE i \in 1..Len(queue[j])
            <7>1. queue[j][i] = Position(j) + i
              BY <3>1, <4>1, <6>1 DEF ChannelOK, OpenOK
            <7>2. QED BY <2>3, <3>3, <4>1, <4>2, <6>1, <7>1
          <6>2. CASE i = Len(queue[j]) + 1
            <7>1. offered[j] \in Nat
              BY <2>2, <3>3
            <7>2. queue'[j][i] = offered[j]
              BY <2>3, <3>3, <4>1, <6>2
            <7> DEFINE n == Position(j)  l == Len(queue[j])  o == offered[j]
            <7>3. n \in Nat /\ l \in Nat /\ o \in Nat /\ n + l = o - 1
              BY <4>1, <4>2, <4>3, <7>1
            <7> HIDE DEF n, l, o
            <7>4. o = n + (l + 1)
              BY <7>3
            <7> USE DEF n, l, o
            <7>5. QED BY <4>2, <6>2, <7>2, <7>4
          <6>3. QED BY <4>1, <6>1, <6>2
        <5>3. QED BY <1>1, <5>1, <5>2 DEF OpenOK
      <4>5. CountOK(j)'
        <5>1. /\ taken[j] > 0 => queued[j] = Len(queue[j]) + 1
              /\ ~(taken[j] > 0) => queued[j] = Len(queue[j])
          BY <3>1, <4>1 DEF ChannelOK, CountOK
        <5>2. /\ taken'[j] > 0 => queued'[j] = Len(queue'[j]) + 1
              /\ ~(taken'[j] > 0) => queued'[j] = Len(queue'[j])
          BY <1>1, <4>1, <5>1
        <5>3. Len(queue'[j]) <= MaxQueue
          BY <2>1, <3>3, <4>1, RuntimeAssumption DEF Full
        <5>4. QED BY <4>1, <5>2, <5>3 DEF CountOK
      <4>6. UpToDate(j)'
        <5>1. Position(j) + Len(queue'[j]) = offered'[j] - 0 /\ call'[2] # "data"
          <6>1. ASSUME NEW n \in Nat, NEW l \in Nat, NEW o \in Nat, n + l = o - 1
                PROVE  n + (l + 1) = o - 0
            BY <6>1
          <6>2. offered'[j] = offered[j] /\ offered[j] \in Nat
            BY <1>1, <2>2, <3>3
          <6>3. Position(j) + (Len(queue[j]) + 1) = offered[j] - 0
            BY <4>1, <4>2, <4>3, <6>1, <6>2
          <6>4. QED BY <2>1, <4>1, <6>2, <6>3
        <5>2. QED BY <4>2, <5>1 DEF UpToDate
      <4>7. ClosedOK(j)' /\ GotOK(j)'
        BY <1>1, <3>1, <4>1 DEF ChannelOK, ClosedOK, GotOK
      <4>8. Pristine(j)'
        <5>1. ~(j > opened)
          BY <1>2, <3>3, RuntimeAssumption DEF Channels
        <5>2. QED BY <1>1, <5>1 DEF Pristine
      <4>9. QED BY <4>4, <4>5, <4>6, <4>7, <4>8 DEF ChannelOK
    <3>4. QED BY <3>2, <3>3
  <2>7. QED BY <2>4, <2>5, <2>6
<1>6. QED BY <1>4, <1>5

LEMMA InvStep == Inv /\ [Next]_vars => Inv'
<1> SUFFICES ASSUME Inv, [Next]_vars PROVE Inv'
  OBVIOUS
<1>1. Typed' /\ ThreadsOK'
  BY TypedStep DEF Inv
<1>2. QueueTyped' /\ CallOK' /\ \A j \in Channels : ChannelOK(j)'
  <2>1. ASSUME NEW k \in Channels, Thread(k) \/ Stop(k)
        PROVE  QueueTyped' /\ CallOK' /\ \A j \in Channels : ChannelOK(j)'
    BY <2>1, GetOK, ReadOK, DrainedOK, ThreadQuiet DEF Thread
  <2>2. CASE OnNewChannelConnection \/ (\E name \in {"close", "terminate"} : OnClose(name))
             \/ StartReturns
    BY <2>2, CallbackOK
  <2>3. CASE OnDataReceived
    BY <2>3, DataOK
  <2>4. CASE Feed
    BY <2>4, FeedOK
  <2>5. CASE CloseRuntime
    BY <2>5, CloseRuntimeOK
  <2>6. CASE Join
    BY <2>6, JoinOK
  <2>7. CASE UNCHANGED vars
    <3>1. UNCHANGED <<call, opened, runtime, thread, queue, queued, taken, eof, offered, got>>
      BY <2>7 DEF vars, plugin, threads, queues
    <3>2. CallOK'
      BY <3>1 DEF Inv, CallOK
    <3>3. ASSUME NEW j \in Channels PROVE UpToDate(j)'
      BY <3>1 DEF Inv, ChannelOK, UpToDate, Position, Closed
    <3>4. opened' \in Nat /\ opened <= opened'
      BY <3>1, RuntimeAssumption DEF Inv, Typed
    <3>5. QED BY <3>1, <3>2, <3>3, <3>4, QueueSame
  <2>8. QED BY <2>1, <2>2, <2>3, <2>4, <2>5, <2>6, <2>7 DEF Next, Callback
<1>3. QED BY <1>1, <1>2 DEF Inv

LEMMA InvInit == Init => Inv
<1> SUFFICES ASSUME Init PROVE Inv
  OBVIOUS
<1>1. Typed
  BY RuntimeAssumption DEF Init, Typed, Stages, NoChannel, No
<1>2. ThreadsOK
  BY DEF Init, ThreadsOK, Alive
<1>3. QueueTyped
  BY DEF Init, QueueTyped, Nothing, No
<1>4. CallOK
  BY DEF Init, CallOK
<1>5. ASSUME NEW j \in Channels PROVE ChannelOK(j)
  <2>1. /\ offered[j] = 0 /\ queue[j] = <<>> /\ queued[j] = 0 /\ taken[j] = -1
        /\ got[j] = <<>> /\ ~eof[j] /\ call[2] = "none" /\ Len(<<>>) = 0
    BY DEF Init, Nothing, No
  <2>2. QED
    BY <2>1, RuntimeAssumption
    DEF ChannelOK, OpenOK, ClosedOK, CountOK, GotOK, UpToDate, Pristine, Position, Nothing
<1>6. QED BY <1>1, <1>2, <1>3, <1>4, <1>5 DEF Inv

\* For any number of channels and messages and any size of the queue: what the mux
\* reads is what the stack delivered, without a gap, _queued_bytes is what the queue
\* and the reader hold, and the queue keeps to its limit.
THEOREM QueueIsKept == Spec => []QueueKept
<1>1. Inv => QueueKept
  <2> SUFFICES ASSUME Inv PROVE QueueKept
    OBVIOUS
  <2>1. NoGap
    BY DEF Inv, ChannelOK, GotOK, NoGap
  <2>2. ASSUME NEW k \in Channels
        PROVE  queued[k] = (IF eof[k] THEN 0 ELSE Len(queue[k])) + (IF taken[k] > 0 THEN 1 ELSE 0)
    <3>1. CountOK(k) /\ Len(queue[k]) \in Nat
      BY DEF Inv, ChannelOK, QueueTyped
    <3>2. CASE eof[k] /\ taken[k] > 0
      BY <3>1, <3>2 DEF CountOK
    <3>3. CASE eof[k] /\ ~(taken[k] > 0)
      BY <3>1, <3>3 DEF CountOK
    <3>4. CASE ~eof[k] /\ taken[k] > 0
      BY <3>1, <3>4 DEF CountOK
    <3>5. CASE ~eof[k] /\ ~(taken[k] > 0)
      <4>1. queued[k] = Len(queue[k])
        BY <3>1, <3>5 DEF CountOK
      <4>2. Len(queue[k]) + 0 = Len(queue[k])
        BY <3>1
      <4>3. (IF eof[k] THEN 0 ELSE Len(queue[k])) + (IF taken[k] > 0 THEN 1 ELSE 0)
            = Len(queue[k]) + 0
        BY Zenon, <3>5
      <4>4. QED BY Zenon, <4>1, <4>2, <4>3
    <3>6. QED BY <3>2, <3>3, <3>4, <3>5
  <2>3. QED BY <2>1, <2>2 DEF Inv, ChannelOK, ClosedOK, CountOK, QueueKept, CountExact
<1>2. QED BY <1>1, InvInit, InvStep, PTL DEF Spec

-----------------------------------------------------------------------------
(* The WTS transport.                                                      *)

WtsTyped ==
    /\ WtsTypeOK
    /\ coming \in (Nat \ {0}) \X (Nat \ {0})
    /\ coming[1] <= Len(Messages) + 1
    /\ coming[1] <= Len(Messages) => coming[2] <= Messages[coming[1]]
    /\ coming[1] > Len(Messages) => coming[2] = 1
    /\ gathered \in Seq(Nat \X Nat) /\ returned \in Seq(Seq(Nat \X Nat))

\* What is gathered began with the first chunk of some message a, and every chunk since
\* was gathered or lost.  In a itself it is the beginning of a if nothing of it was lost.
GatheringOf(a) ==
    LET n == Len(gathered)
    IN /\ declared = Messages[a] /\ a <= coming[1] /\ 1 <= n /\ n <= declared
       /\ a = coming[1] => /\ n <= coming[2] - 1 /\ n + lost >= coming[2] - 1
                           /\ n = coming[2] - 1 => \A k \in 1..n : gathered[k] = <<a, k>>
       /\ a < coming[1] => n + lost >= declared + coming[2] - 1

GatheredOK ==
    \/ gathered = <<>> /\ declared = 0
    \/ \E a \in 1..Len(Messages) : GatheringOf(a)

\* Without a loss the reader is in step with the stack.
InStep == lost = 0 /\ reader # "failed" =>
    /\ Len(returned) = coming[1] - 1
    /\ Len(gathered) = coming[2] - 1
    /\ coming[2] > 1 => declared = Messages[coming[1]]

HandleOK ==
    /\ reader = "calling" <=> lock = "reader"
    /\ writer = "calling" <=> lock = "writer"
    /\ lock # "closer"
    /\ handle = "closed" => closer = "done" /\ lock = "none"
    /\ closer # "idle" => closed
    /\ writer \in {"entered", "calling"} => puts < MaxWrites

WtsInv == WtsTyped /\ GatheredOK /\ InStep /\ MessagesWhole /\ HandleOK

LEMMA WtsInitInv == WtsInit => WtsInv
<1> SUFFICES ASSUME WtsInit PROVE WtsInv
  OBVIOUS
<1>1. WtsTyped
  <2>1. Len(Messages) \in Nat /\ \A i \in 1..Len(Messages) : Messages[i] \in Nat \ {0}
    BY MessagesAssumption
  <2>2. gathered \in Seq(Nat \X Nat) /\ returned \in Seq(Seq(Nat \X Nat))
    BY DEF WtsInit
  <2>3. WtsTypeOK
    <3>1. 0 \in 0..MaxLost /\ 0 \in 0..MaxWrites
      BY WtsAssumption
    <3> QED
      BY <3>1 DEF WtsInit, WtsTypeOK, Pcs
  <2>4. coming = <<1, 1>>
    BY DEF WtsInit
  <2> QED
    BY <2>1, <2>2, <2>3, <2>4 DEF WtsTyped
<1>2. GatheredOK /\ InStep /\ MessagesWhole /\ HandleOK
  BY DEF WtsInit, GatheredOK, InStep, MessagesWhole, HandleOK
<1> QED
  BY <1>1, <1>2 DEF WtsInv

\* The chunk after the next one.
LEMMA FollowingLemma ==
    ASSUME WtsTyped, More, coming' = Following
    PROVE  /\ coming[1] \in 1..Len(Messages) /\ coming[2] \in 1..Messages[coming[1]]
           /\ Messages[coming[1]] \in Nat \ {0} /\ Len(Messages) \in Nat
           /\ coming[2] < Messages[coming[1]] =>
                    coming'[1] = coming[1] /\ coming'[2] = coming[2] + 1
           /\ coming[2] = Messages[coming[1]] => coming'[1] = coming[1] + 1 /\ coming'[2] = 1
           /\ coming' \in (Nat \ {0}) \X (Nat \ {0})
           /\ coming'[1] <= Len(Messages) + 1
           /\ coming'[1] <= Len(Messages) => coming'[2] <= Messages[coming'[1]]
           /\ coming'[1] > Len(Messages) => coming'[2] = 1
<1> DEFINE i == coming[1]
           p == coming[2]
<1>1. /\ Len(Messages) \in Nat /\ \A j \in 1..Len(Messages) : Messages[j] \in Nat \ {0}
  BY MessagesAssumption
<1>2. /\ i \in 1..Len(Messages) /\ p \in 1..Messages[i] /\ i \in Nat /\ p \in Nat
  BY <1>1 DEF WtsTyped, More
<1>3. coming' = IF p < Messages[i] THEN <<i, p + 1>> ELSE <<i + 1, 1>>
  BY DEF Following
<1> HIDE DEF i, p
<1>4. CASE p < Messages[i]
  <2>1. coming' = <<i, p + 1>>
    BY <1>3, <1>4
  <2> QED
    BY <1>1, <1>2, <1>4, <2>1 DEF i, p
<1>5. CASE ~(p < Messages[i])
  <2>1. coming' = <<i + 1, 1>> /\ p = Messages[i]
    BY <1>1, <1>2, <1>3, <1>5
  <2>2. i + 1 <= Len(Messages) => 1 <= Messages[i + 1]
    BY <1>1, <1>2
  <2> QED
    BY <1>1, <1>2, <2>1, <2>2 DEF i, p
<1> QED
  BY <1>4, <1>5

\* A chunk is lost.
LEMMA LoseWts == ASSUME WtsInv, Lose PROVE WtsInv'
<1>1. /\ coming' = Following /\ More /\ lost' = lost + 1 /\ lost < MaxLost
      /\ UNCHANGED <<gathered, declared, returned, closed, handle, lock, reader, writer, closer, puts>>
      /\ WtsTyped /\ lost \in Nat
  BY WtsAssumption DEF Lose, assembly, WtsInv, WtsTyped, WtsTypeOK
<1>2. /\ coming[1] \in 1..Len(Messages) /\ coming[2] \in 1..Messages[coming[1]]
      /\ Messages[coming[1]] \in Nat \ {0} /\ Len(Messages) \in Nat
      /\ coming[2] < Messages[coming[1]] =>
               coming'[1] = coming[1] /\ coming'[2] = coming[2] + 1
      /\ coming[2] = Messages[coming[1]] => coming'[1] = coming[1] + 1 /\ coming'[2] = 1
      /\ coming' \in (Nat \ {0}) \X (Nat \ {0})
      /\ coming'[1] <= Len(Messages) + 1
      /\ coming'[1] <= Len(Messages) => coming'[2] <= Messages[coming'[1]]
      /\ coming'[1] > Len(Messages) => coming'[2] = 1
  BY <1>1, FollowingLemma
<1>3. WtsTyped'
  <2>1. WtsTypeOK'
    BY <1>1, WtsAssumption DEF WtsTyped, WtsTypeOK
  <2> QED
    BY <1>1, <1>2, <2>1 DEF WtsTyped
<1>4. GatheredOK'
  <2>1. CASE gathered = <<>> /\ declared = 0
    BY <1>1, <2>1 DEF GatheredOK
  <2>2. ASSUME NEW a \in 1..Len(Messages), GatheringOf(a)
        PROVE  GatheringOf(a)'
    <3> DEFINE n == Len(gathered)
               M == Messages[coming[1]]
               i == coming[1]
               p == coming[2]
               j == coming'[1]
               q == coming'[2]
    <3>1. /\ n \in Nat /\ declared \in Nat /\ a \in Nat
          /\ gathered' = gathered /\ declared' = declared
          /\ coming[1] \in Nat /\ coming[2] \in Nat /\ M \in Nat
          /\ coming'[1] \in Nat /\ coming'[2] \in Nat
      BY <1>1, <1>2 DEF WtsTyped, WtsTypeOK
    <3>2. /\ declared = Messages[a] /\ a <= coming[1] /\ 1 <= n /\ n <= declared
          /\ a = coming[1] => /\ n <= coming[2] - 1 /\ n + lost >= coming[2] - 1
                              /\ n = coming[2] - 1 => \A k \in 1..n : gathered[k] = <<a, k>>
          /\ a < coming[1] => n + lost >= declared + coming[2] - 1
          /\ a = coming[1] => declared = M
      BY <2>2 DEF GatheringOf
    <3>3. /\ coming[2] < M => coming'[1] = coming[1] /\ coming'[2] = coming[2] + 1
          /\ coming[2] = M => coming'[1] = coming[1] + 1 /\ coming'[2] = 1
          /\ coming[2] <= M
      BY <1>2
    <3>a. /\ n <= declared /\ a <= i
          /\ a = i => n <= p - 1 /\ n + lost >= p - 1 /\ declared = M
          /\ a < i => n + lost >= declared + p - 1
      BY <3>2
    <3> HIDE DEF n, M, i, p, j, q
    <3>b. /\ n \in Nat /\ declared \in Nat /\ a \in Nat /\ i \in Nat /\ p \in Nat /\ M \in Nat
          /\ j \in Nat /\ q \in Nat /\ lost \in Nat /\ lost' = lost + 1
      BY <1>1, <3>1 DEF n, M, i, p, j, q
    <3>c. /\ p < M => j = i /\ q = p + 1
          /\ p = M => j = i + 1 /\ q = 1
          /\ p <= M
      BY <3>3 DEF M, i, p, j, q
    <3>4. a <= j
      BY <3>a, <3>b, <3>c
    <3>5. a = j => n <= q - 1 /\ n + lost' >= q - 1 /\ n # q - 1
      BY <3>a, <3>b, <3>c
    <3>6. a < j => n + lost' >= declared + q - 1
      BY <3>a, <3>b, <3>c
    <3> QED
      BY <3>1, <3>2, <3>4, <3>5, <3>6 DEF GatheringOf, n, j, q
  <2> QED
    BY <2>1, <2>2 DEF WtsInv, GatheredOK
<1>5. InStep' /\ HandleOK'
  BY <1>1 DEF WtsInv, InStep, HandleOK
<1>6. MessagesWhole'
  <2>1. \A k \in 1..Len(returned) : Len(returned[k]) \in Nat
    BY <1>1 DEF WtsTyped
  <2> QED
    BY <1>1, <2>1 DEF WtsInv, MessagesWhole
<1> QED
  BY <1>3, <1>4, <1>5, <1>6 DEF WtsInv

\* Nothing is lost or read.
LEMMA QuietWts ==
    ASSUME WtsInv, UNCHANGED <<coming, lost, gathered, declared, returned>>,
           reader = "failed" => reader' = "failed",
           closed' \in BOOLEAN, handle' \in {"open", "closed"},
           lock' \in {"none", "reader", "writer", "closer"}, puts' \in 0..MaxWrites,
           reader' \in Pcs, writer' \in Pcs, closer' \in Pcs, HandleOK'
    PROVE  WtsInv'
<1>1. WtsTyped'
  BY DEF WtsInv, WtsTyped, WtsTypeOK
<1>2. GatheredOK' /\ InStep' /\ MessagesWhole'
  BY DEF WtsInv, GatheredOK, GatheringOf, InStep, MessagesWhole
<1> QED
  BY <1>1, <1>2 DEF WtsInv

LEMMA HandleWts ==
    ASSUME WtsInv,
           \/ Poll \/ ReadLock \/ Write \/ WriteLock \/ WriteReturns \/ Close \/ CloseHandle
           \/ ReadReturns /\ UNCHANGED <<coming, assembly>>
    PROVE  WtsInv'
<1>1. /\ UNCHANGED <<coming, lost, gathered, declared, returned>>
      /\ reader = "failed" => reader' = "failed"
  BY DEF Poll, ReadLock, Write, WriteLock, WriteReturns, Close, CloseHandle, ReadReturns, assembly
<1>a. ReadReturns => /\ reader = "calling" /\ lock' = "none" /\ reader' \in {"idle", "failed"}
                     /\ UNCHANGED <<closed, handle, writer, closer, puts>>
  BY DEF ReadReturns, TakeChunk
<1>2. WtsTypeOK /\ HandleOK /\ MaxWrites \in Nat
  BY WtsAssumption DEF WtsInv, WtsTyped
<1>3. /\ closed' \in BOOLEAN /\ handle' \in {"open", "closed"}
      /\ lock' \in {"none", "reader", "writer", "closer"} /\ puts' \in 0..MaxWrites
      /\ reader' \in Pcs /\ writer' \in Pcs /\ closer' \in Pcs
  <2>1. CASE Poll \/ ReadLock
    BY <1>2, <2>1 DEF WtsTypeOK, Pcs, Poll, ReadLock
  <2>4. CASE ReadReturns
    BY <1>a, <1>2, <2>4 DEF WtsTypeOK, Pcs
  <2>2. CASE Write \/ WriteLock \/ WriteReturns
    BY <1>2, <2>2 DEF HandleOK, WtsTypeOK, Pcs, Write, WriteLock, WriteReturns
  <2>3. CASE Close \/ CloseHandle
    BY <1>2, <2>3 DEF WtsTypeOK, Pcs, Close, CloseHandle
  <2> QED
    BY <2>1, <2>2, <2>3, <2>4
<1>4. HandleOK'
  <2>1. CASE Poll \/ ReadLock
    BY <1>2, <2>1 DEF HandleOK, WtsTypeOK, Poll, ReadLock
  <2>2. CASE ReadReturns
    BY <1>a, <1>2, <2>2 DEF HandleOK, WtsTypeOK
  <2>3. CASE Write \/ WriteLock \/ WriteReturns
    BY <1>2, <2>3 DEF HandleOK, WtsTypeOK, Write, WriteLock, WriteReturns
  <2>4. CASE Close \/ CloseHandle
    BY <1>2, <2>4 DEF HandleOK, WtsTypeOK, Close, CloseHandle
  <2> QED
    BY <2>1, <2>2, <2>3, <2>4
<1> QED
  BY <1>1, <1>3, <1>4, QuietWts

LEMMA AppendLemma ==
    ASSUME NEW S, NEW q \in Seq(S), NEW x \in S
    PROVE  Append(q, x) # <<>> /\ Len(Append(q, x)) \in Nat
<1>1. Append(q, x) \in Seq(S) /\ Len(Append(q, x)) = Len(q) + 1 /\ Len(q) \in Nat
  OBVIOUS
<1> QED
  BY <1>1

\* What the reassembler makes of the next chunk.
LEMMA TakeIs ==
    ASSUME WtsTyped, TakeChunk
    PROVE  LET i == coming[1]
               p == coming[2]
               whole == Append(IF p = 1 THEN <<>> ELSE gathered, <<i, p>>)
           IN \/ /\ gathered' = <<>> /\ declared' = 0 /\ returned' = returned
                 /\ reader' = "failed"
              \/ /\ gathered' = whole /\ declared' = Messages[i] /\ returned' = returned
                 /\ reader' = "idle"
                 /\ p # Messages[i] /\ Len(whole) <= Messages[i] /\ (p = 1 \/ declared = Messages[i])
              \/ /\ gathered' = <<>> /\ declared' = 0 /\ returned' = Append(returned, whole)
                 /\ reader' = "idle"
                 /\ p = Messages[i] /\ Len(whole) = Messages[i] /\ (p = 1 \/ declared = Messages[i])
<1> DEFINE i == coming[1]
           p == coming[2]
           M == Messages[i]
           whole == Append(IF p = 1 THEN <<>> ELSE gathered, <<i, p>>)
           wrong == M > MaxMessage \/ (p # 1 /\ M # declared) \/ Len(whole) > M
           r == Reassemble(Chunk(i, p))
<1>1. r = IF wrong THEN [Reset EXCEPT !.error = TRUE]
          ELSE IF p # M THEN [Reset EXCEPT !.gathered = whole, !.declared = M]
          ELSE IF Len(whole) # M THEN [Reset EXCEPT !.error = TRUE]
          ELSE [Reset EXCEPT !.message = whole]
  BY DEF Reassemble, Chunk
<1>2. /\ gathered' = r.gathered /\ declared' = r.declared
      /\ reader' = IF r.error THEN "failed" ELSE "idle"
      /\ returned' = IF r.message = <<>> THEN returned ELSE Append(returned, r.message)
  BY DEF TakeChunk
<1>3. whole # <<>> /\ Len(whole) \in Nat /\ M \in Nat
  <2>1. i \in Nat /\ p \in Nat /\ M \in Nat /\ gathered \in Seq(Nat \X Nat)
    BY FollowingLemma DEF TakeChunk, WtsTyped
  <2> DEFINE base == IF p = 1 THEN <<>> ELSE gathered
  <2>2. base \in Seq(Nat \X Nat) /\ <<i, p>> \in Nat \X Nat
    BY <2>1
  <2> HIDE DEF base
  <2>3. Append(base, <<i, p>>) # <<>> /\ Len(Append(base, <<i, p>>)) \in Nat
    BY <2>2, AppendLemma
  <2> QED
    BY <2>1, <2>3 DEF base
<1> HIDE DEF r, whole, M, i, p
<1>4. CASE wrong \/ (p = M /\ Len(whole) # M)
  <2>1. r = [Reset EXCEPT !.error = TRUE]
    BY <1>1, <1>4
  <2>2. r.gathered = <<>> /\ r.declared = 0 /\ r.error = TRUE /\ r.message = <<>>
    BY <2>1 DEF Reset
  <2> QED
    BY <1>2, <2>2
<1>5. CASE ~wrong /\ p # M
  <2>1. r = [Reset EXCEPT !.gathered = whole, !.declared = M]
    BY <1>1, <1>5
  <2>2. r.gathered = whole /\ r.declared = M /\ r.error = FALSE /\ r.message = <<>>
    BY <2>1 DEF Reset
  <2> QED
    BY <1>2, <1>3, <1>5, <2>2 DEF whole, M, i, p
<1>6. CASE ~wrong /\ p = M /\ Len(whole) = M
  <2>1. r = [Reset EXCEPT !.message = whole]
    BY <1>1, <1>6
  <2>2. r.gathered = <<>> /\ r.declared = 0 /\ r.error = FALSE /\ r.message = whole
    BY <2>1 DEF Reset
  <2> QED
    BY <1>2, <1>3, <1>6, <2>2 DEF whole, M, i, p
<1> QED
  BY <1>4, <1>5, <1>6

LEMMA IsMessage ==
    ASSUME NEW i \in 1..Len(Messages), NEW q \in Seq(Nat \X Nat), Len(q) = Messages[i],
           \A k \in 1..Len(q) : q[k] = <<i, k>>
    PROVE  q = Message(i)
<1>1. q = [k \in 1..Len(q) |-> q[k]]
  OBVIOUS
<1>2. q = [k \in 1..Len(q) |-> <<i, k>>]
  BY <1>1
<1> QED
  BY <1>2 DEF Message

\* A chunk is read.
LEMMA TakeWts == ASSUME WtsInv, ReadReturns, TakeChunk PROVE WtsInv'
<1> DEFINE i == coming[1]
           p == coming[2]
           M == Messages[i]
           base == IF p = 1 THEN <<>> ELSE gathered
           whole == Append(base, <<i, p>>)
           n == Len(gathered)
<1>1. /\ coming' = Following /\ More /\ reader = "calling" /\ lock' = "none"
      /\ UNCHANGED <<lost, closed, handle, writer, closer, puts>>
      /\ WtsTyped /\ lost \in Nat /\ reader' \in {"idle", "failed"}
  BY WtsAssumption DEF ReadReturns, TakeChunk, WtsInv, WtsTyped, WtsTypeOK
<1>2. /\ i \in 1..Len(Messages) /\ p \in 1..M /\ M \in Nat \ {0} /\ Len(Messages) \in Nat
      /\ p < M => coming'[1] = i /\ coming'[2] = p + 1
      /\ p = M => coming'[1] = i + 1 /\ coming'[2] = 1
      /\ coming' \in (Nat \ {0}) \X (Nat \ {0})
      /\ coming'[1] <= Len(Messages) + 1
      /\ coming'[1] <= Len(Messages) => coming'[2] <= Messages[coming'[1]]
      /\ coming'[1] > Len(Messages) => coming'[2] = 1
  BY <1>1, FollowingLemma
<1>3. /\ gathered \in Seq(Nat \X Nat) /\ returned \in Seq(Seq(Nat \X Nat)) /\ declared \in Nat
      /\ n \in Nat /\ i \in Nat /\ p \in Nat
  BY <1>1, <1>2 DEF WtsTyped, WtsTypeOK
<1>4. /\ base \in Seq(Nat \X Nat) /\ <<i, p>> \in Nat \X Nat
      /\ p = 1 => Len(base) = 0
      /\ p # 1 => base = gathered /\ Len(base) = n
  BY <1>3
<1>5. /\ whole \in Seq(Nat \X Nat) /\ Len(whole) = Len(base) + 1 /\ whole[Len(base) + 1] = <<i, p>>
      /\ \A k \in 1..Len(base) : whole[k] = base[k]
  <2> HIDE DEF base
  <2> QED
    BY <1>4
<1>6. \/ /\ gathered' = <<>> /\ declared' = 0 /\ returned' = returned
         /\ reader' = "failed"
      \/ /\ gathered' = whole /\ declared' = M /\ returned' = returned
         /\ reader' = "idle"
         /\ p # M /\ Len(whole) <= M /\ (p = 1 \/ declared = M)
      \/ /\ gathered' = <<>> /\ declared' = 0 /\ returned' = Append(returned, whole)
         /\ reader' = "idle"
         /\ p = M /\ Len(whole) = M /\ (p = 1 \/ declared = M)
  BY <1>1, TakeIs
\* What the message that a continuation belongs to tells of the chunks since its first.
<1>7. ASSUME p # 1, declared = M
      PROVE  \E a \in 1..Len(Messages) : GatheringOf(a)
  BY <1>2, <1>7 DEF WtsInv, GatheredOK
<1> HIDE DEF base, whole, n, i, p, M
<1>8. HandleOK'
  BY <1>1 DEF WtsInv, HandleOK
<1>9. WtsTyped'
  <2> DEFINE S == Seq(Nat \X Nat)
  <2>a. whole \in S /\ returned \in Seq(S) /\ <<>> \in S /\ M \in Nat /\ 0 \in Nat
    BY <1>2, <1>3, <1>5
  <2> HIDE DEF S
  <2>b. Append(returned, whole) \in Seq(S)
    BY <2>a
  <2>c. gathered' \in S /\ returned' \in Seq(S) /\ declared' \in Nat
    BY <1>6, <2>a, <2>b
  <2>1. /\ gathered' \in Seq(Nat \X Nat) /\ returned' \in Seq(Seq(Nat \X Nat)) /\ declared' \in Nat
    BY <2>c DEF S
  <2>2. WtsTypeOK'
    BY <1>1, <2>1 DEF WtsTyped, WtsTypeOK, Pcs
  <2> QED
    BY <1>2, <2>1, <2>2 DEF WtsTyped
<1>10. CASE reader' = "failed"
  <2>1. gathered' = <<>> /\ declared' = 0 /\ returned' = returned
    BY <1>6, <1>10
  <2> QED
    BY <1>1, <1>8, <1>9, <1>10, <2>1 DEF WtsInv, GatheredOK, InStep, MessagesWhole
<1>11. CASE /\ gathered' = whole /\ declared' = M /\ returned' = returned /\ reader' = "idle"
            /\ p # M /\ Len(whole) <= M /\ (p = 1 \/ declared = M)
  <2>1. p < M /\ coming'[1] = i /\ coming'[2] = p + 1
    BY <1>2, <1>3, <1>11
  <2>2. CASE p = 1
    <3>1. Len(gathered') = 1 /\ gathered'[1] = <<i, 1>>
      BY <1>4, <1>5, <1>11, <2>2
    <3>0. PICK a \in 1..Len(Messages) : a = i
      BY <1>2
    <3>a. /\ declared' = Messages[a] /\ a <= coming'[1] /\ 1 <= M /\ lost' = lost
          /\ coming'[2] - 1 = 1 /\ ~(a < coming'[1]) /\ 1 + lost >= 1
          /\ \A k \in 1..1 : gathered'[k] = <<a, k>>
      <4>1. \A k \in 1..1 : gathered'[k] = <<a, k>>
        BY <3>0, <3>1
      <4>2. declared' = Messages[a] /\ coming'[1] = a
        BY <1>11, <2>1, <3>0 DEF M
      <4> QED
        BY <1>1, <1>2, <1>3, <2>1, <2>2, <4>1, <4>2
    <3>2. GatheringOf(a)'
      BY <1>11, <3>1, <3>a DEF GatheringOf
    <3>3. InStep'
      BY <1>1, <1>11, <2>1, <2>2, <3>1 DEF WtsInv, InStep, i, p, M
    <3>4. GatheredOK'
      BY <3>2 DEF GatheredOK
    <3> QED
      BY <1>1, <1>8, <1>9, <1>11, <3>3, <3>4 DEF WtsInv, MessagesWhole
  <2>3. CASE p # 1
    <3>0. declared = M
      BY <1>11, <2>3
    <3>1. PICK a \in 1..Len(Messages) : GatheringOf(a)
      BY <1>7, <2>3, <3>0
    <3>2. /\ declared = Messages[a] /\ declared = M /\ a <= i /\ 1 <= n /\ a \in Nat
          /\ a = i => /\ n <= p - 1 /\ n + lost >= p - 1
                      /\ n = p - 1 => \A k \in 1..n : gathered[k] = <<a, k>>
          /\ a < i => n + lost >= M + p - 1
      BY <1>2, <3>0, <3>1 DEF GatheringOf, n, i, p
    <3>3. /\ Len(gathered') = n + 1 /\ gathered'[n + 1] = <<i, p>>
          /\ \A k \in 1..n : gathered'[k] = gathered[k]
      BY <1>4, <1>5, <1>11, <2>3
    <3>4. GatheringOf(a)'
      <4>1. ASSUME a = i, n + 1 = p, NEW k \in 1..(n + 1) PROVE gathered'[k] = <<a, k>>
        <5>0. \A m \in 1..n : gathered[m] = <<a, m>>
          BY <1>3, <3>2, <4>1
        <5>1. CASE k \in 1..n
          BY <3>3, <5>0, <5>1
        <5>2. CASE k = n + 1
          BY <3>3, <4>1, <5>2
        <5> QED
          BY <1>3, <5>1, <5>2
      <4>2. n + 1 <= M /\ declared' = Messages[a] /\ lost' = lost /\ declared' = M
        BY <1>1, <1>5, <1>11, <3>2, <3>3
      <4> QED
        BY <1>1, <1>2, <1>3, <2>1, <3>2, <3>3, <4>1, <4>2 DEF GatheringOf
    <3>5. InStep'
      BY <1>1, <1>3, <1>11, <2>1, <2>3, <3>3 DEF WtsInv, InStep, i, p, n, M
    <3>6. GatheredOK'
      BY <3>4 DEF GatheredOK
    <3> QED
      BY <1>1, <1>8, <1>9, <1>11, <3>5, <3>6 DEF WtsInv, MessagesWhole
  <2> QED
    BY <2>2, <2>3
<1>12. CASE /\ gathered' = <<>> /\ declared' = 0 /\ returned' = Append(returned, whole)
            /\ reader' = "idle"
            /\ p = M /\ Len(whole) = M /\ (p = 1 \/ declared = M)
  <2>1. coming'[1] = i + 1 /\ coming'[2] = 1
    BY <1>2, <1>12
  <2>2. whole = Message(i) \/ (lost >= Len(whole) /\ lost # 0)
    <3>1. CASE p = 1
      <4>1. \A k \in 1..Len(whole) : whole[k] = <<i, k>>
        BY <1>4, <1>5, <1>12, <3>1
      <4> QED
        BY <1>2, <1>5, <1>12, <4>1, IsMessage DEF M
    <3>2. CASE p # 1
      <4>a. declared = M /\ p = M /\ Len(whole) = M
        BY <1>12, <3>2
      <4>1. PICK a \in 1..Len(Messages) : GatheringOf(a)
        BY <1>7, <3>2, <4>a
      <4>2. /\ declared = Messages[a] /\ declared = M /\ a <= i /\ 1 <= n /\ a \in Nat
            /\ a = i => /\ n <= p - 1 /\ n + lost >= p - 1
                        /\ n = p - 1 => \A k \in 1..n : gathered[k] = <<a, k>>
            /\ a < i => n + lost >= M + p - 1
        BY <1>2, <4>1, <4>a DEF GatheringOf, n, i, p
      <4>3. /\ n = p - 1 /\ whole[n + 1] = <<i, p>> /\ \A k \in 1..n : whole[k] = gathered[k]
        <5>1. base = gathered /\ Len(base) = n
          BY <1>4, <3>2
        <5>2. n + 1 = p
          BY <1>5, <4>a, <5>1
        <5> QED
          BY <1>3, <1>5, <5>1, <5>2
      <4>4. CASE a = i
        <5>1. ASSUME NEW k \in 1..Len(whole) PROVE whole[k] = <<i, k>>
          <6>1. CASE k \in 1..n
            BY <4>2, <4>3, <4>4, <6>1
          <6>2. CASE k = n + 1
            <7>1. whole[k] = whole[n + 1]
              BY <6>2
            <7> QED
              BY <7>1, <1>3, <4>3, <6>2
          <6> QED
            BY <1>3, <4>3, <4>a, <6>1, <6>2
        <5> QED
          BY <1>2, <1>5, <4>a, <5>1, IsMessage DEF M
      <4>5. CASE a < i
        BY <1>1, <1>2, <1>3, <4>2, <4>3, <4>5, <4>a
      <4> QED
        BY <1>3, <4>2, <4>4, <4>5
    <3> QED
      BY <3>1, <3>2
  <2>3. /\ Len(returned') = Len(returned) + 1 /\ Len(returned) \in Nat
        /\ \A k \in 1..Len(returned) : returned'[k] = returned[k]
        /\ returned'[Len(returned) + 1] = whole
    BY <1>3, <1>5, <1>12
  <2>4. lost = 0 => Len(returned) = i - 1
    BY <1>1 DEF WtsInv, InStep, i
  <2>5. MessagesWhole'
    <3>1. ASSUME NEW k \in 1..Len(returned')
          PROVE  /\ lost = 0 => returned'[k] = Message(k)
                 /\ (\E j \in 1..Len(Messages) : returned'[k] = Message(j)) \/ lost >= Len(returned'[k])
      <4>1. CASE k \in 1..Len(returned)
        BY <2>3, <4>1 DEF WtsInv, MessagesWhole
      <4>2. CASE k = Len(returned) + 1
        <5>1. returned'[k] = whole /\ (lost = 0 => k = i)
          BY <1>3, <2>3, <2>4, <4>2
        <5> QED
          BY <1>2, <2>2, <5>1
      <4> QED
        BY <2>3, <4>1, <4>2
    <3> QED
      BY <1>1, <3>1 DEF MessagesWhole
  <2>6. InStep'
    BY <1>1, <1>3, <1>12, <2>1, <2>3, <2>4 DEF InStep
  <2> QED
    BY <1>8, <1>9, <1>12, <2>5, <2>6 DEF WtsInv, GatheredOK
<1> QED
  BY <1>6, <1>10, <1>11, <1>12

LEMMA WtsKeepsInv == WtsInv /\ [WtsNext]_wtsVars => WtsInv'
<1> SUFFICES ASSUME WtsInv, [WtsNext]_wtsVars PROVE WtsInv'
  OBVIOUS
<1>1. CASE Lose
  BY <1>1, LoseWts
<1>2. CASE ReadReturns /\ TakeChunk
  BY <1>2, TakeWts
<1>3. CASE ReadReturns /\ ~TakeChunk
  <2>1. UNCHANGED <<coming, assembly>>
    BY <1>3 DEF ReadReturns
  <2> QED
    BY <1>3, <2>1, HandleWts
<1>4. CASE Poll \/ ReadLock \/ Write \/ WriteLock \/ WriteReturns \/ Close \/ CloseHandle
  BY <1>4, HandleWts
<1>5. CASE UNCHANGED wtsVars
  <2>1. UNCHANGED <<coming, lost, gathered, declared, returned, closed, handle, lock,
                    reader, writer, closer, puts>>
    BY <1>5 DEF wtsVars
  <2>2. HandleOK'
    BY <2>1 DEF WtsInv, HandleOK
  <2> QED
    BY <2>1, <2>2, QuietWts DEF WtsInv, WtsTyped, WtsTypeOK
<1> QED
  BY <1>1, <1>2, <1>3, <1>4, <1>5 DEF WtsNext, Reader

\* For any messages and any loss of chunks: what WTSChannelTransport.read returns is a
\* message that was sent, in order when nothing is lost, unless as many chunks are lost as
\* the message has; and its handle is used by one thread at a time and by none once
\* close() has closed it.
THEOREM TransportIsSafe == WtsSpec => []TransportSafe
<1>1. WtsInv => TransportSafe
  BY DEF WtsInv, HandleOK, TransportSafe, HandleGuarded, WtsTyped, WtsTypeOK
<1>2. WtsInv /\ [WtsNext]_wtsVars => WtsInv'
  BY WtsKeepsInv
<1> QED
  BY <1>1, <1>2, WtsInitInv, PTL DEF WtsSpec

\* The state of the transport has its type.
THEOREM TransportTyped == WtsSpec => []WtsTypeOK
<1>1. WtsInv => WtsTypeOK
  BY DEF WtsInv, WtsTyped
<1>2. WtsInv /\ [WtsNext]_wtsVars => WtsInv'
  BY WtsKeepsInv
<1> QED
  BY <1>1, <1>2, WtsInitInv, PTL DEF WtsSpec

-----------------------------------------------------------------------------
(* The send path.                                                          *)

\* The chunks that are sent and not yet part of a frame that was returned, in order.
Sent == partial \o channel

FrameOf == [i \in 1..Len(frames) |-> frames[i][1].frame]

\* <<v, w>>: v entered _send before w.
Earlier == {p \in Writers \X Writers :
    \E a, b \in 1..Len(asked) : a < b /\ asked[a] = p[1] /\ asked[b] = p[2]}

\* The chunks of w that will come: a torn frame gets no more.
Goal == [w \in Writers |-> IF w \in Torn THEN written[w] ELSE Size[w]]

\* No torn frame has been returned, with what it lacked taken from others.
Intact == \A i \in 1..Len(frames) : FrameOf[i] \notin Torn

\* How far a writer is.  In chunks, only the holder of the lock has a thread.
WriterOK(w) ==
    /\ written[w] <= Size[w]
    /\ staged[w] => w \in running /\ written[w] < Size[w]
    /\ task[w] \in {"idle", "waiting"} => w \notin running /\ written[w] = 0
    /\ w \in running => task[w] \in {"writing", "cancelled"}
    /\ task[w] = "writing" => w \in running
    /\ task[w] = "writing" <=> holder = w
    /\ w \in short => w \notin running /\ written[w] > 0

ChunksOK(w) == unit = "chunk" =>
    /\ w \in running => holder = w
    /\ staged[w] /\ SharedBuffer => buffer = ChunkOf(w, written[w] + 1)
    /\ task[w] = "cancelled" => written[w] = 0

WritersOK ==
    /\ unit = "chunk" => ~CancelRunning
    /\ unit = "frame" => short = {}
    /\ \A w \in Writers : WriterOK(w)
    /\ \A w \in Writers : ChunksOK(w)

\* What is on its way has been written, and each chunk is there once.
OnceOK(s, out) ==
    /\ \A k \in 1..Len(s) : 1 <= s[k].part /\ s[k].part <= out[s[k].frame]
    /\ \A k, l \in 1..Len(s) : s[k] = s[l] => k = l

\* It is the chunks of one frame after the other; only the last may be cut, and then
\* its writer is the one that is still at it.
StreamOK(s, out, size) ==
    /\ Len(s) > 0 => s[1].part = 1
    /\ \A k, l \in 1..Len(s) : l = k + 1 =>
        s[l] = IF s[k].part < size[s[k].frame]
               THEN ChunkOf(s[k].frame, s[k].part + 1)
               ELSE ChunkOf(s[l].frame, 1)
    /\ \A w \in Writers : 0 < out[w] /\ out[w] < size[w] =>
        Len(s) > 0 /\ s[Len(s)] = ChunkOf(w, out[w])
    /\ Len(s) > 0 => s[Len(s)].part = out[s[Len(s)].frame]

SentOK == OnceOK(Sent, written) /\ (Intact => StreamOK(Sent, written, Goal))

\* FrameDecoder holds the beginning of one frame, and behind a torn one more.
BeginningOK(s, size) == s # <<>> =>
    \A j \in 1..Len(s) : j <= size[s[1].frame] => s[j] = ChunkOf(s[1].frame, j)

PartialOK == Intact => BeginningOK(partial, Goal)

FramesOK ==
    /\ badMagic => ~Intact
    /\ \A i \in 1..Len(frames) :
        \/ frames[i] = [j \in 1..Size[FrameOf[i]] |-> ChunkOf(FrameOf[i], j)]
        \/ \E j \in 1..i : FrameOf[j] \in Torn
    /\ \A i \in 1..Len(frames) : FrameOf[i] \in Writers /\ 0 < written[FrameOf[i]]
    /\ \A i \in 1..Len(frames), k \in 1..Len(Sent) : Sent[k] # ChunkOf(FrameOf[i], 1)
    /\ \A i, j \in 1..Len(frames) : FrameOf[i] = FrameOf[j] => i = j

AskedOK ==
    /\ \A a, b \in 1..Len(asked) : asked[a] = asked[b] => a = b
    /\ \A a \in 1..Len(asked) : task[asked[a]] # "idle"
    /\ \A w \in Writers : task[w] # "idle" => \E a \in 1..Len(asked) : asked[a] = w

\* The lock was given to the writers in the order in which they asked.
TurnsOK == unit = "chunk" => \A v, w \in Writers :
    /\ task[v] \in {"writing", "done", "failed"} /\ task[w] = "waiting" => <<v, w>> \in Earlier
    /\ task[v] \in {"done", "failed"} /\ task[w] = "writing" => <<v, w>> \in Earlier

InOrder == unit = "chunk" =>
    /\ \A i, j \in 1..Len(frames) : i < j => <<FrameOf[i], FrameOf[j]>> \in Earlier
    /\ \A i \in 1..Len(frames), k \in 1..Len(Sent) :
        FrameOf[i] = Sent[k].frame \/ <<FrameOf[i], Sent[k].frame>> \in Earlier
    /\ \A k, l \in 1..Len(Sent) : k < l =>
        Sent[k].frame = Sent[l].frame \/ <<Sent[k].frame, Sent[l].frame>> \in Earlier

FrameInv ==
    /\ FrameTypeOK /\ WritersOK
    /\ SentOK /\ PartialOK /\ FramesOK /\ AskedOK /\ TurnsOK /\ InOrder

Tasks == {"idle", "waiting", "writing", "done", "failed", "cancelled"}

LEMMA SizeIs ==
    /\ Size \in [Writers -> Nat \ {0}]
    /\ unit = "frame" => \A w \in Writers : Size[w] = 1
BY ChunksAssumption DEF Size

LEMMA SentIs == FrameTypeOK => Sent \in Seq(AnyChunk)
BY DEF FrameTypeOK, Sent

LEMMA GoalIs ==
    ASSUME FrameInv
    PROVE  /\ Goal \in [Writers -> Nat]
           /\ \A w \in Writers : w \notin Torn => Goal[w] = Size[w]
           /\ \A w \in Writers : Goal[w] <= Size[w] /\ Size[w] \in Nat /\ written[w] \in Nat
           /\ unit = "frame" => Torn = {}
<1>1. /\ written \in [Writers -> Nat] /\ Size \in [Writers -> Nat \ {0}]
      /\ \A w \in Writers : written[w] <= Size[w]
  BY SizeIs DEF FrameInv, FrameTypeOK, WritersOK, WriterOK
<1>2. unit = "frame" => Torn = {}
  <2>. SUFFICES ASSUME unit = "frame", NEW w \in Torn PROVE FALSE
    OBVIOUS
  <2>1. w \in Writers /\ 0 < written[w] /\ (written[w] < Size[w] \/ w \in short)
    BY DEF Torn
  <2>2. Size[w] = 1 /\ short = {} /\ written[w] \in Nat
    BY <1>1, <2>1, SizeIs DEF FrameInv, WritersOK
  <2>. QED  BY <2>1, <2>2
<1>. QED  BY <1>1, <1>2 DEF Goal

\* Steps that neither put chunks on the channel nor take any.
LEMMA ChunksKept ==
    ASSUME FrameInv, UNCHANGED <<unit, written, channel, partial, frames, badMagic>>, Torn' = Torn
    PROVE  SentOK' /\ PartialOK' /\ FramesOK'
<1>1. /\ Sent' = Sent /\ FrameOf' = FrameOf /\ Size' = Size /\ partial' = partial
      /\ written' = written /\ frames' = frames /\ (badMagic' <=> badMagic)
  BY DEF Sent, FrameOf, Size
<1>2. Goal' = Goal /\ (Intact' <=> Intact)
  BY <1>1 DEF Goal, Intact
<1>3. SentOK' /\ PartialOK'
  BY <1>1, <1>2, Zenon DEF FrameInv, SentOK, PartialOK
<1>4. FramesOK'
  BY <1>1, <1>2 DEF FrameInv, FramesOK
<1>. QED  BY <1>3, <1>4

LEMMA OrderStays ==
    ASSUME FrameInv, UNCHANGED <<unit, channel, partial, frames, badMagic>>, Earlier \subseteq Earlier'
    PROVE  InOrder'
<1>1. Sent' = Sent /\ FrameOf' = FrameOf /\ frames' = frames
  BY DEF Sent, FrameOf
<1>. QED  BY <1>1 DEF FrameInv, InOrder

\* The steps of writers that do not ask for the lock.
LEMMA NoOneAsks ==
    ASSUME FrameInv, UNCHANGED <<unit, channel, partial, frames, badMagic, asked>>
    PROVE  Earlier' = Earlier /\ InOrder'
<1>1. Earlier' = Earlier
  BY DEF Earlier
<1>. QED  BY <1>1, OrderStays
LEMMA RequestOK == ASSUME FrameInv, NEW w \in Writers, Request(w) PROVE FrameInv'
<1>0. /\ FrameTypeOK /\ WritersOK /\ AskedOK /\ TurnsOK
      /\ task[w] = "idle" /\ task' = [task EXCEPT ![w] = "waiting"]
      /\ asked' = Append(asked, w)
      /\ UNCHANGED <<unit, holder, written, running, staged, buffer, short, channel, partial,
                   frames, badMagic>>
  BY DEF FrameInv, Request, decoder
<1>1. /\ Size' = Size /\ Size \in [Writers -> Nat \ {0}]
      /\ asked \in Seq(Writers) /\ Len(asked) \in Nat /\ Len(asked') = Len(asked) + 1
      /\ \A a \in 1..Len(asked) : asked'[a] = asked[a] /\ asked[a] \in Writers
      /\ asked'[Len(asked) + 1] = w
  BY <1>0, SizeIs DEF FrameTypeOK, Tasks, Size
<1>2. task' \in [Writers -> Tasks] /\ task'[w] = "waiting"
      /\ \A v \in Writers \ {w} : task'[v] = task[v]
  BY <1>0 DEF FrameTypeOK, Tasks
<1>3. FrameTypeOK'
  BY <1>0, <1>1, <1>2 DEF FrameTypeOK, Tasks
<1>4. WritersOK'
  BY <1>0, <1>1, <1>2 DEF WritersOK, WriterOK, ChunksOK
<1>5. Earlier \subseteq Earlier'
  BY <1>1 DEF Earlier
<1>6. \A a \in 1..Len(asked) : asked[a] # w
  BY <1>0, <1>1 DEF AskedOK
<1>7. AskedOK'
  <2>1. \A a, b \in 1..Len(asked') : asked'[a] = asked'[b] => a = b
    <3>1. \A a \in 1..Len(asked') : a \in 1..Len(asked) \/ a = Len(asked) + 1
      BY <1>1
    <3>. QED  BY <3>1, <1>0, <1>1, <1>6 DEF AskedOK
  <2>2. \A a \in 1..Len(asked') : task'[asked'[a]] # "idle"
    <3>1. \A a \in 1..Len(asked') : a \in 1..Len(asked) \/ a = Len(asked) + 1
      BY <1>1
    <3>. QED  BY <3>1, <1>0, <1>1, <1>2, <1>6 DEF AskedOK
  <2>3. ASSUME NEW v \in Writers, task'[v] # "idle" PROVE \E a \in 1..Len(asked') : asked'[a] = v
    <3>1. CASE v = w
      BY <3>1, <1>1
    <3>2. CASE v # w
      <4>1. PICK a \in 1..Len(asked) : asked[a] = v
        BY <3>2, <2>3, <1>0, <1>2 DEF AskedOK
      <4>. QED  BY <4>1, <1>1
    <3>. QED  BY <3>1, <3>2
  <2>. QED  BY <2>1, <2>2, <2>3 DEF AskedOK
<1>8. TurnsOK'
  <2>1. ASSUME NEW v \in Writers, task'[v] \in {"writing", "done", "failed"} PROVE <<v, w>> \in Earlier'
    <3>1. PICK a \in 1..Len(asked) : asked[a] = v
      BY <2>1, <1>0, <1>2 DEF AskedOK
    <3>2. a \in 1..Len(asked') /\ Len(asked) + 1 \in 1..Len(asked') /\ a < Len(asked) + 1
      BY <1>1
    <3>3. asked'[a] = v /\ asked'[Len(asked) + 1] = w
      BY <3>1, <1>1
    <3>. QED  BY <3>2, <3>3 DEF Earlier
  <2>. QED  BY <2>1, <1>0, <1>2, <1>5 DEF TurnsOK
<1>t. Torn' = Torn
  BY <1>0, <1>1 DEF Torn
<1>. QED  BY <1>0, <1>t, <1>3, <1>4, <1>5, <1>7, <1>8, ChunksKept, OrderStays DEF FrameInv

LEMMA AcquireOK == ASSUME FrameInv, NEW w \in Writers, Acquire(w) PROVE FrameInv'
<1>0. /\ FrameTypeOK /\ WritersOK /\ AskedOK /\ TurnsOK
      /\ task[w] = "waiting" /\ task' = [task EXCEPT ![w] = "writing"] /\ ~Ahead(w)
      /\ holder = None /\ holder' = w /\ running' = running \cup {w}
      /\ UNCHANGED <<unit, written, staged, buffer, short, channel, partial,
                   frames, badMagic, asked>>
  BY DEF FrameInv, Acquire, decoder
<1>1. Size' = Size /\ Size \in [Writers -> Nat \ {0}]
  BY <1>0, SizeIs DEF Size
<1>2. task' \in [Writers -> Tasks] /\ task'[w] = "writing"
      /\ \A v \in Writers \ {w} : task'[v] = task[v]
  BY <1>0 DEF FrameTypeOK, Tasks
<1>3. \A v \in Writers : task[v] # "writing"
  BY <1>0, NoneAssumption DEF WritersOK, WriterOK
<1>4. FrameTypeOK'
  BY <1>0, <1>2 DEF FrameTypeOK, Tasks
<1>5. WritersOK'
  <2>1. ASSUME NEW v \in Writers PROVE WriterOK(v)'
    BY <1>0, <1>1, <1>2, <1>3 DEF WritersOK, WriterOK
  <2>2. ASSUME NEW v \in Writers, unit = "chunk" PROVE v \notin running
    BY <2>2, <1>0, NoneAssumption DEF WritersOK, ChunksOK
  <2>3. ASSUME NEW v \in Writers PROVE ChunksOK(v)'
    BY <2>2, <1>0, <1>1, <1>2, <1>3 DEF WritersOK, ChunksOK, WriterOK
  <2>. QED  BY <2>1, <2>3, <1>0 DEF WritersOK
<1>6. AskedOK'
  BY <1>0, <1>2 DEF AskedOK, FrameTypeOK, Tasks
<1>7. TurnsOK'
  <2>0. Earlier' = Earlier /\ asked \in Seq(Writers) /\ Len(asked) \in Nat
    BY <1>0, NoOneAsks DEF FrameTypeOK, Tasks
  <2>1. ASSUME NEW u \in Writers, task'[u] = "waiting" PROVE <<w, u>> \in Earlier
    <3>1. task[u] = "waiting" /\ u # w
      BY <2>1, <1>2
    <3>2. PICK a \in 1..Len(asked) : asked[a] = w
      BY <1>0 DEF AskedOK
    <3>3. PICK b \in 1..Len(asked) : asked[b] = u
      BY <3>1, <1>0 DEF AskedOK
    <3>4. ~(b < a)
      <4>1. b < a => b \in 1..(a - 1)
        BY <2>0
      <4>. QED  BY <4>1, <3>1, <3>2, <3>3, <1>0 DEF Ahead
    <3>5. a < b
      BY <3>1, <3>2, <3>3, <3>4, <2>0
    <3>. QED  BY <3>2, <3>3, <3>5 DEF Earlier
  <2>2. ASSUME unit = "chunk", NEW v \in Writers, NEW u \in Writers,
               task'[v] \in {"writing", "done", "failed"}, task'[u] = "waiting"
        PROVE  <<v, u>> \in Earlier'
    BY <2>0, <2>1, <2>2, <1>0, <1>2 DEF TurnsOK
  <2>3. ASSUME unit = "chunk", NEW v \in Writers, NEW u \in Writers,
               task'[v] \in {"done", "failed"}, task'[u] = "writing"
        PROVE  <<v, u>> \in Earlier'
    <3>1. u = w /\ v # w /\ task[v] \in {"done", "failed"}
      BY <2>3, <1>2, <1>3
    <3>. QED  BY <3>1, <2>0, <2>3, <1>0 DEF TurnsOK
  <2>. QED  BY <2>2, <2>3, <1>0 DEF TurnsOK
<1>t. Torn' = Torn
  <2>1. written[w] = 0
    BY <1>0 DEF WritersOK, WriterOK
  <2>. QED  BY <2>1, <1>0, <1>1 DEF Torn
<1>. QED  BY <1>0, <1>t, <1>4, <1>5, <1>6, <1>7, ChunksKept, NoOneAsks DEF FrameInv

LEMMA StageOK == ASSUME FrameInv, NEW w \in Writers, Stage(w) PROVE FrameInv'
<1>0. /\ FrameTypeOK /\ WritersOK /\ AskedOK /\ TurnsOK
      /\ w \in running /\ written[w] < Size[w]
      /\ staged' = [staged EXCEPT ![w] = TRUE]
      /\ buffer' = IF Shared THEN ChunkOf(w, written[w] + 1) ELSE buffer
      /\ UNCHANGED <<unit, task, holder, written, running, short, channel, partial,
                   frames, badMagic, asked>>
  BY DEF FrameInv, Stage, decoder
<1>1. Size' = Size /\ Earlier' = Earlier
  BY <1>0, NoOneAsks DEF Size
<1>2. staged' \in [Writers -> BOOLEAN] /\ \A v \in Writers \ {w} : staged'[v] = staged[v]
  BY <1>0 DEF FrameTypeOK, Tasks
<1>3. FrameTypeOK'
  <2>1. ChunkOf(w, written[w] + 1) \in AnyChunk
    BY <1>0 DEF FrameTypeOK, Tasks, ChunkOf, AnyChunk
  <2>. QED  BY <2>1, <1>0, <1>2 DEF FrameTypeOK, Tasks
<1>4. WritersOK'
  <2>1. ASSUME NEW v \in Writers PROVE WriterOK(v)'
    BY <1>0, <1>1, <1>2 DEF WritersOK, WriterOK
  <2>2. ASSUME NEW v \in Writers PROVE ChunksOK(v)'
    <3>1. CASE v = w
      BY <3>1, <1>0 DEF WritersOK, ChunksOK, Shared, ChunkOf
    <3>2. CASE v # w
      <4>1. unit = "chunk" => ~staged[v]
        BY <3>2, <1>0 DEF WritersOK, ChunksOK, WriterOK
      <4>2. unit = "chunk" => ~staged'[v]
        BY <3>2, <4>1, <1>2
      <4>. QED  BY <4>2, <1>0 DEF WritersOK, ChunksOK
    <3>. QED  BY <3>1, <3>2
  <2>. QED  BY <2>1, <2>2, <1>0 DEF WritersOK
<1>5. AskedOK' /\ TurnsOK'
  BY <1>0, <1>1, Zenon DEF AskedOK, TurnsOK
<1>t. Torn' = Torn
  BY <1>0, <1>1 DEF Torn
<1>. QED  BY <1>0, <1>t, <1>3, <1>4, <1>5, ChunksKept, NoOneAsks DEF FrameInv

LEMMA ThreadDoneOK == ASSUME FrameInv, NEW w \in Writers, ThreadDone(w) PROVE FrameInv'
<1>0. /\ FrameTypeOK /\ WritersOK /\ AskedOK /\ TurnsOK
      /\ w \in running /\ written[w] = Size[w]
      /\ running' = running \ {w}
      /\ task' = [task EXCEPT ![w] = IF @ = "writing" THEN "done" ELSE @]
      /\ holder' = IF holder = w THEN None ELSE holder
      /\ UNCHANGED <<unit, written, staged, buffer, short, channel, partial,
                   frames, badMagic, asked>>
  BY DEF FrameInv, ThreadDone, decoder
<1>1. Size' = Size /\ Size \in [Writers -> Nat \ {0}] /\ Earlier' = Earlier
  BY <1>0, SizeIs, NoOneAsks DEF Size
<1>2. /\ task' \in [Writers -> Tasks]
      /\ task'[w] = IF task[w] = "writing" THEN "done" ELSE "cancelled"
      /\ \A v \in Writers \ {w} : task'[v] = task[v]
  BY <1>0 DEF FrameTypeOK, Tasks, WritersOK, WriterOK
<1>3. FrameTypeOK'
  BY <1>0, <1>2 DEF FrameTypeOK, Tasks
<1>4. WritersOK'
  <2>0. ~staged[w]
    BY <1>0, <1>1 DEF WritersOK, WriterOK, FrameTypeOK, Tasks
  <2>1. ASSUME NEW v \in Writers PROVE WriterOK(v)'
    <3>1. CASE v = w
      BY <3>1, <2>0, <1>0, <1>1, <1>2, NoneAssumption DEF WritersOK, WriterOK, FrameTypeOK, Tasks
    <3>2. CASE v # w
      BY <3>2, <1>0, <1>1, <1>2, NoneAssumption DEF WritersOK, WriterOK
    <3>. QED  BY <3>1, <3>2
  <2>2. ASSUME NEW v \in Writers PROVE ChunksOK(v)'
    <3>1. CASE v = w
      <4>1. unit = "chunk" => task'[w] = "done"
        BY <1>0, <1>2 DEF WritersOK, ChunksOK, WriterOK
      <4>. QED  BY <4>1, <3>1, <2>0, <1>0 DEF ChunksOK
    <3>2. CASE v # w
      <4>1. unit = "chunk" => v \notin running /\ ~staged[v]
        BY <3>2, <1>0 DEF WritersOK, ChunksOK, WriterOK
      <4>. QED  BY <4>1, <3>2, <1>0, <1>2 DEF WritersOK, ChunksOK
    <3>. QED  BY <3>1, <3>2
  <2>. QED  BY <2>1, <2>2, <1>0 DEF WritersOK
<1>5. AskedOK'
  BY <1>0, <1>2 DEF AskedOK, FrameTypeOK, Tasks
<1>6. TurnsOK'
  <2>1. ASSUME unit = "chunk", NEW v \in Writers, task'[v] \in {"writing", "done", "failed"}
        PROVE  task[v] \in {"writing", "done", "failed"}
    BY <2>1, <1>2, <1>0 DEF FrameTypeOK, Tasks
  <2>2. ASSUME unit = "chunk", NEW u \in Writers PROVE task'[u] # "writing"
    BY <2>2, <1>0, <1>2 DEF WritersOK, WriterOK, ChunksOK
  <2>3. ASSUME NEW u \in Writers, task'[u] = "waiting" PROVE task[u] = "waiting"
    BY <2>3, <1>2
  <2>. QED  BY <2>1, <2>2, <2>3, <1>0, <1>1 DEF TurnsOK
<1>t. Torn' = Torn
  <2>1. w \notin short /\ ~(written[w] < Size[w])
    BY <1>0, <1>1 DEF WritersOK, WriterOK
  <2>. QED  BY <2>1, <1>0, <1>1 DEF Torn
<1>. QED  BY <1>0, <1>t, <1>3, <1>4, <1>5, <1>6, ChunksKept, NoOneAsks DEF FrameInv

LEMMA CancelOK ==
    ASSUME FrameInv, NEW w \in Writers, CancelWaiting(w) \/ CancelWriting(w)
    PROVE  FrameInv'
<1>0. /\ FrameTypeOK /\ WritersOK /\ AskedOK /\ TurnsOK
      /\ task' = [task EXCEPT ![w] = "cancelled"]
      /\ \/ task[w] = "waiting" /\ holder' = holder
         \/ task[w] = "writing" /\ unit = "frame" /\ holder' = None
      /\ UNCHANGED <<unit, written, running, staged, buffer, short, channel, partial,
                   frames, badMagic, asked>>
  <2>1. unit = "chunk" \/ unit = "frame"
    BY UnitsAssumption DEF FrameInv, FrameTypeOK, Tasks
  <2>2. Interruptible => unit = "frame"
    BY <2>1 DEF FrameInv, WritersOK, Interruptible
  <2>3. CASE CancelWaiting(w)
    BY <2>3 DEF FrameInv, CancelWaiting, decoder
  <2>4. CASE CancelWriting(w)
    BY <2>2, <2>4 DEF FrameInv, CancelWriting, decoder
  <2>. QED  BY <2>3, <2>4
<1>1. Size' = Size /\ Size \in [Writers -> Nat \ {0}] /\ Earlier' = Earlier
  BY <1>0, SizeIs, NoOneAsks DEF Size
<1>2. /\ task' \in [Writers -> Tasks]
      /\ task'[w] = "cancelled"
      /\ \A v \in Writers \ {w} : task'[v] = task[v]
  BY <1>0 DEF FrameTypeOK, Tasks
<1>3. FrameTypeOK'
  BY <1>0, <1>2 DEF FrameTypeOK, Tasks
<1>4. WritersOK'
  <2>1. ASSUME NEW v \in Writers PROVE WriterOK(v)'
    BY <1>0, <1>1, <1>2, NoneAssumption DEF WritersOK, WriterOK
  <2>2. ASSUME NEW v \in Writers PROVE ChunksOK(v)'
    BY <1>0, <1>2 DEF WritersOK, ChunksOK, WriterOK
  <2>. QED  BY <2>1, <2>2, <1>0 DEF WritersOK
<1>5. AskedOK'
  BY <1>0, <1>2 DEF AskedOK, FrameTypeOK, Tasks
<1>6. TurnsOK'
  BY <1>0, <1>1, <1>2 DEF TurnsOK
<1>t. Torn' = Torn
  BY <1>0, <1>1 DEF Torn
<1>. QED  BY <1>0, <1>t, <1>3, <1>4, <1>5, <1>6, ChunksKept, NoOneAsks DEF FrameInv

\* Decode leaves the writers alone.
\* Decode leaves the writers alone.
LEMMA WritersKept ==
    ASSUME FrameInv, UNCHANGED <<unit, task, holder, written, running, staged, buffer, short, asked>>
    PROVE  /\ WritersOK' /\ AskedOK' /\ TurnsOK'
           /\ Earlier' = Earlier /\ Size' = Size /\ Torn' = Torn /\ Goal' = Goal
<1>1. Size' = Size /\ Earlier' = Earlier
  BY DEF Size, Earlier
<1>2. Torn' = Torn
  BY <1>1 DEF Torn
<1>3. Goal' = Goal
  BY <1>1, <1>2 DEF Goal
<1>4. WritersOK' /\ AskedOK'
  BY <1>1 DEF FrameInv, WritersOK, WriterOK, ChunksOK, AskedOK
<1>5. TurnsOK'
  BY <1>1 DEF FrameInv, TurnsOK
<1>. QED  BY <1>1, <1>2, <1>3, <1>4, <1>5

\* A writer whose frame is on the channel and that is no longer at it has put there all
\* that will come.
LEMMA WriterIs ==
    ASSUME FrameInv, NEW w \in Writers, 0 < written[w]
    PROVE  /\ written[w] \in Nat /\ Size[w] \in Nat \ {0}
           /\ w \notin running => written[w] = Goal[w]
           /\ unit = "chunk" /\ w \notin running => task[w] \in {"done", "failed"}
           /\ unit = "frame" => written[w] = Goal[w]
<1>1. FrameTypeOK /\ WriterOK(w) /\ ChunksOK(w) /\ Size[w] \in Nat \ {0}
  BY SizeIs DEF FrameInv, WritersOK
<1>2. written[w] \in Nat /\ task[w] \in Tasks
  BY <1>1 DEF FrameTypeOK, Tasks
<1>3. Goal[w] = IF w \in Torn THEN written[w] ELSE Size[w]
  BY DEF Goal
<1>4. w \notin running => written[w] = Goal[w]
  <2>. SUFFICES ASSUME w \notin running, w \notin Torn PROVE written[w] = Size[w]
    BY <1>3
  <2>1. ~(written[w] < Size[w])
    BY DEF Torn
  <2>. QED  BY <2>1, <1>1, <1>2 DEF WriterOK
<1>5. unit = "frame" => written[w] = Goal[w]
  <2>1. unit = "frame" => written[w] = Size[w]
    BY <1>1, <1>2, SizeIs DEF WriterOK
  <2>. QED  BY <2>1, <1>3
<1>6. unit = "chunk" /\ w \notin running => task[w] \in {"done", "failed"}
  BY <1>1, <1>2 DEF WriterOK, ChunksOK, Tasks
<1>. QED  BY <1>1, <1>2, <1>4, <1>5, <1>6

\* The writer that puts a chunk on the channel is the only one at work.
LEMMA OthersDone ==
    ASSUME FrameInv, NEW w \in running, written[w] < Size[w],
           NEW v \in Writers, v # w, 0 < written[v]
    PROVE  written[v] = Goal[v] /\ (unit = "chunk" => <<v, w>> \in Earlier)
<1>1. FrameTypeOK /\ WritersOK /\ TurnsOK /\ w \in Writers
  BY DEF FrameInv, FrameTypeOK
<1>2. unit = "chunk" \/ unit = "frame"
  BY <1>1, UnitsAssumption DEF FrameTypeOK
<1>3. ASSUME unit = "chunk" PROVE v \notin running /\ task[w] = "writing"
  BY <1>1, <1>3 DEF WritersOK, WriterOK, ChunksOK
<1>4. unit = "chunk" => task[v] \in {"done", "failed"}
  BY <1>3, WriterIs
<1>. QED  BY <1>1, <1>2, <1>3, <1>4, WriterIs DEF TurnsOK

-----------------------------------------------------------------------------
\* What is on its way, when w puts its next chunk at its end.
LEMMA PutKeepsOnce ==
    ASSUME NEW s \in Seq(AnyChunk), NEW out \in [Writers -> Nat], NEW w \in Writers,
           OnceOK(s, out)
    PROVE  OnceOK(Append(s, ChunkOf(w, out[w] + 1)), [out EXCEPT ![w] = @ + 1])
<1>. DEFINE n == Len(s)  c == ChunkOf(w, out[w] + 1)  t == Append(s, c)
            more == [out EXCEPT ![w] = @ + 1]
<1>1. /\ n \in Nat /\ Len(t) = n + 1 /\ t[n + 1] = c
      /\ \A k \in 1..n : t[k] = s[k] /\ s[k] \in AnyChunk
      /\ \A k \in 1..Len(t) : k \in 1..n \/ k = n + 1
      /\ c.frame = w /\ c.part = out[w] + 1
  <2>1. \A S : \A q \in Seq(S), e \in S :
          LET a == Append(q, e) IN
          /\ Len(q) \in Nat /\ Len(a) = Len(q) + 1 /\ a[Len(q) + 1] = e
          /\ \A k \in 1..Len(q) : a[k] = q[k] /\ q[k] \in S
          /\ \A k \in 1..Len(a) : k \in 1..Len(q) \/ k = Len(q) + 1
    OBVIOUS
  <2>2. c \in AnyChunk /\ c.frame = w /\ c.part = out[w] + 1
    BY DEF ChunkOf, AnyChunk
  <2>. HIDE DEF c
  <2>. QED  BY <2>1, <2>2
<1>2. /\ \A v \in Writers : more[v] \in Nat /\ out[v] \in Nat /\ out[v] <= more[v]
      /\ more[w] = out[w] + 1
  OBVIOUS
<1>3. /\ \A k \in 1..n : 1 <= s[k].part /\ s[k].part <= out[s[k].frame]
      /\ \A k, l \in 1..n : s[k] = s[l] => k = l
      /\ \A k \in 1..n : s[k].frame \in Writers /\ s[k].part \in Nat
  BY <1>1 DEF OnceOK, AnyChunk
<1>. HIDE DEF n, c, t, more
<1>4. ASSUME NEW k \in 1..n PROVE s[k] # c /\ 1 <= s[k].part /\ s[k].part <= more[s[k].frame]
  <2>1. s[k].frame \in Writers /\ s[k].part \in Nat /\ 1 <= s[k].part /\ s[k].part <= out[s[k].frame]
    BY <1>3
  <2>2. out[s[k].frame] \in Nat /\ more[s[k].frame] \in Nat /\ out[s[k].frame] <= more[s[k].frame]
    BY <2>1, <1>2
  <2>3. ASSUME s[k] = c PROVE FALSE
    <3>1. out[w] + 1 <= out[w]
      BY <2>1, <2>3, <1>1
    <3>. QED  BY <3>1, <1>2
  <2>. QED  BY <2>1, <2>2, <2>3
<1>5. 1 <= c.part /\ c.part <= more[c.frame]
  BY <1>1, <1>2
<1>6. \A k \in 1..Len(t) : 1 <= t[k].part /\ t[k].part <= more[t[k].frame]
  BY <1>1, <1>4, <1>5
<1>7. \A k, l \in 1..Len(t) : t[k] = t[l] => k = l
  BY <1>1, <1>3, <1>4
<1>. QED  BY <1>6, <1>7 DEF OnceOK, t, more, c

LEMMA PutKeepsStream ==
    ASSUME NEW s \in Seq(AnyChunk), NEW out \in [Writers -> Nat], NEW size \in [Writers -> Nat],
           NEW w \in Writers, out[w] < size[w],
           \A v \in Writers \ {w} : 0 < out[v] => out[v] = size[v],
           OnceOK(s, out), StreamOK(s, out, size)
    PROVE  StreamOK(Append(s, ChunkOf(w, out[w] + 1)), [out EXCEPT ![w] = @ + 1], size)
<1>. DEFINE n == Len(s)  c == ChunkOf(w, out[w] + 1)  t == Append(s, c)
            more == [out EXCEPT ![w] = @ + 1]
<1>1. /\ n \in Nat /\ Len(t) = n + 1 /\ t[n + 1] = c
      /\ \A k \in 1..n : t[k] = s[k] /\ s[k] \in AnyChunk
      /\ \A k \in 1..Len(t) : k \in 1..n \/ k = n + 1
      /\ c.frame = w /\ c.part = out[w] + 1
  <2>1. \A S : \A q \in Seq(S), e \in S :
          LET a == Append(q, e) IN
          /\ Len(q) \in Nat /\ Len(a) = Len(q) + 1 /\ a[Len(q) + 1] = e
          /\ \A k \in 1..Len(q) : a[k] = q[k] /\ q[k] \in S
          /\ \A k \in 1..Len(a) : k \in 1..Len(q) \/ k = Len(q) + 1
    OBVIOUS
  <2>2. c \in AnyChunk /\ c.frame = w /\ c.part = out[w] + 1
    BY DEF ChunkOf, AnyChunk
  <2>. HIDE DEF c
  <2>. QED  BY <2>1, <2>2
<1>2. /\ \A v \in Writers : out[v] \in Nat /\ size[v] \in Nat
      /\ \A v \in Writers \ {w} : more[v] = out[v]
      /\ more[w] = out[w] + 1
  OBVIOUS
<1>3. /\ \A k \in 1..n : s[k].frame \in Writers /\ s[k].part \in Nat
      /\ \A k \in 1..n : 1 <= s[k].part /\ s[k].part <= out[s[k].frame]
      /\ n > 0 => s[1].part = 1
      /\ \A k, l \in 1..n : l = k + 1 =>
            s[l] = IF s[k].part < size[s[k].frame] THEN ChunkOf(s[k].frame, s[k].part + 1)
                   ELSE ChunkOf(s[l].frame, 1)
      /\ \A v \in Writers : 0 < out[v] /\ out[v] < size[v] => n > 0 /\ s[n] = ChunkOf(v, out[v])
      /\ n > 0 => s[n].part = out[s[n].frame]
  <2>1. \A k \in 1..n : s[k].frame \in Writers /\ s[k].part \in Nat
    BY <1>1 DEF AnyChunk
  <2>. QED  BY <2>1, Zenon DEF OnceOK, StreamOK
<1>. HIDE DEF n, c, t, more
<1>4. Len(t) > 0 /\ t[1].part = 1 /\ t[Len(t)].part = more[t[Len(t)].frame]
  <2>1. Len(t) > 0 /\ t[Len(t)].part = more[t[Len(t)].frame]
    BY <1>1, <1>2
  <2>2. ASSUME n > 0 PROVE t[1].part = 1
    <3>1. 1 \in 1..n
      BY <2>2, <1>1
    <3>. QED  BY <3>1, <2>2, <1>1, <1>3
  <2>3. ASSUME n = 0 PROVE t[1].part = 1
    <3>1. ~(0 < out[w])
      BY <2>3, <1>3
    <3>. QED  BY <3>1, <2>3, <1>1, <1>2
  <2>. QED  BY <2>1, <2>2, <2>3, <1>1
<1>5. ASSUME NEW k \in 1..Len(t), NEW l \in 1..Len(t), l = k + 1
      PROVE  t[l] = IF t[k].part < size[t[k].frame] THEN ChunkOf(t[k].frame, t[k].part + 1)
                    ELSE ChunkOf(t[l].frame, 1)
  <2>1. CASE l \in 1..n
    <3>1. k \in 1..n
      BY <2>1, <1>5, <1>1
    <3>2. s[l] = IF s[k].part < size[s[k].frame] THEN ChunkOf(s[k].frame, s[k].part + 1)
                 ELSE ChunkOf(s[l].frame, 1)
      BY <2>1, <3>1, <1>5, <1>3
    <3>3. t[k] = s[k] /\ t[l] = s[l]
      BY <2>1, <3>1, <1>1
    <3>. QED  BY <3>2, <3>3
  <2>2. CASE l = n + 1
    <3>1. k = n /\ n \in 1..n /\ n > 0
      BY <2>2, <1>5, <1>1
    <3>2. s[n].frame \in Writers /\ s[n].part = out[s[n].frame] /\ 1 <= s[n].part /\ s[n].part \in Nat
      BY <3>1, <1>3
    <3>3. CASE 0 < out[w]
      <4>1. s[n] = ChunkOf(w, out[w])
        BY <3>3, <1>3
      <4>2. s[n].frame = w /\ s[n].part = out[w]
        BY <4>1 DEF ChunkOf
      <4>. QED  BY <2>2, <3>1, <4>2, <1>1 DEF c
    <3>4. CASE ~(0 < out[w])
      <4>1. out[w] = 0
        BY <3>4, <1>2
      <4>2. s[n].frame # w /\ 0 < out[s[n].frame]
        BY <3>2, <4>1
      <4>3. out[s[n].frame] = size[s[n].frame]
        BY <3>2, <4>2
      <4>4. ~(s[n].part < size[s[n].frame])
        BY <3>2, <4>3
      <4>5. c = ChunkOf(c.frame, 1)
        BY <4>1, <1>1 DEF c
      <4>. QED  BY <2>2, <3>1, <4>4, <4>5, <1>1
    <3>. QED  BY <3>3, <3>4
  <2>. QED  BY <2>1, <2>2, <1>1
<1>6. ASSUME NEW v \in Writers, 0 < more[v], more[v] < size[v]
      PROVE  t[Len(t)] = ChunkOf(v, more[v])
  <2>1. CASE v = w
    BY <2>1, <1>1, <1>2 DEF c
  <2>2. CASE v # w
    <3>1. out[v] = size[v] /\ out[v] < size[v]
      BY <2>2, <1>6, <1>2
    <3>. QED  BY <3>1, <1>2
  <2>. QED  BY <2>1, <2>2
<1>7. \A k, l \in 1..Len(t) : l = k + 1 =>
        t[l] = IF t[k].part < size[t[k].frame] THEN ChunkOf(t[k].frame, t[k].part + 1)
               ELSE ChunkOf(t[l].frame, 1)
  BY <1>5
<1>8. StreamOK(t, more, size)
  BY <1>4, <1>6, <1>7 DEF StreamOK
<1>. QED  BY <1>8 DEF t, more, c

\* And when w will put nothing more.
LEMMA LowerGoal ==
    ASSUME NEW s \in Seq(AnyChunk), NEW out \in [Writers -> Nat], NEW size \in [Writers -> Nat],
           NEW w \in Writers, out[w] <= size[w], OnceOK(s, out), StreamOK(s, out, size)
    PROVE  StreamOK(s, out, [size EXCEPT ![w] = out[w]])
<1>. DEFINE n == Len(s)  low == [size EXCEPT ![w] = out[w]]
<1>1. /\ \A v \in Writers : out[v] \in Nat /\ size[v] \in Nat /\ low[v] <= size[v]
      /\ \A v \in Writers \ {w} : low[v] = size[v]
      /\ low[w] = out[w]
  OBVIOUS
<1>2. \A k \in 1..n : s[k].frame \in Writers /\ s[k].part \in Nat
  <2>1. \A k \in 1..n : s[k] \in AnyChunk
    OBVIOUS
  <2>2. \A c \in AnyChunk : c.frame \in Writers /\ c.part \in Nat
    BY DEF AnyChunk
  <2>. QED  BY <2>1, <2>2
<1>3. /\ \A k \in 1..n : 1 <= s[k].part /\ s[k].part <= out[s[k].frame]
      /\ \A k, l \in 1..n : l = k + 1 =>
            s[l] = IF s[k].part < size[s[k].frame] THEN ChunkOf(s[k].frame, s[k].part + 1)
                   ELSE ChunkOf(s[l].frame, 1)
      /\ \A v \in Writers : 0 < out[v] /\ out[v] < size[v] => n > 0 /\ s[n] = ChunkOf(v, out[v])
  BY Zenon DEF OnceOK, StreamOK
<1>. HIDE DEF n, low
<1>4. ASSUME NEW k \in 1..n, NEW l \in 1..n, l = k + 1
      PROVE  s[l] = IF s[k].part < low[s[k].frame] THEN ChunkOf(s[k].frame, s[k].part + 1)
                    ELSE ChunkOf(s[l].frame, 1)
  <2>1. CASE s[k].frame # w
    BY <2>1, <1>1, <1>2, <1>3, <1>4
  <2>2. CASE s[k].frame = w
    <3>1. s[k].part \in Nat /\ s[k].part <= out[w] /\ out[w] \in Nat /\ size[w] \in Nat
      BY <2>2, <1>1, <1>2, <1>3
    <3>2. CASE s[k].part < out[w]
      BY <2>2, <3>1, <3>2, <1>1, <1>3, <1>4
    <3>3. CASE s[k].part = out[w] /\ out[w] < size[w]
      <4>1. s[l] = ChunkOf(w, out[w] + 1)
        BY <2>2, <3>3, <1>3, <1>4
      <4>2. s[l].frame = w /\ s[l].part = out[w] + 1
        BY <4>1 DEF ChunkOf
      <4>3. out[w] + 1 <= out[w]
        BY <4>2, <1>3
      <4>. QED  BY <4>3, <3>1
    <3>4. CASE s[k].part = out[w] /\ ~(out[w] < size[w])
      BY <2>2, <3>1, <3>4, <1>1, <1>3, <1>4
    <3>. QED  BY <3>1, <3>2, <3>3, <3>4
  <2>. QED  BY <2>1, <2>2
<1>5. ASSUME NEW v \in Writers, 0 < out[v], out[v] < low[v] PROVE n > 0 /\ s[n] = ChunkOf(v, out[v])
  <2>1. v # w
    BY <1>5, <1>1
  <2>. QED  BY <2>1, <1>1, <1>3, <1>5
<1>6. \A k, l \in 1..n : l = k + 1 =>
        s[l] = IF s[k].part < low[s[k].frame] THEN ChunkOf(s[k].frame, s[k].part + 1)
               ELSE ChunkOf(s[l].frame, 1)
  BY <1>4
<1>. QED  BY <1>5, <1>6 DEF StreamOK, n, low

\* And when FrameDecoder returns the frame in front of r.
LEMMA CutKeepsOnce ==
    ASSUME NEW s, NEW r, NEW m \in Nat, NEW out, Len(r) \in Nat,
           \A k \in 1..Len(r) : m + k \in 1..Len(s) /\ r[k] = s[m + k],
           OnceOK(s, out)
    PROVE  OnceOK(r, out)
<1>1. ASSUME NEW k \in 1..Len(r), NEW l \in 1..Len(r), r[k] = r[l] PROVE k = l
  <2>1. m + k \in 1..Len(s) /\ m + l \in 1..Len(s) /\ s[m + k] = s[m + l]
    BY <1>1
  <2>2. m + k = m + l
    BY <2>1 DEF OnceOK
  <2>. QED  BY <2>2
<1>2. \A k \in 1..Len(r) : 1 <= r[k].part /\ r[k].part <= out[r[k].frame]
  BY DEF OnceOK
<1>. QED  BY <1>1, <1>2 DEF OnceOK

LEMMA CutKeepsStream ==
    ASSUME NEW s, NEW r, NEW m \in Nat \ {0}, NEW out \in [Writers -> Nat],
           NEW size \in [Writers -> Nat], NEW f \in Writers,
           Len(r) \in Nat, Len(s) = m + Len(r),
           \A k \in 1..Len(r) : m + k \in 1..Len(s) /\ r[k] = s[m + k],
           m = size[f], s[m] = ChunkOf(f, m), StreamOK(s, out, size)
    PROVE  StreamOK(r, out, size)
<1>. DEFINE n == Len(r)  N == Len(s)
<1>1. /\ n \in Nat /\ N = m + n /\ N > 0 /\ m \in 1..N /\ N \in 1..N
      /\ s[m].frame = f /\ s[m].part = m
      /\ n > 0 => 1 \in 1..n /\ n \in 1..n /\ r[1] = s[m + 1] /\ m + 1 \in 1..N /\ r[n] = s[N]
  BY DEF ChunkOf
<1>2. \A k \in 1..n : m + k \in 1..N /\ r[k] = s[m + k]
  OBVIOUS
<1>3. /\ \A k, l \in 1..N : l = k + 1 =>
            s[l] = IF s[k].part < size[s[k].frame] THEN ChunkOf(s[k].frame, s[k].part + 1)
                   ELSE ChunkOf(s[l].frame, 1)
      /\ \A v \in Writers : 0 < out[v] /\ out[v] < size[v] => N > 0 /\ s[N] = ChunkOf(v, out[v])
      /\ N > 0 => s[N].part = out[s[N].frame]
  BY Zenon DEF StreamOK
<1>. HIDE DEF n, N
<1>4. n > 0 => r[1].part = 1 /\ r[n].part = out[r[n].frame]
  <2>. SUFFICES ASSUME n > 0 PROVE r[1].part = 1 /\ r[n].part = out[r[n].frame]
    OBVIOUS
  <2>1. ~(s[m].part < size[s[m].frame])
    BY <1>1
  <2>2. s[m + 1] = ChunkOf(s[m + 1].frame, 1)
    BY <2>1, <1>1, <1>3
  <2>3. s[m + 1].part = 1
    BY <2>2 DEF ChunkOf
  <2>. QED  BY <2>3, <1>1, <1>3
<1>5. ASSUME NEW k \in 1..n, NEW l \in 1..n, l = k + 1
      PROVE  r[l] = IF r[k].part < size[r[k].frame] THEN ChunkOf(r[k].frame, r[k].part + 1)
                    ELSE ChunkOf(r[l].frame, 1)
  <2>1. m + l = (m + k) + 1
    BY <1>1, <1>5
  <2>2. m + k \in 1..N /\ m + l \in 1..N /\ r[k] = s[m + k] /\ r[l] = s[m + l]
    BY <1>2
  <2>3. s[m + l] = IF s[m + k].part < size[s[m + k].frame]
                   THEN ChunkOf(s[m + k].frame, s[m + k].part + 1)
                   ELSE ChunkOf(s[m + l].frame, 1)
    BY <2>1, <2>2, <1>3
  <2>. QED  BY <2>2, <2>3
<1>6. ASSUME NEW v \in Writers, 0 < out[v], out[v] < size[v] PROVE n > 0 /\ r[n] = ChunkOf(v, out[v])
  <2>1. s[N] = ChunkOf(v, out[v])
    BY <1>6, <1>3
  <2>2. s[N].frame = v /\ s[N].part = out[v]
    BY <2>1 DEF ChunkOf
  <2>3. N # m
    <3>. SUFFICES ASSUME N = m PROVE FALSE
      OBVIOUS
    <3>1. v = f /\ out[f] = m
      BY <2>2, <1>1
    <3>. QED  BY <3>1, <1>6
  <2>4. n > 0
    BY <2>3, <1>1
  <2>. QED  BY <2>1, <2>4, <1>1
<1>7. \A k, l \in 1..n : l = k + 1 =>
        r[l] = IF r[k].part < size[r[k].frame] THEN ChunkOf(r[k].frame, r[k].part + 1)
               ELSE ChunkOf(r[l].frame, 1)
  BY <1>5
<1>. QED  BY <1>4, <1>6, <1>7 DEF StreamOK, n

-----------------------------------------------------------------------------
\* The frames that were returned, when more is written or given up.
LEMMA FramesKept ==
    ASSUME FrameInv, UNCHANGED <<unit, frames, badMagic>>, Torn \subseteq Torn',
           \A v \in Writers : 0 < written[v] => 0 < written'[v],
           \A i \in 1..Len(frames), k \in 1..Len(Sent') : Sent'[k] # ChunkOf(FrameOf[i], 1)
    PROVE  FramesOK' /\ (Intact' => Intact)
<1>1. FrameOf' = FrameOf /\ Size' = Size /\ frames' = frames /\ (badMagic' <=> badMagic)
  BY DEF FrameOf, Size
<1>2. Intact' => Intact
  BY <1>1 DEF Intact
<1>3. /\ badMagic => ~Intact
      /\ \A i \in 1..Len(frames) :
          \/ frames[i] = [j \in 1..Size[FrameOf[i]] |-> ChunkOf(FrameOf[i], j)]
          \/ \E j \in 1..i : FrameOf[j] \in Torn
      /\ \A i \in 1..Len(frames) : FrameOf[i] \in Writers /\ 0 < written[FrameOf[i]]
      /\ \A i, j \in 1..Len(frames) : FrameOf[i] = FrameOf[j] => i = j
  BY DEF FrameInv, FramesOK
<1>4. FramesOK'
  <2>1. badMagic' => ~Intact'
    BY <1>1, <1>2, <1>3
  <2>2. \A i \in 1..Len(frames') :
          \/ frames'[i] = [j \in 1..Size'[FrameOf'[i]] |-> ChunkOf(FrameOf'[i], j)]
          \/ \E j \in 1..i : FrameOf'[j] \in Torn'
    BY <1>1, <1>3
  <2>3. \A i \in 1..Len(frames') : FrameOf'[i] \in Writers /\ 0 < written'[FrameOf'[i]]
    BY <1>1, <1>3
  <2>4. \A i \in 1..Len(frames'), k \in 1..Len(Sent') : Sent'[k] # ChunkOf(FrameOf'[i], 1)
    BY <1>1
  <2>5. \A i, j \in 1..Len(frames') : FrameOf'[i] = FrameOf'[j] => i = j
    BY <1>1, <1>3
  <2>. QED  BY <2>1, <2>2, <2>3, <2>4, <2>5 DEF FramesOK
<1>. QED  BY <1>2, <1>4

\* A step that puts the next chunk of w on the channel.
Puts(w) ==
    /\ w \in running /\ staged[w]
    /\ written' = [written EXCEPT ![w] = @ + 1]
    /\ channel' = Append(channel, IF Shared THEN buffer ELSE ChunkOf(w, written[w] + 1))
    /\ UNCHANGED <<unit, buffer, decoder, asked>>

LEMMA PutsIs ==
    ASSUME FrameInv, NEW w \in Writers, Puts(w)
    PROVE  /\ written[w] \in Nat /\ written[w] < Size[w] /\ Size[w] \in Nat \ {0}
           /\ w \notin Torn /\ Goal[w] = Size[w]
           /\ channel' \in Seq(AnyChunk)
           /\ Sent' = Append(Sent, ChunkOf(w, written[w] + 1)) /\ Sent' \in Seq(AnyChunk)
           /\ Size' = Size /\ Earlier' = Earlier /\ FrameOf' = FrameOf
           /\ written' \in [Writers -> Nat]
           /\ \A v \in Writers : 0 < written[v] => 0 < written'[v]
<1>0. /\ FrameTypeOK /\ WritersOK /\ w \in running /\ staged[w]
      /\ written' = [written EXCEPT ![w] = @ + 1]
      /\ UNCHANGED <<unit, buffer, partial, frames, badMagic, asked>>
  BY DEF FrameInv, Puts, decoder
<1>1. written[w] \in Nat /\ written[w] < Size[w] /\ Size[w] \in Nat \ {0}
  BY <1>0, SizeIs DEF WritersOK, WriterOK, FrameTypeOK
<1>2. w \notin Torn /\ Goal[w] = Size[w]
  BY <1>0 DEF Torn, Goal
<1>3. channel' = Append(channel, ChunkOf(w, written[w] + 1))
  BY <1>0 DEF Puts, Shared, WritersOK, ChunksOK
<1>4. /\ ChunkOf(w, written[w] + 1) \in AnyChunk
      /\ partial \in Seq(AnyChunk) /\ channel \in Seq(AnyChunk)
  BY <1>0, <1>1 DEF ChunkOf, AnyChunk, FrameTypeOK
<1>5. \A S : \A p, q \in Seq(S), e \in S :
        /\ p \o Append(q, e) = Append(p \o q, e)
        /\ Append(q, e) \in Seq(S) /\ Append(p \o q, e) \in Seq(S)
  OBVIOUS
<1>6. Sent' = Append(Sent, ChunkOf(w, written[w] + 1)) /\ Sent' \in Seq(AnyChunk)
      /\ channel' \in Seq(AnyChunk)
  <2>1. Sent' = partial \o channel'
    BY <1>0 DEF Sent
  <2>. QED  BY <2>1, <1>3, <1>4, <1>5 DEF Sent
<1>7. Size' = Size /\ Earlier' = Earlier /\ FrameOf' = FrameOf
  BY <1>0 DEF Size, Earlier, FrameOf
<1>8. written' \in [Writers -> Nat] /\ \A v \in Writers : 0 < written[v] => 0 < written'[v]
  BY <1>0, <1>1 DEF FrameTypeOK
<1>. QED  BY <1>1, <1>2, <1>6, <1>7, <1>8

LEMMA PutKeepsFrames ==
    ASSUME FrameInv, NEW w \in Writers, Puts(w), Torn \subseteq Torn'
    PROVE  FramesOK' /\ (Intact' => Intact) /\ InOrder'
<1>. DEFINE s == Sent  n == Len(s)  c == ChunkOf(w, written[w] + 1)  t == Sent'
<1>1. /\ FrameTypeOK /\ w \in running /\ UNCHANGED <<unit, frames, badMagic, asked>>
      /\ written[w] \in Nat /\ written[w] < Size[w]
      /\ Earlier' = Earlier /\ FrameOf' = FrameOf
      /\ s \in Seq(AnyChunk) /\ c \in AnyChunk /\ c.frame = w /\ t = Append(s, c)
      /\ c.part = written[w] + 1
      /\ \A v \in Writers : 0 < written[v] => 0 < written'[v]
  BY PutsIs, SentIs DEF FrameInv, Puts, decoder, ChunkOf, AnyChunk
<1>2. /\ n \in Nat /\ Len(t) = n + 1 /\ t[n + 1] = c
      /\ \A k \in 1..n : t[k] = s[k] /\ s[k] \in AnyChunk
      /\ \A k \in 1..Len(t) : k \in 1..n \/ k = n + 1
  <2>1. \A S : \A q \in Seq(S), e \in S :
          LET a == Append(q, e) IN
          /\ Len(q) \in Nat /\ Len(a) = Len(q) + 1 /\ a[Len(q) + 1] = e
          /\ \A k \in 1..Len(q) : a[k] = q[k] /\ q[k] \in S
          /\ \A k \in 1..Len(a) : k \in 1..Len(q) \/ k = Len(q) + 1
    OBVIOUS
  <2>. HIDE DEF c, s, t
  <2>. QED  BY <2>1, <1>1 DEF n
<1>3. /\ \A i \in 1..Len(frames) : FrameOf[i] \in Writers /\ 0 < written[FrameOf[i]]
      /\ \A i \in 1..Len(frames), k \in 1..n : s[k] # ChunkOf(FrameOf[i], 1)
  BY DEF FrameInv, FramesOK
<1>4. /\ unit = "chunk" =>
        /\ \A i, j \in 1..Len(frames) : i < j => <<FrameOf[i], FrameOf[j]>> \in Earlier
        /\ \A i \in 1..Len(frames), k \in 1..n :
            FrameOf[i] = s[k].frame \/ <<FrameOf[i], s[k].frame>> \in Earlier
        /\ \A k, l \in 1..n : k < l => s[k].frame = s[l].frame \/ <<s[k].frame, s[l].frame>> \in Earlier
  BY DEF FrameInv, InOrder
<1>5. \A k \in 1..n : 1 <= s[k].part /\ s[k].part <= written[s[k].frame]
  BY DEF FrameInv, SentOK, OnceOK
<1>. HIDE DEF s, n, c, t
<1>6. \A i \in 1..Len(frames), k \in 1..Len(t) : t[k] # ChunkOf(FrameOf[i], 1)
  <2>1. ASSUME NEW i \in 1..Len(frames), c = ChunkOf(FrameOf[i], 1) PROVE FALSE
    <3>1. FrameOf[i] = w /\ written[w] + 1 = 1
      BY <2>1, <1>1 DEF ChunkOf
    <3>. QED  BY <3>1, <1>1, <1>3
  <2>. QED  BY <2>1, <1>2, <1>3
<1>7. FramesOK' /\ (Intact' => Intact)
  BY <1>1, <1>6, FramesKept DEF t
<1>8. \A v \in Writers \ {w} : 0 < written[v] => (unit = "chunk" => <<v, w>> \in Earlier)
  BY <1>1, OthersDone
<1>9. ASSUME NEW k \in 1..n PROVE s[k].frame \in Writers /\ 0 < written[s[k].frame]
  <2>1. s[k].frame \in Writers /\ s[k].part \in Nat
    BY <1>2 DEF AnyChunk
  <2>2. written[s[k].frame] \in Nat
    BY <2>1, <1>1 DEF FrameTypeOK
  <2>. QED  BY <2>1, <2>2, <1>5
<1>10. InOrder'
  <2>. SUFFICES ASSUME unit = "chunk"
                PROVE  /\ \A i, j \in 1..Len(frames) : i < j => <<FrameOf[i], FrameOf[j]>> \in Earlier
                       /\ \A i \in 1..Len(frames), k \in 1..Len(t) :
                            FrameOf[i] = t[k].frame \/ <<FrameOf[i], t[k].frame>> \in Earlier
                       /\ \A k, l \in 1..Len(t) : k < l =>
                            t[k].frame = t[l].frame \/ <<t[k].frame, t[l].frame>> \in Earlier
    BY <1>1 DEF InOrder, t
  <2>1. \A i \in 1..Len(frames), k \in 1..Len(t) :
          FrameOf[i] = t[k].frame \/ <<FrameOf[i], t[k].frame>> \in Earlier
    BY <1>1, <1>2, <1>3, <1>4, <1>8
  <2>2. ASSUME NEW k \in 1..Len(t), NEW l \in 1..Len(t), k < l
        PROVE  t[k].frame = t[l].frame \/ <<t[k].frame, t[l].frame>> \in Earlier
    <3>1. k \in 1..n
      BY <2>2, <1>2
    <3>2. CASE l \in 1..n
      BY <3>1, <3>2, <2>2, <1>2, <1>4
    <3>3. CASE l = n + 1
      <4>1. t[l].frame = w /\ t[k].frame = s[k].frame
        BY <3>1, <3>3, <1>1, <1>2
      <4>. QED  BY <4>1, <3>1, <1>8, <1>9
    <3>. QED  BY <3>2, <3>3, <1>2
  <2>. QED  BY <2>1, <2>2, <1>4
<1>. QED  BY <1>7, <1>10

\* The stream and what FrameDecoder holds of it, with the goals as they were.
LEMMA PutKeepsSent ==
    ASSUME FrameInv, NEW w \in Writers, Puts(w)
    PROVE  /\ OnceOK(Sent', written')
           /\ Intact => StreamOK(Sent', written', Goal)
           /\ Intact => BeginningOK(partial', Goal)
<1>1. /\ written \in [Writers -> Nat] /\ Goal \in [Writers -> Nat] /\ w \in running
      /\ written[w] < Goal[w] /\ written[w] < Size[w]
      /\ Sent \in Seq(AnyChunk) /\ Sent' = Append(Sent, ChunkOf(w, written[w] + 1))
      /\ written' = [written EXCEPT ![w] = @ + 1] /\ partial' = partial
  BY PutsIs, SentIs, GoalIs DEF FrameInv, FrameTypeOK, Puts, decoder
<1>2. \A v \in Writers \ {w} : 0 < written[v] => written[v] = Goal[v]
  BY <1>1, OthersDone
<1>3. OnceOK(Sent, written) /\ (Intact => StreamOK(Sent, written, Goal))
      /\ (Intact => BeginningOK(partial, Goal))
  BY DEF FrameInv, SentOK, PartialOK
<1>4. OnceOK(Append(Sent, ChunkOf(w, written[w] + 1)), [written EXCEPT ![w] = @ + 1])
  BY <1>1, <1>3, PutKeepsOnce
<1>5. Intact => StreamOK(Append(Sent, ChunkOf(w, written[w] + 1)), [written EXCEPT ![w] = @ + 1], Goal)
  BY <1>1, <1>2, <1>3, PutKeepsStream
<1>6. OnceOK(Sent', written') /\ (Intact => StreamOK(Sent', written', Goal))
  <2>. DEFINE t == Append(Sent, ChunkOf(w, written[w] + 1))
              more == [written EXCEPT ![w] = @ + 1]
  <2>1. Sent' = t /\ written' = more /\ OnceOK(t, more) /\ (Intact => StreamOK(t, more, Goal))
    BY <1>1, <1>4, <1>5
  <2>. HIDE DEF t, more
  <2>. QED  BY <2>1, Zenon
<1>. QED  BY <1>1, <1>3, <1>6

LEMMA PutChunkOK == ASSUME FrameInv, NEW w \in Writers, PutChunk(w) PROVE FrameInv'
<1>0. /\ FrameTypeOK /\ WritersOK /\ AskedOK /\ TurnsOK
      /\ w \in running /\ staged[w]
      /\ staged' = [staged EXCEPT ![w] = FALSE]
      /\ written' = [written EXCEPT ![w] = @ + 1]
      /\ UNCHANGED <<unit, task, holder, running, buffer, short, partial, frames, badMagic, asked>>
      /\ Puts(w)
  BY DEF FrameInv, PutChunk, Puts, decoder
<1>1. /\ written[w] \in Nat /\ written[w] < Size[w] /\ Size[w] \in Nat \ {0}
      /\ channel' \in Seq(AnyChunk) /\ Size' = Size /\ Earlier' = Earlier
  BY <1>0, PutsIs
<1>4. /\ written' \in [Writers -> Nat] /\ written'[w] = written[w] + 1
      /\ staged' \in [Writers -> BOOLEAN] /\ ~staged'[w]
      /\ \A v \in Writers \ {w} : written'[v] = written[v] /\ (staged'[v] <=> staged[v])
  BY <1>0, <1>1 DEF FrameTypeOK
<1>5. FrameTypeOK'
  BY <1>0, <1>1, <1>4 DEF FrameTypeOK
<1>6. WritersOK'
  <2>1. ASSUME NEW v \in Writers PROVE WriterOK(v)'
    <3>1. CASE v = w
      BY <3>1, <1>0, <1>1, <1>4 DEF WritersOK, WriterOK
    <3>2. CASE v # w
      BY <3>2, <1>0, <1>1, <1>4 DEF WritersOK, WriterOK
    <3>. QED  BY <3>1, <3>2
  <2>2. ASSUME NEW v \in Writers PROVE ChunksOK(v)'
    <3>1. CASE v = w
      BY <3>1, <1>0, <1>4 DEF WritersOK, WriterOK, ChunksOK
    <3>2. CASE v # w
      BY <3>2, <1>0, <1>4 DEF WritersOK, ChunksOK
    <3>. QED  BY <3>1, <3>2
  <2>. QED  BY <2>1, <2>2, <1>0 DEF WritersOK
<1>7. AskedOK' /\ TurnsOK'
  BY <1>0, <1>1 DEF AskedOK, TurnsOK
<1>8. Torn' = Torn
  <2>1. \A v \in Writers \ running : written'[v] = written[v]
    BY <1>0, <1>4
  <2>. QED  BY <2>1, <1>0, <1>1 DEF Torn
<1>9. Goal' = Goal
  <2>1. \A v \in Writers : v \in Torn => written'[v] = written[v]
    BY <1>0, <1>4 DEF Torn
  <2>. QED  BY <2>1, <1>1, <1>8 DEF Goal
<1>10. SentOK' /\ PartialOK' /\ FramesOK' /\ InOrder'
  <2>1. FramesOK' /\ (Intact' => Intact) /\ InOrder'
    BY <1>0, <1>8, PutKeepsFrames
  <2>2. /\ OnceOK(Sent', written')
        /\ Intact => StreamOK(Sent', written', Goal)
        /\ Intact => BeginningOK(partial', Goal)
    BY <1>0, PutKeepsSent
  <2>. QED  BY <2>1, <2>2, <1>9, Zenon DEF SentOK, PartialOK
<1>. QED  BY <1>5, <1>6, <1>7, <1>10 DEF FrameInv

\* A write fails: w lowers its goal to what it has written.
LEMMA WriteFailsOK == ASSUME FrameInv, NEW w \in Writers, WriteFails(w) PROVE FrameInv'
<1>0. /\ FrameTypeOK /\ WritersOK /\ AskedOK /\ TurnsOK
      /\ w \in running /\ staged[w]
      /\ staged' = [staged EXCEPT ![w] = FALSE]
      /\ running' = running \ {w}
      /\ task' = [task EXCEPT ![w] = IF @ = "writing" THEN "failed" ELSE @]
      /\ holder' = IF holder = w THEN None ELSE holder
      /\ \/ UNCHANGED <<written, channel, short>>
         \/ Shared /\ Puts(w) /\ short' = short \cup {w}
      /\ UNCHANGED <<unit, buffer, partial, frames, badMagic, asked>>
  BY DEF FrameInv, WriteFails, Puts, decoder
<1>1. /\ Size' = Size /\ Earlier' = Earlier /\ FrameOf' = FrameOf /\ Size \in [Writers -> Nat \ {0}]
      /\ written[w] \in Nat /\ written[w] < Size[w]
  BY <1>0, SizeIs DEF Size, Earlier, FrameOf, WritersOK, WriterOK, FrameTypeOK
<1>2. /\ task' \in [Writers -> Tasks]
      /\ task'[w] = IF task[w] = "writing" THEN "failed" ELSE "cancelled"
      /\ \A v \in Writers \ {w} : task'[v] = task[v]
      /\ staged' \in [Writers -> BOOLEAN] /\ ~staged'[w]
      /\ \A v \in Writers \ {w} : staged'[v] <=> staged[v]
  BY <1>0 DEF FrameTypeOK, Tasks, WritersOK, WriterOK
<1>3. /\ written' \in [Writers -> Nat] /\ written'[w] \in Nat
      /\ \A v \in Writers \ {w} : written'[v] = written[v]
      /\ written[w] <= written'[w] /\ written'[w] <= Size[w]
      /\ channel' \in Seq(AnyChunk)
      /\ \A v \in Writers : 0 < written[v] => 0 < written'[v]
      /\ short \subseteq short' /\ short' \subseteq short \cup {w} /\ short' \subseteq Writers
      /\ w \in short' => 0 < written'[w]
      /\ unit = "frame" => short' = short
  <2>0. written \in [Writers -> Nat] /\ w \notin short /\ short \subseteq Writers
        /\ channel \in Seq(AnyChunk)
    BY <1>0 DEF FrameTypeOK, WritersOK, WriterOK
  <2>1. CASE UNCHANGED <<written, channel, short>>
    BY <2>0, <2>1, <1>1
  <2>2. CASE Shared /\ Puts(w) /\ short' = short \cup {w}
    <3>1. written' = [written EXCEPT ![w] = @ + 1] /\ unit = "chunk"
      BY <2>2 DEF Puts, Shared
    <3>2. channel' \in Seq(AnyChunk)
      BY <2>2, PutsIs
    <3>3. /\ written' \in [Writers -> Nat] /\ written'[w] = written[w] + 1
          /\ \A v \in Writers \ {w} : written'[v] = written[v]
      BY <3>1, <2>0
    <3>. QED  BY <3>1, <3>2, <3>3, <2>0, <2>2, <1>1
  <2>. QED  BY <2>1, <2>2, <1>0
<1>4. FrameTypeOK'
  BY <1>0, <1>2, <1>3 DEF FrameTypeOK, Tasks
<1>5. WritersOK'
  <2>1. ASSUME NEW v \in Writers PROVE WriterOK(v)'
    <3>1. CASE v = w
      BY <3>1, <1>0, <1>1, <1>2, <1>3, NoneAssumption DEF WritersOK, WriterOK, FrameTypeOK, Tasks
    <3>2. CASE v # w
      BY <3>2, <1>0, <1>1, <1>2, <1>3, NoneAssumption DEF WritersOK, WriterOK
    <3>. QED  BY <3>1, <3>2
  <2>2. ASSUME NEW v \in Writers PROVE ChunksOK(v)'
    <3>1. CASE v = w
      <4>1. unit = "chunk" => task'[w] = "failed"
        BY <1>0, <1>2 DEF WritersOK, ChunksOK, WriterOK
      <4>. QED  BY <4>1, <3>1, <1>2, <1>0 DEF ChunksOK
    <3>2. CASE v # w
      <4>1. unit = "chunk" => v \notin running /\ ~staged[v]
        BY <3>2, <1>0 DEF WritersOK, ChunksOK, WriterOK
      <4>. QED  BY <4>1, <3>2, <1>0, <1>2, <1>3 DEF WritersOK, ChunksOK
    <3>. QED  BY <3>1, <3>2
  <2>. QED  BY <2>1, <2>2, <1>0, <1>3 DEF WritersOK
<1>6. AskedOK'
  BY <1>0, <1>2 DEF AskedOK, FrameTypeOK, Tasks
<1>7. TurnsOK'
  <2>1. ASSUME unit = "chunk", NEW v \in Writers, task'[v] \in {"writing", "done", "failed"}
        PROVE  task[v] \in {"writing", "done", "failed"}
    BY <2>1, <1>2, <1>0 DEF FrameTypeOK, Tasks
  <2>2. ASSUME unit = "chunk", NEW u \in Writers PROVE task'[u] # "writing"
    BY <2>2, <1>0, <1>2 DEF WritersOK, WriterOK, ChunksOK
  <2>3. ASSUME NEW u \in Writers, task'[u] = "waiting" PROVE task[u] = "waiting"
    BY <2>3, <1>2
  <2>. QED  BY <2>1, <2>2, <2>3, <1>0, <1>1 DEF TurnsOK
<1>8. /\ Torn \subseteq Torn' /\ Torn' \subseteq Torn \cup {w} /\ w \notin Torn
      /\ 0 < written'[w] => w \in Torn'
  <2>1. w \notin Torn
    BY <1>0 DEF Torn
  <2>2. \A v \in Writers \ {w} : v \in Torn' <=> v \in Torn
    BY <1>0, <1>1, <1>3 DEF Torn
  <2>3. 0 < written'[w] => w \in Torn'
    <3>1. w \in Writers \ running'
      BY <1>0
    <3>2. written'[w] < Size'[w] \/ w \in short'
      BY <1>0, <1>1
    <3>. QED  BY <3>1, <3>2 DEF Torn
  <2>4. Torn \subseteq Writers /\ Torn' \subseteq Writers
    BY DEF Torn
  <2>. QED  BY <2>1, <2>2, <2>3, <2>4
<1>9. /\ Goal \in [Writers -> Nat] /\ Goal[w] = Size[w]
      /\ \/ Goal' = Goal
         \/ Goal' = [Goal EXCEPT ![w] = written'[w]]
  <2>1. Goal \in [Writers -> Nat] /\ Goal[w] = Size[w]
    BY <1>8, GoalIs
  <2>2. \A v \in Writers \ {w} : Goal'[v] = Goal[v]
    BY <1>1, <1>3, <1>8 DEF Goal
  <2>3. Goal'[w] = IF w \in Torn' THEN written'[w] ELSE Size[w]
    BY <1>1 DEF Goal
  <2>4. Goal' = [v \in Writers |-> Goal'[v]]
    BY DEF Goal
  <2>5. CASE w \in Torn'
    <3>1. Goal' = [Goal EXCEPT ![w] = written'[w]]
      BY <2>1, <2>2, <2>3, <2>4, <2>5
    <3>. QED  BY <3>1, <2>1
  <2>6. CASE w \notin Torn'
    <3>1. Goal' = Goal
      BY <2>1, <2>2, <2>3, <2>4, <2>6
    <3>. QED  BY <3>1, <2>1
  <2>. QED  BY <2>5, <2>6
<1>10. /\ FramesOK' /\ (Intact' => Intact) /\ InOrder'
       /\ OnceOK(Sent', written')
       /\ Intact => StreamOK(Sent', written', Goal)
       /\ Intact => BeginningOK(partial', Goal)
       /\ Sent' \in Seq(AnyChunk)
  <2>1. CASE UNCHANGED <<written, channel, short>>
    <3>1. Sent' = Sent /\ written' = written /\ partial' = partial /\ Sent \in Seq(AnyChunk)
      BY <2>1, <1>0, SentIs DEF Sent
    <3>2. FramesOK' /\ (Intact' => Intact)
      <4>1. \A i \in 1..Len(frames), k \in 1..Len(Sent') : Sent'[k] # ChunkOf(FrameOf[i], 1)
        BY <3>1 DEF FrameInv, FramesOK
      <4>. QED  BY <4>1, <1>0, <1>3, <1>8, FramesKept
    <3>3. InOrder'
      BY <2>1, <1>0, NoOneAsks
    <3>4. OnceOK(Sent, written) /\ (Intact => StreamOK(Sent, written, Goal))
          /\ (Intact => BeginningOK(partial, Goal))
      BY DEF FrameInv, SentOK, PartialOK
    <3>5. OnceOK(Sent', written') /\ (Intact => StreamOK(Sent', written', Goal))
          /\ (Intact => BeginningOK(partial', Goal))
      BY <3>1, <3>4, Zenon
    <3>. QED  BY <3>1, <3>2, <3>3, <3>5
  <2>2. CASE Puts(w)
    BY <2>2, <1>8, PutsIs, PutKeepsFrames, PutKeepsSent
  <2>. QED  BY <2>1, <2>2, <1>0
<1>11. SentOK' /\ PartialOK'
  <2>. SUFFICES ASSUME Intact
                PROVE  StreamOK(Sent', written', Goal') /\ BeginningOK(partial', Goal')
    BY <1>10 DEF SentOK, PartialOK
  <2>1. StreamOK(Sent', written', Goal) /\ BeginningOK(partial', Goal)
    BY <1>10
  <2>2. CASE Goal' = Goal
    BY <2>1, <2>2, Zenon
  <2>3. CASE Goal' = [Goal EXCEPT ![w] = written'[w]]
    <3>1. StreamOK(Sent', written', [Goal EXCEPT ![w] = written'[w]])
      BY <2>1, <1>3, <1>9, <1>10, LowerGoal
    <3>2. \A v \in Writers : [Goal EXCEPT ![w] = written'[w]][v] <= Goal[v]
      BY <1>3, <1>9
    <3>3. BeginningOK(partial', [Goal EXCEPT ![w] = written'[w]])
      <4>. DEFINE low == [Goal EXCEPT ![w] = written'[w]]  p == partial'
      <4>1. /\ \A v \in Writers : low[v] \in Nat /\ Goal[v] \in Nat /\ low[v] <= Goal[v]
            /\ p \in Seq(AnyChunk) /\ BeginningOK(p, Goal)
        BY <3>2, <2>1, <1>3, <1>4, <1>9 DEF FrameTypeOK
      <4>. HIDE DEF low, p
      <4>. SUFFICES ASSUME p # <<>>, NEW j \in 1..Len(p), j <= low[p[1].frame]
                    PROVE  p[j] = ChunkOf(p[1].frame, j)
        BY DEF BeginningOK, low, p
      <4>2. p[1].frame \in Writers
        <5>1. 1 \in 1..Len(p)
          BY <4>1
        <5>2. p[1] \in AnyChunk
          BY <4>1, <5>1
        <5>. QED  BY <5>2 DEF AnyChunk
      <4>3. j <= Goal[p[1].frame]
        BY <4>1, <4>2
      <4>. QED  BY <4>1, <4>3 DEF BeginningOK
    <3>. QED  BY <2>3, <3>1, <3>3, Zenon
  <2>. QED  BY <2>2, <2>3, <1>9
<1>. QED  BY <1>4, <1>5, <1>6, <1>7, <1>10, <1>11 DEF FrameInv

\* What FrameDecoder has when a chunk arrives.
Received == Append(partial, Head(channel))

LEMMA DecodeIs ==
    ASSUME FrameInv, Decode
    PROVE  LET now == Received  f == now[1].frame IN
           /\ now \in Seq(AnyChunk) /\ channel' \in Seq(AnyChunk)
           /\ Len(now) \in Nat \ {0} /\ Len(channel') \in Nat
           /\ Len(Sent) = Len(now) + Len(channel')
           /\ \A j \in 1..Len(now) : j \in 1..Len(Sent) /\ now[j] = Sent[j]
           /\ \A k \in 1..Len(channel') :
                Len(now) + k \in 1..Len(Sent) /\ channel'[k] = Sent[Len(now) + k]
           /\ Sent = now \o channel'
           /\ now[1] \in AnyChunk /\ f \in Writers
           /\ Len(partial) = Len(now) - 1
           /\ \A j \in 1..Len(partial) : partial[j] = now[j]
           /\ badMagic' = (now[1].part # 1)
           /\ IF now[1].part = 1 /\ Len(now) = Awaited(f)
              THEN partial' = <<>> /\ frames' = Append(frames, now)
              ELSE partial' = now /\ frames' = frames
<1>. DEFINE now == Received  r == channel'
<1>1. /\ partial \in Seq(AnyChunk) /\ channel \in Seq(AnyChunk) /\ channel # <<>>
      /\ channel' = Tail(channel)
  BY DEF FrameInv, FrameTypeOK, Decode
<1>2. Head(channel) \in AnyChunk /\ channel' \in Seq(AnyChunk) /\ now \in Seq(AnyChunk)
  BY <1>1 DEF Received
<1>3. /\ Sent = now \o r
      /\ Len(now) = Len(partial) + 1 /\ Len(partial) \in Nat /\ Len(r) \in Nat
      /\ \A j \in 1..Len(partial) : now[j] = partial[j]
      /\ Head(now) = now[1]
  <2>1. channel = <<Head(channel)>> \o channel'
    BY <1>1
  <2>. QED  BY <2>1, <1>1, <1>2 DEF Sent, Received
<1>4. /\ badMagic' = (Head(now).part # 1)
      /\ IF Head(now).part = 1 /\ Len(now) = Awaited(Head(now).frame)
         THEN partial' = <<>> /\ frames' = Append(frames, now)
         ELSE partial' = now /\ frames' = frames
  BY DEF Decode, Received
<1>. HIDE DEF now, r
<1>5. now \in Seq(AnyChunk) /\ r \in Seq(AnyChunk) /\ Sent = now \o r
  BY <1>2, <1>3 DEF r
<1>6. /\ Len(Sent) = Len(now) + Len(r)
      /\ \A j \in 1..Len(now) : j \in 1..Len(Sent) /\ now[j] = Sent[j]
      /\ \A k \in 1..Len(r) : Len(now) + k \in 1..Len(Sent) /\ r[k] = Sent[Len(now) + k]
  BY <1>5
<1>7. 1 \in 1..Len(now) /\ now[1] \in AnyChunk /\ now[1].frame \in Writers
  <2>1. 1 \in 1..Len(now) /\ now[1] \in AnyChunk
    BY <1>3, <1>5
  <2>. QED  BY <2>1 DEF AnyChunk
<1>8. Len(now) \in Nat \ {0} /\ Len(partial) = Len(now) - 1
  BY <1>3
<1>9. /\ badMagic' = (now[1].part # 1)
      /\ IF now[1].part = 1 /\ Len(now) = Awaited(now[1].frame)
         THEN partial' = <<>> /\ frames' = Append(frames, now)
         ELSE partial' = now /\ frames' = frames
  BY <1>3, <1>4
<1>. QED  BY <1>3, <1>5, <1>6, <1>7, <1>8, <1>9, Zenon DEF now, r

\* As long as no torn frame was returned, it is the beginning of one frame.
LEMMA BeginningIs ==
    ASSUME FrameInv, Decode, Intact
    PROVE  Received[1].part = 1 /\ BeginningOK(Received, Goal)
<1>. DEFINE now == Received  f == now[1].frame  m == Len(now)
<1>1. /\ m \in Nat \ {0} /\ now[1] \in AnyChunk /\ f \in Writers
      /\ \A j \in 1..m : j \in 1..Len(Sent) /\ now[j] = Sent[j]
      /\ Len(partial) = m - 1 /\ \A j \in 1..Len(partial) : partial[j] = now[j]
  BY DecodeIs
<1>2. StreamOK(Sent, written, Goal) /\ BeginningOK(partial, Goal) /\ Goal[f] \in Nat
  BY <1>1, GoalIs DEF FrameInv, SentOK, PartialOK
<1>. HIDE DEF now
<1>3. 1 \in 1..m /\ 1 \in 1..Len(Sent) /\ now[1] = Sent[1]
  BY <1>1
<1>4. now[1].part = 1
  <2>1. Len(Sent) > 0
    BY <1>3
  <2>. QED  BY <2>1, <1>2, <1>3 DEF StreamOK
<1>5. ASSUME NEW j \in 1..m, j <= Goal[f] PROVE now[j] = ChunkOf(f, j)
  <2>1. CASE j = 1
    BY <2>1, <1>1, <1>4 DEF AnyChunk, ChunkOf
  <2>2. CASE j # 1 /\ j \in 1..Len(partial)
    <3>1. partial # <<>> /\ 1 \in 1..Len(partial)
      BY <2>2
    <3>2. partial[1].frame = f
      BY <3>1, <1>1
    <3>. QED  BY <2>2, <3>1, <3>2, <1>1, <1>2, <1>5 DEF BeginningOK
  <2>3. CASE j # 1 /\ j = m
    <3>1. m - 1 \in 1..Len(partial) /\ m - 1 \in 1..m /\ m - 1 < Goal[f] /\ 1 \in 1..Len(partial)
          /\ m = (m - 1) + 1 /\ m \in 1..m
      BY <2>3, <1>1, <1>2, <1>5
    <3>2. partial # <<>> /\ partial[1].frame = f
      BY <3>1, <1>1
    <3>3. partial[m - 1] = ChunkOf(f, m - 1)
      BY <3>1, <3>2, <1>1, <1>2 DEF BeginningOK
    <3>4. Sent[m - 1] = ChunkOf(f, m - 1) /\ m - 1 \in 1..Len(Sent) /\ m \in 1..Len(Sent)
          /\ now[m] = Sent[m]
      BY <3>1, <3>3, <1>1
    <3>5. Sent[m - 1].frame = f /\ Sent[m - 1].part = m - 1
      BY <3>4 DEF ChunkOf
    <3>6. Sent[m] = ChunkOf(f, (m - 1) + 1)
      BY <3>1, <3>4, <3>5, <1>2 DEF StreamOK
    <3>. QED  BY <2>3, <3>1, <3>4, <3>6
  <2>. QED  BY <2>1, <2>2, <2>3, <1>1
<1>6. BeginningOK(now, Goal)
  BY <1>5 DEF BeginningOK
<1>. QED  BY <1>4, <1>6 DEF now

LEMMA DecodePartOK ==
    ASSUME FrameInv, Decode, ~(Received[1].part = 1 /\ Len(Received) = Awaited(Received[1].frame))
    PROVE  FrameInv'
<1>0. UNCHANGED <<unit, task, holder, written, running, staged, buffer, short, asked>>
  BY DEF Decode
<1>1. partial' = Received /\ frames' = frames /\ badMagic' = (Received[1].part # 1)
      /\ Received \in Seq(AnyChunk) /\ channel' \in Seq(AnyChunk) /\ Sent = Received \o channel'
  BY DecodeIs, Zenon
<1>2. Sent' = Sent /\ FrameOf' = FrameOf
  BY <1>1 DEF Sent, FrameOf
<1>3. /\ WritersOK' /\ AskedOK' /\ TurnsOK'
      /\ Earlier' = Earlier /\ Size' = Size /\ Torn' = Torn /\ Goal' = Goal
  BY <1>0, WritersKept
<1>4. Intact' <=> Intact
  BY <1>1, <1>2, <1>3 DEF Intact
<1>5. FrameTypeOK'
  <2>1. frames' \in Seq(Seq(AnyChunk)) /\ partial' \in Seq(AnyChunk) /\ channel' \in Seq(AnyChunk)
        /\ badMagic' \in BOOLEAN
    BY <1>1 DEF FrameInv, FrameTypeOK
  <2>. QED  BY <2>1, <1>0 DEF FrameInv, FrameTypeOK
<1>6. SentOK'
  BY <1>0, <1>2, <1>3, <1>4, Zenon DEF FrameInv, SentOK
<1>7. PartialOK'
  BY <1>1, <1>3, <1>4, BeginningIs, Zenon DEF PartialOK
<1>8. FramesOK'
  <2>1. badMagic' => ~Intact'
    BY <1>1, <1>4, BeginningIs
  <2>2. /\ \A i \in 1..Len(frames) :
            \/ frames[i] = [j \in 1..Size[FrameOf[i]] |-> ChunkOf(FrameOf[i], j)]
            \/ \E j \in 1..i : FrameOf[j] \in Torn
        /\ \A i \in 1..Len(frames) : FrameOf[i] \in Writers /\ 0 < written[FrameOf[i]]
        /\ \A i \in 1..Len(frames), k \in 1..Len(Sent) : Sent[k] # ChunkOf(FrameOf[i], 1)
        /\ \A i, j \in 1..Len(frames) : FrameOf[i] = FrameOf[j] => i = j
    BY DEF FrameInv, FramesOK
  <2>3. \A i \in 1..Len(frames') :
            \/ frames'[i] = [j \in 1..Size'[FrameOf'[i]] |-> ChunkOf(FrameOf'[i], j)]
            \/ \E j \in 1..i : FrameOf'[j] \in Torn'
    BY <1>1, <1>2, <1>3, <2>2
  <2>4. /\ \A i \in 1..Len(frames') : FrameOf'[i] \in Writers /\ 0 < written'[FrameOf'[i]]
        /\ \A i \in 1..Len(frames'), k \in 1..Len(Sent') : Sent'[k] # ChunkOf(FrameOf'[i], 1)
        /\ \A i, j \in 1..Len(frames') : FrameOf'[i] = FrameOf'[j] => i = j
    BY <1>0, <1>1, <1>2, <2>2
  <2>. QED  BY <2>1, <2>3, <2>4 DEF FramesOK
<1>9. InOrder'
  BY <1>0, <1>1, <1>2, <1>3, Zenon DEF FrameInv, InOrder
<1>. QED  BY <1>3, <1>5, <1>6, <1>7, <1>8, <1>9 DEF FrameInv

LEMMA DecodeFrameOK ==
    ASSUME FrameInv, Decode, Received[1].part = 1, Len(Received) = Awaited(Received[1].frame)
    PROVE  FrameInv'
<1>. DEFINE now == Received  f == now[1].frame
            s == Sent  m == Len(now)  n == Len(channel')  r == channel'  N == Len(s)  q == Len(frames)
<1>0. UNCHANGED <<unit, task, holder, written, running, staged, buffer, short, asked>>
      /\ FrameTypeOK
  BY DEF Decode, FrameInv
<1>1. /\ now \in Seq(AnyChunk) /\ r \in Seq(AnyChunk)
      /\ n \in Nat /\ m \in Nat \ {0} /\ N = m + n
      /\ f \in Writers /\ now[1] \in AnyChunk /\ now[1].part = 1 /\ m = Awaited(f)
      /\ \A j \in 1..m : j \in 1..N /\ now[j] = s[j]
      /\ \A k \in 1..n : m + k \in 1..N /\ r[k] = s[m + k]
      /\ partial' = <<>> /\ frames' = Append(frames, now) /\ badMagic' = (now[1].part # 1)
  BY DecodeIs
<1>2. Sent' = r
  BY <1>1 DEF Sent
<1>3. /\ WritersOK' /\ AskedOK' /\ TurnsOK'
      /\ Earlier' = Earlier /\ Size' = Size /\ Torn' = Torn /\ Goal' = Goal
  BY <1>0, WritersKept
<1>4. FrameTypeOK'
  <2>1. frames' \in Seq(Seq(AnyChunk)) /\ partial' \in Seq(AnyChunk) /\ channel' \in Seq(AnyChunk)
        /\ badMagic' \in BOOLEAN
    BY <1>0, <1>1 DEF FrameTypeOK
  <2>. HIDE DEF now, r
  <2>. QED  BY <2>1, <1>0, <1>1 DEF FrameTypeOK
<1>5. PartialOK'
  BY <1>1 DEF PartialOK, BeginningOK
<1>7. /\ q \in Nat /\ Len(frames') = q + 1
      /\ \A i \in 1..q : frames'[i] = frames[i] /\ FrameOf'[i] = FrameOf[i]
      /\ frames'[q + 1] = now /\ FrameOf'[q + 1] = f
      /\ \A i \in 1..Len(frames') : i \in 1..q \/ i = q + 1
      /\ q + 1 \in 1..Len(frames') /\ \A i \in 1..q : i \in 1..Len(frames')
  <2>1. frames \in Seq(Seq(AnyChunk)) /\ q \in Nat
    BY <1>0 DEF FrameTypeOK
  <2>2. /\ Len(frames') = q + 1 /\ frames'[q + 1] = now
        /\ \A i \in 1..q : frames'[i] = frames[i]
    BY <2>1, <1>1
  <2>. HIDE DEF now
  <2>3. FrameOf = [i \in 1..q |-> frames[i][1].frame] /\ FrameOf' = [i \in 1..(q + 1) |-> frames'[i][1].frame]
    BY <2>2 DEF FrameOf
  <2>. HIDE DEF q, f
  <2>5. /\ q + 1 \in 1..(q + 1) /\ \A i \in 1..(q + 1) : i \in 1..q \/ i = q + 1
        /\ \A i \in 1..q : i \in 1..(q + 1)
    BY <2>1
  <2>4. \A i \in 1..q : FrameOf'[i] = FrameOf[i]
    <3>. TAKE i \in 1..q
    <3>1. FrameOf[i] = frames[i][1].frame
      BY <2>3, Zenon
    <3>2. i \in 1..(q + 1) /\ FrameOf'[i] = frames'[i][1].frame
      BY <2>3, <2>5, Zenon
    <3>. QED  BY <3>1, <3>2, <2>2
  <2>6. FrameOf'[q + 1] = f
    BY <2>2, <2>3, <2>5 DEF f
  <2>. QED  BY <2>1, <2>2, <2>4, <2>5, <2>6
<1>8. /\ \A i \in 1..q :
          \/ frames[i] = [j \in 1..Size[FrameOf[i]] |-> ChunkOf(FrameOf[i], j)]
          \/ \E j \in 1..i : FrameOf[j] \in Torn
      /\ \A i \in 1..q : FrameOf[i] \in Writers /\ 0 < written[FrameOf[i]]
      /\ \A i \in 1..q, k \in 1..N : s[k] # ChunkOf(FrameOf[i], 1)
      /\ \A i, j \in 1..q : FrameOf[i] = FrameOf[j] => i = j
  BY DEF FrameInv, FramesOK
<1>9. unit = "chunk" =>
      /\ \A i, j \in 1..q : i < j => <<FrameOf[i], FrameOf[j]>> \in Earlier
      /\ \A i \in 1..q, k \in 1..N : FrameOf[i] = s[k].frame \/ <<FrameOf[i], s[k].frame>> \in Earlier
      /\ \A k, l \in 1..N : k < l => s[k].frame = s[l].frame \/ <<s[k].frame, s[l].frame>> \in Earlier
  BY DEF FrameInv, InOrder
<1>once. OnceOK(s, written) /\ written \in [Writers -> Nat] /\ Goal \in [Writers -> Nat]
         /\ written[f] \in Nat
  BY <1>0, <1>1, GoalIs DEF FrameInv, SentOK, FrameTypeOK
\* It is the frame of f, whole unless f is torn.
<1>6. ASSUME f \notin Torn PROVE m = Size[f] /\ m = Goal[f] /\ Size[f] \in Nat
  <2>1. f \notin short
    BY <1>6, <1>1 DEF FrameInv, WritersOK, WriterOK, Torn
  <2>2. Size[f] \in Nat /\ Goal[f] = Size[f]
    BY <1>6, <1>1, GoalIs
  <2>. QED  BY <2>1, <2>2, <1>1 DEF Awaited
<1>whole. ASSUME f \notin Torn, Intact PROVE now = [j \in 1..Size[f] |-> ChunkOf(f, j)] /\ s[m] = ChunkOf(f, m)
  <2>1. BeginningOK(now, Goal) /\ now # <<>>
    BY <1>whole, <1>1, BeginningIs
  <2>2. \A j \in 1..m : now[j] = ChunkOf(f, j)
    BY <2>1, <1>1, <1>6, <1>whole DEF BeginningOK
  <2>3. DOMAIN now = 1..m /\ now = [j \in 1..m |-> now[j]]
    BY <1>1 DEF m
  <2>4. [j \in 1..m |-> now[j]] = [j \in 1..m |-> ChunkOf(f, j)]
    BY <2>2
  <2>5. m \in 1..m
    BY <1>1
  <2>6. s[m] = ChunkOf(f, m)
    BY <2>2, <2>5, <1>1
  <2>. QED  BY <2>3, <2>4, <2>6, <1>6, <1>whole
<1>. HIDE DEF now, f, s, m, n, r, N, q
<1>10. 1 \in 1..m /\ 1 \in 1..N /\ s[1] = ChunkOf(f, 1) /\ s[1].frame = f
  <2>1. 1 \in 1..m /\ 1 \in 1..N /\ s[1] = now[1]
    BY <1>1
  <2>2. now[1] = ChunkOf(f, 1)
    BY <1>1 DEF AnyChunk, ChunkOf, f
  <2>. QED  BY <2>1, <2>2 DEF ChunkOf
<1>11. 0 < written[f] /\ \A i \in 1..q : FrameOf[i] # f
  <2>1. 1 <= s[1].part /\ s[1].part <= written[s[1].frame] /\ s[1].part = 1
    BY <1>10, <1>once DEF OnceOK, N, ChunkOf
  <2>2. 0 < written[f]
    BY <2>1, <1>10, <1>once
  <2>. QED  BY <2>2, <1>8, <1>10
<1>12. Intact' => Intact /\ f \notin Torn
  <2>. SUFFICES ASSUME Intact' PROVE Intact /\ f \notin Torn
    OBVIOUS
  <2>1. \A i \in 1..Len(frames') : FrameOf'[i] \notin Torn
    BY <1>3 DEF Intact
  <2>2. \A i \in 1..q : FrameOf[i] \notin Torn
    BY <2>1, <1>7
  <2>3. f \notin Torn
    BY <2>1, <1>7
  <2>. QED  BY <2>2, <2>3 DEF Intact, q
<1>13. SentOK'
  <2>1. OnceOK(r, written)
    <3>1. Len(r) \in Nat /\ m \in Nat /\ \A k \in 1..Len(r) : m + k \in 1..Len(s) /\ r[k] = s[m + k]
      BY <1>1 DEF n, r, N
    <3>. QED  BY <3>1, <1>once, CutKeepsOnce
  <2>2. ASSUME Intact' PROVE StreamOK(r, written, Goal)
    <3>1. Intact /\ f \notin Torn /\ m = Goal[f] /\ s[m] = ChunkOf(f, m) /\ StreamOK(s, written, Goal)
      BY <2>2, <1>6, <1>12, <1>whole DEF FrameInv, SentOK, s
    <3>2. /\ Len(r) \in Nat /\ m \in Nat \ {0} /\ Len(s) = m + Len(r) /\ f \in Writers
          /\ \A k \in 1..Len(r) : m + k \in 1..Len(s) /\ r[k] = s[m + k]
      BY <1>1 DEF n, r, N
    <3>. QED  BY <3>1, <3>2, <1>once, CutKeepsStream
  <2>3. Sent' = r /\ written' = written /\ Goal' = Goal
    BY <1>0, <1>2, <1>3
  <2>. QED  BY <2>1, <2>2, <2>3, Zenon DEF SentOK
<1>15. FramesOK'
  <2>0. badMagic' => ~Intact'
    BY <1>1
  <2>1. ASSUME NEW i \in 1..Len(frames')
        PROVE  \/ frames'[i] = [j \in 1..Size'[FrameOf'[i]] |-> ChunkOf(FrameOf'[i], j)]
               \/ \E j \in 1..i : FrameOf'[j] \in Torn'
    <3>1. CASE i \in 1..q
      <4>1. frames'[i] = frames[i] /\ FrameOf'[i] = FrameOf[i]
        BY <3>1, <1>7
      <4>2. \A j \in 1..i : FrameOf'[j] = FrameOf[j]
        BY <3>1, <1>7
      <4>. QED  BY <4>1, <4>2, <3>1, <1>3, <1>8
    <3>2. CASE i = q + 1 /\ f \in Torn
      <4>1. i \in 1..i
        BY <3>2, <1>7
      <4>. QED  BY <4>1, <3>2, <1>3, <1>7
    <3>3. CASE i = q + 1 /\ f \notin Torn /\ Intact
      BY <3>3, <1>3, <1>7, <1>whole
    <3>4. CASE i = q + 1 /\ ~Intact
      <4>1. PICK j \in 1..q : FrameOf[j] \in Torn
        BY <3>4 DEF Intact, q
      <4>2. j \in 1..i /\ FrameOf'[j] = FrameOf[j]
        BY <4>1, <3>4, <1>7
      <4>. QED  BY <4>1, <4>2, <1>3
    <3>. QED  BY <3>1, <3>2, <3>3, <3>4, <1>7
  <2>2. \A i \in 1..Len(frames') : FrameOf'[i] \in Writers /\ 0 < written'[FrameOf'[i]]
    BY <1>0, <1>1, <1>7, <1>8, <1>11
  <2>3. \A i \in 1..Len(frames'), k \in 1..n : r[k] # ChunkOf(FrameOf'[i], 1)
    <3>1. ASSUME NEW i \in 1..q, NEW k \in 1..n PROVE r[k] # ChunkOf(FrameOf[i], 1)
      <4>1. m + k \in 1..N /\ r[k] = s[m + k]
        BY <1>1
      <4>. QED  BY <4>1, <1>8
    <3>2. ASSUME NEW k \in 1..n, r[k] = ChunkOf(f, 1) PROVE FALSE
      <4>1. m + k \in 1..N /\ s[m + k] = s[1]
        BY <3>2, <1>1, <1>10
      <4>2. m + k = 1
        BY <4>1, <1>10, <1>once DEF OnceOK, N
      <4>. QED  BY <4>2, <1>1
    <3>. QED  BY <3>1, <3>2, <1>7
  <2>4. \A i, j \in 1..Len(frames') : FrameOf'[i] = FrameOf'[j] => i = j
    BY <1>7, <1>8, <1>11
  <2>5. Sent' = r /\ Len(Sent') = n
    BY <1>2 DEF r, n
  <2>. QED  BY <2>0, <2>1, <2>2, <2>3, <2>4, <2>5 DEF FramesOK
<1>16. InOrder'
  <2>. SUFFICES ASSUME unit = "chunk"
                PROVE  /\ \A i, j \in 1..Len(frames') : i < j => <<FrameOf'[i], FrameOf'[j]>> \in Earlier'
                       /\ \A i \in 1..Len(frames'), k \in 1..n :
                            FrameOf'[i] = r[k].frame \/ <<FrameOf'[i], r[k].frame>> \in Earlier'
                       /\ \A k, l \in 1..n : k < l =>
                            r[k].frame = r[l].frame \/ <<r[k].frame, r[l].frame>> \in Earlier'
    <3>1. Sent' = r /\ Len(Sent') = n
      BY <1>2 DEF r, n
    <3>. QED  BY <3>1, <1>0 DEF InOrder
  <2>1. ASSUME NEW i \in 1..Len(frames'), NEW j \in 1..Len(frames'), i < j
        PROVE  <<FrameOf'[i], FrameOf'[j]>> \in Earlier'
    <3>1. i \in 1..q
      BY <2>1, <1>7
    <3>2. CASE j \in 1..q
      BY <3>1, <3>2, <2>1, <1>3, <1>7, <1>9
    <3>3. CASE j = q + 1
      <4>1. <<FrameOf[i], s[1].frame>> \in Earlier
        BY <3>1, <1>9, <1>10, <1>11
      <4>. QED  BY <4>1, <3>1, <3>3, <1>3, <1>7, <1>10
    <3>. QED  BY <3>2, <3>3, <1>7
  <2>2. ASSUME NEW i \in 1..Len(frames'), NEW k \in 1..n
        PROVE  FrameOf'[i] = r[k].frame \/ <<FrameOf'[i], r[k].frame>> \in Earlier'
    <3>1. m + k \in 1..N /\ r[k] = s[m + k] /\ 1 < m + k
      <4>1. m \in Nat \ {0}
        BY <1>1
      <4>. QED  BY <4>1, <1>1
    <3>2. CASE i \in 1..q
      BY <3>1, <3>2, <1>3, <1>7, <1>9
    <3>3. CASE i = q + 1
      <4>1. s[1].frame = s[m + k].frame \/ <<s[1].frame, s[m + k].frame>> \in Earlier
        BY <3>1, <1>9, <1>10
      <4>. QED  BY <4>1, <3>1, <3>3, <1>3, <1>7, <1>10
    <3>. QED  BY <3>2, <3>3, <1>7
  <2>3. ASSUME NEW k \in 1..n, NEW l \in 1..n, k < l
        PROVE  r[k].frame = r[l].frame \/ <<r[k].frame, r[l].frame>> \in Earlier'
    <3>1. m + k < m + l
      BY <2>3, <1>1
    <3>2. m + k \in 1..N /\ m + l \in 1..N /\ r[k] = s[m + k] /\ r[l] = s[m + l]
      BY <1>1
    <3>. QED  BY <3>1, <3>2, <1>3, <1>9
  <2>. QED  BY <2>1, <2>2, <2>3
<1>. QED  BY <1>3, <1>4, <1>5, <1>13, <1>15, <1>16 DEF FrameInv

LEMMA FrameInvInit == FrameInit /\ ("chunk" \in Units => ~CancelRunning) => FrameInv
<1>. SUFFICES ASSUME FrameInit, "chunk" \in Units => ~CancelRunning PROVE FrameInv
  OBVIOUS
<1>1. /\ unit \in Units /\ task = [w \in Writers |-> "idle"] /\ holder = None
      /\ written = [w \in Writers |-> 0] /\ running = {} /\ staged = [w \in Writers |-> FALSE]
      /\ short = {} /\ buffer = None /\ channel = <<>> /\ partial = <<>> /\ frames = <<>>
      /\ badMagic = FALSE /\ asked = <<>>
  BY DEF FrameInit
<1>2. FrameTypeOK
  <2>1. /\ task \in [Writers -> Tasks]
        /\ written \in [Writers -> Nat] /\ staged \in [Writers -> BOOLEAN]
    BY <1>1 DEF Tasks
  <2>2. /\ channel \in Seq(AnyChunk) /\ partial \in Seq(AnyChunk)
        /\ frames \in Seq(Seq(AnyChunk)) /\ asked \in Seq(Writers)
    BY <1>1
  <2>. QED  BY <1>1, <2>1, <2>2 DEF FrameTypeOK, Tasks
<1>3. WritersOK
  BY <1>1, SizeIs, NoneAssumption DEF WritersOK, WriterOK, ChunksOK
<1>4. Sent = <<>>
  BY <1>1 DEF Sent
<1>5. SentOK
  <2>1. OnceOK(<<>>, written) /\ StreamOK(<<>>, written, Goal)
    BY <1>1 DEF OnceOK, StreamOK
  <2>. QED  BY <2>1, <1>4 DEF SentOK
<1>6. PartialOK /\ FramesOK /\ AskedOK /\ TurnsOK /\ InOrder
  BY <1>1, <1>4 DEF PartialOK, BeginningOK, FramesOK, AskedOK, TurnsOK, InOrder
<1>. QED  BY <1>2, <1>3, <1>5, <1>6 DEF FrameInv

LEMMA FrameStep == FrameInv /\ [FrameNext]_frameVars => FrameInv'
<1>. SUFFICES ASSUME FrameInv, [FrameNext]_frameVars PROVE FrameInv'
  OBVIOUS
<1>1. ASSUME NEW w \in Writers,
             \/ Request(w) \/ Acquire(w) \/ WriterThread(w) \/ WriteFails(w)
             \/ CancelWaiting(w) \/ CancelWriting(w)
      PROVE  FrameInv'
  BY <1>1, RequestOK, AcquireOK, StageOK, PutChunkOK, WriteFailsOK, ThreadDoneOK, CancelOK
     DEF WriterThread
<1>2. CASE Decode
  BY <1>2, DecodePartOK, DecodeFrameOK
<1>3. CASE UNCHANGED frameVars
  <2>1. /\ UNCHANGED <<unit, task, holder, written, running, staged, buffer, short, channel, partial,
                      frames, badMagic, asked>>
    BY <1>3 DEF frameVars, decoder
  <2>2. FrameTypeOK'
    BY <2>1 DEF FrameInv, FrameTypeOK
  <2>. QED  BY <2>1, <2>2, ChunksKept, NoOneAsks, WritersKept DEF FrameInv
<1>. QED  BY <1>1, <1>2, <1>3 DEF FrameNext

\* As long as no task is cancelled inside a channel write that takes chunks, every
\* frame FrameDecoder returns is one that was sent, whole and once, up to the first
\* frame that a failed write left on the channel in part.
THEOREM FramesAreIntact ==
    ASSUME "chunk" \in Units => ~CancelRunning
    PROVE  FrameSpec => []FramesIntact
<1>1. FrameInv => FramesIntact
  <2>. SUFFICES ASSUME FrameInv PROVE FramesIntact
    OBVIOUS
  <2>1. \A i \in 1..Len(frames) : frames[i][1].frame = FrameOf[i]
    BY DEF FrameOf
  <2>2. badMagic => \E i \in 1..Len(frames) : frames[i][1].frame \in Torn
    BY <2>1 DEF FrameInv, FramesOK, Intact
  <2>3. ASSUME NEW i \in 1..Len(frames)
        PROVE  \/ frames[i] = [j \in 1..Size[FrameOf[i]] |-> ChunkOf(FrameOf[i], j)]
               \/ \E j \in 1..i : frames[j][1].frame \in Torn
    <3>1. \A j \in 1..i : j \in 1..Len(frames)
      BY DEF FrameInv, FrameTypeOK
    <3>. QED  BY <3>1, <2>1 DEF FrameInv, FramesOK
  <2>4. \A i, j \in 1..Len(frames) : frames[i] = frames[j] => i = j
    BY <2>1 DEF FrameInv, FramesOK
  <2>. QED  BY <2>1, <2>2, <2>3, <2>4 DEF FramesIntact
<1>. QED  BY <1>1, FrameInvInit, FrameStep, PTL DEF FrameSpec

\* And the frames that go out in chunks come out in the order in which their senders
\* entered _send, whatever writes fail and whatever tasks are cancelled while they wait
\* for the lock.
THEOREM FramesInOrder ==
    ASSUME "chunk" \in Units => ~CancelRunning
    PROVE  FrameSpec => []OrderKept
<1>1. FrameInv => OrderKept
  <2>. SUFFICES ASSUME FrameInv, unit = "chunk", NEW i \in 1..Len(frames), NEW j \in 1..Len(frames), i < j
                PROVE  \E a, b \in 1..Len(asked) :
                          a < b /\ asked[a] = frames[i][1].frame /\ asked[b] = frames[j][1].frame
    BY DEF OrderKept
  <2>1. <<FrameOf[i], FrameOf[j]>> \in Earlier
    BY DEF FrameInv, InOrder
  <2>2. FrameOf[i] = frames[i][1].frame /\ FrameOf[j] = frames[j][1].frame
    BY DEF FrameOf
  <2>3. \E a, b \in 1..Len(asked) : a < b /\ asked[a] = FrameOf[i] /\ asked[b] = FrameOf[j]
    BY <2>1 DEF Earlier
  <2>. QED  BY <2>2, <2>3
<1>. QED  BY <1>1, FrameInvInit, FrameStep, PTL DEF FrameSpec

-----------------------------------------------------------------------------
(***************************************************************************)
(* Types of the composition that the run checks.                           *)
(***************************************************************************)

\* What is queued, read and accounted for on k has been delivered.
Delivered(k) ==
    /\ queue[k] \in Seq(0..offered[k]) /\ taken[k] \in -1..offered[k]
    /\ got[k] \in Seq(1..offered[k]) /\ queued[k] \in 0..MaxQueue

RuntimeTypes ==
    /\ Inv
    /\ lease \in BOOLEAN /\ shutdown \in BOOLEAN
    /\ stopping \in [Channels -> BOOLEAN] /\ cancelled \in [Channels -> BOOLEAN]
    /\ gone \in [Channels -> BOOLEAN] /\ started \in [Channels -> {"no", "yes", "failed"}]
    /\ \A k \in Channels : Delivered(k)

LEMMA RuntimeTyped == RuntimeTypes => TypeOK
BY DEF RuntimeTypes, Inv, Typed, QueueTyped, Stages, Delivered, TypeOK

LEMMA InitRuntimeTypes == Init => RuntimeTypes
<1> SUFFICES ASSUME Init PROVE RuntimeTypes
  OBVIOUS
<1>1. \A k \in Channels : Delivered(k)
  BY RuntimeAssumption DEF Init, Delivered, Nothing
<1>2. QED BY <1>1, InvInit DEF Init, No, RuntimeTypes

\* A step that leaves the queues alone, and delivers no less.
LEMMA StillDelivered ==
    ASSUME RuntimeTypes, NEW k \in Channels,
           queue'[k] = queue[k], taken'[k] = taken[k], got'[k] = got[k], queued'[k] = queued[k],
           offered'[k] \in Nat, offered[k] <= offered'[k]
    PROVE  Delivered(k)'
<1>1. Delivered(k) /\ offered[k] \in Nat
  BY DEF RuntimeTypes, Inv, QueueTyped
<1>2. /\ 0..offered[k] \subseteq 0..offered'[k] /\ 1..offered[k] \subseteq 1..offered'[k]
      /\ -1..offered[k] \subseteq -1..offered'[k]
  BY <1>1
<1>3. \A S, T : S \subseteq T => Seq(S) \subseteq Seq(T)
  OBVIOUS
<1>4. QED BY <1>1, <1>2, <1>3 DEF Delivered

\* A queue that is closed.
LEMMA ClosedDelivered ==
    ASSUME RuntimeTypes, NEW r \in Channels, CloseQueue(r), UNCHANGED <<offered, got>>
    PROVE  \A k \in Channels : Delivered(k)'
<1> SUFFICES ASSUME NEW k \in Channels PROVE Delivered(k)'
  OBVIOUS
<1>1. Delivered(k) /\ CountOK(k) /\ offered[k] \in Nat
      /\ queue \in [Channels -> Seq(Nat)] /\ queued \in [Channels -> Int]
  BY DEF RuntimeTypes, Inv, QueueTyped, ChannelOK
<1>2. CASE eof[r] \/ k # r
  <2>1. queue'[k] = queue[k] /\ taken'[k] = taken[k] /\ queued'[k] = queued[k]
    BY <1>1, <1>2 DEF CloseQueue, queues
  <2>2. QED BY <1>1, <2>1 DEF Delivered
<1>3. CASE ~eof[r] /\ k = r
  <2>1. /\ queue'[k] = <<0>> /\ taken'[k] = taken[k] /\ queued'[k] = queued[k] - Len(queue[k])
    BY <1>1, <1>3 DEF CloseQueue
  <2>2. queued[k] = Len(queue[k]) \/ queued[k] = Len(queue[k]) + 1
    BY <1>1, <1>3 DEF CountOK
  <2>3. Len(queue[k]) \in Nat /\ queued'[k] \in 0..MaxQueue
    BY <1>1, <2>1, <2>2, RuntimeAssumption DEF Delivered
  <2>4. <<0>> \in Seq(0..offered[k])
    BY <1>1
  <2>5. QED BY <1>1, <2>1, <2>3, <2>4 DEF Delivered
<1>4. QED BY <1>2, <1>3

LEMMA GetDelivered ==
    ASSUME RuntimeTypes, NEW r \in Channels, Get(r) \/ Read(r) \/ (Feed /\ r = runtime)
    PROVE  \A k \in Channels : Delivered(k)'
<1> SUFFICES ASSUME NEW k \in Channels PROVE Delivered(k)'
  OBVIOUS
<1>1. /\ Delivered(k) /\ Delivered(r) /\ CountOK(r) /\ offered[k] \in Nat /\ offered[r] \in Nat
      /\ queue \in [Channels -> Seq(Nat)] /\ queued \in [Channels -> Int]
      /\ taken \in [Channels -> Nat \cup {Nothing}] /\ got \in [Channels -> Seq(Nat)]
  BY DEF RuntimeTypes, Inv, QueueTyped, ChannelOK
<1>2. /\ UNCHANGED offered
      /\ k # r => /\ queue'[k] = queue[k] /\ taken'[k] = taken[k] /\ got'[k] = got[k]
                  /\ queued'[k] = queued[k]
  BY <1>1 DEF Get, Read, Feed
<1>3. CASE k # r
  BY <1>1, <1>2, <1>3 DEF Delivered
<1>4. CASE k = r /\ Get(r)
  <2>1. /\ queue'[k] = Tail(queue[k]) /\ taken'[k] = Head(queue[k]) /\ queue[k] # <<>>
        /\ got'[k] = got[k] /\ queued'[k] = queued[k]
    BY <1>1, <1>4 DEF Get
  <2>2. Tail(queue[k]) \in Seq(0..offered[k]) /\ Head(queue[k]) \in 0..offered[k]
    <3>1. queue[k] \in Seq(0..offered[k]) /\ queue[k] # <<>>
      BY <1>1, <2>1 DEF Delivered
    <3>2. \A S : \A q \in Seq(S) : q # <<>> => Tail(q) \in Seq(S) /\ Head(q) \in S
      OBVIOUS
    <3>3. QED BY <3>1, <3>2, Zenon
  <2>3. QED BY <1>1, <1>2, <2>1, <2>2 DEF Delivered
<1>5. CASE k = r /\ Read(r)
  <2>1. /\ taken[k] # -1 /\ taken'[k] = -1 /\ queue'[k] = queue[k]
        /\ \/ got'[k] = got[k]
           \/ taken[k] # 0 /\ got'[k] = Append(got[k], taken[k])
        /\ \/ queued'[k] = queued[k]
           \/ queued[k] > 0 /\ queued'[k] = queued[k] - 1
    BY <1>1, <1>5 DEF Read, Nothing
  <2>2. got'[k] \in Seq(1..offered[k])
    <3>1. got[k] \in Seq(1..offered[k]) /\ taken[k] \in -1..offered[k]
      BY <1>1 DEF Delivered
    <3>2. \A t \in -1..offered[k] : t # -1 /\ t # 0 => t \in 1..offered[k]
      BY <1>1
    <3>3. taken[k] # 0 => taken[k] \in 1..offered[k]
      BY <2>1, <3>1, <3>2
    <3>4. taken[k] # 0 => Append(got[k], taken[k]) \in Seq(1..offered[k])
      BY <3>1, <3>3
    <3>5. QED BY <2>1, <3>1, <3>4
  <2>3. queued'[k] \in 0..MaxQueue
    BY <1>1, <2>1, RuntimeAssumption DEF Delivered
  <2>4. QED BY <1>1, <1>2, <2>1, <2>2, <2>3 DEF Delivered
<1>6. CASE k = r /\ Feed /\ r = runtime
  <2>1. /\ taken'[k] = taken[k] /\ got'[k] = got[k]
        /\ \/ queue'[k] = queue[k] /\ queued'[k] = queued[k]
           \/ /\ ~(queued[k] >= MaxQueue)
              /\ queue'[k] = Append(queue[k], offered[k]) /\ queued'[k] = queued[k] + 1
    BY <1>1, <1>6 DEF Feed, Full
  <2>2. queue'[k] \in Seq(0..offered[k]) /\ queued'[k] \in 0..MaxQueue
    <3>1. queue[k] \in Seq(0..offered[k]) /\ queued[k] \in 0..MaxQueue
      BY <1>1 DEF Delivered
    <3>2. offered[k] \in 0..offered[k]
      BY <1>1
    <3>3. Append(queue[k], offered[k]) \in Seq(0..offered[k])
      BY <3>1, <3>2
    <3>4. ~(queued[k] >= MaxQueue) => queued[k] + 1 \in 0..MaxQueue
      BY <3>1, RuntimeAssumption
    <3>5. QED BY <2>1, <3>1, <3>3, <3>4
  <2>3. QED BY <1>1, <1>2, <2>1, <2>2 DEF Delivered
<1>7. QED BY <1>3, <1>4, <1>5, <1>6

\* The flags of the plugin and of its threads.
LEMMA FlagTypes ==
    ASSUME RuntimeTypes, [Next]_vars
    PROVE  /\ lease' \in BOOLEAN /\ shutdown' \in BOOLEAN
           /\ stopping' \in [Channels -> BOOLEAN] /\ cancelled' \in [Channels -> BOOLEAN]
           /\ gone' \in [Channels -> BOOLEAN] /\ started' \in [Channels -> {"no", "yes", "failed"}]
<1> DEFINE Flags == /\ lease \in BOOLEAN /\ shutdown \in BOOLEAN
                    /\ stopping \in [Channels -> BOOLEAN] /\ cancelled \in [Channels -> BOOLEAN]
                    /\ gone \in [Channels -> BOOLEAN]
                    /\ started \in [Channels -> {"no", "yes", "failed"}]
<1>1. Flags /\ Typed
  BY DEF RuntimeTypes, Inv
<1>2. ASSUME NEW k \in Channels, Thread(k) \/ Stop(k) PROVE Flags'
  <2>1. /\ UNCHANGED <<lease, shutdown, stopping, cancelled>>
        /\ gone' = gone \/ gone' = [gone EXCEPT ![k] = TRUE]
        /\ \/ started' = started
           \/ \E x \in {"no", "yes", "failed"} : started' = [started EXCEPT ![k] = x]
    <3>1. CASE Get(k) \/ Read(k) \/ Stop(k) \/ CancelArrives(k) \/ Drained(k)
      BY <3>1 DEF Get, Read, Stop, CancelArrives, Drained, plugin, threads
    <3>2. CASE Boot(k) \/ Disconnect(k)
      BY <3>2 DEF Boot, Disconnect, Set, plugin
    <3>3. CASE Finish(k) \/ Decide(k)
      BY <1>1, <3>3 DEF Finish, Decide, plugin
    <3>4. QED BY <1>2, <3>1, <3>2, <3>3 DEF Thread
  <2>2. QED BY <1>1, <2>1
<1>3. CASE \/ OnNewChannelConnection \/ OnDataReceived \/ StartReturns \/ Feed
           \/ \E name \in {"close", "terminate"} : OnClose(name)
  <2>1. UNCHANGED <<lease, shutdown, stopping, cancelled, gone, started>>
    BY <1>3 DEF OnNewChannelConnection, OnDataReceived, StartReturns, Feed, OnClose, Begin, threads
  <2>2. QED BY <1>1, <2>1
<1>4. CASE CloseRuntime
  <2>1. /\ UNCHANGED <<lease, shutdown, gone, started>>
        /\ stopping' = [stopping EXCEPT ![runtime] = TRUE]
        /\ cancelled' = cancelled \/ cancelled' = [cancelled EXCEPT ![runtime] = TRUE]
    BY <1>4 DEF CloseRuntime, Set
  <2>2. QED BY <1>1, <2>1
<1>5. CASE Join
  <2>1. /\ UNCHANGED <<started, stopping, cancelled>>
        /\ gone' = gone \/ gone' = [gone EXCEPT ![held] = TRUE]
        /\ lease' \in BOOLEAN /\ shutdown' \in BOOLEAN
    BY <1>1, <1>5 DEF Join, AfterClose, Set
  <2>2. QED BY <1>1, <2>1
<1>6. CASE UNCHANGED vars
  BY <1>1, <1>6 DEF vars, plugin, threads
<1>7. QED BY <1>2, <1>3, <1>4, <1>5, <1>6 DEF Next, Callback

LEMMA NextRuntimeTypes == RuntimeTypes /\ [Next]_vars => RuntimeTypes'
<1> SUFFICES ASSUME RuntimeTypes, [Next]_vars PROVE RuntimeTypes'
  OBVIOUS
<1>1. Inv' /\ Typed /\ QueueTyped /\ QueueTyped'
  BY InvStep DEF RuntimeTypes, Inv
<1>2. \A k \in Channels : Delivered(k)'
  <2>1. ASSUME UNCHANGED <<queues, got>>, \A k \in Channels : offered[k] <= offered'[k]
        PROVE  \A k \in Channels : Delivered(k)'
    BY <1>1, <2>1, StillDelivered DEF queues, QueueTyped
  <2>2. \A k \in Channels : offered[k] <= offered[k] /\ offered[k] <= offered[k] + 1
    BY <1>1 DEF QueueTyped
  <2>3. ASSUME NEW k \in Channels, Thread(k) \/ Stop(k) PROVE \A c \in Channels : Delivered(c)'
    <3>1. CASE Get(k) \/ Read(k)
      BY <3>1, GetDelivered
    <3>2. CASE Drained(k)
      BY <3>2, ClosedDelivered DEF Drained
    <3>3. CASE Boot(k) \/ Stop(k) \/ CancelArrives(k) \/ Finish(k) \/ Decide(k) \/ Disconnect(k)
      BY <2>1, <2>2, <3>3 DEF Boot, Stop, CancelArrives, Finish, Decide, Disconnect
    <3>4. QED BY <2>3, <3>1, <3>2, <3>3 DEF Thread
  <2>4. CASE OnDataReceived
    <3>1. UNCHANGED <<queues, got>> /\ offered' = [offered EXCEPT ![held] = @ + 1]
      BY <2>4 DEF OnDataReceived, Begin
    <3>2. \A k \in Channels : offered'[k] = offered[k] \/ offered'[k] = offered[k] + 1
      BY <1>1, <3>1 DEF QueueTyped
    <3>3. \A k \in Channels : offered[k] <= offered'[k]
      BY <2>2, <3>2
    <3>4. QED BY <2>1, <3>1, <3>3
  <2>5. CASE \/ OnNewChannelConnection \/ StartReturns \/ Join \/ UNCHANGED vars
             \/ \E name \in {"close", "terminate"} : OnClose(name)
    <3>1. UNCHANGED <<queues, got, offered>>
      BY <2>5 DEF OnNewChannelConnection, StartReturns, Join, OnClose, Begin, vars
    <3>2. QED BY <2>1, <2>2, <3>1
  <2>6. CASE CloseRuntime
    <3>1. runtime \in Channels
      BY <1>1, <2>6, RuntimeChannel DEF CloseRuntime
    <3>2. QED BY <2>6, <3>1, ClosedDelivered DEF CloseRuntime
  <2>7. CASE Feed
    <3>1. runtime \in Channels
      BY <2>7, RuntimeChannel DEF Feed, RuntimeTypes, Inv, CallOK
    <3>2. QED BY <2>7, <3>1, GetDelivered
  <2>8. QED BY <2>3, <2>4, <2>5, <2>6, <2>7 DEF Next, Callback
<1>3. QED BY <1>1, <1>2, FlagTypes DEF RuntimeTypes

\* The staging buffer holds a chunk before one is written from it.
FrameTypes ==
    /\ FrameTypeOK
    /\ Shared => \A w \in Writers : staged[w] => buffer \in AnyChunk

LEMMA InitFrameTypes == FrameInit => FrameTypes
<1> SUFFICES ASSUME FrameInit PROVE FrameTypes
  OBVIOUS
<1>1. \A S : <<>> \in Seq(S)
  OBVIOUS
<1>2. /\ task \in [Writers -> Tasks]
      /\ written \in [Writers -> Nat] /\ staged \in [Writers -> BOOLEAN]
  BY DEF FrameInit, Tasks
<1>3. /\ channel \in Seq(AnyChunk) /\ partial \in Seq(AnyChunk) /\ frames \in Seq(Seq(AnyChunk))
      /\ asked \in Seq(Writers)
  BY <1>1, Zenon DEF FrameInit
<1>4. /\ unit \in Units /\ holder = None /\ buffer = None /\ running = {} /\ badMagic = FALSE
      /\ short = {}
      /\ \A w \in Writers : ~staged[w]
  BY DEF FrameInit
<1>5. QED BY <1>2, <1>3, <1>4 DEF FrameTypes, FrameTypeOK, Tasks

LEMMA NextFrameTypes == FrameTypes /\ [FrameNext]_frameVars => FrameTypes'
<1> SUFFICES ASSUME FrameTypes, [FrameNext]_frameVars PROVE FrameTypes'
  OBVIOUS
<1>1. FrameTypeOK /\ (Shared => \A w \in Writers : staged[w] => buffer \in AnyChunk)
  BY DEF FrameTypes
<1>2. ASSUME NEW w \in Writers, NEW n \in Nat PROVE ChunkOf(w, n) \in AnyChunk
  BY DEF ChunkOf, AnyChunk
<1>3. ASSUME NEW w \in Writers,
             Request(w) \/ Acquire(w) \/ CancelWaiting(w) \/ CancelWriting(w) \/ ThreadDone(w)
      PROVE  FrameTypes'
  <2>1. UNCHANGED <<unit, written, short, staged, buffer, channel, partial, frames, badMagic>>
    BY <1>3 DEF Request, Acquire, CancelWaiting, CancelWriting, ThreadDone, decoder
  <2>2. /\ \E pc \in {"waiting", "writing", "done", "cancelled"} :
              task' = [task EXCEPT ![w] = pc] \/ task' = task
        /\ holder' \in {holder, w, None} /\ running' \subseteq running \cup {w}
        /\ asked' \in {asked, Append(asked, w)}
    BY <1>1, <1>3 DEF Request, Acquire, CancelWaiting, CancelWriting, ThreadDone, FrameTypeOK
  <2>3. FrameTypeOK'
    <3>1. task' \in [Writers -> Tasks]
      BY <1>1, <2>2 DEF FrameTypeOK, Tasks
    <3>2. holder' \in Writers \cup {None} /\ running' \subseteq Writers
      BY <1>1, <2>2 DEF FrameTypeOK
    <3>3. asked' \in Seq(Writers)
      <4>1. asked \in Seq(Writers) /\ Append(asked, w) \in Seq(Writers)
        BY <1>1 DEF FrameTypeOK
      <4>2. QED BY <2>2, <4>1
    <3>4. QED BY <1>1, <2>1, <3>1, <3>2, <3>3 DEF FrameTypeOK, Tasks
  <2>4. QED BY <1>1, <2>1, <2>3 DEF FrameTypes, Shared
<1>4. ASSUME NEW w \in Writers, Stage(w) PROVE FrameTypes'
  <2>1. /\ UNCHANGED <<unit, task, holder, written, running, short, channel, partial, frames,
                      badMagic, asked>>
        /\ staged' = [staged EXCEPT ![w] = TRUE]
        /\ \/ Shared /\ buffer' = ChunkOf(w, written[w] + 1)
           \/ ~Shared /\ buffer' = buffer
    BY <1>4 DEF Stage, decoder
  <2>2. ChunkOf(w, written[w] + 1) \in AnyChunk
    BY <1>1, <1>2 DEF FrameTypeOK
  <2>3. FrameTypeOK'
    <3>1. staged' \in [Writers -> BOOLEAN]
      BY <1>1, <2>1 DEF FrameTypeOK
    <3>2. buffer' \in AnyChunk \cup {None}
      BY <1>1, <2>1, <2>2 DEF FrameTypeOK
    <3>3. QED BY <1>1, <2>1, <3>1, <3>2 DEF FrameTypeOK
  <2>4. QED BY <2>1, <2>2, <2>3 DEF FrameTypes, Shared
<1>5. ASSUME NEW w \in Writers, PutChunk(w) \/ WriteFails(w) PROVE FrameTypes'
  <2>1. /\ UNCHANGED <<unit, buffer, partial, frames, badMagic, asked>>
        /\ staged[w] /\ staged' = [staged EXCEPT ![w] = FALSE]
    BY <1>5 DEF PutChunk, WriteFails, decoder
  <2>2. /\ written' = written \/ written' = [written EXCEPT ![w] = @ + 1]
        /\ short' \subseteq short \cup {w} /\ running' \subseteq running
        /\ holder' \in {holder, None}
        /\ \/ Shared /\ channel' = Append(channel, buffer)
           \/ channel' = Append(channel, ChunkOf(w, written[w] + 1))
           \/ channel' = channel
    BY <1>5 DEF PutChunk, WriteFails
  <2>3. task' \in [Writers -> Tasks]
    <3>1. CASE PutChunk(w)
      BY <1>1, <3>1 DEF PutChunk, FrameTypeOK, Tasks
    <3>2. CASE WriteFails(w)
      BY <1>1, <3>2 DEF WriteFails, FrameTypeOK, Tasks
    <3>3. QED BY <1>5, <3>1, <3>2
  <2>4. ChunkOf(w, written[w] + 1) \in AnyChunk /\ (Shared => buffer \in AnyChunk)
    BY <1>1, <1>2, <2>1 DEF FrameTypeOK
  <2>5. channel' \in Seq(AnyChunk)
    <3>1. channel \in Seq(AnyChunk)
      BY <1>1 DEF FrameTypeOK
    <3>2. \A x \in AnyChunk : Append(channel, x) \in Seq(AnyChunk)
      BY <3>1
    <3>3. QED BY <2>2, <2>4, <3>1, <3>2
  <2>6. FrameTypeOK'
    <3>1. staged' \in [Writers -> BOOLEAN] /\ written' \in [Writers -> Nat]
      BY <1>1, <2>1, <2>2 DEF FrameTypeOK
    <3>2. /\ short' \subseteq Writers /\ running' \subseteq Writers
          /\ holder' \in Writers \cup {None}
      BY <1>1, <2>2 DEF FrameTypeOK
    <3>3. QED BY <1>1, <2>1, <2>3, <2>5, <3>1, <3>2 DEF FrameTypeOK, Tasks
  <2>7. \A v \in Writers : staged'[v] => staged[v]
    BY <1>1, <2>1 DEF FrameTypeOK
  <2>8. QED BY <1>1, <2>1, <2>6, <2>7 DEF FrameTypes, Shared
<1>6. CASE Decode
  <2> DEFINE q == Append(partial, Head(channel))
  <2>1. /\ UNCHANGED <<unit, task, holder, written, running, staged, buffer, short, asked>>
        /\ channel # <<>> /\ channel' = Tail(channel) /\ badMagic' \in BOOLEAN
        /\ \/ partial' = <<>> /\ frames' = Append(frames, q)
           \/ partial' = q /\ frames' = frames
    BY <1>6 DEF Decode
  <2>2. q \in Seq(AnyChunk) /\ Tail(channel) \in Seq(AnyChunk)
    BY <1>1, <2>1 DEF FrameTypeOK
  <2> HIDE DEF q
  <2>3. FrameTypeOK'
    <3> DEFINE F == Seq(AnyChunk)
    <3>1. q \in F /\ <<>> \in F /\ frames \in Seq(F)
      BY <1>1, <2>2 DEF FrameTypeOK
    <3> HIDE DEF F
    <3>2. Append(frames, q) \in Seq(F)
      BY <3>1
    <3>3. partial' \in F /\ frames' \in Seq(F)
      BY <1>1, <2>1, <3>1, <3>2
    <3>4. QED BY <1>1, <2>1, <2>2, <3>3 DEF FrameTypeOK, F
  <2>4. QED BY <1>1, <2>1, <2>3 DEF FrameTypes, Shared
<1>7. CASE UNCHANGED frameVars
  <2>1. UNCHANGED <<unit, task, holder, written, running, staged, buffer, short, channel,
                    partial, frames, badMagic, asked>>
    BY <1>7 DEF frameVars, decoder
  <2>2. QED BY <1>1, <2>1 DEF FrameTypes, FrameTypeOK, Shared
<1>8. QED BY <1>3, <1>4, <1>5, <1>6, <1>7 DEF FrameNext, WriterThread

\* Every variable of the send path keeps its type, whatever is cancelled.
THEOREM FramesTyped == FrameSpec => []FrameTypeOK
<1>1. FrameTypes => FrameTypeOK
  BY DEF FrameTypes
<1>2. QED BY <1>1, InitFrameTypes, NextFrameTypes, PTL DEF FrameSpec

ChannelTypes == RuntimeTypes /\ WtsInv /\ FrameTypes

\* In the composed system too every variable has its type, for any number of channels,
\* messages and senders; what the plugin's queues hold has been delivered.
THEOREM ChannelTyped == MCSpec => []MCTypeOK
<1>1. MCInit => ChannelTypes
  BY InitRuntimeTypes, WtsInitInv, InitFrameTypes DEF MCInit, ChannelTypes
<1>2. ChannelTypes /\ [MCNext]_<<part, vars, wtsVars, frameVars>> => ChannelTypes'
  <2> SUFFICES ASSUME RuntimeTypes, WtsInv, FrameTypes,
                      [MCNext]_<<part, vars, wtsVars, frameVars>>
               PROVE  ChannelTypes'
    BY DEF ChannelTypes
  <2>1. [Next]_vars /\ [WtsNext]_wtsVars /\ [FrameNext]_frameVars
    BY DEF MCNext, RuntimeStep, WtsStep, FramesStep
  <2>2. QED BY <2>1, NextRuntimeTypes, WtsKeepsInv, NextFrameTypes DEF ChannelTypes
<1>3. ChannelTypes => MCTypeOK
  BY RuntimeTyped DEF ChannelTypes, FrameTypes, WtsInv, WtsTyped, MCTypeOK
<1>4. QED BY <1>1, <1>2, <1>3, PTL DEF MCSpec

=============================================================================
