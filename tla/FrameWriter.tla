----------------------------- MODULE FrameWriter -----------------------------
(***************************************************************************)
(* How encoded frames reach a dynamic virtual channel and are put together *)
(* again: MuxPeer._send under _write_lock, the chunking write callbacks of *)
(* the mstsc plugin (mstsc_plugin.py) and of the WTS transport             *)
(* (windows_wts.py), which run on worker threads, and FrameDecoder         *)
(* (protocol.py) at the other end.                                         *)
(*                                                                         *)
(* One channel write takes a chunk there, and the whole frame on the       *)
(* channel of FreeRDP's stdio.  A channel write may fail, or be short on a *)
(* WTS channel, at any chunk of a frame: the thread raises, the lock is    *)
(* released, the sender gets the error and the mux goes on with the next   *)
(* frame on the same channel.                                              *)
(*                                                                         *)
(* asyncio.to_thread cannot interrupt a thread.  When a task is cancelled  *)
(* inside it, the await ends and the locks around it are released at once; *)
(* the thread goes on writing.                                             *)
(***************************************************************************)
EXTENDS ChannelConstants, Integers, Sequences

ChunkOf(w, i) == [frame |-> w, part |-> i]

VARIABLES
    unit,       \* what one channel write takes: "chunk" or "frame"
    task,       \* task[w]: where the coroutine of w stands
    holder,     \* the task that holds the write lock
    written,    \* written[w]: chunks the thread of w has put on the channel
    short,      \* the writers whose last chunk came there in part only
    running,    \* the threads that have not finished
    staged,     \* staged[w]: w's thread has copied its next chunk
    buffer,     \* the staging buffer that the threads of a WTS channel share
    channel,    \* chunks on their way to the other end
    partial,    \* chunks in FrameDecoder._buffer
    frames,     \* frames FrameDecoder has returned, as the chunks they consist of
    badMagic,   \* FrameDecoder raised "invalid frame magic"
    asked       \* tasks in the order in which they entered _send

decoder == <<partial, frames, badMagic>>
frameVars == <<unit, task, holder, written, running, staged, buffer, short, channel,
               decoder, asked>>

AnyChunk == [frame : Writers, part : Nat]

FrameTypeOK ==
    /\ unit \in Units
    /\ task \in [Writers -> {"idle", "waiting", "writing", "done", "failed", "cancelled"}]
    /\ holder \in Writers \cup {None}
    /\ written \in [Writers -> Nat]
    /\ short \subseteq Writers
    /\ running \subseteq Writers
    /\ staged \in [Writers -> BOOLEAN]
    /\ buffer \in AnyChunk \cup {None}
    /\ channel \in Seq(AnyChunk)
    /\ partial \in Seq(AnyChunk)
    /\ frames \in Seq(Seq(AnyChunk))
    /\ badMagic \in BOOLEAN
    /\ asked \in Seq(Writers)

FrameInit ==
    /\ unit \in Units
    /\ task = [w \in Writers |-> "idle"]
    /\ holder = None
    /\ written = [w \in Writers |-> 0]
    /\ short = {}
    /\ running = {}
    /\ staged = [w \in Writers |-> FALSE]
    /\ buffer = None
    /\ channel = <<>>
    /\ partial = <<>>
    /\ frames = <<>>
    /\ badMagic = FALSE
    /\ asked = <<>>

-----------------------------------------------------------------------------

\* Channel writes for the frame of w.
Size == [w \in Writers |-> IF unit = "frame" THEN 1 ELSE Chunks[w]]
\* A chunk is staged in a buffer that all writers share.
Shared == SharedBuffer /\ unit = "chunk"
\* A task may be cancelled while its thread writes.
Interruptible == CancelRunning \/ unit = "frame"

\* A task enters _send and queues for the lock.
Request(w) ==
    /\ task[w] = "idle"
    /\ task' = [task EXCEPT ![w] = "waiting"]
    /\ asked' = Append(asked, w)
    /\ UNCHANGED <<unit, holder, written, running, staged, buffer, channel, short, decoder>>

\* Another task entered _send before w and waits as well: the waiters of an
\* asyncio.Lock are served in turn, and one that is cancelled leaves.
Ahead(w) == \E j \in 1..Len(asked) :
    /\ asked[j] = w
    /\ \E i \in 1..(j - 1) : task[asked[i]] = "waiting"

\* Faulty: the lock goes to any task that waits for it.
AcquireAny(w) ==
    /\ holder = None
    /\ task[w] = "waiting"
    /\ holder' = w
    /\ task' = [task EXCEPT ![w] = "writing"]
    /\ running' = running \cup {w}
    /\ UNCHANGED <<unit, written, staged, buffer, channel, short, decoder, asked>>

\* The lock is free and w is first in line: w takes it and starts its thread.
Acquire(w) ==
    /\ holder = None
    /\ task[w] = "waiting" /\ ~Ahead(w)
    /\ holder' = w
    /\ task' = [task EXCEPT ![w] = "writing"]
    /\ running' = running \cup {w}
    /\ UNCHANGED <<unit, written, staged, buffer, channel, short, decoder, asked>>

\* Faulty: nothing is copied.
StageNothing(w) ==
    /\ w \in running
    /\ ~staged[w]
    /\ written[w] < Size[w]
    /\ staged' = [staged EXCEPT ![w] = TRUE]
    /\ UNCHANGED <<unit, task, holder, written, running, buffer, channel, short, decoder, asked>>

\* The thread of w copies its next chunk to where it will be written from.
Stage(w) ==
    /\ w \in running
    /\ ~staged[w]
    /\ written[w] < Size[w]
    /\ staged' = [staged EXCEPT ![w] = TRUE]
    /\ buffer' = IF Shared THEN ChunkOf(w, written[w] + 1) ELSE buffer
    /\ UNCHANGED <<unit, task, holder, written, running, channel, short, decoder, asked>>

\* Faulty: the offset into the frame is not advanced.
PutChunkAgain(w) ==
    /\ w \in running
    /\ staged[w]
    /\ written[w] < Size[w]
    /\ staged' = [staged EXCEPT ![w] = FALSE]
    /\ channel' = Append(channel, IF Shared THEN buffer ELSE ChunkOf(w, written[w] + 1))
    /\ UNCHANGED <<unit, task, holder, written, running, buffer, short, decoder, asked>>

\* One channel write; the WTS transport makes it under _io_lock, and its buffer
\* holds whatever was copied there last.
PutChunk(w) ==
    /\ w \in running
    /\ staged[w]
    /\ staged' = [staged EXCEPT ![w] = FALSE]
    /\ written' = [written EXCEPT ![w] = @ + 1]
    /\ channel' = Append(channel, IF Shared THEN buffer ELSE ChunkOf(w, written[w] + 1))
    /\ UNCHANGED <<unit, task, holder, running, buffer, short, decoder, asked>>

\* A channel write fails, or takes only part of the chunk, and the thread raises
\* in the middle of its frame.  The task that waits for it releases the lock.
WriteFails(w) ==
    /\ w \in running
    /\ staged[w]
    /\ staged' = [staged EXCEPT ![w] = FALSE]
    /\ running' = running \ {w}
    /\ task' = [task EXCEPT ![w] = IF @ = "writing" THEN "failed" ELSE @]
    /\ holder' = IF holder = w THEN None ELSE holder
    /\ \/ UNCHANGED <<written, channel, short>>
       \/ /\ Shared
          /\ written' = [written EXCEPT ![w] = @ + 1]
          /\ channel' = Append(channel, buffer)
          /\ short' = short \cup {w}
    /\ UNCHANGED <<unit, buffer, decoder, asked>>

\* The frames that are on the channel in part and never will be whole.
Torn == {w \in Writers \ running : 0 < written[w] /\ (written[w] < Size[w] \/ w \in short)}

\* Faulty: the lock is not released.
ThreadDoneLocked(w) ==
    /\ w \in running
    /\ written[w] = Size[w]
    /\ running' = running \ {w}
    /\ task' = [task EXCEPT ![w] = IF @ = "writing" THEN "done" ELSE @]
    /\ UNCHANGED <<unit, holder, written, staged, buffer, channel, short, decoder, asked>>

\* The thread returns.  If its task still waits for it, the task releases the lock.
ThreadDone(w) ==
    /\ w \in running
    /\ written[w] = Size[w]
    /\ running' = running \ {w}
    /\ task' = [task EXCEPT ![w] = IF @ = "writing" THEN "done" ELSE @]
    /\ holder' = IF holder = w THEN None ELSE holder
    /\ UNCHANGED <<unit, written, staged, buffer, channel, short, decoder, asked>>

\* A task is cancelled while it waits for the lock: it leaves the queue.
CancelWaiting(w) ==
    /\ task[w] = "waiting"
    /\ task' = [task EXCEPT ![w] = "cancelled"]
    /\ UNCHANGED <<unit, holder, written, running, staged, buffer, channel, short, decoder, asked>>

\* A task is cancelled while its thread writes: the lock is released, the
\* thread is not stopped.
CancelWriting(w) ==
    /\ Interruptible
    /\ task[w] = "writing"
    /\ task' = [task EXCEPT ![w] = "cancelled"]
    /\ holder' = None
    /\ UNCHANGED <<unit, written, running, staged, buffer, channel, short, decoder, asked>>

(***************************************************************************)
(* FrameDecoder.feed with the next channel message.  At a frame boundary   *)
(* it must be the start of a frame, whose header announces the length of   *)
(* the whole; what follows is taken as payload whatever it is, and what a  *)
(* short chunk lacks is taken from the chunk behind it.                    *)
(***************************************************************************)
Awaited(w) == Size[w] + (IF w \in short THEN 1 ELSE 0)

Decode ==
    /\ channel # <<>>
    /\ ~badMagic
    /\ LET got == Append(partial, Head(channel)) IN
       /\ channel' = Tail(channel)
       /\ badMagic' = (Head(got).part # 1)
       /\ IF Head(got).part = 1 /\ Len(got) = Awaited(Head(got).frame)
          THEN partial' = <<>> /\ frames' = Append(frames, got)
          ELSE partial' = got /\ frames' = frames
    /\ UNCHANGED <<unit, task, holder, written, running, staged, buffer, short, asked>>

WriterThread(w) == Stage(w) \/ PutChunk(w) \/ ThreadDone(w)

FrameNext ==
    \/ \E w \in Writers :
        \/ Request(w) \/ Acquire(w) \/ WriterThread(w) \/ WriteFails(w)
        \/ CancelWaiting(w) \/ CancelWriting(w)
    \/ Decode

\* The lock is handed over, threads run, and the other end reads.
FrameProgress == (\E w \in Writers : Acquire(w) \/ WriterThread(w)) \/ Decode

FrameSpec == FrameInit /\ [][FrameNext]_frameVars /\ WF_frameVars(FrameProgress)

-----------------------------------------------------------------------------

\* What leaves FrameDecoder is what entered _send, up to the first frame that a
\* failed write has torn: every frame it returns is the chunks of one frame in
\* order, and before it has filled a torn frame with what follows it never loses
\* the frame boundary.  No frame ever comes twice.
FramesIntact ==
    /\ badMagic => \E i \in 1..Len(frames) : frames[i][1].frame \in Torn
    /\ \A i \in 1..Len(frames) :
        LET w == frames[i][1].frame IN
        \/ frames[i] = [j \in 1..Size[w] |-> ChunkOf(w, j)]
        \/ \E j \in 1..i : frames[j][1].frame \in Torn
    /\ \A i, j \in 1..Len(frames) : frames[i] = frames[j] => i = j

\* Frames that go out in chunks leave FrameDecoder in the order in which their senders
\* entered _send, which the mux relies on when it lets a HALF_CLOSE follow its data.
OrderKept == unit = "chunk" => \A i, j \in 1..Len(frames) : i < j =>
    \E a, b \in 1..Len(asked) :
        a < b /\ asked[a] = frames[i][1].frame /\ asked[b] = frames[j][1].frame

\* A torn frame went to the channel before w asked for the lock, or could.
BehindTorn(w) == \E a, b \in 1..Len(asked) : a < b /\ asked[a] \in Torn /\ asked[b] = w

\* Sends that wait for the lock come to an end, even when those before them fail or
\* are cancelled; and the frames of those that neither fail nor are cancelled arrive,
\* unless a failed write has torn a frame that was sent before them.
FramesArrive == (\E w \in Writers : task[w] = "waiting") ~>
    \A w \in Writers :
        \/ task[w] \in {"idle", "failed", "cancelled"}
        \/ BehindTorn(w)
        \/ \E i \in 1..Len(frames) : frames[i][1].frame = w

=============================================================================
