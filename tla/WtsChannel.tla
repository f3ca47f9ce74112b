------------------------------ MODULE WtsChannel ------------------------------
(***************************************************************************)
(* WTSChannelTransport (windows_wts.py): a polling reader, a writer and    *)
(* close(), each on a worker thread, share one channel handle under        *)
(* _io_lock; the reader puts messages together from chunks with            *)
(* ChunkReassembler.                                                       *)
(*                                                                         *)
(* A message is the sequence of its parts; a chunk carries one part.  The  *)
(* stack may lose chunks, which the reassembler is there to notice.        *)
(***************************************************************************)
EXTENDS ChannelConstants, Integers, Sequences

Message(i) == [p \in 1..Messages[i] |-> <<i, p>>]
Chunk(i, p) == [length |-> Messages[i], first |-> p = 1, last |-> p = Messages[i], part |-> <<i, p>>]

VARIABLES
    coming,     \* the next chunk of the stack: the part coming[2] of message coming[1]
    lost,       \* how many it has lost
    gathered,   \* _message
    declared,   \* _declared_length, 0 for None
    returned,   \* messages read() has returned
    closed,     \* _closed
    handle,     \* the handle is "open" or "closed"
    lock,       \* the thread that holds _io_lock
    reader,     \* the reader: "idle" between polls, then its blocking call
    writer,     \* the writer's blocking call
    closer,     \* the thread of close_handle
    puts        \* chunks written

wtsVars == <<coming, lost, gathered, declared, returned, closed, handle, lock,
          reader, writer, closer, puts>>
assembly == <<gathered, declared, returned>>

Pcs == {"idle", "entered", "calling", "done", "failed"}
WtsTypeOK ==
    /\ lost \in 0..MaxLost /\ puts \in 0..MaxWrites
    /\ declared \in Nat
    /\ closed \in BOOLEAN /\ handle \in {"open", "closed"}
    /\ lock \in {"none", "reader", "writer", "closer"}
    /\ reader \in Pcs /\ writer \in Pcs /\ closer \in Pcs

WtsInit ==
    /\ coming = <<1, 1>>
    /\ lost = 0
    /\ gathered = <<>> /\ declared = 0 /\ returned = <<>>
    /\ closed = FALSE /\ handle = "open" /\ lock = "none"
    /\ reader = "idle" /\ writer = "idle" /\ closer = "idle"
    /\ puts = 0

-----------------------------------------------------------------------------
(* ChunkReassembler.feed: the state after the chunk, with error or message set *)

Reset == [gathered |-> <<>>, declared |-> 0, error |-> FALSE, message |-> <<>>]

\* Faulty: LAST ends a message whatever has arrived of it.
ReassembleUnchecked(c) ==
    LET got == Append(IF c.first THEN <<>> ELSE gathered, c.part) IN
    IF c.length > MaxMessage \/ (~c.first /\ c.length # declared) \/ Len(got) > c.length
    THEN [Reset EXCEPT !.error = TRUE]
    ELSE IF ~c.last THEN [Reset EXCEPT !.gathered = got, !.declared = c.length]
    ELSE [Reset EXCEPT !.message = got]

\* Without FIRST the chunk must continue a message of the same declared length
\* (0, of no message, is the length of no chunk).
Reassemble(c) ==
    LET got == Append(IF c.first THEN <<>> ELSE gathered, c.part) IN
    IF c.length > MaxMessage \/ (~c.first /\ c.length # declared) \/ Len(got) > c.length
    THEN [Reset EXCEPT !.error = TRUE]
    ELSE IF ~c.last THEN [Reset EXCEPT !.gathered = got, !.declared = c.length]
    ELSE IF Len(got) # c.length THEN [Reset EXCEPT !.error = TRUE]
    ELSE [Reset EXCEPT !.message = got]

More == coming[1] <= Len(Messages)
Following == IF coming[2] < Messages[coming[1]] THEN <<coming[1], coming[2] + 1>>
             ELSE <<coming[1] + 1, 1>>

\* The stack loses a chunk.
Lose ==
    /\ More /\ lost < MaxLost
    /\ coming' = Following /\ lost' = lost + 1
    /\ UNCHANGED <<assembly, closed, handle, lock, reader, writer, closer, puts>>

-----------------------------------------------------------------------------
(* The reader *)

\* read() enters the blocking call, or returns the end of data.
Poll ==
    /\ reader = "idle"
    /\ reader' = IF closed THEN "done" ELSE "entered"
    /\ UNCHANGED <<coming, lost, assembly, closed, handle, lock, writer, closer, puts>>

ReadLock ==
    /\ reader = "entered" /\ lock = "none"
    /\ IF closed THEN reader' = "done" /\ UNCHANGED lock
       ELSE reader' = "calling" /\ lock' = "reader"
    /\ UNCHANGED <<coming, lost, assembly, closed, handle, writer, closer, puts>>

\* Faulty: a read that fails keeps the lock.
ReadReturnsLocked ==
    /\ reader = "calling" /\ ~More
    /\ \/ reader' = "idle" /\ lock' = "none"
       \/ reader' = "failed" /\ UNCHANGED lock
    /\ UNCHANGED <<coming, lost, assembly, closed, handle, writer, closer, puts>>

\* A chunk is read.
TakeChunk ==
    /\ More
    /\ coming' = Following
    /\ LET r == Reassemble(Chunk(coming[1], coming[2])) IN
       /\ gathered' = r.gathered /\ declared' = r.declared
       /\ reader' = IF r.error THEN "failed" ELSE "idle"
       /\ returned' = IF r.message = <<>> THEN returned ELSE Append(returned, r.message)

\* WTSVirtualChannelRead returns a chunk, times out, or fails.
ReadReturns ==
    /\ reader = "calling"
    /\ lock' = "none"
    /\ \/ TakeChunk
       \/ reader' \in {"idle", "failed"} /\ UNCHANGED <<coming, assembly>>
    /\ UNCHANGED <<lost, closed, handle, writer, closer, puts>>

(* The writer: one chunk of _blocking_write *)

Write ==
    /\ writer = "idle" /\ puts < MaxWrites
    /\ writer' = IF closed THEN "failed" ELSE "entered"
    /\ UNCHANGED <<coming, lost, assembly, closed, handle, lock, reader, closer, puts>>

WriteLock ==
    /\ writer = "entered" /\ lock = "none"
    /\ IF closed THEN writer' = "failed" /\ UNCHANGED lock
       ELSE writer' = "calling" /\ lock' = "writer"
    /\ UNCHANGED <<coming, lost, assembly, closed, handle, reader, closer, puts>>

\* A failed or short write raises.
WriteReturns ==
    /\ writer = "calling"
    /\ lock' = "none"
    /\ \/ writer' = "idle" /\ puts' = puts + 1
       \/ writer' = "failed" /\ UNCHANGED puts
    /\ UNCHANGED <<coming, lost, assembly, closed, handle, reader, closer>>

(* close *)

Close ==
    /\ ~closed
    /\ closed' = TRUE /\ closer' = "entered"
    /\ UNCHANGED <<coming, lost, assembly, handle, lock, reader, writer, puts>>

CloseHandle ==
    /\ closer = "entered" /\ lock = "none"
    /\ handle' = "closed" /\ closer' = "done"
    /\ UNCHANGED <<coming, lost, assembly, closed, lock, reader, writer, puts>>

Reader == Poll \/ ReadLock \/ ReadReturns

WtsNext == Lose \/ Reader \/ Write \/ WriteLock \/ WriteReturns \/ Close \/ CloseHandle

\* The reader sleeps between polls, so that the lock is free again and again for
\* the others to take.
WtsFairness ==
    /\ WF_wtsVars(Reader) /\ WF_wtsVars(WriteReturns)
    /\ SF_wtsVars(WriteLock) /\ SF_wtsVars(CloseHandle)

WtsSpec == WtsInit /\ [][WtsNext]_wtsVars /\ WtsFairness

-----------------------------------------------------------------------------

\* The handle is used by one thread at a time, and by none once it is closed.
HandleGuarded ==
    /\ reader = "calling" => handle = "open" /\ lock = "reader"
    /\ writer = "calling" => handle = "open" /\ lock = "writer"

\* When no chunk is lost read() returns the messages in order.  When some are, a
\* message that was not sent as a whole takes the loss of as much as it is long: the
\* chunks of two messages of one length, with the end of the first and the
\* beginning of the second missing, are one to the reassembler.
MessagesWhole == \A k \in 1..Len(returned) :
    /\ lost = 0 => returned[k] = Message(k)
    /\ (\E i \in 1..Len(Messages) : returned[k] = Message(i)) \/ lost >= Len(returned[k])

\* What the WTS transport returns is whole, and its handle is guarded.
TransportSafe == MessagesWhole /\ HandleGuarded

\* close() closes the handle and ends the reader and the writer, whatever they
\* are waiting for.
CloseCompletes == closed ~>
    handle = "closed" /\ reader \in {"done", "failed"} /\ writer \in {"idle", "failed"}

=============================================================================
