------------------------------- MODULE Requests -------------------------------
(***************************************************************************)
(* One request to the control API each: ControlHTTPServer (http.py) reads  *)
(* it, ControlClient (client.py) sends it as one message on a new mux      *)
(* stream, ControlService (service.py) carries it out and replies with one *)
(* message (framing.py), and the HTTP client is answered.                  *)
(*                                                                         *)
(* A message is a first part, its header, and the parts of its body.  It   *)
(* is written in one step: the credit a write waits for is in MuxStreams.  *)
(* `up` and `down` hold what is under way or buffered on a stream.         *)
(***************************************************************************)
EXTENDS ControlConstants, Integers, Sequences

VARIABLES
    http,       \* http[r]: where the HTTP handler of r stands
    op, size,   \* what r asks for, and the parts of the body it announces
    arrived,    \* parts of that body that have come
    up, down,   \* the two directions of the stream of r
    taken, got, \* parts of the message read at the agent, and at the client
    handler,    \* handler[r]: ControlService.handle
    length,     \* parts of the reply
    good,       \* replies that say ok
    proc,       \* proc[r]: the process of an exec
    file,       \* a file at the agent: who wrote it, and its parts
    tunnel,     \* the mux is up
    answer      \* answer[r]: what the HTTP client is told

client == <<http, op, size, arrived, got, answer>>
agent == <<taken, handler, length, good, proc, file>>
vars == <<client, agent, up, down, tunnel>>

Operations == {"exec", "write_file", "read_file"}

RequestsTypeOK ==
    /\ http \in [Jobs -> {"idle", "receiving", "opening", "sending", "reading", "ended", "left"}]
    /\ op \in [Jobs -> Operations] /\ size \in [Jobs -> 0..MaxBody + 1]
    /\ arrived \in [Jobs -> 0..MaxBody]
    /\ \A r \in Jobs : \A q \in {up[r], down[r]} : \A i \in 1..Len(q) : q[i] \in {"part", "eof"}
    /\ taken \in [Jobs -> 0..MaxBody + 1] /\ got \in [Jobs -> 0..MaxBody + 2]
    /\ handler \in [Jobs -> {"none", "reading", "dispatching", "running", "replying", "ended"}]
    /\ length \in [Jobs -> 0..MaxBody + 2] /\ good \subseteq Jobs
    /\ proc \in [Jobs -> {"none", "running", "exited", "killed"}]
    /\ file \in (Jobs \cup {NoClient}) \X (0..MaxBody + 1)
    /\ tunnel \in BOOLEAN
    /\ answer \in [Jobs -> {"none", "ok", "error"}]

Init ==
    /\ http = [r \in Jobs |-> "idle"]
    /\ op = [r \in Jobs |-> "exec"] /\ size = [r \in Jobs |-> 0]
    /\ arrived = [r \in Jobs |-> 0]
    /\ up = [r \in Jobs |-> <<>>] /\ down = [r \in Jobs |-> <<>>]
    /\ taken = [r \in Jobs |-> 0] /\ got = [r \in Jobs |-> 0]
    /\ handler = [r \in Jobs |-> "none"]
    /\ length = [r \in Jobs |-> 0] /\ good = {}
    /\ proc = [r \in Jobs |-> "none"]
    /\ file \in {NoClient} \X (0..MaxBody + 1)
    /\ tunnel = TRUE
    /\ answer = [r \in Jobs |-> "none"]

-----------------------------------------------------------------------------
(* HTTP *)

Goes(r, pc) == http' = [http EXCEPT ![r] = pc] /\ UNCHANGED answer
Answer(r, a) == http' = [http EXCEPT ![r] = "ended"] /\ answer' = [answer EXCEPT ![r] = a]

\* A head; one that does not come whole, or is too long, is left without an answer.
Begin(r) ==
    /\ http[r] = "idle"
    /\ \/ Goes(r, "left") /\ UNCHANGED <<op, size>>
       \/ \E o \in Operations, n \in 0..MaxBody + 1 :
            /\ o # "write_file" => n = 0
            /\ op' = [op EXCEPT ![r] = o] /\ size' = [size EXCEPT ![r] = n]
            /\ IF n > MaxBody THEN Answer(r, "error") ELSE Goes(r, "receiving")
    /\ UNCHANGED <<arrived, got, agent, up, down, tunnel>>

BodyPart(r) ==
    /\ http[r] = "receiving" /\ arrived[r] < size[r]
    /\ arrived' = [arrived EXCEPT ![r] = @ + 1]
    /\ UNCHANGED <<http, op, size, got, answer, agent, up, down, tunnel>>

\* Faulty: what has come of the body is taken for all of it.
ReadShort(r) ==
    /\ http[r] = "receiving"
    /\ Goes(r, "opening")
    /\ UNCHANGED <<op, size, arrived, got, agent, up, down, tunnel>>

\* The connection ends before the body does, or the body is whole.
ReadRequest(r) ==
    /\ http[r] = "receiving"
    /\ IF arrived[r] = size[r] THEN Goes(r, "opening") ELSE Answer(r, "error")
    /\ UNCHANGED <<op, size, arrived, got, agent, up, down, tunnel>>

-----------------------------------------------------------------------------
(* The client half *)

\* Refused at the task limit or because control is disabled, too late, or no tunnel.
OpenStream(r) ==
    /\ http[r] = "opening"
    /\ \/ Answer(r, "error") /\ UNCHANGED handler
       \/ /\ tunnel
          /\ Goes(r, "sending")
          /\ handler' = [handler EXCEPT ![r] = "reading"]
    /\ UNCHANGED <<op, size, arrived, got, taken, length, good, proc, file, up, down, tunnel>>

Parts(n) == [i \in 1..n |-> "part"]

\* The message and the end of the stream.
Send(r) ==
    /\ http[r] = "sending"
    /\ IF tunnel
       THEN Goes(r, "reading") /\ up' = [up EXCEPT ![r] = Append(Parts(1 + arrived[r]), "eof")]
       ELSE Answer(r, "error") /\ UNCHANGED up
    /\ UNCHANGED <<op, size, arrived, got, agent, down, tunnel>>

\* MessageReader: a reply is read when its last part is; one whose header announces
\* more than a body may have is refused.
ReadReply(r) ==
    /\ http[r] = "reading" /\ down[r] # <<>> /\ Head(down[r]) = "part"
    /\ down' = [down EXCEPT ![r] = Tail(@)]
    /\ got' = [got EXCEPT ![r] = @ + 1]
    /\ IF length[r] > MaxBody + 1 THEN Answer(r, "error")
       ELSE IF got'[r] = length[r] THEN Answer(r, IF r \in good THEN "ok" ELSE "error")
       ELSE Goes(r, "reading")
    /\ UNCHANGED <<op, size, arrived, agent, up, tunnel>>

\* The stream ends, or is closed, before the reply is whole.
NoReply(r) ==
    /\ http[r] = "reading"
    /\ IF down[r] = <<>> THEN ~tunnel \/ handler[r] = "ended" ELSE Head(down[r]) = "eof"
    /\ Answer(r, "error")
    /\ UNCHANGED <<op, size, arrived, got, agent, up, down, tunnel>>

-----------------------------------------------------------------------------
(* The agent *)

Handler(r, pc) == handler' = [handler EXCEPT ![r] = pc]

\* The reply that is written next: n parts, and whether it says ok.
Reply(r, n, ok) ==
    /\ Handler(r, "replying")
    /\ length' = [length EXCEPT ![r] = n]
    /\ good' = IF ok THEN good \cup {r} ELSE good

ReadMessage(r) ==
    /\ handler[r] = "reading" /\ up[r] # <<>> /\ Head(up[r]) = "part"
    /\ up' = [up EXCEPT ![r] = Tail(@)]
    /\ taken' = [taken EXCEPT ![r] = @ + 1]
    /\ Handler(r, IF taken'[r] = 1 + arrived[r] THEN "dispatching" ELSE "reading")
    /\ UNCHANGED <<client, length, good, proc, file, down, tunnel>>

\* Nothing came: the stream is closed.  A message that is cut off: an error.
MessageEnds(r) ==
    /\ handler[r] = "reading"
    /\ IF up[r] = <<>> THEN ~tunnel \/ http[r] = "ended" ELSE Head(up[r]) = "eof"
    /\ IF taken[r] = 0 THEN Handler(r, "ended") /\ UNCHANGED <<length, good>>
                       ELSE Reply(r, 1, FALSE)
    /\ UNCHANGED <<client, taken, proc, file, up, down, tunnel>>

\* Disabled, denied, malformed, or failed before anything is done.
Refuse(r) ==
    /\ handler[r] = "dispatching"
    /\ Reply(r, 1, FALSE)
    /\ UNCHANGED <<client, taken, proc, file, up, down, tunnel>>

Write(r) ==
    /\ handler[r] = "dispatching" /\ op[r] = "write_file"
    /\ file' = <<r, taken[r] - 1>>
    /\ Reply(r, 1, TRUE)
    /\ UNCHANGED <<client, taken, proc, up, down, tunnel>>

\* write_bytes empties the file first, and fails with any part of the body in it.
WriteFails(r) ==
    /\ handler[r] = "dispatching" /\ op[r] = "write_file"
    /\ \E n \in 0..taken[r] - 1 : file' = <<r, n>>
    /\ Reply(r, 1, FALSE)
    /\ UNCHANGED <<client, taken, proc, up, down, tunnel>>

Read(r) ==
    /\ handler[r] = "dispatching" /\ op[r] = "read_file"
    /\ Reply(r, 1 + file[2], TRUE)
    /\ UNCHANGED <<client, taken, proc, file, up, down, tunnel>>

Spawn(r) ==
    /\ handler[r] = "dispatching" /\ op[r] = "exec"
    /\ Handler(r, "running")
    /\ proc' = [proc EXCEPT ![r] = "running"]
    /\ UNCHANGED <<client, taken, length, good, file, up, down, tunnel>>

Exits(r) ==
    /\ proc[r] = "running"
    /\ proc' = [proc EXCEPT ![r] = "exited"]
    /\ UNCHANGED <<client, taken, handler, length, good, file, up, down, tunnel>>

\* communicate returns; output that does not fit is cut and the reply still says ok.
Finishes(r) ==
    /\ handler[r] = "running" /\ proc[r] = "exited"
    /\ Reply(r, 1, TRUE)
    /\ UNCHANGED <<client, taken, proc, file, up, down, tunnel>>

\* Faulty: the process is waited for without having been killed.
TimesOutWaits(r) ==
    /\ handler[r] = "running" /\ proc[r] = "exited"
    /\ Reply(r, 1, FALSE)
    /\ UNCHANGED <<client, taken, proc, file, up, down, tunnel>>

TimesOut(r) ==
    /\ handler[r] = "running"
    /\ proc' = [proc EXCEPT ![r] = IF @ = "running" THEN "killed" ELSE @]
    /\ Reply(r, 1, FALSE)
    /\ UNCHANGED <<client, taken, file, up, down, tunnel>>

\* The reply, the end of the stream, and its close; none on a stream that is closed.
WriteReply(r) ==
    /\ handler[r] = "replying"
    /\ Handler(r, "ended")
    /\ down' = IF tunnel /\ http[r] # "ended"
               THEN [down EXCEPT ![r] = Append(Parts(length[r]), "eof")] ELSE down
    /\ UNCHANGED <<client, taken, length, good, proc, file, up, tunnel>>

\* AgentForwarder.close, once the tunnel has ended: the process of an exec runs on.
Cancelled(r) ==
    /\ ~tunnel /\ handler[r] \notin {"none", "ended"}
    /\ Handler(r, "ended")
    /\ UNCHANGED <<client, taken, length, good, proc, file, up, down, tunnel>>

\* A stream whose end has been delivered keeps what is buffered; another loses it.
TunnelEnds ==
    /\ tunnel
    /\ tunnel' = FALSE
    /\ \E keepUp, keepDown \in SUBSET Jobs :
        /\ up' = [r \in Jobs |-> IF r \in keepUp THEN up[r] ELSE <<>>]
        /\ down' = [r \in Jobs |-> IF r \in keepDown THEN down[r] ELSE <<>>]
    /\ UNCHANGED <<client, agent>>

-----------------------------------------------------------------------------

\* What never waits for ever: opening a stream has a timeout, and so has an exec.
Client(r) == OpenStream(r) \/ Send(r) \/ ReadReply(r) \/ NoReply(r)
Agent(r) ==
    \/ ReadMessage(r) \/ MessageEnds(r) \/ Refuse(r) \/ Write(r) \/ WriteFails(r) \/ Read(r)
    \/ Spawn(r) \/ Finishes(r) \/ TimesOut(r) \/ WriteReply(r) \/ Cancelled(r)

Next ==
    \/ \E r \in Jobs :
        Begin(r) \/ BodyPart(r) \/ ReadRequest(r) \/ Exits(r) \/ Client(r) \/ Agent(r)
    \/ TunnelEnds

Fairness == \A r \in Jobs : WF_vars(Client(r)) /\ WF_vars(Agent(r))

Spec == Init /\ [][Next]_vars /\ Fairness

-----------------------------------------------------------------------------

\* The client is told ok only when the operation was carried out to its end and the
\* reply came whole; and a file holds a part of the body that was announced, instead of
\* all of it, only after a write that failed and was not answered with ok.  A later read
\* of such a file is: nothing tells its part from a whole body.
ReplyWhole ==
    /\ \A r \in Jobs : answer[r] = "ok" =>
        /\ r \in good /\ got[r] = length[r]
        /\ op[r] = "exec" => proc[r] = "exited"
        /\ op[r] = "write_file" => taken[r] = 1 + size[r]
    /\ file[1] \in Jobs => /\ file[2] <= size[file[1]]
                           /\ file[1] \in good => file[2] = size[file[1]]

\* Requests that have been read are all answered, whether or not a command ends, the
\* agent replies or the tunnel lasts, and their processes are killed unless the tunnel
\* has ended.
Busy(r) == http[r] \in {"opening", "sending", "reading"} \/ (proc[r] = "running" /\ tunnel)

RequestsEnd == (\E r \in Jobs : Busy(r)) ~> \A r \in Jobs : ~Busy(r)

=============================================================================
