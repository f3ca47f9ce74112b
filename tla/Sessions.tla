------------------------------- MODULE Sessions -------------------------------
(***************************************************************************)
(* Persistent shells: the session table of ControlHTTPServer (http.py),    *)
(* ShellSession (client.py) over one mux stream per session, and           *)
(* _handle_shell with its PersistentShell (service.py, shell.py) at the    *)
(* agent.  HTTP requests run concurrently.                                 *)
(*                                                                         *)
(* A session is named by the request that opens it.  Messages carry the    *)
(* request whose command they belong to, which the program's do not.       *)
(***************************************************************************)
EXTENDS ControlConstants, Integers, Sequences, FiniteSets

VARIABLES
    req,        \* req[r]: where the handler of request r stands
    stale,      \* stale[r]: what the reaper of r has still to close
    shells,     \* _shells
    touched,    \* _shell_touched
    shut,       \* sessions whose ShellSession is closed
    up, down,   \* messages on the stream of a session
    handler,    \* handler[s]: _handle_shell, "ending" while it waits in its finally clause
    cut,        \* sessions whose handler was cancelled there
    cmd,        \* cmd[s]: the request whose command run_task executes
    printed,    \* requests whose command has printed
    proc,       \* proc[s]: the shell process
    tunnel,     \* the mux is up
    answer,     \* answer[r]: the commands whose output and result r was given
    mixed       \* sessions with overlapping runs, or a run given up

client == <<req, stale, shells, touched, answer, mixed>>
agent == <<handler, cut, cmd, printed, proc>>
vars == <<client, agent, shut, up, down, tunnel>>

Requests == Openers \cup Users
NoRun == "none"

SessionsTypeOK ==
    /\ req \in [Requests -> {"idle", "reaping", "opening", "reading", "closing", "done", "failed"}]
    /\ stale \in [Requests -> SUBSET Openers]
    /\ shells \subseteq Openers /\ touched \subseteq Openers /\ shut \subseteq Openers
    /\ \A s \in Openers : \A i \in 1..Len(up[s]) :
        up[s][i][1] \in {"shell_open", "input", "interrupt", "close"} /\ up[s][i][2] \in Requests
    /\ \A s \in Openers : \A i \in 1..Len(down[s]) :
        down[s][i][1] \in {"ready", "stdout", "result", "error"} /\ down[s][i][2] \in Requests
    /\ handler \in [Openers -> {"none", "ready", "running", "ending", "ended"}]
    /\ cut \subseteq Openers
    /\ cmd \in [Openers -> Users \cup {NoRun}]
    /\ printed \subseteq Users
    /\ proc \in [Openers -> {"none", "alive", "dead"}]
    /\ tunnel \in BOOLEAN
    /\ answer \in [Users -> SUBSET Users]
    /\ mixed \subseteq Openers

Init ==
    /\ req = [r \in Requests |-> "idle"]
    /\ stale = [r \in Requests |-> {}]
    /\ shells = {} /\ touched = {} /\ shut = {}
    /\ up = [s \in Openers |-> <<>>] /\ down = [s \in Openers |-> <<>>]
    /\ handler = [s \in Openers |-> "none"]
    /\ cmd = [s \in Openers |-> NoRun]
    /\ printed = {} /\ cut = {}
    /\ proc = [s \in Openers |-> "none"]
    /\ tunnel = TRUE
    /\ answer = [r \in Users |-> {}]
    /\ mixed = {}

-----------------------------------------------------------------------------
\* Writes to the stream of s fail.
Dead(s) == ~tunnel \/ s \in shut \/ handler[s] = "ended"

Ask(s, op, r) == up' = [up EXCEPT ![s] = Append(@, <<op, r>>)]
Reply(s, kind, r) == down' = [down EXCEPT ![s] = Append(@, <<kind, r>>)]
Pc(r, pc) == req' = [req EXCEPT ![r] = pc]

\* ShellSession.close: the "close" message and the end of the stream.
Shut(s) ==
    /\ shut' = shut \cup {s}
    /\ IF Dead(s) THEN UNCHANGED up ELSE Ask(s, "close", s)

(* POST /v1/sessions *)

\* Faulty: the sessions to be closed are forgotten before they are closed.
ReapForgets(r) ==
    /\ r \in Openers /\ req[r] = "idle"
    /\ Pc(r, "reaping")
    /\ \E idle \in SUBSET touched :
        stale' = [stale EXCEPT ![r] = idle] /\ touched' = touched \ idle
    /\ UNCHANGED <<shells, answer, mixed, agent, shut, up, down, tunnel>>

\* The sessions that no request has finished on for the idle timeout: any set.
Reap(r) ==
    /\ r \in Openers /\ req[r] = "idle"
    /\ Pc(r, "reaping")
    /\ \E idle \in SUBSET touched : stale' = [stale EXCEPT ![r] = idle]
    /\ UNCHANGED <<shells, touched, answer, mixed, agent, shut, up, down, tunnel>>

\* One of them is taken from the table and closed; what close raises ends the request.
ReapOne(r) ==
    /\ req[r] = "reaping"
    /\ \E s \in stale[r] :
        /\ stale' = [stale EXCEPT ![r] = @ \ {s}]
        /\ shells' = shells \ {s} /\ touched' = touched \ {s}
        /\ IF s \notin shells
           THEN UNCHANGED <<req, shut, up>>
           ELSE /\ Shut(s)
                /\ IF Dead(s) /\ s \notin shut THEN Pc(r, "failed") ELSE UNCHANGED req
    /\ UNCHANGED <<answer, mixed, agent, down, tunnel>>

\* The limit, and shell_open on a new stream.
Open(r) ==
    /\ req[r] = "reaping" /\ stale[r] = {}
    /\ IF Cardinality(shells) >= MaxSessions \/ ~tunnel
       THEN Pc(r, "failed") /\ UNCHANGED up
       ELSE Pc(r, "opening") /\ Ask(r, "shell_open", r)
    /\ UNCHANGED <<stale, shells, touched, answer, mixed, agent, shut, down, tunnel>>

Opened(r) ==
    /\ req[r] = "opening" /\ down[r] # <<>>
    /\ Pc(r, "done")
    /\ down' = [down EXCEPT ![r] = Tail(@)]
    /\ shells' = shells \cup {r} /\ touched' = touched \cup {r}
    /\ UNCHANGED <<stale, answer, mixed, agent, shut, up, tunnel>>

\* The agent does not answer in time, or the tunnel ends; the stream stays open.
OpenFails(r) ==
    /\ req[r] = "opening"
    /\ Pc(r, "failed")
    /\ UNCHANGED <<stale, shells, touched, answer, mixed, agent, shut, up, down, tunnel>>

-----------------------------------------------------------------------------
(* POST .../run and .../interrupt *)

Reading(s) == {r \in Requests : req[r] = "reading" /\ About[r] = s}

Run(r) ==
    LET s == About[r] IN
    /\ req[r] = "idle" /\ s \in shells
    /\ IF Dead(s) THEN Pc(r, "failed") /\ UNCHANGED up
                  ELSE Pc(r, "reading") /\ Ask(s, "input", r)
    /\ mixed' = IF Reading(s) = {} THEN mixed ELSE mixed \cup {s}
    /\ UNCHANGED <<stale, shells, touched, answer, agent, shut, down, tunnel>>

\* The next message of the stream, whoever it was meant for; one of another kind
\* than these is passed over.
RunReads(r) ==
    LET s == About[r] IN
    /\ req[r] = "reading" /\ down[s] # <<>> /\ s \notin shut /\ tunnel
    /\ down' = [down EXCEPT ![s] = Tail(@)]
    /\ LET kind == Head(down[s])[1]
           c == Head(down[s])[2]
       IN /\ answer' = [answer EXCEPT ![r] = IF kind \in {"stdout", "result"} THEN @ \cup {c} ELSE @]
          /\ req' = [req EXCEPT ![r] = CASE kind = "result" -> "done"
                                         [] kind = "error" -> "failed"
                                         [] OTHER -> @]
          /\ touched' = IF kind = "result" THEN touched \cup {s} ELSE touched
    /\ UNCHANGED <<stale, shells, mixed, agent, shut, up, tunnel>>

\* Nothing comes for the timeout, or the stream has ended.
RunFails(r) ==
    /\ req[r] = "reading"
    /\ Pc(r, "failed")
    /\ mixed' = mixed \cup {About[r]}
    /\ UNCHANGED <<stale, shells, touched, answer, agent, shut, up, down, tunnel>>

Interrupt(r) ==
    LET s == About[r] IN
    /\ req[r] = "idle" /\ s \in shells
    /\ \/ Dead(s) /\ s \notin shut /\ Pc(r, "failed") /\ UNCHANGED <<up, touched>>
       \/ /\ ~Dead(s) \/ s \in shut
          /\ Pc(r, "done") /\ touched' = touched \cup {s}
          /\ IF s \in shut THEN UNCHANGED up ELSE Ask(s, "interrupt", r)
    /\ UNCHANGED <<stale, shells, answer, mixed, agent, shut, down, tunnel>>

(* DELETE .../close: a close that raises leaves the table as it is. *)

Close(r) ==
    LET s == About[r] IN
    /\ req[r] = "idle" /\ s \in shells
    /\ Pc(r, IF Dead(s) /\ s \notin shut THEN "failed" ELSE "closing")
    /\ Shut(s)
    /\ UNCHANGED <<stale, shells, touched, answer, mixed, agent, down, tunnel>>

Closed(r) ==
    /\ req[r] = "closing"
    /\ Pc(r, "done")
    /\ shells' = shells \ {About[r]} /\ touched' = touched \ {About[r]}
    /\ UNCHANGED <<stale, answer, mixed, agent, shut, up, down, tunnel>>

-----------------------------------------------------------------------------
(* The agent *)

Listens(s) == handler[s] \in {"none", "ready", "running"}

Recv(s, op) ==
    /\ Listens(s) /\ up[s] # <<>> /\ Head(up[s])[1] = op
    /\ up' = [up EXCEPT ![s] = Tail(@)]

RecvOpen(s) ==
    /\ Recv(s, "shell_open")
    /\ handler' = [handler EXCEPT ![s] = "ready"]
    /\ Reply(s, "ready", s)
    /\ UNCHANGED <<client, cut, cmd, printed, proc, shut, tunnel>>

\* The first command starts the process; while one runs the shell is busy.
RecvInput(s) ==
    /\ Recv(s, "input")
    /\ LET r == Head(up[s])[2] IN
       IF handler[s] = "running"
       THEN Reply(s, "error", r) /\ UNCHANGED <<handler, cmd, proc>>
       ELSE /\ handler' = [handler EXCEPT ![s] = "running"]
            /\ cmd' = [cmd EXCEPT ![s] = r]
            /\ proc' = [proc EXCEPT ![s] = IF @ = "none" THEN "alive" ELSE @]
            /\ UNCHANGED down
    /\ UNCHANGED <<client, cut, printed, shut, tunnel>>

\* On Windows an interrupt kills the process.
RecvInterrupt(s) ==
    /\ Recv(s, "interrupt")
    /\ proc' = [proc EXCEPT ![s] = IF @ = "alive" THEN "dead" ELSE @]
    /\ UNCHANGED <<client, cut, handler, cmd, printed, shut, down, tunnel>>

\* "close", the end of the stream, a write to it that fails, or AgentForwarder.close
\* cancels the handler, which it does once.
Leave(s) ==
    /\ Listens(s) /\ handler[s] # "none"
    /\ \/ Recv(s, "close")
       \/ (~tunnel \/ (s \in shut /\ handler[s] = "running")) /\ UNCHANGED up
    /\ handler' = [handler EXCEPT ![s] = "ending"]
    /\ UNCHANGED <<client, cut, cmd, printed, proc, shut, down, tunnel>>

Prints(s) ==
    /\ handler[s] = "running" /\ proc[s] = "alive" /\ cmd[s] \notin printed
    /\ printed' = printed \cup {cmd[s]}
    /\ Reply(s, "stdout", cmd[s])
    /\ UNCHANGED <<client, cut, handler, cmd, proc, shut, up, tunnel>>

\* Faulty: run_task stays set, and its result is reported again.
EndsAgain(s) ==
    /\ handler[s] = "running" /\ Len(down[s]) < 3
    /\ Reply(s, "result", cmd[s])
    /\ \/ UNCHANGED <<handler, cmd>>
       \/ handler' = [handler EXCEPT ![s] = "ready"] /\ cmd' = [cmd EXCEPT ![s] = NoRun]
    /\ UNCHANGED <<client, cut, printed, proc, shut, up, tunnel>>

\* The marker, or the end of the output of a dead process.
Ends(s) ==
    /\ handler[s] = "running"
    /\ Reply(s, "result", cmd[s])
    /\ handler' = [handler EXCEPT ![s] = "ready"]
    /\ cmd' = [cmd EXCEPT ![s] = NoRun]
    /\ UNCHANGED <<client, cut, printed, proc, shut, up, tunnel>>

\* A command of a dead process ends at once.
EndsDead(s) == proc[s] = "dead" /\ Ends(s)

\* Faulty: run_task is awaited without having been cancelled.
CleanUpWaits(s) ==
    /\ handler[s] = "ending" /\ (cmd[s] = NoRun \/ proc[s] = "dead")
    /\ handler' = [handler EXCEPT ![s] = "ended"]
    /\ proc' = [proc EXCEPT ![s] = IF @ = "alive" THEN "dead" ELSE @]
    /\ cmd' = [cmd EXCEPT ![s] = NoRun]
    /\ UNCHANGED <<client, cut, printed, shut, up, down, tunnel>>

\* The clause comes to its end: the tasks are cancelled and over, PersistentShell.close
\* has waited a second for the process and killed it, and the stream is closed.
CleanUp(s) ==
    /\ handler[s] = "ending"
    /\ handler' = [handler EXCEPT ![s] = "ended"]
    /\ proc' = [proc EXCEPT ![s] = IF @ = "alive" THEN "dead" ELSE @]
    /\ cmd' = [cmd EXCEPT ![s] = NoRun]
    /\ UNCHANGED <<client, cut, printed, shut, up, down, tunnel>>

\* AgentForwarder.close, once the tunnel has ended, cancels the handler while it waits
\* for its tasks or for the process: the rest, with the kill, is skipped.
CutShort(s) ==
    /\ ~tunnel /\ handler[s] = "ending"
    /\ cut' = cut \cup {s}
    /\ handler' = [handler EXCEPT ![s] = "ended"]
    /\ cmd' = [cmd EXCEPT ![s] = NoRun]
    /\ UNCHANGED <<client, printed, proc, shut, up, down, tunnel>>

TunnelEnds ==
    /\ tunnel
    /\ tunnel' = FALSE
    /\ UNCHANGED <<client, agent, shut, up, down>>

Agent(s) ==
    \/ RecvOpen(s) \/ RecvInput(s) \/ RecvInterrupt(s) \/ Leave(s) \/ EndsDead(s) \/ CleanUp(s)

Request(r) ==
    \/ ReapOne(r) \/ Open(r) \/ Opened(r) \/ OpenFails(r)
    \/ RunReads(r) \/ RunFails(r) \/ Closed(r)

Next ==
    \/ \E r \in Openers : Reap(r) \/ Request(r)
    \/ \E r \in Users : Run(r) \/ Interrupt(r) \/ Close(r) \/ Request(r)
    \/ \E s \in Openers : Agent(s) \/ Prints(s) \/ Ends(s) \/ CutShort(s)
    \/ TunnelEnds

\* The loops run; a command may take for ever.
Fairness ==
    /\ \A r \in Requests : WF_vars(Request(r))
    /\ \A s \in Openers : WF_vars(Agent(s))

Spec == Init /\ [][Next]_vars /\ Fairness

-----------------------------------------------------------------------------

\* A run is answered with the output and the result of its own command, unless
\* runs overlap on the session or one of them has been given up: messages are
\* matched by their order alone.
OwnResult == \A r \in Users :
    About[r] \notin mixed => answer[r] \subseteq {r}

\* No shell is lost: a process that runs belongs to a session that is listed, and
\* known to the reaper, or that has been closed, or to a tunnel that has ended.
NoLostShell ==
    /\ shells \subseteq touched
    /\ \A s \in Openers : proc[s] = "alive" => s \in shells \/ s \in shut \/ ~tunnel

\* The process of a session that is closed, or whose tunnel ends, ends too, even
\* when a command in it does not.  The one exception is a handler that the end of the
\* tunnel meets at its own end, before the second is over: AgentForwarder.close cancels
\* the wait, nothing kills the process, and a command that never ends stays.
Doomed(s) == proc[s] = "alive" /\ (s \in shut \/ ~tunnel) /\ s \notin cut

ProcessesEnd == (\E s \in Openers : Doomed(s)) ~> \A s \in Openers : ~Doomed(s)

=============================================================================
