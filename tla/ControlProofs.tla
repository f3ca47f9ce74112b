----------------------------- MODULE ControlProofs -----------------------------
(***************************************************************************)
(* The control API, for any number of sessions, requests and clients: no   *)
(* persistent shell is lost, no run is answered with what belongs to       *)
(* another, no operation is reported as carried out that was not, the      *)
(* pixel is hit that a client has named, and no key stays down.            *)
(***************************************************************************)
EXTENDS MCControl, TLAPS

-----------------------------------------------------------------------------
(* Queues of messages *)

\* The requests that have messages of these kinds in q.
Of(q, ks) == {q[i][2] : i \in {j \in 1..Len(q) : q[j][1] \in ks}}

\* After a message of one of the kinds ks there is none of the kinds ls.
Closing(q, ks, ls) == \A i, j \in 1..Len(q) : q[i][1] \in ks /\ q[j][1] \in ls => j <= i

\* What is in a queue after a message was added to it, or taken from it.
LEMMA AppendAt ==
    ASSUME NEW S, NEW q \in Seq(S), NEW m \in S
    PROVE  /\ Len(Append(q, m)) = Len(q) + 1 /\ Len(q) \in Nat
           /\ \A i \in 1..Len(q) : Append(q, m)[i] = q[i]
           /\ Append(q, m)[Len(q) + 1] = m
OBVIOUS

LEMMA AddedOne ==
    ASSUME NEW S, NEW q \in Seq(S), NEW m \in S, NEW ks, m[1] \in ks
    PROVE  Of(Append(q, m), ks) \subseteq Of(q, ks) \cup {m[2]}
<1> DEFINE p == Append(q, m)
<1>1. /\ Len(p) = Len(q) + 1 /\ Len(q) \in Nat
      /\ \A i \in 1..Len(q) : p[i] = q[i]
      /\ p[Len(q) + 1] = m
  BY AppendAt
<1> HIDE DEF p
<1>2. \A i \in 1..Len(p) : i \in 1..Len(q) \/ i = Len(q) + 1
  BY <1>1
<1>3. Of(p, ks) \subseteq Of(q, ks) \cup {m[2]}
  BY <1>1, <1>2 DEF Of
<1>4. QED BY <1>3 DEF p

LEMMA AddedNone ==
    ASSUME NEW S, NEW q \in Seq(S), NEW m \in S, NEW ks, m[1] \notin ks
    PROVE  Of(Append(q, m), ks) = Of(q, ks)
<1> DEFINE p == Append(q, m)
<1>1. /\ Len(p) = Len(q) + 1 /\ Len(q) \in Nat
      /\ \A i \in 1..Len(q) : p[i] = q[i]
      /\ p[Len(q) + 1] = m
  BY AppendAt
<1> HIDE DEF p
<1>2. \A i \in 1..Len(p) : i \in 1..Len(q) \/ i = Len(q) + 1
  BY <1>1
<1>3. 1..Len(q) \subseteq 1..Len(p) /\ Len(q) + 1 \in 1..Len(p)
  BY <1>1
<1>4. Of(p, ks) \subseteq Of(q, ks)
  BY <1>1, <1>2 DEF Of
<1>5. Of(q, ks) \subseteq Of(p, ks)
  BY <1>1, <1>3 DEF Of
<1>6. QED BY <1>4, <1>5 DEF p

LEMMA AddedLast ==
    ASSUME NEW S, NEW q \in Seq(S), NEW m \in S, NEW ks, NEW ls,
           Closing(q, ks, ls), m[1] \in ls => Of(q, ks) = {}
    PROVE  Closing(Append(q, m), ks, ls)
<1> DEFINE p == Append(q, m)
<1>1. /\ Len(p) = Len(q) + 1 /\ Len(q) \in Nat
      /\ \A i \in 1..Len(q) : p[i] = q[i]
      /\ p[Len(q) + 1] = m
  BY AppendAt
<1> HIDE DEF p
<1> SUFFICES ASSUME NEW i \in 1..Len(p), NEW j \in 1..Len(p), p[i][1] \in ks, p[j][1] \in ls
             PROVE  j <= i
  BY DEF Closing, p
<1>2. CASE i = Len(q) + 1
  BY <1>1, <1>2
<1>3. CASE i \in 1..Len(q) /\ j \in 1..Len(q)
  BY <1>1, <1>3 DEF Closing
<1>4. CASE i \in 1..Len(q) /\ j = Len(q) + 1
  <2>1. q[i][2] \in Of(q, ks)
    BY <1>1, <1>4 DEF Of
  <2>2. QED BY <1>1, <1>4, <2>1
<1>5. QED BY <1>1, <1>2, <1>3, <1>4

LEMMA Taken ==
    ASSUME NEW S, NEW q \in Seq(S), q # <<>>, NEW ks, NEW ls
    PROVE  /\ Of(Tail(q), ks) \subseteq Of(q, ks)
           /\ Closing(q, ks, ls) => Closing(Tail(q), ks, ls)
           /\ Head(q)[1] \in ks => Head(q)[2] \in Of(q, ks)
           /\ Head(q)[1] \in ks /\ Closing(q, ks, ls) => Of(Tail(q), ls) = {}
<1> DEFINE p == Tail(q)
<1>1. /\ Len(p) = Len(q) - 1 /\ Len(q) \in Nat /\ Len(q) > 0
      /\ \A i \in 1..Len(p) : p[i] = q[i + 1]
      /\ Head(q) = q[1]
  OBVIOUS
<1> HIDE DEF p
<1>2. \A i \in 1..Len(p) : i + 1 \in 1..Len(q)
  BY <1>1
<1>3. Of(p, ks) \subseteq Of(q, ks)
  BY <1>1, <1>2 DEF Of
<1>4. Closing(q, ks, ls) => Closing(p, ks, ls)
  <2> SUFFICES ASSUME Closing(q, ks, ls), NEW i \in 1..Len(p), NEW j \in 1..Len(p),
                      p[i][1] \in ks, p[j][1] \in ls
               PROVE  j <= i
    BY DEF Closing
  <2>1. j + 1 <= i + 1
    BY <1>1, <1>2 DEF Closing
  <2>2. QED BY <2>1
<1>5. Head(q)[1] \in ks => Head(q)[2] \in Of(q, ks)
  BY <1>1 DEF Of
<1>6. ASSUME Head(q)[1] \in ks, Closing(q, ks, ls) PROVE Of(p, ls) = {}
  <2> SUFFICES ASSUME NEW i \in 1..Len(p), p[i][1] \in ls PROVE FALSE
    BY DEF Of
  <2>1. i + 1 <= 1
    <3>1. 1 \in 1..Len(q) /\ i + 1 \in 1..Len(q) /\ q[i + 1][1] \in ls /\ q[1][1] \in ks
      BY <1>1, <1>2, <1>6
    <3>2. QED BY <1>6, <3>1 DEF Closing
  <2>2. QED BY <2>1
<1>7. QED BY <1>3, <1>4, <1>5, <1>6 DEF p

-----------------------------------------------------------------------------
(***************************************************************************)
(* Shells.  A process starts when the agent receives a command, long after *)
(* the request that sent it has looked at the session table.  So the       *)
(* invariant speaks of the commands on their way: each belongs to a        *)
(* session that is still listed or that has been closed.                   *)
(***************************************************************************)
Ops == {"shell_open", "input", "interrupt", "close"}
Stages == {"idle", "reaping", "opening", "reading", "closing", "done", "failed"}

\* A command is among the messages q.
Commands(q) == Of(q, {"input"}) # {}

Typed ==
    /\ up \in [Openers -> Seq(Ops \X Requests)]
    /\ req \in [Requests -> Stages]
    /\ proc \in [Openers -> {"none", "alive", "dead"}]
    /\ stale \in [Requests -> SUBSET Openers]
    /\ touched \subseteq Openers /\ shells \subseteq Openers

\* Which requests go through which stages, and what a closing one has done.
StagesOK ==
    /\ \A r \in Openers : req[r] \notin {"reading", "closing"}
    /\ \A r \in Users : req[r] \notin {"reaping", "opening"}
    /\ \A r \in Users : req[r] = "closing" => About[r] \in shut

CommandsKnown == \A s \in Openers : Commands(up[s]) => s \in shells \/ s \in shut

Inv == Typed /\ StagesOK /\ CommandsKnown /\ NoLostShell

-----------------------------------------------------------------------------

\* A message is sent to the agent.
LEMMA AskUp ==
    ASSUME Typed, NEW s \in Openers, NEW o \in Ops, NEW r \in Requests, Ask(s, o, r)
    PROVE  /\ up' \in [Openers -> Seq(Ops \X Requests)]
           /\ \A x \in Openers : Commands(up'[x]) => Commands(up[x]) \/ (x = s /\ o = "input")
<1> DEFINE m == <<o, r>>
<1>1. up \in [Openers -> Seq(Ops \X Requests)] /\ up' = [up EXCEPT ![s] = Append(@, m)]
  BY DEF Typed, Ask
<1>2. up[s] \in Seq(Ops \X Requests) /\ m \in Ops \X Requests
  BY <1>1
<1>3. m[1] = o
  OBVIOUS
<1> HIDE DEF m
<1>4. up' \in [Openers -> Seq(Ops \X Requests)]
  BY <1>1, <1>2
<1>5. ASSUME o # "input" PROVE Commands(Append(up[s], m)) => Commands(up[s])
  <2>1. m[1] \notin {"input"}
    BY <1>3, <1>5
  <2>2. Of(Append(up[s], m), {"input"}) = Of(up[s], {"input"})
    BY <1>2, <2>1, AddedNone, Zenon
  <2>3. QED BY <2>2 DEF Commands
<1>6. \A x \in Openers : up'[x] = IF x = s THEN Append(up[s], m) ELSE up[x]
  BY <1>1
<1>7. QED BY <1>4, <1>5, <1>6

\* A message is taken by the agent.
LEMMA RecvUp ==
    ASSUME Typed, NEW s \in Openers, NEW o, Recv(s, o)
    PROVE  /\ up' \in [Openers -> Seq(Ops \X Requests)]
           /\ \A x \in Openers : Commands(up'[x]) => Commands(up[x])
           /\ o = "input" => Commands(up[s])
<1>1. /\ up \in [Openers -> Seq(Ops \X Requests)] /\ up' = [up EXCEPT ![s] = Tail(@)]
      /\ up[s] # <<>> /\ Head(up[s])[1] = o
  BY DEF Typed, Recv
<1>2. up[s] \in Seq(Ops \X Requests)
  BY <1>1
<1>3. Tail(up[s]) \in Seq(Ops \X Requests)
  BY <1>1, <1>2
<1>4. up' \in [Openers -> Seq(Ops \X Requests)]
  BY <1>1, <1>3
<1>5. Commands(Tail(up[s])) => Commands(up[s])
  BY <1>1, <1>2, Taken DEF Commands
<1>6. \A x \in Openers : up'[x] = IF x = s THEN Tail(up[s]) ELSE up[x]
  BY <1>1
<1>7. o = "input" => Commands(up[s])
  BY <1>1, <1>2, Taken DEF Commands
<1>8. QED BY <1>4, <1>5, <1>6, <1>7

\* A session is shut: nothing but "close" is sent.
LEMMA ShutUp ==
    ASSUME Typed, NEW s \in Openers, Shut(s)
    PROVE  /\ up' \in [Openers -> Seq(Ops \X Requests)]
           /\ \A x \in Openers : Commands(up'[x]) => Commands(up[x])
           /\ shut' = shut \cup {s}
<1>1. shut' = shut \cup {s}
  BY DEF Shut
<1>2. CASE up' = up
  BY <1>1, <1>2 DEF Typed
<1>3. CASE Ask(s, "close", s)
  BY <1>1, <1>3, AskUp DEF Ops, Requests
<1>4. QED BY <1>2, <1>3 DEF Shut

\* What the invariant asks of a step at the client: no process changes.
LEMMA ClientStep ==
    ASSUME Inv, UNCHANGED <<proc, tunnel>>, Typed', StagesOK',
           \A x \in Openers : Commands(up'[x]) => Commands(up[x]) \/ x \in shells,
           shells' \subseteq touched',
           shut \subseteq shut', shells \subseteq shells' \cup shut'
    PROVE  Inv'
BY DEF Inv, CommandsKnown, NoLostShell

\* A request moves on, to a stage of its kind.
LEMMA PcOK ==
    ASSUME Inv, NEW r \in Requests, NEW pc \in Stages, Pc(r, pc),
           r \in Openers => pc \notin {"reading", "closing"},
           r \in Users => pc \notin {"reaping", "opening"},
           shut \subseteq shut',
           pc = "closing" => About[r] \in shut'
    PROVE  req' \in [Requests -> Stages] /\ StagesOK'
<1>1. req \in [Requests -> Stages] /\ StagesOK
  BY DEF Inv, Typed
<1>2. \A x \in Requests : req'[x] = IF x = r THEN pc ELSE req[x]
  BY <1>1 DEF Pc
<1>3. req' \in [Requests -> Stages]
  BY <1>1 DEF Pc
<1>4. Openers \subseteq Requests /\ Users \subseteq Requests
  BY DEF Requests
<1>5. QED BY <1>1, <1>2, <1>3, <1>4 DEF StagesOK

\* A session is about an opener, and openers are no users.
LEMMA AboutOK ==
    /\ \A r \in Users : About[r] \in Openers /\ r \notin Openers
    /\ Openers \subseteq Requests /\ Users \subseteq Requests
BY RequestsAssumption DEF Requests

\* POST /v1/sessions
LEMMA OpenerSteps ==
    ASSUME Inv, NEW r \in Requests,
           Reap(r) \/ ReapOne(r) \/ Open(r) \/ Opened(r) \/ OpenFails(r)
    PROVE  Inv'
<1>1. Typed /\ StagesOK /\ CommandsKnown /\ NoLostShell /\ shells \subseteq touched
  BY DEF Inv, NoLostShell
<1>2. UNCHANGED <<proc, tunnel>>
  BY DEF Reap, ReapOne, Open, Opened, OpenFails, agent
<1>a. req[r] \in {"reaping", "opening"} => r \in Openers
  BY <1>1 DEF StagesOK, Requests
<1>3. CASE Reap(r)
  <2>1. r \in Openers /\ Pc(r, "reaping") /\ UNCHANGED <<shells, touched, shut, up>>
    BY <1>3 DEF Reap
  <2>2. PICK idle \in SUBSET touched : stale' = [stale EXCEPT ![r] = idle]
    BY <1>3 DEF Reap
  <2>3. req' \in [Requests -> Stages] /\ StagesOK'
    BY <2>1, AboutOK, PcOK DEF Stages
  <2>4. Typed'
    BY <1>1, <1>2, <2>1, <2>2, <2>3 DEF Typed
  <2>5. QED BY <1>1, <1>2, <2>1, <2>3, <2>4, ClientStep
<1>4. CASE ReapOne(r)
  <2>1. PICK s \in stale[r] :
           /\ stale' = [stale EXCEPT ![r] = @ \ {s}]
           /\ shells' = shells \ {s} /\ touched' = touched \ {s}
           /\ IF s \notin shells THEN UNCHANGED <<req, shut, up>>
              ELSE /\ Shut(s)
                   /\ IF Dead(s) /\ s \notin shut THEN Pc(r, "failed") ELSE UNCHANGED req
    BY <1>4 DEF ReapOne
  <2>2. s \in Openers
    BY <1>1 DEF Typed
  <2>3. /\ up' \in [Openers -> Seq(Ops \X Requests)]
        /\ \A x \in Openers : Commands(up'[x]) => Commands(up[x])
        /\ shut \subseteq shut'
        /\ s \in shells => s \in shut'
    <3>1. CASE s \in shells
      <4>1. Shut(s)
        BY <2>1, <3>1
      <4>2. QED BY <4>1, <1>1, <2>2, ShutUp
    <3>2. CASE s \notin shells
      BY <1>1, <2>1, <3>2 DEF Typed
    <3>3. QED BY <3>1, <3>2
  <2>4. req' \in [Requests -> Stages] /\ StagesOK'
    <3>1. CASE Pc(r, "failed")
      BY <2>3, <3>1, PcOK DEF Stages
    <3>2. CASE UNCHANGED req
      BY <1>1, <2>3, <3>2 DEF Typed, StagesOK
    <3>3. QED BY <2>1, <3>1, <3>2
  <2>5. Typed'
    BY <1>1, <1>2, <2>1, <2>3, <2>4 DEF Typed
  <2>6. shells' \subseteq touched' /\ shells \subseteq shells' \cup shut'
    BY <1>1, <2>1, <2>3
  <2>7. QED BY <1>1, <1>2, <2>3, <2>4, <2>5, <2>6, ClientStep
<1>5. CASE Open(r)
  <2>1. r \in Openers /\ UNCHANGED <<stale, shells, touched, shut>>
    BY <1>5, <1>a DEF Open
  <2>2. \/ Pc(r, "failed") /\ UNCHANGED up
        \/ Pc(r, "opening") /\ Ask(r, "shell_open", r)
    BY <1>5, Zenon DEF Open
  <2>3. /\ up' \in [Openers -> Seq(Ops \X Requests)]
        /\ \A x \in Openers : Commands(up'[x]) => Commands(up[x])
    <3>1. CASE UNCHANGED up
      BY <1>1, <3>1 DEF Typed
    <3>2. CASE Ask(r, "shell_open", r)
      BY <1>1, <2>1, <3>2, AskUp DEF Ops
    <3>3. QED BY <2>2, <3>1, <3>2
  <2>4. req' \in [Requests -> Stages] /\ StagesOK'
    <3>1. CASE Pc(r, "failed")
      BY <2>1, <3>1, PcOK DEF Stages
    <3>2. CASE Pc(r, "opening")
      BY <2>1, <3>2, AboutOK, PcOK DEF Stages
    <3>3. QED BY <2>2, <3>1, <3>2
  <2>5. Typed'
    BY <1>1, <1>2, <2>1, <2>3, <2>4 DEF Typed
  <2>6. QED BY <1>1, <1>2, <2>1, <2>3, <2>4, <2>5, ClientStep
<1>6. CASE Opened(r)
  <2>1. r \in Openers /\ Pc(r, "done") /\ UNCHANGED <<stale, shut, up>>
    BY <1>6, <1>a DEF Opened
  <2>2. shells' = shells \cup {r} /\ touched' = touched \cup {r}
    BY <1>6 DEF Opened
  <2>3. req' \in [Requests -> Stages] /\ StagesOK'
    BY <2>1, PcOK DEF Stages
  <2>4. Typed'
    BY <1>1, <1>2, <2>1, <2>2, <2>3 DEF Typed
  <2>5. QED BY <1>1, <1>2, <2>1, <2>2, <2>3, <2>4, ClientStep
<1>7. CASE OpenFails(r)
  <2>1. Pc(r, "failed") /\ UNCHANGED <<stale, shells, touched, shut, up>>
    BY <1>7 DEF OpenFails
  <2>2. req' \in [Requests -> Stages] /\ StagesOK'
    BY <2>1, PcOK DEF Stages
  <2>3. Typed'
    BY <1>1, <1>2, <2>1, <2>2 DEF Typed
  <2>4. QED BY <1>1, <1>2, <2>1, <2>2, <2>3, ClientStep
<1>8. QED BY <1>3, <1>4, <1>5, <1>6, <1>7

\* POST .../run and .../interrupt, and DELETE
LEMMA UserSteps ==
    ASSUME Inv, NEW r \in Requests,
           \/ r \in Users /\ (Run(r) \/ Interrupt(r) \/ Close(r))
           \/ RunReads(r) \/ RunFails(r) \/ Closed(r)
    PROVE  Inv'
<1>1. Typed /\ StagesOK /\ CommandsKnown /\ NoLostShell /\ shells \subseteq touched
  BY DEF Inv, NoLostShell
<1>2. UNCHANGED <<proc, tunnel>>
  BY DEF Run, Interrupt, Close, RunReads, RunFails, Closed, agent
<1>3. r \in Users /\ About[r] \in Openers
  <2>1. req[r] \in {"reading", "closing"} => r \in Users
    BY <1>1 DEF StagesOK, Requests
  <2>2. r \in Users
    BY <2>1 DEF RunReads, RunFails, Closed
  <2>3. QED BY <2>2, AboutOK
<1> DEFINE s == About[r]
<1>4. CASE Run(r)
  <2>1. s \in shells /\ UNCHANGED <<stale, shells, touched, shut>>
    BY <1>4 DEF Run
  <2>2. \/ Pc(r, "failed") /\ UNCHANGED up
        \/ Pc(r, "reading") /\ Ask(s, "input", r)
    BY <1>4, Zenon DEF Run
  <2>3. /\ up' \in [Openers -> Seq(Ops \X Requests)]
        /\ \A x \in Openers : Commands(up'[x]) => Commands(up[x]) \/ x \in shells
    <3>1. CASE UNCHANGED up
      BY <1>1, <3>1 DEF Typed
    <3>2. CASE Ask(s, "input", r)
      <4>1. /\ up' \in [Openers -> Seq(Ops \X Requests)]
            /\ \A x \in Openers : Commands(up'[x]) => Commands(up[x]) \/ x = s
        BY <1>1, <1>3, <3>2, AskUp DEF Ops
      <4>2. QED BY <2>1, <4>1
    <3>3. QED BY <2>2, <3>1, <3>2
  <2>4. req' \in [Requests -> Stages] /\ StagesOK'
    <3>1. CASE Pc(r, "failed")
      BY <2>1, <3>1, PcOK DEF Stages
    <3>2. CASE Pc(r, "reading")
      BY <1>3, <2>1, <3>2, AboutOK, PcOK DEF Stages
    <3>3. QED BY <2>2, <3>1, <3>2
  <2>5. Typed'
    BY <1>1, <1>2, <2>1, <2>3, <2>4 DEF Typed
  <2>6. QED BY <1>1, <1>2, <2>1, <2>3, <2>4, <2>5, ClientStep
<1>5. CASE Interrupt(r)
  <2>1. UNCHANGED <<stale, shells, shut>>
    BY <1>5 DEF Interrupt
  <2>2. /\ \/ Pc(r, "failed") \/ Pc(r, "done")
        /\ touched' = touched \/ touched' = touched \cup {s}
        /\ UNCHANGED up \/ Ask(s, "interrupt", r)
    BY <1>5, Zenon DEF Interrupt
  <2>3. /\ up' \in [Openers -> Seq(Ops \X Requests)]
        /\ \A x \in Openers : Commands(up'[x]) => Commands(up[x])
    <3>1. CASE UNCHANGED up
      BY <1>1, <3>1 DEF Typed
    <3>2. CASE Ask(s, "interrupt", r)
      BY <1>1, <1>3, <3>2, AskUp DEF Ops
    <3>3. QED BY <2>2, <3>1, <3>2
  <2>4. req' \in [Requests -> Stages] /\ StagesOK'
    BY <2>1, <2>2, PcOK DEF Stages
  <2>5. Typed'
    BY <1>1, <1>2, <1>3, <2>1, <2>2, <2>3, <2>4 DEF Typed
  <2>6. QED BY <1>1, <1>2, <2>1, <2>2, <2>3, <2>4, <2>5, ClientStep
<1>6. CASE Close(r)
  <2>1. Shut(s) /\ UNCHANGED <<stale, shells, touched>>
    BY <1>6 DEF Close
  <2>2. Pc(r, "failed") \/ Pc(r, "closing")
    BY <1>6, Zenon DEF Close
  <2>3. /\ up' \in [Openers -> Seq(Ops \X Requests)]
        /\ \A x \in Openers : Commands(up'[x]) => Commands(up[x])
        /\ shut' = shut \cup {s}
    BY <1>1, <1>3, <2>1, ShutUp
  <2>4. req' \in [Requests -> Stages] /\ StagesOK'
    <3>1. CASE Pc(r, "failed")
      BY <2>3, <3>1, PcOK DEF Stages
    <3>2. CASE Pc(r, "closing")
      BY <1>3, <2>3, <3>2, AboutOK, PcOK DEF Stages
    <3>3. QED BY <2>2, <3>1, <3>2
  <2>5. Typed'
    BY <1>1, <1>2, <2>1, <2>3, <2>4 DEF Typed
  <2>6. QED BY <1>1, <1>2, <2>1, <2>3, <2>4, <2>5, ClientStep
<1>7. CASE RunReads(r)
  <2>1. UNCHANGED <<stale, shells, shut, up>>
    BY <1>7 DEF RunReads
  <2>2. touched' = touched \/ touched' = touched \cup {s}
    BY <1>7, Zenon DEF RunReads
  <2>3. Pc(r, "done") \/ Pc(r, "failed") \/ Pc(r, req[r])
    <3> DEFINE kind == Head(down[s])[1]
    <3>1. req' = [req EXCEPT ![r] = CASE kind = "result" -> "done"
                                      [] kind = "error" -> "failed"
                                      [] OTHER -> @]
      BY <1>7, Zenon DEF RunReads
    <3> HIDE DEF kind
    <3>2. QED BY <3>1 DEF Pc
  <2>4. req' \in [Requests -> Stages] /\ StagesOK'
    <3>1. req[r] = "reading"
      BY <1>7 DEF RunReads
    <3>2. PICK pc \in {"done", "failed", "reading"} : Pc(r, pc)
      BY <2>3, <3>1
    <3>3. QED BY <1>3, <2>1, <3>2, AboutOK, PcOK DEF Stages
  <2>5. Typed'
    BY <1>1, <1>2, <1>3, <2>1, <2>2, <2>4 DEF Typed
  <2>6. QED BY <1>1, <1>2, <2>1, <2>2, <2>4, <2>5, ClientStep
<1>8. CASE RunFails(r)
  <2>1. Pc(r, "failed") /\ UNCHANGED <<stale, shells, touched, shut, up>>
    BY <1>8 DEF RunFails
  <2>2. req' \in [Requests -> Stages] /\ StagesOK'
    BY <2>1, PcOK DEF Stages
  <2>3. Typed'
    BY <1>1, <1>2, <2>1, <2>2 DEF Typed
  <2>4. QED BY <1>1, <1>2, <2>1, <2>2, <2>3, ClientStep
<1>9. CASE Closed(r)
  <2>1. Pc(r, "done") /\ UNCHANGED <<stale, shut, up>>
    BY <1>9 DEF Closed
  <2>2. shells' = shells \ {s} /\ touched' = touched \ {s} /\ s \in shut
    BY <1>1, <1>3, <1>9 DEF Closed, StagesOK
  <2>3. req' \in [Requests -> Stages] /\ StagesOK'
    BY <2>1, PcOK DEF Stages
  <2>4. Typed'
    BY <1>1, <1>2, <2>1, <2>2, <2>3 DEF Typed
  <2>5. QED BY <1>1, <1>2, <2>1, <2>2, <2>3, <2>4, ClientStep
<1>10. QED BY <1>4, <1>5, <1>6, <1>7, <1>8, <1>9

\* What the invariant asks of a step at the agent.
LEMMA AgentStep ==
    ASSUME Inv, NEW s \in Openers,
           UNCHANGED <<req, stale, shells, touched, shut>>, tunnel' = tunnel,
           up' \in [Openers -> Seq(Ops \X Requests)],
           \A x \in Openers : Commands(up'[x]) => Commands(up[x]),
           proc' \in [Openers -> {"none", "alive", "dead"}],
           \A x \in Openers : proc'[x] = "alive" => proc[x] = "alive" \/ Commands(up[x])
    PROVE  Inv'
<1>1. Typed' /\ StagesOK'
  BY DEF Inv, Typed, StagesOK
<1>2. CommandsKnown' /\ NoLostShell'
  BY DEF Inv, CommandsKnown, NoLostShell
<1>3. QED BY <1>1, <1>2 DEF Inv

LEMMA AgentSteps ==
    ASSUME Inv, NEW s \in Openers, Agent(s) \/ Prints(s) \/ Ends(s) \/ CutShort(s)
    PROVE  Inv'
<1>1. Typed
  BY DEF Inv
<1>2. up \in [Openers -> Seq(Ops \X Requests)] /\ proc \in [Openers -> {"none", "alive", "dead"}]
  BY <1>1 DEF Typed
<1>3. CASE RecvOpen(s)
  <2>1. UNCHANGED <<req, stale, shells, touched, shut, tunnel, proc>> /\ Recv(s, "shell_open")
    BY <1>3 DEF RecvOpen, client
  <2>2. /\ up' \in [Openers -> Seq(Ops \X Requests)]
        /\ \A x \in Openers : Commands(up'[x]) => Commands(up[x])
    BY <1>1, <2>1, RecvUp
  <2>3. QED BY <1>2, <2>1, <2>2, AgentStep
<1>4. CASE RecvInput(s)
  <2>1. UNCHANGED <<req, stale, shells, touched, shut, tunnel>> /\ Recv(s, "input")
    BY <1>4 DEF RecvInput, client
  <2>2. /\ up' \in [Openers -> Seq(Ops \X Requests)]
        /\ \A x \in Openers : Commands(up'[x]) => Commands(up[x])
        /\ Commands(up[s])
    BY <1>1, <2>1, RecvUp
  <2>3. proc' = proc \/ proc' = [proc EXCEPT ![s] = IF @ = "none" THEN "alive" ELSE @]
    BY <1>4, Zenon DEF RecvInput
  <2>4. /\ proc' \in [Openers -> {"none", "alive", "dead"}]
        /\ \A x \in Openers : proc'[x] = "alive" => proc[x] = "alive" \/ Commands(up[x])
    BY <1>2, <2>2, <2>3
  <2>5. QED BY <2>1, <2>2, <2>4, AgentStep
<1>5. CASE RecvInterrupt(s)
  <2>1. UNCHANGED <<req, stale, shells, touched, shut, tunnel>> /\ Recv(s, "interrupt")
    BY <1>5 DEF RecvInterrupt, client
  <2>2. /\ up' \in [Openers -> Seq(Ops \X Requests)]
        /\ \A x \in Openers : Commands(up'[x]) => Commands(up[x])
    BY <1>1, <2>1, RecvUp
  <2>3. proc' = [proc EXCEPT ![s] = IF @ = "alive" THEN "dead" ELSE @]
    BY <1>5 DEF RecvInterrupt
  <2>4. /\ proc' \in [Openers -> {"none", "alive", "dead"}]
        /\ \A x \in Openers : proc'[x] = "alive" => proc[x] = "alive"
    BY <1>2, <2>3
  <2>5. QED BY <2>1, <2>2, <2>4, AgentStep
<1>6. CASE Leave(s)
  <2>1. UNCHANGED <<req, stale, shells, touched, shut, tunnel, proc>>
    BY <1>6 DEF Leave, client
  <2>2. Recv(s, "close") \/ UNCHANGED up
    BY <1>6, Zenon DEF Leave
  <2>3. /\ up' \in [Openers -> Seq(Ops \X Requests)]
        /\ \A x \in Openers : Commands(up'[x]) => Commands(up[x])
    BY <1>1, <1>2, <2>2, RecvUp
  <2>4. QED BY <1>2, <2>1, <2>3, AgentStep
<1>7. CASE Prints(s) \/ Ends(s) \/ EndsDead(s) \/ CutShort(s)
  <2>1. UNCHANGED <<req, stale, shells, touched, shut, tunnel, proc, up>>
    BY <1>7 DEF Prints, Ends, EndsDead, CutShort, client
  <2>2. QED BY <1>2, <2>1, AgentStep
<1>8. CASE CleanUp(s)
  <2>1. UNCHANGED <<req, stale, shells, touched, shut, tunnel, up>>
    BY <1>8 DEF CleanUp, client
  <2>2. proc' = [proc EXCEPT ![s] = IF @ = "alive" THEN "dead" ELSE @]
    BY <1>8 DEF CleanUp
  <2>3. /\ proc' \in [Openers -> {"none", "alive", "dead"}]
        /\ \A x \in Openers : proc'[x] = "alive" => proc[x] = "alive"
    BY <1>2, <2>2
  <2>4. QED BY <1>2, <2>1, <2>3, AgentStep
<1>9. QED BY <1>3, <1>4, <1>5, <1>6, <1>7, <1>8 DEF Agent

LEMMA NextInv == Inv /\ [Next]_vars => Inv'
<1> SUFFICES ASSUME Inv, [Next]_vars PROVE Inv'
  OBVIOUS
<1>1. ASSUME NEW r \in Openers, Reap(r) \/ Request(r) PROVE Inv'
  BY <1>1, OpenerSteps, UserSteps, AboutOK DEF Request
<1>2. ASSUME NEW r \in Users, Run(r) \/ Interrupt(r) \/ Close(r) \/ Request(r) PROVE Inv'
  BY <1>2, OpenerSteps, UserSteps, AboutOK DEF Request
<1>3. ASSUME NEW s \in Openers, Agent(s) \/ Prints(s) \/ Ends(s) \/ CutShort(s)
      PROVE  Inv'
  BY <1>3, AgentSteps
<1>4. CASE TunnelEnds
  <2>1. UNCHANGED <<req, stale, shells, touched, shut, up, proc>> /\ ~tunnel'
    BY <1>4 DEF TunnelEnds, client, agent
  <2>2. Typed' /\ StagesOK' /\ CommandsKnown'
    BY <2>1 DEF Inv, Typed, StagesOK, CommandsKnown
  <2>3. NoLostShell'
    BY <2>1 DEF Inv, NoLostShell
  <2>4. QED BY <2>2, <2>3 DEF Inv
<1>5. CASE UNCHANGED vars
  <2>1. UNCHANGED <<req, stale, shells, touched, shut, up, proc, tunnel>>
    BY <1>5 DEF vars, client, agent
  <2>2. QED BY <2>1 DEF Inv, Typed, StagesOK, CommandsKnown, NoLostShell
<1>6. QED BY <1>1, <1>2, <1>3, <1>4, <1>5 DEF Next

LEMMA InitInv == Init => Inv
<1> SUFFICES ASSUME Init PROVE Inv
  OBVIOUS
<1>1. Typed
  BY DEF Init, Typed, Stages
<1>2. StagesOK
  BY AboutOK DEF Init, StagesOK
<1>3. CommandsKnown
  BY DEF Init, CommandsKnown, Commands, Of
<1>4. NoLostShell
  BY DEF Init, NoLostShell
<1>5. QED BY <1>1, <1>2, <1>3, <1>4 DEF Inv

\* However requests, the reaper and the agent interleave, every session that is
\* listed is known to the reaper, and every shell process that runs belongs to a
\* session that is listed or has been closed, or to a tunnel that has ended.
THEOREM ShellsAreKnown == Spec => []NoLostShell
<1>1. Inv => NoLostShell
  BY DEF Inv
<1>2. QED BY <1>1, InitInv, NextInv, PTL DEF Spec

-----------------------------------------------------------------------------
(***************************************************************************)
(* Answers of runs.  A session on which runs do not overlap has one        *)
(* request that waits for messages, and whatever is under way, towards the *)
(* agent, in it or back from it, is of that request: first its command,    *)
(* then its output, and its result last.                                   *)
(***************************************************************************)
Kinds == {"ready", "stdout", "result", "error"}
OfRun == {"stdout", "result", "error"}
Final == {"result", "error"}

Alone(s) ==
    /\ \A r1, r2 \in Reading(s) : r1 = r2
    /\ Of(up[s], {"input"}) \subseteq Reading(s) /\ Of(down[s], OfRun) \subseteq Reading(s)
    /\ cmd[s] # NoRun => /\ cmd[s] \in Reading(s)
                         /\ Of(up[s], {"input"}) = {} /\ Of(down[s], Final) = {}
    /\ Of(up[s], {"input"}) # {} => Of(down[s], OfRun) = {}
    /\ Closing(up[s], {"input"}, {"input"}) /\ Closing(down[s], Final, OfRun)

RunTyped ==
    /\ down \in [Openers -> Seq(Kinds \X Requests)]
    /\ \A s \in Openers : Of(up[s], {"input"}) \subseteq Users
    /\ cmd \in [Openers -> Users \cup {NoRun}]
    /\ handler \in [Openers -> {"none", "ready", "running", "ending", "ended"}]
    /\ \A s \in Openers : handler[s] = "running" => cmd[s] # NoRun
    /\ answer \in [Users -> SUBSET Requests] /\ mixed \subseteq Openers

RunInv == Inv /\ RunTyped /\ (\A s \in Openers \ mixed : Alone(s)) /\ OwnResult

\* Nothing is added, at s, to what concerns a run.
LessUp(s) ==
    /\ Of(up'[s], {"input"}) \subseteq Of(up[s], {"input"})
    /\ Closing(up[s], {"input"}, {"input"}) => Closing(up'[s], {"input"}, {"input"})

LessDown(s) ==
    /\ Of(down'[s], OfRun) \subseteq Of(down[s], OfRun)
    /\ Of(down'[s], Final) \subseteq Of(down[s], Final)
    /\ Closing(down[s], Final, OfRun) => Closing(down'[s], Final, OfRun)

Less(s) ==
    /\ LessUp(s) /\ LessDown(s)
    /\ Reading(s)' = Reading(s) /\ cmd'[s] \in {cmd[s], NoRun}

LEMMA AloneLess == ASSUME NEW s \in Openers, Alone(s), Less(s) PROVE Alone(s)'
BY DEF Alone, Less, LessUp, LessDown

LEMMA UpLess ==
    ASSUME Typed, NEW x \in Openers,
           \/ UNCHANGED up \/ Shut(x)
           \/ \E o \in Ops \ {"input"}, r \in Requests : Ask(x, o, r)
           \/ \E o \in Ops : Recv(x, o)
    PROVE  \A s \in Openers : LessUp(s)
<1>1. up \in [Openers -> Seq(Ops \X Requests)]
  BY DEF Typed
<1>2. CASE UNCHANGED up
  BY <1>2 DEF LessUp
<1>3. ASSUME NEW o \in Ops \ {"input"}, NEW r \in Requests, Ask(x, o, r)
      PROVE  \A s \in Openers : LessUp(s)
  <2> DEFINE m == <<o, r>>
  <2>1. up' = [up EXCEPT ![x] = Append(@, m)]
    BY <1>3 DEF Ask
  <2>2. m \in Ops \X Requests /\ m[1] # "input" /\ up[x] \in Seq(Ops \X Requests)
    BY <1>1
  <2> HIDE DEF m
  <2>3. up'[x] = Append(up[x], m) /\ \A s \in Openers \ {x} : up'[s] = up[s]
    BY <1>1, <2>1
  <2>4. /\ Of(Append(up[x], m), {"input"}) = Of(up[x], {"input"})
        /\ Closing(up[x], {"input"}, {"input"}) => Closing(Append(up[x], m), {"input"}, {"input"})
    <3>1. m[1] \notin {"input"}
      BY <2>2
    <3>2. Of(Append(up[x], m), {"input"}) = Of(up[x], {"input"})
      BY <2>2, <3>1, AddedNone, Zenon
    <3>3. QED BY <2>2, <3>1, <3>2, AddedLast, Zenon
  <2>5. LessUp(x)
    BY <2>2, <2>3, <2>4 DEF LessUp
  <2>6. QED BY <2>3, <2>5 DEF LessUp
<1>4. ASSUME NEW o \in Ops, Recv(x, o) PROVE \A s \in Openers : LessUp(s)
  <2>1. up' = [up EXCEPT ![x] = Tail(@)] /\ up[x] # <<>> /\ up[x] \in Seq(Ops \X Requests)
    BY <1>1, <1>4 DEF Recv
  <2>2. up'[x] = Tail(up[x]) /\ \A s \in Openers \ {x} : up'[s] = up[s]
    BY <1>1, <2>1
  <2>3. LessUp(x)
    BY <2>1, <2>2, Taken DEF LessUp
  <2>4. QED BY <2>2, <2>3 DEF LessUp
<1>5. CASE Shut(x)
  <2>1. UNCHANGED up \/ Ask(x, "close", x)
    BY <1>5, Zenon DEF Shut
  <2>2. x \in Requests /\ "close" \in Ops \ {"input"}
    BY DEF Requests, Ops
  <2>3. QED BY <1>2, <1>3, <2>1, <2>2
<1>6. QED BY <1>2, <1>3, <1>4, <1>5

LEMMA DownLess ==
    ASSUME RunTyped, NEW x \in Openers,
           \/ UNCHANGED down \/ Reply(x, "ready", x)
           \/ down[x] # <<>> /\ down' = [down EXCEPT ![x] = Tail(@)]
    PROVE  down' \in [Openers -> Seq(Kinds \X Requests)] /\ \A s \in Openers : LessDown(s)
<1>1. down \in [Openers -> Seq(Kinds \X Requests)] /\ down[x] \in Seq(Kinds \X Requests)
  BY DEF RunTyped
<1>2. CASE UNCHANGED down
  BY <1>1, <1>2 DEF LessDown
<1>3. CASE Reply(x, "ready", x)
  <2> DEFINE m == <<"ready", x>>
  <2>1. down' = [down EXCEPT ![x] = Append(@, m)]
    BY <1>3 DEF Reply
  <2>2. m \in Kinds \X Requests /\ m[1] \notin OfRun /\ m[1] \notin Final
    BY DEF Kinds, Requests, OfRun, Final
  <2> HIDE DEF m
  <2>3. down'[x] = Append(down[x], m) /\ \A s \in Openers \ {x} : down'[s] = down[s]
    BY <1>1, <2>1
  <2>4. LessDown(x)
    <3>1. Of(Append(down[x], m), Final) = Of(down[x], Final)
      BY <1>1, <2>2, AddedNone, Zenon
    <3>2. Of(Append(down[x], m), OfRun) = Of(down[x], OfRun)
      BY <1>1, <2>2, AddedNone, Zenon
    <3>3. Closing(down[x], Final, OfRun) => Closing(Append(down[x], m), Final, OfRun)
      BY <1>1, <2>2, AddedLast, Zenon
    <3>4. QED BY <2>3, <3>1, <3>2, <3>3 DEF LessDown
  <2>5. down' \in [Openers -> Seq(Kinds \X Requests)]
    BY <1>1, <2>1, <2>2
  <2>6. QED BY <2>3, <2>4, <2>5 DEF LessDown
<1>4. CASE down[x] # <<>> /\ down' = [down EXCEPT ![x] = Tail(@)]
  <2>1. down'[x] = Tail(down[x]) /\ \A s \in Openers \ {x} : down'[s] = down[s]
    BY <1>1, <1>4
  <2>2. LessDown(x)
    BY <1>1, <1>4, <2>1, Taken DEF LessDown
  <2>3. Tail(down[x]) \in Seq(Kinds \X Requests)
    BY <1>1, <1>4
  <2>4. QED BY <1>1, <1>4, <2>1, <2>2, <2>3 DEF LessDown
<1>5. QED BY <1>2, <1>3, <1>4

\* A step that no request begins or ends to wait in.
LEMMA ReadingKept ==
    ASSUME Typed,
           \/ UNCHANGED req
           \/ \E r \in Requests, pc \in Stages :
                Pc(r, pc) /\ req[r] # "reading" /\ pc # "reading"
    PROVE  \A s \in Openers : Reading(s)' = Reading(s)
<1>1. req \in [Requests -> Stages]
  BY DEF Typed
<1>2. \A r \in Requests : req'[r] = "reading" <=> req[r] = "reading"
  BY <1>1 DEF Pc
<1>3. QED BY <1>2 DEF Reading

\* A step that begins and answers no run.
LEMMA LessStep ==
    ASSUME RunInv, Inv', UNCHANGED <<answer, mixed>>, \A s \in Openers : Less(s),
           down' \in [Openers -> Seq(Kinds \X Requests)],
           cmd' \in [Openers -> Users \cup {NoRun}],
           handler' \in [Openers -> {"none", "ready", "running", "ending", "ended"}],
           \A s \in Openers : handler'[s] = "running" => cmd'[s] # NoRun
    PROVE  RunInv'
<1>1. RunTyped'
  BY DEF RunInv, RunTyped, Less, LessUp
<1>2. \A s \in Openers \ mixed' : Alone(s)'
  BY AloneLess DEF RunInv
<1>3. OwnResult'
  BY DEF RunInv, OwnResult
<1>4. QED BY <1>1, <1>2, <1>3 DEF RunInv

\* POST /v1/sessions, .../interrupt and DELETE
LEMMA OtherRequests ==
    ASSUME RunInv, Inv', NEW r \in Requests,
           \/ Reap(r) \/ ReapOne(r) \/ Open(r) \/ Opened(r) \/ OpenFails(r) \/ Closed(r)
           \/ r \in Users /\ (Interrupt(r) \/ Close(r))
    PROVE  RunInv'
<1>1. Inv /\ Typed /\ StagesOK /\ RunTyped
  BY DEF RunInv, Inv
<1>2. UNCHANGED <<answer, mixed, handler, cmd>>
  BY DEF Reap, ReapOne, Open, Opened, OpenFails, Closed, Interrupt, Close, agent
<1>3. \/ UNCHANGED req
      \/ \E pc \in {"reaping", "opening", "done", "failed", "closing"} :
            Pc(r, pc) /\ req[r] # "reading"
  <2>1. CASE Reap(r)
    BY <2>1, Zenon DEF Reap
  <2>2. CASE ReapOne(r)
    BY <2>2, Zenon DEF ReapOne
  <2>3. CASE Open(r)
    BY <2>3, Zenon DEF Open
  <2>4. CASE Opened(r) \/ OpenFails(r) \/ Closed(r)
    BY <2>4, Zenon DEF Opened, OpenFails, Closed
  <2>5. CASE Interrupt(r)
    BY <2>5, Zenon DEF Interrupt
  <2>6. CASE Close(r)
    BY <2>6, Zenon DEF Close
  <2>7. QED BY <2>1, <2>2, <2>3, <2>4, <2>5, <2>6
<1>4. \A s \in Openers : Reading(s)' = Reading(s)
  <2>1. {"reaping", "opening", "done", "failed", "closing"} \subseteq Stages \ {"reading"}
    BY DEF Stages
  <2>2. QED BY <1>1, <1>3, <2>1, ReadingKept
<1>5. \E x \in Openers :
        \/ UNCHANGED up \/ Shut(x)
        \/ \E o \in Ops \ {"input"}, q \in Requests : Ask(x, o, q)
  <2>1. r \in Openers \/ About[r] \in Openers
    BY AboutOK DEF Requests
  <2>a. {"shell_open", "interrupt"} \subseteq Ops \ {"input"}
    BY DEF Ops
  <2>b. req[r] \in {"reaping", "opening"} => r \in Openers
    BY <1>1 DEF StagesOK, Requests
  <2>2. CASE Reap(r) \/ Opened(r) \/ OpenFails(r) \/ Closed(r)
    BY <2>1, <2>2 DEF Reap, Opened, OpenFails, Closed
  <2>3. CASE ReapOne(r)
    <3>1. PICK s \in stale[r] : UNCHANGED up \/ Shut(s)
      BY <2>3, Zenon DEF ReapOne
    <3>2. s \in Openers
      BY <1>1 DEF Typed
    <3>3. QED BY <3>1, <3>2
  <2>4. CASE Open(r)
    <3>1. (UNCHANGED up \/ Ask(r, "shell_open", r)) /\ r \in Openers
      BY <2>4, <2>b, Zenon DEF Open
    <3>2. QED BY <3>1, <2>a
  <2>5. CASE r \in Users /\ Interrupt(r)
    <3>1. UNCHANGED up \/ Ask(About[r], "interrupt", r)
      BY <2>5, Zenon DEF Interrupt
    <3>2. QED BY <2>5, <2>a, <3>1, AboutOK
  <2>6. CASE r \in Users /\ Close(r)
    BY <2>6, AboutOK DEF Close
  <2>7. QED BY <2>2, <2>3, <2>4, <2>5, <2>6
<1>6. \A s \in Openers : LessUp(s)
  <2>1. PICK x \in Openers :
           \/ UNCHANGED up \/ Shut(x)
           \/ \E o \in Ops \ {"input"}, q \in Requests : Ask(x, o, q)
    BY <1>5
  <2>2. QED BY <1>1, <2>1, UpLess
<1>7. \E x \in Openers :
        UNCHANGED down \/ (down[x] # <<>> /\ down' = [down EXCEPT ![x] = Tail(@)])
  <2>1. r \in Openers \/ About[r] \in Openers
    BY AboutOK DEF Requests
  <2>2. CASE Opened(r)
    <3>1. r \in Openers
      BY <1>1, <2>2 DEF StagesOK, Requests, Opened
    <3>2. QED BY <2>2, <3>1 DEF Opened
  <2>3. CASE ~Opened(r)
    <3>1. UNCHANGED down
      BY <2>3 DEF Reap, ReapOne, Open, OpenFails, Closed, Interrupt, Close
    <3>2. QED BY <2>1, <3>1
  <2>4. QED BY <2>2, <2>3
<1>8. down' \in [Openers -> Seq(Kinds \X Requests)] /\ \A s \in Openers : LessDown(s)
  <2>1. PICK x \in Openers :
           UNCHANGED down \/ (down[x] # <<>> /\ down' = [down EXCEPT ![x] = Tail(@)])
    BY <1>7
  <2>2. QED BY <1>1, <2>1, DownLess
<1>9. \A s \in Openers : Less(s)
  BY <1>2, <1>4, <1>6, <1>8 DEF Less
<1>10. /\ cmd' \in [Openers -> Users \cup {NoRun}]
       /\ handler' \in [Openers -> {"none", "ready", "running", "ending", "ended"}]
       /\ \A s \in Openers : handler'[s] = "running" => cmd'[s] # NoRun
  BY <1>1, <1>2 DEF RunTyped
<1>11. QED BY <1>2, <1>8, <1>9, <1>10, LessStep

LEMMA AgentOther ==
    ASSUME RunInv, Inv', NEW s \in Openers,
           RecvOpen(s) \/ RecvInterrupt(s) \/ Leave(s) \/ CleanUp(s) \/ CutShort(s)
    PROVE  RunInv'
<1>1. Inv /\ Typed /\ RunTyped
  BY DEF RunInv, Inv
<1>2. UNCHANGED <<answer, mixed, req>>
  BY DEF RecvOpen, RecvInterrupt, Leave, CleanUp, CutShort, client
<1>3. \A x \in Openers : Reading(x)' = Reading(x)
  BY <1>1, <1>2, ReadingKept
<1>4. \A x \in Openers : LessUp(x)
  <2>1. UNCHANGED up \/ \E o \in {"shell_open", "interrupt", "close"} : Recv(s, o)
    BY Zenon DEF RecvOpen, RecvInterrupt, Leave, CleanUp, CutShort
  <2>2. {"shell_open", "interrupt", "close"} \subseteq Ops
    BY DEF Ops
  <2>3. QED BY <1>1, <2>1, <2>2, UpLess
<1>5. down' \in [Openers -> Seq(Kinds \X Requests)] /\ \A x \in Openers : LessDown(x)
  <2>1. UNCHANGED down \/ Reply(s, "ready", s)
    BY DEF RecvOpen, RecvInterrupt, Leave, CleanUp, CutShort
  <2>2. QED BY <1>1, <2>1, DownLess
<1>6. /\ cmd' \in [Openers -> Users \cup {NoRun}]
      /\ \A x \in Openers : cmd'[x] \in {cmd[x], NoRun}
      /\ handler' \in [Openers -> {"none", "ready", "running", "ending", "ended"}]
      /\ \A x \in Openers : handler'[x] = "running" => cmd'[x] # NoRun
  <2>1. /\ cmd \in [Openers -> Users \cup {NoRun}]
        /\ handler \in [Openers -> {"none", "ready", "running", "ending", "ended"}]
        /\ \A x \in Openers : handler[x] = "running" => cmd[x] # NoRun
    BY <1>1 DEF RunTyped
  <2>2. CASE RecvOpen(s) \/ Leave(s)
    <3>1. /\ cmd' = cmd
          /\ \E h \in {"ready", "ending"} : handler' = [handler EXCEPT ![s] = h]
      BY <2>2 DEF RecvOpen, Leave
    <3>2. QED BY <2>1, <3>1
  <2>3. CASE RecvInterrupt(s)
    BY <2>1, <2>3 DEF RecvInterrupt
  <2>4. CASE CleanUp(s) \/ CutShort(s)
    <3>1. cmd' = [cmd EXCEPT ![s] = NoRun] /\ handler' = [handler EXCEPT ![s] = "ended"]
      BY <2>4 DEF CleanUp, CutShort
    <3>2. QED BY <2>1, <3>1
  <2>5. QED BY <2>2, <2>3, <2>4
<1>7. \A x \in Openers : Less(x)
  BY <1>3, <1>4, <1>5, <1>6 DEF Less
<1>8. QED BY <1>2, <1>5, <1>6, <1>7, LessStep

\* A step at one session leaves the others as they are.
LEMMA AloneElsewhere ==
    ASSUME RunInv, NEW s \in Openers, NEW x \in Openers \ {s}, x \notin mixed,
           up'[x] = up[x], down'[x] = down[x], cmd'[x] = cmd[x], Reading(x)' = Reading(x)
    PROVE  Alone(x)'
<1>1. Alone(x)
  BY DEF RunInv
<1>2. Less(x)
  BY DEF Less, LessUp, LessDown
<1>3. QED BY <1>1, <1>2, AloneLess

\* A request begins to wait, or stops to.
LEMMA ReadingMoves ==
    ASSUME Typed, NEW r \in Requests, NEW pc \in Stages, Pc(r, pc)
    PROVE  /\ \A x \in Openers \ {About[r]} : Reading(x)' = Reading(x)
           /\ pc = "reading" => Reading(About[r])' = Reading(About[r]) \cup {r}
           /\ pc # "reading" => Reading(About[r])' = Reading(About[r]) \ {r}
<1>1. \A q \in Requests : req'[q] = IF q = r THEN pc ELSE req[q]
  BY DEF Typed, Pc
<1>2. QED BY <1>1 DEF Reading

LEMMA RunStep ==
    ASSUME RunInv, Inv', NEW r \in Users, Run(r)
    PROVE  RunInv'
<1> DEFINE s == About[r]
           m == <<"input", r>>
<1>1. Typed /\ RunTyped /\ r \in Requests /\ s \in Openers
  BY AboutOK DEF RunInv, Inv
<1>2. /\ UNCHANGED <<answer, handler, cmd, down>>
      /\ mixed' = IF Reading(s) = {} THEN mixed ELSE mixed \cup {s}
  BY DEF Run, agent
<1>3. \/ Pc(r, "failed") /\ req[r] # "reading" /\ UNCHANGED up
      \/ Pc(r, "reading") /\ Ask(s, "input", r)
  BY Zenon DEF Run
<1>4. mixed \subseteq mixed' /\ mixed' \subseteq Openers
  BY <1>1, <1>2 DEF RunTyped
<1>5. OwnResult'
  BY <1>2, <1>4 DEF RunInv, OwnResult
<1>6. CASE Pc(r, "failed") /\ req[r] # "reading" /\ UNCHANGED up
  <2>1. \A x \in Openers : Reading(x)' = Reading(x)
    BY <1>1, <1>6, ReadingKept DEF Stages
  <2>2. \A x \in Openers : Less(x)
    BY <1>2, <1>6, <2>1 DEF Less, LessUp, LessDown
  <2>3. \A x \in Openers \ mixed' : Alone(x)'
    BY <1>4, <2>2, AloneLess DEF RunInv
  <2>4. RunTyped'
    BY <1>1, <1>2, <1>4, <1>6 DEF RunTyped
  <2>5. QED BY <1>5, <2>3, <2>4 DEF RunInv
<1>7. CASE Pc(r, "reading") /\ Ask(s, "input", r)
  <2>1. m \in Ops \X Requests /\ m[1] = "input" /\ m[2] = r
    BY <1>1 DEF Ops
  <2>2. up' = [up EXCEPT ![s] = Append(@, m)] /\ up \in [Openers -> Seq(Ops \X Requests)]
    BY <1>1, <1>7 DEF Ask, Typed
  <2> HIDE DEF m
  <2>3. up'[s] = Append(up[s], m) /\ \A x \in Openers \ {s} : up'[x] = up[x]
    BY <1>1, <2>2
  <2>4. Of(up'[s], {"input"}) \subseteq Of(up[s], {"input"}) \cup {r}
    <3>1. up[s] \in Seq(Ops \X Requests) /\ m[1] \in {"input"}
      BY <1>1, <2>1, <2>2
    <3>2. Of(Append(up[s], m), {"input"}) \subseteq Of(up[s], {"input"}) \cup {m[2]}
      <4>1. m \in Ops \X Requests
        BY <2>1
      <4>2. QED BY <3>1, <4>1, AddedOne, Zenon
    <3>3. QED BY <2>1, <2>3, <3>1, <3>2
  <2>5. RunTyped'
    BY <1>1, <1>2, <1>4, <2>3, <2>4 DEF RunTyped
  <2>6. /\ \A x \in Openers \ {s} : Reading(x)' = Reading(x)
        /\ Reading(s)' = Reading(s) \cup {r}
    BY <1>1, <1>7, ReadingMoves DEF Stages
  <2>7. \A x \in Openers \ {s} : x \notin mixed' => Alone(x)'
    BY <1>1, <1>2, <1>4, <2>3, <2>6, AloneElsewhere
  <2>8. ASSUME s \notin mixed' PROVE Alone(s)'
    <3>1. Reading(s) = {} /\ Alone(s)
      BY <1>1, <1>2, <2>8 DEF RunInv
    <3>2. /\ Of(up[s], {"input"}) = {} /\ Of(down[s], OfRun) = {} /\ cmd[s] = NoRun
          /\ Closing(up[s], {"input"}, {"input"}) /\ Closing(down[s], Final, OfRun)
      BY <3>1 DEF Alone
    <3>3. Closing(up'[s], {"input"}, {"input"})
      <4>1. up[s] \in Seq(Ops \X Requests)
        BY <1>1, <2>2
      <4>2. Closing(Append(up[s], m), {"input"}, {"input"})
        BY <2>1, <3>2, <4>1, AddedLast, Zenon
      <4>3. QED BY <2>3, <4>2
    <3>4. QED BY <1>2, <2>4, <2>6, <3>1, <3>2, <3>3 DEF Alone
  <2>9. QED BY <1>5, <2>5, <2>7, <2>8 DEF RunInv
<1>8. QED BY <1>3, <1>6, <1>7

LEMMA RunFailsStep ==
    ASSUME RunInv, Inv', NEW r \in Requests, RunFails(r)
    PROVE  RunInv'
<1>1. Typed /\ StagesOK /\ RunTyped
  BY DEF RunInv, Inv
<1>2. r \in Users /\ About[r] \in Openers
  BY <1>1, AboutOK DEF RunFails, StagesOK, Requests
<1>3. /\ Pc(r, "failed") /\ mixed' = mixed \cup {About[r]}
      /\ UNCHANGED <<answer, handler, cmd, up, down>>
  BY DEF RunFails, agent
<1>4. RunTyped' /\ OwnResult'
  BY <1>1, <1>2, <1>3 DEF RunInv, RunTyped, OwnResult
<1>5. \A x \in Openers \ {About[r]} : Reading(x)' = Reading(x)
  BY <1>1, <1>3, ReadingMoves DEF Stages
<1>6. \A x \in Openers \ mixed' : Alone(x)'
  BY <1>2, <1>3, <1>5, AloneElsewhere
<1>7. QED BY <1>4, <1>6 DEF RunInv

LEMMA RunReadsStep ==
    ASSUME RunInv, Inv', NEW r \in Requests, RunReads(r)
    PROVE  RunInv'
<1> DEFINE s == About[r]
           kind == Head(down[s])[1]
           c == Head(down[s])[2]
<1>1. Typed /\ StagesOK /\ RunTyped
  BY DEF RunInv, Inv
<1>2. req[r] = "reading" /\ down[s] # <<>> /\ down' = [down EXCEPT ![s] = Tail(@)]
  BY DEF RunReads
<1>3. r \in Users /\ s \in Openers /\ r \in Reading(s)
  BY <1>1, <1>2, AboutOK DEF StagesOK, Requests, Reading
<1>4. UNCHANGED <<mixed, handler, cmd, up>>
  BY DEF RunReads, agent
<1>5. answer' = [answer EXCEPT ![r] = IF kind \in {"stdout", "result"} THEN @ \cup {c} ELSE @]
  BY Zenon DEF RunReads
<1>6. req' = [req EXCEPT ![r] = CASE kind = "result" -> "done"
                                  [] kind = "error" -> "failed"
                                  [] OTHER -> @]
  BY Zenon DEF RunReads
<1>7. down[s] \in Seq(Kinds \X Requests) /\ kind \in Kinds /\ c \in Requests
  <2>1. down[s] \in Seq(Kinds \X Requests)
    BY <1>1, <1>3 DEF RunTyped
  <2>2. Head(down[s]) \in Kinds \X Requests
    BY <1>2, <2>1
  <2>3. QED BY <2>1, <2>2
<1>8. down' \in [Openers -> Seq(Kinds \X Requests)] /\ \A x \in Openers : LessDown(x)
  BY <1>1, <1>2, <1>3, DownLess
<1>9. \A x \in Openers \ {s} : down'[x] = down[x]
  BY <1>1, <1>2, <1>3 DEF RunTyped
<1>10. \E pc \in Stages :
         /\ Pc(r, pc)
         /\ pc # "reading" => kind \in Final
  <2>1. CASE kind = "result"
    BY <1>6, <2>1 DEF Pc, Stages, Final
  <2>2. CASE kind = "error"
    <3>1. req' = [req EXCEPT ![r] = "failed"]
      BY <1>6, <2>2
    <3>2. QED BY <2>2, <3>1 DEF Pc, Stages, Final
  <2>3. CASE kind # "result" /\ kind # "error"
    <3>1. req' = [req EXCEPT ![r] = "reading"]
      BY <1>2, <1>6, <2>3
    <3>2. QED BY <3>1 DEF Pc, Stages
  <2>4. QED BY <2>1, <2>2, <2>3
<1> HIDE DEF s, kind, c
<1>11. \A x \in Openers \ {s} : Reading(x)' = Reading(x)
  BY <1>1, <1>10, ReadingMoves DEF s
<1>12. \A x \in Openers \ {s} : x \notin mixed' => Alone(x)'
  BY <1>3, <1>4, <1>9, <1>11, AloneElsewhere
<1>13. ASSUME s \notin mixed PROVE Alone(s)' /\ (kind \in OfRun => c = r)
  <2>1. Alone(s) /\ Reading(s) = {r}
    <3>1. Alone(s)
      BY <1>3, <1>13 DEF RunInv
    <3>2. QED BY <1>3, <3>1 DEF Alone
  <2>2. kind \in OfRun => c = r
    <3>1. kind \in OfRun => c \in Of(down[s], OfRun)
      BY <1>2, <1>7, Taken DEF kind, c
    <3>2. QED BY <2>1, <3>1 DEF Alone
  <2>3. CASE Reading(s)' = Reading(s)
    <3>1. Less(s)
      BY <1>3, <1>4, <1>8, <2>3 DEF Less, LessUp
    <3>2. QED BY <1>3, <2>1, <2>2, <3>1, AloneLess
  <2>4. CASE kind \in Final /\ Reading(s)' = Reading(s) \ {r}
    <3>1. Of(down'[s], OfRun) = {} /\ Closing(down'[s], Final, OfRun)
      <4>1. down'[s] = Tail(down[s])
        BY <1>1, <1>2, <1>3 DEF RunTyped
      <4>2. Closing(down[s], Final, OfRun)
        BY <2>1 DEF Alone
      <4>3. Of(Tail(down[s]), OfRun) = {} /\ Closing(Tail(down[s]), Final, OfRun)
        BY <1>2, <1>7, <2>4, <4>2, Taken DEF kind
      <4>4. QED BY <4>1, <4>3
    <3>2. c \in Of(down[s], Final) /\ c \in Of(down[s], OfRun)
      <4>1. kind \in OfRun
        BY <2>4 DEF Final, OfRun
      <4>2. QED BY <1>2, <1>7, <2>4, <4>1, Taken DEF kind, c
    <3>3. cmd[s] = NoRun /\ Of(up[s], {"input"}) = {}
      BY <2>1, <3>2 DEF Alone
    <3>4. QED BY <1>4, <2>1, <2>2, <2>4, <3>1, <3>3 DEF Alone
  <2>5. Reading(s)' = Reading(s) \/ (kind \in Final /\ Reading(s)' = Reading(s) \ {r})
    <3>1. PICK pc \in Stages : Pc(r, pc) /\ (pc # "reading" => kind \in Final)
      BY <1>10
    <3>2. /\ pc = "reading" => Reading(s)' = Reading(s) \cup {r}
          /\ pc # "reading" => Reading(s)' = Reading(s) \ {r}
      BY <1>1, <3>1, ReadingMoves DEF s
    <3>3. QED BY <1>3, <3>1, <3>2
  <2>6. QED BY <2>2, <2>3, <2>4, <2>5
<1>14. \A x \in Openers \ mixed' : Alone(x)'
  BY <1>4, <1>12, <1>13
<1>15. RunTyped'
  BY <1>1, <1>3, <1>4, <1>5, <1>7, <1>8 DEF RunTyped
<1>16. OwnResult'
  <2> SUFFICES ASSUME NEW u \in Users, About[u] \notin mixed PROVE answer'[u] \subseteq {u}
    BY <1>4 DEF OwnResult
  <2>1. answer[u] \subseteq {u}
    BY DEF RunInv, OwnResult
  <2>2. CASE u = r
    <3>1. kind \in {"stdout", "result"} => c = r
      BY <1>13, <2>2 DEF s, OfRun
    <3>2. QED BY <1>1, <1>3, <1>5, <2>1, <2>2, <3>1 DEF RunTyped
  <2>3. CASE u # r
    BY <1>1, <1>3, <1>5, <2>1, <2>3 DEF RunTyped
  <2>4. QED BY <2>2, <2>3
<1>17. QED BY <1>14, <1>15, <1>16 DEF RunInv

LEMMA RecvInputStep ==
    ASSUME RunInv, Inv', NEW s \in Openers, RecvInput(s)
    PROVE  RunInv'
<1> DEFINE r == Head(up[s])[2]
<1>1. Typed /\ RunTyped
  BY DEF RunInv, Inv
<1>2. /\ UNCHANGED <<answer, mixed, req>>
      /\ up[s] # <<>> /\ Head(up[s])[1] = "input" /\ up' = [up EXCEPT ![s] = Tail(@)]
  BY DEF RecvInput, Recv, client
<1>3. IF handler[s] = "running"
      THEN Reply(s, "error", r) /\ UNCHANGED <<handler, cmd>>
      ELSE /\ handler' = [handler EXCEPT ![s] = "running"]
           /\ cmd' = [cmd EXCEPT ![s] = r]
           /\ UNCHANGED down
  BY Zenon DEF RecvInput
<1>4. /\ up[s] \in Seq(Ops \X Requests) /\ up'[s] = Tail(up[s])
      /\ \A x \in Openers \ {s} : up'[x] = up[x]
  BY <1>1, <1>2 DEF Typed
<1>5. r \in Of(up[s], {"input"})
  BY <1>2, <1>4, Taken
<1>6. r \in Users /\ r # NoRun /\ r \in Requests
  BY <1>1, <1>5, RequestsAssumption DEF RunTyped, Requests, NoRun
<1>7. \A x \in Openers : LessUp(x)
  <2>1. Recv(s, "input") /\ "input" \in Ops
    BY DEF RecvInput, Ops
  <2>2. QED BY <1>1, <2>1, UpLess
<1> HIDE DEF r
<1>8. \A x \in Openers : Reading(x)' = Reading(x)
  BY <1>1, <1>2, ReadingKept
<1>9. RunTyped'
  <2>1. /\ down \in [Openers -> Seq(Kinds \X Requests)]
        /\ cmd \in [Openers -> Users \cup {NoRun}]
        /\ handler \in [Openers -> {"none", "ready", "running", "ending", "ended"}]
        /\ \A x \in Openers : handler[x] = "running" => cmd[x] # NoRun
    BY <1>1 DEF RunTyped
  <2>2. down' \in [Openers -> Seq(Kinds \X Requests)]
    <3>1. CASE Reply(s, "error", r)
      <4>1. down' = [down EXCEPT ![s] = Append(@, <<"error", r>>)]
        BY <3>1 DEF Reply
      <4>2. <<"error", r>> \in Kinds \X Requests
        BY <1>6 DEF Kinds
      <4>3. QED BY <2>1, <4>1, <4>2
    <3>2. CASE UNCHANGED down
      BY <2>1, <3>2
    <3>3. QED BY <1>3, <3>1, <3>2
  <2>3. /\ cmd' \in [Openers -> Users \cup {NoRun}]
        /\ handler' \in [Openers -> {"none", "ready", "running", "ending", "ended"}]
        /\ \A x \in Openers : handler'[x] = "running" => cmd'[x] # NoRun
    BY <1>3, <1>6, <2>1
  <2>4. \A x \in Openers : Of(up'[x], {"input"}) \subseteq Users
    BY <1>1, <1>7 DEF RunTyped, LessUp
  <2>5. QED BY <1>1, <1>2, <2>2, <2>3, <2>4 DEF RunTyped
<1>10. \A x \in Openers \ {s} : x \notin mixed' => Alone(x)'
  <2>1. \A x \in Openers \ {s} : down'[x] = down[x] /\ cmd'[x] = cmd[x]
    BY <1>1, <1>3 DEF RunTyped, Reply
  <2>2. QED BY <1>2, <1>4, <1>8, <2>1, AloneElsewhere
<1>11. ASSUME s \notin mixed PROVE Alone(s)'
  <2>1. Alone(s)
    BY <1>11 DEF RunInv
  <2>2. /\ r \in Reading(s) /\ Of(down[s], OfRun) = {} /\ cmd[s] = NoRun
        /\ Closing(up[s], {"input"}, {"input"}) /\ Closing(down[s], Final, OfRun)
    BY <1>5, <2>1 DEF Alone
  <2>3. handler[s] # "running"
    BY <1>1, <2>2 DEF RunTyped
  <2>4. UNCHANGED down /\ cmd'[s] = r
    BY <1>1, <1>3, <2>3 DEF RunTyped
  <2>5. Of(up'[s], {"input"}) = {} /\ Closing(up'[s], {"input"}, {"input"})
    <3>1. /\ Of(Tail(up[s]), {"input"}) = {}
          /\ Closing(Tail(up[s]), {"input"}, {"input"})
      BY <1>2, <1>4, <2>2, Taken
    <3>2. QED BY <1>4, <3>1
  <2>6. Of(down[s], Final) = {}
    BY <2>2 DEF Of, Final, OfRun
  <2>7. QED BY <1>8, <2>1, <2>2, <2>4, <2>5, <2>6 DEF Alone
<1>12. OwnResult'
  BY <1>2 DEF RunInv, OwnResult
<1>13. QED BY <1>2, <1>9, <1>10, <1>11, <1>12 DEF RunInv

\* The command that runs prints, or ends.
LEMMA OutputSteps ==
    ASSUME RunInv, Inv', NEW s \in Openers, Prints(s) \/ Ends(s) \/ EndsDead(s)
    PROVE  RunInv'
<1>1. Typed /\ RunTyped
  BY DEF RunInv, Inv
<1>2. UNCHANGED <<answer, mixed, req, up>> /\ handler[s] = "running"
  BY DEF Prints, Ends, EndsDead, client
<1>3. \/ Reply(s, "stdout", cmd[s]) /\ UNCHANGED <<handler, cmd>>
      \/ /\ Reply(s, "result", cmd[s])
         /\ handler' = [handler EXCEPT ![s] = "ready"] /\ cmd' = [cmd EXCEPT ![s] = NoRun]
  BY DEF Prints, Ends, EndsDead
<1>4. cmd[s] \in Users /\ cmd[s] # NoRun /\ cmd[s] \in Requests
  BY <1>1, <1>2, AboutOK DEF RunTyped
<1>5. PICK kind \in {"stdout", "result"} :
         /\ down' = [down EXCEPT ![s] = Append(@, <<kind, cmd[s]>>)]
         /\ kind = "stdout" => cmd' = cmd
         /\ kind = "result" => cmd' = [cmd EXCEPT ![s] = NoRun]
  BY <1>3 DEF Reply
<1> DEFINE m == <<kind, cmd[s]>>
<1>6. m \in Kinds \X Requests /\ m[1] \in OfRun
  BY <1>4 DEF Kinds, OfRun
<1>a. m[1] = kind /\ m[2] = cmd[s]
  OBVIOUS
<1>7. down' = [down EXCEPT ![s] = Append(@, m)]
  BY <1>5
<1> HIDE DEF m
<1>b. down[s] \in Seq(Kinds \X Requests)
  BY <1>1 DEF RunTyped
<1>8. /\ down'[s] = Append(down[s], m)
      /\ \A x \in Openers \ {s} : down'[x] = down[x] /\ cmd'[x] = cmd[x]
  BY <1>1, <1>3, <1>7 DEF RunTyped
<1>9. \A x \in Openers : Reading(x)' = Reading(x)
  BY <1>1, <1>2, ReadingKept
<1>10. RunTyped'
  <2>1. /\ down \in [Openers -> Seq(Kinds \X Requests)]
        /\ cmd \in [Openers -> Users \cup {NoRun}]
        /\ handler \in [Openers -> {"none", "ready", "running", "ending", "ended"}]
        /\ \A x \in Openers : handler[x] = "running" => cmd[x] # NoRun
    BY <1>1 DEF RunTyped
  <2>2. down' \in [Openers -> Seq(Kinds \X Requests)]
    BY <1>6, <1>7, <2>1
  <2>3. /\ cmd' \in [Openers -> Users \cup {NoRun}]
        /\ handler' \in [Openers -> {"none", "ready", "running", "ending", "ended"}]
        /\ \A x \in Openers : handler'[x] = "running" => cmd'[x] # NoRun
    BY <1>3, <2>1
  <2>4. QED BY <1>1, <1>2, <2>2, <2>3 DEF RunTyped
<1>11. \A x \in Openers \ {s} : x \notin mixed' => Alone(x)'
  BY <1>2, <1>8, <1>9, AloneElsewhere
<1>12. ASSUME s \notin mixed PROVE Alone(s)'
  <2>1. Alone(s)
    BY <1>12 DEF RunInv
  <2>2. /\ cmd[s] \in Reading(s) /\ Of(up[s], {"input"}) = {} /\ Of(down[s], Final) = {}
        /\ Of(down[s], OfRun) \subseteq Reading(s) /\ Closing(down[s], Final, OfRun)
    BY <1>4, <2>1 DEF Alone
  <2>3. Of(down'[s], OfRun) \subseteq Reading(s)
    <3>1. Of(Append(down[s], m), OfRun) \subseteq Of(down[s], OfRun) \cup {m[2]}
      BY <1>6, <1>b, AddedOne, Zenon
    <3>2. QED BY <1>a, <1>8, <2>2, <3>1
  <2>4. Closing(down'[s], Final, OfRun)
    <3>1. Closing(Append(down[s], m), Final, OfRun)
      BY <1>6, <1>b, <2>2, AddedLast, Zenon
    <3>2. QED BY <1>8, <3>1
  <2>5. ASSUME kind = "stdout" PROVE Of(down'[s], Final) = {}
    <3>1. m[1] \notin Final
      BY <1>a, <2>5 DEF Final
    <3>2. Of(Append(down[s], m), Final) = Of(down[s], Final)
      BY <1>6, <1>b, <3>1, AddedNone, Zenon
    <3>3. QED BY <1>8, <2>2, <3>2
  <2>6. cmd'[s] = IF kind = "stdout" THEN cmd[s] ELSE NoRun
    BY <1>1, <1>5 DEF RunTyped
  <2>7. QED BY <1>2, <1>9, <2>1, <2>2, <2>3, <2>4, <2>5, <2>6 DEF Alone
<1>13. OwnResult'
  BY <1>2 DEF RunInv, OwnResult
<1>14. QED BY <1>2, <1>10, <1>11, <1>12, <1>13 DEF RunInv

LEMMA NextRunInv == RunInv /\ [Next]_vars => RunInv'
<1> SUFFICES ASSUME RunInv, [Next]_vars PROVE RunInv'
  OBVIOUS
<1>1. Inv'
  BY NextInv DEF RunInv
<1>2. ASSUME NEW r \in Requests, Request(r) PROVE RunInv'
  BY <1>1, <1>2, OtherRequests, RunReadsStep, RunFailsStep DEF Request
<1>3. ASSUME NEW r \in Openers, Reap(r) \/ Request(r) PROVE RunInv'
  BY <1>1, <1>2, <1>3, OtherRequests, AboutOK
<1>4. ASSUME NEW r \in Users, Run(r) \/ Interrupt(r) \/ Close(r) \/ Request(r) PROVE RunInv'
  BY <1>1, <1>2, <1>4, OtherRequests, RunStep, AboutOK
<1>5. ASSUME NEW s \in Openers, Agent(s) \/ Prints(s) \/ Ends(s) \/ CutShort(s)
      PROVE  RunInv'
  BY <1>1, <1>5, AgentOther, RecvInputStep, OutputSteps DEF Agent
<1>6. CASE TunnelEnds \/ UNCHANGED vars
  <2>1. UNCHANGED <<req, up, down, handler, cmd, answer, mixed>>
    BY <1>6 DEF TunnelEnds, vars, client, agent
  <2>2. RunTyped' /\ OwnResult'
    BY <2>1 DEF RunInv, RunTyped, OwnResult
  <2>3. \A s \in Openers \ mixed' : Alone(s)'
    <3>1. \A s \in Openers : Less(s)
      BY <2>1 DEF Less, LessUp, LessDown, Reading
    <3>2. QED BY <2>1, <3>1, AloneLess DEF RunInv
  <2>4. QED BY <1>1, <2>2, <2>3 DEF RunInv
<1>7. QED BY <1>3, <1>4, <1>5, <1>6 DEF Next

LEMMA InitRunInv == Init => RunInv
<1> SUFFICES ASSUME Init PROVE RunInv
  OBVIOUS
<1>1. \A s \in Openers : \A ks : Of(up[s], ks) = {} /\ Of(down[s], ks) = {}
  BY DEF Init, Of
<1>2. RunTyped
  BY <1>1 DEF Init, RunTyped, NoRun
<1>3. \A s \in Openers : Alone(s)
  <2> SUFFICES ASSUME NEW s \in Openers PROVE Alone(s)
    OBVIOUS
  <2>1. Reading(s) = {} /\ cmd[s] = NoRun
    BY DEF Init, Reading
  <2>2. /\ Closing(up[s], {"input"}, {"input"}) /\ Closing(down[s], Final, OfRun)
        /\ Of(up[s], {"input"}) = {} /\ Of(down[s], OfRun) = {}
    BY <1>1 DEF Init, Closing
  <2>3. QED BY <2>1, <2>2 DEF Alone
<1>4. OwnResult
  BY DEF Init, OwnResult
<1>5. QED BY <1>2, <1>3, <1>4, InitInv DEF RunInv

\* A run is answered with nothing but the output and the result of its own command,
\* on every session on which runs have not overlapped and none has been given up:
\* the closing, reaping, interrupting and dying of sessions mix no answers.
THEOREM AnswersAreOwn == Spec => []OwnResult
<1>1. RunInv => OwnResult
  BY DEF RunInv
<1>2. QED BY <1>1, InitRunInv, NextRunInv, PTL DEF Spec

-----------------------------------------------------------------------------
(***************************************************************************)
(* Requests for one operation.  What the agent has read of a message is    *)
(* related to the body that was announced, although the two ends share     *)
(* nothing but the stream: a message goes out only when the body is whole, *)
(* and from then on neither its length nor the operation changes.          *)
(***************************************************************************)
RequestTyped ==
    /\ http \in [Jobs -> {"idle", "receiving", "opening", "sending", "reading", "ended", "left"}]
    /\ serving \in [Jobs -> {"none", "reading", "dispatching", "running", "replying", "ended"}]
    /\ op \in [Jobs -> R!Operations] /\ size \in [Jobs -> Nat] /\ arrived \in [Jobs -> Nat]
    /\ taken \in [Jobs -> Nat] /\ got \in [Jobs -> Nat] /\ length \in [Jobs -> Nat]
    /\ child \in [Jobs -> {"none", "running", "exited", "killed"}]
    /\ told \in [Jobs -> {"none", "ok", "error"}]
    /\ good \subseteq Jobs
    /\ file \in (Jobs \cup {NoClient}) \X Nat

\* The message of r is whole, and where it is carried out.
Whole(r) ==
    /\ http[r] \in {"idle", "receiving", "opening", "left"} => serving[r] = "none"
    /\ http[r] \in {"opening", "sending", "reading"} \/ serving[r] # "none"
         => arrived[r] = size[r]
    /\ serving[r] \in {"dispatching", "running"} => taken[r] = 1 + size[r]
    /\ serving[r] = "running" => op[r] = "exec"

\* A reply that says ok.
Good(r) ==
    r \in good =>
        /\ serving[r] \in {"replying", "ended"}
        /\ op[r] = "exec" => child[r] = "exited"
        /\ op[r] = "write_file" => taken[r] = 1 + size[r]

Told(r) == told[r] = "ok" => r \in good /\ got[r] = length[r] /\ http[r] = "ended"

\* The file holds a part of the body only after a write that failed.
Stored == file[1] \in Jobs =>
    /\ file[2] <= size[file[1]]
    /\ file[1] \in good => file[2] = size[file[1]]
    /\ serving[file[1]] \in {"replying", "ended"}

RequestInv == RequestTyped /\ Stored /\ \A r \in Jobs : Whole(r) /\ Good(r) /\ Told(r)

\* What a step of r leaves alone.
LEMMA OtherJobs ==
    ASSUME RequestInv, NEW r \in Jobs, RequestTyped', Whole(r)', Good(r)', Told(r)', Stored',
           \A q \in Jobs \ {r} :
              /\ http'[q] = http[q] /\ serving'[q] = serving[q] /\ op'[q] = op[q]
              /\ size'[q] = size[q] /\ arrived'[q] = arrived[q] /\ taken'[q] = taken[q]
              /\ got'[q] = got[q] /\ length'[q] = length[q] /\ child'[q] = child[q]
              /\ told'[q] = told[q] /\ (q \in good' <=> q \in good)
    PROVE  RequestInv'
<1>1. \A q \in Jobs \ {r} : Whole(q)' /\ Good(q)' /\ Told(q)'
  BY DEF RequestInv, Whole, Good, Told
<1>2. QED BY <1>1 DEF RequestInv

\* The HTTP side and the client half
LEMMA ClientSteps ==
    ASSUME RequestInv, NEW r \in Jobs,
           R!Begin(r) \/ R!BodyPart(r) \/ R!ReadRequest(r) \/ R!Client(r)
    PROVE  RequestInv'
<1>1. RequestTyped /\ Stored /\ Whole(r) /\ Good(r) /\ Told(r)
  BY DEF RequestInv
<1>a. \A a : R!Answer(r, a) => /\ http' = [http EXCEPT ![r] = "ended"]
                               /\ told' = [told EXCEPT ![r] = a]
  BY DEF R!Answer
<1>b. \A pc : R!Goes(r, pc) => http' = [http EXCEPT ![r] = pc] /\ told' = told
  BY DEF R!Goes
<1>2. CASE R!Begin(r)
  <2>1. /\ http[r] = "idle"
        /\ UNCHANGED <<arrived, got, taken, serving, length, good, child, file>>
    BY <1>2 DEF R!Begin, R!agent
  <2>2. CASE R!Goes(r, "left") /\ UNCHANGED <<op, size>>
    <3>1. http' = [http EXCEPT ![r] = "left"] /\ UNCHANGED <<told, op, size>>
      BY <1>b, <2>2
    <3>2. QED BY <1>1, <2>1, <3>1, OtherJobs DEF RequestTyped, Stored, Whole, Good, Told
  <2>3. ASSUME NEW o \in R!Operations, NEW n \in 0..MaxBody + 1,
               op' = [op EXCEPT ![r] = o], size' = [size EXCEPT ![r] = n],
               IF n > MaxBody THEN R!Answer(r, "error") ELSE R!Goes(r, "receiving")
        PROVE  RequestInv'
    <3>1. \/ http' = [http EXCEPT ![r] = "ended"] /\ told' = [told EXCEPT ![r] = "error"]
          \/ http' = [http EXCEPT ![r] = "receiving"] /\ told' = told
      BY <1>a, <1>b, <2>3
    <3>2. n \in Nat
      BY BoundsAssumption
    <3>3. RequestTyped'
      BY <1>1, <2>1, <2>3, <3>1, <3>2 DEF RequestTyped
    <3>4. Whole(r)' /\ Good(r)' /\ Told(r)'
      BY <1>1, <2>1, <2>3, <3>1 DEF RequestTyped, Whole, Good, Told
    <3>5. Stored'
      BY <1>1, <2>1, <2>3 DEF RequestTyped, Stored, Whole
    <3>6. QED BY <1>1, <2>1, <2>3, <3>1, <3>3, <3>4, <3>5, OtherJobs DEF RequestTyped
  <2>4. QED BY <1>2, <2>2, <2>3, Zenon DEF R!Begin
<1>3. CASE R!BodyPart(r)
  <2>1. /\ http[r] = "receiving" /\ arrived' = [arrived EXCEPT ![r] = @ + 1]
        /\ UNCHANGED <<http, op, size, got, told, taken, serving, length, good, child, file>>
    BY <1>3 DEF R!BodyPart, R!agent
  <2>2. RequestTyped' /\ Stored' /\ Whole(r)' /\ Good(r)' /\ Told(r)'
    BY <1>1, <2>1 DEF RequestTyped, Stored, Whole, Good, Told
  <2>3. QED BY <1>1, <2>1, <2>2, OtherJobs DEF RequestTyped
<1>4. CASE R!ReadRequest(r)
  <2>1. /\ http[r] = "receiving"
        /\ UNCHANGED <<op, size, arrived, got, taken, serving, length, good, child, file>>
        /\ \/ http' = [http EXCEPT ![r] = "ended"] /\ told' = [told EXCEPT ![r] = "error"]
           \/ arrived[r] = size[r] /\ http' = [http EXCEPT ![r] = "opening"] /\ told' = told
    BY <1>4, <1>a, <1>b DEF R!ReadRequest, R!agent
  <2>2. RequestTyped' /\ Stored' /\ Whole(r)' /\ Good(r)' /\ Told(r)'
    BY <1>1, <2>1 DEF RequestTyped, Stored, Whole, Good, Told
  <2>3. QED BY <1>1, <2>1, <2>2, OtherJobs DEF RequestTyped
<1>5. CASE R!OpenStream(r)
  <2>1. /\ http[r] = "opening"
        /\ UNCHANGED <<op, size, arrived, got, taken, length, good, child, file>>
        /\ \/ /\ http' = [http EXCEPT ![r] = "ended"] /\ told' = [told EXCEPT ![r] = "error"]
              /\ serving' = serving
           \/ /\ http' = [http EXCEPT ![r] = "sending"] /\ told' = told
              /\ serving' = [serving EXCEPT ![r] = "reading"]
    BY <1>5, <1>a, <1>b DEF R!OpenStream
  <2>2. RequestTyped' /\ Stored' /\ Whole(r)' /\ Good(r)' /\ Told(r)'
    BY <1>1, <2>1 DEF RequestTyped, Stored, Whole, Good, Told
  <2>3. QED BY <1>1, <2>1, <2>2, OtherJobs DEF RequestTyped
<1>6. CASE R!Send(r)
  <2>1. /\ http[r] = "sending"
        /\ UNCHANGED <<op, size, arrived, got, taken, serving, length, good, child, file>>
        /\ \/ http' = [http EXCEPT ![r] = "reading"] /\ told' = told
           \/ http' = [http EXCEPT ![r] = "ended"] /\ told' = [told EXCEPT ![r] = "error"]
    BY <1>6, <1>a, <1>b DEF R!Send, R!agent
  <2>2. RequestTyped' /\ Stored' /\ Whole(r)' /\ Good(r)' /\ Told(r)'
    BY <1>1, <2>1 DEF RequestTyped, Stored, Whole, Good, Told
  <2>3. QED BY <1>1, <2>1, <2>2, OtherJobs DEF RequestTyped
<1>7. CASE R!ReadReply(r)
  <2>1. /\ http[r] = "reading" /\ got' = [got EXCEPT ![r] = @ + 1]
        /\ UNCHANGED <<op, size, arrived, taken, serving, length, good, child, file>>
    BY <1>7 DEF R!ReadReply, R!agent
  <2>2. \/ http' = [http EXCEPT ![r] = "ended"] /\ told' = [told EXCEPT ![r] = "error"]
        \/ /\ r \in good /\ got'[r] = length[r]
           /\ http' = [http EXCEPT ![r] = "ended"] /\ told' = [told EXCEPT ![r] = "ok"]
        \/ http' = [http EXCEPT ![r] = "reading"] /\ told' = told
    BY <1>7, <1>a, <1>b DEF R!ReadReply
  <2>3. RequestTyped' /\ Stored' /\ Whole(r)' /\ Good(r)' /\ Told(r)'
    BY <1>1, <2>1, <2>2 DEF RequestTyped, Stored, Whole, Good, Told
  <2>4. QED BY <1>1, <2>1, <2>2, <2>3, OtherJobs DEF RequestTyped
<1>8. CASE R!NoReply(r)
  <2>1. /\ http[r] = "reading"
        /\ http' = [http EXCEPT ![r] = "ended"] /\ told' = [told EXCEPT ![r] = "error"]
        /\ UNCHANGED <<op, size, arrived, got, taken, serving, length, good, child, file>>
    BY <1>8, <1>a DEF R!NoReply, R!agent
  <2>2. RequestTyped' /\ Stored' /\ Whole(r)' /\ Good(r)' /\ Told(r)'
    BY <1>1, <2>1 DEF RequestTyped, Stored, Whole, Good, Told
  <2>3. QED BY <1>1, <2>1, <2>2, OtherJobs DEF RequestTyped
<1>9. QED BY <1>2, <1>3, <1>4, <1>5, <1>6, <1>7, <1>8 DEF R!Client

\* The agent
LEMMA HandlerSteps ==
    ASSUME RequestInv, NEW r \in Jobs, R!Agent(r) \/ R!Exits(r)
    PROVE  RequestInv'
<1>1. RequestTyped /\ Stored /\ Whole(r) /\ Good(r) /\ Told(r)
  BY DEF RequestInv
<1>2. UNCHANGED <<http, op, size, arrived, got, told>>
  BY DEF R!Agent, R!Exits, R!ReadMessage, R!MessageEnds, R!Refuse, R!Write, R!WriteFails, R!Read,
         R!Spawn, R!Finishes, R!TimesOut, R!WriteReply, R!Cancelled, R!client
<1>a. \A n, ok : R!Reply(r, n, ok) =>
        /\ serving' = [serving EXCEPT ![r] = "replying"] /\ length' = [length EXCEPT ![r] = n]
        /\ good' = IF ok THEN good \cup {r} ELSE good
  BY DEF R!Reply, R!Handler
<1>b. \A pc : R!Handler(r, pc) => serving' = [serving EXCEPT ![r] = pc]
  BY DEF R!Handler
<1>3. CASE R!ReadMessage(r)
  <2>1. /\ serving[r] = "reading" /\ taken' = [taken EXCEPT ![r] = @ + 1]
        /\ serving' = [serving EXCEPT ![r] = IF taken'[r] = 1 + arrived[r] THEN "dispatching"
                                             ELSE "reading"]
        /\ UNCHANGED <<length, good, child, file>>
    BY <1>3, <1>b DEF R!ReadMessage
  <2>2. RequestTyped' /\ Stored' /\ Whole(r)' /\ Good(r)' /\ Told(r)'
    BY <1>1, <1>2, <2>1 DEF RequestTyped, Stored, Whole, Good, Told
  <2>3. QED BY <1>1, <1>2, <2>1, <2>2, OtherJobs DEF RequestTyped
<1>4. CASE R!MessageEnds(r) \/ R!Refuse(r)
  <2>1. /\ serving[r] \in {"reading", "dispatching"} /\ UNCHANGED <<taken, good, child, file>>
        /\ \/ serving' = [serving EXCEPT ![r] = "ended"] /\ length' = length
           \/ serving' = [serving EXCEPT ![r] = "replying"] /\ length' = [length EXCEPT ![r] = 1]
    BY <1>4, <1>a, <1>b DEF R!MessageEnds, R!Refuse
  <2>2. RequestTyped' /\ Stored' /\ Whole(r)' /\ Good(r)' /\ Told(r)'
    BY <1>1, <1>2, <2>1 DEF RequestTyped, Stored, Whole, Good, Told
  <2>3. QED BY <1>1, <1>2, <2>1, <2>2, OtherJobs DEF RequestTyped
<1>5. CASE R!Write(r)
  <2>1. /\ serving[r] = "dispatching" /\ op[r] = "write_file" /\ file' = <<r, taken[r] - 1>>
        /\ serving' = [serving EXCEPT ![r] = "replying"] /\ length' = [length EXCEPT ![r] = 1]
        /\ good' = good \cup {r} /\ UNCHANGED <<taken, child>>
    BY <1>5, <1>a DEF R!Write
  <2>2. taken[r] = 1 + size[r] /\ size[r] \in Nat /\ taken[r] - 1 = size[r]
    BY <1>1, <2>1 DEF RequestTyped, Whole
  <2>3. RequestTyped'
    BY <1>1, <1>2, <2>1, <2>2 DEF RequestTyped
  <2>4. Stored'
    BY <1>1, <1>2, <2>1, <2>2 DEF RequestTyped, Stored
  <2>5. Whole(r)' /\ Good(r)' /\ Told(r)'
    BY <1>1, <1>2, <2>1, <2>2 DEF RequestTyped, Whole, Good, Told
  <2>6. QED BY <1>1, <1>2, <2>1, <2>3, <2>4, <2>5, OtherJobs DEF RequestTyped
<1>w. CASE R!WriteFails(r)
  <2>1. PICK n \in 0..taken[r] - 1 : file' = <<r, n>>
    BY <1>w DEF R!WriteFails
  <2>2. /\ serving[r] = "dispatching"
        /\ serving' = [serving EXCEPT ![r] = "replying"] /\ length' = [length EXCEPT ![r] = 1]
        /\ UNCHANGED <<good, taken, child>>
    BY <1>w, <1>a DEF R!WriteFails
  <2>3. taken[r] = 1 + size[r] /\ size[r] \in Nat /\ n \in Nat /\ n <= size[r]
    BY <1>1, <2>1, <2>2 DEF RequestTyped, Whole
  <2>4. RequestTyped'
    BY <1>1, <1>2, <2>1, <2>2, <2>3 DEF RequestTyped
  <2>5. r \notin good
    BY <1>1, <2>2 DEF Good
  <2>6. Stored'
    BY <1>1, <1>2, <2>1, <2>2, <2>3, <2>5 DEF RequestTyped, Stored
  <2>7. Whole(r)' /\ Good(r)' /\ Told(r)'
    BY <1>1, <1>2, <2>2 DEF RequestTyped, Whole, Good, Told
  <2>8. QED BY <1>1, <1>2, <2>2, <2>4, <2>6, <2>7, OtherJobs DEF RequestTyped
<1>6. CASE R!Read(r)
  <2>1. /\ serving[r] = "dispatching" /\ op[r] = "read_file"
        /\ serving' = [serving EXCEPT ![r] = "replying"]
        /\ length' = [length EXCEPT ![r] = 1 + file[2]]
        /\ good' = good \cup {r} /\ UNCHANGED <<taken, child, file>>
    BY <1>6, <1>a DEF R!Read
  <2>2. 1 + file[2] \in Nat
    BY <1>1 DEF RequestTyped
  <2>3. RequestTyped' /\ Stored' /\ Whole(r)' /\ Good(r)' /\ Told(r)'
    BY <1>1, <1>2, <2>1, <2>2 DEF RequestTyped, Stored, Whole, Good, Told
  <2>4. QED BY <1>1, <1>2, <2>1, <2>3, OtherJobs DEF RequestTyped
<1>7. CASE R!Spawn(r)
  <2>1. /\ serving[r] = "dispatching" /\ op[r] = "exec"
        /\ serving' = [serving EXCEPT ![r] = "running"]
        /\ child' = [child EXCEPT ![r] = "running"] /\ UNCHANGED <<taken, length, good, file>>
    BY <1>7, <1>b DEF R!Spawn
  <2>2. RequestTyped' /\ Stored' /\ Whole(r)' /\ Good(r)' /\ Told(r)'
    BY <1>1, <1>2, <2>1 DEF RequestTyped, Stored, Whole, Good, Told
  <2>3. QED BY <1>1, <1>2, <2>1, <2>2, OtherJobs DEF RequestTyped
<1>8. CASE R!Exits(r)
  <2>1. /\ child[r] = "running" /\ child' = [child EXCEPT ![r] = "exited"]
        /\ UNCHANGED <<serving, taken, length, good, file>>
    BY <1>8 DEF R!Exits
  <2>2. RequestTyped' /\ Stored' /\ Whole(r)' /\ Good(r)' /\ Told(r)'
    BY <1>1, <1>2, <2>1 DEF RequestTyped, Stored, Whole, Good, Told
  <2>3. QED BY <1>1, <1>2, <2>1, <2>2, OtherJobs DEF RequestTyped
<1>9. CASE R!Finishes(r) \/ R!TimesOut(r)
  <2>1. /\ serving[r] = "running" /\ UNCHANGED <<taken, file>>
        /\ serving' = [serving EXCEPT ![r] = "replying"] /\ length' = [length EXCEPT ![r] = 1]
        /\ \/ child[r] = "exited" /\ child' = child /\ good' = good \cup {r}
           \/ /\ child' = [child EXCEPT ![r] = IF @ = "running" THEN "killed" ELSE @]
              /\ good' = good
    BY <1>9, <1>a DEF R!Finishes, R!TimesOut
  <2>2. RequestTyped' /\ Stored' /\ Whole(r)' /\ Good(r)' /\ Told(r)'
    BY <1>1, <1>2, <2>1 DEF RequestTyped, Stored, Whole, Good, Told
  <2>3. QED BY <1>1, <1>2, <2>1, <2>2, OtherJobs DEF RequestTyped
<1>10. CASE R!WriteReply(r) \/ R!Cancelled(r)
  <2>1. /\ serving[r] # "none" /\ serving' = [serving EXCEPT ![r] = "ended"]
        /\ UNCHANGED <<taken, length, good, child, file>>
    BY <1>10, <1>b DEF R!WriteReply, R!Cancelled
  <2>2. RequestTyped' /\ Stored' /\ Whole(r)' /\ Good(r)' /\ Told(r)'
    BY <1>1, <1>2, <2>1 DEF RequestTyped, Stored, Whole, Good, Told
  <2>3. QED BY <1>1, <1>2, <2>1, <2>2, OtherJobs DEF RequestTyped
<1>11. QED BY <1>3, <1>4, <1>5, <1>w, <1>6, <1>7, <1>8, <1>9, <1>10 DEF R!Agent

LEMMA RequestUnchanged ==
    ASSUME RequestInv,
           UNCHANGED <<http, serving, op, size, arrived, taken, got, length, child, told, good,
                       file>>
    PROVE  RequestInv'
BY DEF RequestInv, RequestTyped, Stored, Whole, Good, Told

LEMMA NextRequestInv == RequestInv /\ [R!Next]_R!vars => RequestInv'
<1> SUFFICES ASSUME RequestInv, [R!Next]_R!vars PROVE RequestInv'
  OBVIOUS
<1>1. CASE UNCHANGED R!vars \/ R!TunnelEnds
  BY <1>1, RequestUnchanged DEF R!vars, R!TunnelEnds, R!client, R!agent
<1>2. CASE R!Next
  BY <1>1, <1>2, ClientSteps, HandlerSteps DEF R!Next
<1>3. QED BY <1>1, <1>2

LEMMA InitRequestInv == R!Init => RequestInv
<1> SUFFICES ASSUME R!Init PROVE RequestInv
  OBVIOUS
<1>1. file[1] = NoClient /\ file \in (Jobs \cup {NoClient}) \X Nat
  <2>1. file \in {NoClient} \X (0..MaxBody + 1)
    BY DEF R!Init, R!NoClient, NoClient
  <2>2. QED BY <2>1, BoundsAssumption
<1>a. RequestTyped
  <2>1. "exec" \in R!Operations
    BY DEF R!Operations
  <2>2. QED BY <1>1, <2>1 DEF R!Init, RequestTyped
<1>2. Stored
  BY <1>1, ClientsAssumption DEF Stored
<1>3. \A r \in Jobs : Whole(r) /\ Good(r) /\ Told(r)
  BY DEF R!Init, Whole, Good, Told
<1>4. QED BY <1>a, <1>2, <1>3 DEF RequestInv

LEMMA RequestInvHolds == RequestInv => R!ReplyWhole
BY DEF RequestInv, RequestTyped, Stored, Whole, Good, Told, R!ReplyWhole

\* Whatever is cut off, refused, timed out or cancelled, and whenever the tunnel ends,
\* a client is told ok only when its operation was carried out to the end and the reply
\* came whole, and a file holds a part of the body that was announced, instead of all
\* of it, only after a write that failed and was not answered with ok.
THEOREM OkIsWhole == R!Spec => []R!ReplyWhole
<1>1. QED BY InitRequestInv, NextRequestInv, RequestInvHolds, PTL DEF R!Spec

-----------------------------------------------------------------------------
(***************************************************************************)
(* Positions.  A pixel, sent as a number in 0..65535, is the same pixel    *)
(* when the desktop turns it back, on every screen that has no more pixels *)
(* than that.                                                              *)
(***************************************************************************)

\* Rounding is off by half at most.
LEMMA RoundNear ==
    ASSUME NEW a \in Nat, NEW b \in Nat \ {0}
    PROVE  /\ D!Round(a, b) \in Nat
           /\ 2 * (D!Round(a, b) * b) <= 2 * a + b
           /\ 2 * a <= 2 * (D!Round(a, b) * b) + b
<1> DEFINE q == a \div b
           r == a % b
<1>1. q \in Nat /\ r \in 0..b - 1
  OBVIOUS
<1>2. a = b * q + r
  OBVIOUS
<1>3. /\ D!Round(a, b) = q + 1 => 2 * r >= b
      /\ D!Round(a, b) # q + 1 => D!Round(a, b) = q /\ 2 * r <= b
  BY <1>1 DEF D!Round
<1> HIDE DEF q, r
<1>4. CASE D!Round(a, b) = q + 1
  <2>1. (q + 1) * b = b * q + b
    BY <1>1
  <2>2. QED BY <1>1, <1>2, <1>3, <1>4, <2>1
<1>5. CASE D!Round(a, b) # q + 1
  <2>1. q * b = b * q
    BY <1>1
  <2>2. QED BY <1>1, <1>2, <1>3, <1>5, <2>1
<1>6. QED BY <1>4, <1>5

LEMMA RoundExact ==
    ASSUME NEW k \in Nat, NEW b \in Nat \ {0}
    PROVE  D!Round(k * b, b) = k
<1> DEFINE y == D!Round(k * b, b)
<1>1. k * b \in Nat
  OBVIOUS
<1>2. y \in Nat /\ 2 * (y * b) <= 2 * (k * b) + b /\ 2 * (k * b) <= 2 * (y * b) + b
  BY <1>1, RoundNear
<1> HIDE DEF y
<1>3. y <= k
  <2>1. y >= k + 1 => y * b >= k * b + b
    <3>1. (k + 1) * b = k * b + b
      OBVIOUS
    <3>2. QED BY <1>2, <3>1
  <2>2. QED BY <1>1, <1>2, <2>1
<1>4. k <= y
  <2>1. k >= y + 1 => k * b >= y * b + b
    <3>1. (y + 1) * b = y * b + b
      BY <1>2
    <3>2. QED BY <1>2, <3>1
  <2>2. QED BY <1>1, <1>2, <2>1
<1>5. QED BY <1>2, <1>3, <1>4 DEF y

\* A pixel x of a screen with n + 1 pixels, there and back.
LEMMA RoundTrip ==
    ASSUME NEW w \in Nat, NEW n \in Nat, 1 <= n, n < w, NEW x \in Nat, x <= n
    PROVE  /\ D!Round(x * w, n) \in Nat /\ D!Round(x * w, n) <= w
           /\ D!Round(D!Round(x * w, n) * n, w) = x
<1> DEFINE d == D!Round(x * w, n)
           m == d * n
           v == x * w
           y == D!Round(m, w)
<1>1. v \in Nat /\ n \in Nat \ {0} /\ w \in Nat \ {0}
  OBVIOUS
<1>2. d \in Nat /\ 2 * m <= 2 * v + n /\ 2 * v <= 2 * m + n
  BY <1>1, RoundNear
<1>3. v <= n * w
  BY <1>1
<1> HIDE DEF d
<1>4. m \in Nat
  BY <1>2
<1> HIDE DEF y
<1>5. y \in Nat /\ 2 * (y * w) <= 2 * m + w /\ 2 * m <= 2 * (y * w) + w
  BY <1>1, <1>4, RoundNear DEF y
<1>6. d <= w
  <2> SUFFICES ASSUME d >= w + 1 PROVE FALSE
    BY <1>2
  <2>1. m >= (w + 1) * n /\ (w + 1) * n = n * w + n
    BY <1>2
  <2> HIDE DEF m, v
  <2>2. QED BY <1>1, <1>2, <1>3, <1>4, <2>1
<1>7. y <= x
  <2> SUFFICES ASSUME y >= x + 1 PROVE FALSE
    BY <1>5
  <2>1. y * w >= (x + 1) * w /\ (x + 1) * w = v + w
    BY <1>5
  <2> HIDE DEF m, v
  <2>2. QED BY <1>1, <1>2, <1>4, <1>5, <2>1
<1>8. x <= y
  <2> SUFFICES ASSUME y + 1 <= x PROVE FALSE
    BY <1>5
  <2>1. v >= (y + 1) * w /\ (y + 1) * w = y * w + w
    BY <1>5
  <2> HIDE DEF m, v
  <2>2. QED BY <1>1, <1>2, <1>4, <1>5, <2>1
<1>9. y = x
  BY <1>5, <1>7, <1>8
<1>10. QED BY <1>2, <1>6, <1>9 DEF d, m, v, y

\* The pixel that is hit for the position x: x, or the last one if x is beyond it.
LEMMA PixelHit ==
    ASSUME NEW s, s.origin = 0, s.size \in Nat, 2 <= s.size, s.size <= D!MaxAbsolute,
           D!MaxAbsolute \in Nat, NEW x \in Nat
    PROVE  D!Pixel(s, D!Absolute(s, x)) = IF x < s.size THEN x ELSE s.size - 1
<1> DEFINE n == s.size - 1
           w == D!MaxAbsolute
           d == D!Round(x * w, n)
<1>1. n \in Nat /\ 1 <= n /\ n < w /\ s.size = n + 1 /\ w \in Nat
  OBVIOUS
<1>2. D!Absolute(s, x) = D!Least(w, d)
  <2>1. x - s.origin = x /\ ~(x < s.origin)
    OBVIOUS
  <2>2. QED BY <2>1 DEF D!Absolute
<1>3. \A e \in Nat : D!Pixel(s, e) = D!Round(e * n, w)
  <2> SUFFICES ASSUME NEW e \in Nat PROVE D!Pixel(s, e) = D!Round(e * n, w)
    OBVIOUS
  <2>1. D!Pixel(s, e) = 0 + D!Round(e * n, w)
    BY DEF D!Pixel
  <2>2. e * n \in Nat /\ w \in Nat \ {0}
    BY <1>1
  <2>3. D!Round(e * n, w) \in Nat
    BY <2>2, RoundNear
  <2>4. QED BY <2>1, <2>3
<1> HIDE DEF n, w
<1>4. d \in Nat /\ 2 * (x * w) <= 2 * (d * n) + n
  <2>1. x * w \in Nat /\ n \in Nat \ {0}
    BY <1>1
  <2>2. QED BY <2>1, RoundNear
<1>5. CASE x <= n
  <2>1. d <= w /\ D!Round(d * n, w) = x
    BY <1>1, <1>5, RoundTrip
  <2> HIDE DEF d
  <2>2. D!Least(w, d) = d
    BY <1>1, <1>4, <2>1 DEF D!Least
  <2>3. D!Pixel(s, D!Absolute(s, x)) = x
    BY <1>2, <1>3, <1>4, <2>1, <2>2
  <2>4. QED BY <1>1, <1>5, <2>3
<1>6. CASE x > n
  <2> HIDE DEF d
  <2>1. d >= w
    <3> SUFFICES ASSUME d + 1 <= w PROVE FALSE
      BY <1>1, <1>4
    <3> DEFINE m == d * n
               v == x * w
               u == n * w
    <3>1. m + n <= u
      <4>1. (d + 1) * n <= u /\ (d + 1) * n = m + n
        BY <1>1, <1>4
      <4>2. QED BY <4>1
    <3>2. v >= u + w
      <4>1. v >= (n + 1) * w /\ (n + 1) * w = u + w
        BY <1>1, <1>6
      <4>2. QED BY <4>1
    <3>3. m \in Nat /\ v \in Nat /\ u \in Nat /\ 2 * v <= 2 * m + n
      BY <1>1, <1>4
    <3> HIDE DEF m, v, u
    <3>4. QED BY <1>1, <3>1, <3>2, <3>3
  <2>2. D!Least(w, d) = w
    BY <1>1, <1>4, <2>1 DEF D!Least
  <2>3. D!Round(w * n, w) = n
    <3>1. w \in Nat \ {0} /\ w * n = n * w
      BY <1>1
    <3>2. QED BY <1>1, <3>1, RoundExact
  <2>4. D!Pixel(s, D!Absolute(s, x)) = n
    BY <1>1, <1>2, <1>3, <2>2, <2>3
  <2>5. QED BY <1>1, <1>6, <2>4
<1>7. QED BY <1>1, <1>5, <1>6

\* The position that is named in an image, scaled to a screen of n pixels, is off by
\* half a pixel of the image at most, and by less than one when it is cut to the screen.
LEMMA ScaledNear ==
    ASSUME NEW i \in Nat, NEW w \in Nat, i < w, NEW n \in Nat \ {0}
    PROVE  LET x == D!Round(i * n, w)
               at == IF x < n THEN x ELSE n - 1
           IN  /\ x \in Nat /\ at \in 0..n - 1
               /\ at * w - i * n <= w /\ i * n - at * w <= w
<1> DEFINE x == D!Round(i * n, w)
           at == IF x < n THEN x ELSE n - 1
<1>1. i * n \in Nat /\ w \in Nat \ {0} /\ i * n <= w * n
  BY DEF x
<1>2. x \in Nat /\ 2 * (x * w) <= 2 * (i * n) + w /\ 2 * (i * n) <= 2 * (x * w) + w
  BY <1>1, RoundNear
<1> HIDE DEF x
<1> DEFINE v == i * n
           z == x * w
           u == w * n
<1>3. v \in Nat /\ z \in Nat /\ u \in Nat /\ v <= u /\ 2 * z <= 2 * v + w /\ 2 * v <= 2 * z + w
  BY <1>1, <1>2
<1>4. CASE x < n
  <2>1. at = x /\ at * w = z
    BY <1>4
  <2> HIDE DEF v, z, u
  <2>2. z - v <= w /\ v - z <= w
    BY <1>1, <1>3
  <2>3. QED BY <1>2, <1>4, <2>1, <2>2 DEF v, x
<1>5. CASE x >= n
  <2>1. at = n - 1 /\ (n - 1) * w = u - w
    BY <1>2, <1>5
  <2>2. z >= n * w /\ n * w = u
    BY <1>2, <1>5
  <2> HIDE DEF v, z, u
  <2>3. (u - w) - v <= w /\ v - (u - w) <= w
    BY <1>1, <1>3, <2>2
  <2>4. QED BY <1>2, <2>1, <2>3 DEF v, x
<1>6. QED BY <1>2, <1>4, <1>5 DEF x

-----------------------------------------------------------------------------
(***************************************************************************)
(* Clicks.  What a client names is scaled with the size of its own image   *)
(* as long as no other image has been delivered since, and is hit on the   *)
(* screen it was scaled for.                                               *)
(***************************************************************************)

\* The virtual screen begins where the primary one does, and SendInput can tell its
\* pixels apart.
AtOrigin == \A s \in Screens : s.origin = 0 /\ s.size <= D!MaxAbsolute

\* The position that c has named, scaled for the screen it has seen.
Scaled(c) == aim[c] < image[c] /\ target[c] = D!Round(aim[c] * seen[c].size, image[c])

ScreenTyped ==
    /\ screen \in Screens /\ delivered \in Nat
    /\ turn \in [Clients -> {"idle", "grabbing", "grabbed", "acting", "moved"}]
    /\ grabbed \in [Clients -> Nat] /\ image \in [Clients -> Nat] /\ aim \in [Clients -> Nat]
    /\ target \in [Clients -> Nat] /\ seen \in [Clients -> Screens] /\ hit \in [Clients -> Int]

ScreenInv ==
    /\ ScreenTyped
    /\ \A c \in Clients : latest = c => delivered = image[c]
    /\ \A c \in Clients : turn[c] = "acting" /\ c \notin crossed => Scaled(c)
    /\ D!ClickLands

LEMMA ScreensOK ==
    \A s \in Screens : s.origin \in Int /\ s.size \in Nat \ {0} /\ 2 <= s.size
BY ScreenAssumption

LEMMA MaxAbsoluteOK == D!MaxAbsolute \in Nat
BY SMT DEF D!MaxAbsolute

\* A position that was scaled for the screen is hit.
LEMMA Hits ==
    ASSUME AtOrigin, NEW s \in Screens, NEW i \in Nat, NEW w \in Nat, i < w,
           NEW at, at = D!Pixel(s, D!Absolute(s, D!Round(i * s.size, w))) - s.origin
    PROVE  at \in 0..s.size - 1 /\ 2 * D!Abs(at * w - i * s.size) <= 2 * w
<1> DEFINE n == s.size
           x == D!Round(i * n, w)
           a == IF x < n THEN x ELSE n - 1
           u == a * w
           v == i * n
<1>1. s.origin = 0 /\ n \in Nat \ {0} /\ 2 <= n /\ n <= D!MaxAbsolute
  BY ScreensOK DEF AtOrigin
<1>2. x \in Nat /\ a \in 0..n - 1 /\ u - v <= w /\ v - u <= w
  BY <1>1, ScaledNear
<1>3. D!Pixel(s, D!Absolute(s, x)) = a
  BY <1>1, <1>2, MaxAbsoluteOK, PixelHit
<1> HIDE DEF x
<1>4. at = a
  <2> HIDE DEF a, n
  <2>1. at = a - s.origin
    BY <1>3 DEF x, n
  <2>2. QED BY <1>1, <1>2, <2>1
<1>5. u \in Int /\ v \in Int
  BY <1>1, <1>2
<1> HIDE DEF u, v, a
<1>6. 2 * D!Abs(u - v) <= 2 * w
  BY <1>2, <1>5 DEF D!Abs
<1>7. QED BY <1>2, <1>4, <1>6 DEF u, v, n

LEMMA OtherClients ==
    ASSUME ScreenInv, NEW c \in Clients, ScreenTyped',
           \A d \in Clients \ {c} :
              /\ turn'[d] = turn[d] /\ image'[d] = image[d] /\ aim'[d] = aim[d]
              /\ target'[d] = target[d] /\ seen'[d] = seen[d] /\ hit'[d] = hit[d]
              /\ d \in crossed' <=> d \in crossed
              /\ latest' = d => latest = d /\ delivered' = delivered,
           latest' = c => delivered' = image'[c],
           turn'[c] = "acting" /\ c \notin crossed' => Scaled(c)',
           turn'[c] = "moved" /\ c \notin crossed' => D!OnTarget(c)'
    PROVE  ScreenInv'
<1>1. \A d \in Clients : latest' = d => delivered' = image'[d]
  BY DEF ScreenInv
<1>2. \A d \in Clients : turn'[d] = "acting" /\ d \notin crossed' => Scaled(d)'
  BY DEF ScreenInv, Scaled
<1>3. \A d \in Clients : turn'[d] = "moved" /\ d \notin crossed' => D!OnTarget(d)'
  <2> SUFFICES ASSUME NEW d \in Clients \ {c}, turn'[d] = "moved", d \notin crossed'
               PROVE  D!OnTarget(d)'
    OBVIOUS
  <2>1. D!OnTarget(d)
    BY DEF ScreenInv, D!ClickLands
  <2>2. image'[d] = image[d] /\ aim'[d] = aim[d] /\ seen'[d] = seen[d] /\ hit'[d] = hit[d]
    OBVIOUS
  <2>3. QED BY <2>1, <2>2, Zenon DEF D!OnTarget
<1>4. QED BY <1>1, <1>2, <1>3 DEF ScreenInv, D!ClickLands

LEMMA NextScreenInv == AtOrigin /\ ScreenInv /\ [D!Next]_D!vars => ScreenInv'
<1> SUFFICES ASSUME AtOrigin, ScreenInv, [D!Next]_D!vars PROVE ScreenInv'
  OBVIOUS
<1>1. ScreenTyped
  BY DEF ScreenInv
<1>2. CASE UNCHANGED D!vars \/ D!Resize
  <2>1. UNCHANGED <<delivered, latest, turn, grabbed, image, aim, target, seen, crossed, hit>>
    BY <1>2 DEF D!vars, D!Resize
  <2>2. screen' \in Screens
    BY <1>1, <1>2 DEF ScreenTyped, D!vars, D!Resize
  <2>3. ScreenTyped'
    BY <1>1, <2>1, <2>2 DEF ScreenTyped
  <2>4. D!ClickLands'
    BY <2>1 DEF ScreenInv, D!ClickLands, D!OnTarget
  <2>5. QED BY <2>1, <2>3, <2>4 DEF ScreenInv, Scaled
<1>3. ASSUME NEW c \in Clients, D!Ask(c) PROVE ScreenInv'
  <2>1. /\ turn' = [turn EXCEPT ![c] = "grabbing"] /\ aim' = [aim EXCEPT ![c] = 0]
        /\ target' = [target EXCEPT ![c] = 0] /\ hit' = [hit EXCEPT ![c] = 0]
        /\ UNCHANGED <<screen, delivered, latest, grabbed, image, seen, crossed>>
    BY <1>3 DEF D!Ask, D!Turn
  <2>2. ScreenTyped'
    BY <1>1, <2>1 DEF ScreenTyped
  <2>3. latest' = c => delivered' = image'[c]
    BY <2>1 DEF ScreenInv
  <2>4. QED BY <1>1, <2>1, <2>2, <2>3, OtherClients DEF ScreenTyped
<1>4. ASSUME NEW c \in Clients, D!Grab(c) PROVE ScreenInv'
  <2>1. /\ turn' = [turn EXCEPT ![c] = "grabbed"]
        /\ UNCHANGED <<screen, delivered, latest, image, aim, target, seen, crossed, hit>>
    BY <1>4 DEF D!Grab, D!Turn
  <2>2. grabbed' \in [Clients -> Nat]
    <3>1. PICK width \in Widths :
             grabbed' = [grabbed EXCEPT ![c] = D!TargetSize(screen.size, width)]
      BY <1>4 DEF D!Grab
    <3>2. width \in Nat /\ screen.size \in Nat
      BY <1>1, ScreensOK, ScreenAssumption DEF ScreenTyped
    <3>3. D!TargetSize(screen.size, width) \in Nat
      BY <3>2 DEF D!TargetSize, D!Least
    <3>4. QED BY <1>1, <3>1, <3>3 DEF ScreenTyped
  <2>3. ScreenTyped'
    BY <1>1, <2>1, <2>2 DEF ScreenTyped
  <2>4. latest' = c => delivered' = image'[c]
    BY <2>1 DEF ScreenInv
  <2>5. QED BY <1>1, <2>1, <2>3, <2>4, OtherClients DEF ScreenTyped
<1>5. ASSUME NEW c \in Clients, D!Deliver(c) PROVE ScreenInv'
  <2>1. /\ turn' = [turn EXCEPT ![c] = "idle"] /\ delivered' = grabbed[c] /\ latest' = c
        /\ image' = [image EXCEPT ![c] = grabbed[c]] /\ grabbed' = [grabbed EXCEPT ![c] = 0]
        /\ UNCHANGED <<screen, aim, target, seen, crossed, hit>>
    BY <1>5 DEF D!Deliver, D!Turn
  <2>2. ScreenTyped'
    BY <1>1, <2>1 DEF ScreenTyped
  <2>3. latest' = c => delivered' = image'[c]
    BY <1>1, <2>1 DEF ScreenTyped
  <2>4. QED BY <1>1, <2>1, <2>2, <2>3, OtherClients DEF ScreenTyped
<1>6. ASSUME NEW c \in Clients, D!Act(c) PROVE ScreenInv'
  <2>1. /\ image[c] > 0 /\ turn' = [turn EXCEPT ![c] = "acting"]
        /\ seen' = [seen EXCEPT ![c] = screen]
        /\ crossed' = IF latest = c THEN crossed \ {c} ELSE crossed \cup {c}
        /\ UNCHANGED <<screen, delivered, latest, grabbed, image, hit>>
    BY <1>6 DEF D!Act, D!Turn
  <2>2. PICK x \in 0..image[c] - 1 :
           /\ aim' = [aim EXCEPT ![c] = x]
           /\ target' = [target EXCEPT ![c] = D!Scale(x, screen.size)]
    BY <1>6, Zenon DEF D!Act
  <2>3. /\ x \in Nat /\ x < image[c] /\ image[c] \in Nat
        /\ screen.size \in Nat /\ delivered \in Nat /\ screen \in Screens
    BY <1>1, <2>1, ScreensOK DEF ScreenTyped
  <2>4. delivered # 0 => D!Scale(x, screen.size) = D!Round(x * screen.size, delivered)
    BY DEF D!Scale
  <2>5. D!Scale(x, screen.size) \in Nat
    <3>1. CASE delivered = 0
      BY <2>3, <3>1 DEF D!Scale
    <3>2. CASE delivered # 0
      <4>1. x * screen.size \in Nat /\ delivered \in Nat \ {0}
        BY <2>3, <3>2
      <4>2. D!Round(x * screen.size, delivered) \in Nat
        BY <4>1, RoundNear
      <4>3. QED BY <2>4, <3>2, <4>2
    <3>3. QED BY <3>1, <3>2
  <2>6. ScreenTyped'
    BY <1>1, <2>1, <2>2, <2>3, <2>5 DEF ScreenTyped
  <2>7. latest' = c => delivered' = image'[c]
    BY <2>1 DEF ScreenInv
  <2>8. c \notin crossed' => Scaled(c)'
    <3> SUFFICES ASSUME c \notin crossed' PROVE Scaled(c)'
      OBVIOUS
    <3>1. latest = c /\ delivered = image[c]
      BY <2>1 DEF ScreenInv
    <3>2. D!Scale(x, screen.size) = D!Round(x * screen.size, image[c])
      BY <2>1, <2>3, <2>4, <3>1
    <3>3. /\ aim'[c] = x /\ image'[c] = image[c] /\ seen'[c] = screen
          /\ target'[c] = D!Scale(x, screen.size)
      BY <1>1, <2>1, <2>2 DEF ScreenTyped
    <3>4. QED BY <2>3, <3>2, <3>3 DEF Scaled
  <2>9. \A d \in Clients \ {c} :
           /\ turn'[d] = turn[d] /\ image'[d] = image[d] /\ aim'[d] = aim[d]
           /\ target'[d] = target[d] /\ seen'[d] = seen[d] /\ hit'[d] = hit[d]
           /\ d \in crossed' <=> d \in crossed
    BY <1>1, <2>1, <2>2 DEF ScreenTyped
  <2>10. turn'[c] = "acting"
    BY <1>1, <2>1 DEF ScreenTyped
  <2>11. QED BY <2>1, <2>6, <2>7, <2>8, <2>9, <2>10, OtherClients
<1>7. ASSUME NEW c \in Clients, D!MoveTo(c) PROVE ScreenInv'
  <2>1. /\ turn[c] = "acting" /\ turn' = [turn EXCEPT ![c] = "moved"]
        /\ hit' = [hit EXCEPT ![c] = D!Pixel(screen, D!Absolute(screen, target[c]))]
        /\ crossed' = IF screen = seen[c] THEN crossed ELSE crossed \cup {c}
        /\ UNCHANGED <<screen, delivered, latest, grabbed, image, aim, target, seen>>
    BY <1>7 DEF D!MoveTo, D!Turn
  <2>2. D!Pixel(screen, D!Absolute(screen, target[c])) \in Int
    <3>1. /\ screen \in Screens /\ target[c] \in Nat
      BY <1>1 DEF ScreenTyped
    <3>2. /\ screen.origin = 0 /\ screen.size \in Nat /\ 2 <= screen.size
          /\ screen.size <= D!MaxAbsolute
      BY <3>1, ScreensOK DEF AtOrigin
    <3>3. D!Pixel(screen, D!Absolute(screen, target[c]))
            = IF target[c] < screen.size THEN target[c] ELSE screen.size - 1
      BY <3>1, <3>2, MaxAbsoluteOK, PixelHit
    <3>4. QED BY <3>1, <3>2, <3>3
  <2>3. ScreenTyped'
    BY <1>1, <2>1, <2>2 DEF ScreenTyped
  <2>4. latest' = c => delivered' = image'[c]
    BY <2>1 DEF ScreenInv
  <2>5. c \notin crossed' => D!OnTarget(c)'
    <3> SUFFICES ASSUME c \notin crossed' PROVE D!OnTarget(c)'
      OBVIOUS
    <3>1. screen = seen[c] /\ Scaled(c) /\ screen \in Screens
      BY <1>1, <2>1 DEF ScreenInv, ScreenTyped
    <3> DEFINE at == hit'[c] - screen.origin
    <3>2. at = D!Pixel(screen, D!Absolute(screen, D!Round(aim[c] * screen.size, image[c])))
               - screen.origin
      BY <1>1, <2>1, <3>1 DEF ScreenTyped, Scaled
    <3>3. aim[c] \in Nat /\ image[c] \in Nat /\ aim[c] < image[c]
      BY <1>1, <3>1 DEF ScreenTyped, Scaled
    <3>4. seen'[c] = screen /\ image'[c] = image[c] /\ aim'[c] = aim[c]
      BY <2>1, <3>1
    <3> HIDE DEF at
    <3>5. /\ at \in 0..screen.size - 1
          /\ 2 * D!Abs(at * image[c] - aim[c] * screen.size) <= 2 * image[c]
      BY <3>1, <3>2, <3>3, Hits
    <3>6. QED BY <3>4, <3>5, Zenon DEF D!OnTarget, at
  <2>6. \A d \in Clients \ {c} :
           /\ turn'[d] = turn[d] /\ image'[d] = image[d] /\ aim'[d] = aim[d]
           /\ target'[d] = target[d] /\ seen'[d] = seen[d] /\ hit'[d] = hit[d]
           /\ d \in crossed' <=> d \in crossed
    BY <1>1, <2>1 DEF ScreenTyped
  <2>7. turn'[c] = "moved"
    BY <1>1, <2>1 DEF ScreenTyped
  <2>8. QED BY <2>1, <2>3, <2>4, <2>5, <2>6, <2>7, OtherClients
<1>8. QED BY <1>2, <1>3, <1>4, <1>5, <1>6, <1>7 DEF D!Next

LEMMA InitScreenInv == D!Init => ScreenInv
<1> SUFFICES ASSUME D!Init PROVE ScreenInv
  OBVIOUS
<1>1. ScreenTyped
  BY DEF D!Init, ScreenTyped
<1>2. /\ \A c \in Clients : turn[c] = "idle" /\ image[c] = 0
      /\ delivered = 0
  BY DEF D!Init
<1>3. QED BY <1>1, <1>2 DEF ScreenInv, D!ClickLands

-----------------------------------------------------------------------------
(***************************************************************************)
(* The control API as its runs check it: one component runs, and the       *)
(* others keep their initial states.                                       *)
(***************************************************************************)
AnswersInv == RunInv /\ RequestInv

LEMMA AnswersHold == MCSpec => []AnswersInv
<1>1. MCInit => AnswersInv
  BY InitRunInv, InitRequestInv DEF MCInit, AnswersInv
<1>2. AnswersInv /\ [MCNext]_<<part, vars, dvars, kvars, rvars>> => AnswersInv'
  <2> SUFFICES ASSUME RunInv, RequestInv, [MCNext]_<<part, vars, dvars, kvars, rvars>>
               PROVE  RunInv' /\ RequestInv'
    BY DEF AnswersInv
  <2>1. ([Next]_vars \/ UNCHANGED vars) /\ (R!Next \/ UNCHANGED rvars)
    BY DEF MCNext, SessionsStep, ScreenStep, InputStep, RequestsStep
  <2>2. RunInv'
    BY <2>1, NextRunInv
  <2>3. RequestInv'
    <3>1. UNCHANGED rvars => UNCHANGED R!vars
      BY DEF rvars, R!vars, R!client, R!agent
    <3>2. QED BY <2>1, <3>1, NextRequestInv
  <2>4. QED BY <2>2, <2>3
<1>3. QED BY <1>1, <1>2, PTL DEF MCSpec

\* A command in a session is answered with its own output and result, and an operation
\* with ok only when it was carried out whole; what a failed write leaves in a file is
\* never answered with ok as written.
THEOREM AnswersAreTrue == MCSpec => []AnswersTrue
<1>1. AnswersInv => AnswersTrue
  BY RequestInvHolds DEF AnswersInv, RunInv, AnswersTrue
<1>2. QED BY <1>1, AnswersHold, PTL

\* On every screen at the origin whose pixels SendInput can tell apart, for any number
\* of clients, widths and changes of the screen, the cursor goes to the pixel that the
\* client has named, but for the rounding, unless another client's screenshot was
\* delivered after its own or the screen changed between scaling and moving.
THEOREM ClicksLand ==
    ASSUME AtOrigin
    PROVE  MCSpec => []ClickLands
<1>1. MCInit => ScreenInv
  BY InitScreenInv DEF MCInit
<1>2. ScreenInv /\ [MCNext]_<<part, vars, dvars, kvars, rvars>> => ScreenInv'
  <2> SUFFICES ASSUME ScreenInv, [MCNext]_<<part, vars, dvars, kvars, rvars>> PROVE ScreenInv'
    OBVIOUS
  <2>1. D!Next \/ UNCHANGED dvars
    BY DEF MCNext, SessionsStep, ScreenStep, InputStep, RequestsStep
  <2>2. UNCHANGED dvars => UNCHANGED D!vars
    BY DEF dvars, D!vars
  <2>3. QED BY <2>1, <2>2, NextScreenInv
<1>3. ScreenInv => ClickLands
  BY DEF ScreenInv, ClickLands
<1>4. QED BY <1>1, <1>2, <1>3, PTL DEF MCSpec

-----------------------------------------------------------------------------
(***************************************************************************)
(* Keys and buttons.  Every action releases, in calls that no refusal in a *)
(* try can skip, whatever it has put down; so a key that is down is owed   *)
(* by the action of somebody who has put it down, or was meant to last.    *)
(***************************************************************************)

KeyEvents == K!Keys \X {"down", "up"}
InputCalls == [place : {"plain", "try", "finally", "lasting"}, events : Seq(KeyEvents)]

\* The keys that these events put down and do not release.
Puts(events) == {k \in K!Keys : \E i \in DOMAIN events :
    events[i] = K!Down(k) /\ \A j \in i + 1..Len(events) : events[j] # K!Up(k)}

\* The call leaves k released, and is not skipped when a try is refused.
Frees(call, k) ==
    call.place # "try" /\ k \in K!Released(call.events) /\ k \notin Puts(call.events)

\* What the calls of an action that are left will release.
Owed(q) == {k \in K!Keys : \E i \in 1..Len(q) : Frees(q[i], k)}

\* The calls of an action that are left: its finally ends it, nothing but the finally
\* follows a try, a finally puts nothing down, and what is put down is released later
\* unless it is meant to last.
FinallyLast(q) == \E n \in 0..Len(q) : \A i \in 1..Len(q) : q[i].place = "finally" <=> i > n
TryLast(q) == \A i, j \in 1..Len(q) :
    q[i].place = "try" /\ i < j => q[j].place \in {"try", "finally"}
PutsAreFreed(q) == \A i \in 1..Len(q) : \A k \in Puts(q[i].events) :
    q[i].place = "lasting" \/ \E j \in 1..Len(q) : i < j /\ Frees(q[j], k)
PutsBefore(q) == \A i \in 1..Len(q) : q[i].place = "finally" => Puts(q[i].events) = {}

Safe(q) ==
    q \in Seq(InputCalls) /\ FinallyLast(q) /\ TryLast(q) /\ PutsAreFreed(q) /\ PutsBefore(q)

InputTyped ==
    /\ todo \in [Clients -> Seq(InputCalls)] /\ pressed \in [Clients -> SUBSET K!Keys]
    /\ held \subseteq K!Keys /\ lasting \subseteq K!Keys
    /\ refusals \in 0..MaxRefusals /\ hurt \in BOOLEAN

HeldIsOwed == ~hurt =>
    \A k \in held \ lasting : \E c \in Clients : k \in pressed[c] \cap Owed(todo[c])

InputInv == InputTyped /\ (\A c \in Clients : Safe(todo[c])) /\ HeldIsOwed

LEMMA AfterPuts == \A events, S : K!After(events, S) = (S \ K!Released(events)) \cup Puts(events)
BY DEF K!After, Puts

LEMMA KeysPut == \A events : Puts(events) \subseteq K!Keys /\ K!Released(events) \subseteq K!Keys
BY DEF Puts, K!Released

\* What is left of an action after its first call.
LEMMA TailSafe ==
    ASSUME NEW q, Safe(q), q # <<>>
    PROVE  /\ Head(q) \in InputCalls /\ Safe(Tail(q))
           /\ \A k \in Owed(q) : k \in Owed(Tail(q)) \/ Frees(Head(q), k)
           /\ \A k \in Puts(Head(q).events) : Head(q).place = "lasting" \/ k \in Owed(Tail(q))
<1> DEFINE p == Tail(q)
           m == Len(q)
<1>1. /\ q \in Seq(InputCalls) /\ p \in Seq(InputCalls) /\ Head(q) = q[1] /\ q[1] \in InputCalls
      /\ m \in Nat /\ m >= 1 /\ Len(p) = m - 1
      /\ \A i \in 1..m - 1 : p[i] = q[i + 1]
  BY DEF Safe
<1> HIDE DEF p, m
<1>2. \A i \in 1..m : i = 1 \/ (i - 1 \in 1..m - 1 /\ p[i - 1] = q[i])
  BY <1>1
<1>3. \A i \in 1..m - 1 : i + 1 \in 1..m /\ p[i] = q[i + 1]
  BY <1>1
<1>4. FinallyLast(p)
  <2>1. PICK n \in 0..m : \A i \in 1..m : q[i].place = "finally" <=> i > n
    BY DEF Safe, FinallyLast, m
  <2>2. CASE n = 0
    <3>1. \A i \in 1..m - 1 : p[i].place = "finally" <=> i > 0
      BY <2>1, <2>2, <1>3, <1>1
    <3>2. QED BY <3>1, <1>1 DEF FinallyLast
  <2>3. CASE n # 0
    <3>1. n - 1 \in 0..m - 1
      BY <2>3, <1>1
    <3>2. \A i \in 1..m - 1 : p[i].place = "finally" <=> i > n - 1
      BY <2>1, <1>3, <1>1
    <3>3. QED BY <3>1, <3>2, <1>1 DEF FinallyLast
  <2>4. QED BY <2>2, <2>3
<1>5. TryLast(p)
  <2>1. \A i, j \in 1..m : q[i].place = "try" /\ i < j => q[j].place \in {"try", "finally"}
    BY DEF Safe, TryLast, m
  <2>2. \A i, j \in 1..m - 1 : p[i].place = "try" /\ i < j => p[j].place \in {"try", "finally"}
    <3> SUFFICES ASSUME NEW i \in 1..m - 1, NEW j \in 1..m - 1, p[i].place = "try", i < j
                 PROVE  p[j].place \in {"try", "finally"}
      OBVIOUS
    <3>1. i + 1 \in 1..m /\ j + 1 \in 1..m /\ i + 1 < j + 1
      BY <1>1
    <3>2. QED BY <2>1, <3>1, <1>3
  <2>3. QED BY <2>2, <1>1 DEF TryLast
<1>6. \A i \in 1..m : \A k \in Puts(q[i].events) :
        q[i].place = "lasting" \/ \E j \in 1..m - 1 : i - 1 < j /\ Frees(p[j], k)
  <2> SUFFICES ASSUME NEW i \in 1..m, NEW k \in Puts(q[i].events), q[i].place # "lasting"
               PROVE  \E j \in 1..m - 1 : i - 1 < j /\ Frees(p[j], k)
    OBVIOUS
  <2>1. PICK j \in 1..m : i < j /\ Frees(q[j], k)
    BY DEF Safe, PutsAreFreed, m
  <2>2. j - 1 \in 1..m - 1 /\ i - 1 < j - 1
    BY <2>1, <1>1
  <2>3. p[j - 1] = q[j]
    BY <2>2, <1>2, <1>1
  <2>4. QED BY <2>1, <2>2, <2>3
<1>7. PutsAreFreed(p)
  <2> SUFFICES ASSUME NEW i \in 1..m - 1, NEW k \in Puts(p[i].events), p[i].place # "lasting"
               PROVE  \E j \in 1..m - 1 : i < j /\ Frees(p[j], k)
    BY <1>1 DEF PutsAreFreed
  <2>1. i + 1 \in 1..m /\ p[i] = q[i + 1] /\ (i + 1) - 1 = i
    BY <1>3
  <2>2. QED BY <2>1, <1>6
<1>8. PutsBefore(p)
  <2>1. \A i \in 1..m : q[i].place = "finally" => Puts(q[i].events) = {}
    BY DEF Safe, PutsBefore, m
  <2>2. QED BY <2>1, <1>3, <1>1 DEF PutsBefore
<1>9. ASSUME NEW k \in Owed(q)
      PROVE  k \in Owed(p) \/ Frees(q[1], k)
  <2>1. PICK i \in 1..m : Frees(q[i], k) /\ k \in K!Keys
    BY <1>9 DEF Owed, m
  <2>2. QED BY <2>1, <1>2, <1>1 DEF Owed
<1>10. ASSUME NEW k \in Puts(q[1].events), q[1].place # "lasting"
       PROVE  k \in Owed(p)
  <2>1. 1 \in 1..m
    BY <1>1
  <2>2. PICK j \in 1..m - 1 : Frees(p[j], k)
    BY <2>1, <1>6, <1>10
  <2>3. QED BY <2>2, <1>1, KeysPut, <1>10 DEF Owed
<1>11. QED BY <1>1, <1>4, <1>5, <1>7, <1>8, <1>9, <1>10 DEF Safe, p

\* What is left when a try is refused.
LEMMA FinallySafe ==
    ASSUME NEW q, Safe(q), q # <<>>, Head(q).place = "try"
    PROVE  Safe(K!Finally(q)) /\ \A k \in Owed(q) : k \in Owed(K!Finally(q))
<1> DEFINE m == Len(q)
           n == CHOOSE n \in 0..m : \A i \in DOMAIN q : q[i].place = "finally" <=> i > n
           p == SubSeq(q, n + 1, m)
<1>1. q \in Seq(InputCalls) /\ m \in Nat /\ m >= 1 /\ Head(q) = q[1] /\ DOMAIN q = 1..m
  BY DEF Safe
<1>2. n \in 0..m /\ \A i \in 1..m : q[i].place = "finally" <=> i > n
  BY <1>1 DEF Safe, FinallyLast
<1>3. K!Finally(q) = p
  BY DEF K!Finally
<1> HIDE DEF n
<1>4. /\ p \in Seq(InputCalls) /\ Len(p) = m - n
      /\ \A i \in 1..m - n : p[i] = q[n + i] /\ n + i \in 1..m
  <2>1. /\ n + 1 \in 1..m + 1 /\ n \in Nat /\ m - n \in Nat
        /\ \A i \in 1..m - n : n + i \in 1..m /\ (n + 1) + i - 1 = n + i
    BY <1>1, <1>2
  <2>2. p = [i \in 1..m - n |-> q[n + i]]
    <3>1. SubSeq(q, n + 1, m) = [i \in 1..(1 + m - (n + 1)) |-> q[(n + 1) + i - 1]]
      BY <1>1, <2>1
    <3>2. 1 + m - (n + 1) = m - n
      BY <1>1, <2>1
    <3>3. QED BY <3>1, <3>2, <2>1
  <2>3. \A i \in 1..m : q[i] \in InputCalls
    BY <1>1
  <2>4. QED BY <2>1, <2>2, <2>3
<1> HIDE DEF p, m
<1>5. \A i \in 1..m - n : p[i].place = "finally"
  <2> TAKE i \in 1..m - n
  <2>1. n + i > n /\ n + i \in 1..m
    BY <1>1, <1>2
  <2>2. QED BY <2>1, <1>2, <1>4
<1>6. FinallyLast(p)
  <2>1. \A i \in 1..m - n : p[i].place = "finally" <=> i > 0
    BY <1>5
  <2>2. 0 \in 0..m - n
    BY <1>1, <1>2
  <2>3. QED BY <2>1, <2>2, <1>4 DEF FinallyLast
<1>7. TryLast(p)
  BY <1>5, <1>4 DEF TryLast
<1>8. \A i \in 1..m - n : Puts(p[i].events) = {}
  <2> TAKE i \in 1..m - n
  <2>1. n + i \in 1..m /\ p[i] = q[n + i] /\ p[i].place = "finally"
    BY <1>4, <1>5
  <2>2. QED BY <2>1 DEF Safe, PutsBefore, m
<1>9. PutsAreFreed(p) /\ PutsBefore(p)
  BY <1>8, <1>4 DEF PutsAreFreed, PutsBefore
<1>10. ASSUME NEW k \in Owed(q)
       PROVE  k \in Owed(p)
  <2>1. PICK i \in 1..m : Frees(q[i], k) /\ k \in K!Keys
    BY <1>10 DEF Owed, m
  <2>2. q[i].place # "try" /\ 1 \in 1..m
    BY <2>1, <1>1 DEF Frees
  <2>3. i # 1 /\ 1 < i
    BY <2>2, <1>1
  <2>4. q[i].place = "finally"
    BY <2>2, <2>3, <1>1 DEF Safe, TryLast, m
  <2>5. i > n
    BY <2>4, <1>2
  <2>6. i - n \in 1..m - n /\ n + (i - n) = i
    BY <2>5, <1>1, <1>2
  <2>7. p[i - n] = q[i]
    BY <2>6, <1>4
  <2>8. QED BY <2>1, <2>6, <2>7, <1>4 DEF Owed
<1>11. QED BY <1>3, <1>4, <1>6, <1>7, <1>9, <1>10 DEF Safe

LEMMA CallSent ==
    ASSUME InputInv, NEW c \in Clients, K!Send(c)
    PROVE  InputInv'
<1> DEFINE q == todo[c]
           ev == Head(q).events
           p == Tail(q)
<1>1. /\ q # <<>> /\ Safe(q)
      /\ held' = K!After(ev, held) /\ pressed' = [pressed EXCEPT ![c] = K!After(ev, @)]
      /\ lasting' = (lasting \ K!Released(ev))
                      \cup (IF Head(q).place = "lasting" THEN K!After(ev, {}) ELSE {})
      /\ todo' = [todo EXCEPT ![c] = p] /\ UNCHANGED <<refusals, hurt>>
  BY DEF K!Send, K!Deliver, InputInv
<1>2. /\ InputTyped /\ HeldIsOwed /\ \A d \in Clients : Safe(todo[d])
  BY DEF InputInv
<1>3. /\ Head(q) \in InputCalls /\ Safe(p)
      /\ \A k \in Owed(q) : k \in Owed(p) \/ Frees(Head(q), k)
      /\ \A k \in Puts(ev) : Head(q).place = "lasting" \/ k \in Owed(p)
  BY <1>1, TailSafe
<1> HIDE DEF q, p
<1>4. /\ todo'[c] = p /\ pressed'[c] = K!After(ev, pressed[c])
      /\ \A d \in Clients : d # c => todo'[d] = todo[d] /\ pressed'[d] = pressed[d]
  BY <1>1, <1>2 DEF InputTyped
<1>5. InputTyped'
  <2>1. p \in Seq(InputCalls)
    BY <1>3 DEF Safe
  <2>2. todo' \in [Clients -> Seq(InputCalls)]
    BY <2>1, <1>1, <1>2 DEF InputTyped
  <2>3. \A S \in SUBSET K!Keys : K!After(ev, S) \subseteq K!Keys
    BY AfterPuts, KeysPut
  <2>4. /\ held' \subseteq K!Keys /\ lasting' \subseteq K!Keys
        /\ pressed' \in [Clients -> SUBSET K!Keys]
    BY <2>3, <1>1, <1>2 DEF InputTyped
  <2>5. QED BY <2>2, <2>4, <1>1, <1>2 DEF InputTyped
<1>6. \A d \in Clients : Safe(todo'[d])
  BY <1>2, <1>3, <1>4
<1>7. HeldIsOwed'
  <2> SUFFICES ASSUME ~hurt, NEW k \in held', k \notin lasting'
               PROVE  \E d \in Clients : k \in pressed'[d] /\ k \in Owed(todo'[d])
    BY <1>1 DEF HeldIsOwed
  <2>1. \A S : K!After(ev, S) = (S \ K!Released(ev)) \cup Puts(ev)
    BY AfterPuts
  <2>2. CASE k \in Puts(ev)
    <3>1. Head(q).place # "lasting"
      BY <2>1, <2>2, <1>1
    <3>2. QED BY <3>1, <2>1, <2>2, <1>3, <1>4
  <2>3. CASE k \notin Puts(ev)
    <3>1. k \in held /\ k \notin K!Released(ev) /\ k \notin lasting
      BY <2>1, <2>3, <1>1
    <3>2. PICK d \in Clients : k \in pressed[d] /\ k \in Owed(todo[d])
      BY <3>1, <1>2 DEF HeldIsOwed
    <3>3. CASE d = c
      <4>1. k \in Owed(p)
        BY <3>1, <3>2, <3>3, <1>3 DEF q, Frees
      <4>2. QED BY <4>1, <3>1, <3>2, <3>3, <2>1, <1>4
    <3>4. CASE d # c
      BY <3>2, <3>4, <1>4
    <3>5. QED BY <3>3, <3>4
  <2>4. QED BY <2>2, <2>3
<1>8. QED BY <1>5, <1>6, <1>7 DEF InputInv

LEMMA EmptySafe == Safe(<<>>) /\ Owed(<<>>) = {}
<1>1. <<>> \in Seq(InputCalls) /\ Len(<<>>) = 0 /\ 1..0 = {}
  OBVIOUS
<1>2. QED BY <1>1 DEF Safe, FinallyLast, TryLast, PutsAreFreed, PutsBefore, Owed

LEMMA CallRefused ==
    ASSUME InputInv, NEW c \in Clients, K!Refuse(c)
    PROVE  InputInv'
<1> DEFINE q == todo[c]
           call == Head(q)
           p == IF call.place = "try" THEN K!Finally(q) ELSE <<>>
<1>1. /\ q # <<>> /\ refusals < MaxRefusals /\ refusals' = refusals + 1
      /\ todo' = [todo EXCEPT ![c] = p] /\ lasting' = lasting
  BY DEF K!Refuse
<1>2. PICK ev : /\ held' = K!After(ev, held)
                /\ pressed' = [pressed EXCEPT ![c] = K!After(ev, @)]
                /\ hurt' = (hurt \/ K!After(ev, {}) # {} \/ (call.place # "try" /\ pressed[c] # {}))
  BY DEF K!Refuse, K!Deliver
<1>3. /\ InputTyped /\ HeldIsOwed /\ \A d \in Clients : Safe(todo[d])
  BY DEF InputInv
<1>4. Safe(p) /\ (call.place = "try" => \A k \in Owed(q) : k \in Owed(p))
  BY <1>1, <1>3, FinallySafe, EmptySafe
<1>5. \A S : K!After(ev, S) = (S \ K!Released(ev)) \cup Puts(ev)
  BY AfterPuts
<1> HIDE DEF q, p
<1>6. /\ todo'[c] = p /\ pressed'[c] = K!After(ev, pressed[c])
      /\ \A d \in Clients : d # c => todo'[d] = todo[d] /\ pressed'[d] = pressed[d]
  BY <1>1, <1>2, <1>3 DEF InputTyped
<1>7. InputTyped'
  <2>1. p \in Seq(InputCalls)
    BY <1>4 DEF Safe
  <2>2. todo' \in [Clients -> Seq(InputCalls)]
    BY <2>1, <1>1, <1>3 DEF InputTyped
  <2>3. \A S \in SUBSET K!Keys : K!After(ev, S) \subseteq K!Keys
    BY <1>5, KeysPut
  <2>4. /\ held' \subseteq K!Keys /\ lasting' \subseteq K!Keys
        /\ pressed' \in [Clients -> SUBSET K!Keys]
    BY <2>3, <1>1, <1>2, <1>3 DEF InputTyped
  <2>5. refusals' \in 0..MaxRefusals
    BY <1>1, <1>3, BoundsAssumption DEF InputTyped
  <2>6. hurt' \in BOOLEAN
    BY <1>2, <1>3 DEF InputTyped
  <2>7. QED BY <2>2, <2>4, <2>5, <2>6 DEF InputTyped
<1>8. \A d \in Clients : Safe(todo'[d])
  BY <1>3, <1>4, <1>6
<1>9. HeldIsOwed'
  <2> SUFFICES ASSUME ~hurt', NEW k \in held', k \notin lasting'
               PROVE  \E d \in Clients : k \in pressed'[d] /\ k \in Owed(todo'[d])
    BY DEF HeldIsOwed
  <2>1. ~hurt /\ K!After(ev, {}) = {} /\ (call.place = "try" \/ pressed[c] = {})
    BY <1>2
  <2>2. k \in held /\ k \notin K!Released(ev) /\ k \notin lasting
    BY <2>1, <1>1, <1>2, <1>5
  <2>3. PICK d \in Clients : k \in pressed[d] /\ k \in Owed(todo[d])
    BY <2>1, <2>2, <1>3 DEF HeldIsOwed
  <2>4. CASE d = c
    <3>1. call.place = "try"
      BY <2>1, <2>3, <2>4
    <3>2. k \in Owed(p)
      BY <3>1, <2>3, <2>4, <1>4 DEF q
    <3>3. QED BY <3>2, <2>2, <2>3, <2>4, <1>5, <1>6
  <2>5. CASE d # c
    BY <2>3, <2>5, <1>6
  <2>6. QED BY <2>4, <2>5
<1>10. QED BY <1>7, <1>8, <1>9 DEF InputInv


-----------------------------------------------------------------------------
(* What perform does for each action *)

LEMMA NoEvents == Puts(<<>>) = {} /\ K!Released(<<>>) = {}
BY DEF Puts, K!Released, K!ToSet

LEMMA OneDown ==
    ASSUME NEW k \in K!Keys
    PROVE  <<K!Down(k)>> \in Seq(KeyEvents) /\ Puts(<<K!Down(k)>>) = {k}
BY DEF Puts, KeyEvents, K!Down, K!Up

LEMMA OneUp ==
    ASSUME NEW k \in K!Keys
    PROVE  /\ <<K!Up(k)>> \in Seq(KeyEvents) /\ Puts(<<K!Up(k)>>) = {}
           /\ K!Released(<<K!Up(k)>>) = {k}
BY DEF Puts, KeyEvents, K!Down, K!Up, K!Released, K!ToSet

LEMMA OneStroke ==
    ASSUME NEW k \in K!Keys
    PROVE  K!Stroke(k) \in Seq(KeyEvents) /\ Puts(K!Stroke(k)) = {}
<1>1. Puts(<<K!Down(k), K!Up(k)>>) = {}
  <2> SUFFICES ASSUME NEW j \in K!Keys, NEW i \in {1, 2},
                      <<K!Down(k), K!Up(k)>>[i] = K!Down(j),
                      \A x \in i + 1..2 : <<K!Down(k), K!Up(k)>>[x] # K!Up(j)
               PROVE  FALSE
    BY DEF Puts
  <2>1. CASE i = 1
    BY <2>1 DEF K!Down, K!Up
  <2>2. CASE i = 2
    BY <2>2 DEF K!Down, K!Up
  <2>3. QED BY <2>1, <2>2
<1>2. QED BY <1>1 DEF K!Stroke, KeyEvents, K!Down, K!Up

LEMMA CallTyped ==
    ASSUME NEW place \in {"plain", "try", "finally", "lasting"}, NEW events \in Seq(KeyEvents)
    PROVE  /\ K!Call(place, events) \in InputCalls
           /\ K!Call(place, events).place = place /\ K!Call(place, events).events = events
BY DEF K!Call, InputCalls

\* Calls that put nothing down, without try or finally.
LEMMA PlainSafe ==
    ASSUME NEW q \in Seq(InputCalls),
           \A i \in 1..Len(q) : q[i].place \in {"plain", "lasting"}
                                /\ (q[i].place = "plain" => Puts(q[i].events) = {})
    PROVE  Safe(q)
<1>1. Len(q) \in Nat
  OBVIOUS
<1>2. FinallyLast(q)
  <2>1. \A i \in 1..Len(q) : q[i].place = "finally" <=> i > Len(q)
    BY <1>1
  <2>2. QED BY <2>1, <1>1 DEF FinallyLast
<1>3. QED BY <1>2 DEF Safe, TryLast, PutsAreFreed, PutsBefore

\* A move before an action.
LEMMA MovedSafe ==
    ASSUME NEW q, Safe(q)
    PROVE  Safe(<<K!Move>> \o q)
<1> DEFINE p == <<K!Move>> \o q
           m == Len(q)
<1>1. K!Move \in InputCalls /\ K!Move.place = "plain" /\ Puts(K!Move.events) = {}
  <2>1. <<>> \in Seq(KeyEvents)
    OBVIOUS
  <2>2. QED BY <2>1, CallTyped, NoEvents DEF K!Move
<1> HIDE DEF K!Move
<1>2. /\ q \in Seq(InputCalls) /\ m \in Nat /\ p \in Seq(InputCalls)
      /\ Len(p) = m + 1 /\ p[1] = K!Move /\ \A i \in 1..m : p[i + 1] = q[i]
  BY <1>1 DEF Safe
<1> HIDE DEF p, m
<1>3. \A i \in 1..m + 1 : i = 1 \/ (i - 1 \in 1..m /\ p[i] = q[i - 1])
  BY <1>2
<1>4. FinallyLast(p)
  <2>1. PICK n \in 0..m : \A i \in 1..m : q[i].place = "finally" <=> i > n
    BY DEF Safe, FinallyLast, m
  <2>2. n + 1 \in 0..m + 1 /\ ~(1 > n + 1)
    BY <1>2
  <2>3. \A i \in 1..m + 1 : p[i].place = "finally" <=> i > n + 1
    BY <2>1, <2>2, <1>1, <1>2, <1>3
  <2>4. QED BY <2>2, <2>3, <1>2 DEF FinallyLast
<1>5. TryLast(p)
  <2> SUFFICES ASSUME NEW i \in 1..m + 1, NEW j \in 1..m + 1, p[i].place = "try", i < j
               PROVE  p[j].place \in {"try", "finally"}
    BY <1>2 DEF TryLast
  <2>1. i # 1 /\ j # 1 /\ i - 1 < j - 1
    BY <1>1, <1>2
  <2>2. QED BY <2>1, <1>3 DEF Safe, TryLast, m
<1>6. PutsAreFreed(p)
  <2> SUFFICES ASSUME NEW i \in 1..m + 1, NEW k \in Puts(p[i].events), p[i].place # "lasting"
               PROVE  \E j \in 1..m + 1 : i < j /\ Frees(p[j], k)
    BY <1>2 DEF PutsAreFreed
  <2>1. i # 1
    BY <1>1, <1>2
  <2>2. PICK j \in 1..m : i - 1 < j /\ Frees(q[j], k)
    BY <2>1, <1>3 DEF Safe, PutsAreFreed, m
  <2>3. j + 1 \in 1..m + 1 /\ i < j + 1
    BY <2>2, <1>2
  <2>4. QED BY <2>2, <2>3, <1>2
<1>7. PutsBefore(p)
  <2>1. \A i \in 1..m : q[i].place = "finally" => Puts(q[i].events) = {}
    BY DEF Safe, PutsBefore, m
  <2>2. QED BY <2>1, <1>1, <1>2, <1>3 DEF PutsBefore
<1>8. QED BY <1>2, <1>4, <1>5, <1>6, <1>7 DEF Safe, p

LEMMA JoinedAt ==
    ASSUME NEW s \in Seq(InputCalls), NEW t \in Seq(InputCalls)
    PROVE  /\ s \o t \in Seq(InputCalls) /\ Len(s \o t) = Len(s) + Len(t)
           /\ \A i \in 1..Len(s) : (s \o t)[i] = s[i]
           /\ \A i \in Len(s) + 1..Len(s) + Len(t) : (s \o t)[i] = t[i - Len(s)]
OBVIOUS

LEMMA ListTyped ==
    ASSUME NEW S, NEW n \in Nat, NEW f, f = [i \in 1..n |-> f[i]], \A i \in 1..n : f[i] \in S
    PROVE  f \in Seq(S) /\ Len(f) = n
<1>1. f \in [1..n -> S]
  OBVIOUS
<1>2. QED BY <1>1

\* Modifiers around a body of which every call puts down nothing.
LEMMA ModifiedSafe ==
    ASSUME NEW keys \in Seq(K!Keys), NEW body \in Seq(InputCalls),
           \A i \in 1..Len(body) : body[i].place = "try" /\ Puts(body[i].events) = {}
    PROVE  Safe(K!WithModifiers(keys, body))
<1> DEFINE n == Len(keys)
           m == Len(body)
           downs == K!Calls("plain", K!Downs(keys))
           ups == K!Calls("finally", K!Ups(keys))
           p == K!WithModifiers(keys, body)
<1>1. n \in Nat /\ m \in Nat /\ \A i \in 1..n : keys[i] \in K!Keys /\ n - i + 1 \in 1..n
  OBVIOUS
<1>2. /\ Len(downs) = n /\ downs \in Seq(InputCalls)
      /\ \A i \in 1..n : downs[i].place = "plain" /\ Puts(downs[i].events) = {keys[i]}
  <2>1. downs = [i \in 1..n |-> K!Call("plain", <<K!Down(keys[i])>>)]
    BY DEF K!Calls, K!Downs
  <2>2. \A i \in 1..n : /\ K!Call("plain", <<K!Down(keys[i])>>) \in InputCalls
                        /\ K!Call("plain", <<K!Down(keys[i])>>).place = "plain"
                        /\ Puts(K!Call("plain", <<K!Down(keys[i])>>).events) = {keys[i]}
    <3> TAKE i \in 1..n
    <3>1. /\ keys[i] \in K!Keys /\ <<K!Down(keys[i])>> \in Seq(KeyEvents)
          /\ Puts(<<K!Down(keys[i])>>) = {keys[i]}
      BY <1>1, OneDown
    <3>2. QED BY <3>1, CallTyped
  <2> HIDE DEF downs
  <2>3. \A i \in 1..n : downs[i] = K!Call("plain", <<K!Down(keys[i])>>)
    BY <2>1
  <2>4. downs = [i \in 1..n |-> downs[i]] /\ \A i \in 1..n : downs[i] \in InputCalls
    BY <2>1, <2>2, <2>3
  <2>5. Len(downs) = n /\ downs \in Seq(InputCalls)
    BY <2>4, <1>1, ListTyped
  <2>6. QED BY <2>2, <2>3, <2>5
<1>3. /\ Len(ups) = n /\ ups \in Seq(InputCalls)
      /\ \A i \in 1..n : /\ ups[i].place = "finally" /\ Puts(ups[i].events) = {}
                         /\ K!Released(ups[i].events) = {keys[n - i + 1]}
  <2>1. ups = [i \in 1..n |-> K!Call("finally", <<K!Up(keys[n - i + 1])>>)]
    <3>1. Len(K!Reverse(keys)) = n /\ DOMAIN K!Reverse(keys) = 1..n
          /\ \A i \in 1..n : K!Reverse(keys)[i] = keys[n - i + 1]
      BY <1>1 DEF K!Reverse
    <3> HIDE DEF n
    <3>2. QED BY <3>1 DEF K!Calls, K!Ups
  <2>2. \A i \in 1..n : /\ K!Call("finally", <<K!Up(keys[n - i + 1])>>) \in InputCalls
                        /\ K!Call("finally", <<K!Up(keys[n - i + 1])>>).place = "finally"
                        /\ Puts(K!Call("finally", <<K!Up(keys[n - i + 1])>>).events) = {}
                        /\ K!Released(K!Call("finally", <<K!Up(keys[n - i + 1])>>).events)
                             = {keys[n - i + 1]}
    <3> TAKE i \in 1..n
    <3> DEFINE k == keys[n - i + 1]
    <3>1. k \in K!Keys
      BY <1>1
    <3> HIDE DEF k
    <3>2. /\ <<K!Up(k)>> \in Seq(KeyEvents) /\ Puts(<<K!Up(k)>>) = {}
          /\ K!Released(<<K!Up(k)>>) = {k}
      BY <3>1, OneUp
    <3>3. QED BY <3>2, CallTyped DEF k
  <2> HIDE DEF ups
  <2>3. \A i \in 1..n : ups[i] = K!Call("finally", <<K!Up(keys[n - i + 1])>>)
    BY <2>1
  <2>4. ups = [i \in 1..n |-> ups[i]] /\ \A i \in 1..n : ups[i] \in InputCalls
    BY <2>1, <2>2, <2>3
  <2>5. Len(ups) = n /\ ups \in Seq(InputCalls)
    BY <2>4, <1>1, ListTyped
  <2>6. QED BY <2>2, <2>3, <2>5
<1>4. p = (downs \o body) \o ups
  BY DEF K!WithModifiers
<1> HIDE DEF n, m, downs, ups, p
<1>5. /\ Len(downs \o body) = n + m /\ downs \o body \in Seq(InputCalls)
      /\ \A i \in 1..n : (downs \o body)[i] = downs[i]
      /\ \A i \in n + 1..n + m : (downs \o body)[i] = body[i - n] /\ i - n \in 1..m
  <2>1. Len(body) = m /\ body \in Seq(InputCalls)
    BY DEF m
  <2>2. QED BY ONLY <2>1, <1>1, <1>2
<1>6. /\ Len(p) = (n + m) + n /\ p \in Seq(InputCalls)
      /\ \A i \in 1..n + m : p[i] = (downs \o body)[i]
      /\ \A i \in n + m + 1..(n + m) + n : p[i] = ups[i - (n + m)] /\ i - (n + m) \in 1..n
  <2> DEFINE most == downs \o body
  <2>1. most \in Seq(InputCalls) /\ Len(most) = n + m
    BY <1>5
  <2> HIDE DEF most
  <2>2. /\ most \o ups \in Seq(InputCalls) /\ Len(most \o ups) = Len(most) + Len(ups)
        /\ \A i \in 1..Len(most) : (most \o ups)[i] = most[i]
        /\ \A i \in Len(most) + 1..Len(most) + Len(ups) :
             (most \o ups)[i] = ups[i - Len(most)]
    BY <2>1, <1>3, JoinedAt
  <2>3. /\ p \in Seq(InputCalls) /\ Len(p) = (n + m) + n
        /\ \A i \in 1..n + m : p[i] = most[i]
        /\ \A i \in n + m + 1..(n + m) + n : p[i] = ups[i - (n + m)]
    BY <2>1, <2>2, <1>3, <1>4 DEF most
  <2>4. \A i \in n + m + 1..(n + m) + n : i - (n + m) \in 1..n
    BY <1>1
  <2>5. QED BY <2>3, <2>4 DEF most
<1>7. /\ \A i \in 1..n : p[i].place = "plain" /\ Puts(p[i].events) = {keys[i]}
      /\ \A i \in n + 1..n + m : p[i].place = "try" /\ Puts(p[i].events) = {}
      /\ \A i \in n + m + 1..(n + m) + n :
             /\ p[i].place = "finally" /\ Puts(p[i].events) = {}
             /\ K!Released(p[i].events) = {keys[n - (i - (n + m)) + 1]}
  <2>1. (\A i \in 1..n : i \in 1..n + m) /\ \A i \in n + 1..n + m : i \in 1..n + m
    BY <1>1
  <2>2. \A i \in 1..n : p[i] = downs[i]
    BY <2>1, <1>5, <1>6
  <2>3. \A i \in n + 1..n + m : p[i] = body[i - n] /\ i - n \in 1..m
    BY <2>1, <1>5, <1>6
  <2>4. \A i \in 1..m : body[i].place = "try" /\ Puts(body[i].events) = {}
    BY DEF m
  <2>5. \A i \in 1..n : p[i].place = "plain" /\ Puts(p[i].events) = {keys[i]}
    BY <2>2, <1>2
  <2>6. \A i \in n + 1..n + m : p[i].place = "try" /\ Puts(p[i].events) = {}
    BY <2>3, <2>4
  <2>7. ASSUME NEW i \in n + m + 1..(n + m) + n
        PROVE  /\ p[i].place = "finally" /\ Puts(p[i].events) = {}
               /\ K!Released(p[i].events) = {keys[n - (i - (n + m)) + 1]}
    <3>1. i - (n + m) \in 1..n /\ p[i] = ups[i - (n + m)]
      BY <1>6
    <3> DEFINE j == i - (n + m)
    <3> HIDE DEF j
    <3>2. QED BY <3>1, <1>3 DEF j
  <2>8. QED BY <2>5, <2>6, <2>7
<1>8. \A i \in 1..(n + m) + n : i \in 1..n \/ i \in n + 1..n + m \/ i \in n + m + 1..(n + m) + n
  BY <1>1
<1>9. FinallyLast(p)
  <2>1. \A i \in 1..(n + m) + n : p[i].place = "finally" <=> i > n + m
    BY <1>1, <1>7, <1>8
  <2>2. n + m \in 0..(n + m) + n
    BY <1>1
  <2>3. QED BY <2>1, <2>2, <1>6 DEF FinallyLast
<1>10. TryLast(p)
  <2> SUFFICES ASSUME NEW i \in 1..(n + m) + n, NEW j \in 1..(n + m) + n,
                      p[i].place = "try", i < j
               PROVE  p[j].place \in {"try", "finally"}
    BY <1>6 DEF TryLast
  <2>1. i \notin 1..n
    BY <1>7
  <2>2. j \notin 1..n
    BY <2>1, <1>1
  <2>3. QED BY <2>2, <1>7, <1>8
<1>11. PutsAreFreed(p)
  <2> SUFFICES ASSUME NEW i \in 1..(n + m) + n, NEW k \in Puts(p[i].events)
               PROVE  \E j \in 1..(n + m) + n : i < j /\ Frees(p[j], k)
    BY <1>6 DEF PutsAreFreed
  <2>1. i \in 1..n /\ k = keys[i]
    <3>1. i \in 1..n
      BY <1>7, <1>8
    <3>2. QED BY <3>1, <1>7
  <2> DEFINE j == (n + m) + (n - i + 1)
  <2>2. /\ j \in n + m + 1..(n + m) + n /\ j \in 1..(n + m) + n /\ i < j
        /\ n - (j - (n + m)) + 1 = i
    BY <2>1, <1>1
  <2> HIDE DEF j
  <2>3. Frees(p[j], k)
    BY <2>1, <2>2, <1>7 DEF Frees
  <2>4. QED BY <2>2, <2>3
<1>12. PutsBefore(p)
  <2>1. \A i \in 1..(n + m) + n : p[i].place = "finally" => Puts(p[i].events) = {}
    BY <1>7, <1>8
  <2>2. QED BY <2>1, <1>6 DEF PutsBefore
<1>13. QED BY <1>6, <1>9, <1>10, <1>11, <1>12 DEF Safe, p

\* A chord: every key is put down, and then released.
LEMMA ChordReleased ==
    ASSUME NEW ks \in Seq(K!Keys)
    PROVE  LET events == K!Downs(ks) \o K!Ups(ks)
           IN events \in Seq(KeyEvents) /\ Puts(events) = {}
<1> DEFINE n == Len(ks)
           downs == K!Downs(ks)
           ups == K!Ups(ks)
           ev == downs \o ups
<1>1. n \in Nat /\ \A i \in 1..n : ks[i] \in K!Keys /\ n - i + 1 \in 1..n
  OBVIOUS
<1>2. downs = [i \in 1..n |-> <<ks[i], "down">>]
  BY DEF K!Downs, K!Down
<1>3. ups = [i \in 1..n |-> <<ks[n - i + 1], "up">>]
  <2>1. /\ DOMAIN K!Reverse(ks) = 1..n /\ \A i \in 1..n : K!Reverse(ks)[i] = ks[n - i + 1]
    BY <1>1 DEF K!Reverse
  <2> HIDE DEF n
  <2>2. QED BY <2>1 DEF K!Ups, K!Up
<1> HIDE DEF n, downs, ups
<1>4. downs \in Seq(KeyEvents) /\ Len(downs) = n
  <2>1. downs \in [1..n -> KeyEvents]
    BY <1>1, <1>2 DEF KeyEvents
  <2>2. QED BY <2>1, <1>1
<1>5. ups \in Seq(KeyEvents) /\ Len(ups) = n
  <2>1. ups \in [1..n -> KeyEvents]
    <3>1. \A i \in 1..n : <<ks[n - i + 1], "up">> \in KeyEvents
      BY <1>1 DEF KeyEvents
    <3>2. QED BY <3>1, <1>3
  <2>2. QED BY <2>1, <1>1
<1>6. /\ ev \in Seq(KeyEvents) /\ Len(ev) = n + n
      /\ \A i \in 1..n : ev[i] = downs[i]
      /\ \A i \in 1..n : ev[n + i] = ups[i]
  <2>1. ev \in Seq(KeyEvents) /\ Len(ev) = n + n
    BY <1>1, <1>4, <1>5
  <2>2. \A i \in 1..n : ev[i] = downs[i]
    BY <1>1, <1>4, <1>5
  <2>3. ASSUME NEW i \in 1..n
        PROVE  ev[n + i] = ups[i]
    <3>1. n + i \in n + 1..n + n /\ (n + i) - n = i
      BY <1>1
    <3>2. QED BY <3>1, <1>1, <1>4, <1>5
  <2>4. QED BY <2>1, <2>2, <2>3
<1> HIDE DEF ev
<1>7. ASSUME NEW k \in K!Keys, NEW i \in 1..n + n, ev[i] = K!Down(k)
      PROVE  \E j \in i + 1..n + n : ev[j] = K!Up(k)
  <2>1. CASE i \in 1..n
    <3>1. ks[i] = k
      BY <2>1, <1>2, <1>6, <1>7 DEF K!Down
    <3> DEFINE j == n - i + 1
    <3>2. j \in 1..n /\ n - j + 1 = i /\ n + j \in i + 1..n + n
      BY <2>1, <1>1
    <3> HIDE DEF j
    <3>3. ev[n + j] = <<ks[n - j + 1], "up">>
      BY <3>2, <1>3, <1>6
    <3>4. QED BY <3>1, <3>2, <3>3 DEF K!Up
  <2>2. CASE i \notin 1..n
    <3>1. i - n \in 1..n /\ n + (i - n) = i
      BY <2>2, <1>1
    <3> DEFINE j == i - n
    <3> HIDE DEF j
    <3>2. j \in 1..n /\ n + j = i
      BY <3>1 DEF j
    <3>3. ev[i] = ups[j]
      BY <3>2, <1>6
    <3>4. ev[i] = <<ks[n - j + 1], "up">>
      BY <3>2, <3>3, <1>3
    <3>5. "up" # "down"
      OBVIOUS
    <3>6. QED BY <3>4, <3>5, <1>7 DEF K!Down
  <2>3. QED BY <2>1, <2>2
<1>8. Puts(ev) = {}
  <2>1. DOMAIN ev = 1..n + n
    BY <1>6, <1>1
  <2>2. QED BY <2>1, <1>6, <1>7 DEF Puts
<1>9. QED BY <1>6, <1>8 DEF ev, downs, ups

LEMMA CodesTyped ==
    ASSUME NEW parts \in Seq(K!Keys \cup {"S"})
    PROVE  K!Codes(parts) \in Seq(K!Keys)
<1> DEFINE codes == [i \in DOMAIN parts |-> IF parts[i] = "S" THEN "s" ELSE parts[i]]
           needing == {i \in DOMAIN parts :
                         parts[i] = "S" /\ \A j \in 1..i - 1 : parts[j] \notin {"S", K!Shift}}
           first == CHOOSE i \in needing : TRUE
<1>1. codes \in Seq(K!Keys) /\ Len(codes) = Len(parts)
  <2>1. "s" \in K!Keys /\ K!Shift \in K!Keys
    BY DEF K!Keys, K!Shift
  <2>2. codes \in [1..Len(parts) -> K!Keys]
    BY <2>1
  <2>3. Len(parts) \in Nat
    OBVIOUS
  <2>4. QED BY <2>2, <2>3
<1>2. CASE needing = {}
  BY <1>1, <1>2 DEF K!Codes
<1>3. CASE needing # {}
  <2>1. first \in 1..Len(parts) /\ Len(parts) \in Nat
    BY <1>3
  <2>2. K!Codes(parts) = SubSeq(codes, 1, first - 1) \o <<K!Shift>>
                           \o SubSeq(codes, first, Len(codes))
    BY <1>3 DEF K!Codes
  <2> HIDE DEF codes, first
  <2>3. /\ SubSeq(codes, 1, first - 1) \in Seq(K!Keys)
        /\ SubSeq(codes, first, Len(codes)) \in Seq(K!Keys)
    BY <2>1, <1>1
  <2>4. <<K!Shift>> \in Seq(K!Keys)
    BY DEF K!Keys, K!Shift
  <2> HIDE DEF K!Codes
  <2>5. QED BY <2>2, <2>3, <2>4
<1>4. QED BY <1>2, <1>3

LEMMA ChordSafe ==
    ASSUME NEW parts \in Seq(K!Keys \cup {"S"})
    PROVE  Safe(K!PressCombination(parts))
<1> DEFINE events == K!Downs(K!Codes(parts)) \o K!Ups(K!Codes(parts))
           q == K!PressCombination(parts)
<1>1. events \in Seq(KeyEvents) /\ Puts(events) = {}
  BY CodesTyped, ChordReleased
<1>2. q = <<K!Call("plain", events)>>
  BY DEF K!PressCombination
<1> HIDE DEF events, q
<1>3. /\ K!Call("plain", events) \in InputCalls /\ K!Call("plain", events).place = "plain"
      /\ Puts(K!Call("plain", events).events) = {}
  BY <1>1, CallTyped
<1>4. q \in Seq(InputCalls) /\ Len(q) = 1 /\ q[1] = K!Call("plain", events)
  BY <1>2, <1>3
<1>5. \A i \in 1..1 : i = 1
  OBVIOUS
<1>6. QED BY <1>3, <1>4, <1>5, PlainSafe DEF q

\* Typed text: a batch holds whole strokes.
LEMMA TypedSafe ==
    ASSUME NEW n \in Nat
    PROVE  Safe(K!TypeText(n))
<1> DEFINE events == [i \in 1..2 * n |-> K!Stroke("packet")[((i - 1) % 2) + 1]]
           m == (2 * n + 4 - 1) \div 4
           Upper(j) == IF 4 * j < 2 * n THEN 4 * j ELSE 2 * n
           Part(j) == SubSeq(events, 4 * (j - 1) + 1, Upper(j))
           q == [j \in 1..m |-> K!Call("plain", Part(j))]
<1>1. K!TypeText(n) = q
  BY DEF K!TypeText, K!Batch
<1>2. m \in Nat /\ \A j \in 1..m : 4 * (j - 1) < 2 * n
  OBVIOUS
<1>3. \A i \in 1..2 * n : /\ (i - 1) % 2 = 0 => events[i] = <<"packet", "down">>
                          /\ (i - 1) % 2 = 1 => events[i] = <<"packet", "up">>
  BY DEF K!Stroke, K!Down, K!Up
<1>4. \A i \in 1..2 * n : (i - 1) % 2 \in {0, 1}
  OBVIOUS
<1>5. events \in Seq(KeyEvents) /\ Len(events) = 2 * n
  <2>1. <<"packet", "down">> \in KeyEvents /\ <<"packet", "up">> \in KeyEvents
    BY DEF KeyEvents, K!Keys
  <2>2. events \in [1..2 * n -> KeyEvents]
    BY <2>1, <1>3, <1>4
  <2>3. 2 * n \in Nat
    OBVIOUS
  <2>4. QED BY <2>2, <2>3
<1> HIDE DEF events, m
<1>6. ASSUME NEW j \in 1..m
      PROVE  Part(j) \in Seq(KeyEvents) /\ Puts(Part(j)) = {}
  <2> DEFINE a == 4 * (j - 1)
             u == Upper(j)
  <2>1. /\ a \in Nat /\ u \in Nat /\ a < u /\ u <= 2 * n /\ a % 2 = 0 /\ u % 2 = 0
        /\ a + 1 \in 1..2 * n
    BY <1>2
  <2>2. /\ Part(j) \in Seq(KeyEvents) /\ Len(Part(j)) = u - a
        /\ \A i \in 1..u - a : Part(j)[i] = events[a + i] /\ a + i \in 1..2 * n
    <3> HIDE DEF a, u
    <3>1. SubSeq(events, a + 1, u) = [i \in 1..u - a |-> events[a + i]]
      BY <2>1, <1>5
    <3>2. \A i \in 1..u - a : a + i \in 1..2 * n
      BY <2>1
    <3>3. \A i \in 1..2 * n : events[i] \in KeyEvents
      BY <1>5
    <3>4. /\ SubSeq(events, a + 1, u) \in Seq(KeyEvents) /\ Len(SubSeq(events, a + 1, u)) = u - a
      BY <3>1, <3>2, <3>3, <2>1
    <3>5. QED BY <3>1, <3>2, <3>4 DEF a, u
  <2> HIDE DEF a, u, Part
  <2>3. ASSUME NEW k \in K!Keys, NEW i \in 1..u - a, Part(j)[i] = K!Down(k)
        PROVE  \E x \in i + 1..u - a : Part(j)[x] = K!Up(k)
    <3>1. events[a + i] = <<k, "down">>
      BY <2>2, <2>3 DEF K!Down
    <3>2. "up" # "down" /\ a + i \in 1..2 * n
      BY <2>2
    <3>3. (a + i - 1) % 2 = 0 /\ k = "packet"
      <4> DEFINE g == a + i
      <4> HIDE DEF g
      <4>1. g \in 1..2 * n /\ events[g] = <<k, "down">>
        BY <3>1, <3>2 DEF g
      <4>2. (g - 1) % 2 = 0
        BY <4>1, <3>2, <1>3, <1>4
      <4>3. events[g] = <<"packet", "down">>
        BY <4>1, <4>2, <1>3
      <4>4. k = "packet"
        BY <4>1, <4>3
      <4>5. (a + i - 1) % 2 = 0
        BY <4>2, <2>1 DEF g
      <4>6. QED BY <4>4, <4>5
    <3>4. i + 1 \in i + 1..u - a /\ i + 1 \in 1..u - a /\ (a + (i + 1) - 1) % 2 = 1
      BY <3>3, <2>1
    <3>5. Part(j)[i + 1] = <<"packet", "up">>
      <4> DEFINE x == i + 1
                 g == a + x
      <4>1. x \in 1..u - a /\ (g - 1) % 2 = 1
        BY <3>4, <2>1
      <4> HIDE DEF x
      <4>2. Part(j)[x] = events[g] /\ g \in 1..2 * n
        BY <4>1, <2>2
      <4> HIDE DEF g
      <4>3. Part(j)[x] = <<"packet", "up">>
        BY <4>1, <4>2, <1>3
      <4>4. QED BY <4>3 DEF x
    <3>6. QED BY <3>3, <3>4, <3>5 DEF K!Up
  <2>4. DOMAIN Part(j) = 1..u - a
    <3> DEFINE d == Part(j)
    <3>1. d \in Seq(KeyEvents) /\ Len(d) = u - a
      BY <2>2
    <3> HIDE DEF d
    <3>2. DOMAIN d = 1..u - a
      BY <3>1
    <3>3. QED BY <3>2 DEF d
  <2>5. QED BY <2>2, <2>3, <2>4 DEF Puts
<1> HIDE DEF Part
<1>7. \A j \in 1..m : /\ q[j] \in InputCalls /\ q[j].place = "plain"
                      /\ Puts(q[j].events) = {}
  <2> TAKE j \in 1..m
  <2>1. q[j] = K!Call("plain", Part(j))
    OBVIOUS
  <2>2. QED BY <2>1, <1>6, CallTyped
<1>8. q \in Seq(InputCalls) /\ Len(q) = m
  <2>1. q = [j \in 1..m |-> q[j]]
    OBVIOUS
  <2> HIDE DEF q
  <2>2. QED BY <2>1, <1>2, <1>7, ListTyped
<1> HIDE DEF q
<1>9. QED BY <1>1, <1>7, <1>8, PlainSafe

\* The bodies that modifiers are put around.
LEMMA BodiesPutNothing ==
    ASSUME NEW n \in Nat
    PROVE  /\ K!Click("left", n) \in Seq(InputCalls) /\ K!Scroll(n) \in Seq(InputCalls)
           /\ \A body \in {K!Click("left", n), K!Scroll(n)} : \A i \in 1..Len(body) :
                  body[i].place = "try" /\ Puts(body[i].events) = {}
<1>1. /\ K!Stroke("left") \in Seq(KeyEvents) /\ Puts(K!Stroke("left")) = {}
      /\ <<>> \in Seq(KeyEvents) /\ Puts(<<>>) = {}
  BY OneStroke, NoEvents DEF K!Keys
<1>2. ASSUME NEW events \in Seq(KeyEvents), Puts(events) = {}
      PROVE  LET body == [i \in 1..n |-> K!Call("try", events)]
             IN /\ body \in Seq(InputCalls)
                /\ \A i \in 1..Len(body) : body[i].place = "try" /\ Puts(body[i].events) = {}
  <2> DEFINE call == K!Call("try", events)
             body == [i \in 1..n |-> call]
  <2>1. call \in InputCalls /\ call.place = "try" /\ Puts(call.events) = {}
    BY <1>2, CallTyped
  <2> HIDE DEF call
  <2>2. body = [i \in 1..n |-> body[i]] /\ \A i \in 1..n : body[i] = call
    OBVIOUS
  <2> HIDE DEF body
  <2>3. body \in Seq(InputCalls) /\ Len(body) = n
    BY <2>1, <2>2, ListTyped
  <2>4. QED BY <2>1, <2>2, <2>3 DEF body, call
<1>3. QED BY <1>1, <1>2 DEF K!Click, K!Scroll

\* The calls of a drag and of a held key.
LEMMA HeldSafe ==
    ASSUME NEW k \in K!Keys
    PROVE  /\ Safe(<<K!Call("plain", <<K!Down(k)>>), K!Call("finally", <<K!Up(k)>>)>>)
           /\ Safe(<<K!Move, K!Call("plain", <<K!Down(k)>>), K!Call("try", <<>>),
                     K!Call("finally", <<K!Up(k)>>)>>)
<1> DEFINE move == K!Move
           press == K!Call("plain", <<K!Down(k)>>)
           body == K!Call("try", <<>>)
           free == K!Call("finally", <<K!Up(k)>>)
<1>1. /\ <<K!Down(k)>> \in Seq(KeyEvents) /\ Puts(<<K!Down(k)>>) = {k}
      /\ <<K!Up(k)>> \in Seq(KeyEvents) /\ Puts(<<K!Up(k)>>) = {}
      /\ K!Released(<<K!Up(k)>>) = {k}
      /\ <<>> \in Seq(KeyEvents) /\ Puts(<<>>) = {}
  BY OneDown, OneUp, NoEvents
<1>2. move \in InputCalls /\ move.place = "plain" /\ Puts(move.events) = {}
  BY <1>1, CallTyped DEF K!Move
<1>3. press \in InputCalls /\ press.place = "plain" /\ Puts(press.events) = {k}
  BY <1>1, CallTyped
<1>4. body \in InputCalls /\ body.place = "try" /\ Puts(body.events) = {}
  BY <1>1, CallTyped
<1>5. free \in InputCalls /\ free.place = "finally" /\ Puts(free.events) = {} /\ Frees(free, k)
  <2>1. free \in InputCalls /\ free.place = "finally" /\ free.events = <<K!Up(k)>>
    BY <1>1, CallTyped
  <2> HIDE DEF free
  <2>2. QED BY <1>1, <2>1 DEF Frees
<1> HIDE DEF move, press, body, free
<1>6. Safe(<<press, free>>)
  <2> DEFINE q == <<press, free>>
  <2>1. q \in Seq(InputCalls) /\ Len(q) = 2 /\ q[1] = press /\ q[2] = free /\ 1..2 = {1, 2}
    BY <1>3, <1>5
  <2> HIDE DEF q
  <2>2. FinallyLast(q)
    <3>1. \A i \in 1..2 : q[i].place = "finally" <=> i > 1
      BY <2>1, <1>3, <1>5
    <3>2. QED BY <3>1, <2>1 DEF FinallyLast
  <2>3. TryLast(q) /\ PutsBefore(q)
    BY <2>1, <1>3, <1>5 DEF TryLast, PutsBefore
  <2>4. PutsAreFreed(q)
    BY <2>1, <1>3, <1>5 DEF PutsAreFreed
  <2>5. QED BY <2>1, <2>2, <2>3, <2>4 DEF Safe, q
<1>7. Safe(<<move, press, body, free>>)
  <2> DEFINE q == <<move, press, body, free>>
  <2>1. /\ q \in Seq(InputCalls) /\ Len(q) = 4 /\ 1..4 = {1, 2, 3, 4}
        /\ q[1] = move /\ q[2] = press /\ q[3] = body /\ q[4] = free
    BY <1>2, <1>3, <1>4, <1>5
  <2> HIDE DEF q
  <2>2. FinallyLast(q)
    <3>1. \A i \in 1..4 : q[i].place = "finally" <=> i > 3
      BY <2>1, <1>2, <1>3, <1>4, <1>5
    <3>2. QED BY <3>1, <2>1 DEF FinallyLast
  <2>3. TryLast(q) /\ PutsBefore(q)
    BY <2>1, <1>2, <1>3, <1>4, <1>5 DEF TryLast, PutsBefore
  <2>4. PutsAreFreed(q)
    BY <2>1, <1>2, <1>3, <1>4, <1>5 DEF PutsAreFreed
  <2>5. QED BY <2>1, <2>2, <2>3, <2>4 DEF Safe, q
<1>8. QED BY <1>6, <1>7 DEF move, press, body, free

LEMMA PerformSafe ==
    ASSUME NEW name \in DOMAIN K!Perform
    PROVE  Safe(K!Perform[name])
<1> DEFINE mouse == {"mouse_move", "left_mouse_down", "left_mouse_up"}
           clicks == {"left_click", "double_click", "scroll"}
<1>1. name \in mouse \cup clicks \cup {"left_click_drag", "key", "type", "hold_key"}
  BY DEF K!Perform
<1>2. "left" \in K!Keys /\ "shift" \in K!Keys /\ "ctrl" \in K!Keys
  BY DEF K!Keys
<1>3. CASE name \in mouse
  <2> DEFINE press == K!Call("lasting", <<K!Down("left")>>)
             free == K!Call("plain", <<K!Up("left")>>)
             move == K!Move
  <2>1. move \in InputCalls /\ move.place = "plain" /\ Puts(move.events) = {}
    <3>1. <<>> \in Seq(KeyEvents)
      OBVIOUS
    <3>2. QED BY <3>1, NoEvents, CallTyped DEF K!Move
  <2>2. press \in InputCalls /\ press.place = "lasting"
    <3>1. <<K!Down("left")>> \in Seq(KeyEvents)
      BY OneDown, <1>2
    <3>2. QED BY <3>1, CallTyped
  <2>3. free \in InputCalls /\ free.place = "plain" /\ Puts(free.events) = {}
    <3>1. <<K!Up("left")>> \in Seq(KeyEvents) /\ Puts(<<K!Up("left")>>) = {}
      BY OneUp, <1>2
    <3>2. QED BY <3>1, CallTyped
  <2>4. /\ K!Perform["mouse_move"] = <<move>> /\ K!Perform["left_mouse_down"] = <<move, press>>
        /\ K!Perform["left_mouse_up"] = <<move, free>>
    BY DEF K!Perform
  <2> HIDE DEF press, free, move, K!Perform
  <2>5. Safe(<<move>>)
    <3> DEFINE q == <<move>>
    <3>1. q \in Seq(InputCalls) /\ \A i \in 1..Len(q) : q[i] = move
      BY <2>1
    <3> HIDE DEF q
    <3>2. Safe(q)
      BY <3>1, <2>1, PlainSafe
    <3>3. QED BY <3>2 DEF q
  <2>6. ASSUME NEW x \in {press, free}
        PROVE  Safe(<<move, x>>)
    <3> DEFINE q == <<move, x>>
    <3>1. q \in Seq(InputCalls) /\ \A i \in 1..Len(q) : q[i] \in {move, x}
      BY <2>1, <2>2, <2>3
    <3> HIDE DEF q
    <3>2. Safe(q)
      BY <3>1, <2>1, <2>2, <2>3, PlainSafe
    <3>3. QED BY <3>2 DEF q
  <2>7. QED BY <1>3, <2>4, <2>5, <2>6
<1>4. CASE name \in clicks
  <2>1. /\ K!Perform["left_click"]
             = <<K!Move>> \o K!WithModifiers(<<"ctrl", "shift">>, K!Click("left", 1))
        /\ K!Perform["double_click"] = <<K!Move>> \o K!WithModifiers(<<>>, K!Click("left", 2))
        /\ K!Perform["scroll"] = <<K!Move>> \o K!WithModifiers(<<"ctrl">>, K!Scroll(2))
    BY DEF K!Perform
  <2> HIDE DEF K!Perform
  <2>2. /\ <<"ctrl", "shift">> \in Seq(K!Keys) /\ <<>> \in Seq(K!Keys)
        /\ <<"ctrl">> \in Seq(K!Keys) /\ 1 \in Nat /\ 2 \in Nat
    BY <1>2
  <2>3. /\ Safe(K!WithModifiers(<<"ctrl", "shift">>, K!Click("left", 1)))
        /\ Safe(K!WithModifiers(<<>>, K!Click("left", 2)))
        /\ Safe(K!WithModifiers(<<"ctrl">>, K!Scroll(2)))
    BY <2>2, BodiesPutNothing, ModifiedSafe
  <2>4. QED BY <1>4, <2>1, <2>3, MovedSafe
<1>5. CASE name = "left_click_drag"
  BY <1>2, <1>5, HeldSafe DEF K!Perform
<1>6. CASE name = "key"
  <2>1. <<"ctrl", "S">> \in Seq(K!Keys \cup {"S"})
    BY <1>2
  <2>2. K!Perform["key"] = K!PressCombination(<<"ctrl", "S">>)
    BY DEF K!Perform
  <2>3. QED BY <1>6, <2>1, <2>2, ChordSafe
<1>7. CASE name = "type"
  <2>1. K!Perform["type"] = K!TypeText(3)
    BY DEF K!Perform
  <2>2. QED BY <1>7, <2>1, TypedSafe
<1>8. CASE name = "hold_key"
  <2>1. K!Perform["hold_key"]
          = <<K!Call("plain", <<K!Down("shift")>>), K!Call("finally", <<K!Up("shift")>>)>>
    BY DEF K!Perform
  <2>2. QED BY <1>2, <1>8, <2>1, HeldSafe
<1>9. QED BY <1>1, <1>3, <1>4, <1>5, <1>6, <1>7, <1>8

LEMMA ActionBegun ==
    ASSUME InputInv, NEW c \in Clients, K!Begin(c)
    PROVE  InputInv'
<1>1. PICK name \in DOMAIN K!Perform : todo' = [todo EXCEPT ![c] = K!Perform[name]]
  BY DEF K!Begin
<1> DEFINE q == K!Perform[name]
<1>2. /\ todo[c] = <<>> /\ todo' = [todo EXCEPT ![c] = q]
      /\ pressed' = [pressed EXCEPT ![c] = {}] /\ UNCHANGED <<held, lasting, refusals, hurt>>
      /\ Safe(q)
  BY <1>1, PerformSafe DEF K!Begin
<1> HIDE DEF q
<1>3. /\ InputTyped /\ HeldIsOwed /\ \A d \in Clients : Safe(todo[d])
  BY DEF InputInv
<1>4. /\ todo'[c] = q
      /\ \A d \in Clients : d # c => todo'[d] = todo[d] /\ pressed'[d] = pressed[d]
  BY <1>2, <1>3 DEF InputTyped
<1>5. InputTyped'
  <2>1. q \in Seq(InputCalls)
    BY <1>2 DEF Safe
  <2>2. QED BY <2>1, <1>2, <1>3 DEF InputTyped
<1>6. \A d \in Clients : Safe(todo'[d])
  BY <1>2, <1>3, <1>4
<1>7. HeldIsOwed'
  <2>1. Owed(todo[c]) = {}
    BY <1>2, EmptySafe
  <2>2. QED BY <2>1, <1>2, <1>3, <1>4 DEF HeldIsOwed
<1>8. QED BY <1>5, <1>6, <1>7 DEF InputInv

LEMMA InitInputInv == K!Init => InputInv
<1> SUFFICES ASSUME K!Init PROVE InputInv
  OBVIOUS
<1>1. todo = [c \in Clients |-> <<>>] /\ pressed = [c \in Clients |-> {}] /\ refusals = 0
      /\ hurt = FALSE /\ held = {} /\ lasting = {}
  BY DEF K!Init
<1>2. InputTyped
  <2>1. <<>> \in Seq(InputCalls) /\ 0 \in 0..MaxRefusals
    BY BoundsAssumption
  <2>2. QED BY <1>1, <2>1 DEF InputTyped
<1>3. QED BY <1>1, <1>2, EmptySafe DEF InputInv, HeldIsOwed

LEMMA NextInputInv ==
    ASSUME InputInv, K!Next \/ UNCHANGED kvars
    PROVE  InputInv'
<1>1. CASE K!Next
  BY <1>1, ActionBegun, CallSent, CallRefused DEF K!Next
<1>2. CASE UNCHANGED kvars
  BY <1>2 DEF kvars, InputInv, InputTyped, HeldIsOwed
<1>3. QED BY <1>1, <1>2

\* However the actions of any number of clients interleave, and whichever calls are
\* refused, an action that is over has released what it put down, or somebody else has,
\* unless a refusal hit where the code does not recover (`hurt`).
THEOREM KeysReleased == MCSpec => []NothingHeld
<1>1. MCInit => InputInv
  BY InitInputInv DEF MCInit
<1>2. InputInv /\ [MCNext]_<<part, vars, dvars, kvars, rvars>> => InputInv'
  BY NextInputInv DEF MCNext, SessionsStep, ScreenStep, InputStep, RequestsStep
<1>3. InputInv => NothingHeld
  <2> SUFFICES ASSUME InputInv, \A c \in Clients : todo[c] = <<>>, ~hurt
               PROVE  held \subseteq lasting
    BY DEF NothingHeld, K!NothingHeld
  <2>1. \A c \in Clients : Owed(todo[c]) = {}
    BY EmptySafe
  <2>2. QED BY <2>1 DEF InputInv, HeldIsOwed
<1>4. QED BY <1>1, <1>2, <1>3, PTL DEF MCSpec

-----------------------------------------------------------------------------
(***************************************************************************)
(* Types                                                                   *)
(***************************************************************************)

\* What is sent back, and answered, is of a run.
AnswersTyped ==
    /\ answer \in [Users -> SUBSET Users] /\ printed \subseteq Users
    /\ \A s \in Openers : Of(down[s], OfRun) \subseteq Users
    /\ shut \subseteq Openers /\ cut \subseteq Openers /\ tunnel \in BOOLEAN

SessionInv == RunInv /\ AnswersTyped

LEMMA RepliesTyped ==
    ASSUME RunInv, AnswersTyped, NEW s \in Openers, NEW kind \in OfRun, NEW r \in Users,
           Reply(s, kind, r)
    PROVE  \A x \in Openers : Of(down'[x], OfRun) \subseteq Users
<1> DEFINE m == <<kind, r>>
<1>1. /\ down \in [Openers -> Seq(Kinds \X Requests)] /\ down[s] \in Seq(Kinds \X Requests)
      /\ down' = [down EXCEPT ![s] = Append(@, m)]
  BY DEF RunInv, RunTyped, Reply
<1>2. m \in Kinds \X Requests /\ m[1] \in OfRun /\ m[2] = r
  BY DEF Kinds, OfRun, Requests
<1> HIDE DEF m
<1>3. Of(Append(down[s], m), OfRun) \subseteq Of(down[s], OfRun) \cup {m[2]}
  BY <1>1, <1>2, AddedOne, Zenon
<1>4. down'[s] = Append(down[s], m) /\ \A x \in Openers \ {s} : down'[x] = down[x]
  BY <1>1
<1>5. QED BY <1>2, <1>3, <1>4 DEF AnswersTyped

LEMMA NextSessionInv == SessionInv /\ [Next]_vars => SessionInv'
<1> SUFFICES ASSUME RunInv, AnswersTyped, [Next]_vars PROVE SessionInv'
  BY DEF SessionInv
<1>1. RunInv' /\ RunTyped /\ Typed /\ StagesOK
  BY NextRunInv DEF RunInv, Inv
<1>2. SUFFICES AnswersTyped'
  BY <1>1 DEF SessionInv
<1>3. ASSUME \A x \in Openers : LessDown(x)
      PROVE  \A x \in Openers : Of(down'[x], OfRun) \subseteq Users
  BY <1>3 DEF LessDown, AnswersTyped
<1>4. CASE UNCHANGED vars
  BY <1>4 DEF vars, client, agent, AnswersTyped
<1>5. ASSUME NEW r \in Requests, r \in Openers \/ r \in Users,
             \/ Reap(r) \/ ReapOne(r) \/ Open(r) \/ OpenFails(r) \/ Closed(r)
             \/ RunFails(r)
             \/ r \in Users /\ (Run(r) \/ Interrupt(r) \/ Close(r))
      PROVE  AnswersTyped'
  <2>1. UNCHANGED <<answer, down, tunnel, printed, cut>>
    BY <1>5 DEF Reap, ReapOne, Open, OpenFails, Closed, RunFails, Run, Interrupt, Close, agent
  <2>2. shut' = shut \/ \E s \in Openers : shut' = shut \cup {s}
    <3>1. CASE ReapOne(r)
      <4>1. r \in Openers
        BY <1>1, <1>5, <3>1 DEF ReapOne, StagesOK
      <4>2. stale[r] \subseteq Openers
        BY <1>1, <4>1, AboutOK DEF Typed
      <4>3. QED BY <3>1, <4>2 DEF ReapOne, Shut
    <3>2. CASE r \in Users /\ Close(r)
      BY <3>2, AboutOK DEF Close, Shut
    <3>3. CASE ~ReapOne(r) /\ ~(r \in Users /\ Close(r))
      BY <1>5, <3>3 DEF Reap, Open, OpenFails, Closed, RunFails, Run, Interrupt
    <3>4. QED BY <3>1, <3>2, <3>3
  <2>3. QED BY <2>1, <2>2 DEF AnswersTyped
<1>6. ASSUME NEW r \in Openers, Opened(r) PROVE AnswersTyped'
  <2>1. /\ down[r] # <<>> /\ down' = [down EXCEPT ![r] = Tail(@)]
        /\ UNCHANGED <<answer, shut, tunnel, printed, cut>>
    BY <1>6 DEF Opened, agent
  <2>2. \A x \in Openers : LessDown(x)
    BY <1>1, <2>1, DownLess
  <2>3. QED BY <1>3, <2>1, <2>2 DEF AnswersTyped
<1>7. ASSUME NEW r \in Users, RunReads(r) PROVE AnswersTyped'
  <2> DEFINE s == About[r]
             kind == Head(down[s])[1]
             c == Head(down[s])[2]
  <2>1. /\ down[s] # <<>> /\ down' = [down EXCEPT ![s] = Tail(@)]
        /\ answer' = [answer EXCEPT ![r] = IF kind \in {"stdout", "result"} THEN @ \cup {c} ELSE @]
        /\ UNCHANGED <<shut, tunnel, printed, cut>>
    BY <1>7 DEF RunReads, agent
  <2>2. s \in Openers
    BY AboutOK
  <2>3. \A x \in Openers : LessDown(x)
    BY <1>1, <2>1, <2>2, DownLess
  <2>4. kind \in {"stdout", "result"} => c \in Users
    <3>1. down[s] \in Seq(Kinds \X Requests)
      BY <1>1, <2>2 DEF RunTyped
    <3>2. kind \in OfRun => c \in Of(down[s], OfRun)
      BY <2>1, <3>1, Taken
    <3>3. QED BY <2>2, <3>2 DEF AnswersTyped, OfRun
  <2> HIDE DEF kind, c, s
  <2>5. answer' \in [Users -> SUBSET Users]
    BY <2>1, <2>4 DEF AnswersTyped
  <2>6. QED BY <1>3, <2>1, <2>3, <2>5 DEF AnswersTyped
<1>8. ASSUME NEW s \in Openers,
             RecvOpen(s) \/ RecvInterrupt(s) \/ Leave(s) \/ CleanUp(s) \/ CutShort(s)
      PROVE  AnswersTyped'
  <2>1. /\ UNCHANGED <<answer, shut, tunnel, printed>> /\ cut' \subseteq cut \cup {s}
        /\ UNCHANGED down \/ Reply(s, "ready", s)
    BY <1>8 DEF RecvOpen, RecvInterrupt, Leave, CleanUp, CutShort, client
  <2>2. \A x \in Openers : LessDown(x)
    BY <1>1, <2>1, DownLess
  <2>3. QED BY <1>3, <2>1, <2>2 DEF AnswersTyped
<1>9. ASSUME NEW s \in Openers, RecvInput(s) PROVE AnswersTyped'
  <2> DEFINE r == Head(up[s])[2]
  <2>1. UNCHANGED <<answer, shut, tunnel, printed, cut>> /\ (UNCHANGED down \/ Reply(s, "error", r))
    BY <1>9 DEF RecvInput, client
  <2>2. r \in Users
    <3>1. up[s] \in Seq(Ops \X Requests) /\ up[s] # <<>> /\ Head(up[s])[1] \in {"input"}
      BY <1>1, <1>9 DEF Typed, RecvInput, Recv
    <3>2. r \in Of(up[s], {"input"})
      BY <3>1, Taken
    <3>3. QED BY <1>1, <3>2 DEF RunTyped
  <2> HIDE DEF r
  <2>3. \A x \in Openers : Of(down'[x], OfRun) \subseteq Users
    BY <2>1, <2>2, RepliesTyped DEF AnswersTyped, OfRun
  <2>4. QED BY <2>1, <2>3 DEF AnswersTyped
<1>10. ASSUME NEW s \in Openers, Prints(s) \/ Ends(s) PROVE AnswersTyped'
  <2>1. /\ handler[s] = "running" /\ UNCHANGED <<answer, shut, tunnel, cut>>
        /\ printed' \in {printed, printed \cup {cmd[s]}}
        /\ \E kind \in OfRun : Reply(s, kind, cmd[s])
    BY <1>10 DEF Prints, Ends, client, OfRun
  <2>2. cmd[s] \in Users
    BY <1>1, <2>1 DEF RunTyped
  <2>3. \A x \in Openers : Of(down'[x], OfRun) \subseteq Users
    BY <2>1, <2>2, RepliesTyped
  <2>4. QED BY <2>1, <2>2, <2>3 DEF AnswersTyped
<1>11. CASE TunnelEnds
  BY <1>11 DEF TunnelEnds, client, agent, AnswersTyped
<1>12. CASE Next
  BY <1>5, <1>6, <1>7, <1>8, <1>9, <1>10, <1>11, <1>12, <1>1
     DEF Next, Request, Agent, EndsDead, StagesOK, Requests, Opened, RunReads
<1>13. QED BY <1>4, <1>12

LEMMA InitSessionInv == Init => SessionInv
<1> SUFFICES ASSUME Init PROVE SessionInv
  OBVIOUS
<1>1. AnswersTyped
  BY DEF Init, AnswersTyped, Of
<1>2. QED BY <1>1, InitRunInv DEF SessionInv

LEMMA SessionsTyped == SessionInv => SessionsTypeOK
<1> SUFFICES ASSUME SessionInv PROVE SessionsTypeOK
  OBVIOUS
<1>1. Typed /\ RunTyped /\ AnswersTyped
  BY DEF SessionInv, RunInv, Inv
<1>2. \A s \in Openers : \A i \in 1..Len(up[s]) :
        up[s][i][1] \in {"shell_open", "input", "interrupt", "close"} /\ up[s][i][2] \in Requests
  <2> TAKE s \in Openers
  <2>1. up[s] \in Seq(Ops \X Requests)
    BY <1>1 DEF Typed
  <2>2. QED BY <2>1 DEF Ops
<1>3. \A s \in Openers : \A i \in 1..Len(down[s]) :
        down[s][i][1] \in {"ready", "stdout", "result", "error"} /\ down[s][i][2] \in Requests
  <2> TAKE s \in Openers
  <2>1. down[s] \in Seq(Kinds \X Requests)
    BY <1>1 DEF RunTyped
  <2>2. QED BY <2>1 DEF Kinds
<1>4. QED BY <1>1, <1>2, <1>3 DEF SessionsTypeOK, Typed, RunTyped, AnswersTyped, Stages

-----------------------------------------------------------------------------

LEMMA ImageSizes ==
    /\ D!Sizes \subseteq Nat
    /\ \A s \in Screens : \A n \in 0..s.size : n \in D!Sizes
    /\ \A n \in D!Sizes : \A x \in 0..n : x \in D!Sizes
<1>1. D!Sizes \subseteq Nat
  BY ScreensOK DEF D!Sizes
<1>2. \A s \in Screens : \A n \in 0..s.size : n \in D!Sizes
  BY DEF D!Sizes
<1>3. ASSUME NEW n \in D!Sizes, NEW x \in 0..n PROVE x \in D!Sizes
  <2>1. PICK s \in Screens : n \in 0..s.size
    BY DEF D!Sizes
  <2>2. x \in 0..s.size
    BY <2>1, ScreensOK
  <2>3. QED BY <2>2, <1>2
<1>4. QED BY <1>1, <1>2, <1>3

\* A scaled position is a natural number, and the pixel that is hit an integer.
LEMMA PlacesTyped ==
    ASSUME NEW s \in Screens, NEW x \in Nat
    PROVE  /\ delivered \in Nat => D!Scale(x, s.size) \in Nat
           /\ D!Pixel(s, D!Absolute(s, x)) \in Int
<1> DEFINE n == s.size - 1
           a == D!Absolute(s, x)
<1>1. s.origin \in Int /\ s.size \in Nat /\ n \in Nat \ {0} /\ D!MaxAbsolute \in Nat \ {0}
  BY ScreensOK, SMT DEF D!MaxAbsolute
<1>2. ASSUME delivered \in Nat PROVE D!Scale(x, s.size) \in Nat
  <2>1. CASE delivered = 0
    BY <2>1 DEF D!Scale
  <2>2. CASE delivered # 0
    <3> DEFINE m == x * s.size
    <3>1. m \in Nat /\ delivered \in Nat \ {0}
      BY <1>1, <1>2, <2>2
    <3> HIDE DEF m
    <3>2. D!Round(m, delivered) \in Nat
      BY <3>1, RoundNear
    <3>3. D!Scale(x, s.size) = D!Round(m, delivered)
      BY <2>2 DEF D!Scale, m
    <3>4. QED BY <3>2, <3>3
  <2>3. QED BY <2>1, <2>2
<1>3. a \in Nat
  <2>1. CASE x < s.origin
    BY <2>1 DEF D!Absolute
  <2>2. CASE ~(x < s.origin)
    <3> DEFINE m == (x - s.origin) * D!MaxAbsolute
    <3>1. x - s.origin \in Nat
      BY <1>1, <2>2
    <3>2. m \in Nat
      BY <1>1, <3>1
    <3> HIDE DEF m
    <3>3. D!Round(m, n) \in Nat
      BY <1>1, <3>2, RoundNear
    <3>4. a = D!Least(D!MaxAbsolute, D!Round(m, n))
      BY <2>2 DEF D!Absolute, m
    <3>5. QED BY <1>1, <3>3, <3>4 DEF D!Least
  <2>3. QED BY <2>1, <2>2
<1> HIDE DEF a, n
<1>4. D!Pixel(s, a) \in Int
  <2> DEFINE m == a * n
  <2>1. m \in Nat
    BY <1>1, <1>3
  <2> HIDE DEF m
  <2>2. D!Round(m, D!MaxAbsolute) \in Nat
    BY <1>1, <2>1, RoundNear
  <2>3. D!Pixel(s, a) = s.origin + D!Round(m, D!MaxAbsolute)
    BY DEF D!Pixel, m, n
  <2>4. QED BY <1>1, <2>2, <2>3
<1>5. QED BY <1>2, <1>4 DEF a

ScreenTypes ==
    /\ screen \in Screens /\ resizes \in 0..MaxResizes
    /\ delivered \in D!Sizes /\ latest \in Clients \cup {D!NoClient}
    /\ turn \in [Clients -> {"idle", "grabbing", "grabbed", "acting", "moved"}]
    /\ grabbed \in [Clients -> D!Sizes] /\ image \in [Clients -> D!Sizes]
    /\ aim \in [Clients -> D!Sizes] /\ target \in [Clients -> Nat]
    /\ seen \in [Clients -> Screens] /\ crossed \subseteq Clients
    /\ hit \in [Clients -> Int]

LEMMA NextScreenTypes == ScreenTypes /\ [D!Next]_D!vars => ScreenTypes'
<1> SUFFICES ASSUME ScreenTypes, [D!Next]_D!vars PROVE ScreenTypes'
  OBVIOUS
<1>1. CASE UNCHANGED D!vars
  BY <1>1 DEF D!vars, ScreenTypes
<1>2. CASE D!Resize
  BY <1>2, BoundsAssumption DEF D!Resize, ScreenTypes
<1>3. ASSUME NEW c \in Clients, D!Ask(c) PROVE ScreenTypes'
  <2>1. 0 \in D!Sizes
    <3>1. screen \in Screens /\ 0 \in 0..screen.size
      BY ScreensOK DEF ScreenTypes
    <3>2. QED BY <3>1, ImageSizes
  <2>2. QED BY <1>3, <2>1 DEF D!Ask, D!Turn, ScreenTypes
<1>4. ASSUME NEW c \in Clients, D!Grab(c) PROVE ScreenTypes'
  <2>1. PICK width \in Widths : grabbed' = [grabbed EXCEPT ![c] = D!TargetSize(screen.size, width)]
    BY <1>4 DEF D!Grab
  <2>2. screen \in Screens /\ screen.size \in Nat /\ width \in Nat
    BY ScreensOK, ScreenAssumption DEF ScreenTypes
  <2>3. D!TargetSize(screen.size, width) \in 0..screen.size
    BY <2>2 DEF D!TargetSize, D!Least
  <2>4. D!TargetSize(screen.size, width) \in D!Sizes
    BY <2>2, <2>3, ImageSizes
  <2>5. QED BY <1>4, <2>1, <2>4 DEF D!Grab, D!Turn, ScreenTypes
<1>5. ASSUME NEW c \in Clients, D!Deliver(c) PROVE ScreenTypes'
  <2>1. 0 \in D!Sizes
    <3>1. screen \in Screens /\ 0 \in 0..screen.size
      BY ScreensOK DEF ScreenTypes
    <3>2. QED BY <3>1, ImageSizes
  <2>2. QED BY <1>5, <2>1 DEF D!Deliver, D!Turn, ScreenTypes
<1>6. ASSUME NEW c \in Clients, D!Act(c) PROVE ScreenTypes'
  <2>1. PICK x \in 0..image[c] - 1 :
          /\ aim' = [aim EXCEPT ![c] = x]
          /\ target' = [target EXCEPT ![c] = D!Scale(x, screen.size)]
    BY <1>6, Zenon DEF D!Act
  <2>2. image[c] \in D!Sizes /\ image[c] \in Nat /\ delivered \in Nat /\ screen \in Screens
    BY ImageSizes DEF ScreenTypes
  <2>3. x \in Nat /\ x \in 0..image[c]
    BY <2>2
  <2>4. x \in D!Sizes /\ D!Scale(x, screen.size) \in Nat
    BY <2>2, <2>3, ImageSizes, PlacesTyped
  <2>5. QED BY <1>6, <2>1, <2>4 DEF D!Act, D!Turn, ScreenTypes
<1>7. ASSUME NEW c \in Clients, D!MoveTo(c) PROVE ScreenTypes'
  <2>1. D!Pixel(screen, D!Absolute(screen, target[c])) \in Int
    BY PlacesTyped DEF ScreenTypes
  <2>2. QED BY <1>7, <2>1 DEF D!MoveTo, D!Turn, ScreenTypes
<1>8. QED BY <1>1, <1>2, <1>3, <1>4, <1>5, <1>6, <1>7 DEF D!Next

LEMMA InitScreenTypes == D!Init => ScreenTypes
<1> SUFFICES ASSUME D!Init PROVE ScreenTypes
  OBVIOUS
<1>1. screen \in Screens
  BY DEF D!Init
<1>2. 0 \in D!Sizes
  <2>1. 0 \in 0..screen.size
    BY <1>1, ScreensOK
  <2>2. QED BY <1>1, <2>1, ImageSizes
<1>3. QED BY <1>1, <1>2, BoundsAssumption DEF D!Init, ScreenTypes

-----------------------------------------------------------------------------

\* Parts of a message, and the end of the stream after them.
Flow(q) ==
    q \in Seq({"part", "eof"}) /\ \A i \in 1..Len(q) : q[i] = "part" <=> i < Len(q)

LEMMA EmptyFlow == Flow(<<>>) /\ Len(<<>>) = 0
BY DEF Flow

LEMMA PartsFlow ==
    ASSUME NEW n \in Nat
    PROVE  LET q == Append(R!Parts(n), "eof") IN Flow(q) /\ Len(q) = n + 1
<1> DEFINE p == R!Parts(n)
           q == Append(p, "eof")
<1>1. p \in [1..n -> {"part", "eof"}] /\ \A i \in 1..n : p[i] = "part"
  BY DEF R!Parts
<1> HIDE DEF p
<1>2. p \in Seq({"part", "eof"}) /\ Len(p) = n
  BY <1>1
<1>3. /\ q \in Seq({"part", "eof"}) /\ Len(q) = n + 1
      /\ \A i \in 1..n : q[i] = "part"
      /\ q[n + 1] = "eof"
  BY <1>1, <1>2
<1> HIDE DEF q
<1>4. \A i \in 1..n + 1 : i \in 1..n \/ i = n + 1
  OBVIOUS
<1>5. \A i \in 1..n + 1 : q[i] = "part" <=> i < n + 1
  BY <1>3, <1>4
<1>6. QED BY <1>3, <1>5 DEF Flow, p, q

LEMMA TakenFlow ==
    ASSUME NEW q, Flow(q), q # <<>>, Head(q) = "part"
    PROVE  Flow(Tail(q)) /\ Len(Tail(q)) = Len(q) - 1 /\ Len(q) >= 2 /\ Len(q) \in Nat
<1> DEFINE p == Tail(q)
           n == Len(q)
<1>1. /\ q \in Seq({"part", "eof"}) /\ n \in Nat /\ n >= 1 /\ Head(q) = q[1]
      /\ p \in Seq({"part", "eof"}) /\ Len(p) = n - 1 /\ \A i \in 1..n - 1 : p[i] = q[i + 1]
  BY DEF Flow
<1> HIDE DEF n, p
<1>2. \A i \in 1..n : q[i] = "part" <=> i < n
  BY DEF Flow, n
<1>3. n >= 2
  BY <1>1, <1>2
<1>4. \A i \in 1..n - 1 : p[i] = "part" <=> i < n - 1
  <2> TAKE i \in 1..n - 1
  <2>1. i + 1 \in 1..n /\ (i + 1 < n <=> i < n - 1)
    BY <1>1
  <2>2. QED BY <2>1, <1>1, <1>2
<1>5. QED BY <1>1, <1>3, <1>4 DEF Flow, n, p

\* How much of a request and of its reply there is, and what is on the way of it.
Sized(r) ==
    /\ size[r] \in 0..MaxBody + 1 /\ arrived[r] \in 0..MaxBody
    /\ http[r] = "receiving" => size[r] <= MaxBody
    /\ taken[r] \in 0..arrived[r] + 1 /\ length[r] \in 0..MaxBody + 2 /\ got[r] \in 0..length[r]
    /\ Flow(out[r]) /\ Flow(back[r])
    /\ http[r] \in {"idle", "receiving", "opening", "sending"} => out[r] = <<>> /\ taken[r] = 0
    /\ out[r] # <<>> => taken[r] + Len(out[r]) <= arrived[r] + 2
    /\ serving[r] # "ended" => back[r] = <<>> /\ got[r] = 0
    /\ back[r] # <<>> => got[r] + Len(back[r]) <= length[r] + 1

SizesInv ==
    /\ RequestInv
    /\ DOMAIN out = Jobs /\ out = [r \in Jobs |-> out[r]]
    /\ DOMAIN back = Jobs /\ back = [r \in Jobs |-> back[r]]
    /\ link \in BOOLEAN /\ file[2] \in 0..MaxBody + 1
    /\ \A r \in Jobs : Sized(r)

LEMMA NextSizesInv == SizesInv /\ [R!Next]_R!vars => SizesInv'
<1> SUFFICES ASSUME SizesInv, [R!Next]_R!vars PROVE SizesInv'
  OBVIOUS
<1>1. RequestInv /\ RequestInv' /\ RequestTyped /\ RequestTyped'
  BY NextRequestInv DEF SizesInv, RequestInv
<1>2. \A r \in Jobs : Sized(r)
  BY DEF SizesInv
<1>3. MaxBody \in Nat
  BY BoundsAssumption
<1> DEFINE Others(r) == \A q \in Jobs \ {r} :
              /\ http'[q] = http[q] /\ serving'[q] = serving[q]
              /\ size'[q] = size[q] /\ arrived'[q] = arrived[q] /\ taken'[q] = taken[q]
              /\ got'[q] = got[q] /\ length'[q] = length[q]
              /\ out'[q] = out[q] /\ back'[q] = back[q]
           Streams == /\ DOMAIN out = Jobs /\ out = [r \in Jobs |-> out[r]]
                      /\ DOMAIN back = Jobs /\ back = [r \in Jobs |-> back[r]]
                      /\ link \in BOOLEAN
<1>4. Streams /\ file[2] \in 0..MaxBody + 1
  BY DEF SizesInv
<1>5. ASSUME NEW r \in Jobs, Others(r), Sized(r)', Streams', file'[2] \in 0..MaxBody + 1
      PROVE  SizesInv'
  <2>1. \A q \in Jobs \ {r} : Sized(q)'
    BY <1>2, <1>5 DEF Sized
  <2>2. QED BY <2>1, <1>1, <1>5 DEF SizesInv
<1>a. \A r, a : R!Answer(r, a) => http' = [http EXCEPT ![r] = "ended"]
  BY DEF R!Answer
<1>b. \A r, pc : R!Goes(r, pc) => http' = [http EXCEPT ![r] = pc]
  BY DEF R!Goes
<1>c. \A r, n, ok : R!Reply(r, n, ok) =>
        serving' = [serving EXCEPT ![r] = "replying"] /\ length' = [length EXCEPT ![r] = n]
  BY DEF R!Reply, R!Handler
<1>d. \A r, pc : R!Handler(r, pc) => serving' = [serving EXCEPT ![r] = pc]
  BY DEF R!Handler
<1>6. ASSUME NEW r \in Jobs, R!Begin(r) PROVE SizesInv'
  <2>1. /\ http[r] = "idle"
        /\ UNCHANGED <<arrived, got, taken, serving, length, file, out, back, link>>
    BY <1>6 DEF R!Begin, R!agent
  <2> DEFINE Read(n) ==
                /\ size' = [size EXCEPT ![r] = n]
                /\ \/ n > MaxBody /\ http' = [http EXCEPT ![r] = "ended"]
                   \/ n <= MaxBody /\ http' = [http EXCEPT ![r] = "receiving"]
  <2>2. \/ http' = [http EXCEPT ![r] = "left"] /\ UNCHANGED size
        \/ \E n \in 0..MaxBody + 1 : Read(n)
    <3>1. CASE R!Goes(r, "left") /\ UNCHANGED <<op, size>>
      BY <3>1, <1>b
    <3>2. ASSUME NEW o \in R!Operations, NEW n \in 0..MaxBody + 1,
                 size' = [size EXCEPT ![r] = n],
                 IF n > MaxBody THEN R!Answer(r, "error") ELSE R!Goes(r, "receiving")
          PROVE  Read(n)
      BY <3>2, <1>a, <1>b, <1>3
    <3> HIDE DEF Read
    <3>3. QED BY <1>6, <3>1, <3>2, Zenon DEF R!Begin
  <2>3. Sized(r)'
    <3>1. Sized(r)
      BY <1>2
    <3>2. \/ http'[r] = "left" /\ size'[r] = size[r]
          \/ http'[r] = "ended" /\ size'[r] \in 0..MaxBody + 1
          \/ http'[r] = "receiving" /\ size'[r] \in 0..MaxBody + 1 /\ size'[r] <= MaxBody
      BY <1>1, <2>2 DEF RequestTyped
    <3>3. QED BY <1>1, <1>3, <2>1, <3>1, <3>2 DEF Sized, RequestTyped
  <2>4. Others(r)
    BY <1>1, <2>1, <2>2 DEF RequestTyped
  <2>5. Streams'
    BY <1>4, <2>1
  <2>6. QED BY <1>4, <1>5, <2>1, <2>3, <2>4, <2>5
<1>7. ASSUME NEW r \in Jobs, R!BodyPart(r) PROVE SizesInv'
  <2>1. /\ http[r] = "receiving" /\ arrived[r] < size[r]
        /\ arrived' = [arrived EXCEPT ![r] = @ + 1]
        /\ UNCHANGED <<http, size, got, taken, serving, length, file, out, back, link>>
    BY <1>7 DEF R!BodyPart, R!agent
  <2>2. Sized(r)'
    <3>1. Sized(r) /\ size[r] <= MaxBody
      BY <1>2, <2>1 DEF Sized
    <3>2. arrived'[r] = arrived[r] + 1 /\ arrived'[r] \in 0..MaxBody
      BY <1>1, <1>3, <2>1, <3>1 DEF RequestTyped
    <3>3. out[r] = <<>>
      BY <2>1, <3>1 DEF Sized
    <3>4. QED BY <1>1, <1>3, <2>1, <3>1, <3>2, <3>3 DEF Sized, RequestTyped
  <2>3. Others(r)
    BY <1>1, <2>1 DEF RequestTyped
  <2>4. Streams'
    BY <1>4, <2>1
  <2>5. QED BY <1>4, <1>5, <2>1, <2>2, <2>3, <2>4
<1>8. ASSUME NEW r \in Jobs, R!ReadRequest(r) \/ R!NoReply(r) PROVE SizesInv'
  <2>1. /\ http[r] = "receiving" \/ http[r] = "reading"
        /\ \/ http' = [http EXCEPT ![r] = "ended"]
           \/ http[r] = "receiving" /\ http' = [http EXCEPT ![r] = "opening"]
        /\ UNCHANGED <<size, arrived, got, taken, serving, length, file, out, back, link>>
    BY <1>8, <1>a, <1>b DEF R!ReadRequest, R!NoReply, R!agent
  <2>2. Sized(r)'
    BY <1>1, <1>2, <2>1 DEF Sized, RequestTyped
  <2>3. Others(r)
    BY <1>1, <2>1 DEF RequestTyped
  <2>4. Streams'
    BY <1>4, <2>1
  <2>5. QED BY <1>4, <1>5, <2>1, <2>2, <2>3, <2>4
<1>9. ASSUME NEW r \in Jobs, R!OpenStream(r) PROVE SizesInv'
  <2>1. /\ http[r] = "opening"
        /\ UNCHANGED <<size, arrived, got, taken, length, file, out, back, link>>
        /\ \/ http' = [http EXCEPT ![r] = "ended"] /\ serving' = serving
           \/ /\ http' = [http EXCEPT ![r] = "sending"]
              /\ serving' = [serving EXCEPT ![r] = "reading"]
    BY <1>9, <1>a, <1>b DEF R!OpenStream
  <2>2. serving[r] = "none"
    BY <1>1, <2>1 DEF RequestInv, Whole
  <2>3. Sized(r)'
    BY <1>1, <1>2, <2>1, <2>2 DEF Sized, RequestTyped
  <2>4. Others(r)
    BY <1>1, <2>1 DEF RequestTyped
  <2>5. Streams'
    BY <1>4, <2>1
  <2>6. QED BY <1>4, <1>5, <2>1, <2>3, <2>4, <2>5
<1>10. ASSUME NEW r \in Jobs, R!Send(r) PROVE SizesInv'
  <2> DEFINE q == Append(R!Parts(1 + arrived[r]), "eof")
  <2>1. /\ http[r] = "sending"
        /\ UNCHANGED <<size, arrived, got, taken, serving, length, file, back, link>>
        /\ \/ http' = [http EXCEPT ![r] = "ended"] /\ out' = out
           \/ http' = [http EXCEPT ![r] = "reading"] /\ out' = [out EXCEPT ![r] = q]
    BY <1>10, <1>a, <1>b DEF R!Send, R!agent
  <2>2. Flow(q) /\ Len(q) = arrived[r] + 2 /\ arrived[r] \in Nat
    <3>1. 1 + arrived[r] \in Nat /\ arrived[r] \in Nat
      BY <1>1 DEF RequestTyped
    <3>2. Flow(q) /\ Len(q) = (1 + arrived[r]) + 1
      BY <3>1, PartsFlow
    <3>3. QED BY <3>1, <3>2
  <2> HIDE DEF q
  <2>3. Sized(r) /\ taken[r] = 0
    BY <1>2, <2>1 DEF Sized
  <2>4. Sized(r)'
    BY <1>1, <1>4, <2>1, <2>2, <2>3 DEF Sized, RequestTyped
  <2>5. Others(r)
    BY <1>1, <1>4, <2>1 DEF RequestTyped
  <2>6. Streams'
    BY <1>4, <2>1
  <2>7. QED BY <1>4, <1>5, <2>1, <2>4, <2>5, <2>6
<1>11. ASSUME NEW r \in Jobs, R!ReadReply(r) PROVE SizesInv'
  <2>1. /\ http[r] = "reading" /\ back[r] # <<>> /\ Head(back[r]) = "part"
        /\ back' = [back EXCEPT ![r] = Tail(@)] /\ got' = [got EXCEPT ![r] = @ + 1]
        /\ UNCHANGED <<size, arrived, taken, serving, length, file, out, link>>
        /\ http' = [http EXCEPT ![r] = "ended"] \/ http' = [http EXCEPT ![r] = "reading"]
    BY <1>11, <1>a, <1>b DEF R!ReadReply, R!agent
  <2>2. Sized(r)
    BY <1>2
  <2>3. /\ Flow(Tail(back[r])) /\ Len(Tail(back[r])) = Len(back[r]) - 1
        /\ Len(back[r]) >= 2 /\ Len(back[r]) \in Nat
    BY <2>1, <2>2, TakenFlow DEF Sized
  <2>4. Sized(r)'
    BY <1>1, <1>4, <2>1, <2>2, <2>3 DEF Sized, RequestTyped
  <2>5. Others(r)
    BY <1>1, <1>4, <2>1 DEF RequestTyped
  <2>6. Streams'
    BY <1>4, <2>1
  <2>7. QED BY <1>4, <1>5, <2>1, <2>4, <2>5, <2>6
<1>12. ASSUME NEW r \in Jobs, R!ReadMessage(r) PROVE SizesInv'
  <2>1. /\ serving[r] = "reading" /\ out[r] # <<>> /\ Head(out[r]) = "part"
        /\ out' = [out EXCEPT ![r] = Tail(@)] /\ taken' = [taken EXCEPT ![r] = @ + 1]
        /\ \E pc \in {"dispatching", "reading"} : serving' = [serving EXCEPT ![r] = pc]
        /\ UNCHANGED <<http, size, arrived, got, length, file, back, link>>
    BY <1>12, <1>d DEF R!ReadMessage, R!client
  <2>2. Sized(r)
    BY <1>2
  <2>3. /\ Flow(Tail(out[r])) /\ Len(Tail(out[r])) = Len(out[r]) - 1
        /\ Len(out[r]) >= 2 /\ Len(out[r]) \in Nat
    BY <2>1, <2>2, TakenFlow DEF Sized
  <2>4. Sized(r)'
    BY <1>1, <1>4, <2>1, <2>2, <2>3 DEF Sized, RequestTyped
  <2>5. Others(r)
    BY <1>1, <1>4, <2>1 DEF RequestTyped
  <2>6. Streams'
    BY <1>4, <2>1
  <2>7. QED BY <1>4, <1>5, <2>1, <2>4, <2>5, <2>6
<1>13. ASSUME NEW r \in Jobs,
              \/ R!MessageEnds(r) \/ R!Refuse(r) \/ R!Write(r) \/ R!WriteFails(r) \/ R!Read(r)
              \/ R!Finishes(r) \/ R!TimesOut(r)
       PROVE  SizesInv'
  <2>1. /\ UNCHANGED <<http, size, arrived, got, taken, out, back, link>>
        /\ serving[r] \in {"reading", "dispatching", "running"}
    BY <1>13
       DEF R!MessageEnds, R!Refuse, R!Write, R!WriteFails, R!Read, R!Finishes, R!TimesOut, R!client
  <2>2. /\ \/ serving' = [serving EXCEPT ![r] = "ended"] /\ length' = length
           \/ \E n \in {1, 1 + file[2]} :
                 serving' = [serving EXCEPT ![r] = "replying"] /\ length' = [length EXCEPT ![r] = n]
        /\ \/ file' = file
           \/ /\ serving[r] = "dispatching"
              /\ file' = <<r, taken[r] - 1>> \/ \E n \in 0..taken[r] - 1 : file' = <<r, n>>
    BY <1>13, <1>c, <1>d
       DEF R!MessageEnds, R!Refuse, R!Write, R!WriteFails, R!Read, R!Finishes, R!TimesOut
  <2>3. Sized(r)
    BY <1>2
  <2>4. file'[2] \in 0..MaxBody + 1
    <3>1. CASE file' = file
      BY <1>4, <3>1
    <3>2. CASE /\ serving[r] = "dispatching"
               /\ file' = <<r, taken[r] - 1>> \/ \E n \in 0..taken[r] - 1 : file' = <<r, n>>
      <4>1. taken[r] = 1 + size[r] /\ size[r] \in Nat
        BY <1>1, <3>2 DEF RequestInv, RequestTyped, Whole
      <4>2. taken[r] - 1 = size[r]
        BY <4>1
      <4>3. PICK n \in 0..size[r] : file' = <<r, n>>
        BY <3>2, <4>1, <4>2
      <4>4. QED BY <4>1, <4>3, <2>3, <1>3 DEF Sized
    <3>3. QED BY <2>2, <3>1, <3>2
  <2>5. Sized(r)'
    <3>1. got[r] = 0 /\ back[r] = <<>> /\ http'[r] = http[r] /\ length'[r] \in 0..MaxBody + 2
      <4>1. 1 + file[2] \in 0..MaxBody + 2 /\ 1 \in 0..MaxBody + 2
        BY <1>3, <1>4
      <4>2. length'[r] \in 0..MaxBody + 2
        BY <1>1, <2>2, <2>3, <4>1 DEF Sized, RequestTyped
      <4>3. QED BY <2>1, <2>3, <4>2 DEF Sized
    <3>2. got[r] \in 0..length'[r]
      BY <3>1
    <3>3. QED BY <2>1, <2>3, <3>1, <3>2 DEF Sized
  <2>6. Others(r)
    BY <1>1, <2>1, <2>2 DEF RequestTyped
  <2>7. Streams'
    BY <1>4, <2>1
  <2>8. QED BY <1>5, <2>4, <2>5, <2>6, <2>7
<1>14. ASSUME NEW r \in Jobs, R!Spawn(r) \/ R!Exits(r) \/ R!Cancelled(r) PROVE SizesInv'
  <2>1. /\ UNCHANGED <<http, size, arrived, got, taken, length, file, out, back, link>>
        /\ \/ serving' = serving
           \/ /\ serving[r] # "ended"
              /\ \E pc \in {"running", "ended"} : serving' = [serving EXCEPT ![r] = pc]
    BY <1>14, <1>d DEF R!Spawn, R!Exits, R!Cancelled, R!client
  <2>2. Sized(r)'
    BY <1>1, <1>2, <2>1 DEF Sized, RequestTyped
  <2>3. Others(r)
    BY <1>1, <2>1 DEF RequestTyped
  <2>4. Streams'
    BY <1>4, <2>1
  <2>5. QED BY <1>4, <1>5, <2>1, <2>2, <2>3, <2>4
<1>15. ASSUME NEW r \in Jobs, R!WriteReply(r) PROVE SizesInv'
  <2> DEFINE q == Append(R!Parts(length[r]), "eof")
  <2>1. /\ serving[r] = "replying" /\ serving' = [serving EXCEPT ![r] = "ended"]
        /\ UNCHANGED <<http, size, arrived, got, taken, length, file, out, link>>
        /\ back' = back \/ back' = [back EXCEPT ![r] = q]
    BY <1>15, <1>d DEF R!WriteReply, R!client
  <2>2. Flow(q) /\ Len(q) = length[r] + 1 /\ length[r] \in Nat
    BY <1>1, PartsFlow DEF RequestTyped
  <2> HIDE DEF q
  <2>3. Sized(r) /\ got[r] = 0
    BY <1>2, <2>1 DEF Sized
  <2>4. Sized(r)'
    BY <1>1, <1>4, <2>1, <2>2, <2>3 DEF Sized, RequestTyped
  <2>5. Others(r)
    BY <1>1, <1>4, <2>1 DEF RequestTyped
  <2>6. Streams'
    BY <1>4, <2>1
  <2>7. QED BY <1>4, <1>5, <2>1, <2>4, <2>5, <2>6
<1>16. CASE R!TunnelEnds
  <2>1. /\ UNCHANGED <<http, size, arrived, got, taken, serving, length, file>>
        /\ link' = FALSE
    BY <1>16 DEF R!TunnelEnds, R!client, R!agent
  <2>2. PICK keepUp, keepDown \in SUBSET Jobs :
          /\ out' = [r \in Jobs |-> IF r \in keepUp THEN out[r] ELSE <<>>]
          /\ back' = [r \in Jobs |-> IF r \in keepDown THEN back[r] ELSE <<>>]
    BY <1>16 DEF R!TunnelEnds
  <2>3. \A r \in Jobs : out'[r] \in {out[r], <<>>} /\ back'[r] \in {back[r], <<>>}
    BY <2>2
  <2>4. \A r \in Jobs : Sized(r)'
    BY <1>2, <2>1, <2>3, EmptyFlow DEF Sized
  <2>5. Streams'
    BY <2>1, <2>2
  <2>6. QED BY <1>1, <1>4, <2>1, <2>4, <2>5 DEF SizesInv
<1>17. CASE UNCHANGED R!vars
  BY <1>1, <1>2, <1>4, <1>17 DEF R!vars, R!client, R!agent, SizesInv, Sized
<1>18. QED BY <1>6, <1>7, <1>8, <1>9, <1>10, <1>11, <1>12, <1>13, <1>14, <1>15, <1>16, <1>17
           DEF R!Next, R!Client, R!Agent

LEMMA InitSizesInv == R!Init => SizesInv
<1> SUFFICES ASSUME R!Init PROVE SizesInv
  OBVIOUS
<1>1. file[2] \in 0..MaxBody + 1
  BY DEF R!Init
<1>2. \A r \in Jobs : Sized(r)
  BY EmptyFlow, BoundsAssumption DEF R!Init, Sized
<1>3. QED BY <1>1, <1>2, InitRequestInv DEF R!Init, SizesInv

LEMMA RequestsTyped == SizesInv => R!RequestsTypeOK
<1> SUFFICES ASSUME SizesInv PROVE R!RequestsTypeOK
  OBVIOUS
<1>1. RequestTyped /\ (\A r \in Jobs : Sized(r)) /\ MaxBody \in Nat
  BY BoundsAssumption DEF SizesInv, RequestInv
<1>2. /\ size \in [Jobs -> 0..MaxBody + 1] /\ arrived \in [Jobs -> 0..MaxBody]
      /\ taken \in [Jobs -> 0..MaxBody + 1] /\ got \in [Jobs -> 0..MaxBody + 2]
      /\ length \in [Jobs -> 0..MaxBody + 2]
  BY <1>1 DEF RequestTyped, Sized
<1>3. \A r \in Jobs : \A q \in {out[r], back[r]} : \A i \in 1..Len(q) : q[i] \in {"part", "eof"}
  BY <1>1 DEF Sized, Flow
<1>4. file \in (Jobs \cup {NoClient}) \X (0..MaxBody + 1) /\ link \in BOOLEAN
  BY <1>1 DEF RequestTyped, SizesInv
<1>5. QED BY <1>1, <1>2, <1>3, <1>4 DEF RequestTyped, R!RequestsTypeOK, R!NoClient, NoClient

-----------------------------------------------------------------------------

TypesInv == SessionInv /\ ScreenTypes /\ InputInv /\ SizesInv

\* In the composed system too every variable has its type, for any number of clients,
\* requests, sessions and screens.
THEOREM ControlTyped == MCSpec => []TypeOK
<1>1. MCInit => TypesInv
  BY InitSessionInv, InitScreenTypes, InitInputInv, InitSizesInv DEF MCInit, TypesInv
<1>2. TypesInv /\ [MCNext]_<<part, vars, dvars, kvars, rvars>> => TypesInv'
  <2> SUFFICES ASSUME TypesInv, [MCNext]_<<part, vars, dvars, kvars, rvars>> PROVE TypesInv'
    OBVIOUS
  <2>1. /\ Next \/ UNCHANGED vars
        /\ D!Next \/ UNCHANGED dvars
        /\ K!Next \/ UNCHANGED kvars
        /\ R!Next \/ UNCHANGED rvars
    BY DEF MCNext, SessionsStep, ScreenStep, InputStep, RequestsStep
  <2>2. /\ UNCHANGED dvars => UNCHANGED D!vars
        /\ UNCHANGED rvars => UNCHANGED R!vars
    BY DEF dvars, D!vars, rvars, R!vars, R!client, R!agent
  <2>3. SessionInv'
    BY <2>1, NextSessionInv DEF TypesInv
  <2>4. ScreenTypes'
    BY <2>1, <2>2, NextScreenTypes DEF TypesInv
  <2>5. InputInv'
    BY <2>1, NextInputInv DEF TypesInv
  <2>6. SizesInv'
    BY <2>1, <2>2, NextSizesInv DEF TypesInv
  <2>7. QED BY <2>3, <2>4, <2>5, <2>6 DEF TypesInv
<1>3. TypesInv => TypeOK
  <2> SUFFICES ASSUME TypesInv PROVE TypeOK
    OBVIOUS
  <2>1. SessionsTypeOK
    BY SessionsTyped DEF TypesInv
  <2>2. R!RequestsTypeOK
    BY RequestsTyped DEF TypesInv
  <2>3. D!CoordinatesTypeOK
    BY DEF TypesInv, ScreenTypes, D!CoordinatesTypeOK
  <2>4. K!InputTypeOK
    <3>1. InputTyped
      BY DEF TypesInv, InputInv
    <3>2. ASSUME NEW c \in Clients, NEW i \in DOMAIN todo[c]
          PROVE  todo[c][i].place \in {"plain", "try", "finally", "lasting"}
      <4>1. todo[c] \in Seq(InputCalls)
        BY <3>1 DEF InputTyped
      <4>2. todo[c][i] \in InputCalls
        BY <4>1
      <4>3. QED BY <4>2 DEF InputCalls
    <3>3. QED BY <3>1, <3>2 DEF InputTyped, K!InputTypeOK
  <2>5. QED BY <2>1, <2>2, <2>3, <2>4 DEF TypeOK
<1>4. QED BY <1>1, <1>2, <1>3, PTL DEF MCSpec
=============================================================================
