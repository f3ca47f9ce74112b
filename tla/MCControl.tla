------------------------------ MODULE MCControl ------------------------------
(***************************************************************************)
(* The control API, checked one component at a time: `part` names the one  *)
(* that runs, and the others keep their initial states.                    *)
(*   "sessions": persistent shells, from the HTTP requests to the process  *)
(*   "screen":   screenshots and the positions named in them               *)
(*   "input":    keys and buttons that actions put down and release        *)
(*   "requests": one operation each, from the HTTP request to the answer   *)
(***************************************************************************)
EXTENDS Sessions

VARIABLES
    part,
    screen, resizes, delivered, latest, turn, grabbed, image, aim, target, seen, crossed, hit,
    todo, held, lasting, pressed, refusals, hurt,
    http, op, size, arrived, out, back, taken, got, serving, length, good, child, file, link, told

D == INSTANCE Coordinates
K == INSTANCE InputEvents
R == INSTANCE Requests WITH
         up <- out, down <- back, handler <- serving, proc <- child, tunnel <- link, answer <- told

\* Two runs of, or a run and a close of, the first session.
MCAbout == [u \in {"x", "y"} |-> "s1"]

\* Screens that begin at the origin of the desktop, and one that a monitor to the
\* left of the primary one extends.
MCScreens == {[origin |-> 0, size |-> 3], [origin |-> 0, size |-> 5]}
MCOffset == {[origin |-> -2, size |-> 4]}

dvars == <<screen, resizes, delivered, latest, turn, grabbed, image, aim, target, seen, crossed,
           hit>>
kvars == <<todo, held, lasting, pressed, refusals, hurt>>
rvars == <<http, op, size, arrived, out, back, taken, got, serving, length, good, child, file, link,
           told>>
MCInit ==
    /\ part \in {"sessions", "screen", "input", "requests"}
    /\ Init /\ D!Init /\ K!Init /\ R!Init
    /\ part # "screen" => screen = CHOOSE s \in Screens : TRUE
    /\ part # "requests" => file = <<NoClient, 0>>

SessionsStep == part = "sessions" /\ Next /\ UNCHANGED <<part, dvars, kvars, rvars>>
ScreenStep == part = "screen" /\ D!Next /\ UNCHANGED <<part, vars, kvars, rvars>>
InputStep == part = "input" /\ K!Next /\ UNCHANGED <<part, vars, dvars, rvars>>
RequestsStep == part = "requests" /\ R!Next /\ UNCHANGED <<part, vars, dvars, kvars>>

MCNext == SessionsStep \/ ScreenStep \/ InputStep \/ RequestsStep

\* The fairness of the sessions and of the requests, while they run.
MCFairness ==
    /\ \A r \in Jobs :
        /\ WF_rvars(part = "requests" /\ R!Client(r))
        /\ WF_rvars(part = "requests" /\ R!Agent(r))
    /\ \A r \in Requests : WF_vars(part = "sessions" /\ Request(r))
    /\ \A s \in Openers : WF_vars(part = "sessions" /\ Agent(s))

MCSpec == MCInit /\ [][MCNext]_<<part, vars, dvars, kvars, rvars>> /\ MCFairness

-----------------------------------------------------------------------------

\* Every variable has its type.
TypeOK == SessionsTypeOK /\ D!CoordinatesTypeOK /\ K!InputTypeOK /\ R!RequestsTypeOK

\* A command in a session is answered with its own output and result; an operation is
\* answered with ok only when it was carried out whole.
AnswersTrue == OwnResult /\ R!ReplyWhole

\* A request is answered, and its process ends.
RequestsEnd == R!RequestsEnd

\* The pixel is hit that the client has named.
ClickLands == D!ClickLands

\* When actions are over, no key or button stays down.
NothingHeld == K!NothingHeld

=============================================================================
