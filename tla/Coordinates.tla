------------------------------ MODULE Coordinates ------------------------------
(***************************************************************************)
(* Screenshots and the positions that clients name in them: the geometry   *)
(* ControlService (service.py) remembers for all streams, scale_action     *)
(* (actions.py), target_size (imaging.py), and the mapping to SendInput's  *)
(* coordinates (inject.py).  Captures and moves run on worker threads.     *)
(*                                                                         *)
(* One axis of the desktop: a screen has an origin and a size in pixels,   *)
(* and is replaced when the session is resized.                            *)
(***************************************************************************)
EXTENDS ControlConstants, Integers

VARIABLES
    screen,     \* virtual_screen()
    resizes,    \* how often it has changed
    delivered,  \* _delivered: the size of the last screenshot, 0 for None
    latest,     \* history: the client it was made for
    turn,       \* turn[c]: the request of client c
    grabbed,    \* grabbed[c]: the size of the image that the thread has captured
    image,      \* image[c]: the size of the screenshot c looks at, 0 for none
    aim,        \* aim[c]: the position c has named in it
    target,     \* target[c]: that position scaled, as perform() was given it
    seen,       \* seen[c]: the screen for which it was scaled
    crossed,    \* history: clients whose geometry was no longer theirs
    hit         \* hit[c]: the pixel the cursor was moved to

vars == <<screen, resizes, delivered, latest, turn, grabbed, image, aim, target, seen, crossed, hit>>

\* No image is larger than a screen.
Sizes == UNION {0..s.size : s \in Screens}

CoordinatesTypeOK ==
    /\ screen \in Screens /\ resizes \in 0..MaxResizes
    /\ delivered \in Sizes /\ latest \in Clients \cup {NoClient}
    /\ turn \in [Clients -> {"idle", "grabbing", "grabbed", "acting", "moved"}]
    /\ \A f \in {grabbed, image, aim} : f \in [Clients -> Sizes]
    /\ target \in [Clients -> Nat]
    /\ seen \in [Clients -> Screens] /\ crossed \subseteq Clients
    /\ hit \in [Clients -> Int]

Init ==
    /\ screen \in Screens /\ resizes = 0
    /\ delivered = 0 /\ latest = NoClient
    /\ turn = [c \in Clients |-> "idle"]
    /\ grabbed = [c \in Clients |-> 0] /\ image = [c \in Clients |-> 0]
    /\ aim = [c \in Clients |-> 0] /\ target = [c \in Clients |-> 0]
    /\ seen = [c \in Clients |-> screen] /\ crossed = {}
    /\ hit = [c \in Clients |-> 0]

-----------------------------------------------------------------------------
Abs(n) == IF n < 0 THEN -n ELSE n

\* Python's round(a / b) for a >= 0: to the nearest integer, and a half to the even one.
Round(a, b) ==
    LET q == a \div b
        r == a % b
    IN IF 2 * r > b \/ (2 * r = b /\ q % 2 = 1) THEN q + 1 ELSE q

Least(a, b) == IF a < b THEN a ELSE b

\* Faulty: the image is as wide as it was asked for.
TargetAsAsked(size, width) == width

\* target_size never enlarges.
TargetSize(size, width) == Least(width, size)

\* _scale and scale_action.
Scale(x, size) == IF delivered = 0 THEN x ELSE Round(x * size, delivered)

\* What SendInput counts the virtual screen in.
MaxAbsolute == 65535

\* _absolute: x of a desktop pixel in 0..MaxAbsolute of the virtual screen.
Absolute(s, x) ==
    IF x < s.origin THEN 0 ELSE Least(MaxAbsolute, Round((x - s.origin) * MaxAbsolute, s.size - 1))

\* Where the desktop puts the cursor for it.
Pixel(s, dx) == s.origin + Round(dx * (s.size - 1), MaxAbsolute)

-----------------------------------------------------------------------------
Turn(c, t) == turn' = [turn EXCEPT ![c] = t]

Resize ==
    /\ resizes < MaxResizes /\ resizes' = resizes + 1
    /\ screen' \in Screens \ {screen}
    /\ UNCHANGED <<delivered, latest, turn, grabbed, image, aim, target, seen, crossed, hit>>

Ask(c) ==
    /\ turn[c] \in {"idle", "moved"} /\ Turn(c, "grabbing")
    /\ aim' = [aim EXCEPT ![c] = 0] /\ target' = [target EXCEPT ![c] = 0]
    /\ hit' = [hit EXCEPT ![c] = 0]
    /\ UNCHANGED <<screen, resizes, delivered, latest, grabbed, image, seen, crossed>>

\* The thread captures the screen, at one of the widths a client may ask for.
Grab(c) ==
    /\ turn[c] = "grabbing" /\ Turn(c, "grabbed")
    /\ \E width \in Widths : grabbed' = [grabbed EXCEPT ![c] = TargetSize(screen.size, width)]
    /\ UNCHANGED <<screen, resizes, delivered, latest, image, aim, target, seen, crossed, hit>>

\* Faulty: the native size is remembered, and not that of the image.
DeliverNative(c) ==
    /\ turn[c] = "grabbed" /\ Turn(c, "idle")
    /\ delivered' = screen.size /\ latest' = c
    /\ image' = [image EXCEPT ![c] = grabbed[c]]
    /\ grabbed' = [grabbed EXCEPT ![c] = 0]
    /\ UNCHANGED <<screen, resizes, aim, target, seen, crossed, hit>>

\* Its result is awaited, remembered and sent.
Deliver(c) ==
    /\ turn[c] = "grabbed" /\ Turn(c, "idle")
    /\ delivered' = grabbed[c] /\ latest' = c
    /\ image' = [image EXCEPT ![c] = grabbed[c]]
    /\ grabbed' = [grabbed EXCEPT ![c] = 0]
    /\ UNCHANGED <<screen, resizes, aim, target, seen, crossed, hit>>

\* An action arrives, is scaled, and is given to a thread.
Act(c) ==
    /\ turn[c] \in {"idle", "moved"} /\ image[c] > 0 /\ Turn(c, "acting")
    /\ \E x \in 0..image[c] - 1 :
        /\ aim' = [aim EXCEPT ![c] = x]
        /\ target' = [target EXCEPT ![c] = Scale(x, screen.size)]
    /\ seen' = [seen EXCEPT ![c] = screen]
    /\ crossed' = IF latest = c THEN crossed \ {c} ELSE crossed \cup {c}
    /\ UNCHANGED <<screen, resizes, delivered, latest, grabbed, image, hit>>

\* move_to
MoveTo(c) ==
    /\ turn[c] = "acting" /\ Turn(c, "moved")
    /\ hit' = [hit EXCEPT ![c] = Pixel(screen, Absolute(screen, target[c]))]
    /\ crossed' = IF screen = seen[c] THEN crossed ELSE crossed \cup {c}
    /\ UNCHANGED <<screen, resizes, delivered, latest, grabbed, image, aim, target, seen>>

Next == Resize \/ \E c \in Clients : Ask(c) \/ Grab(c) \/ Deliver(c) \/ Act(c) \/ MoveTo(c)

Spec == Init /\ [][Next]_vars

-----------------------------------------------------------------------------

\* The pixel that is hit is the one, on the screen of the moment, whose image c has
\* named: it is off by no more than the rounding, and on the screen.
OnTarget(c) ==
    LET at == hit[c] - seen[c].origin IN
    /\ at \in 0..seen[c].size - 1
    /\ 2 * Abs(at * image[c] - aim[c] * seen[c].size) <= 2 * image[c]

\* A client's position is hit, although screenshots of other widths are under way
\* and the screen changes, unless another client's screenshot was delivered after
\* its own, or the screen changed between scaling and moving.
ClickLands == \A c \in Clients : turn[c] = "moved" /\ c \notin crossed => OnTarget(c)

=============================================================================
