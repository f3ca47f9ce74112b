------------------------------ MODULE InputEvents ------------------------------
(***************************************************************************)
(* Keys and buttons: perform (inject.py) as the sequence of its SendInput  *)
(* calls.  Every action runs on a thread of its own (service.py,           *)
(* backend.py), so the calls of two clients interleave.  A call may be     *)
(* refused, or deliver only the first of its events; _send then raises.    *)
(***************************************************************************)
EXTENDS ControlConstants, Integers, Sequences, SequencesExt

VARIABLES
    todo,       \* todo[c]: the calls that the action of c has still to make
    held,       \* keys and buttons that are down
    lasting,    \* of these, the ones an action is meant to leave down
    pressed,    \* history: pressed[c]: keys that the action of c has put down
    refusals,   \* calls refused so far
    hurt        \* history: a refusal has hit where the code does not recover

vars == <<todo, held, lasting, pressed, refusals, hurt>>

\* Modifiers, keys (S needs shift), buttons, and the packet of a typed character.
Keys == {"ctrl", "shift", "s", "left", "packet"}
Shift == "shift"
Batch == 4          \* 512: how many events of type_text go into one call

-----------------------------------------------------------------------------
Down(k) == <<k, "down">>
Up(k) == <<k, "up">>
Stroke(k) == <<Down(k), Up(k)>>
Downs(ks) == [i \in DOMAIN ks |-> Down(ks[i])]
Ups(ks) == LET back == Reverse(ks) IN [i \in DOMAIN back |-> Up(back[i])]

\* A call: its place in the action, and its events; a move has none that count.
Call(place, events) == [place |-> place, events |-> events]
Move == Call("plain", <<>>)
Calls(place, events) == [i \in DOMAIN events |-> Call(place, <<events[i]>>)]

\* press_combination: shift comes before the first key that needs it.
Codes(parts) ==
    LET codes == [i \in DOMAIN parts |-> IF parts[i] = "S" THEN "s" ELSE parts[i]]
        needing == {i \in DOMAIN parts :
                       parts[i] = "S" /\ \A j \in 1..i - 1 : parts[j] \notin {"S", Shift}}
    IN IF needing = {} THEN codes
       ELSE LET first == CHOOSE i \in needing : TRUE
            IN SubSeq(codes, 1, first - 1) \o <<Shift>> \o SubSeq(codes, first, Len(codes))

PressCombination(parts) == <<Call("plain", Downs(Codes(parts)) \o Ups(Codes(parts)))>>

\* type_text: n characters, one call for each Batch of events.
TypeText(n) ==
    LET events == [i \in 1..2 * n |-> Stroke("packet")[((i - 1) % 2) + 1]]
    IN [j \in 1..(2 * n + Batch - 1) \div Batch |->
            Call("plain", SubSeq(events, Batch * (j - 1) + 1,
                                 IF Batch * j < 2 * n THEN Batch * j ELSE 2 * n))]

\* _with_modifiers: the keys are put down before the try.
WithModifiers(keys, body) ==
    Calls("plain", Downs(keys)) \o body \o Calls("finally", Ups(keys))

\* click, count times
Click(button, count) == [i \in 1..count |-> Call("try", Stroke(button))]

Scroll(amount) == [i \in 1..amount |-> Call("try", <<>>)]

\* What perform does for each action.
Perform == [
    mouse_move |-> <<Move>>,
    left_click |-> <<Move>> \o WithModifiers(<<"ctrl", "shift">>, Click("left", 1)),
    double_click |-> <<Move>> \o WithModifiers(<<>>, Click("left", 2)),
    left_mouse_down |-> <<Move, Call("lasting", <<Down("left")>>)>>,
    left_mouse_up |-> <<Move, Call("plain", <<Up("left")>>)>>,
    left_click_drag |-> <<Move, Call("plain", <<Down("left")>>), Call("try", <<>>),
                          Call("finally", <<Up("left")>>)>>,
    scroll |-> <<Move>> \o WithModifiers(<<"ctrl">>, Scroll(2)),
    key |-> PressCombination(<<"ctrl", "S">>),
    type |-> TypeText(3),
    hold_key |-> <<Call("plain", <<Down("shift")>>), Call("finally", <<Up("shift")>>)>>]

-----------------------------------------------------------------------------
Released(events) == {k \in Keys : Up(k) \in ToSet(events)}

\* The keys that are down after these events: those that were and are not released, and
\* those that are put down and not released later.
After(events, down) ==
    (down \ Released(events))
        \cup {k \in Keys : \E i \in DOMAIN events :
                 events[i] = Down(k) /\ \A j \in i + 1..Len(events) : events[j] # Up(k)}

\* What a try goes on with: its finally, with which every action that has one ends.
Finally(calls) ==
    LET body == CHOOSE n \in 0..Len(calls) :
                    \A i \in DOMAIN calls : calls[i].place = "finally" <=> i > n
    IN SubSeq(calls, body + 1, Len(calls))

InputTypeOK ==
    /\ \A c \in Clients : \A i \in DOMAIN todo[c] :
        todo[c][i].place \in {"plain", "try", "finally", "lasting"}
    /\ held \subseteq Keys /\ lasting \subseteq Keys
    /\ pressed \in [Clients -> SUBSET Keys]
    /\ refusals \in 0..MaxRefusals /\ hurt \in BOOLEAN

Init ==
    /\ todo = [c \in Clients |-> <<>>]
    /\ held = {} /\ lasting = {} /\ pressed = [c \in Clients |-> {}]
    /\ refusals = 0 /\ hurt = FALSE

\* _action hands the action to a thread.
Begin(c) ==
    /\ todo[c] = <<>>
    /\ \E name \in DOMAIN Perform : todo' = [todo EXCEPT ![c] = Perform[name]]
    /\ pressed' = [pressed EXCEPT ![c] = {}]
    /\ UNCHANGED <<held, lasting, refusals, hurt>>

Deliver(c, events) ==
    /\ held' = After(events, held)
    /\ pressed' = [pressed EXCEPT ![c] = After(events, @)]

\* _send: the whole array is delivered.
Send(c) ==
    /\ todo[c] # <<>>
    /\ LET call == Head(todo[c]) IN
        /\ Deliver(c, call.events)
        /\ lasting' = (lasting \ Released(call.events))
                        \cup (IF call.place = "lasting" THEN After(call.events, {}) ELSE {})
    /\ todo' = [todo EXCEPT ![c] = Tail(@)]
    /\ UNCHANGED <<refusals, hurt>>

\* Faulty: there is no try around the body.
RefuseNoFinally(c) ==
    /\ todo[c] # <<>> /\ refusals < MaxRefusals
    /\ refusals' = refusals + 1
    /\ Deliver(c, <<>>)
    /\ todo' = [todo EXCEPT ![c] = <<>>]
    /\ hurt' = (hurt \/ (Head(todo[c]).place # "try" /\ pressed[c] # {}))
    /\ UNCHANGED lasting

\* _send raises.  A try goes on with its finally, whose own calls may be refused.
Refuse(c) ==
    /\ todo[c] # <<>> /\ refusals < MaxRefusals
    /\ refusals' = refusals + 1
    /\ LET call == Head(todo[c])
           whole == Len(call.events)
       IN /\ \E n \in 0..(IF whole = 0 THEN 0 ELSE whole - 1) :
                /\ Deliver(c, SubSeq(call.events, 1, n))
                /\ hurt' = (hurt \/ After(SubSeq(call.events, 1, n), {}) # {}
                                 \/ (call.place # "try" /\ pressed[c] # {}))
          /\ todo' = [todo EXCEPT ![c] =
                IF call.place = "try" THEN Finally(@) ELSE <<>>]
    /\ UNCHANGED lasting

Next == \E c \in Clients : Begin(c) \/ Send(c) \/ Refuse(c)

Spec == Init /\ [][Next]_vars

-----------------------------------------------------------------------------

\* When no action is under way nothing is down but what an action is meant to
\* leave down, although actions interleave and calls of their bodies are refused;
\* a call that is cut in its middle, and one refused between a press and its try or
\* in a finally, may leave keys down, and those are excluded by `hurt`.
NothingHeld ==
    (\A c \in Clients : todo[c] = <<>>) /\ ~hurt => held \subseteq lasting

=============================================================================
