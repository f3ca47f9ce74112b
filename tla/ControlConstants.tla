--------------------------- MODULE ControlConstants ---------------------------
(***************************************************************************)
(* The parameters of the modules of the control API.                       *)
(***************************************************************************)
EXTENDS Integers

CONSTANTS
    Openers,        \* HTTP requests that open a session, which bears their name
    Users,          \* HTTP requests that use one
    About,          \* About[r]: the session that r is about
    MaxSessions,    \* max_sessions
    Clients,        \* clients of the screen and its input
    Screens,        \* what the virtual screen may be
    Widths,         \* widths of screenshots that are asked for
    MaxResizes,     \* changes of the screen
    MaxRefusals,    \* SendInput calls that are not carried out, or not wholly
    Jobs,           \* requests for one operation each
    MaxBody         \* MAX_BODY and MAX_REQUEST_BODY, in parts

NoClient == "none"

ASSUME RequestsAssumption ==
    /\ Openers \cap Users = {} /\ "none" \notin Openers \cup Users
    /\ About \in [Users -> Openers]
ASSUME MaxSessionsAssumption == MaxSessions \in Nat
ASSUME ScreenAssumption ==
    /\ Screens \subseteq [origin : Int, size : Nat \ {0, 1}]
    /\ Widths \subseteq Nat \ {0}
ASSUME ClientsAssumption == NoClient \notin Clients \cup Jobs
ASSUME BoundsAssumption == MaxResizes \in Nat /\ MaxRefusals \in Nat /\ MaxBody \in Nat

=============================================================================
