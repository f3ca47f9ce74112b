------------------------- MODULE SlidingWindowProofs -------------------------
(***************************************************************************)
(* What the abstract window guarantees for every window size.  MuxStreams  *)
(* inherits it for each stream through ImplementsWindow.                   *)
(***************************************************************************)
EXTENDS SlidingWindow, TLAPS

\* The order of the four counters and the window is kept by each of the four
\* steps; InOrder needs no strengthening.
THEOREM WindowInOrder ==
    ASSUME Window \in Nat
    PROVE  Spec => []InOrder
<1>1. Init => InOrder
  BY DEF Init, InOrder
<1>2. InOrder /\ [Next]_vars => InOrder'
  <2> SUFFICES ASSUME InOrder, [Next]_vars PROVE InOrder'
    OBVIOUS
  <2> USE DEF InOrder
  <2>1. ASSUME NEW n \in 1..Window, Send(n) PROVE InOrder'
    BY <2>1 DEF Send
  <2>2. ASSUME NEW n \in 1..Window, Deliver(n) PROVE InOrder'
    BY <2>2 DEF Deliver
  <2>3. ASSUME NEW n \in 1..Window, Take(n) PROVE InOrder'
    BY <2>3 DEF Take
  <2>4. ASSUME NEW n \in 1..Window, Credit(n) PROVE InOrder'
    BY <2>4 DEF Credit
  <2>5. CASE UNCHANGED vars
    BY <2>5 DEF vars
  <2> QED
    BY <2>1, <2>2, <2>3, <2>4, <2>5 DEF Next
<1> QED
  BY <1>1, <1>2, PTL DEF Spec

\* The receive buffer of one stream never exceeds the window, although nothing
\* in the specification limits Deliver: credit is returned only for bytes read.
THEOREM WindowBuffer ==
    ASSUME Window \in Nat
    PROVE  Spec => []BufferBound
<1>1. InOrder => BufferBound
  BY DEF InOrder, BufferBound
<1> QED
  BY <1>1, WindowInOrder, PTL

=============================================================================
