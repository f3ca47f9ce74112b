---------------------------- MODULE MCFrameWriter ----------------------------
(***************************************************************************)
(* A pump with a DATA frame of three chunks, another stream's DATA frame   *)
(* of two, and a CLOSE of one.                                             *)
(***************************************************************************)
EXTENDS FrameWriter

MCWriters == {"pump", "other", "close"}
MCChunks == [w \in MCWriters |-> CASE w = "pump" -> 3 [] w = "other" -> 2 [] w = "close" -> 1]

\* Of the other modules of the channel.
MCMessages == <<1>>

=============================================================================
