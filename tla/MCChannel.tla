------------------------------ MODULE MCChannel ------------------------------
(***************************************************************************)
(* The components below the frames, checked one at a time: `part` names    *)
(* the one that runs, and the others keep their initial states.            *)
(*   "runtime": the mstsc plugin, its channels and their threads           *)
(*   "wts":     the WTS transport's reader, writer and close               *)
(*   "frames":  frames cut into chunks, or written whole by senders that   *)
(*              may be cancelled inside the write                          *)
(***************************************************************************)
EXTENDS ChannelRuntime, WtsChannel, FrameWriter

VARIABLE part

\* A pump with a DATA frame of three chunks, another stream's DATA frame of two,
\* and a CLOSE of one.
MCWriters == {"pump", "other", "close"}
MCChunks == [w \in MCWriters |-> CASE w = "pump" -> 3 [] w = "other" -> 2 [] w = "close" -> 1]

\* Two messages have one length, and the last is longer than the limit of 3.
MCMessages == <<3, 2, 2, 1, 4>>

MCInit ==
    /\ Init /\ WtsInit /\ FrameInit
    /\ part \in {"runtime", "wts", "frames"} /\ (unit = "frame" => part = "frames")

RuntimeStep == part = "runtime" /\ Next /\ UNCHANGED <<part, wtsVars, frameVars>>
WtsStep == part = "wts" /\ WtsNext /\ UNCHANGED <<part, vars, frameVars>>
FramesStep == part = "frames" /\ FrameNext /\ UNCHANGED <<part, vars, wtsVars>>

MCNext == RuntimeStep \/ WtsStep \/ FramesStep

\* The fairness of each component, while it is the one that runs.
MCFairness ==
    /\ WF_vars(part = "runtime" /\ Callback)
    /\ \A k \in Channels : WF_vars(part = "runtime" /\ Thread(k))
    /\ WF_wtsVars(part = "wts" /\ Reader) /\ WF_wtsVars(part = "wts" /\ WriteReturns)
    /\ SF_wtsVars(part = "wts" /\ WriteLock) /\ SF_wtsVars(part = "wts" /\ CloseHandle)
    /\ WF_frameVars(part = "frames" /\ FrameProgress)

MCSpec == MCInit /\ [][MCNext]_<<part, vars, wtsVars, frameVars>> /\ MCFairness

-----------------------------------------------------------------------------

\* Every variable has its type, in the component that runs.
MCTypeOK ==
    /\ part = "runtime" => TypeOK
    /\ part = "wts" => WtsTypeOK
    /\ part = "frames" => FrameTypeOK

=============================================================================
