--------------------------- MODULE ChannelConstants ---------------------------
(***************************************************************************)
(* The parameters of the modules of the channel and its transports.        *)
(***************************************************************************)
EXTENDS Integers, Sequences

CONSTANTS
    Writers,        \* tasks, each sending one frame
    Chunks,         \* Chunks[w]: channel messages the frame of w is cut into
    Units,          \* what one channel write may take: "chunk", "frame"
    SharedBuffer,   \* the chunk is staged in one buffer per channel (WTS)
    CancelRunning,  \* a task may be cancelled while its thread writes chunks
    None,           \* no task, or an empty staging buffer
    MaxChannels,    \* channels the agent opens in one connection
    MaxData,        \* messages the stack delivers
    MaxQueue,       \* messages the queue takes, by count or by bytes
    Messages,       \* Messages[i]: chunks of the i-th message the stack receives
    MaxMessage,     \* MAX_SVC_MESSAGE, in chunks
    MaxWrites,      \* chunks written
    MaxLost         \* chunks the stack loses

ASSUME ChunksAssumption == Chunks \in [Writers -> Nat \ {0}]
ASSUME UnitsAssumption == Units \subseteq {"chunk", "frame"}
ASSUME NoneAssumption == None \notin Writers
ASSUME FlagAssumption == SharedBuffer \in BOOLEAN /\ CancelRunning \in BOOLEAN
ASSUME RuntimeAssumption ==
    MaxChannels \in Nat \ {0} /\ MaxData \in Nat \ {0} /\ MaxQueue \in Nat \ {0}
ASSUME MessagesAssumption == Messages \in Seq(Nat \ {0})
ASSUME WtsAssumption == MaxMessage \in Nat /\ MaxWrites \in Nat /\ MaxLost \in Nat

=============================================================================
