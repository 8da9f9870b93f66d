--------------------------- MODULE MCStreamManager ---------------------------
(***************************************************************************)
(* StreamManager on a small ID space, with a history variable: since[id]   *)
(* is the number of streams allocated after the last one that got ID id.   *)
(***************************************************************************)
EXTENDS StreamManager

VARIABLE since

\* Counting stops at NumIds: the ID was never used, or long ago.
Older(n) == IF n < NumIds THEN n + 1 ELSE n

MCInit == Init /\ since = [id \in Ids |-> NumIds]

\* The ID that this step hands out, if any.
Fresh == DOMAIN streams' \ DOMAIN streams

MCNext ==
    /\ Next
    /\ since' = [id \in Ids |-> IF Fresh = {} THEN since[id]
                                ELSE IF id \in Fresh THEN 0 ELSE Older(since[id])]

MCSpec == MCInit /\ [][MCNext]_<<vars, since>> /\ Fairness

\* A stream ID is handed out again only after NumIds - MaxStreams other streams
\* have been opened since it was last (251 with the default limit of 5): the
\* round-robin hint is what keeps the worker's late DATA and CLOSE frames of a
\* short tunnel from reaching the next owner of its ID, as frames carry nothing
\* but the ID.
ReuseDistance ==
    [][\A id \in Fresh : since[id] >= NumIds - MaxStreams]_<<vars, since>>
=============================================================================
