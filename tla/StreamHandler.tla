--------------------------- MODULE StreamHandler ----------------------------
(***************************************************************************)
(* The contract between the pool and one tunnel, which is the StreamHandler *)
(* that the tunnel registers: from RegisterStreamHandler on, either the     *)
(* tunnel takes its handler back, or the connection is taken from under it; *)
(* then OnClose is called, once, and nothing else happens any more.         *)
(***************************************************************************)
VARIABLE handler

Init == handler = "none"

Register == handler = "none" /\ handler' = "registered"

\* No stream is found for the tunnel, or its connection has been closed before
\* it registers.
Refuse == handler = "none" /\ handler' = "gone"

Unregister == handler = "registered" /\ handler' = "gone"

\* Its connection is retired or lost; OnClose is due.
Detach == handler = "registered" /\ handler' = "notify"

OnClose == handler = "notify" /\ handler' = "gone"

Next == Register \/ Refuse \/ Unregister \/ Detach \/ OnClose

Spec == Init /\ [][Next]_handler
=============================================================================
