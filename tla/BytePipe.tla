------------------------------ MODULE BytePipe ------------------------------
(***************************************************************************)
(* What the download direction of a tunnel promises, whoever carries it:   *)
(* the client reads the frames in the order in which the far end sent      *)
(* them, nothing before the SOCKS reply, nothing after the socket is shut, *)
(* and without a hole unless the pipe has declared itself lossy.           *)
(***************************************************************************)
EXTENDS Naturals, Sequences

VARIABLES
    sent,   \* how many frames the far end has sent
    got,    \* the numbers of the frames that the client was given
    open,   \* the client was told that the tunnel is open
    shut,   \* the client's socket is closed
    lossy   \* a frame was given up

pipe == <<sent, got, open, shut, lossy>>

Init == sent = 0 /\ got = <<>> /\ open = FALSE /\ shut = FALSE /\ lossy = FALSE

Open == ~open /\ ~shut /\ open' = TRUE /\ UNCHANGED <<sent, got, shut, lossy>>

Send == sent' = sent + 1 /\ UNCHANGED <<got, open, shut, lossy>>

Deliver ==
    /\ open /\ ~shut
    /\ \E n \in 1 .. sent :
          /\ \A i \in DOMAIN got : got[i] < n
          /\ lossy \/ n = Len(got) + 1
          /\ got' = Append(got, n)
    /\ UNCHANGED <<sent, open, shut, lossy>>

Lose == ~lossy /\ lossy' = TRUE /\ UNCHANGED <<sent, got, open, shut>>

Shut == ~shut /\ shut' = TRUE /\ UNCHANGED <<sent, got, open, lossy>>

Next == Open \/ Send \/ Deliver \/ Lose \/ Shut

Spec == Init /\ [][Next]_pipe
=============================================================================
