----------------------------- MODULE StreamLease -----------------------------
(***************************************************************************)
(* What a StreamManager promises, without bitmap, hint, table or counters: *)
(* while the connection is open an owner may hold one stream ID, no ID has *)
(* two owners, at most MaxStreams IDs are held, and when the connection is *)
(* closed nothing is handed out any more and all the IDs still held are    *)
(* taken back at once.                                                     *)
(***************************************************************************)
EXTENDS Integers, FiniteSets

CONSTANTS Ids, NoId, MaxStreams, Owners

VARIABLES held, open

Holders == {o \in Owners : held[o] # NoId}

Init ==
    /\ held = [o \in Owners |-> NoId]
    /\ open = TRUE

Acquire(o) ==
    /\ open
    /\ held[o] = NoId
    /\ Cardinality(Holders) < MaxStreams
    /\ \E id \in Ids :
          /\ \A p \in Owners : held[p] # id
          /\ held' = [held EXCEPT ![o] = id]
    /\ UNCHANGED open

\* The owner gives its ID back, or another one does that has held it before.
Release(o) ==
    /\ held[o] # NoId
    /\ held' = [held EXCEPT ![o] = NoId]
    /\ UNCHANGED open

Shut ==
    /\ open
    /\ open' = FALSE
    /\ UNCHANGED held

Revoke ==
    /\ ~open
    /\ held' = [o \in Owners |-> NoId]
    /\ UNCHANGED open

Next ==
    \/ \E o \in Owners : Acquire(o) \/ Release(o)
    \/ Shut
    \/ Revoke

Spec == Init /\ [][Next]_<<held, open>>
=============================================================================
