----------------------------- MODULE MCDialing -----------------------------
(* Dialing with ECH, over the pool with two dials, and with one where the    *)
(* pool may spin or DoH is direct; or with one dial, Warmup and relays.  ECH *)
(* and relays share nothing but the dial, and together they are too many    *)
(* states.                                                                   *)
EXTENDS Dialing, TLC

One == {CHOOSE d \in Dials : TRUE}

Ech(proxied, multiplex, dials) ==
    [ech |-> TRUE, relays |-> FALSE, proxied |-> proxied, multiplex |-> multiplex,
     dials |-> dials, target |-> 0]

MCSettings ==
    {Ech(TRUE, FALSE, Dials), Ech(TRUE, TRUE, One), Ech(FALSE, FALSE, One),
     [ech |-> FALSE, relays |-> TRUE, proxied |-> FALSE, multiplex |-> FALSE,
      dials |-> One, target |-> 1]}
=============================================================================
