----------------------------- MODULE MCResolver -----------------------------
(* Resolver with two servers; with one and Warmup; and for the ECH manager    *)
(* through the pool, with one or two streams on a connection, and with one    *)
(* and without multiplexing.                                                  *)
EXTENDS Resolver, TLC

Direct(n, ops, domains) ==
    [proxied |-> FALSE, multiplex |-> TRUE, limit |-> 1, servers |-> n, ops |-> ops, domains |-> domains]

MCSettings ==
    {Direct(2, {"ips"}, 0), Direct(1, {"any"}, 2)}
    \union {[Direct(1, {"ech"}, 0) EXCEPT !.proxied = TRUE, !.multiplex = x[1], !.limit = x[2]] :
              x \in {<<TRUE, 1>>, <<TRUE, 2>>, <<FALSE, 1>>}}
=============================================================================
