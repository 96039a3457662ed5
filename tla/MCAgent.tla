------------------------------ MODULE MCAgent ------------------------------
(* Two hosts, one of them on a loopback address, a client and another peer. *)
EXTENDS Agent

CONSTANTS h1, h2, c, x, ip, lo1, lo2

MCHostAddr == [h \in {h1, h2} |-> IF h = h1 THEN ip ELSE lo1]

MCConfig == {g \in [overload : BOOLEAN, strict : BOOLEAN, static : BOOLEAN, numHosts : {1, 3}] :
                /\ g.static => g.strict /\ ~g.overload
                /\ g.static \/ g.overload => g.numHosts = 3}
=============================================================================
