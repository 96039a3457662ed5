------------------------------ MODULE MCBadger ------------------------------
(* A client and a host, one wallet, and two goroutines that call the store. *)
EXTENDS BadgerProps, TLC

CONSTANTS n1, n2, a1, geth

MCCalls ==
    {[op |-> "nonce", id |-> a1, nonce |-> 0],
     [op |-> "nonce", id |-> n1, nonce |-> 1],
     [op |-> "addNodeBalance", node |-> n1, credit |-> 1],
     [op |-> "addAccountBalance", account |-> a1, credit |-> -1],
     [op |-> "addAccountNode", account |-> a1, node |-> n1],
     [op |-> "setNode", node |-> n1, isHost |-> FALSE, kind |-> None],
     [op |-> "setNode", node |-> n2, isHost |-> TRUE, kind |-> geth],
     [op |-> "updateNodePeers", node |-> n1, report |-> {n2}]}

Symmetry == Permutations(Caller)
=============================================================================
