--------------------------- MODULE MCPoolBilling ---------------------------
(* A client and its host, updates of the client that may overlap each other *)
(* and a reconnect, and a wallet that links the host meanwhile.             *)
EXTENDS PoolProps

Req(op, n, nonce) ==
    [op |-> op, node |-> n, account |-> None, conn |-> "c1", nonce |-> nonce,
     full |-> FALSE, kind |-> None, report |-> {}, num |-> 0]

Update(n, nonce, reported) == [Req("update", n, nonce) EXCEPT !.report = reported]

Connects == {Req("connect", "client", 1), [Req("connect", "host", 1) EXCEPT !.full = TRUE]}

TwoUpdates ==
    Connects \cup {Update("client", 2, {"host"}), Update("client", 3, {"host"})}

LinkedUpdates == TwoUpdates \cup {[Req("addNode", "host", 1) EXCEPT !.account = "wallet"]}

\* Clients may connect with a balance of this and more.
Overdraft == -1
=============================================================================
