---------------------------- MODULE MCPoolHosts ----------------------------
(* Hosts that connect, reconnect and vanish while a client asks for hosts. *)
EXTENDS PoolProps

Req(op, n, c, nonce) ==
    [op |-> op, node |-> n, account |-> None, conn |-> c, nonce |-> nonce,
     full |-> FALSE, kind |-> None, report |-> {}, num |-> 1]

Host(n, c, nonce) == [Req("connect", n, c, nonce) EXCEPT !.full = TRUE]

\* A host reconnects over c2 while c1 is torn down.  A client asks for hosts,
\* and so does the host itself, again and again.
ReconnectRequests ==
    {Host("host", "c1", 1), Host("host", "c2", 2),
     Req("client", "client", "c2", 1), Req("peer", "host", "c2", 0)}

=============================================================================
