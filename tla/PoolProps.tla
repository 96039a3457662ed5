----------------------------- MODULE PoolProps -----------------------------
(* What the handlers of Pool guarantee, and what they do not. *)
EXTENDS Pool

\* What Update has credited to hosts and not yet debited from its client.
Outstanding(r) ==
    IF handler[r].pc \in {"crediting", "debiting"}
    THEN handler[r].credit * Cardinality(handler[r].peers \ handler[r].todo)
    ELSE 0

\* Billing neither creates nor destroys credit: at every moment, the credit
\* of all accounts and trials (Stats().TotalCredit) is what the Update
\* handlers in flight have credited to hosts and not yet debited from their
\* client.  With no Update in flight the sum is zero, however updates,
\* reconnects and trial migrations (AddAccountNode) of several nodes interleave.
ZeroSum == TotalCredit = MapThenSumSet(Outstanding, Request)

\* With a minimum, OnUpdate may fail between the credit and the debit
\* (perinterval.go:95), and ZeroSum is lost, but to one side only: all purses
\* together never hold less than what is still to be debited.
NoCreditLost == TotalCredit >= MapThenSumSet(Outstanding, Request)

\* The peers that an Update handler read with NodePeers are still in the store
\* when OnUpdate credits them: the error of AddNodeBalance that OnUpdate drops
\* (perinterval.go:87) cannot occur, or total would charge the client for
\* credit that no host received.
CreditCannotFail ==
    \A r \in Request : handler[r].pc \in {"active", "crediting"} =>
        \A p \in handler[r].peers : Registered(p)

\* A signed request runs at most once: once its handler has begun, no
\* redelivery begins it again, whatever was delivered in between.
NoReplay ==
    [][\A r \in Request :
          r.op # "peer" /\ handler[r].pc # "idle" /\ handler'[r] # handler[r]
              => handler'[r].pc # "verified"]_vars

\* A remote is only ever entered for a host that connected, with a verified
\* signature, over that very connection: vipnode_whitelist calls meant for a
\* host reach nobody else, whoever reconnects or disconnects meanwhile.
RemoteAuthenticated ==
    \A n \in Node, c \in Conn : remoteHosts[n] = c =>
        \E r \in Request :
            /\ r.node = n /\ r.conn = c /\ r.full
            /\ handler[r].pc \notin {"idle", "verified", "rejected"}

\* Every connection is used by one host, as agents do.
OneNodePerConn ==
    \A r1, r2 \in Request : r1.full /\ r2.full /\ r1.conn = r2.conn => r1.node = r2.node

\* remoteNodeLookup finds every remote that remoteHosts holds, so that
\* CloseRemote can remove it when its connection ends (service.go:60, "Reverse
\* lookup"); reconnects of the host over other connections do not break that.
\* It takes connections that serve one host each.
RemoteCanBeClosed ==
    OneNodePerConn =>
        \A n \in Node, c \in Conn : remoteHosts[n] = c => remoteNodeLookup[c] = n

\* A host that requestHosts returns has whitelisted the caller, over a
\* connection on which it had authenticated itself, and is neither the caller
\* nor one of the peers the caller already had when the request began.
ReturnedHostTrusts ==
    \A r \in Request : \A n \in Accepted(r) :
        /\ n # r.node
        /\ <<handler[r].via[n], r.node>> \in trusted
        /\ \E h \in Request : h.node = n /\ h.conn = handler[r].via[n] /\ h.full
        /\ handler[r].pc = "calling" => n \notin handler[r].peers

\* Every request that passed verification is answered: hosts that vanish
\* in the middle of a whitelist call cannot hold a handler forever.
RequestsAnswered ==
    \A r \in Request : handler[r].pc # "idle" ~> handler[r].pc \in Final
-----------------------------------------------------------------------------
(* What a comment says, and the code does not do. *)

\* service.go:82, "NumRemotes returns the number of remote hosts that the pool
\* is currently maintaining": a host whose newest connect succeeded, over a
\* connection that is still open, is one of them.
LiveHostMaintained ==
    \A r \in Request :
        /\ r.op = "connect" /\ r.full /\ handler[r].pc = "done"
        /\ conn[r.conn] = "open" /\ nonces[r.node] = r.nonce
        => remoteHosts[r.node] # None

=============================================================================
