-------------------------------- MODULE Pool --------------------------------
(***************************************************************************)
(* pool/service.go: the RPC handlers of VipnodePool, with the balance      *)
(* manager of pool/balance/perinterval.go, over the memory store.          *)
(*                                                                         *)
(* jsonrpc2.Remote.Serve runs every request in a goroutine of its own, so  *)
(* handlers interleave at every call of the store and at every section     *)
(* that holds VipnodePool.mu.  A step of a handler is the code between two *)
(* such points.  A request may be delivered any number of times and in any *)
(* order; the nonce check decides.                                         *)
(***************************************************************************)
EXTENDS MemoryStore

CONSTANTS Conn,              \* websocket connections: the jsonrpc2.Remote of each
          Request,           \* the requests that nodes and wallets send
          MaxRequestHosts,   \* VipnodePool.MaxRequestHosts, 0 is unlimited
          Interval,          \* payPerInterval.Interval, in clock ticks
          CreditPerInterval, \* payPerInterval.CreditPerInterval
          MinBalance         \* payPerInterval.MinBalance, None when "off"

\* connect also stands for the deprecated vipnode_host, which calls connect
\* with IsFullNode set; client is the deprecated vipnode_client; addNode is
\* pool_addNode, signed by a wallet.  num is what PeerRequest.Num holds in the agent's
\* calls; a negative one makes memoryStore.ActiveHosts panic (make with a negative
\* capacity), which is not modelled.
Op == {"connect", "client", "update", "peer", "addNode"}

RequestType == [op : Op, node : Node, account : Account \cup {None}, conn : Conn,
                nonce : Nat, full : BOOLEAN, kind : Kind \cup {None},
                report : SUBSET Node, num : Nat]

ASSUME PoolAssumption ==
    /\ IsFiniteSet(Node) /\ IsFiniteSet(Account) /\ IsFiniteSet(Request)
    /\ None \notin Conn
    /\ Request \subseteq RequestType
    /\ \A r \in Request : r.op = "addNode" => r.account \in Account
    /\ \A r \in Request : r.op = "client" => ~r.full
    /\ MaxRequestHosts \in Nat
    /\ Interval \in Nat \ {0}
    /\ CreditPerInterval \in Nat \ {0}
    /\ MinBalance \in Int \cup {None}

VARIABLES conn,              \* the read loop of each connection
          remoteHosts,       \* VipnodePool.remoteHosts
          remoteNodeLookup,  \* VipnodePool.remoteNodeLookup
          trusted,           \* the clients that the agent behind a connection whitelisted
          handler            \* the goroutine that serves a request

remoteVars == <<remoteHosts, remoteNodeLookup>>
poolVars == <<conn, remoteHosts, remoteNodeLookup, trusted, handler>>
vars == <<storeVars, poolVars>>

CallState == {"none", "sent", "served", "accepted", "error"}

PC == {"idle", "verified",
       "connecting", "saved",                                     \* connect
       "got", "updated", "active", "crediting", "debiting",       \* Update
       "requesting", "skipping", "candidates", "calling",         \* requestHosts
       "done", "rejected", "failed"}

Final == {"done", "rejected", "failed"}

HandlerRecord ==
           [pc : PC,
            seen : Int,            \* the LastSeen that was read or will be written
            isHost : BOOLEAN,      \* nodeBeforeUpdate.IsHost
            peers : SUBSET Node,   \* active peers (Update), skipPeers (requestHosts)
            todo : SUBSET Node,    \* peers to credit, or candidate hosts
            credit : Int,          \* the credit of one peer
            call : [Node -> CallState],        \* the vipnode_whitelist calls
            via : [Node -> Conn \cup {None}]]  \* and the remotes they went to

\* Every call went to some remote.
Handler == {h \in HandlerRecord : \A n \in Node : h.call[n] # "none" => h.via[n] # None}

\* A handler without locals, and with the given outcome of its calls.
Cleared(pc, call, via) ==
    [pc |-> pc, seen |-> 0, isHost |-> FALSE, peers |-> {}, todo |-> {}, credit |-> 0,
     call |-> call, via |-> via]

Fresh(pc) == Cleared(pc, [n \in Node |-> "none"], [n \in Node |-> None])

PoolTypeOK ==
    /\ StoreTypeOK
    /\ conn \in [Conn -> {"open", "closing", "closed"}]
    /\ remoteHosts \in [Node -> Conn \cup {None}]
    /\ remoteNodeLookup \in [Conn -> Node \cup {None}]
    /\ trusted \subseteq Conn \X Node
    /\ handler \in [Request -> Handler]

Init ==
    /\ StoreInit
    /\ conn = [c \in Conn |-> "open"]
    /\ remoteHosts = [n \in Node |-> None]
    /\ remoteNodeLookup = [c \in Conn |-> None]
    /\ trusted = {}
    /\ handler = [r \in Request |-> Fresh("idle")]

At(r, pc) == handler[r].pc = pc

\* The goroutine of r goes on, as h.
Become(r, h) == handler' = [handler EXCEPT ![r] = h]

Goto(r, pc) == Become(r, [handler[r] EXCEPT !.pc = pc])

\* The handler returns: its locals are gone, except the result of its calls.
Return(r, pc) == Become(r, Cleared(pc, handler[r].call, handler[r].via))
-----------------------------------------------------------------------------
(* Connections: server.ServeHTTP and CloseRemote. *)

\* remote.Serve returns; handlers that it started keep running.
Disconnect(c) ==
    /\ conn[c] = "open"
    /\ conn' = [conn EXCEPT ![c] = "closing"]
    /\ UNCHANGED <<storeVars, remoteVars, trusted, handler>>

\* onDisconnect.  Whatever remote the node has by now is deleted with it.
CloseRemote(c) ==
    /\ conn[c] = "closing"
    /\ conn' = [conn EXCEPT ![c] = "closed"]
    /\ \/ /\ remoteNodeLookup[c] = None
          /\ UNCHANGED remoteVars
       \/ /\ remoteNodeLookup[c] # None
          /\ remoteHosts' = [remoteHosts EXCEPT ![remoteNodeLookup[c]] = None]
          /\ remoteNodeLookup' = [remoteNodeLookup EXCEPT ![c] = None]
    /\ UNCHANGED <<storeVars, trusted, handler>>
-----------------------------------------------------------------------------
(* Receiving a request. *)

Signer(r) == IF r.op = "addNode" THEN r.account ELSE r.node

\* verify: a signed request passes if its nonce does.  A request that fails
\* is answered with VerifyFailedError and changes nothing.
Verify(r) ==
    /\ r.op # "peer"
    /\ conn[r.conn] = "open"
    /\ CheckAndSaveNonce(Signer(r), r.nonce)
    /\ Become(r, Fresh("verified"))
    /\ UNCHANGED <<conn, remoteVars, trusted>>

\* Peer does not verify: the same request can be served again.
Peer(r) ==
    /\ r.op = "peer"
    /\ conn[r.conn] = "open"
    /\ handler[r].pc \in {"idle"} \cup Final
    /\ Become(r, Fresh("requesting"))
    /\ UNCHANGED <<storeVars, conn, remoteVars, trusted>>

\* PaymentService.AddNode
AddNode(r) ==
    /\ r.op = "addNode" /\ At(r, "verified")
    /\ \/ AddAccountNode(r.account, r.node) /\ Return(r, "done")
       \/ ~Registered(r.node) /\ Return(r, "failed") /\ UNCHANGED storeVars
    /\ UNCHANGED <<conn, remoteVars, trusted>>
-----------------------------------------------------------------------------
(* connect: VipnodePool.Connect, Host and Client. *)

\* Mutant: the remote of a host is recorded under its node only.
RegisterForwardOnly(r) ==
    /\ remoteHosts' = [remoteHosts EXCEPT ![r.node] = r.conn]
    /\ UNCHANGED remoteNodeLookup

\* The section of connect that holds VipnodePool.mu.
Register(r) ==
    /\ remoteHosts' = [remoteHosts EXCEPT ![r.node] = r.conn]
    /\ remoteNodeLookup' = [remoteNodeLookup EXCEPT ![r.conn] = r.node]

\* Mutant: the remote is registered before the request is checked.
ConnectRejectLate(r) ==
    /\ r.op \in {"connect", "client"} /\ At(r, "verified")
    /\ Return(r, "rejected")
    /\ IF r.full THEN Register(r) ELSE UNCHANGED remoteVars
    /\ UNCHANGED <<storeVars, conn, trusted>>

\* Wrong network, no reverse service in the context, or a bad node URI.
ConnectReject(r) ==
    /\ r.op \in {"connect", "client"} /\ At(r, "verified")
    /\ Return(r, "rejected")
    /\ UNCHANGED <<storeVars, conn, remoteVars, trusted>>

\* The node is stamped with the time; a host's remote is registered.
ConnectRemote(r) ==
    /\ r.op \in {"connect", "client"} /\ At(r, "verified")
    /\ Become(r, [handler[r] EXCEPT !.pc = "connecting", !.seen = now])
    /\ IF r.full THEN Register(r) ELSE UNCHANGED remoteVars
    /\ UNCHANGED <<storeVars, conn, trusted>>

ConnectSetNode(r) ==
    /\ At(r, "connecting")
    /\ SetNode(r.node, r.full, r.kind, handler[r].seen)
    /\ Goto(r, "saved")
    /\ UNCHANGED <<conn, remoteVars, trusted>>

\* payPerInterval.OnClient compares credit plus deposit; the memory store keeps no deposit,
\* only contractPayment adds one to the balances it hands out (Payment).  A node
\* that fails it stays in the store, and a host that fails it stays in remoteHosts.
OnClient(r) ==
    /\ At(r, "saved")
    /\ \/ /\ MinBalance # None /\ GetNodeBalance(r.node).credit < MinBalance
          /\ Return(r, "failed")
       \/ /\ MinBalance # None => GetNodeBalance(r.node).credit >= MinBalance
          /\ IF r.op = "client" THEN Goto(r, "requesting") ELSE Return(r, "done")
    /\ UNCHANGED <<storeVars, conn, remoteVars, trusted>>
-----------------------------------------------------------------------------
(* Update, and payPerInterval.OnUpdate. *)

UpdateGetNode(r) ==
    /\ r.op = "update" /\ At(r, "verified")
    /\ \/ ~Registered(r.node) /\ Return(r, "failed")
       \/ /\ Registered(r.node)
          /\ Become(r, [handler[r] EXCEPT !.pc = "got", !.seen = nodes[r.node].lastSeen,
                                         !.isHost = nodes[r.node].isHost])
    /\ UNCHANGED <<storeVars, conn, remoteVars, trusted>>

\* No handler removes a node, so that no store call after GetNode can fail with
\* ErrUnregisteredNode.
UpdatePeers(r) ==
    /\ At(r, "got")
    /\ UpdateNodePeers(r.node, r.report)
    /\ Goto(r, "updated")
    /\ UNCHANGED <<conn, remoteVars, trusted>>

\* Mutant: the peers to bill are the reported ones, known to the pool or not.
UpdateActiveReported(r) ==
    /\ At(r, "updated")
    /\ Become(r, [handler[r] EXCEPT !.pc = "active", !.peers = r.report])
    /\ UNCHANGED <<storeVars, conn, remoteVars, trusted>>

UpdateActive(r) ==
    /\ At(r, "updated")
    /\ Become(r, [handler[r] EXCEPT !.pc = "active", !.peers = NodePeers(r.node)])
    /\ UNCHANGED <<storeVars, conn, remoteVars, trusted>>

\* BlockNumberProvider fails after the peers were updated: nothing is billed.
UpdateBlockNumberFails(r) ==
    /\ At(r, "active")
    /\ Return(r, "failed")
    /\ UNCHANGED <<storeVars, conn, remoteVars, trusted>>

\* big.Int's Div rounds down for a positive interval.
IntervalCredit(lastSeen) == ((now - lastSeen) * CreditPerInterval) \div Interval

\* OnUpdate up to its loop: hosts, and updates in which no time passed, are
\* not billed.
OnUpdate(r) ==
    LET credit == IntervalCredit(handler[r].seen)
    IN  /\ At(r, "active")
        /\ IF handler[r].isHost \/ credit = 0
           THEN Return(r, "done")
           ELSE Become(r, [handler[r] EXCEPT !.pc = "crediting", !.credit = credit,
                                             !.todo = handler[r].peers])
        /\ UNCHANGED <<storeVars, conn, remoteVars, trusted>>

\* One iteration of the loop over the peers.  The error of AddNodeBalance is
\* ignored, and total grows either way.
CreditPeer(r, p) ==
    /\ At(r, "crediting") /\ p \in handler[r].todo
    /\ \/ AddNodeBalance(p, handler[r].credit)
       \/ ~Registered(p) /\ UNCHANGED storeVars
    /\ Become(r, [handler[r] EXCEPT !.todo = @ \ {p}])
    /\ UNCHANGED <<conn, remoteVars, trusted>>

Total(r) == handler[r].credit * Cardinality(handler[r].peers)

\* The comparison after the loop.  It is total, the charge of this update,
\* that is compared with MinBalance.  Update then calls vipnode_disconnect on
\* the remotes of the active peers and logs the outcome; agents do not serve
\* that method.
CheckMinBalance(r) ==
    /\ At(r, "crediting") /\ handler[r].todo = {}
    /\ IF MinBalance # None /\ MinBalance > Total(r)
       THEN Return(r, "failed") ELSE Goto(r, "debiting")
    /\ UNCHANGED <<storeVars, conn, remoteVars, trusted>>

\* Mutant: the charge is worked out again when it is debited.
DebitRecomputed(r) ==
    /\ At(r, "debiting")
    /\ AddNodeBalance(r.node, -IntervalCredit(handler[r].seen) * Cardinality(handler[r].peers))
    /\ Return(r, "done")
    /\ UNCHANGED <<conn, remoteVars, trusted>>

Debit(r) ==
    /\ At(r, "debiting")
    /\ AddNodeBalance(r.node, -Total(r))
    /\ Return(r, "done")
    /\ UNCHANGED <<conn, remoteVars, trusted>>
-----------------------------------------------------------------------------
(* requestHosts: VipnodePool.Peer, and the second half of Client. *)

defaultRequestNumHosts == 3

NumRequestHosts(r) ==
    LET asked == IF r.op = "client" /\ r.num = 0 THEN defaultRequestNumHosts ELSE r.num
    IN  IF MaxRequestHosts > 0 /\ asked > MaxRequestHosts THEN MaxRequestHosts ELSE asked

RequestSkip(r) ==
    /\ At(r, "requesting")
    /\ \/ NumRequestHosts(r) = 0 /\ Return(r, "done")
       \/ NumRequestHosts(r) # 0 /\ ~Registered(r.node) /\ Return(r, "failed")
       \/ /\ NumRequestHosts(r) # 0 /\ Registered(r.node)
          /\ Become(r, [handler[r] EXCEPT !.pc = "skipping",
                                         !.peers = NodePeers(r.node) \cup {r.node}])
    /\ UNCHANGED <<storeVars, conn, remoteVars, trusted>>

RequestActiveHosts(r) ==
    /\ At(r, "skipping")
    /\ \E hosts \in ActiveHosts(r.kind, NumRequestHosts(r) + Cardinality(handler[r].peers)) :
          Become(r, [handler[r] EXCEPT !.pc = "candidates", !.todo = hosts])
    /\ UNCHANGED <<storeVars, conn, remoteVars, trusted>>

\* Mutant: every candidate is called, known peers and the caller too.
RemotesNoSkip(r) == {n \in handler[r].todo : remoteHosts[n] # None}

\* The candidates that are called: not skipped, and connected right now.
Remotes(r) == {n \in handler[r].todo \ handler[r].peers : remoteHosts[n] # None}

RequestRemotes(r) ==
    /\ At(r, "candidates")
    /\ Become(r, [handler[r] EXCEPT
            !.pc = "calling",
            !.call = [n \in Node |-> IF n \in Remotes(r) THEN "sent" ELSE "none"],
            !.via = [n \in Node |-> IF n \in Remotes(r) THEN remoteHosts[n] ELSE None]])
    /\ UNCHANGED <<storeVars, conn, remoteVars, trusted>>

CallIs(r, n, s) == At(r, "calling") /\ handler[r].call[n] = s

SetCall(r, n, s) == Become(r, [handler[r] EXCEPT !.call[n] = s])

\* The agent serves vipnode_whitelist: AddTrustedPeer on its node succeeds.
HostWhitelists(r, n) ==
    /\ CallIs(r, n, "sent") /\ conn[handler[r].via[n]] = "open"
    /\ trusted' = trusted \cup {<<handler[r].via[n], r.node>>}
    /\ SetCall(r, n, "served")
    /\ UNCHANGED <<storeVars, conn, remoteVars>>

\* The agent answers with an error.
HostRefuses(r, n) ==
    /\ CallIs(r, n, "sent") /\ conn[handler[r].via[n]] = "open"
    /\ SetCall(r, n, "error")
    /\ UNCHANGED <<storeVars, conn, remoteVars, trusted>>

\* The answer arrives within poolWhitelistTimeout.
HostAccepted(r, n) ==
    /\ CallIs(r, n, "served")
    /\ SetCall(r, n, "accepted")
    /\ UNCHANGED <<storeVars, conn, remoteVars, trusted>>

\* Mutant: only a remote that is still connected times out.
CallTimesOutIfOpen(r, n) ==
    /\ CallIs(r, n, "sent") \/ CallIs(r, n, "served")
    /\ conn[handler[r].via[n]] = "open"
    /\ SetCall(r, n, "error")
    /\ UNCHANGED <<storeVars, conn, remoteVars, trusted>>

\* poolWhitelistTimeout is over, whether or not the host served the call.
CallTimesOut(r, n) ==
    /\ CallIs(r, n, "sent") \/ CallIs(r, n, "served")
    /\ SetCall(r, n, "error")
    /\ UNCHANGED <<storeVars, conn, remoteVars, trusted>>

Accepted(r) == {n \in Node : handler[r].call[n] = "accepted"}

RequestReturn(r) ==
    /\ At(r, "calling")
    /\ \A n \in Node : handler[r].call[n] \notin {"sent", "served"}
    /\ Return(r, IF Accepted(r) # {} THEN "done" ELSE "failed")
    /\ UNCHANGED <<storeVars, conn, remoteVars, trusted>>
-----------------------------------------------------------------------------
Step(r) ==
    \/ AddNode(r)
    \/ ConnectReject(r) \/ ConnectRemote(r) \/ ConnectSetNode(r) \/ OnClient(r)
    \/ UpdateGetNode(r) \/ UpdatePeers(r) \/ UpdateActive(r)
    \/ UpdateBlockNumberFails(r) \/ OnUpdate(r)
    \/ \E p \in Node : CreditPeer(r, p)
    \/ CheckMinBalance(r) \/ Debit(r)
    \/ RequestSkip(r) \/ RequestActiveHosts(r) \/ RequestRemotes(r)
    \/ \E n \in Node : HostWhitelists(r, n) \/ HostRefuses(r, n)
                       \/ HostAccepted(r, n) \/ CallTimesOut(r, n)
    \/ RequestReturn(r)

Next ==
    \/ Tick /\ UNCHANGED poolVars
    \/ \E c \in Conn : Disconnect(c) \/ CloseRemote(c)
    \/ \E r \in Request : Verify(r) \/ Peer(r) \/ Step(r)

Spec == Init /\ [][Next]_vars

\* Goroutines are scheduled, and poolWhitelistTimeout ends every whitelist call.
FairSpec == Spec /\ \A r \in Request : WF_vars(Step(r))
=============================================================================
