----------------------------- MODULE PoolProofs -----------------------------
(***************************************************************************)
(* The handlers of the pool, for every set of nodes, connections and       *)
(* requests, and every setting of the balance manager.                     *)
(***************************************************************************)
EXTENDS PoolProps, MemoryStoreProofs, Sums

\* What PoolAssumption says of one request.
LEMMA RequestFacts ==
    \A r \in Request :
        /\ r \in RequestType /\ r.op \in Op /\ r.node \in Node /\ r.conn \in Conn
        /\ r.nonce \in Nat /\ r.full \in BOOLEAN /\ r.kind \in Kind \cup {None}
        /\ r.report \subseteq Node
        /\ r.op = "addNode" => r.account \in Account
        /\ Signer(r) \in ID
    BY PoolAssumption DEF RequestType, Signer, ID

\* A handler that begins is a handler.
LEMMA FreshType == \A pc \in PC : Fresh(pc) \in Handler /\ Fresh(pc).pc = pc
    BY DEF Fresh, Cleared, Handler, HandlerRecord, CallState

\* Cardinalities of sets of nodes are numbers, because Node is finite.
LEMMA CardinalityType ==
    ASSUME NEW S \in SUBSET Node
    PROVE  Cardinality(S) \in Nat
    BY PoolAssumption, FS_Subset, FS_CardinalityType

\* What a step of one handler does to the handlers.
LEMMA BecomeEffect ==
    ASSUME NEW r \in Request, NEW h \in Handler, handler \in [Request -> Handler], Become(r, h)
    PROVE  /\ handler' \in [Request -> Handler]
           /\ handler'[r] = h
           /\ \A q \in Request : q # r => handler'[q] = handler[q]
    BY DEF Become

\* The handler of r stays well typed, moves on, and moves alone.
Moved(r) ==
    /\ handler' \in [Request -> Handler]
    /\ \A q \in Request : q # r => handler'[q] = handler[q]
    /\ handler[r].pc \notin {"idle"} \cup Final
    /\ handler'[r].pc \notin {"idle", "verified"}
    /\ handler'[r].pc = "rejected" => handler[r].pc = "verified"

\* A handler that returns.
LEMMA ReturnMoves ==
    ASSUME NEW r \in Request, NEW pc \in {"done", "failed", "rejected"},
           handler \in [Request -> Handler],
           handler[r].pc \notin {"idle"} \cup Final,
           pc = "rejected" => handler[r].pc = "verified",
           Return(r, pc)
    PROVE  /\ Moved(r)
           /\ handler'[r].pc = pc
           /\ handler'[r].call = handler[r].call
           /\ handler'[r].via = handler[r].via
<1> DEFINE h == Cleared(pc, handler[r].call, handler[r].via)
<1>1. /\ h \in Handler /\ h.pc = pc
      /\ h.call = handler[r].call /\ h.via = handler[r].via
    BY DEF Cleared, Handler, HandlerRecord, PC
<1>2. Become(r, h)
    BY DEF Return
<1> HIDE DEF h
<1>3. QED
    BY <1>1, <1>2, BecomeEffect DEF Moved

\* A handler that goes on.
LEMMA GotoMoves ==
    ASSUME NEW r \in Request, NEW pc \in PC \ ({"idle", "verified"} \cup Final),
           handler \in [Request -> Handler],
           handler[r].pc \notin {"idle"} \cup Final,
           Goto(r, pc)
    PROVE  /\ Moved(r)
           /\ handler'[r] = [handler[r] EXCEPT !.pc = pc]
           /\ handler'[r].pc = pc
           /\ handler'[r].peers = handler[r].peers
<1> DEFINE h == [handler[r] EXCEPT !.pc = pc]
<1>1. h \in Handler /\ h.pc = pc /\ h.peers = handler[r].peers
    BY DEF Handler, HandlerRecord
<1>2. Become(r, h)
    BY DEF Goto
<1> HIDE DEF h
<1>3. Moved(r) /\ handler'[r] = h
    BY <1>1, <1>2, BecomeEffect DEF Moved, Final
<1>4. QED
    BY <1>1, <1>3 DEF h

\* One vipnode_whitelist call of the handler changes.
LEMMA SetCallMoves ==
    ASSUME NEW r \in Request, NEW n \in Node, NEW s \in CallState,
           handler \in [Request -> Handler], At(r, "calling"),
           handler[r].call[n] # "none", SetCall(r, n, s)
    PROVE  /\ Moved(r)
           /\ handler'[r].pc = "calling"
           /\ handler'[r].peers = handler[r].peers
           /\ handler'[r].via = handler[r].via
           /\ handler'[r].call = [handler[r].call EXCEPT ![n] = s]
<1> DEFINE h == [handler[r] EXCEPT !.call[n] = s]
<1>1. /\ h \in Handler /\ h.pc = "calling" /\ h.peers = handler[r].peers
      /\ h.via = handler[r].via /\ h.call = [handler[r].call EXCEPT ![n] = s]
    BY DEF Handler, HandlerRecord, At
<1>2. Become(r, h)
    BY DEF SetCall
<1> HIDE DEF h
<1>3. QED
    BY <1>1, <1>2, BecomeEffect DEF Moved, Final, At

-----------------------------------------------------------------------------
(* One step of one handler. *)

\* What every step of a handler leaves of the rest of the pool.
StepEffect(r) ==
    /\ PoolTypeOK'
    /\ Moved(r)
    /\ UNCHANGED <<conn, nonces>>
    /\ \A n \in Node : Registered(n) => nodes'[n] # None
    /\ trusted \subseteq trusted'
    /\ \/ UNCHANGED remoteVars
       \/ r.full /\ Register(r) /\ handler'[r].pc = "connecting"

\* A step that leaves the store alone.
LEMMA SameStore ==
    ASSUME StoreTypeOK, UNCHANGED storeVars
    PROVE  /\ StoreTypeOK' /\ UNCHANGED nonces
           /\ \A n \in Node : Registered(n) => nodes'[n] # None
    BY DEF StoreTypeOK, storeVars, Registered

\* What is left to show of a step that leaves the remotes alone.
LEMMA Quiet ==
    ASSUME PoolTypeOK, NEW r \in Request, StoreTypeOK', Moved(r), UNCHANGED nonces,
           \A n \in Node : Registered(n) => nodes'[n] # None,
           UNCHANGED <<conn, remoteVars, trusted>>
    PROVE  StepEffect(r)
    BY DEF StepEffect, PoolTypeOK, Moved, remoteVars

\* Every step of a handler: one case per action.
LEMMA StepKeeps ==
    ASSUME PoolTypeOK, NEW r \in Request, Step(r)
    PROVE  StepEffect(r)
<1> USE DEF At
<1>1. /\ StoreTypeOK /\ handler \in [Request -> Handler] /\ handler[r] \in Handler
      /\ now \in Int /\ r.node \in Node /\ r.conn \in Conn /\ Final = {"done", "rejected", "failed"}
    BY RequestFacts DEF PoolTypeOK, StoreTypeOK, Final
<1>2. CASE AddNode(r)
    <2>1. CASE AddAccountNode(r.account, r.node) /\ Return(r, "done")
        BY <1>1, <1>2, <2>1, RequestFacts, AddAccountNodeType, AddAccountNodeKeeps, ReturnMoves, Quiet
        DEF AddNode, Registered
    <2>2. CASE Return(r, "failed") /\ UNCHANGED storeVars
        BY <1>1, <1>2, <2>2, SameStore, ReturnMoves, Quiet DEF AddNode
    <2>3. QED
        BY <1>2, <2>1, <2>2 DEF AddNode
<1>3. CASE ConnectReject(r)
    BY <1>1, <1>3, SameStore, ReturnMoves, Quiet DEF ConnectReject
<1>4. CASE ConnectRemote(r)
    <2> DEFINE h == [handler[r] EXCEPT !.pc = "connecting", !.seen = now]
    <2>1. h \in Handler /\ h.pc = "connecting"
        BY <1>1 DEF Handler, HandlerRecord, PC
    <2>2. Become(r, h) /\ UNCHANGED <<storeVars, conn, trusted>> /\ handler[r].pc = "verified"
        BY <1>4 DEF ConnectRemote
    <2>3. \/ r.full /\ Register(r)
          \/ UNCHANGED remoteVars
        BY <1>4 DEF ConnectRemote
    <2> HIDE DEF h
    <2>4. Moved(r) /\ handler'[r].pc = "connecting"
        BY <1>1, <2>1, <2>2, BecomeEffect DEF Moved
    <2>5. remoteHosts' \in [Node -> Conn \cup {None}] /\ remoteNodeLookup' \in [Conn -> Node \cup {None}]
        BY <1>1, <2>3 DEF PoolTypeOK, Register, remoteVars
    <2>6. PoolTypeOK'
        BY <1>1, <2>2, <2>4, <2>5, SameStore DEF PoolTypeOK, Moved
    <2>7. QED
        BY <1>1, <2>2, <2>3, <2>4, <2>6, SameStore DEF StepEffect
<1>5. CASE ConnectSetNode(r)
    <2>1. handler[r].seen \in Int
        BY <1>1 DEF Handler, HandlerRecord
    <2>2. QED
        BY <1>1, <1>5, <2>1, RequestFacts, SetNodeType, SetNodeKeeps, GotoMoves, Quiet
        DEF ConnectSetNode, PC
<1>6. CASE OnClient(r)
    <2>1. Moved(r)
        BY <1>1, <1>6, ReturnMoves, GotoMoves DEF OnClient, PC
    <2>2. QED
        BY <1>1, <1>6, <2>1, SameStore, Quiet DEF OnClient
<1>7. CASE UpdateGetNode(r)
    <2>1. CASE Return(r, "failed")
        BY <1>1, <1>7, <2>1, SameStore, ReturnMoves, Quiet DEF UpdateGetNode
    <2>2. CASE Registered(r.node) /\ Become(r, [handler[r] EXCEPT !.pc = "got",
                  !.seen = nodes[r.node].lastSeen, !.isHost = nodes[r.node].isHost])
        <3> DEFINE h == [handler[r] EXCEPT !.pc = "got", !.seen = nodes[r.node].lastSeen,
                                           !.isHost = nodes[r.node].isHost]
        <3>1. nodes[r.node] \in MemNode
            BY <1>1, <2>2 DEF StoreTypeOK, Registered
        <3>2. h \in Handler /\ h.pc = "got"
            BY <1>1, <3>1 DEF Handler, HandlerRecord, PC, MemNode
        <3>3. Become(r, h)
            BY <2>2
        <3> HIDE DEF h
        <3>4. Moved(r)
            BY <1>1, <1>7, <3>2, <3>3, BecomeEffect DEF Moved, UpdateGetNode
        <3>5. QED
            BY <1>1, <1>7, <3>4, SameStore, Quiet DEF UpdateGetNode
    <2>3. QED
        BY <1>7, <2>1, <2>2 DEF UpdateGetNode
<1>8. CASE UpdatePeers(r)
    BY <1>1, <1>8, UpdateNodePeersType, UpdateNodePeersKeeps, GotoMoves, Quiet DEF UpdatePeers, PC
<1>9. CASE UpdateActive(r)
    <2> DEFINE h == [handler[r] EXCEPT !.pc = "active", !.peers = NodePeers(r.node)]
    <2>1. h \in Handler /\ h.pc = "active"
        BY <1>1 DEF Handler, HandlerRecord, PC, NodePeers
    <2>2. Become(r, h)
        BY <1>9 DEF UpdateActive
    <2> HIDE DEF h
    <2>3. Moved(r)
        BY <1>1, <1>9, <2>1, <2>2, BecomeEffect DEF Moved, UpdateActive
    <2>4. QED
        BY <1>1, <1>9, <2>3, SameStore, Quiet DEF UpdateActive
<1>10. CASE UpdateBlockNumberFails(r)
    BY <1>1, <1>10, SameStore, ReturnMoves, Quiet DEF UpdateBlockNumberFails
<1>11. CASE OnUpdate(r)
    <2> DEFINE credit == IntervalCredit(handler[r].seen)
               h == [handler[r] EXCEPT !.pc = "crediting", !.credit = credit,
                                       !.todo = handler[r].peers]
    <2>1. handler[r].seen \in Int
        BY <1>1 DEF Handler, HandlerRecord
    <2>2. credit \in Int
        BY <1>1, <2>1, PoolAssumption DEF IntervalCredit
    <2>3. Return(r, "done") \/ Become(r, h)
        BY <1>11 DEF OnUpdate
    <2> HIDE DEF credit
    <2>4. h \in Handler /\ h.pc = "crediting"
        BY <1>1, <2>2 DEF Handler, HandlerRecord, PC
    <2> HIDE DEF h
    <2>5. Moved(r)
        BY <1>1, <1>11, <2>3, <2>4, BecomeEffect, ReturnMoves DEF Moved, OnUpdate
    <2>6. QED
        BY <1>1, <1>11, <2>5, SameStore, Quiet DEF OnUpdate
<1>12. ASSUME NEW p \in Node, CreditPeer(r, p) PROVE StepEffect(r)
    <2> DEFINE h == [handler[r] EXCEPT !.todo = @ \ {p}]
    <2>1. h \in Handler /\ h.pc = "crediting" /\ handler[r].credit \in Int
        BY <1>1, <1>12 DEF Handler, HandlerRecord, CreditPeer
    <2>2. Become(r, h)
        BY <1>12 DEF CreditPeer
    <2> HIDE DEF h
    <2>3. Moved(r)
        BY <1>1, <1>12, <2>1, <2>2, BecomeEffect DEF Moved, CreditPeer
    <2>4. CASE AddNodeBalance(p, handler[r].credit)
        BY <1>1, <1>12, <2>1, <2>3, <2>4, AddNodeBalanceType, AddNodeBalanceKeeps, Quiet
        DEF CreditPeer, Registered
    <2>5. CASE UNCHANGED storeVars
        BY <1>1, <1>12, <2>3, <2>5, SameStore, Quiet DEF CreditPeer
    <2>6. QED
        BY <1>12, <2>4, <2>5 DEF CreditPeer
<1>13. CASE CheckMinBalance(r)
    <2>1. Moved(r)
        BY <1>1, <1>13, ReturnMoves, GotoMoves DEF CheckMinBalance, PC
    <2>2. QED
        BY <1>1, <1>13, <2>1, SameStore, Quiet DEF CheckMinBalance
<1>14. CASE Debit(r)
    <2>1. handler[r].credit \in Int /\ handler[r].peers \in SUBSET Node
        BY <1>1 DEF Handler, HandlerRecord
    <2>2. -Total(r) \in Int
        BY <2>1, CardinalityType DEF Total
    <2>3. QED
        BY <1>1, <1>14, <2>2, AddNodeBalanceType, AddNodeBalanceKeeps, ReturnMoves, Quiet
        DEF Debit, Registered
<1>15. CASE RequestSkip(r)
    <2>1. CASE Return(r, "done") \/ Return(r, "failed")
        BY <1>1, <1>15, <2>1, SameStore, ReturnMoves, Quiet DEF RequestSkip
    <2>2. CASE Become(r, [handler[r] EXCEPT !.pc = "skipping",
                                            !.peers = NodePeers(r.node) \cup {r.node}])
        <3> DEFINE h == [handler[r] EXCEPT !.pc = "skipping",
                                           !.peers = NodePeers(r.node) \cup {r.node}]
        <3>1. h \in Handler /\ h.pc = "skipping"
            BY <1>1 DEF Handler, HandlerRecord, PC, NodePeers
        <3>2. Become(r, h)
            BY <2>2
        <3> HIDE DEF h
        <3>3. Moved(r)
            BY <1>1, <1>15, <3>1, <3>2, BecomeEffect DEF Moved, RequestSkip
        <3>4. QED
            BY <1>1, <1>15, <3>3, SameStore, Quiet DEF RequestSkip
    <2>3. QED
        BY <1>15, <2>1, <2>2 DEF RequestSkip
<1>16. CASE RequestActiveHosts(r)
    <2>1. PICK hosts \in ActiveHosts(r.kind, NumRequestHosts(r) + Cardinality(handler[r].peers)) :
              Become(r, [handler[r] EXCEPT !.pc = "candidates", !.todo = hosts])
        BY <1>16 DEF RequestActiveHosts
    <2>2. hosts \subseteq Node
        BY <2>1 DEF ActiveHosts, kSubset
    <2> DEFINE h == [handler[r] EXCEPT !.pc = "candidates", !.todo = hosts]
    <2>3. h \in Handler /\ h.pc = "candidates"
        BY <1>1, <2>2 DEF Handler, HandlerRecord, PC
    <2>4. Become(r, h)
        BY <2>1
    <2> HIDE DEF h
    <2>5. Moved(r)
        BY <1>1, <1>16, <2>3, <2>4, BecomeEffect DEF Moved, RequestActiveHosts
    <2>6. QED
        BY <1>1, <1>16, <2>5, SameStore, Quiet DEF RequestActiveHosts
<1>17. CASE RequestRemotes(r)
    <2> DEFINE call == [n \in Node |-> IF n \in Remotes(r) THEN "sent" ELSE "none"]
               via == [n \in Node |-> IF n \in Remotes(r) THEN remoteHosts[n] ELSE None]
               h == [handler[r] EXCEPT !.pc = "calling", !.call = call, !.via = via]
    <2>1. call \in [Node -> CallState] /\ via \in [Node -> Conn \cup {None}]
        BY DEF CallState, PoolTypeOK
    <2>c. \A n \in Node : call[n] # "none" => via[n] # None
        BY DEF Remotes
    <2>2. Become(r, h)
        BY <1>17 DEF RequestRemotes
    <2> HIDE DEF call, via
    <2>3. h \in Handler /\ h.pc = "calling"
        BY <1>1, <2>1, <2>c DEF Handler, HandlerRecord, PC
    <2> HIDE DEF h
    <2>4. Moved(r)
        BY <1>1, <1>17, <2>2, <2>3, BecomeEffect DEF Moved, RequestRemotes
    <2>5. QED
        BY <1>1, <1>17, <2>4, SameStore, Quiet DEF RequestRemotes
<1>18. ASSUME NEW n \in Node,
              HostWhitelists(r, n) \/ HostRefuses(r, n) \/ HostAccepted(r, n) \/ CallTimesOut(r, n)
       PROVE  StepEffect(r)
    <2>1. UNCHANGED <<storeVars, conn, remoteVars>>
        BY <1>18 DEF HostWhitelists, HostRefuses, HostAccepted, CallTimesOut
    <2>2. PICK s \in CallState : SetCall(r, n, s) /\ At(r, "calling") /\ handler[r].call[n] # "none"
        BY <1>18 DEF HostWhitelists, HostRefuses, HostAccepted, CallTimesOut, CallIs, CallState
    <2>3. Moved(r)
        BY <1>1, <2>2, SetCallMoves
    <2>4. CASE UNCHANGED trusted
        BY <1>1, <2>1, <2>3, <2>4, SameStore, Quiet
    <2>5. CASE HostWhitelists(r, n)
        <3>1. handler[r].via[n] \in Conn
            BY <1>1, <2>2 DEF Handler, HandlerRecord
        <3>2. trusted' \subseteq Conn \X Node /\ trusted \subseteq trusted'
            BY <1>1, <2>5, <3>1 DEF HostWhitelists, PoolTypeOK
        <3>3. PoolTypeOK'
            BY <1>1, <2>1, <2>3, <3>2, SameStore DEF PoolTypeOK, Moved, remoteVars
        <3>4. QED
            BY <1>1, <2>1, <2>3, <3>2, <3>3, SameStore DEF StepEffect
    <2>6. QED
        BY <1>18, <2>4, <2>5 DEF HostRefuses, HostAccepted, CallTimesOut
<1>19. CASE RequestReturn(r)
    BY <1>1, <1>19, SameStore, ReturnMoves, Quiet DEF RequestReturn
<1>20. QED
    BY <1>2, <1>3, <1>4, <1>5, <1>6, <1>7, <1>8, <1>9, <1>10, <1>11, <1>12, <1>13, <1>14,
       <1>15, <1>16, <1>17, <1>18, <1>19 DEF Step

-----------------------------------------------------------------------------
(* Type correctness. *)

LEMMA PoolInitType == Init => PoolTypeOK
<1> SUFFICES ASSUME Init PROVE PoolTypeOK
    OBVIOUS
<1>1. StoreTypeOK
    BY StoreAssumption DEF Init, StoreInit, StoreTypeOK
<1>2. handler \in [Request -> Handler]
    BY FreshType DEF Init, PC
<1>3. QED
    BY <1>1, <1>2 DEF Init, PoolTypeOK

\* The steps that belong to no running handler.
LEMMA ConnectionKeeps ==
    ASSUME PoolTypeOK, NEW c \in Conn, Disconnect(c) \/ CloseRemote(c)
    PROVE  PoolTypeOK' /\ UNCHANGED <<storeVars, trusted, handler>>
<1>1. CASE Disconnect(c)
    BY <1>1 DEF Disconnect, PoolTypeOK, StoreTypeOK, storeVars, remoteVars
<1>2. CASE CloseRemote(c)
    <2>1. UNCHANGED <<storeVars, trusted, handler>> /\ conn' \in [Conn -> {"open", "closing", "closed"}]
        BY <1>2 DEF CloseRemote, PoolTypeOK
    <2>2. remoteHosts' \in [Node -> Conn \cup {None}] /\ remoteNodeLookup' \in [Conn -> Node \cup {None}]
        BY <1>2 DEF CloseRemote, PoolTypeOK, remoteVars
    <2>3. QED
        BY <2>1, <2>2, SameStore DEF PoolTypeOK
<1>3. QED
    BY <1>1, <1>2

LEMMA VerifyKeeps ==
    ASSUME PoolTypeOK, NEW r \in Request, Verify(r)
    PROVE  /\ PoolTypeOK' /\ UNCHANGED <<nodes, conn, remoteVars, trusted>>
           /\ handler' = [handler EXCEPT ![r] = Fresh("verified")]
           /\ nonces[Signer(r)] < r.nonce
           /\ nonces' = [nonces EXCEPT ![Signer(r)] = r.nonce]
<1>1. StoreTypeOK' /\ UNCHANGED nodes
    BY RequestFacts, CheckAndSaveNonceType DEF Verify, PoolTypeOK, CheckAndSaveNonce
<1>2. handler' \in [Request -> Handler]
    BY FreshType DEF Verify, Become, PoolTypeOK, PC
<1>3. QED
    BY <1>1, <1>2 DEF Verify, Become, PoolTypeOK, CheckAndSaveNonce, NonceValid, remoteVars

LEMMA PeerKeeps ==
    ASSUME PoolTypeOK, NEW r \in Request, Peer(r)
    PROVE  /\ PoolTypeOK' /\ UNCHANGED <<storeVars, conn, remoteVars, trusted>>
           /\ r.op = "peer"
           /\ handler' = [handler EXCEPT ![r] = Fresh("requesting")]
<1>1. StoreTypeOK'
    BY SameStore DEF Peer, PoolTypeOK
<1>2. handler' \in [Request -> Handler]
    BY FreshType DEF Peer, Become, PoolTypeOK, PC
<1>3. QED
    BY <1>1, <1>2 DEF Peer, Become, PoolTypeOK, remoteVars

LEMMA TickKeeps ==
    ASSUME PoolTypeOK, Tick, UNCHANGED poolVars
    PROVE  PoolTypeOK' /\ UNCHANGED <<nodes, nonces, poolVars>>
    BY TickType DEF PoolTypeOK, poolVars, Tick

LEMMA StutterKeeps ==
    ASSUME PoolTypeOK, UNCHANGED vars
    PROVE  PoolTypeOK' /\ UNCHANGED <<nodes, nonces, conn, remoteVars, trusted, handler>>
    BY DEF PoolTypeOK, StoreTypeOK, vars, storeVars, poolVars, remoteVars

\* The cases of a step of the pool.
LEMMA NextCases ==
    ASSUME [Next]_vars
    PROVE  \/ Tick /\ UNCHANGED poolVars
           \/ \E c \in Conn : Disconnect(c) \/ CloseRemote(c)
           \/ \E r \in Request : Verify(r)
           \/ \E r \in Request : Peer(r)
           \/ \E r \in Request : Step(r)
           \/ UNCHANGED vars
    BY DEF Next

LEMMA PoolTypeInductive == PoolTypeOK /\ [Next]_vars => PoolTypeOK'
    BY NextCases, TickKeeps, ConnectionKeeps, VerifyKeeps, PeerKeeps, StepKeeps, StutterKeeps
    DEF StepEffect

\* Whatever the requests and however their handlers interleave, the store
\* stays well formed, the tables of remotes hold connections and hosts, and
\* every vipnode_whitelist call in flight goes to a connection.
THEOREM PoolTypeCorrect == Spec => []PoolTypeOK
<1>1. Init => PoolTypeOK
    BY PoolInitType
<1>2. PoolTypeOK /\ [Next]_vars => PoolTypeOK'
    BY PoolTypeInductive
<1>3. QED
    BY <1>1, <1>2, PTL DEF Spec
-----------------------------------------------------------------------------
(* Replay. *)

\* The nonce of every signed request that ever began is in the store.
NonceSaved ==
    \A r \in Request :
        r.op # "peer" /\ handler[r].pc # "idle" => nonces[Signer(r)] >= r.nonce

LEMMA NonceSavedInductive == PoolTypeOK /\ NonceSaved /\ [Next]_vars => NonceSaved'
<1> SUFFICES ASSUME PoolTypeOK, NonceSaved, [Next]_vars PROVE NonceSaved'
    OBVIOUS
<1>1. /\ nonces \in [ID -> Nat] /\ handler \in [Request -> Handler]
      /\ \A r \in Request : Signer(r) \in ID /\ r.nonce \in Nat
    BY RequestFacts DEF PoolTypeOK, StoreTypeOK
<1>2. CASE UNCHANGED <<nonces, handler>>
    BY <1>2 DEF NonceSaved, Signer
<1>3. ASSUME NEW r \in Request, Verify(r) PROVE NonceSaved'
    <2>1. /\ nonces[Signer(r)] < r.nonce /\ nonces' = [nonces EXCEPT ![Signer(r)] = r.nonce]
          /\ handler' = [handler EXCEPT ![r] = Fresh("verified")]
        BY <1>3, VerifyKeeps
    <2>2. \A id \in ID : nonces'[id] >= nonces[id] /\ nonces'[id] \in Nat
        BY <1>1, <2>1
    <2>3. nonces'[Signer(r)] >= r.nonce
        BY <1>1, <2>1
    <2>4. \A q \in Request : q # r => handler'[q] = handler[q]
        BY <1>1, <2>1
    <2>5. \A q \in Request : (Signer(q))' = Signer(q)
        BY DEF Signer
    <2>6. QED
        BY <1>1, <2>2, <2>3, <2>4, <2>5 DEF NonceSaved
<1>4. ASSUME NEW r \in Request, Peer(r) PROVE NonceSaved'
    BY <1>1, <1>4, PeerKeeps DEF NonceSaved, Signer, storeVars
<1>5. ASSUME NEW r \in Request, Step(r) PROVE NonceSaved'
    BY <1>1, <1>5, StepKeeps DEF StepEffect, Moved, NonceSaved, Signer
<1>6. QED
    BY <1>2, <1>3, <1>4, <1>5, NextCases, TickKeeps, ConnectionKeeps, StutterKeeps
    DEF poolVars, storeVars

\* A step that begins the handler of a signed request finds it idle.
LEMMA ReplayStep ==
    ASSUME PoolTypeOK, NonceSaved, NEW r \in Request, Verify(r)
    PROVE  handler[r].pc = "idle"
    BY VerifyKeeps, RequestFacts DEF NonceSaved, Verify, PoolTypeOK, StoreTypeOK

PoolInv == PoolTypeOK /\ NonceSaved

LEMMA PoolInvHolds == Spec => []PoolInv
<1>1. Init => PoolInv
    <2> SUFFICES ASSUME Init PROVE PoolInv
        OBVIOUS
    <2>1. \A r \in Request : handler[r].pc = "idle"
        BY FreshType DEF Init, PC
    <2>2. QED
        BY <2>1, PoolInitType DEF PoolInv, NonceSaved
<1>2. PoolInv /\ [Next]_vars => PoolInv'
    BY PoolTypeInductive, NonceSavedInductive DEF PoolInv
<1>3. QED
    BY <1>1, <1>2, PTL DEF Spec

\* No request that its signer sent once is served twice, whatever else was
\* delivered, reordered or repeated in between: CheckAndSaveNonce alone, with
\* no memory of the requests themselves, sees to it.
THEOREM NoReplayHolds == Spec => NoReplay
<1> DEFINE A == \A r \in Request :
                   r.op # "peer" /\ handler[r].pc # "idle" /\ handler'[r] # handler[r]
                       => handler'[r].pc # "verified"
<1>1. PoolInv /\ [Next]_vars => [A]_vars
    <2> SUFFICES ASSUME PoolInv, [Next]_vars PROVE A
        OBVIOUS
    <2>1. PoolTypeOK /\ NonceSaved /\ handler \in [Request -> Handler]
        BY DEF PoolInv, PoolTypeOK
    <2>2. CASE UNCHANGED handler
        BY <2>2
    <2>3. ASSUME NEW q \in Request, Verify(q) PROVE A
        BY <2>1, <2>3, ReplayStep, VerifyKeeps
    <2>4. ASSUME NEW q \in Request, Peer(q) PROVE A
        BY <2>1, <2>4, PeerKeeps
    <2>5. ASSUME NEW q \in Request, Step(q) PROVE A
        BY <2>1, <2>5, StepKeeps DEF StepEffect, Moved
    <2>6. QED
        BY <2>1, <2>2, <2>3, <2>4, <2>5, NextCases, TickKeeps, ConnectionKeeps, StutterKeeps
        DEF poolVars
<1>2. QED
    BY <1>1, PoolInvHolds, PTL DEF Spec, NoReplay

-----------------------------------------------------------------------------
(* The tables of remotes. *)

\* r proves that its node is behind its connection.
Vouches(r) == r.full /\ handler[r].pc \notin {"idle", "verified", "rejected"}

\* A request that vouches for its host goes on vouching for it.
LEMMA VouchesStable ==
    ASSUME PoolInv, [Next]_vars, NEW r \in Request, Vouches(r)
    PROVE  Vouches(r)'
<1>1. PoolTypeOK /\ NonceSaved /\ handler \in [Request -> Handler]
    BY DEF PoolInv, PoolTypeOK
<1>2. CASE UNCHANGED handler
    BY <1>2 DEF Vouches
<1>3. ASSUME NEW q \in Request, Verify(q) PROVE Vouches(r)'
    BY <1>1, <1>3, ReplayStep, VerifyKeeps DEF Vouches
<1>4. ASSUME NEW q \in Request, Peer(q) PROVE Vouches(r)'
    BY <1>1, <1>4, PeerKeeps, FreshType DEF Vouches, PC
<1>5. ASSUME NEW q \in Request, Step(q) PROVE Vouches(r)'
    BY <1>1, <1>5, StepKeeps DEF StepEffect, Moved, Vouches
<1>6. QED
    BY <1>1, <1>2, <1>3, <1>4, <1>5, NextCases, TickKeeps, ConnectionKeeps, StutterKeeps
    DEF poolVars

LEMMA RemoteAuthenticatedInductive ==
    PoolInv /\ RemoteAuthenticated /\ [Next]_vars => RemoteAuthenticated'
<1> SUFFICES ASSUME PoolInv, RemoteAuthenticated, [Next]_vars,
                    NEW n \in Node, NEW c \in Conn, remoteHosts'[n] = c
             PROVE  \E r \in Request : r.node = n /\ r.conn = c /\ Vouches(r)'
    BY DEF RemoteAuthenticated, Vouches
<1>1. /\ PoolTypeOK /\ remoteHosts \in [Node -> Conn \cup {None}] /\ None \notin Conn
      /\ \A r \in Request : r.node \in Node
    BY PoolAssumption, RequestFacts DEF PoolInv, PoolTypeOK
<1>2. CASE remoteHosts[n] = c
    BY <1>2, VouchesStable DEF RemoteAuthenticated, Vouches
<1>3. ASSUME NEW q \in Request, q.full, Register(q), handler'[q].pc = "connecting"
      PROVE  \E r \in Request : r.node = n /\ r.conn = c /\ Vouches(r)'
    <2>1. CASE q.node = n
        BY <1>1, <1>3, <2>1 DEF Register, Vouches
    <2>2. CASE q.node # n
        BY <1>1, <1>2, <1>3, <2>2 DEF Register
    <2>3. QED
        BY <2>1, <2>2
<1>4. ASSUME NEW d \in Conn, CloseRemote(d) PROVE remoteHosts[n] = c
    BY <1>1, <1>4 DEF CloseRemote, remoteVars, PoolTypeOK
<1>5. ASSUME NEW d \in Conn, Disconnect(d) PROVE remoteHosts[n] = c
    BY <1>5 DEF Disconnect, remoteVars
<1>6. QED
    BY <1>1, <1>2, <1>3, <1>4, <1>5, NextCases, TickKeeps, VerifyKeeps, PeerKeeps, StepKeeps,
       StutterKeeps
    DEF StepEffect, remoteVars, poolVars

\* A remote in remoteHosts belongs to a host that signed a connect over it,
\* for any number of hosts, connections, reconnects and stale handlers.
THEOREM RemoteAuthenticatedHolds == Spec => []RemoteAuthenticated
<1>1. Init => RemoteAuthenticated
    BY PoolAssumption DEF Init, RemoteAuthenticated
<1>2. PoolInv /\ RemoteAuthenticated /\ [Next]_vars => RemoteAuthenticated'
    BY RemoteAuthenticatedInductive
<1>3. QED
    BY <1>1, <1>2, PoolInvHolds, PTL DEF Spec

\* Two hosts never share a connection, because the requests do not.
LEMMA RemoteCanBeClosedInductive ==
    PoolInv /\ RemoteAuthenticated /\ RemoteCanBeClosed /\ [Next]_vars => RemoteCanBeClosed'
<1> SUFFICES ASSUME PoolInv, RemoteAuthenticated, RemoteCanBeClosed, [Next]_vars, OneNodePerConn,
                    NEW n \in Node, NEW c \in Conn, remoteHosts'[n] = c
             PROVE  remoteNodeLookup'[c] = n
    BY DEF RemoteCanBeClosed, OneNodePerConn
<1>1. /\ PoolTypeOK /\ None \notin Conn /\ None \notin Node
      /\ remoteHosts \in [Node -> Conn \cup {None}]
      /\ remoteNodeLookup \in [Conn -> Node \cup {None}]
      /\ \A r \in Request : r.node \in Node /\ r.conn \in Conn
    BY PoolAssumption, StoreAssumption, RequestFacts DEF PoolInv, PoolTypeOK
<1>2. remoteHosts[n] = c => remoteNodeLookup[c] = n
    BY DEF RemoteCanBeClosed
<1>3. CASE UNCHANGED remoteVars
    BY <1>2, <1>3 DEF remoteVars
<1>4. ASSUME NEW q \in Request, q.full, Register(q) PROVE remoteNodeLookup'[c] = n
    <2>1. CASE q.node = n
        BY <1>1, <1>4, <2>1 DEF Register
    <2>2. CASE q.node # n
        <3>1. remoteHosts[n] = c
            BY <1>1, <1>4, <2>2 DEF Register
        <3>2. PICK r \in Request : r.node = n /\ r.conn = c /\ r.full
            BY <3>1 DEF RemoteAuthenticated
        <3>3. q.conn # c
            BY <1>4, <2>2, <3>2 DEF OneNodePerConn
        <3>4. QED
            BY <1>1, <1>2, <1>4, <3>1, <3>3 DEF Register
    <2>3. QED
        BY <2>1, <2>2
<1>5. ASSUME NEW d \in Conn, CloseRemote(d) PROVE remoteNodeLookup'[c] = n
    <2>1. CASE remoteNodeLookup[d] = None
        BY <1>1, <1>3, <1>5, <2>1 DEF CloseRemote
    <2>2. CASE remoteNodeLookup[d] # None
        <3>1. /\ remoteHosts' = [remoteHosts EXCEPT ![remoteNodeLookup[d]] = None]
              /\ remoteNodeLookup' = [remoteNodeLookup EXCEPT ![d] = None]
            BY <1>5, <2>2 DEF CloseRemote
        <3>2. remoteHosts[n] = c /\ n # remoteNodeLookup[d]
            BY <1>1, <2>2, <3>1
        <3>3. QED
            BY <1>1, <1>2, <3>1, <3>2
    <2>3. QED
        BY <2>1, <2>2
<1>6. ASSUME NEW d \in Conn, Disconnect(d) PROVE UNCHANGED remoteVars
    BY <1>6 DEF Disconnect
<1>7. QED
    BY <1>1, <1>3, <1>4, <1>5, <1>6, NextCases, TickKeeps, VerifyKeeps, PeerKeeps, StepKeeps,
       StutterKeeps
    DEF StepEffect, remoteVars, poolVars

\* When every connection serves one host, CloseRemote finds every remote that
\* remoteHosts holds.  That two entries of remoteHosts cannot share a
\* connection rests on RemoteAuthenticated.
THEOREM RemoteCanBeClosedHolds == Spec => []RemoteCanBeClosed
<1>1. Init => RemoteCanBeClosed
    BY PoolAssumption DEF Init, RemoteCanBeClosed
<1>2. PoolInv /\ RemoteAuthenticated /\ RemoteCanBeClosed /\ [Next]_vars => RemoteCanBeClosed'
    BY RemoteCanBeClosedInductive
<1>3. QED
    BY <1>1, <1>2, PoolInvHolds, RemoteAuthenticatedHolds, PTL DEF Spec

-----------------------------------------------------------------------------
(* The locals of a handler. *)

SameCalls(r) == handler'[r].call = handler[r].call /\ handler'[r].via = handler[r].via

SamePeers(r) == handler'[r].peers = handler[r].peers

\* The outcome s of one whitelist call, which was placed before; a host that
\* serves it trusts the caller from then on.
CallMoves(r, n, s) ==
    /\ handler[r].call[n] # "none" /\ s # "none"
    /\ handler'[r].call = [handler[r].call EXCEPT ![n] = s]
    /\ \/ s = "error"
       \/ s = "served" /\ <<handler[r].via[n], r.node>> \in trusted'
       \/ s = "accepted" /\ handler[r].call[n] = "served"

\* The ways in which a step changes the locals of its handler.
LocalsMove(r) ==
    LET pc == handler[r].pc
        pcNext == handler'[r].pc
    IN  \/ /\ pcNext \notin {"active", "crediting", "skipping", "candidates", "calling"}
           /\ SameCalls(r)
        \/ pcNext = "active" /\ handler'[r].peers = NodePeers(r.node) /\ SameCalls(r)
        \/ pcNext = "crediting" /\ pc \in {"active", "crediting"} /\ SamePeers(r) /\ SameCalls(r)
        \/ pcNext = "skipping" /\ r.node \in handler'[r].peers /\ SameCalls(r)
        \/ pcNext = "candidates" /\ pc = "skipping" /\ SamePeers(r) /\ SameCalls(r)
        \/ /\ pcNext = "calling" /\ pc = "candidates" /\ SamePeers(r)
           /\ \A n \in Node : handler'[r].call[n] # "none" =>
                  /\ n \notin handler[r].peers
                  /\ remoteHosts[n] # None
                  /\ handler'[r].via[n] = remoteHosts[n]
                  /\ handler'[r].call[n] = "sent"
        \/ /\ pcNext = "calling" /\ pc = "calling" /\ SamePeers(r)
           /\ handler'[r].via = handler[r].via
           /\ \E n \in Node, s \in CallState : CallMoves(r, n, s)

LEMMA StepLocals ==
    ASSUME PoolTypeOK, NEW r \in Request, Step(r)
    PROVE  LocalsMove(r)
<1> USE DEF At
<1>1. handler \in [Request -> Handler] /\ handler[r] \in Handler
      /\ Final = {"done", "rejected", "failed"}
    BY DEF PoolTypeOK, Final
<1>2. ASSUME NEW pc \in {"done", "failed", "rejected"}, Return(r, pc) PROVE LocalsMove(r)
    <2> DEFINE h == Cleared(pc, handler[r].call, handler[r].via)
    <2>1. h \in Handler /\ h.pc = pc /\ h.call = handler[r].call /\ h.via = handler[r].via
        BY <1>1 DEF Cleared, Handler, HandlerRecord, PC
    <2>2. Become(r, h)
        BY <1>2 DEF Return
    <2> HIDE DEF h
    <2>3. QED
        BY <1>1, <2>1, <2>2, BecomeEffect DEF LocalsMove, SameCalls
<1>3. ASSUME NEW pc \in {"saved", "requesting", "updated", "debiting"}, Goto(r, pc)
      PROVE  LocalsMove(r)
    <2> DEFINE h == [handler[r] EXCEPT !.pc = pc]
    <2>1. h \in Handler /\ h.pc = pc /\ h.call = handler[r].call /\ h.via = handler[r].via
        BY <1>1 DEF Handler, HandlerRecord, PC
    <2>2. Become(r, h)
        BY <1>3 DEF Goto
    <2> HIDE DEF h
    <2>3. QED
        BY <1>1, <2>1, <2>2, BecomeEffect DEF LocalsMove, SameCalls
<1>4. CASE \/ AddNode(r) \/ ConnectReject(r) \/ ConnectSetNode(r) \/ OnClient(r)
           \/ UpdatePeers(r) \/ UpdateBlockNumberFails(r) \/ CheckMinBalance(r) \/ Debit(r)
           \/ RequestReturn(r)
    BY <1>2, <1>3, <1>4 DEF AddNode, ConnectReject, ConnectSetNode, OnClient, UpdatePeers,
       UpdateBlockNumberFails, CheckMinBalance, Debit, RequestReturn
<1>5. CASE ConnectRemote(r)
    <2> DEFINE h == [handler[r] EXCEPT !.pc = "connecting", !.seen = now]
    <2>a. now \in Int
        BY DEF PoolTypeOK, StoreTypeOK
    <2>1. /\ h \in Handler /\ h.pc = "connecting"
          /\ h.call = handler[r].call /\ h.via = handler[r].via
        BY <1>1, <2>a DEF Handler, HandlerRecord, PC
    <2>2. Become(r, h)
        BY <1>5 DEF ConnectRemote
    <2> HIDE DEF h
    <2>3. QED
        BY <1>1, <2>1, <2>2, BecomeEffect DEF LocalsMove, SameCalls
<1>6. CASE UpdateGetNode(r)
    <2> DEFINE h == [handler[r] EXCEPT !.pc = "got", !.seen = nodes[r.node].lastSeen,
                                       !.isHost = nodes[r.node].isHost]
    <2>1. CASE Registered(r.node) /\ Become(r, h)
        <3>1. nodes[r.node] \in MemNode
            BY <2>1, RequestFacts DEF PoolTypeOK, StoreTypeOK, Registered
        <3>2. h \in Handler /\ h.pc = "got" /\ h.call = handler[r].call /\ h.via = handler[r].via
            BY <1>1, <3>1 DEF Handler, HandlerRecord, PC, MemNode
        <3> HIDE DEF h
        <3>3. QED
            BY <1>1, <2>1, <3>2, BecomeEffect DEF LocalsMove, SameCalls
    <2>2. QED
        BY <1>2, <1>6, <2>1 DEF UpdateGetNode
<1>7. CASE UpdateActive(r)
    <2> DEFINE h == [handler[r] EXCEPT !.pc = "active", !.peers = NodePeers(r.node)]
    <2>1. /\ h \in Handler /\ h.pc = "active" /\ h.peers = NodePeers(r.node)
          /\ h.call = handler[r].call /\ h.via = handler[r].via
        BY <1>1 DEF Handler, HandlerRecord, PC, NodePeers
    <2>2. Become(r, h)
        BY <1>7 DEF UpdateActive
    <2> HIDE DEF h
    <2>3. QED
        BY <1>1, <2>1, <2>2, BecomeEffect DEF LocalsMove, SameCalls
<1>8. CASE OnUpdate(r)
    <2> DEFINE credit == IntervalCredit(handler[r].seen)
               h == [handler[r] EXCEPT !.pc = "crediting", !.credit = credit,
                                       !.todo = handler[r].peers]
    <2>1. handler[r].seen \in Int /\ now \in Int
        BY <1>1 DEF Handler, HandlerRecord, PoolTypeOK, StoreTypeOK
    <2>2. credit \in Int
        BY <2>1, PoolAssumption DEF IntervalCredit
    <2>3. Return(r, "done") \/ Become(r, h)
        BY <1>8 DEF OnUpdate
    <2> HIDE DEF credit
    <2>4. /\ h \in Handler /\ h.pc = "crediting" /\ h.peers = handler[r].peers
          /\ h.call = handler[r].call /\ h.via = handler[r].via
        BY <1>1, <2>2 DEF Handler, HandlerRecord, PC
    <2> HIDE DEF h
    <2>5. CASE Become(r, h)
        BY <1>1, <1>8, <2>4, <2>5, BecomeEffect DEF LocalsMove, SameCalls, SamePeers, OnUpdate
    <2>6. QED
        BY <1>2, <2>3, <2>5
<1>9. ASSUME NEW p \in Node, CreditPeer(r, p) PROVE LocalsMove(r)
    <2> DEFINE h == [handler[r] EXCEPT !.todo = @ \ {p}]
    <2>1. /\ h \in Handler /\ h.pc = "crediting" /\ h.peers = handler[r].peers
          /\ h.call = handler[r].call /\ h.via = handler[r].via
        BY <1>1, <1>9 DEF Handler, HandlerRecord, CreditPeer
    <2>2. Become(r, h)
        BY <1>9 DEF CreditPeer
    <2> HIDE DEF h
    <2>3. QED
        BY <1>1, <1>9, <2>1, <2>2, BecomeEffect DEF LocalsMove, SameCalls, SamePeers, CreditPeer
<1>10. CASE RequestSkip(r)
    <2> DEFINE h == [handler[r] EXCEPT !.pc = "skipping",
                                       !.peers = NodePeers(r.node) \cup {r.node}]
    <2>1. /\ h \in Handler /\ h.pc = "skipping" /\ r.node \in h.peers
          /\ h.call = handler[r].call /\ h.via = handler[r].via
        BY <1>1, RequestFacts DEF Handler, HandlerRecord, PC, NodePeers
    <2>2. Return(r, "done") \/ Return(r, "failed") \/ Become(r, h)
        BY <1>10 DEF RequestSkip
    <2> HIDE DEF h
    <2>3. CASE Become(r, h)
        BY <1>1, <2>1, <2>3, BecomeEffect DEF LocalsMove, SameCalls
    <2>4. QED
        BY <1>2, <2>2, <2>3
<1>11. CASE RequestActiveHosts(r)
    <2>1. PICK hosts \in ActiveHosts(r.kind, NumRequestHosts(r) + Cardinality(handler[r].peers)) :
              Become(r, [handler[r] EXCEPT !.pc = "candidates", !.todo = hosts])
        BY <1>11 DEF RequestActiveHosts
    <2>2. hosts \subseteq Node
        BY <2>1 DEF ActiveHosts, kSubset
    <2> DEFINE h == [handler[r] EXCEPT !.pc = "candidates", !.todo = hosts]
    <2>3. /\ h \in Handler /\ h.pc = "candidates" /\ h.peers = handler[r].peers
          /\ h.call = handler[r].call /\ h.via = handler[r].via
        BY <1>1, <2>2 DEF Handler, HandlerRecord, PC
    <2>4. Become(r, h)
        BY <2>1
    <2> HIDE DEF h
    <2>5. QED
        BY <1>1, <1>11, <2>3, <2>4, BecomeEffect
        DEF LocalsMove, SameCalls, SamePeers, RequestActiveHosts
<1>12. CASE RequestRemotes(r)
    <2> DEFINE call == [n \in Node |-> IF n \in Remotes(r) THEN "sent" ELSE "none"]
               via == [n \in Node |-> IF n \in Remotes(r) THEN remoteHosts[n] ELSE None]
               h == [handler[r] EXCEPT !.pc = "calling", !.call = call, !.via = via]
    <2>1. call \in [Node -> CallState] /\ via \in [Node -> Conn \cup {None}]
        BY DEF CallState, PoolTypeOK
    <2>2. \A n \in Node : call[n] # "none" =>
              /\ n \notin handler[r].peers /\ remoteHosts[n] # None
              /\ via[n] = remoteHosts[n] /\ call[n] = "sent"
        BY DEF Remotes
    <2>3. Become(r, h)
        BY <1>12 DEF RequestRemotes
    <2> HIDE DEF call, via
    <2>4. /\ h \in Handler /\ h.pc = "calling" /\ h.peers = handler[r].peers
          /\ h.call = call /\ h.via = via
        BY <1>1, <2>1, <2>2 DEF Handler, HandlerRecord, PC
    <2> HIDE DEF h
    <2>5. QED
        BY <1>1, <1>12, <2>2, <2>3, <2>4, BecomeEffect DEF LocalsMove, SamePeers, RequestRemotes
<1>13. ASSUME NEW n \in Node,
              HostWhitelists(r, n) \/ HostRefuses(r, n) \/ HostAccepted(r, n) \/ CallTimesOut(r, n)
       PROVE  LocalsMove(r)
    <2>1. PICK s \in {"served", "accepted", "error"} :
             /\ SetCall(r, n, s) /\ At(r, "calling") /\ handler[r].call[n] # "none"
             /\ \/ s = "error"
                \/ s = "served" /\ <<handler[r].via[n], r.node>> \in trusted'
                \/ s = "accepted" /\ handler[r].call[n] = "served"
        BY <1>13 DEF HostWhitelists, HostRefuses, HostAccepted, CallTimesOut, CallIs
    <2>a. s \in CallState
        BY DEF CallState
    <2>2. /\ handler'[r].pc = "calling" /\ SamePeers(r) /\ handler'[r].via = handler[r].via
          /\ handler'[r].call = [handler[r].call EXCEPT ![n] = s]
        BY <1>1, <2>1, <2>a, SetCallMoves DEF SamePeers
    <2>3. CallMoves(r, n, s)
        BY <2>1, <2>2 DEF CallMoves
    <2>4. QED
        BY <2>1, <2>2, <2>3, <2>a DEF LocalsMove
<1>14. QED
    BY <1>4, <1>5, <1>6, <1>7, <1>8, <1>9, <1>10, <1>11, <1>12, <1>13 DEF Step

-----------------------------------------------------------------------------
(* Billing: the peers of an update stay in the store. *)

LEMMA CreditCannotFailInductive ==
    PoolTypeOK /\ CreditCannotFail /\ [Next]_vars => CreditCannotFail'
<1> SUFFICES ASSUME PoolTypeOK, CreditCannotFail, [Next]_vars,
                    NEW r \in Request, handler'[r].pc \in {"active", "crediting"},
                    NEW p \in Node, p \in handler'[r].peers
             PROVE  nodes'[p] # None
    <2>1. SUFFICES ASSUME PoolTypeOK, CreditCannotFail, [Next]_vars PROVE CreditCannotFail'
        OBVIOUS
    <2>2. PoolTypeOK'
        BY <2>1, PoolTypeInductive
    <2>3. \A r \in Request : handler'[r].peers \subseteq Node
        BY <2>2 DEF PoolTypeOK, Handler, HandlerRecord
    <2>4. QED
        BY <2>1, <2>3 DEF CreditCannotFail, Registered
<1>1. handler \in [Request -> Handler]
    BY DEF PoolTypeOK
<1>2. CASE handler'[r] = handler[r] /\ \A n \in Node : Registered(n) => nodes'[n] # None
    BY <1>2 DEF CreditCannotFail
<1>3. ASSUME NEW q \in Request, Verify(q) PROVE nodes'[p] # None
    BY <1>1, <1>2, <1>3, VerifyKeeps, FreshType DEF Registered, PC
<1>4. ASSUME NEW q \in Request, Peer(q) PROVE nodes'[p] # None
    BY <1>1, <1>2, <1>4, PeerKeeps, FreshType DEF Registered, PC, storeVars
<1>5. ASSUME NEW q \in Request, Step(q) PROVE nodes'[p] # None
    <2>1. Moved(q) /\ \A n \in Node : Registered(n) => nodes'[n] # None
        BY <1>5, StepKeeps DEF StepEffect
    <2>2. CASE q # r
        BY <1>2, <2>1, <2>2 DEF Moved
    <2>3. CASE q = r
        <3>1. \/ handler'[r].peers = NodePeers(r.node)
              \/ handler[r].pc \in {"active", "crediting"} /\ SamePeers(r)
            BY <1>5, <2>3, StepLocals DEF LocalsMove
        <3>2. Registered(p)
            BY <3>1 DEF NodePeers, SamePeers, CreditCannotFail
        <3>3. QED
            BY <2>1, <3>2
    <2>4. QED
        BY <2>2, <2>3
<1>6. QED
    BY <1>2, <1>3, <1>4, <1>5, NextCases, TickKeeps, ConnectionKeeps, StutterKeeps
    DEF poolVars, storeVars, Registered

\* OnUpdate never charges a client for credit that AddNodeBalance refused to
\* add: between NodePeers and the last AddNodeBalance, no interleaved handler
\* of any other node can take a peer out of the store.
THEOREM CreditCannotFailHolds == Spec => []CreditCannotFail
<1>1. Init => CreditCannotFail
    BY FreshType DEF Init, CreditCannotFail, PC
<1>2. PoolTypeOK /\ CreditCannotFail /\ [Next]_vars => CreditCannotFail'
    BY CreditCannotFailInductive
<1>3. QED
    BY <1>1, <1>2, PoolTypeCorrect, PTL DEF Spec
-----------------------------------------------------------------------------
(* The hosts that requestHosts returns. *)

\* A call in flight or answered was placed to a host, over its own connection;
\* the caller is among the peers that are skipped; who served trusts.
CallJustified(r, n) ==
    /\ handler[r].call[n] # "none" =>
          /\ n # r.node
          /\ \E h \in Request : h.node = n /\ h.conn = handler[r].via[n] /\ h.full
          /\ handler[r].pc = "calling" => n \notin handler[r].peers
    /\ handler[r].call[n] \in {"served", "accepted"} =>
          <<handler[r].via[n], r.node>> \in trusted

CallsJustified ==
    \A r \in Request :
        /\ handler[r].pc \in {"skipping", "candidates", "calling"} => r.node \in handler[r].peers
        /\ \A n \in Node : CallJustified(r, n)

LEMMA CallsJustifiedInductive ==
    PoolTypeOK /\ RemoteAuthenticated /\ CallsJustified /\ [Next]_vars => CallsJustified'
<1> SUFFICES ASSUME PoolTypeOK, RemoteAuthenticated, CallsJustified, [Next]_vars,
                    NEW r \in Request
             PROVE  /\ handler'[r].pc \in {"skipping", "candidates", "calling"} =>
                           r.node \in handler'[r].peers
                    /\ \A n \in Node : CallJustified(r, n)'
    BY DEF CallsJustified
<1> DEFINE Goal == /\ handler'[r].pc \in {"skipping", "candidates", "calling"} =>
                           r.node \in handler'[r].peers
                   /\ \A n \in Node : CallJustified(r, n)'
<1>1. handler \in [Request -> Handler] /\ handler[r] \in Handler
    BY DEF PoolTypeOK
<1>2. CASE handler'[r] = handler[r] /\ trusted \subseteq trusted'
    BY <1>2 DEF CallsJustified, CallJustified
<1>3. ASSUME NEW pc \in {"verified", "requesting"}, handler'[r] = Fresh(pc) PROVE Goal
    <2>1. handler'[r].pc = pc /\ \A n \in Node : handler'[r].call[n] = "none"
        BY <1>3 DEF Fresh, Cleared
    <2>2. QED
        BY <2>1 DEF CallJustified
<1>4. ASSUME NEW q \in Request, Verify(q) PROVE Goal
    BY <1>1, <1>2, <1>3, <1>4, VerifyKeeps
<1>5. ASSUME NEW q \in Request, Peer(q) PROVE Goal
    BY <1>1, <1>2, <1>3, <1>5, PeerKeeps
<1>6. ASSUME NEW q \in Request, Step(q), q # r PROVE Goal
    BY <1>2, <1>6, StepKeeps DEF StepEffect, Moved
<1>7. CASE Step(r)
    <2>1. trusted \subseteq trusted' /\ LocalsMove(r)
        BY <1>7, StepKeeps, StepLocals DEF StepEffect
    <2>2. CASE SameCalls(r) /\ handler'[r].pc # "calling"
        <3>1. \A n \in Node : CallJustified(r, n)'
            BY <2>1, <2>2 DEF SameCalls, CallsJustified, CallJustified
        <3>2. handler'[r].pc \in {"skipping", "candidates"} => r.node \in handler'[r].peers
            BY <2>1 DEF LocalsMove, SamePeers, CallsJustified
        <3>3. QED
            BY <2>2, <3>1, <3>2
    <2>3. CASE /\ handler[r].pc = "candidates" /\ SamePeers(r)
               /\ \A n \in Node : handler'[r].call[n] # "none" =>
                      /\ n \notin handler[r].peers
                      /\ remoteHosts[n] # None
                      /\ handler'[r].via[n] = remoteHosts[n]
                      /\ handler'[r].call[n] = "sent"
        <3>1. r.node \in handler[r].peers /\ r.node \in handler'[r].peers
            BY <2>3 DEF CallsJustified, SamePeers
        <3>2. ASSUME NEW n \in Node, handler'[r].call[n] # "none" PROVE
                  \E h \in Request : h.node = n /\ h.conn = handler'[r].via[n] /\ h.full
            <4>1. remoteHosts[n] \in Conn /\ handler'[r].via[n] = remoteHosts[n]
                BY <2>3, <3>2 DEF PoolTypeOK
            <4>2. QED
                BY <4>1 DEF RemoteAuthenticated
        <3>3. QED
            BY <2>3, <3>1, <3>2 DEF CallJustified, SamePeers
    <2>4. CASE /\ handler[r].pc = "calling" /\ SamePeers(r)
               /\ handler'[r].via = handler[r].via
               /\ \E m \in Node, s \in CallState : CallMoves(r, m, s)
        <3>1. PICK m \in Node, s \in CallState : CallMoves(r, m, s)
            BY <2>4
        <3>2. handler[r].call \in [Node -> CallState]
            BY <1>1 DEF Handler, HandlerRecord
        <3>3. \A n \in Node : n # m => CallJustified(r, n)'
            BY <2>1, <2>4, <3>1, <3>2 DEF CallMoves, CallJustified, CallsJustified, SamePeers
        <3>4. CallJustified(r, m)'
            BY <2>1, <2>4, <3>1, <3>2 DEF CallMoves, CallJustified, CallsJustified, SamePeers
        <3>5. QED
            BY <2>4, <3>3, <3>4 DEF CallsJustified, SamePeers
    <2>5. QED
        BY <2>1, <2>2, <2>3, <2>4 DEF LocalsMove
<1>8. QED
    BY <1>2, <1>4, <1>5, <1>6, <1>7, NextCases, TickKeeps, ConnectionKeeps, StutterKeeps
    DEF poolVars

\* A client is only ever told of a host that has whitelisted it, over a
\* connection on which that host had identified itself: no interleaving of
\* reconnects, disconnects, time-outs and other clients' requests breaks it.
THEOREM ReturnedHostTrustsHolds == Spec => []ReturnedHostTrusts
<1>1. Init => CallsJustified
    <2> SUFFICES ASSUME Init PROVE CallsJustified
        OBVIOUS
    <2>1. \A r \in Request : handler[r].pc = "idle" /\ \A n \in Node : handler[r].call[n] = "none"
        BY DEF Init, Fresh, Cleared
    <2>2. QED
        BY <2>1 DEF CallsJustified, CallJustified
<1>2. PoolTypeOK /\ RemoteAuthenticated /\ CallsJustified /\ [Next]_vars => CallsJustified'
    BY CallsJustifiedInductive
<1>3. CallsJustified => ReturnedHostTrusts
    BY DEF CallsJustified, CallJustified, ReturnedHostTrusts, Accepted
<1>4. QED
    BY <1>1, <1>2, <1>3, PoolTypeCorrect, RemoteAuthenticatedHolds, PTL DEF Spec
-----------------------------------------------------------------------------
(* Billing: the sum of all purses. *)

\* The two sides of ZeroSum, as sums of functions.
Credits == [a \in Account |-> GetAccountBalance(a).credit]

TrialCredits == [n \in Node |-> TrialCredit(n)]

Claims == [r \in Request |-> Outstanding(r)]

Purses == Sum(Credits, Account) + Sum(TrialCredits, Node)

Claimed == Sum(Claims, Request)

LEMMA CreditsFold ==
    MapThenSumSet(LAMBDA a : GetAccountBalance(a).credit, Account) = Sum(Credits, Account)
<1> DEFINE Fold(it) ==
        it = [s \in SUBSET Account |->
                 IF s = {} THEN 0 ELSE GetAccountBalance(Taken(s)).credit + it[s \ {Taken(s)}]]
           i == CHOOSE it : Fold(it)
<1>1. IsFiniteSet(Account)
    BY PoolAssumption
<1>2. \A s \in SUBSET Account : s # {} => Credits[Taken(s)] = GetAccountBalance(Taken(s)).credit
    BY TakenIn DEF Credits
<1>3. \A it : Fold(it) <=> Iterates(it, Credits, Account)
    BY <1>2 DEF Iterates
<1>4. Iterates(i, Credits, Account)
    BY <1>1, <1>3, IteratesExists
<1>5. MapThenSumSet(LAMBDA a : GetAccountBalance(a).credit, Account) = i[Account]
    BY DEF MapThenSumSet, MapThenFoldSet, Taken
<1>6. QED
    BY <1>1, <1>4, <1>5, IteratesSum

LEMMA TrialCreditsFold ==
    MapThenSumSet(TrialCredit, Node) = Sum(TrialCredits, Node)
<1> DEFINE Fold(it) ==
        it = [s \in SUBSET Node |->
                 IF s = {} THEN 0 ELSE TrialCredit(Taken(s)) + it[s \ {Taken(s)}]]
           i == CHOOSE it : Fold(it)
<1>1. IsFiniteSet(Node)
    BY PoolAssumption
<1>2. \A s \in SUBSET Node : s # {} => TrialCredits[Taken(s)] = TrialCredit(Taken(s))
    BY TakenIn DEF TrialCredits
<1>3. \A it : Fold(it) <=> Iterates(it, TrialCredits, Node)
    BY <1>2 DEF Iterates
<1>4. Iterates(i, TrialCredits, Node)
    BY <1>1, <1>3, IteratesExists
<1>5. MapThenSumSet(TrialCredit, Node) = i[Node]
    BY DEF MapThenSumSet, MapThenFoldSet, Taken
<1>6. QED
    BY <1>1, <1>4, <1>5, IteratesSum

LEMMA ClaimsFold ==
    MapThenSumSet(Outstanding, Request) = Sum(Claims, Request)
<1> DEFINE Fold(it) ==
        it = [s \in SUBSET Request |->
                 IF s = {} THEN 0 ELSE Outstanding(Taken(s)) + it[s \ {Taken(s)}]]
           i == CHOOSE it : Fold(it)
<1>1. IsFiniteSet(Request)
    BY PoolAssumption
<1>2. \A s \in SUBSET Request : s # {} => Claims[Taken(s)] = Outstanding(Taken(s))
    BY TakenIn DEF Claims
<1>3. \A it : Fold(it) <=> Iterates(it, Claims, Request)
    BY <1>2 DEF Iterates
<1>4. Iterates(i, Claims, Request)
    BY <1>1, <1>3, IteratesExists
<1>5. MapThenSumSet(Outstanding, Request) = i[Request]
    BY DEF MapThenSumSet, MapThenFoldSet, Taken
<1>6. QED
    BY <1>1, <1>4, <1>5, IteratesSum

LEMMA ZeroSumFolds == ZeroSum <=> Purses = Claimed
    BY CreditsFold, TrialCreditsFold, ClaimsFold DEF ZeroSum, TotalCredit, Purses, Claimed

\* What the purses and claims of a well-typed pool hold.
LEMMA PursesType ==
    ASSUME StoreTypeOK
    PROVE  /\ \A a \in Account : Credits[a] \in Int
           /\ \A n \in Node : TrialCredits[n] \in Int
           /\ Sum(Credits, Account) \in Int /\ Sum(TrialCredits, Node) \in Int
<1>1. \A a \in Account : Credits[a] \in Int
    BY LookupType DEF Credits, Balance
<1>2. \A n \in Node : TrialCredits[n] \in Int
    BY LookupType DEF TrialCredits
<1>3. QED
    BY <1>1, <1>2, PoolAssumption, SumType

LEMMA ClaimsType ==
    ASSUME PoolTypeOK
    PROVE  /\ \A r \in Request : Outstanding(r) \in Int /\ Claims[r] = Outstanding(r)
           /\ Claimed \in Int
<1>1. \A r \in Request : handler[r].credit \in Int /\ handler[r].peers \ handler[r].todo \in SUBSET Node
    BY DEF PoolTypeOK, Handler, HandlerRecord
<1>2. \A r \in Request : Cardinality(handler[r].peers \ handler[r].todo) \in Nat
    BY <1>1, CardinalityType
<1>3. \A r \in Request : Outstanding(r) \in Int /\ Claims[r] = Outstanding(r)
    BY <1>1, <1>2 DEF Outstanding, Claims
<1>4. QED
    BY <1>3, PoolAssumption, SumType DEF Claimed

\* AddNodeBalance adds c to one purse.
LEMMA GrantMoves ==
    ASSUME StoreTypeOK, NEW n \in Node, NEW c \in Int, AddNodeBalance(n, c)
    PROVE  Purses' = Purses + c
<1>1. /\ \A a \in Account : Credits[a] \in Int /\ Credits[a] = GetAccountBalance(a).credit
      /\ \A m \in Node : TrialCredits[m] \in Int /\ TrialCredits[m] = TrialCredit(m)
      /\ Sum(Credits, Account) \in Int /\ Sum(TrialCredits, Node) \in Int
      /\ IsFiniteSet(Account) /\ IsFiniteSet(Node)
    BY PursesType, PoolAssumption DEF Credits, TrialCredits
<1>2. Purses' = Sum(Credits', Account) + Sum(TrialCredits', Node)
    BY DEF Purses
<1>3. CASE accounts[n] # None
    <2> DEFINE a == accounts[n]
    <2>1. a \in Account
        BY <1>3 DEF StoreTypeOK
    <2>2. /\ balances' = [balances EXCEPT ![a] =
                              [account |-> GetAccountBalance(a).account,
                               credit |-> GetAccountBalance(a).credit + c]]
          /\ UNCHANGED trials
        BY <1>3 DEF AddNodeBalance, AddAccountBalance
    <2> HIDE DEF a
    <2>3. TrialCredits' = TrialCredits
        BY <2>2 DEF TrialCredits, TrialCredit
    <2>4. Credits' = [b \in Account |-> GetAccountBalance(b)'.credit]
        BY DEF Credits
    <2>5. balances'[a] = [account |-> GetAccountBalance(a).account,
                          credit |-> GetAccountBalance(a).credit + c]
          /\ balances'[a] # None
        <3>1. [account |-> GetAccountBalance(a).account,
               credit |-> GetAccountBalance(a).credit + c] \in Balance
            BY <2>1, LookupType DEF Balance
        <3>2. QED
            BY <2>1, <2>2, <3>1, NoneAssumption DEF StoreTypeOK
    <2>6. Credits'[a] = Credits[a] + c
        BY <1>1, <2>1, <2>4, <2>5 DEF GetAccountBalance
    <2>7. \A b \in Account \ {a} : Credits[b] = Credits'[b]
        BY <1>1, <2>1, <2>2, <2>4 DEF GetAccountBalance, StoreTypeOK
    <2>8. \A b \in Account : Credits[b] \in Int /\ Credits'[b] \in Int
        BY <1>1, <2>6, <2>7
    <2>9. Sum(Credits', Account) = Sum(Credits, Account) + (Credits'[a] - Credits[a])
        BY <1>1, <2>1, <2>7, <2>8, SumChange
    <2>10. QED
        BY <1>1, <1>2, <2>1, <2>3, <2>6, <2>9 DEF Purses
<1>4. CASE accounts[n] = None
    <2>1. trials' = [trials EXCEPT ![n] = TrialCredit(n) + c] /\ UNCHANGED balances
        BY <1>4 DEF AddNodeBalance
    <2>2. Credits' = Credits
        BY <2>1 DEF Credits, GetAccountBalance
    <2>3. TrialCredits' = [m \in Node |-> TrialCredit(m)']
        BY DEF TrialCredits
    <2>4. trials'[n] = TrialCredit(n) + c /\ trials'[n] # None
        BY <1>1, <2>1, StoreAssumption DEF StoreTypeOK
    <2>5. TrialCredits'[n] = TrialCredits[n] + c
        BY <1>1, <2>3, <2>4 DEF TrialCredit
    <2>6. \A m \in Node \ {n} : TrialCredits[m] = TrialCredits'[m]
        BY <1>1, <2>1, <2>3 DEF TrialCredit, StoreTypeOK
    <2>7. \A m \in Node : TrialCredits[m] \in Int /\ TrialCredits'[m] \in Int
        BY <1>1, <2>5, <2>6
    <2>8. Sum(TrialCredits', Node) = Sum(TrialCredits, Node) + (TrialCredits'[n] - TrialCredits[n])
        BY <1>1, <2>6, <2>7, SumChange
    <2>9. QED
        BY <1>1, <1>2, <2>2, <2>5, <2>8 DEF Purses
<1>5. QED
    BY <1>3, <1>4

\* AddAccountNode moves the trial of a node into an account.
LEMMA LinkMoves ==
    ASSUME StoreTypeOK, NEW a \in Account, NEW n \in Node, AddAccountNode(a, n)
    PROVE  Purses' = Purses
<1>1. /\ \A b \in Account : Credits[b] \in Int /\ Credits[b] = GetAccountBalance(b).credit
      /\ \A m \in Node : TrialCredits[m] \in Int /\ TrialCredits[m] = TrialCredit(m)
      /\ Sum(Credits, Account) \in Int /\ Sum(TrialCredits, Node) \in Int
      /\ IsFiniteSet(Account) /\ IsFiniteSet(Node)
    BY PursesType, PoolAssumption DEF Credits, TrialCredits
<1> DEFINE new == [account |-> a, credit |-> GetAccountBalance(a).credit + TrialCredit(n)]
<1>2. balances' = [balances EXCEPT ![a] = new] /\ trials' = [trials EXCEPT ![n] = None]
    BY DEF AddAccountNode
<1>3. /\ Purses' = Sum(Credits', Account) + Sum(TrialCredits', Node)
      /\ Credits' = [b \in Account |-> GetAccountBalance(b)'.credit]
      /\ TrialCredits' = [m \in Node |-> TrialCredit(m)']
    BY DEF Purses, Credits, TrialCredits
<1>4. new \in Balance /\ new.credit = Credits[a] + TrialCredits[n]
    BY <1>1, LookupType DEF Balance
<1> HIDE DEF new
<1>5. Credits'[a] = Credits[a] + TrialCredits[n]
    <2>1. balances'[a] = new /\ new # None
        BY <1>2, <1>4, NoneAssumption DEF StoreTypeOK
    <2>2. QED
        BY <1>3, <1>4, <2>1 DEF GetAccountBalance
<1>6. \A b \in Account \ {a} : Credits[b] = Credits'[b]
    BY <1>1, <1>2, <1>3 DEF GetAccountBalance, StoreTypeOK
<1>7. TrialCredits'[n] = 0
    BY <1>2, <1>3 DEF TrialCredit, StoreTypeOK
<1>8. \A m \in Node \ {n} : TrialCredits[m] = TrialCredits'[m]
    BY <1>1, <1>2, <1>3 DEF TrialCredit, StoreTypeOK
<1>9. \A b \in Account : Credits[b] \in Int /\ Credits'[b] \in Int
    BY <1>1, <1>5, <1>6
<1>10. \A m \in Node : TrialCredits[m] \in Int /\ TrialCredits'[m] \in Int
    BY <1>1, <1>7, <1>8
<1>11. Sum(Credits', Account) = Sum(Credits, Account) + (Credits'[a] - Credits[a])
    BY <1>1, <1>6, <1>9, SumChange
<1>12. Sum(TrialCredits', Node) = Sum(TrialCredits, Node) + (TrialCredits'[n] - TrialCredits[n])
    BY <1>1, <1>8, <1>10, SumChange
<1>13. QED
    BY <1>1, <1>3, <1>5, <1>7, <1>11, <1>12 DEF Purses

LEMMA PursesStay ==
    ASSUME UNCHANGED <<trials, balances>>
    PROVE  Purses' = Purses
<1>1. Credits' = Credits
    BY DEF Credits, GetAccountBalance
<1>2. TrialCredits' = TrialCredits
    BY DEF TrialCredits, TrialCredit
<1>3. QED
    BY <1>1, <1>2 DEF Purses

LEMMA ClaimsTypeNext ==
    PoolTypeOK' => \A r \in Request : Outstanding(r)' \in Int /\ Claims'[r] = Outstanding(r)'
<1>1. PoolTypeOK => \A r \in Request : Outstanding(r) \in Int /\ Claims[r] = Outstanding(r)
    BY ClaimsType
<1>2. PoolTypeOK' => (\A r \in Request : Outstanding(r) \in Int /\ Claims[r] = Outstanding(r))'
    BY <1>1, PTL
<1>3. QED
    BY <1>2

\* One handler moves, and with it what its client owes.
LEMMA ClaimMoves ==
    ASSUME PoolTypeOK, PoolTypeOK', NEW r \in Request,
           \A q \in Request : q # r => handler'[q] = handler[q]
    PROVE  Claimed' = Claimed + (Outstanding(r)' - Outstanding(r))
<1>1. \A q \in Request : Outstanding(q) \in Int /\ Claims[q] = Outstanding(q)
    BY ClaimsType
<1>2. \A q \in Request : Outstanding(q)' \in Int /\ Claims'[q] = Outstanding(q)'
    BY ClaimsTypeNext
<1>3. \A q \in Request : Claims[q] \in Int /\ Claims'[q] \in Int
    BY <1>1, <1>2
<1>4. \A q \in Request \ {r} : Claims[q] = Claims'[q]
    BY <1>1, <1>2 DEF Outstanding
<1>5. Sum(Claims', Request) = Sum(Claims, Request) + (Claims'[r] - Claims[r])
    <2>1. IsFiniteSet(Request)
        BY PoolAssumption
    <2>2. QED
        BY <1>3, <1>4, <2>1, SumChange
<1>6. Claimed' = Sum(Claims', Request)
    BY DEF Claimed
<1>7. QED
    BY <1>1, <1>2, <1>5, <1>6 DEF Claimed

\* OnUpdate cannot fail after it has credited the hosts: MinBalance is "off",
\* as by default, or allows a client to be in debt.
NoPositiveMinimum == MinBalance # None => MinBalance <= 0

Billing == {"crediting", "debiting"}

\* No handler has a time that is still to come, so that no credit is negative;
\* the peers that are left to credit are peers, and none is left at the debit.
BillFits(r) ==
    /\ handler[r].seen <= now
    /\ handler[r].credit >= 0
    /\ handler[r].pc = "crediting" => handler[r].todo \subseteq handler[r].peers
    /\ handler[r].pc = "debiting" => handler[r].todo = {}

SeenBefore == \A n \in Node : Registered(n) => nodes[n].lastSeen <= now

\* ZeroSum, made inductive.  With a positive minimum, an update may be forgiven
\* its debit, and credit is left over.
BillInv ==
    /\ \A r \in Request : BillFits(r)
    /\ SeenBefore
    /\ Purses >= Claimed
    /\ NoPositiveMinimum => Purses = Claimed

\* What a step of a handler does for the bill.
BillMoves(r) ==
    /\ now' = now
    /\ BillFits(r)'
    /\ SeenBefore'
    /\ Purses' = Purses + (Outstanding(r)' - Outstanding(r))

\* OnUpdate fails when the hosts have their credit.
BillForgiven(r) ==
    /\ ~NoPositiveMinimum
    /\ now' = now
    /\ BillFits(r)'
    /\ SeenBefore'
    /\ Purses' = Purses
    /\ Outstanding(r) >= 0 /\ Outstanding(r)' = 0

\* A handler that bills neither before nor after the step.
LEMMA NotBilling ==
    ASSUME PoolTypeOK, NEW r \in Request, NEW h \in Handler, Become(r, h),
           handler[r].pc \notin Billing, h.pc \notin Billing,
           h.seen <= now, h.credit >= 0, now' = now
    PROVE  BillFits(r)' /\ Outstanding(r) = 0 /\ Outstanding(r)' = 0
<1>1. handler'[r] = h
    BY BecomeEffect DEF PoolTypeOK
<1>2. QED
    BY <1>1 DEF BillFits, Outstanding, Billing

\* A handler that returns, without having billed.
LEMMA ReturnsUnbilled ==
    ASSUME PoolTypeOK, NEW r \in Request, NEW pc \in Final, Return(r, pc),
           handler[r].pc \notin Billing, now' = now
    PROVE  BillFits(r)' /\ Outstanding(r) = 0 /\ Outstanding(r)' = 0
<1> DEFINE h == Cleared(pc, handler[r].call, handler[r].via)
<1>1. handler[r] \in Handler /\ now \in Nat
    BY DEF PoolTypeOK, StoreTypeOK
<1>2. h \in Handler /\ h.pc = pc /\ h.seen = 0 /\ h.credit = 0
    BY <1>1 DEF Cleared, Handler, HandlerRecord, PC, Final
<1>3. Become(r, h)
    BY DEF Return
<1>4. pc \notin Billing
    BY DEF Final, Billing
<1> HIDE DEF h
<1>5. QED
    BY <1>1, <1>2, <1>3, <1>4, NotBilling

\* A handler that goes on, and does not touch what it bills.
LEMMA GoesOnUnbilled ==
    ASSUME PoolTypeOK, NEW r \in Request, BillFits(r), NEW h \in Handler, Become(r, h),
           handler[r].pc \notin Billing, h.pc \notin Billing,
           h.credit = handler[r].credit, h.seen = handler[r].seen \/ h.seen <= now,
           now' = now
    PROVE  BillFits(r)' /\ Outstanding(r) = 0 /\ Outstanding(r)' = 0
    BY NotBilling DEF BillFits

LEMMA UnbilledMoves ==
    ASSUME PoolTypeOK, NEW r \in Request, now' = now, SeenBefore', Purses' = Purses,
           BillFits(r)' /\ Outstanding(r) = 0 /\ Outstanding(r)' = 0
    PROVE  BillMoves(r)
<1>1. Purses \in Int
    BY PursesType DEF PoolTypeOK, Purses
<1>2. QED
    BY <1>1 DEF BillMoves

\* A step that leaves the store alone.
LEMMA SameStoreBills ==
    ASSUME SeenBefore, UNCHANGED storeVars
    PROVE  now' = now /\ SeenBefore' /\ Purses' = Purses
<1>1. UNCHANGED <<now, nodes, trials, balances>>
    BY DEF storeVars
<1>2. QED
    BY <1>1, PursesStay DEF SeenBefore, Registered

\* The credit of an interval that is over is not negative.
LEMMA IntervalCreditType ==
    ASSUME NEW lastSeen \in Int, now \in Int, lastSeen <= now
    PROVE  IntervalCredit(lastSeen) \in Nat
<1>1. now - lastSeen \in Nat /\ CreditPerInterval \in Nat /\ Interval \in Nat \ {0}
    BY PoolAssumption
<1>2. (now - lastSeen) * CreditPerInterval \in Nat
    BY <1>1
<1>3. \A x \in Nat : x \div Interval \in Nat
    BY <1>1
<1>4. QED
    BY <1>2, <1>3 DEF IntervalCredit

\* OnUpdate: nothing is credited yet.
LEMMA OnUpdateBills ==
    ASSUME PoolTypeOK, NEW r \in Request, BillFits(r), SeenBefore, OnUpdate(r)
    PROVE  BillMoves(r)
<1> DEFINE credit == IntervalCredit(handler[r].seen)
           h == [handler[r] EXCEPT !.pc = "crediting", !.credit = credit,
                                   !.todo = handler[r].peers]
<1>1. /\ handler[r] \in Handler /\ handler[r].seen \in Int /\ handler[r].seen <= now
      /\ now \in Int /\ handler[r].pc = "active" /\ handler \in [Request -> Handler]
    BY DEF PoolTypeOK, StoreTypeOK, Handler, HandlerRecord, BillFits, OnUpdate, At
<1>2. credit \in Nat /\ credit \in Int
    BY <1>1, IntervalCreditType
<1>3. now' = now /\ SeenBefore' /\ Purses' = Purses
    BY SameStoreBills DEF OnUpdate
<1>4. Return(r, "done") \/ Become(r, h)
    BY DEF OnUpdate
<1> HIDE DEF credit
<1>5. CASE Return(r, "done")
    <2>1. BillFits(r)' /\ Outstanding(r) = 0 /\ Outstanding(r)' = 0
        BY <1>1, <1>3, <1>5, ReturnsUnbilled DEF Final, Billing
    <2>2. QED
        BY <1>3, <2>1, UnbilledMoves
<1>6. CASE Become(r, h)
    <2>1. /\ h \in Handler /\ h.pc = "crediting" /\ h.seen = handler[r].seen /\ h.credit = credit
          /\ h.peers = handler[r].peers /\ h.todo = handler[r].peers
        BY <1>1, <1>2 DEF Handler, HandlerRecord, PC
    <2> HIDE DEF h
    <2>2. handler'[r] = h
        BY <1>1, <1>6, <2>1, BecomeEffect
    <2>3. BillFits(r)'
        BY <1>1, <1>2, <1>3, <2>1, <2>2 DEF BillFits
    <2>4. Cardinality(handler[r].peers \ handler[r].peers) = 0
        BY FS_EmptySet
    <2>5. Outstanding(r) = 0 /\ Outstanding(r)' = 0
        BY <1>1, <1>2, <2>1, <2>2, <2>4 DEF Outstanding
    <2>6. QED
        BY <1>3, <2>3, <2>5, UnbilledMoves
<1>7. QED
    BY <1>4, <1>5, <1>6

\* One peer is credited, and the client owes as much more.
LEMMA CreditPeerBills ==
    ASSUME PoolTypeOK, CreditCannotFail, NEW r \in Request, BillFits(r), SeenBefore,
           NEW p \in Node, CreditPeer(r, p)
    PROVE  BillMoves(r)
<1> DEFINE h == [handler[r] EXCEPT !.todo = @ \ {p}]
           paid == handler[r].peers \ handler[r].todo
<1>1. /\ handler[r] \in Handler /\ handler \in [Request -> Handler]
      /\ handler[r].credit \in Int /\ handler[r].peers \subseteq Node
      /\ handler[r].pc = "crediting" /\ p \in handler[r].todo
      /\ p \in handler[r].peers
    BY DEF PoolTypeOK, Handler, HandlerRecord, BillFits, CreditPeer, At
<1>2. /\ h \in Handler /\ h.pc = "crediting" /\ h.seen = handler[r].seen
      /\ h.credit = handler[r].credit /\ h.peers = handler[r].peers
      /\ h.todo = handler[r].todo \ {p}
    BY <1>1 DEF Handler, HandlerRecord
<1>3. Become(r, h)
    BY DEF CreditPeer
<1> HIDE DEF h
<1>4. handler'[r] = h
    BY <1>1, <1>2, <1>3, BecomeEffect
<1>5. Registered(p)
    BY <1>1 DEF CreditCannotFail
<1>6. AddNodeBalance(p, handler[r].credit)
    BY <1>5 DEF CreditPeer
<1>7. Purses' = Purses + handler[r].credit /\ Purses \in Int
    BY <1>1, <1>6, GrantMoves, PursesType DEF PoolTypeOK, Purses
<1>8. UNCHANGED <<now, nodes>>
    BY <1>6 DEF AddNodeBalance, AddAccountBalance
<1>9. BillFits(r)' /\ SeenBefore'
    BY <1>1, <1>2, <1>4, <1>8 DEF BillFits, SeenBefore, Registered
<1>10. /\ handler'[r].peers \ handler'[r].todo = paid \cup {p} /\ p \notin paid
       /\ paid \in SUBSET Node
    BY <1>1, <1>2, <1>4
<1>11. IsFiniteSet(paid)
    BY <1>10, PoolAssumption, FS_Subset
<1> HIDE DEF paid
<1>12. Cardinality(paid \cup {p}) = Cardinality(paid) + 1 /\ Cardinality(paid) \in Nat
    BY <1>10, <1>11, FS_AddElement, FS_CardinalityType
<1>13. /\ Outstanding(r) = handler[r].credit * Cardinality(paid)
       /\ Outstanding(r)' = handler[r].credit * (Cardinality(paid) + 1)
    BY <1>1, <1>2, <1>4, <1>10, <1>12 DEF Outstanding, paid
<1>14. Outstanding(r)' - Outstanding(r) = handler[r].credit
    BY <1>1, <1>12, <1>13
<1>15. QED
    BY <1>7, <1>8, <1>9, <1>14 DEF BillMoves

\* With every peer credited, the client owes the total.
LEMMA TotalOwed ==
    ASSUME PoolTypeOK, NEW r \in Request, handler[r].pc \in Billing, handler[r].todo = {}
    PROVE  Outstanding(r) = Total(r) /\ Total(r) \in Int /\ (handler[r].credit >= 0 => Total(r) >= 0)
<1>1. handler[r].credit \in Int /\ handler[r].peers \in SUBSET Node
    BY DEF PoolTypeOK, Handler, HandlerRecord
<1>2. Cardinality(handler[r].peers) \in Nat
    BY <1>1, CardinalityType
<1>3. handler[r].peers \ handler[r].todo = handler[r].peers
    OBVIOUS
<1>4. Outstanding(r) = Total(r)
    BY <1>3 DEF Outstanding, Total, Billing
<1>5. \A c \in Int, k \in Nat : c * k \in Int /\ (c >= 0 => c * k >= 0)
    OBVIOUS
<1>6. QED
    BY <1>1, <1>2, <1>4, <1>5 DEF Total

\* The comparison with MinBalance lets every charge pass, unless there is a
\* minimum that a charge can fall below.
LEMMA CheckMinBalanceBills ==
    ASSUME PoolTypeOK, NEW r \in Request, BillFits(r), SeenBefore, CheckMinBalance(r)
    PROVE  BillMoves(r) \/ BillForgiven(r)
<1> DEFINE h == [handler[r] EXCEPT !.pc = "debiting"]
           g == Cleared("failed", handler[r].call, handler[r].via)
           low == MinBalance # None /\ MinBalance > Total(r)
<1>1. /\ handler[r] \in Handler /\ handler \in [Request -> Handler] /\ now \in Nat
      /\ handler[r].pc = "crediting" /\ handler[r].todo = {} /\ handler[r].credit >= 0
    BY DEF PoolTypeOK, StoreTypeOK, BillFits, CheckMinBalance, At
<1>2. Total(r) \in Int /\ Total(r) >= 0 /\ Outstanding(r) = Total(r)
    BY <1>1, TotalOwed DEF Billing
<1>3. now' = now /\ SeenBefore' /\ Purses' = Purses /\ Purses \in Int
    BY SameStoreBills, PursesType DEF CheckMinBalance, PoolTypeOK, Purses
<1>4. CASE low
    <2>1. ~NoPositiveMinimum
        BY <1>2, <1>4, PoolAssumption DEF NoPositiveMinimum
    <2>2. Become(r, g)
        BY <1>4 DEF CheckMinBalance, Return
    <2>3. g \in Handler /\ g.pc = "failed" /\ g.seen = 0 /\ g.credit = 0
        BY <1>1 DEF Cleared, Handler, HandlerRecord, PC
    <2> HIDE DEF g
    <2>4. handler'[r] = g
        BY <1>1, <2>2, <2>3, BecomeEffect
    <2>5. BillFits(r)' /\ Outstanding(r)' = 0
        BY <1>1, <1>3, <2>3, <2>4 DEF BillFits, Outstanding
    <2>6. QED
        BY <1>2, <1>3, <2>1, <2>5 DEF BillForgiven
<1>5. CASE ~low
    <2>1. Become(r, h)
        BY <1>5 DEF CheckMinBalance, Goto
    <2>2. /\ h \in Handler /\ h.pc = "debiting" /\ h.seen = handler[r].seen
          /\ h.credit = handler[r].credit /\ h.peers = handler[r].peers /\ h.todo = {}
        BY <1>1 DEF Handler, HandlerRecord, PC
    <2> HIDE DEF h
    <2>3. handler'[r] = h
        BY <1>1, <2>1, <2>2, BecomeEffect
    <2>4. BillFits(r)' /\ Outstanding(r)' = Outstanding(r)
        BY <1>1, <1>3, <2>2, <2>3 DEF BillFits, Outstanding
    <2>5. QED
        BY <1>2, <1>3, <2>4 DEF BillMoves
<1>6. QED
    BY <1>4, <1>5

\* The debit takes from the client what the hosts were credited.
LEMMA DebitBills ==
    ASSUME PoolTypeOK, NEW r \in Request, BillFits(r), SeenBefore, Debit(r)
    PROVE  BillMoves(r)
<1> DEFINE h == Cleared("done", handler[r].call, handler[r].via)
<1>1. /\ handler[r] \in Handler /\ handler \in [Request -> Handler]
      /\ handler[r].pc = "debiting" /\ handler[r].todo = {} /\ now \in Nat /\ r.node \in Node
    BY RequestFacts DEF PoolTypeOK, StoreTypeOK, BillFits, Debit, At
<1>2. Total(r) \in Int /\ Outstanding(r) = Total(r)
    BY <1>1, TotalOwed DEF Billing
<1>3. AddNodeBalance(r.node, -Total(r)) /\ Become(r, h)
    BY DEF Debit, Return
<1>4. h \in Handler /\ h.pc = "done" /\ h.seen = 0 /\ h.credit = 0
    BY <1>1 DEF Cleared, Handler, HandlerRecord, PC
<1> HIDE DEF h
<1>5. handler'[r] = h
    BY <1>1, <1>3, <1>4, BecomeEffect
<1>6. Purses' = Purses + (-Total(r)) /\ Purses \in Int
    BY <1>1, <1>2, <1>3, GrantMoves, PursesType DEF PoolTypeOK, Purses
<1>7. UNCHANGED <<now, nodes>>
    BY <1>3 DEF AddNodeBalance, AddAccountBalance
<1>8. BillFits(r)' /\ SeenBefore' /\ Outstanding(r)' = 0
    BY <1>1, <1>4, <1>5, <1>7 DEF BillFits, SeenBefore, Registered, Outstanding
<1>9. QED
    BY <1>2, <1>6, <1>7, <1>8 DEF BillMoves

\* A handler that returns or goes on, outside of billing and of the store.
LEMMA QuietReturn ==
    ASSUME PoolTypeOK, NEW r \in Request, SeenBefore, NEW pc \in Final, Return(r, pc),
           handler[r].pc \notin Billing, UNCHANGED storeVars
    PROVE  BillMoves(r)
    BY SameStoreBills, ReturnsUnbilled, UnbilledMoves

LEMMA QuietBecome ==
    ASSUME PoolTypeOK, NEW r \in Request, BillFits(r), SeenBefore, NEW h \in Handler, Become(r, h),
           handler[r].pc \notin Billing, h.pc \notin Billing,
           h.credit = handler[r].credit, h.seen = handler[r].seen \/ h.seen <= now,
           UNCHANGED storeVars
    PROVE  BillMoves(r)
    BY SameStoreBills, GoesOnUnbilled, UnbilledMoves

\* The wallet links a node: the purses change, their sum does not.
LEMMA AddNodeBills ==
    ASSUME PoolTypeOK, NEW r \in Request, SeenBefore, AddNode(r)
    PROVE  BillMoves(r)
<1>1. handler[r].pc \notin Billing /\ "done" \in Final /\ "failed" \in Final
    BY DEF AddNode, At, Billing, Final
<1>2. CASE AddAccountNode(r.account, r.node) /\ Return(r, "done")
    <2>1. UNCHANGED <<now, nodes>>
        BY <1>2 DEF AddAccountNode
    <2>2. SeenBefore'
        BY <2>1 DEF SeenBefore, Registered
    <2>3. Purses' = Purses
        BY <1>2, RequestFacts, LinkMoves DEF AddNode, PoolTypeOK
    <2>4. BillFits(r)' /\ Outstanding(r) = 0 /\ Outstanding(r)' = 0
        BY <1>1, <1>2, <2>1, ReturnsUnbilled
    <2>5. QED
        BY <2>1, <2>2, <2>3, <2>4, UnbilledMoves
<1>3. CASE Return(r, "failed") /\ UNCHANGED storeVars
    BY <1>1, <1>3, QuietReturn
<1>4. QED
    BY <1>2, <1>3 DEF AddNode

\* SetNode writes a time that the handler read before.
LEMMA ConnectSetNodeBills ==
    ASSUME PoolTypeOK, NEW r \in Request, BillFits(r), SeenBefore, ConnectSetNode(r)
    PROVE  BillMoves(r)
<1> DEFINE h == [handler[r] EXCEPT !.pc = "saved"]
           e == [isHost |-> r.full, kind |-> r.kind, lastSeen |-> handler[r].seen, peers |-> NoPeers]
<1>1. /\ handler[r] \in Handler /\ handler[r].pc = "connecting"
      /\ handler[r].seen <= now /\ r.node \in Node /\ nodes \in [Node -> MemNode \cup {None}]
    BY RequestFacts DEF PoolTypeOK, StoreTypeOK, BillFits, ConnectSetNode, At
<1>2. nodes' = [nodes EXCEPT ![r.node] = e] /\ UNCHANGED <<now, trials, balances>> /\ Become(r, h)
    BY DEF ConnectSetNode, SetNode, Goto, accountVars
<1>3. h \in Handler /\ h.pc = "saved" /\ h.seen = handler[r].seen /\ h.credit = handler[r].credit
    BY <1>1 DEF Handler, HandlerRecord, PC
<1>4. e.lastSeen = handler[r].seen
    OBVIOUS
<1> HIDE DEF h, e
<1>5. SeenBefore'
    BY <1>1, <1>2, <1>4 DEF SeenBefore, Registered
<1>6. BillFits(r)' /\ Outstanding(r) = 0 /\ Outstanding(r)' = 0
    BY <1>1, <1>2, <1>3, GoesOnUnbilled DEF Billing
<1>7. QED
    BY <1>2, <1>5, <1>6, PursesStay, UnbilledMoves

\* UpdateNodePeers writes the present.
LEMMA UpdatePeersBills ==
    ASSUME PoolTypeOK, NEW r \in Request, BillFits(r), SeenBefore, UpdatePeers(r)
    PROVE  BillMoves(r)
<1> DEFINE h == [handler[r] EXCEPT !.pc = "updated"]
<1>1. /\ handler[r] \in Handler /\ handler[r].pc = "got" /\ now \in Nat
      /\ r.node \in Node /\ nodes \in [Node -> MemNode \cup {None}] /\ StoreTypeOK
    BY RequestFacts DEF PoolTypeOK, StoreTypeOK, UpdatePeers, At
<1>2. UpdateNodePeers(r.node, r.report) /\ UNCHANGED <<now, trials, balances>> /\ Become(r, h)
    BY DEF UpdatePeers, UpdateNodePeers, Goto, accountVars
<1>3. h \in Handler /\ h.pc = "updated" /\ h.seen = handler[r].seen /\ h.credit = handler[r].credit
    BY <1>1 DEF Handler, HandlerRecord, PC
<1> HIDE DEF h
<1> DEFINE ps == [p \in Node |-> IF p \in Inactive(r.node, r.report) THEN None
                                 ELSE ReportedPeers(r.node, r.report)[p]]
<1>4. /\ nodes' = [nodes EXCEPT ![r.node] = nodes'[r.node]]
      /\ nodes'[r.node] = [isHost |-> nodes[r.node].isHost, kind |-> nodes[r.node].kind,
                           lastSeen |-> now, peers |-> ps]
    BY <1>1, <1>2, UpdateNodePeersEffect
<1> HIDE DEF ps
<1>5. \A n \in Node : n # r.node => nodes'[n] = nodes[n]
    BY <1>1, <1>4
<1>6. SeenBefore'
    BY <1>1, <1>2, <1>4, <1>5 DEF SeenBefore, Registered
<1>7. BillFits(r)' /\ Outstanding(r) = 0 /\ Outstanding(r)' = 0
    BY <1>1, <1>2, <1>3, GoesOnUnbilled DEF Billing
<1>8. QED
    BY <1>2, <1>6, <1>7, PursesStay, UnbilledMoves

\* Every step of a handler changes the purses by as much as its claim, or
\* forgives the claim: one case per action.
LEMMA StepBills ==
    ASSUME PoolTypeOK, CreditCannotFail, NEW r \in Request, BillFits(r), SeenBefore, Step(r)
    PROVE  BillMoves(r) \/ BillForgiven(r)
<1> USE DEF At, Billing
<1>1. handler[r] \in Handler /\ now \in Int /\ r.node \in Node /\ handler \in [Request -> Handler]
    BY RequestFacts DEF PoolTypeOK, StoreTypeOK
<1>2. ASSUME NEW h \in Handler, Become(r, h), h.credit = handler[r].credit,
             h.seen = handler[r].seen \/ h.seen <= now,
             handler[r].pc \notin Billing, h.pc \notin Billing, UNCHANGED storeVars
      PROVE  BillMoves(r)
    BY <1>2, QuietBecome
<1>3. CASE AddNode(r)
    BY <1>3, AddNodeBills
<1>4. CASE ConnectReject(r) \/ UpdateBlockNumberFails(r) \/ RequestReturn(r)
    BY <1>4, QuietReturn DEF ConnectReject, UpdateBlockNumberFails, RequestReturn, Final
<1>5. CASE ConnectRemote(r)
    <2> DEFINE h == [handler[r] EXCEPT !.pc = "connecting", !.seen = now]
    <2>1. h \in Handler /\ h.credit = handler[r].credit /\ h.seen = now /\ h.pc = "connecting"
        BY <1>1 DEF Handler, HandlerRecord, PC
    <2>2. Become(r, h) /\ handler[r].pc = "verified" /\ UNCHANGED storeVars
        BY <1>5 DEF ConnectRemote
    <2> HIDE DEF h
    <2>3. QED
        BY <1>1, <1>2, <2>1, <2>2
<1>6. CASE OnClient(r)
    <2> DEFINE h == [handler[r] EXCEPT !.pc = "requesting"]
    <2>1. h \in Handler /\ h.credit = handler[r].credit /\ h.seen = handler[r].seen
          /\ h.pc = "requesting"
        BY <1>1 DEF Handler, HandlerRecord, PC
    <2>2. /\ Return(r, "failed") \/ Return(r, "done") \/ Become(r, h)
          /\ handler[r].pc = "saved" /\ UNCHANGED storeVars
        BY <1>6 DEF OnClient, Goto
    <2> HIDE DEF h
    <2>3. QED
        BY <1>2, <2>1, <2>2, QuietReturn DEF Final
<1>7. CASE UpdateGetNode(r)
    <2> DEFINE h == [handler[r] EXCEPT !.pc = "got", !.seen = nodes[r.node].lastSeen,
                                       !.isHost = nodes[r.node].isHost]
    <2>1. CASE Return(r, "failed")
        BY <1>7, <2>1, QuietReturn DEF UpdateGetNode, Final
    <2>2. CASE Registered(r.node) /\ Become(r, h)
        <3>1. nodes[r.node] \in MemNode /\ nodes[r.node].lastSeen <= now
            BY <1>1, <2>2 DEF PoolTypeOK, StoreTypeOK, Registered, SeenBefore
        <3>2. h \in Handler /\ h.credit = handler[r].credit /\ h.seen <= now /\ h.pc = "got"
            BY <1>1, <3>1 DEF Handler, HandlerRecord, PC, MemNode
        <3> HIDE DEF h
        <3>3. QED
            BY <1>2, <1>7, <2>2, <3>2 DEF UpdateGetNode
    <2>3. QED
        BY <1>7, <2>1, <2>2 DEF UpdateGetNode
<1>8. CASE UpdateActive(r)
    <2> DEFINE h == [handler[r] EXCEPT !.pc = "active", !.peers = NodePeers(r.node)]
    <2>1. h \in Handler /\ h.credit = handler[r].credit /\ h.seen = handler[r].seen
          /\ h.pc = "active"
        BY <1>1 DEF Handler, HandlerRecord, PC, NodePeers
    <2>2. Become(r, h) /\ handler[r].pc = "updated" /\ UNCHANGED storeVars
        BY <1>8 DEF UpdateActive
    <2> HIDE DEF h
    <2>3. QED
        BY <1>2, <2>1, <2>2
<1>9. CASE RequestSkip(r)
    <2> DEFINE h == [handler[r] EXCEPT !.pc = "skipping",
                                       !.peers = NodePeers(r.node) \cup {r.node}]
    <2>1. h \in Handler /\ h.credit = handler[r].credit /\ h.seen = handler[r].seen
          /\ h.pc = "skipping"
        BY <1>1 DEF Handler, HandlerRecord, PC, NodePeers
    <2>2. /\ Return(r, "done") \/ Return(r, "failed") \/ Become(r, h)
          /\ handler[r].pc = "requesting" /\ UNCHANGED storeVars
        BY <1>9 DEF RequestSkip
    <2> HIDE DEF h
    <2>3. QED
        BY <1>2, <2>1, <2>2, QuietReturn DEF Final
<1>10. CASE RequestActiveHosts(r)
    <2>1. PICK hosts \in ActiveHosts(r.kind, NumRequestHosts(r) + Cardinality(handler[r].peers)) :
              Become(r, [handler[r] EXCEPT !.pc = "candidates", !.todo = hosts])
        BY <1>10 DEF RequestActiveHosts
    <2>2. hosts \subseteq Node
        BY <2>1 DEF ActiveHosts, kSubset
    <2> DEFINE h == [handler[r] EXCEPT !.pc = "candidates", !.todo = hosts]
    <2>3. h \in Handler /\ h.credit = handler[r].credit /\ h.seen = handler[r].seen
          /\ h.pc = "candidates"
        BY <1>1, <2>2 DEF Handler, HandlerRecord, PC
    <2>4. Become(r, h) /\ handler[r].pc = "skipping" /\ UNCHANGED storeVars
        BY <1>10, <2>1 DEF RequestActiveHosts
    <2> HIDE DEF h
    <2>5. QED
        BY <1>2, <2>3, <2>4
<1>11. CASE RequestRemotes(r)
    <2> DEFINE call == [n \in Node |-> IF n \in Remotes(r) THEN "sent" ELSE "none"]
               via == [n \in Node |-> IF n \in Remotes(r) THEN remoteHosts[n] ELSE None]
               h == [handler[r] EXCEPT !.pc = "calling", !.call = call, !.via = via]
    <2>1. call \in [Node -> CallState] /\ via \in [Node -> Conn \cup {None}]
        BY DEF CallState, PoolTypeOK
    <2>2. \A n \in Node : call[n] # "none" => via[n] # None
        BY DEF Remotes
    <2>3. Become(r, h) /\ handler[r].pc = "candidates" /\ UNCHANGED storeVars
        BY <1>11 DEF RequestRemotes
    <2> HIDE DEF call, via
    <2>4. h \in Handler /\ h.credit = handler[r].credit /\ h.seen = handler[r].seen
          /\ h.pc = "calling"
        BY <1>1, <2>1, <2>2 DEF Handler, HandlerRecord, PC
    <2> HIDE DEF h
    <2>5. QED
        BY <1>2, <2>3, <2>4
<1>12. ASSUME NEW n \in Node,
              HostWhitelists(r, n) \/ HostRefuses(r, n) \/ HostAccepted(r, n) \/ CallTimesOut(r, n)
       PROVE  BillMoves(r)
    <2>1. PICK s \in CallState : /\ SetCall(r, n, s) /\ handler[r].call[n] # "none"
                                /\ handler[r].pc = "calling" /\ UNCHANGED storeVars
        BY <1>12 DEF HostWhitelists, HostRefuses, HostAccepted, CallTimesOut, CallIs, CallState
    <2> DEFINE h == [handler[r] EXCEPT !.call[n] = s]
    <2>2. h \in Handler /\ h.credit = handler[r].credit /\ h.seen = handler[r].seen
          /\ h.pc = "calling"
        BY <1>1, <2>1 DEF Handler, HandlerRecord
    <2>3. Become(r, h)
        BY <2>1 DEF SetCall
    <2> HIDE DEF h
    <2>4. QED
        BY <1>2, <2>1, <2>2, <2>3
<1>13. CASE ConnectSetNode(r)
    BY <1>13, ConnectSetNodeBills
<1>14. CASE UpdatePeers(r)
    BY <1>14, UpdatePeersBills
<1>15. CASE OnUpdate(r)
    BY <1>15, OnUpdateBills
<1>16. ASSUME NEW p \in Node, CreditPeer(r, p) PROVE BillMoves(r)
    BY <1>16, CreditPeerBills
<1>17. CASE CheckMinBalance(r)
    BY <1>17, CheckMinBalanceBills
<1>18. CASE Debit(r)
    BY <1>18, DebitBills
<1>19. QED
    BY <1>3, <1>4, <1>5, <1>6, <1>7, <1>8, <1>9, <1>10, <1>11, <1>12, <1>13, <1>14, <1>15, <1>16,
       <1>17, <1>18 DEF Step

\* A step in which no handler moves.
LEMMA HandlersStay ==
    ASSUME PoolTypeOK, BillInv, UNCHANGED <<nodes, trials, balances, handler>>,
           now' = now \/ now' = now + 1
    PROVE  BillInv'
<1>1. Purses' = Purses
    BY PursesStay
<1>2. Claims' = Claims
    BY DEF Claims, Outstanding
<1>3. Claimed' = Claimed
    BY <1>2 DEF Claimed
<1>4. now \in Int /\ now <= now' /\ now' \in Int
    BY DEF PoolTypeOK, StoreTypeOK
<1>5. \A r \in Request : BillFits(r)'
    <2>1. \A r \in Request : handler[r].seen \in Int /\ handler[r].seen <= now
        BY DEF BillInv, BillFits, PoolTypeOK, Handler, HandlerRecord
    <2>2. \A r \in Request : handler[r].seen <= now'
        BY <1>4, <2>1
    <2>3. QED
        BY <2>2 DEF BillInv, BillFits
<1>6. SeenBefore'
    <2>1. \A n \in Node : Registered(n) => nodes[n].lastSeen \in Int
        BY DEF PoolTypeOK, StoreTypeOK, Registered, MemNode
    <2>2. QED
        BY <1>4, <2>1 DEF BillInv, SeenBefore, Registered
<1>7. QED
    BY <1>1, <1>3, <1>5, <1>6 DEF BillInv, NoPositiveMinimum

\* A handler begins.
LEMMA HandlerBegins ==
    ASSUME PoolTypeOK, PoolTypeOK', BillInv, NEW r \in Request, NEW pc \in {"verified", "requesting"},
           handler[r].pc \in {"idle"} \cup Final, handler' = [handler EXCEPT ![r] = Fresh(pc)],
           UNCHANGED <<now, nodes, trials, balances>>
    PROVE  BillInv'
<1> DEFINE h == Fresh(pc)
<1>1. h \in Handler /\ h.pc = pc /\ h.seen = 0 /\ h.credit = 0
    BY FreshType DEF Fresh, Cleared, PC
<1>2. handler \in [Request -> Handler] /\ now \in Nat
    BY DEF PoolTypeOK, StoreTypeOK
<1>3. Become(r, h)
    BY DEF Become
<1> HIDE DEF h
<1>4. BillFits(r)' /\ Outstanding(r) = 0 /\ Outstanding(r)' = 0
    BY <1>1, <1>2, <1>3, NotBilling DEF Billing, Final
<1>5. \A q \in Request : q # r => handler'[q] = handler[q]
    BY <1>1, <1>2, <1>3, BecomeEffect
<1>6. Claimed' = Claimed
    <2>1. Claimed' = Claimed + (Outstanding(r)' - Outstanding(r)) /\ Claimed \in Int
        BY <1>5, ClaimMoves, ClaimsType
    <2>2. QED
        BY <1>4, <2>1
<1>7. Purses' = Purses
    BY PursesStay
<1>8. \A q \in Request : BillFits(q)'
    BY <1>4, <1>5 DEF BillInv, BillFits
<1>9. SeenBefore'
    BY DEF BillInv, SeenBefore, Registered
<1>10. QED
    BY <1>6, <1>7, <1>8, <1>9 DEF BillInv, NoPositiveMinimum

LEMMA BillInductive == PoolInv /\ CreditCannotFail /\ BillInv /\ [Next]_vars => BillInv'
<1> SUFFICES ASSUME PoolInv, CreditCannotFail, BillInv, [Next]_vars PROVE BillInv'
    OBVIOUS
<1>1. PoolTypeOK /\ NonceSaved /\ PoolTypeOK'
    BY PoolTypeInductive DEF PoolInv
<1>2. CASE Tick /\ UNCHANGED poolVars
    BY <1>1, <1>2, HandlersStay DEF Tick, poolVars, accountVars
<1>3. ASSUME NEW c \in Conn, Disconnect(c) \/ CloseRemote(c) PROVE BillInv'
    BY <1>1, <1>3, ConnectionKeeps, HandlersStay DEF storeVars
<1>4. ASSUME NEW r \in Request, Verify(r) PROVE BillInv'
    <2>1. UNCHANGED <<now, nodes, trials, balances>>
        BY <1>4 DEF Verify, CheckAndSaveNonce, accountVars
    <2>2. handler' = [handler EXCEPT ![r] = Fresh("verified")] /\ handler[r].pc = "idle"
        BY <1>1, <1>4, VerifyKeeps, ReplayStep
    <2>3. QED
        BY <1>1, <2>1, <2>2, HandlerBegins
<1>5. ASSUME NEW r \in Request, Peer(r) PROVE BillInv'
    <2>1. UNCHANGED <<now, nodes, trials, balances>>
        BY <1>5 DEF Peer, storeVars
    <2>2. /\ handler' = [handler EXCEPT ![r] = Fresh("requesting")]
          /\ handler[r].pc \in {"idle"} \cup Final
        BY <1>5 DEF Peer, Become
    <2>3. QED
        BY <1>1, <2>1, <2>2, HandlerBegins
<1>6. ASSUME NEW r \in Request, Step(r) PROVE BillInv'
    <2>1. BillMoves(r) \/ BillForgiven(r)
        BY <1>1, <1>6, StepBills DEF BillInv
    <2>2. \A q \in Request : q # r => handler'[q] = handler[q]
        BY <1>1, <1>6, StepKeeps DEF StepEffect, Moved
    <2>3. Claimed' = Claimed + (Outstanding(r)' - Outstanding(r))
        BY <1>1, <2>2, ClaimMoves
    <2>4. (\A q \in Request : BillFits(q)') /\ SeenBefore'
        BY <2>1, <2>2 DEF BillMoves, BillForgiven, BillInv, BillFits
    <2>5. Outstanding(r) \in Int /\ Outstanding(r)' \in Int /\ Claimed \in Int /\ Purses \in Int
        BY <1>1, ClaimsType, ClaimsTypeNext, PursesType DEF PoolTypeOK, Purses
    <2>6. Purses' >= Claimed' /\ (NoPositiveMinimum => Purses' = Claimed')
        BY <2>1, <2>3, <2>5 DEF BillMoves, BillForgiven, BillInv
    <2>7. QED
        BY <2>4, <2>6 DEF BillInv, NoPositiveMinimum
<1>7. CASE UNCHANGED vars
    BY <1>1, <1>7, HandlersStay DEF vars, storeVars, poolVars
<1>8. QED
    BY <1>2, <1>3, <1>4, <1>5, <1>6, <1>7, NextCases

LEMMA BillInit == Init => BillInv
<1> SUFFICES ASSUME Init PROVE BillInv
    OBVIOUS
<1>1. /\ \A r \in Request : handler[r].pc = "idle" /\ handler[r].seen = 0 /\ handler[r].credit = 0
      /\ now = 0
    BY DEF Init, StoreInit, Fresh, Cleared
<1>2. \A r \in Request : BillFits(r) /\ Claims[r] = 0
    BY <1>1 DEF BillFits, Claims, Outstanding
<1>3. SeenBefore
    BY DEF Init, StoreInit, SeenBefore, Registered
<1>4. (\A a \in Account : Credits[a] = 0) /\ (\A n \in Node : TrialCredits[n] = 0)
    BY DEF Init, StoreInit, Credits, TrialCredits, GetAccountBalance, TrialCredit
<1>5. Purses = 0 /\ Claimed = 0
    BY <1>2, <1>4, PoolAssumption, SumZero DEF Purses, Claimed
<1>6. QED
    BY <1>2, <1>3, <1>5 DEF BillInv

LEMMA BillInvHolds == Spec => []BillInv
<1>1. PoolInv /\ CreditCannotFail /\ BillInv /\ [Next]_vars => BillInv'
    BY BillInductive
<1>2. QED
    BY <1>1, BillInit, PoolInvHolds, CreditCannotFailHolds, PTL DEF Spec

\* Billing creates and destroys no credit: for any number of clients, hosts and
\* wallets, and however their updates, reconnects and links interleave, all
\* purses together hold what the updates in flight have still to debit.  It
\* takes a balance manager that cannot fail between the credit and the debit.
THEOREM ZeroSumHolds ==
    ASSUME NoPositiveMinimum
    PROVE  Spec => []ZeroSum
<1>1. BillInv => ZeroSum
    BY ZeroSumFolds DEF BillInv
<1>2. QED
    BY <1>1, BillInvHolds, PTL

\* Whatever the minimum, OnUpdate destroys no credit: where it departs from
\* ZeroSum, because it fails between the credit and the debit, the purses hold
\* too much, never too little.
THEOREM NoCreditLostHolds == Spec => []NoCreditLost
<1>1. BillInv => NoCreditLost
    BY CreditsFold, TrialCreditsFold, ClaimsFold
    DEF BillInv, NoCreditLost, TotalCredit, Purses, Claimed
<1>2. QED
    BY <1>1, BillInvHolds, PTL
=============================================================================
