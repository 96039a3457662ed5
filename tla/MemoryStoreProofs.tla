------------------------- MODULE MemoryStoreProofs -------------------------
(***************************************************************************)
(* The memory store, for every set of nodes, accounts, amounts, nonces and *)
(* peer lists: it is well typed, implements Ledger, and drops silent peers.*)
(***************************************************************************)
EXTENDS MemoryStoreSpec, TLAPS

(* What each method does to a well-typed store: the proofs about the        *)
(* specifications that call the methods use these lemmas, and nothing else  *)
(* of this module.                                                          *)

\* What a lookup returns in a well-typed store: the zero value or the entry.
LEMMA LookupType ==
    ASSUME StoreTypeOK
    PROVE  /\ \A n \in Node : TrialCredit(n) \in Int
           /\ \A a \in Account : GetAccountBalance(a) \in Balance
           /\ \A n \in Node : GetNodeBalance(n) \in Balance
<1>1. \A n \in Node : TrialCredit(n) \in Int
    BY StoreAssumption DEF StoreTypeOK, TrialCredit
<1>2. \A a \in Account : GetAccountBalance(a) \in Balance
    BY StoreAssumption DEF StoreTypeOK, GetAccountBalance, Balance
<1>3. \A n \in Node : GetNodeBalance(n) \in Balance
    BY <1>1, <1>2, StoreAssumption DEF StoreTypeOK, GetNodeBalance, Balance
<1>4. QED
    BY <1>1, <1>2, <1>3

\* Every method keeps the store well typed; a lemma per method, for the
\* specifications that call the methods.
LEMMA TickType == StoreTypeOK /\ Tick => StoreTypeOK'
    BY DEF StoreTypeOK, Tick, accountVars

LEMMA CheckAndSaveNonceType ==
    ASSUME NEW id \in ID, NEW nonce \in Nat, StoreTypeOK, CheckAndSaveNonce(id, nonce)
    PROVE  StoreTypeOK'
    BY DEF StoreTypeOK, CheckAndSaveNonce, accountVars

LEMMA AddAccountBalanceType ==
    ASSUME NEW a \in Account, NEW c \in Int, StoreTypeOK, AddAccountBalance(a, c)
    PROVE  StoreTypeOK'
<1>1. [account |-> GetAccountBalance(a).account,
       credit |-> GetAccountBalance(a).credit + c] \in Balance
    BY LookupType DEF Balance
<1>2. QED
    BY <1>1 DEF StoreTypeOK, AddAccountBalance

LEMMA AddNodeBalanceType ==
    ASSUME NEW n \in Node, NEW c \in Int, StoreTypeOK, AddNodeBalance(n, c)
    PROVE  StoreTypeOK'
<1>1. CASE accounts[n] # None
    <2>1. accounts[n] \in Account
        BY <1>1 DEF StoreTypeOK
    <2>2. AddAccountBalance(accounts[n], c)
        BY <1>1 DEF AddNodeBalance
    <2>3. QED
        BY <2>1, <2>2, AddAccountBalanceType
<1>2. CASE accounts[n] = None
    <2>1. TrialCredit(n) + c \in Int
        BY LookupType
    <2>2. QED
        BY <1>2, <2>1 DEF StoreTypeOK, AddNodeBalance
<1>3. QED
    BY <1>1, <1>2

LEMMA AddAccountNodeType ==
    ASSUME NEW a \in Account, NEW n \in Node, StoreTypeOK, AddAccountNode(a, n)
    PROVE  StoreTypeOK'
<1>1. [account |-> a, credit |-> GetAccountBalance(a).credit + TrialCredit(n)] \in Balance
    BY LookupType DEF Balance
<1>2. QED
    BY <1>1 DEF StoreTypeOK, AddAccountNode

LEMMA SetNodeType ==
    ASSUME NEW n \in Node, NEW isHost \in BOOLEAN, NEW kind \in Kind \cup {None},
           NEW seen \in Int, StoreTypeOK, SetNode(n, isHost, kind, seen)
    PROVE  StoreTypeOK'
<1>1. [isHost |-> isHost, kind |-> kind, lastSeen |-> seen, peers |-> NoPeers] \in MemNode
    BY DEF MemNode, NoPeers
<1>2. QED
    BY <1>1 DEF StoreTypeOK, SetNode, accountVars

LEMMA RemoveNodeType ==
    ASSUME NEW n \in Node, StoreTypeOK, RemoveNode(n)
    PROVE  StoreTypeOK'
    BY DEF StoreTypeOK, RemoveNode, accountVars

\* The last-seen time of every peer after a report.
LEMMA ReportedPeersType ==
    ASSUME NEW n \in Node, NEW reported, StoreTypeOK, Registered(n)
    PROVE  ReportedPeers(n, reported) \in [Node -> Int \cup {None}]
    BY DEF StoreTypeOK, ReportedPeers, Registered, MemNode

\* What UpdateNodePeers leaves in the entry of the node.
LEMMA UpdateNodePeersEffect ==
    ASSUME NEW n \in Node, NEW reported, StoreTypeOK, UpdateNodePeers(n, reported)
    PROVE  /\ nodes' = [nodes EXCEPT ![n] = nodes'[n]]
           /\ nodes'[n] = [isHost |-> nodes[n].isHost, kind |-> nodes[n].kind,
                           lastSeen |-> now,
                           peers |-> [p \in Node |->
                               IF p \in Inactive(n, reported) THEN None
                               ELSE ReportedPeers(n, reported)[p]]]
           /\ nodes'[n] \in MemNode
<1> DEFINE ps == [p \in Node |-> IF p \in Inactive(n, reported) THEN None
                                 ELSE ReportedPeers(n, reported)[p]]
<1>1. ps \in [Node -> Int \cup {None}]
    BY ReportedPeersType DEF UpdateNodePeers
<1>2. nodes[n] \in MemNode
    BY DEF UpdateNodePeers, Registered, StoreTypeOK
<1>3. nodes' = [nodes EXCEPT ![n] = [[nodes[n] EXCEPT !.lastSeen = now] EXCEPT !.peers = ps]]
    BY DEF UpdateNodePeers, StoreTypeOK
<1> HIDE DEF ps
<1>4. nodes'[n] = [isHost |-> nodes[n].isHost, kind |-> nodes[n].kind,
                   lastSeen |-> now, peers |-> ps]
    BY <1>2, <1>3 DEF StoreTypeOK, MemNode
<1>5. nodes'[n] \in MemNode
    BY <1>1, <1>2, <1>4 DEF StoreTypeOK, MemNode
<1>6. nodes' = [nodes EXCEPT ![n] = nodes'[n]]
    BY <1>3 DEF StoreTypeOK
<1>7. QED
    BY <1>4, <1>5, <1>6 DEF ps

LEMMA UpdateNodePeersType ==
    ASSUME NEW n \in Node, NEW reported, StoreTypeOK, UpdateNodePeers(n, reported)
    PROVE  StoreTypeOK'
<1>1. nodes' \in [Node -> MemNode \cup {None}]
    BY UpdateNodePeersEffect DEF StoreTypeOK
<1>2. QED
    BY <1>1 DEF StoreTypeOK, UpdateNodePeers, accountVars

\* Only RemoveNode removes a node, and only CheckAndSaveNonce writes a nonce.
LEMMA AddAccountNodeKeeps ==
    ASSUME NEW a \in Account, NEW n \in Node, AddAccountNode(a, n)
    PROVE  UNCHANGED <<nodes, nonces>>
    BY DEF AddAccountNode

LEMMA AddNodeBalanceKeeps ==
    ASSUME NEW n \in Node, NEW c \in Int, AddNodeBalance(n, c)
    PROVE  UNCHANGED <<nodes, nonces>>
    BY DEF AddNodeBalance, AddAccountBalance

LEMMA UpdateNodePeersKeeps ==
    ASSUME StoreTypeOK, NEW n \in Node, NEW reported, UpdateNodePeers(n, reported)
    PROVE  UNCHANGED nonces /\ \A m \in Node : Registered(m) => nodes'[m] # None
<1>1. nodes'[n] \in MemNode /\ nodes' = [nodes EXCEPT ![n] = nodes'[n]]
    BY UpdateNodePeersEffect
<1>2. \A m \in Node : m # n => nodes'[m] = nodes[m]
    BY <1>1 DEF StoreTypeOK
<1>3. nodes'[n] # None
    BY <1>1, NoneAssumption
<1>4. QED
    BY <1>2, <1>3 DEF UpdateNodePeers, Registered

LEMMA SetNodeKeeps ==
    ASSUME StoreTypeOK, NEW n \in Node, NEW isHost \in BOOLEAN,
           NEW kind \in Kind \cup {None}, NEW seen \in Int, SetNode(n, isHost, kind, seen)
    PROVE  UNCHANGED nonces /\ \A m \in Node : Registered(m) => nodes'[m] # None
<1> DEFINE e == [isHost |-> isHost, kind |-> kind, lastSeen |-> seen, peers |-> NoPeers]
<1>1. e \in MemNode
    BY DEF MemNode, NoPeers
<1>2. nodes' = [nodes EXCEPT ![n] = e] /\ UNCHANGED nonces
    BY DEF SetNode
<1> HIDE DEF e
<1>3. QED
    BY <1>1, <1>2, NoneAssumption DEF StoreTypeOK, Registered
-----------------------------------------------------------------------------
(* The store on its own. *)

LEMMA StoreTypeNext == StoreTypeOK /\ [StoreNext]_storeVars => StoreTypeOK'
<1> SUFFICES ASSUME StoreTypeOK, [StoreNext]_storeVars PROVE StoreTypeOK'
    OBVIOUS
<1> USE CallerAssumption
<1>1. CASE Tick
    BY <1>1, TickType
<1>2. ASSUME NEW p \in Nonces, CheckAndSaveNonce(p[1], p[2])
      PROVE  StoreTypeOK'
    <2>1. p[1] \in ID /\ p[2] \in Nat
        OBVIOUS
    <2>2. QED
        BY <1>2, <2>1, CheckAndSaveNonceType
<1>3. ASSUME NEW n \in Node, NEW c \in Credit, AddNodeBalance(n, c)
      PROVE  StoreTypeOK'
    BY <1>3, AddNodeBalanceType
<1>4. ASSUME NEW a \in Account, NEW c \in Credit, AddAccountBalance(a, c)
      PROVE  StoreTypeOK'
    BY <1>4, AddAccountBalanceType
<1>5. ASSUME NEW a \in Account, NEW n \in Node, AddAccountNode(a, n)
      PROVE  StoreTypeOK'
    BY <1>5, AddAccountNodeType
<1>6. ASSUME NEW n \in Node, NEW isHost \in BOOLEAN, NEW kind \in Kind,
             SetNode(n, isHost, kind, now)
      PROVE  StoreTypeOK'
    <2>1. now \in Int
        BY DEF StoreTypeOK
    <2>2. QED
        BY <1>6, <2>1, SetNodeType
<1>7. ASSUME NEW n \in Node, RemoveNode(n)
      PROVE  StoreTypeOK'
    BY <1>7, RemoveNodeType
<1>8. ASSUME NEW n \in Node, NEW reported \in Reports, UpdateNodePeers(n, reported)
      PROVE  StoreTypeOK'
    BY <1>8, UpdateNodePeersType
<1>9. CASE UNCHANGED storeVars
    BY <1>9 DEF StoreTypeOK, storeVars
<1>10. QED
    BY <1>1, <1>2, <1>3, <1>4, <1>5, <1>6, <1>7, <1>8, <1>9 DEF StoreNext

\* The maps of memoryStore hold what their Go types say, after any calls.
THEOREM StoreTypeCorrect == StoreSpec => []StoreTypeOK
<1>1. StoreInit => StoreTypeOK
    BY StoreAssumption DEF StoreInit, StoreTypeOK, ID
<1>2. QED
    BY <1>1, StoreTypeNext, PTL DEF StoreSpec
-----------------------------------------------------------------------------
\* AddAccountNode empties the trial of the node it links, and AddNodeBalance
\* adds to no trial of a linked node: a linked node never holds a trial.
THEOREM NoStrandedTrialHolds == StoreSpec => []NoStrandedTrial
<1>1. StoreInit => NoStrandedTrial
    BY DEF StoreInit, NoStrandedTrial
<1>2. StoreTypeOK /\ NoStrandedTrial /\ [StoreNext]_storeVars => NoStrandedTrial'
    <2> SUFFICES ASSUME StoreTypeOK, NoStrandedTrial, [StoreNext]_storeVars
                 PROVE  NoStrandedTrial'
        OBVIOUS
    <2>1. CASE UNCHANGED <<accounts, trials>>
        BY <2>1 DEF NoStrandedTrial
    <2>2. ASSUME NEW n \in Node, NEW c \in Credit, AddNodeBalance(n, c)
          PROVE  NoStrandedTrial'
        BY <2>2 DEF NoStrandedTrial, AddNodeBalance, AddAccountBalance, StoreTypeOK
    <2>3. ASSUME NEW a \in Account, NEW n \in Node, AddAccountNode(a, n)
          PROVE  NoStrandedTrial'
        BY <2>3 DEF NoStrandedTrial, AddAccountNode, StoreTypeOK
    <2>4. QED
        BY <2>1, <2>2, <2>3 DEF StoreNext, storeVars, Tick, CheckAndSaveNonce,
           AddAccountBalance, SetNode, RemoveNode, UpdateNodePeers, accountVars
<1>3. QED
    BY <1>1, <1>2, StoreTypeCorrect, PTL DEF StoreSpec
-----------------------------------------------------------------------------
Purse == [h \in Node \cup Account |-> PurseOf(h)]

LEMMA PurseType ==
    ASSUME StoreTypeOK
    PROVE  /\ Purse \in [Node \cup Account -> Int]
           /\ \A n \in Node : Purse[n] = TrialCredit(n)
           /\ \A a \in Account : Purse[a] = GetAccountBalance(a).credit
<1>1. \A n \in Node : PurseOf(n) = TrialCredit(n) /\ PurseOf(n) \in Int
    BY LookupType DEF PurseOf
<1>2. \A a \in Account : PurseOf(a) = GetAccountBalance(a).credit /\ PurseOf(a) \in Int
    BY LookupType, StoreAssumption DEF PurseOf, Balance
<1>3. QED
    BY <1>1, <1>2 DEF Purse

\* A method that leaves s.accounts, s.trials and s.balances alone moves no purse.
LEMMA PurseUnchanged ==
    ASSUME UNCHANGED accountVars
    PROVE  Purse' = Purse
    BY DEF accountVars, Purse, PurseOf, TrialCredit, GetAccountBalance

\* Adding to an account changes the purse of that account, and no other.
LEMMA AddAccountBalanceGrants ==
    ASSUME NEW a \in Account, NEW c \in Int, StoreTypeOK, AddAccountBalance(a, c)
    PROVE  /\ Purse' = [Purse EXCEPT ![a] = @ + c]
           /\ accounts' = accounts
<1>1. StoreTypeOK'
    BY AddAccountBalanceType
<1>2. \A n \in Node : TrialCredit(n)' = TrialCredit(n)
    BY DEF AddAccountBalance, TrialCredit
<1>3. \A b \in Account : GetAccountBalance(b)'.credit =
            IF b = a THEN GetAccountBalance(a).credit + c ELSE GetAccountBalance(b).credit
    <2> DEFINE b == [account |-> GetAccountBalance(a).account,
                     credit |-> GetAccountBalance(a).credit + c]
    <2>1. b \in Balance /\ b # None /\ b.credit = GetAccountBalance(a).credit + c
        BY LookupType, NoneAssumption DEF Balance
    <2>2. balances' = [balances EXCEPT ![a] = b] /\ balances \in [Account -> Balance \cup {None}]
        BY DEF AddAccountBalance, StoreTypeOK
    <2> HIDE DEF b
    <2>3. QED
        BY <2>1, <2>2 DEF GetAccountBalance
<1>4. \A h \in Node \cup Account : PurseOf(h)' = IF h = a THEN PurseOf(a) + c ELSE PurseOf(h)
    BY <1>2, <1>3, StoreAssumption DEF PurseOf
<1>5. Purse' = [h \in Node \cup Account |-> PurseOf(h)']
    BY DEF Purse
<1>6. QED
    BY <1>4, <1>5 DEF Purse, AddAccountBalance

\* Adding to a node that has no account changes its own purse, and no other.
LEMMA AddTrialGrants ==
    ASSUME NEW n \in Node, NEW c \in Int, StoreTypeOK, AddNodeBalance(n, c),
           accounts[n] = None
    PROVE  /\ Purse' = [Purse EXCEPT ![n] = @ + c]
           /\ accounts' = accounts
<1>1. \A m \in Node : TrialCredit(m)' = IF m = n THEN TrialCredit(n) + c ELSE TrialCredit(m)
    BY LookupType, StoreAssumption DEF AddNodeBalance, TrialCredit, StoreTypeOK
<1>2. \A b \in Account : GetAccountBalance(b)' = GetAccountBalance(b)
    BY DEF AddNodeBalance, GetAccountBalance
<1>3. \A h \in Node \cup Account : PurseOf(h)' = IF h = n THEN PurseOf(n) + c ELSE PurseOf(h)
    BY <1>1, <1>2, StoreAssumption DEF PurseOf
<1>4. Purse' = [h \in Node \cup Account |-> PurseOf(h)']
    BY DEF Purse
<1>5. QED
    BY <1>3, <1>4 DEF Purse, AddNodeBalance

\* Linking moves the trial into the account, and touches no other purse.
LEMMA AddAccountNodeLinks ==
    ASSUME NEW a \in Account, NEW n \in Node, StoreTypeOK, AddAccountNode(a, n)
    PROVE  /\ Purse' = [Purse EXCEPT ![a] = @ + Purse[n], ![n] = 0]
           /\ accounts' = [accounts EXCEPT ![n] = a]
<1>1. \A m \in Node : TrialCredit(m)' = IF m = n THEN 0 ELSE TrialCredit(m)
    BY DEF AddAccountNode, TrialCredit, StoreTypeOK
<1>2. \A b \in Account : GetAccountBalance(b)'.credit =
            IF b = a THEN GetAccountBalance(a).credit + TrialCredit(n)
            ELSE GetAccountBalance(b).credit
    <2> DEFINE e == [account |-> a, credit |-> GetAccountBalance(a).credit + TrialCredit(n)]
    <2>1. e \in Balance /\ e # None /\ e.credit = GetAccountBalance(a).credit + TrialCredit(n)
        BY LookupType, NoneAssumption DEF Balance
    <2>2. balances' = [balances EXCEPT ![a] = e] /\ balances \in [Account -> Balance \cup {None}]
        BY DEF AddAccountNode, StoreTypeOK
    <2> HIDE DEF e
    <2>3. QED
        BY <2>1, <2>2 DEF GetAccountBalance
<1>3. \A h \in Node \cup Account : PurseOf(h)' =
            IF h = n THEN 0 ELSE IF h = a THEN PurseOf(a) + PurseOf(n) ELSE PurseOf(h)
    BY <1>1, <1>2, StoreAssumption DEF PurseOf
<1>4. Purse' = [h \in Node \cup Account |-> PurseOf(h)']
    BY DEF Purse
<1>5. n # a
    BY StoreAssumption
<1>6. QED
    BY <1>3, <1>4, <1>5 DEF Purse, AddAccountNode

\* The maps of memoryStore implement the purses of Ledger: whatever the calls
\* and their order, credit changes hands only as Ledger allows.
THEOREM StoreImplementsLedger == StoreSpec => LedgerSpec
<1> USE CallerAssumption
<1>1. StoreInit => L!LedgerInit
    BY StoreAssumption DEF StoreInit, L!LedgerInit, L!Holder, PurseOf, TrialCredit, GetAccountBalance
<1>2. StoreTypeOK /\ [StoreNext]_storeVars => [L!LedgerNext]_(L!ledgerVars)
    <2> SUFFICES ASSUME StoreTypeOK, [StoreNext]_storeVars
                 PROVE  [L!LedgerNext]_(L!ledgerVars)
        OBVIOUS
    <2>1. CASE UNCHANGED accountVars
        BY <2>1, PurseUnchanged DEF L!ledgerVars, accountVars, Purse
    <2>2. ASSUME NEW n \in Node, NEW c \in Credit, AddNodeBalance(n, c)
          PROVE  L!LedgerNext
        <3>1. CASE accounts[n] = None
            <4>1. L!Grant(n, c)
                BY <2>2, <3>1, AddTrialGrants DEF L!Grant, Purse
            <4>2. QED
                BY <3>1, <4>1 DEF L!LedgerNext, L!HolderOf
        <3>2. CASE accounts[n] # None
            <4>1. accounts[n] \in Account /\ AddAccountBalance(accounts[n], c)
                BY <2>2, <3>2 DEF StoreTypeOK, AddNodeBalance
            <4>2. L!Grant(accounts[n], c)
                BY <4>1, AddAccountBalanceGrants DEF L!Grant, Purse
            <4>3. QED
                BY <4>1, <4>2 DEF L!LedgerNext
        <3>3. QED
            BY <3>1, <3>2
    <2>3. ASSUME NEW a \in Account, NEW c \in Credit, AddAccountBalance(a, c)
          PROVE  L!LedgerNext
        <3>1. L!Grant(a, c)
            BY <2>3, AddAccountBalanceGrants DEF L!Grant, Purse
        <3>2. QED
            BY <3>1 DEF L!LedgerNext
    <2>4. ASSUME NEW a \in Account, NEW n \in Node, AddAccountNode(a, n)
          PROVE  L!LedgerNext
        <3>1. L!Link(a, n)
            BY <2>4, AddAccountNodeLinks DEF L!Link, Purse
        <3>2. QED
            BY <3>1 DEF L!LedgerNext
    <2>5. QED
        BY <2>1, <2>2, <2>3, <2>4 DEF StoreNext, storeVars, Tick, CheckAndSaveNonce,
           SetNode, RemoveNode, UpdateNodePeers, accountVars
<1>3. QED
    BY <1>1, <1>2, StoreTypeCorrect, PTL DEF StoreSpec, LedgerSpec, L!LedgerSpec
-----------------------------------------------------------------------------
LEMMA PeerTimesNext ==
    StoreTypeOK /\ PeerTimes /\ [StoreNext]_storeVars => PeerTimes'
<1> SUFFICES ASSUME StoreTypeOK, PeerTimes, [StoreNext]_storeVars PROVE PeerTimes'
    OBVIOUS
<1> USE StoreAssumption, NoneAssumption
<1>t. /\ now \in Int
      /\ ExpireInterval \in Int
      /\ \A n \in Node : Registered(n) =>
            /\ nodes[n].lastSeen \in Int
            /\ \A p \in Node : nodes[n].peers[p] \in Int \cup {None}
    BY DEF StoreTypeOK, MemNode, Registered
<1>1. CASE Tick
    BY <1>1, <1>t DEF Tick, PeerTimes, Registered
<1>2. CASE UNCHANGED <<now, nodes>>
    BY <1>2 DEF PeerTimes, Registered
<1>3. ASSUME NEW n \in Node, NEW isHost \in BOOLEAN, NEW kind \in Kind,
             SetNode(n, isHost, kind, now)
      PROVE  PeerTimes'
    <2> DEFINE e == [isHost |-> isHost, kind |-> kind, lastSeen |-> now, peers |-> NoPeers]
    <2>1. /\ nodes' = [nodes EXCEPT ![n] = e] /\ now' = now
          /\ nodes \in [Node -> MemNode \cup {None}]
        BY <1>3 DEF SetNode, StoreTypeOK
    <2>2. e.lastSeen = now /\ \A p \in Node : e.peers[p] = None
        BY DEF NoPeers
    <2> HIDE DEF e
    <2>3. QED
        BY <1>t, <2>1, <2>2 DEF PeerTimes, Registered
<1>4. ASSUME NEW n \in Node, RemoveNode(n)
      PROVE  PeerTimes'
    BY <1>4, <1>t DEF RemoveNode, StoreTypeOK, PeerTimes, Registered
<1>5. ASSUME NEW n \in Node, NEW reported \in Reports, UpdateNodePeers(n, reported)
      PROVE  PeerTimes'
    <2> DEFINE ps == [p \in Node |-> IF p \in Inactive(n, reported) THEN None
                                     ELSE ReportedPeers(n, reported)[p]]
               e == nodes'[n]
    <2>1. Registered(n) /\ now' = now
        BY <1>5 DEF UpdateNodePeers
    <2>2. /\ nodes' = [nodes EXCEPT ![n] = e] /\ e # None
          /\ e.lastSeen = now /\ e.peers = ps
          /\ nodes \in [Node -> MemNode \cup {None}]
        <3>1. /\ nodes' = [nodes EXCEPT ![n] = nodes'[n]]
              /\ nodes'[n] = [isHost |-> nodes[n].isHost, kind |-> nodes[n].kind,
                              lastSeen |-> now, peers |-> ps]
              /\ nodes'[n] \in MemNode
            BY <1>5, UpdateNodePeersEffect, Zenon
        <3> HIDE DEF ps
        <3>2. QED
            BY <3>1 DEF StoreTypeOK
    <2>3. ASSUME NEW p \in Node, ps[p] # None
          PROVE  /\ ps[p] \in Int
                 /\ ps[p] <= now
                 /\ ps[p] > now - ExpireInterval
                 /\ Registered(p) => ps[p] <= nodes[p].lastSeen
        <3>1. ps[p] = ReportedPeers(n, reported)[p] /\ Seen(ps[p])
            BY <2>3 DEF Inactive
        <3>2. ps[p] = IF p \in reported /\ Registered(p)
                      THEN nodes[p].lastSeen ELSE nodes[n].peers[p]
            BY <3>1 DEF ReportedPeers
        <3> HIDE DEF ps
        <3>3. QED
            BY <1>t, <2>1, <2>3, <3>1, <3>2 DEF PeerTimes, Seen
    <2> HIDE DEF ps, e
    <2>4. ASSUME NEW m \in Node, Registered(m)', NEW p \in Node, nodes'[m].peers[p] # None
          PROVE  /\ nodes'[m].lastSeen <= now
                 /\ nodes'[m].peers[p] <= now
                 /\ nodes'[m].peers[p] > nodes'[m].lastSeen - ExpireInterval
                 /\ Registered(p)' => nodes'[m].peers[p] <= nodes'[p].lastSeen
        <3>1. Registered(p)' => Registered(p) /\ (p # n => nodes'[p] = nodes[p])
            BY <2>1, <2>2 DEF Registered
        <3>2. CASE m = n
            BY <1>t, <2>1, <2>2, <2>3, <2>4, <3>1, <3>2
        <3>3. CASE m # n
            <4>1. nodes'[m] = nodes[m] /\ Registered(m)
                BY <2>2, <2>4, <3>3 DEF Registered
            <4>2. Registered(n) => nodes[n].lastSeen <= now
                BY DEF PeerTimes
            <4>3. QED
                BY <1>t, <2>1, <2>2, <2>4, <3>1, <4>1, <4>2 DEF PeerTimes
        <3>4. QED
            BY <3>2, <3>3
    <2>5. ASSUME NEW m \in Node, Registered(m)'
          PROVE  nodes'[m].lastSeen <= now
        BY <1>t, <2>1, <2>2, <2>5 DEF PeerTimes, Registered
    <2>6. QED
        BY <2>1, <2>4, <2>5 DEF PeerTimes
<1>6. QED
    BY <1>1, <1>2, <1>3, <1>4, <1>5 DEF StoreNext, storeVars, CheckAndSaveNonce,
       AddNodeBalance, AddAccountBalance, AddAccountNode

\* UpdateNodePeers drops every peer that went silent, for any expiry and any
\* reports: what NodePeers lists was seen within ExpireInterval of the update.
THEOREM SilentPeerDroppedHolds == StoreSpec => []SilentPeerDropped
<1>1. StoreInit => PeerTimes
    BY DEF StoreInit, PeerTimes, Registered
<1>2. StoreTypeOK /\ PeerTimes => SilentPeerDropped
    <2> SUFFICES ASSUME StoreTypeOK, PeerTimes, NEW n \in Node, Registered(n),
                        NEW p \in NodePeers(n)
                 PROVE  nodes[p].lastSeen > nodes[n].lastSeen - ExpireInterval
        BY DEF SilentPeerDropped
    <2>1. p \in Node /\ Registered(p) /\ nodes[n].peers[p] # None
        BY DEF NodePeers
    <2>2. /\ nodes[n].peers[p] \in Int /\ nodes[p].lastSeen \in Int
          /\ nodes[n].lastSeen \in Int /\ ExpireInterval \in Int
        BY <2>1, StoreAssumption DEF StoreTypeOK, MemNode, Registered
    <2>3. QED
        BY <2>1, <2>2 DEF PeerTimes
<1>3. QED
    BY <1>1, <1>2, PeerTimesNext, StoreTypeCorrect, PTL DEF StoreSpec
=============================================================================
