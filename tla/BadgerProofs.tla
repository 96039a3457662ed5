----------------------------- MODULE BadgerProofs -----------------------------
(***************************************************************************)
(* The badger store, for every set of nodes, accounts, goroutines and      *)
(* calls: transactions that overlap are serializable, a nonce is kept for  *)
(* good only by a migration that its iterator failed, and the store        *)
(* implements the ledger.                                                  *)
(***************************************************************************)
EXTENDS BadgerProps, Sums

\* The writes of a transaction, each of the type of its key; None deletes.
TypedWrites(w) ==
    DOMAIN w \subseteq Key /\ \A k \in DOMAIN w : w[k] # None => w[k] \in ValueOf(k)

\* A call with the times at which it looks at the clock.
IsOp(o) == o.call \in Calls /\ o.at \in Nat /\ o.time \in Nat

\* What a function that succeeds on d may read and write.
TypedTxn(f) == f.ok => f.reads \subseteq Key /\ TypedWrites(f.writes)

Agree(d, e, keys) == \A k \in keys : d[k] = e[k]
-----------------------------------------------------------------------------
(* Keys *)

LEMMA KeyTypes ==
    /\ \A n \in Node : /\ NodeKey(n) \in Key /\ ValueOf(NodeKey(n)) = NodeRecord
                       /\ PeersKey(n) \in Key /\ ValueOf(PeersKey(n)) = Peers
                       /\ AccountKey(n) \in Key /\ ValueOf(AccountKey(n)) = Account
                       /\ TrialKey(n) \in Key /\ ValueOf(TrialKey(n)) = Balance
    /\ \A a \in Account : BalanceKey(a) \in Key /\ ValueOf(BalanceKey(a)) = Balance
    /\ \A id \in ID : NonceKey(id) \in Key /\ ValueOf(NonceKey(id)) = Nonce
    /\ VersionKey \in Key /\ ValueOf(VersionKey) = Version
<1>1. \A n : /\ NodeKey(n)[1] = "node" /\ PeersKey(n)[1] = "peers"
             /\ AccountKey(n)[1] = "account" /\ TrialKey(n)[1] = "trial"
             /\ BalanceKey(n)[1] = "balance" /\ NonceKey(n)[1] = "nonce"
             /\ VersionKey[1] = "version"
    BY DEF NodeKey, PeersKey, AccountKey, TrialKey, BalanceKey, NonceKey, VersionKey
<1>2. \A n \in Node : /\ NodeKey(n) \in Key /\ PeersKey(n) \in Key
                      /\ AccountKey(n) \in Key /\ TrialKey(n) \in Key
    BY DEF Key, MoneyKeys
<1>3. \A a \in Account : BalanceKey(a) \in Key
    BY DEF Key, MoneyKeys
<1>4. (\A id \in ID : NonceKey(id) \in Key) /\ VersionKey \in Key
    BY DEF Key, NonceKeys
<1>5. ASSUME NEW n
      PROVE  /\ ValueOf(NodeKey(n)) = NodeRecord /\ ValueOf(PeersKey(n)) = Peers
             /\ ValueOf(AccountKey(n)) = Account /\ ValueOf(TrialKey(n)) = Balance
             /\ ValueOf(BalanceKey(n)) = Balance /\ ValueOf(NonceKey(n)) = Nonce
             /\ ValueOf(VersionKey) = Version
    BY <1>1 DEF ValueOf
<1>6. QED
    BY <1>2, <1>3, <1>4, <1>5

\* Keys of different kinds, or for different IDs, are different.
LEMMA KeysDiffer ==
    ASSUME NEW n, NEW m
    PROVE  /\ NodeKey(n) \notin {PeersKey(m), AccountKey(m), TrialKey(m), BalanceKey(m),
                                 NonceKey(m), VersionKey}
           /\ PeersKey(n) \notin {AccountKey(m), TrialKey(m), BalanceKey(m), NonceKey(m),
                                  VersionKey}
           /\ AccountKey(n) \notin {TrialKey(m), BalanceKey(m), NonceKey(m), VersionKey}
           /\ TrialKey(n) \notin {BalanceKey(m), NonceKey(m), VersionKey}
           /\ BalanceKey(n) \notin {NonceKey(m), VersionKey}
           /\ NonceKey(n) # VersionKey
           /\ NodeKey(n) = NodeKey(m) => n = m
           /\ PeersKey(n) = PeersKey(m) => n = m
           /\ AccountKey(n) = AccountKey(m) => n = m
           /\ TrialKey(n) = TrialKey(m) => n = m
           /\ BalanceKey(n) = BalanceKey(m) => n = m
           /\ NonceKey(n) = NonceKey(m) => n = m
    BY DEF NodeKey, PeersKey, AccountKey, TrialKey, BalanceKey, NonceKey, VersionKey

\* The fields of a call.
LEMMA CallFields ==
    ASSUME NEW c \in Calls
    PROVE  /\ c.op \in {"nonce", "addNodeBalance", "addAccountBalance", "addAccountNode",
                        "setNode", "updateNodePeers"}
           /\ c.op = "nonce" => c.id \in ID /\ c.nonce \in Nat
           /\ c.op = "addNodeBalance" => c.node \in Node /\ c.credit \in Int
           /\ c.op = "addAccountBalance" => c.account \in Account /\ c.credit \in Int
           /\ c.op = "addAccountNode" => c.account \in Account /\ c.node \in Node
           /\ c.op = "setNode" =>
                 c.node \in Node /\ c.isHost \in BOOLEAN /\ c.kind \in Kind \cup {None}
           /\ c.op = "updateNodePeers" => c.node \in Node /\ c.report \subseteq Node
    BY BadgerAssumption DEF CallType
-----------------------------------------------------------------------------
(* Writes *)

LEMMA SetItemIs ==
    ASSUME NEW k, NEW v
    PROVE  DOMAIN setItem(k, v) = {k} /\ setItem(k, v)[k] = v
    BY DEF setItem

LEMMA SetItemTyped ==
    ASSUME NEW k \in Key, NEW v, v # None => v \in ValueOf(k)
    PROVE  TypedWrites(setItem(k, v))
<1>1. DOMAIN setItem(k, v) = {k} /\ setItem(k, v)[k] = v
    BY SetItemIs
<1>2. QED
    BY <1>1 DEF TypedWrites

LEMMA OverIs ==
    ASSUME NEW w, NEW d
    PROVE  /\ DOMAIN Over(w, d) = DOMAIN w \cup DOMAIN d
           /\ \A k \in DOMAIN w : Over(w, d)[k] = w[k]
           /\ \A k \in DOMAIN d \ DOMAIN w : Over(w, d)[k] = d[k]
    BY DEF Over

LEMMA TwoItems ==
    ASSUME NEW j, NEW k, j # k, NEW u, NEW v
    PROVE  /\ \A x : x \in DOMAIN Over(setItem(j, u), setItem(k, v)) <=> x = j \/ x = k
           /\ Over(setItem(j, u), setItem(k, v))[j] = u
           /\ Over(setItem(j, u), setItem(k, v))[k] = v
<1> DEFINE a == setItem(j, u)
           b == setItem(k, v)
<1>1. DOMAIN a = {j} /\ a[j] = u /\ DOMAIN b = {k} /\ b[k] = v
    BY SetItemIs
<1> HIDE DEF a, b
<1>2. /\ \A x : x \in DOMAIN Over(a, b) <=> x = j \/ x = k
      /\ Over(a, b)[j] = u /\ Over(a, b)[k] = v
    BY <1>1 DEF Over
<1>3. QED
    BY <1>2 DEF a, b

LEMMA ThreeItems ==
    ASSUME NEW i, NEW j, NEW k, i # j, i # k, j # k, NEW t, NEW u, NEW v
    PROVE  /\ \A x : x \in DOMAIN Over(setItem(i, t), Over(setItem(j, u), setItem(k, v)))
                    <=> x = i \/ x = j \/ x = k
           /\ Over(setItem(i, t), Over(setItem(j, u), setItem(k, v)))[i] = t
           /\ Over(setItem(i, t), Over(setItem(j, u), setItem(k, v)))[j] = u
           /\ Over(setItem(i, t), Over(setItem(j, u), setItem(k, v)))[k] = v
<1> DEFINE a == setItem(i, t)
           b == Over(setItem(j, u), setItem(k, v))
<1>1. DOMAIN a = {i} /\ a[i] = t
    BY SetItemIs
<1>2. (\A x : x \in DOMAIN b <=> x = j \/ x = k) /\ b[j] = u /\ b[k] = v
    BY TwoItems
<1> HIDE DEF a, b
<1>3. /\ \A x : x \in DOMAIN Over(a, b) <=> x = i \/ x = j \/ x = k
      /\ Over(a, b)[i] = t /\ Over(a, b)[j] = u /\ Over(a, b)[k] = v
    BY <1>1, <1>2 DEF Over
<1>4. QED
    BY <1>3 DEF a, b

LEMMA OverTyped ==
    ASSUME NEW v, NEW w, TypedWrites(v), TypedWrites(w)
    PROVE  TypedWrites(Over(v, w))
<1>1. /\ DOMAIN Over(v, w) = DOMAIN v \cup DOMAIN w
      /\ \A k \in DOMAIN v : Over(v, w)[k] = v[k]
      /\ \A k \in DOMAIN w \ DOMAIN v : Over(v, w)[k] = w[k]
    BY OverIs
<1>2. QED
    BY <1>1 DEF TypedWrites

LEMMA OverDatabase ==
    ASSUME NEW w, NEW d, TypedWrites(w), IsDatabase(d)
    PROVE  IsDatabase(Over(w, d))
<1>1. /\ DOMAIN Over(w, d) = DOMAIN w \cup DOMAIN d
      /\ \A k \in DOMAIN w : Over(w, d)[k] = w[k]
      /\ \A k \in DOMAIN d \ DOMAIN w : Over(w, d)[k] = d[k]
    BY OverIs
<1>2. DOMAIN Over(w, d) = Key
    BY <1>1 DEF TypedWrites, IsDatabase
<1>3. QED
    BY <1>1, <1>2 DEF TypedWrites, IsDatabase, hasKey

LEMMA TxnIs ==
    ASSUME NEW reads, NEW writes
    PROVE  /\ Txn(reads, writes).ok
           /\ Txn(reads, writes).reads = reads
           /\ Txn(reads, writes).writes = writes
           /\ ~Fails.ok
    BY DEF Txn, Fails

LEMMA TypedTxnIs ==
    ASSUME NEW reads \in SUBSET Key, NEW writes, TypedWrites(writes)
    PROVE  TypedTxn(Txn(reads, writes))
    BY TxnIs DEF TypedTxn

LEMMA FailsTyped == TypedTxn(Fails)
    BY TxnIs DEF TypedTxn
-----------------------------------------------------------------------------
(* The functions of the methods: what they write is well typed, and depends *)
(* only on the keys that they read.                                         *)

LEMMA BalanceType ==
    ASSUME NEW d, IsDatabase(d), NEW k \in Key, ValueOf(k) = Balance
    PROVE  getBalance(d, k) \in Balance
<1>1. hasKey(d, k) => d[k] \in Balance
    BY DEF IsDatabase
<1>2. [account |-> None, credit |-> 0] \in Balance
    BY DEF Balance
<1>3. QED
    BY <1>1, <1>2 DEF getBalance

LEMMA NonceTyped ==
    ASSUME NEW d, NEW id \in ID, NEW nonce \in Nat, NEW at \in Nat, NEW t \in Nat
    PROVE  TypedTxn(CheckAndSaveNonce(d, id, nonce, at, t))
<1> DEFINE k == NonceKey(id)
           v == [nonce |-> nonce, expires |-> ExpiresAt(t)]
<1>1. k \in Key /\ ValueOf(k) = Nonce
    BY KeyTypes
<1>2. v \in Nonce
    BY BadgerAssumption DEF Nonce, ExpiresAt
<1>3. CheckAndSaveNonce(d, id, nonce, at, t) \in {Fails, Txn({k}, setItem(k, v))}
    BY DEF CheckAndSaveNonce
<1> HIDE DEF k, v
<1>4. TypedWrites(setItem(k, v))
    BY <1>1, <1>2, SetItemTyped
<1>5. TypedTxn(Txn({k}, setItem(k, v)))
    BY <1>1, <1>4, TypedTxnIs
<1>6. QED
    BY <1>3, <1>5, FailsTyped

LEMMA NonceReads ==
    ASSUME NEW d, NEW e, NEW id, NEW nonce, NEW at, NEW t,
           CheckAndSaveNonce(d, id, nonce, at, t).ok,
           Agree(d, e, CheckAndSaveNonce(d, id, nonce, at, t).reads)
    PROVE  CheckAndSaveNonce(e, id, nonce, at, t) = CheckAndSaveNonce(d, id, nonce, at, t)
<1> DEFINE k == NonceKey(id)
           v == [nonce |-> nonce, expires |-> ExpiresAt(t)]
<1>1. CheckAndSaveNonce(d, id, nonce, at, t) = Txn({k}, setItem(k, v))
    BY TxnIs DEF CheckAndSaveNonce
<1>2. d[k] = e[k]
    BY <1>1, TxnIs DEF Agree
<1>3. QED
    BY <1>2 DEF CheckAndSaveNonce, hasKey

\* The purse that a node spends from.
LEMMA SpendKeyType ==
    ASSUME NEW d, IsDatabase(d), NEW n \in Node
    PROVE  /\ SpendKey(d, n) \in Key /\ ValueOf(SpendKey(d, n)) = Balance
           /\ hasKey(d, AccountKey(n)) =>
                 d[AccountKey(n)] \in Account /\ SpendKey(d, n) = BalanceKey(d[AccountKey(n)])
           /\ ~hasKey(d, AccountKey(n)) => SpendKey(d, n) = TrialKey(n)
<1>1. hasKey(d, AccountKey(n)) => d[AccountKey(n)] \in Account
    BY KeyTypes DEF IsDatabase
<1>2. QED
    BY <1>1, KeyTypes DEF SpendKey

LEMMA AddNodeBalanceTyped ==
    ASSUME NEW d, IsDatabase(d), NEW n \in Node, NEW credit \in Int
    PROVE  TypedTxn(AddNodeBalance(d, n, credit))
<1> DEFINE b == SpendKey(d, n)
           v == [getBalance(d, b) EXCEPT !.credit = @ + credit]
           reads == {AccountKey(n), b} \cup (IF hasKey(d, b) THEN {} ELSE {NodeKey(n)})
<1>1. b \in Key /\ ValueOf(b) = Balance
    BY SpendKeyType
<1>2. getBalance(d, b) \in Balance
    BY <1>1, BalanceType
<1>3. v \in Balance
    BY <1>2 DEF Balance
<1>4. reads \in SUBSET Key
    BY <1>1, KeyTypes
<1>5. AddNodeBalance(d, n, credit) \in {Fails, Txn(reads, setItem(b, v))}
    BY DEF AddNodeBalance
<1> HIDE DEF b, v, reads
<1>6. TypedWrites(setItem(b, v))
    BY <1>1, <1>3, SetItemTyped
<1>7. TypedTxn(Txn(reads, setItem(b, v)))
    BY <1>4, <1>6, TypedTxnIs
<1>8. QED
    BY <1>5, <1>7, FailsTyped

LEMMA AddNodeBalanceReads ==
    ASSUME NEW d, NEW e, NEW n, NEW credit,
           AddNodeBalance(d, n, credit).ok,
           Agree(d, e, AddNodeBalance(d, n, credit).reads)
    PROVE  AddNodeBalance(e, n, credit) = AddNodeBalance(d, n, credit)
<1> DEFINE b == SpendKey(d, n)
           v == [getBalance(d, b) EXCEPT !.credit = @ + credit]
           reads == {AccountKey(n), b} \cup (IF hasKey(d, b) THEN {} ELSE {NodeKey(n)})
<1>1. hasKey(d, b) \/ hasKey(d, NodeKey(n))
    BY TxnIs DEF AddNodeBalance
<1>2. AddNodeBalance(d, n, credit) = Txn(reads, setItem(b, v))
    BY <1>1 DEF AddNodeBalance
<1>3. Agree(d, e, reads)
    BY <1>2, TxnIs
<1>4. d[AccountKey(n)] = e[AccountKey(n)] /\ d[b] = e[b]
    BY <1>3 DEF Agree
<1>5. SpendKey(e, n) = b
    BY <1>4 DEF SpendKey, hasKey
<1>6. hasKey(e, b) <=> hasKey(d, b)
    BY <1>4 DEF hasKey
<1>7. hasKey(d, b) \/ hasKey(e, NodeKey(n))
    BY <1>1, <1>3 DEF Agree, hasKey
<1>8. getBalance(e, b) = getBalance(d, b)
    BY <1>4 DEF getBalance, hasKey
<1> HIDE DEF b
<1>9. QED
    BY <1>2, <1>5, <1>6, <1>7, <1>8 DEF AddNodeBalance

LEMMA AddAccountBalanceTyped ==
    ASSUME NEW d, IsDatabase(d), NEW a \in Account, NEW credit \in Int
    PROVE  TypedTxn(AddAccountBalance(d, a, credit))
<1> DEFINE b == BalanceKey(a)
           v == [account |-> a, credit |-> getBalance(d, b).credit + credit]
<1>1. b \in Key /\ ValueOf(b) = Balance
    BY KeyTypes
<1>2. getBalance(d, b).credit \in Int
    BY <1>1, BalanceType DEF Balance
<1>3. v \in Balance
    BY <1>2 DEF Balance
<1>4. AddAccountBalance(d, a, credit) = Txn({b}, setItem(b, v))
    BY DEF AddAccountBalance
<1> HIDE DEF b, v
<1>5. TypedWrites(setItem(b, v))
    BY <1>1, <1>3, SetItemTyped
<1>6. QED
    BY <1>1, <1>4, <1>5, TypedTxnIs

LEMMA AddAccountBalanceReads ==
    ASSUME NEW d, NEW e, NEW a, NEW credit,
           Agree(d, e, AddAccountBalance(d, a, credit).reads)
    PROVE  AddAccountBalance(e, a, credit) = AddAccountBalance(d, a, credit)
<1> DEFINE b == BalanceKey(a)
<1>1. d[b] = e[b]
    BY TxnIs DEF AddAccountBalance, Agree
<1>2. getBalance(d, b) = getBalance(e, b)
    BY <1>1 DEF getBalance, hasKey
<1>3. QED
    BY <1>2 DEF AddAccountBalance

LEMMA AddAccountNodeTyped ==
    ASSUME NEW d, IsDatabase(d), NEW a \in Account, NEW n \in Node
    PROVE  TypedTxn(AddAccountNode(d, a, n))
<1> DEFINE b == BalanceKey(a)
           merged == getBalance(d, b).credit + getBalance(d, TrialKey(n)).credit
           v == [account |-> a, credit |-> merged]
           writes == Over(setItem(AccountKey(n), a),
                          Over(setItem(b, v), setItem(TrialKey(n), None)))
           reads == {NodeKey(n), TrialKey(n), b}
<1>1. b \in Key /\ ValueOf(b) = Balance
    BY KeyTypes
<1>2. getBalance(d, b).credit \in Int /\ getBalance(d, TrialKey(n)).credit \in Int
    BY <1>1, KeyTypes, BalanceType DEF Balance
<1>3. v \in Balance
    BY <1>2 DEF Balance
<1>4. reads \in SUBSET Key
    BY <1>1, KeyTypes
<1>5. AddAccountNode(d, a, n) \in {Fails, Txn(reads, writes)}
    BY DEF AddAccountNode
<1> HIDE DEF b, v, reads
<1>6. TypedWrites(setItem(b, v)) /\ TypedWrites(setItem(TrialKey(n), None))
    BY <1>1, <1>3, KeyTypes, SetItemTyped
<1>7. TypedWrites(setItem(AccountKey(n), a))
    BY KeyTypes, SetItemTyped
<1>8. TypedWrites(writes)
    BY <1>6, <1>7, OverTyped
<1> HIDE DEF writes
<1>9. QED
    BY <1>4, <1>5, <1>8, TypedTxnIs, FailsTyped

LEMMA AddAccountNodeReads ==
    ASSUME NEW d, NEW e, NEW a, NEW n,
           AddAccountNode(d, a, n).ok, Agree(d, e, AddAccountNode(d, a, n).reads)
    PROVE  AddAccountNode(e, a, n) = AddAccountNode(d, a, n)
<1> DEFINE b == BalanceKey(a)
           reads == {NodeKey(n), TrialKey(n), b}
<1>1. hasKey(d, NodeKey(n))
    BY TxnIs DEF AddAccountNode
<1>2. AddAccountNode(d, a, n).reads = reads
    BY <1>1, TxnIs DEF AddAccountNode
<1>3. d[NodeKey(n)] = e[NodeKey(n)] /\ d[TrialKey(n)] = e[TrialKey(n)] /\ d[b] = e[b]
    BY <1>2 DEF Agree
<1>4. getBalance(d, b) = getBalance(e, b) /\ getBalance(d, TrialKey(n)) = getBalance(e, TrialKey(n))
    BY <1>3 DEF getBalance, hasKey
<1>5. hasKey(e, NodeKey(n))
    BY <1>1, <1>3 DEF hasKey
<1>6. QED
    BY <1>1, <1>4, <1>5 DEF AddAccountNode

LEMMA SetNodeTyped ==
    ASSUME NEW n \in Node, NEW isHost \in BOOLEAN, NEW kind \in Kind \cup {None},
           NEW seen \in Nat
    PROVE  TypedTxn(SetNode(n, isHost, kind, seen))
<1> DEFINE v == [isHost |-> isHost, kind |-> kind, lastSeen |-> seen]
<1>1. v \in NodeRecord
    BY DEF NodeRecord
<1>2. SetNode(n, isHost, kind, seen) = Txn({}, setItem(NodeKey(n), v))
    BY DEF SetNode
<1> HIDE DEF v
<1>3. TypedWrites(setItem(NodeKey(n), v))
    BY <1>1, KeyTypes, SetItemTyped
<1>4. QED
    BY <1>2, <1>3, TypedTxnIs

\* The peers of a node, before and after a report.
LEMMA PeersType ==
    ASSUME NEW d, IsDatabase(d), NEW n \in Node, NEW report, NEW at \in Nat
    PROVE  /\ getPeers(d, n) \in Peers
           /\ ReportedPeers(d, n, report, at) \in Peers
<1>1. hasKey(d, PeersKey(n)) => d[PeersKey(n)] \in Peers
    BY KeyTypes DEF IsDatabase
<1>2. getPeers(d, n) \in Peers
    BY <1>1 DEF getPeers, Peers
<1>3. \A p \in Node : hasKey(d, NodeKey(p)) => d[NodeKey(p)] \in NodeRecord
    BY KeyTypes DEF IsDatabase
<1>4. \A p \in Node : hasKey(d, NodeKey(p)) => d[NodeKey(p)].lastSeen \in Nat
    BY <1>3 DEF NodeRecord
<1>5. ReportedPeers(d, n, report, at) \in Peers
    BY <1>2, <1>4 DEF ReportedPeers, Peers
<1>6. QED
    BY <1>2, <1>5

\* The peers that UpdateNodePeers keeps.
KeptPeers(seen, at) ==
    [p \in Node |-> IF seen[p] # None /\ seen[p] > at - ExpireInterval THEN seen[p] ELSE None]

\* What UpdateNodePeers reads and writes for a registered node.
LEMMA UpdateNodePeersIs ==
    ASSUME NEW d, NEW n, NEW report, NEW at
    PROVE  UpdateNodePeers(d, n, report, at) =
              IF hasKey(d, NodeKey(n))
              THEN Txn({NodeKey(n), PeersKey(n)} \cup {NodeKey(p) : p \in report},
                       Over(setItem(NodeKey(n), [d[NodeKey(n)] EXCEPT !.lastSeen = at]),
                            setItem(PeersKey(n),
                                    KeptPeers(ReportedPeers(d, n, report, at), at))))
              ELSE Fails
    BY DEF UpdateNodePeers, KeptPeers

LEMMA UpdateNodePeersTyped ==
    ASSUME NEW d, IsDatabase(d), NEW n \in Node, NEW report \in SUBSET Node, NEW at \in Nat
    PROVE  TypedTxn(UpdateNodePeers(d, n, report, at))
<1> DEFINE r == [d[NodeKey(n)] EXCEPT !.lastSeen = at]
           seen == ReportedPeers(d, n, report, at)
           kept == KeptPeers(seen, at)
           reads == {NodeKey(n), PeersKey(n)} \cup {NodeKey(p) : p \in report}
           writes == Over(setItem(NodeKey(n), r), setItem(PeersKey(n), kept))
<1>1. CASE ~hasKey(d, NodeKey(n))
    BY <1>1, UpdateNodePeersIs, FailsTyped
<1>2. CASE hasKey(d, NodeKey(n))
    <2>1. d[NodeKey(n)] \in NodeRecord
        BY <1>2, KeyTypes DEF IsDatabase
    <2>2. r \in NodeRecord
        BY <2>1 DEF NodeRecord
    <2>3. seen \in Peers
        BY PeersType
    <2> HIDE DEF seen
    <2>4. kept \in Peers
        BY <2>3 DEF Peers, KeptPeers
    <2>5. reads \in SUBSET Key
        BY KeyTypes
    <2>6. UpdateNodePeers(d, n, report, at) = Txn(reads, writes)
        BY <1>2, UpdateNodePeersIs DEF seen
    <2> HIDE DEF r, kept, reads
    <2>7. TypedWrites(setItem(NodeKey(n), r)) /\ TypedWrites(setItem(PeersKey(n), kept))
        BY <2>2, <2>4, KeyTypes, SetItemTyped
    <2>8. TypedWrites(writes)
        BY <2>7, OverTyped
    <2> HIDE DEF writes
    <2>9. QED
        BY <2>5, <2>6, <2>8, TypedTxnIs
<1>3. QED
    BY <1>1, <1>2

LEMMA UpdateNodePeersReads ==
    ASSUME NEW d, NEW e, NEW n, NEW report, NEW at,
           UpdateNodePeers(d, n, report, at).ok,
           Agree(d, e, UpdateNodePeers(d, n, report, at).reads)
    PROVE  UpdateNodePeers(e, n, report, at) = UpdateNodePeers(d, n, report, at)
<1> DEFINE reads == {NodeKey(n), PeersKey(n)} \cup {NodeKey(p) : p \in report}
<1>1. hasKey(d, NodeKey(n))
    BY UpdateNodePeersIs, TxnIs
<1>2. UpdateNodePeers(d, n, report, at).reads = reads
    BY <1>1, UpdateNodePeersIs, TxnIs
<1>3. /\ d[NodeKey(n)] = e[NodeKey(n)] /\ d[PeersKey(n)] = e[PeersKey(n)]
      /\ \A p \in report : d[NodeKey(p)] = e[NodeKey(p)]
    BY <1>2 DEF Agree
<1>4. getPeers(d, n) = getPeers(e, n)
    BY <1>3 DEF getPeers, hasKey
<1>5. ReportedPeers(d, n, report, at) = ReportedPeers(e, n, report, at)
    BY <1>3, <1>4 DEF ReportedPeers, hasKey
<1>6. hasKey(e, NodeKey(n))
    BY <1>1, <1>3 DEF hasKey
<1>7. QED
    BY <1>1, <1>3, <1>5, <1>6, UpdateNodePeersIs

\* The function that an operation runs.
LEMMA BodyIs ==
    ASSUME NEW o, NEW d
    PROVE  /\ o.call.op = "nonce" =>
                 Body(o, d) = CheckAndSaveNonce(d, o.call.id, o.call.nonce, o.at, o.time)
           /\ o.call.op = "addNodeBalance" =>
                 Body(o, d) = AddNodeBalance(d, o.call.node, o.call.credit)
           /\ o.call.op = "addAccountBalance" =>
                 Body(o, d) = AddAccountBalance(d, o.call.account, o.call.credit)
           /\ o.call.op = "addAccountNode" =>
                 Body(o, d) = AddAccountNode(d, o.call.account, o.call.node)
           /\ o.call.op = "setNode" =>
                 Body(o, d) = SetNode(o.call.node, o.call.isHost, o.call.kind, o.at)
           /\ o.call.op = "updateNodePeers" =>
                 Body(o, d) = UpdateNodePeers(d, o.call.node, o.call.report, o.at)
    BY DEF Body

\* Every function writes values of the types of their keys.
LEMMA BodyTyped ==
    ASSUME NEW o, IsOp(o), NEW d, IsDatabase(d)
    PROVE  TypedTxn(Body(o, d))
<1> DEFINE c == o.call
<1>1. c \in Calls /\ o.at \in Nat /\ o.time \in Nat
    BY DEF IsOp
<1>2. c.op \in {"nonce", "addNodeBalance", "addAccountBalance", "addAccountNode",
                "setNode", "updateNodePeers"}
    BY <1>1, CallFields
<1>3. CASE c.op = "nonce"
    BY <1>1, <1>3, CallFields, BodyIs, NonceTyped
<1>4. CASE c.op = "addNodeBalance"
    BY <1>1, <1>4, CallFields, BodyIs, AddNodeBalanceTyped
<1>5. CASE c.op = "addAccountBalance"
    BY <1>1, <1>5, CallFields, BodyIs, AddAccountBalanceTyped
<1>6. CASE c.op = "addAccountNode"
    BY <1>1, <1>6, CallFields, BodyIs, AddAccountNodeTyped
<1>7. CASE c.op = "setNode"
    BY <1>1, <1>7, CallFields, BodyIs, SetNodeTyped
<1>8. CASE c.op = "updateNodePeers"
    BY <1>1, <1>8, CallFields, BodyIs, UpdateNodePeersTyped
<1>9. QED
    BY <1>2, <1>3, <1>4, <1>5, <1>6, <1>7, <1>8

\* Every function depends only on the keys that it reads through its transaction.
LEMMA BodyReads ==
    ASSUME NEW o, IsOp(o), NEW d, NEW e, Body(o, d).ok, Agree(d, e, Body(o, d).reads)
    PROVE  Body(o, e) = Body(o, d)
<1> DEFINE c == o.call
<1>1. c.op \in {"nonce", "addNodeBalance", "addAccountBalance", "addAccountNode",
                "setNode", "updateNodePeers"}
    BY CallFields DEF IsOp
<1>2. CASE c.op = "nonce"
    BY <1>2, BodyIs, NonceReads
<1>3. CASE c.op = "addNodeBalance"
    BY <1>3, BodyIs, AddNodeBalanceReads
<1>4. CASE c.op = "addAccountBalance"
    BY <1>4, BodyIs, AddAccountBalanceReads
<1>5. CASE c.op = "addAccountNode"
    BY <1>5, BodyIs, AddAccountNodeReads
<1>6. CASE c.op = "setNode"
    BY <1>6, BodyIs
<1>7. CASE c.op = "updateNodePeers"
    BY <1>7, BodyIs, UpdateNodePeersReads
<1>8. QED
    BY <1>1, <1>2, <1>3, <1>4, <1>5, <1>6, <1>7
-----------------------------------------------------------------------------
(* The inductive invariant *)

\* A database that holds at most nonces and a version.
Bare(d) == \A k \in Key \ (NonceKeys \cup {VersionKey}) : d[k] = None

\* An open transaction x, over the committed database d: if nobody overwrote what it
\* read, its function would read and write the same now.
GoodTxn(x, d) ==
    /\ x = [op |-> x.op, reads |-> x.reads, writes |-> x.writes, stale |-> x.stale]
    /\ IsOp(x.op)
    /\ x.reads \subseteq Key /\ TypedWrites(x.writes) /\ x.stale \in BOOLEAN
    /\ ~x.stale =>
          /\ Body(x.op, d).ok
          /\ Body(x.op, d).reads = x.reads
          /\ Body(x.op, d).writes = x.writes

\* Transactions are open only while the store is.
TxnsGood ==
    /\ txn = [c \in Caller |-> txn[c]]
    /\ \A c \in Caller : txn[c] # None => up /\ GoodTxn(txn[c], db)

\* Migrate works on a copy of a bare database, which differs from it in the version only
\* until the last step; that step removes every nonce unless there are too many entries.
MigrateGood ==
    pend # None =>
        /\ ~up
        /\ IsDatabase(pend) /\ Bare(pend) /\ Bare(db)
        /\ getVersion(pend) < dbVersion => Agree(pend, db, NonceKeys)
        /\ KeptForGood(pend) => Cardinality(Scanned(db)) > PrefetchSize

BadgerInv ==
    /\ now \in Nat /\ up \in BOOLEAN
    /\ IsDatabase(db)
    /\ up => getVersion(db) = dbVersion
    /\ getVersion(db) < dbVersion => Bare(db)
    /\ TxnsGood
    /\ MigrateGood

\* What a transaction writes, by the kind of its call.
LEMMA BodyWrites ==
    ASSUME NEW o, IsOp(o), NEW d, Body(o, d).ok
    PROVE  /\ o.call.op = "nonce" =>
                 Body(o, d).writes = setItem(NonceKey(o.call.id),
                                             [nonce |-> o.call.nonce,
                                              expires |-> ExpiresAt(o.time)])
           /\ o.call.op = "addNodeBalance" =>
                 Body(o, d).writes =
                    setItem(SpendKey(d, o.call.node),
                            [getBalance(d, SpendKey(d, o.call.node))
                                EXCEPT !.credit = @ + o.call.credit])
           /\ o.call.op = "addAccountBalance" =>
                 Body(o, d).writes =
                    setItem(BalanceKey(o.call.account),
                            [account |-> o.call.account,
                             credit |-> getBalance(d, BalanceKey(o.call.account)).credit
                                        + o.call.credit])
           /\ o.call.op = "addAccountNode" =>
                 Body(o, d).writes =
                    Over(setItem(AccountKey(o.call.node), o.call.account),
                         Over(setItem(BalanceKey(o.call.account),
                                      [account |-> o.call.account,
                                       credit |->
                                          getBalance(d, BalanceKey(o.call.account)).credit
                                          + getBalance(d, TrialKey(o.call.node)).credit]),
                              setItem(TrialKey(o.call.node), None)))
           /\ o.call.op = "setNode" => DOMAIN Body(o, d).writes = {NodeKey(o.call.node)}
           /\ o.call.op = "updateNodePeers" =>
                 /\ hasKey(d, NodeKey(o.call.node))
                 /\ Body(o, d).writes =
                      Over(setItem(NodeKey(o.call.node),
                                   [d[NodeKey(o.call.node)] EXCEPT !.lastSeen = o.at]),
                           setItem(PeersKey(o.call.node),
                                   KeptPeers(ReportedPeers(d, o.call.node, o.call.report,
                                                           o.at), o.at)))
<1> DEFINE c == o.call
<1>1. ASSUME c.op = "nonce"
      PROVE  Body(o, d).writes = setItem(NonceKey(c.id), [nonce |-> c.nonce,
                                                          expires |-> ExpiresAt(o.time)])
    <2>1. Body(o, d) = CheckAndSaveNonce(d, c.id, c.nonce, o.at, o.time)
        BY <1>1, BodyIs
    <2>2. QED
        BY <2>1, TxnIs DEF CheckAndSaveNonce
<1>2. ASSUME c.op = "addNodeBalance"
      PROVE  Body(o, d).writes = setItem(SpendKey(d, c.node),
                                         [getBalance(d, SpendKey(d, c.node))
                                             EXCEPT !.credit = @ + c.credit])
    <2>1. Body(o, d) = AddNodeBalance(d, c.node, c.credit)
        BY <1>2, BodyIs
    <2>2. QED
        BY <2>1, TxnIs DEF AddNodeBalance
<1>3. ASSUME c.op = "addAccountBalance"
      PROVE  Body(o, d).writes = setItem(BalanceKey(c.account),
                                         [account |-> c.account,
                                          credit |-> getBalance(d, BalanceKey(c.account)).credit
                                                     + c.credit])
    <2>1. Body(o, d) = AddAccountBalance(d, c.account, c.credit)
        BY <1>3, BodyIs
    <2>2. QED
        BY <2>1, TxnIs DEF AddAccountBalance
<1>4. ASSUME c.op = "addAccountNode"
      PROVE  Body(o, d).writes =
                Over(setItem(AccountKey(c.node), c.account),
                     Over(setItem(BalanceKey(c.account),
                                  [account |-> c.account,
                                   credit |-> getBalance(d, BalanceKey(c.account)).credit
                                              + getBalance(d, TrialKey(c.node)).credit]),
                          setItem(TrialKey(c.node), None)))
    <2>1. Body(o, d) = AddAccountNode(d, c.account, c.node)
        BY <1>4, BodyIs
    <2>2. QED
        BY <2>1, TxnIs DEF AddAccountNode
<1>5. ASSUME c.op = "setNode"
      PROVE  DOMAIN Body(o, d).writes = {NodeKey(c.node)}
    <2>1. Body(o, d) = SetNode(c.node, c.isHost, c.kind, o.at)
        BY <1>5, BodyIs
    <2>2. PICK v : SetNode(c.node, c.isHost, c.kind, o.at) = Txn({}, setItem(NodeKey(c.node), v))
        BY DEF SetNode
    <2>3. Body(o, d).writes = setItem(NodeKey(c.node), v)
        BY <2>1, <2>2, TxnIs
    <2>4. QED
        BY <2>3, SetItemIs
<1>6. ASSUME c.op = "updateNodePeers"
      PROVE  /\ hasKey(d, NodeKey(c.node))
             /\ Body(o, d).writes =
                  Over(setItem(NodeKey(c.node), [d[NodeKey(c.node)] EXCEPT !.lastSeen = o.at]),
                       setItem(PeersKey(c.node),
                               KeptPeers(ReportedPeers(d, c.node, c.report, o.at), o.at)))
    <2>1. Body(o, d) = UpdateNodePeers(d, c.node, c.report, o.at)
        BY <1>6, BodyIs
    <2>2. hasKey(d, NodeKey(c.node))
        BY <2>1, UpdateNodePeersIs, TxnIs
    <2> DEFINE reads == {NodeKey(c.node), PeersKey(c.node)} \cup {NodeKey(p) : p \in c.report}
               writes == Over(setItem(NodeKey(c.node),
                                      [d[NodeKey(c.node)] EXCEPT !.lastSeen = o.at]),
                              setItem(PeersKey(c.node),
                                      KeptPeers(ReportedPeers(d, c.node, c.report, o.at), o.at)))
    <2>3. Body(o, d) = Txn(reads, writes)
        BY <2>1, <2>2, UpdateNodePeersIs
    <2> HIDE DEF reads, writes
    <2>4. Body(o, d).writes = writes
        BY <2>3, TxnIs
    <2>5. QED
        BY <2>2, <2>4 DEF writes
<1>7. QED
    BY <1>1, <1>2, <1>3, <1>4, <1>5, <1>6

\* The only nonce that is written is that of CheckAndSaveNonce, and the version is not.
LEMMA NonceWrites ==
    ASSUME NEW o, IsOp(o), NEW d, IsDatabase(d), Body(o, d).ok
    PROVE  /\ VersionKey \notin DOMAIN Body(o, d).writes
           /\ \A id \in ID : NonceKey(id) \in DOMAIN Body(o, d).writes =>
                 /\ o.call.op = "nonce" /\ o.call.id = id
                 /\ Body(o, d).writes[NonceKey(id)] =
                       [nonce |-> o.call.nonce, expires |-> ExpiresAt(o.time)]
<1> DEFINE c == o.call
           w == Body(o, d).writes
<1>1. c \in Calls
    BY DEF IsOp
<1>2. c.op \in {"nonce", "addNodeBalance", "addAccountBalance", "addAccountNode",
                "setNode", "updateNodePeers"}
    BY <1>1, CallFields
<1>3. CASE c.op = "nonce"
    <2> DEFINE v == [nonce |-> c.nonce, expires |-> ExpiresAt(o.time)]
    <2>1. w = setItem(NonceKey(c.id), v)
        BY <1>3, BodyWrites
    <2> HIDE DEF v, w
    <2>2. DOMAIN w = {NonceKey(c.id)} /\ w[NonceKey(c.id)] = v
        BY <2>1, SetItemIs
    <2>3. QED
        BY <1>3, <2>2, KeysDiffer DEF v, w
<1>4. CASE c.op # "nonce"
    <2>1. CASE c.op = "addNodeBalance"
        <3>1. PICK v : w = setItem(SpendKey(d, c.node), v)
            BY <2>1, BodyWrites
        <3>2. DOMAIN w = {SpendKey(d, c.node)}
            BY <3>1, SetItemIs
        <3>3. c.node \in Node
            BY <1>1, <2>1, CallFields
        <3>4. SpendKey(d, c.node) = TrialKey(c.node)
              \/ \E a \in Account : SpendKey(d, c.node) = BalanceKey(a)
            BY <3>3, SpendKeyType
        <3>5. QED
            BY <3>2, <3>4, KeysDiffer
    <2>2. CASE c.op = "addAccountBalance"
        <3>1. PICK v : w = setItem(BalanceKey(c.account), v)
            BY <2>2, BodyWrites
        <3>2. DOMAIN w = {BalanceKey(c.account)}
            BY <3>1, SetItemIs
        <3>3. QED
            BY <3>2, KeysDiffer
    <2>3. CASE c.op = "addAccountNode"
        <3>1. PICK v : w = Over(setItem(AccountKey(c.node), c.account),
                                Over(setItem(BalanceKey(c.account), v),
                                     setItem(TrialKey(c.node), None)))
            BY <2>3, BodyWrites
        <3>2. \A x : x \in DOMAIN w
                   <=> x = AccountKey(c.node) \/ x = BalanceKey(c.account) \/ x = TrialKey(c.node)
            BY <3>1, KeysDiffer, ThreeItems
        <3>3. QED
            BY <3>2, KeysDiffer
    <2>4. CASE c.op = "setNode"
        <3>1. DOMAIN w = {NodeKey(c.node)}
            BY <2>4, BodyWrites
        <3>2. QED
            BY <3>1, KeysDiffer
    <2>5. CASE c.op = "updateNodePeers"
        <3> DEFINE u == [d[NodeKey(c.node)] EXCEPT !.lastSeen = o.at]
                   v == KeptPeers(ReportedPeers(d, c.node, c.report, o.at), o.at)
        <3>1. w = Over(setItem(NodeKey(c.node), u), setItem(PeersKey(c.node), v))
            BY <2>5, BodyWrites
        <3> HIDE DEF u, v, w
        <3>2. \A x : x \in DOMAIN w <=> x = NodeKey(c.node) \/ x = PeersKey(c.node)
            BY <3>1, KeysDiffer, TwoItems
        <3>3. QED
            BY <3>2, KeysDiffer DEF w
    <2>6. QED
        BY <1>2, <1>4, <2>1, <2>2, <2>3, <2>4, <2>5
<1>5. QED
    BY <1>3, <1>4

\* An expiring nonce goes after at least a second, and at most ExpireNonce later.
LEMMA ExpiresAtIs ==
    ASSUME NEW t \in Nat
    PROVE  /\ ExpiresAt(t) \in Int
           /\ ExpireNonce = 0 => ExpiresAt(t) = 0
           /\ ExpireNonce > 0 => 0 < ExpiresAt(t) /\ ExpiresAt(t) <= t + ExpireNonce
<1>1. \A x \in Nat : x % Second \in 0 .. (Second - 1)
    BY BadgerAssumption
<1> DEFINE x == t + ExpireNonce
           r == x % Second
<1>2. x \in Nat /\ ExpireNonce \in Nat /\ Second \in Nat
    BY BadgerAssumption
<1>3. r \in Int /\ 0 <= r /\ r < Second
    BY <1>1, <1>2
<1>4. ExpireNonce > 0 => x >= Second
    BY BadgerAssumption
<1>5. /\ ExpireNonce > 0 => ExpiresAt(t) = x - r
      /\ ~(ExpireNonce > 0) => ExpiresAt(t) = 0
    BY DEF ExpiresAt
<1> HIDE DEF r
<1>6. x - r \in Int /\ x - r <= x /\ (ExpireNonce > 0 => 0 < x - r)
    BY <1>2, <1>3, <1>4
<1>7. QED
    BY <1>2, <1>5, <1>6

\* What a database holds once the writes of a transaction are applied.
LEMMA Committed ==
    ASSUME NEW w, TypedWrites(w), NEW d, IsDatabase(d), NEW k \in Key
    PROVE  Over(w, d)[k] = IF k \in DOMAIN w THEN w[k] ELSE d[k]
    BY DEF Over, IsDatabase

\* The commit of an operation keeps the version, and saves no nonce for good.
LEMMA CommitNonces ==
    ASSUME NEW o, IsOp(o), NEW d, IsDatabase(d), Body(o, d).ok,
           TypedWrites(Body(o, d).writes)
    PROVE  /\ getVersion(Over(Body(o, d).writes, d)) = getVersion(d)
           /\ KeptForGood(Over(Body(o, d).writes, d)) => KeptForGood(d)
<1> DEFINE w == Body(o, d).writes
           e == Over(w, d)
<1>1. VersionKey \in Key /\ VersionKey \notin DOMAIN w
    BY KeyTypes, NonceWrites
<1>2. e[VersionKey] = d[VersionKey]
    BY <1>1, Committed
<1>3. getVersion(e) = getVersion(d)
    BY <1>2 DEF getVersion, hasKey
<1>4. ASSUME NEW k \in NonceKeys, hasKey(e, k), ExpireNonce > 0, e[k].expires = 0
      PROVE  hasKey(d, k) /\ d[k].expires = 0
    <2>1. PICK id \in ID : k = NonceKey(id)
        BY DEF NonceKeys
    <2>2. k \in Key
        BY <2>1, KeyTypes
    <2>3. e[k] = IF k \in DOMAIN w THEN w[k] ELSE d[k]
        BY <2>2, Committed
    <2>4. k \notin DOMAIN w
        <3> SUFFICES ASSUME k \in DOMAIN w PROVE FALSE
            OBVIOUS
        <3>1. w[k] = [nonce |-> o.call.nonce, expires |-> ExpiresAt(o.time)]
            BY <2>1, NonceWrites
        <3>2. ExpiresAt(o.time) > 0
            BY <1>4, ExpiresAtIs DEF IsOp
        <3> HIDE DEF w, e
        <3>3. QED
            BY <1>4, <2>3, <3>1, <3>2
    <2> HIDE DEF w, e
    <2>5. QED
        BY <1>4, <2>3, <2>4 DEF hasKey
<1>5. KeptForGood(e) => KeptForGood(d)
    <2> HIDE DEF e, w
    <2>1. QED
        BY <1>3, <1>4 DEF KeptForGood
<1>6. QED
    BY <1>3, <1>5

\* An open transaction survives the commit of another unless that overwrote its reads.
LEMMA GoodTxnKept ==
    ASSUME NEW x, NEW d, IsDatabase(d), GoodTxn(x, d), NEW w, TypedWrites(w),
           x.reads \cap DOMAIN w = {}
    PROVE  GoodTxn(x, Over(w, d))
<1> DEFINE e == Over(w, d)
<1>1. \A k \in x.reads : e[k] = d[k]
    BY Committed DEF GoodTxn
<1> HIDE DEF e
<1>2. ASSUME ~x.stale
      PROVE  Body(x.op, e) = Body(x.op, d)
    <2>1. Body(x.op, d).ok /\ Body(x.op, d).reads = x.reads /\ IsOp(x.op)
        BY <1>2 DEF GoodTxn
    <2>2. Agree(d, e, Body(x.op, d).reads)
        BY <1>1, <2>1 DEF Agree
    <2>3. QED
        BY <2>1, <2>2, BodyReads
<1>3. GoodTxn(x, e)
    BY <1>2 DEF GoodTxn
<1>4. QED
    BY <1>3 DEF e
-----------------------------------------------------------------------------
LEMMA BeginStep ==
    ASSUME BadgerInv, NEW c \in Caller, NEW call \in Calls, NEW at \in 0 .. now,
           Begin(c, Timed(call, at))
    PROVE  BadgerInv'
<1> DEFINE o == Timed(call, at)
           f == Body(o, db)
           x == [op |-> o, reads |-> f.reads, writes |-> f.writes, stale |-> FALSE]
<1>1. UNCHANGED <<now, db, up, pend>> /\ up /\ f.ok /\ txn' = [txn EXCEPT ![c] = x]
    BY DEF Begin
<1>2. IsOp(o)
    <2>1. at \in Nat /\ now \in Nat
        BY DEF BadgerInv
    <2>2. o.call = call /\ o.at \in {at, 0} /\ o.time \in {now, 0}
        BY DEF Timed
    <2> HIDE DEF o
    <2>3. QED
        BY <2>1, <2>2 DEF IsOp
<1> HIDE DEF o
<1>3. TypedTxn(f)
    BY <1>2, BodyTyped DEF BadgerInv
<1>4. f.reads \subseteq Key /\ TypedWrites(f.writes)
    BY <1>1, <1>3 DEF TypedTxn
<1>5. x.op = o /\ x.reads = f.reads /\ x.writes = f.writes /\ x.stale = FALSE
    OBVIOUS
<1>6. x = [op |-> x.op, reads |-> x.reads, writes |-> x.writes, stale |-> x.stale]
    OBVIOUS
<1> HIDE DEF x
<1>7. GoodTxn(x, db)
    BY <1>1, <1>2, <1>4, <1>5, <1>6 DEF GoodTxn
<1>8. txn' = [b \in Caller |-> IF b = c THEN x ELSE txn[b]]
    BY <1>1 DEF BadgerInv, TxnsGood
<1>9. TxnsGood'
    BY <1>1, <1>7, <1>8 DEF BadgerInv, TxnsGood
<1>10. MigrateGood'
    BY <1>1 DEF BadgerInv, MigrateGood
<1>11. QED
    BY <1>1, <1>9, <1>10 DEF BadgerInv

\* The conflicting transactions are marked, and the others are not disturbed.
LEMMA CommitStep ==
    ASSUME BadgerInv, NEW c \in Caller, Commit(c)
    PROVE  BadgerInv'
<1> DEFINE o == txn[c].op
           w == txn[c].writes
<1>1. UNCHANGED <<now, up, pend>> /\ db' = Over(w, db)
    BY DEF Commit
<1>2. up /\ GoodTxn(txn[c], db) /\ ~txn[c].stale
    BY DEF Commit, BadgerInv, TxnsGood
<1>3. IsOp(o) /\ TypedWrites(w) /\ Body(o, db).ok /\ Body(o, db).writes = w
    BY <1>2 DEF GoodTxn
<1>4. IsDatabase(db) /\ getVersion(db) = dbVersion
    BY <1>2 DEF BadgerInv
<1>5. IsDatabase(db')
    BY <1>1, <1>3, <1>4, OverDatabase
<1>6. getVersion(db') = dbVersion
    BY <1>1, <1>3, <1>4, CommitNonces
<1>7. pend = None
    BY <1>2 DEF BadgerInv, MigrateGood
<1>8. txn' = [x \in Caller |-> IF x = c THEN None
                                ELSE IF Overwrites(c, x) THEN [txn[x] EXCEPT !.stale = TRUE]
                                ELSE txn[x]]
    BY DEF Commit
<1>9. ASSUME NEW x \in Caller, txn'[x] # None
      PROVE  GoodTxn(txn'[x], db')
    <2>1. x # c
        BY <1>8, <1>9
    <2>2. txn'[x] = IF Overwrites(c, x) THEN [txn[x] EXCEPT !.stale = TRUE] ELSE txn[x]
        BY <1>8, <2>1
    <2>3. CASE Overwrites(c, x)
        <3>1. GoodTxn(txn[x], db)
            BY <2>3 DEF Overwrites, BadgerInv, TxnsGood
        <3>2. txn'[x] = [txn[x] EXCEPT !.stale = TRUE]
            BY <2>2, <2>3
        <3>3. /\ txn'[x].op = txn[x].op /\ txn'[x].reads = txn[x].reads
              /\ txn'[x].writes = txn[x].writes /\ txn'[x].stale = TRUE
              /\ txn'[x] = [op |-> txn[x].op, reads |-> txn[x].reads,
                            writes |-> txn[x].writes, stale |-> TRUE]
            BY <3>1, <3>2 DEF GoodTxn
        <3>4. QED
            BY <3>1, <3>3 DEF GoodTxn
    <2>4. CASE ~Overwrites(c, x)
        <3>1. txn'[x] = txn[x] /\ txn[x] # None
            BY <1>9, <2>2, <2>4
        <3>2. GoodTxn(txn[x], db) /\ txn[x].reads \cap DOMAIN w = {}
            BY <2>4, <3>1 DEF Overwrites, BadgerInv, TxnsGood
        <3> HIDE DEF w
        <3>3. GoodTxn(txn[x], Over(w, db))
            BY <1>3, <1>4, <3>2, GoodTxnKept
        <3>4. QED
            BY <1>1, <3>1, <3>3
    <2>5. QED
        BY <2>3, <2>4
<1>10. txn' = [x \in Caller |-> txn'[x]]
    BY <1>8
<1>11. TxnsGood'
    BY <1>1, <1>2, <1>9, <1>10 DEF TxnsGood
<1>12. MigrateGood'
    BY <1>1, <1>7 DEF MigrateGood
<1>13. QED
    BY <1>1, <1>5, <1>6, <1>11, <1>12 DEF BadgerInv, dbVersion

LEMMA ConflictStep ==
    ASSUME BadgerInv, NEW c \in Caller, Conflict(c)
    PROVE  BadgerInv'
<1>1. UNCHANGED <<now, db, up, pend>>
    BY DEF Conflict
<1>2. txn' = [b \in Caller |-> IF b = c THEN None ELSE txn[b]]
    BY DEF Conflict, BadgerInv, TxnsGood
<1>3. TxnsGood'
    BY <1>1, <1>2 DEF BadgerInv, TxnsGood
<1>4. MigrateGood'
    BY <1>1 DEF BadgerInv, MigrateGood
<1>5. QED
    BY <1>1, <1>3, <1>4 DEF BadgerInv

\* What an iterator meets, in two databases that hold the same.
LEMMA ScannedSame ==
    ASSUME NEW d, NEW e, Bare(d), Bare(e), Agree(d, e, NonceKeys)
    PROVE  Scanned(d) = Scanned(e)
<1>1. ASSUME NEW k \in NonceKeys \cup {PeersKey(n) : n \in Node} \cup {TrialKey(n) : n \in Node}
      PROVE  d[k] = e[k]
    <2>1. k \in Key
        BY KeyTypes DEF NonceKeys
    <2>2. CASE k \in NonceKeys
        BY <2>2 DEF Agree
    <2>3. CASE k \notin NonceKeys
        <3>1. k # VersionKey
            BY <2>3, KeysDiffer
        <3>2. QED
            BY <2>1, <2>3, <3>1 DEF Bare
    <2>4. QED
        BY <2>2, <2>3
<1>2. QED
    BY <1>1 DEF Scanned, hasKey

\* A step of a migration keeps the database well typed and bare; the step to version 2
\* removes every nonce, unless there are more entries than the iterator prefetches.
LEMMA migrationsGood ==
    ASSUME NEW d, IsDatabase(d), Bare(d), getVersion(d) < dbVersion,
           NEW e \in migrations(getVersion(d), d)
    PROVE  /\ IsDatabase(e) /\ Bare(e)
           /\ getVersion(e) < dbVersion => Agree(e, d, NonceKeys)
           /\ KeptForGood(e) => Cardinality(Scanned(d)) > PrefetchSize
<1> DEFINE v == getVersion(d)
<1>1. v \in {0, 1}
    <2>1. v \in Version
        BY KeyTypes DEF getVersion, IsDatabase, Version, dbVersion
    <2>2. QED
        BY <2>1 DEF Version, dbVersion
<1>2. PICK gone \in IF v = 1 THEN NukedNonces(d) ELSE {{}} :
        e = [k \in Key |-> IF k = VersionKey THEN v + 1 ELSE IF k \in gone THEN None ELSE d[k]]
    BY DEF migrations
<1> HIDE DEF v
<1>3. e[VersionKey] = v + 1 /\ v + 1 \in Version /\ v + 1 # None
    BY <1>1, <1>2, KeyTypes, BadgerAssumption DEF Version, dbVersion
<1>4. IsDatabase(e)
    BY <1>2, <1>3, KeyTypes DEF IsDatabase, hasKey
<1>5. Bare(e)
    BY <1>2 DEF Bare
<1>6. getVersion(e) = v + 1
    BY <1>3 DEF getVersion, hasKey
<1>7. \A k \in NonceKeys : k \in Key /\ k # VersionKey
    BY KeyTypes, KeysDiffer DEF NonceKeys
<1>8. ASSUME getVersion(e) < dbVersion
      PROVE  Agree(e, d, NonceKeys)
    <2>1. v # 1
        BY <1>6, <1>8 DEF dbVersion
    <2>2. gone = {}
        BY <1>2, <2>1
    <2>3. QED
        BY <1>2, <1>7, <2>2 DEF Agree
<1>9. ASSUME KeptForGood(e)
      PROVE  Cardinality(Scanned(d)) > PrefetchSize
    <2> SUFFICES ASSUME ~(Cardinality(Scanned(d)) > PrefetchSize) PROVE FALSE
        OBVIOUS
    <2>1. v = 1
        BY <1>1, <1>6, <1>9 DEF KeptForGood, dbVersion
    <2>2. gone = NonceKeys
        BY <1>2, <2>1 DEF NukedNonces
    <2>3. \A k \in NonceKeys : ~hasKey(e, k)
        BY <1>2, <1>7, <2>2 DEF hasKey
    <2>4. QED
        BY <1>9, <2>3 DEF KeptForGood
<1>10. QED
    BY <1>4, <1>5, <1>8, <1>9

LEMMA MigrateBeginStep ==
    ASSUME BadgerInv, MigrateBegin
    PROVE  BadgerInv'
<1>1. /\ UNCHANGED <<now, db, txn, up>> /\ pend' = db /\ ~up
      /\ getVersion(db) < dbVersion
    BY DEF MigrateBegin
<1>2. IsDatabase(db) /\ Bare(db) /\ getVersion(db) # dbVersion
    BY <1>1 DEF BadgerInv, dbVersion
<1>3. MigrateGood'
    BY <1>1, <1>2 DEF MigrateGood, Agree, KeptForGood
<1>4. QED
    BY <1>1, <1>3 DEF BadgerInv, TxnsGood

LEMMA MigrateStepStep ==
    ASSUME BadgerInv, MigrateStep
    PROVE  BadgerInv'
<1>1. UNCHANGED <<now, db, txn, up>> /\ pend' \in migrations(getVersion(pend), pend)
    BY DEF MigrateStep
<1>2. /\ ~up /\ IsDatabase(pend) /\ getVersion(pend) < dbVersion
      /\ Bare(pend) /\ Bare(db) /\ Agree(pend, db, NonceKeys)
    BY DEF BadgerInv, MigrateGood, MigrateStep
<1>3. /\ IsDatabase(pend') /\ Bare(pend')
      /\ getVersion(pend') < dbVersion => Agree(pend', pend, NonceKeys)
      /\ KeptForGood(pend') => Cardinality(Scanned(pend)) > PrefetchSize
    BY <1>1, <1>2, migrationsGood
<1>4. Scanned(pend) = Scanned(db)
    BY <1>2, ScannedSame
<1>5. MigrateGood'
    BY <1>1, <1>2, <1>3, <1>4 DEF MigrateGood, Agree
<1>6. QED
    BY <1>1, <1>5 DEF BadgerInv, TxnsGood

LEMMA MigrateCommitStep ==
    ASSUME BadgerInv, MigrateCommit
    PROVE  BadgerInv'
<1>1. /\ UNCHANGED <<now, txn>> /\ db' = pend /\ pend' = None /\ up' = TRUE
      /\ getVersion(pend) = dbVersion
    BY DEF MigrateCommit
<1>2. ~up /\ IsDatabase(pend) /\ Bare(pend)
    BY DEF BadgerInv, MigrateGood, MigrateCommit
<1>3. \A c \in Caller : txn[c] = None
    BY <1>2 DEF BadgerInv, TxnsGood
<1>4. TxnsGood' /\ MigrateGood'
    BY <1>1, <1>3 DEF BadgerInv, TxnsGood, MigrateGood
<1>5. QED
    BY <1>1, <1>2, <1>4 DEF BadgerInv

LEMMA CrashStep ==
    ASSUME BadgerInv, Crash
    PROVE  BadgerInv'
    BY DEF BadgerInv, TxnsGood, MigrateGood, Crash

LEMMA OpenLatestStep ==
    ASSUME BadgerInv, OpenLatest
    PROVE  BadgerInv'
    BY DEF BadgerInv, TxnsGood, MigrateGood, OpenLatest

LEMMA TickStep ==
    ASSUME BadgerInv, Tick
    PROVE  BadgerInv'
    BY DEF BadgerInv, TxnsGood, MigrateGood, Tick

\* The initial database: a version, and nonces only before version 2.
LEMMA BadgerInitInv == BadgerInit => BadgerInv
<1> SUFFICES ASSUME BadgerInit PROVE BadgerInv
    OBVIOUS
<1>1. PICK v \in Version, last \in [ID -> {c.nonce : c \in NonceCalls} \cup {None}] :
        /\ \A id \in ID : last[id] # None =>
              v \in {0, 1} /\ \E c \in NonceCalls : c.id = id /\ c.nonce = last[id]
        /\ db = [k \in Key |->
                   IF k = VersionKey /\ v # 0 THEN v
                   ELSE IF k \in NonceKeys /\ last[k[2]] # None
                   THEN [nonce |-> last[k[2]], expires |-> 0]
                   ELSE None]
    BY DEF BadgerInit
<1>2. DOMAIN db = Key
    BY <1>1
<1>3. ASSUME NEW id \in ID, hasKey(db, NonceKey(id))
      PROVE  db[NonceKey(id)] \in Nonce /\ v \in {0, 1}
    <2> DEFINE k == NonceKey(id)
               x == [nonce |-> last[id], expires |-> 0]
    <2>1. k \in Key /\ k \in NonceKeys /\ k # VersionKey /\ k[2] = id
        BY KeyTypes, KeysDiffer DEF NonceKeys, NonceKey
    <2> HIDE DEF k
    <2>2. db[k] = IF last[id] # None THEN x ELSE None
        BY <1>1, <2>1
    <2>3. last[id] # None
        BY <1>3, <2>2 DEF hasKey, k
    <2>4. last[id] \in Nat
        BY <1>1, <2>3, CallFields DEF NonceCalls
    <2>5. x \in Nonce
        BY <2>4 DEF Nonce
    <2>6. QED
        BY <1>1, <2>2, <2>3, <2>5 DEF k
<1>4. db[VersionKey] = IF v # 0 THEN v ELSE None
    BY <1>1, KeyTypes, KeysDiffer DEF NonceKeys
<1>5. \A k \in Key : k # VersionKey /\ k \notin NonceKeys => db[k] = None
    BY <1>1
<1>6. IsDatabase(db)
    <2>1. ASSUME NEW k \in Key, hasKey(db, k)
          PROVE  db[k] \in ValueOf(k)
        <3>1. CASE k = VersionKey
            BY <1>4, <2>1, <3>1, KeyTypes DEF hasKey
        <3>2. CASE k \in NonceKeys
            BY <1>3, <2>1, <3>2, KeyTypes DEF NonceKeys
        <3>3. QED
            BY <1>5, <2>1, <3>1, <3>2 DEF hasKey
    <2>2. QED
        BY <1>2, <2>1 DEF IsDatabase
<1>7. getVersion(db) = v
    BY <1>4, BadgerAssumption DEF getVersion, hasKey, Version
<1>8. Bare(db)
    BY <1>5 DEF Bare
<1>9. TxnsGood /\ MigrateGood
    BY DEF BadgerInit, TxnsGood, MigrateGood
<1>10. QED
    BY <1>6, <1>8, <1>9 DEF BadgerInit, BadgerInv

LEMMA BadgerStep == BadgerInv /\ [BadgerNext]_badgerVars => BadgerInv'
<1> SUFFICES ASSUME BadgerInv, [BadgerNext]_badgerVars
             PROVE  BadgerInv'
    OBVIOUS
<1>1. ASSUME NEW c \in Caller, NEW call \in Calls, NEW at \in 0 .. now,
             Begin(c, Timed(call, at))
      PROVE  BadgerInv'
    BY <1>1, BeginStep
<1>2. ASSUME NEW c \in Caller, Commit(c) \/ Conflict(c)
      PROVE  BadgerInv'
    BY <1>2, CommitStep, ConflictStep
<1>3. CASE OpenLatest \/ MigrateBegin \/ MigrateStep \/ MigrateCommit
    BY <1>3, OpenLatestStep, MigrateBeginStep, MigrateStepStep, MigrateCommitStep
<1>4. CASE Crash \/ Tick
    BY <1>4, CrashStep, TickStep
<1>5. CASE UNCHANGED badgerVars
    BY <1>5 DEF BadgerInv, TxnsGood, MigrateGood, badgerVars
<1>6. QED
    BY <1>1, <1>2, <1>3, <1>4, <1>5 DEF BadgerNext

LEMMA BadgerInvHolds == BadgerSpec => []BadgerInv
    BY BadgerInitInv, BadgerStep, PTL DEF BadgerSpec

\* Every key of badgerStore, every write of an open transaction and every value of a
\* running migration is of the type that its getItem decodes.
THEOREM BadgerTypeCorrect == BadgerSpec => []BadgerTypeOK
<1>1. BadgerInv => BadgerTypeOK
    BY DEF BadgerInv, TxnsGood, GoodTxn, TypedWrites, MigrateGood, BadgerTypeOK
<1>2. QED
    BY <1>1, BadgerInvHolds, PTL

\* Whatever commits meanwhile, the function of a transaction that will commit would do
\* the same if it ran only now: all that the methods build on is read through the
\* transaction, so that badger's conflict detection loses no update.
THEOREM SerializableHolds == BadgerSpec => []Serializable
<1>1. BadgerInv => Serializable
    BY DEF BadgerInv, TxnsGood, GoodTxn, Serializable
<1>2. QED
    BY <1>1, BadgerInvHolds, PTL

\* Wherever Migrate is interrupted, and whatever was saved since: a database that Open
\* accepts comes to hold a nonce for good only in a migration of more entries than its
\* iterator prefetches.
THEOREM NoncesExpireHolds == BadgerSpec => NoncesExpire
<1>1. ASSUME BadgerInv, [BadgerNext]_badgerVars, KeptForGood(db)', ~KeptForGood(db)
      PROVE  MigrateCommit /\ Cardinality(Scanned(db)) > PrefetchSize
    <2>1. ASSUME NEW c \in Caller, Commit(c)
          PROVE  FALSE
        <3>1. /\ GoodTxn(txn[c], db) /\ ~txn[c].stale /\ IsDatabase(db)
              /\ db' = Over(txn[c].writes, db)
            BY <1>1, <2>1 DEF Commit, BadgerInv, TxnsGood
        <3>2. /\ IsOp(txn[c].op) /\ TypedWrites(txn[c].writes) /\ Body(txn[c].op, db).ok
              /\ Body(txn[c].op, db).writes = txn[c].writes
            BY <3>1 DEF GoodTxn
        <3>3. KeptForGood(db') => KeptForGood(db)
            BY <3>1, <3>2, CommitNonces
        <3>4. QED
            BY <1>1, <3>3
    <2>2. CASE MigrateCommit
        <3>1. db' = pend /\ pend # None
            BY <2>2 DEF MigrateCommit
        <3>2. QED
            BY <1>1, <2>2, <3>1 DEF BadgerInv, MigrateGood
    <2>3. db' # db
        BY <1>1
    <2>4. QED
        BY <1>1, <2>1, <2>2, <2>3 DEF BadgerNext, badgerVars, Tick, Begin, Conflict,
           OpenLatest, MigrateBegin, MigrateStep, Crash
<1>2. BadgerInv /\ [BadgerNext]_badgerVars =>
        [KeptForGood(db)' =>
            \/ KeptForGood(db)
            \/ MigrateCommit /\ Cardinality(Scanned(db)) > PrefetchSize]_badgerVars
    BY <1>1
<1>3. QED
    BY <1>2, BadgerInvHolds, PTL DEF BadgerSpec, NoncesExpire

\* A nonce is accepted above the one that is committed, or else after that has expired,
\* and then only if that one was ahead of the clock or had not expired at the check.
LEMMA NonceAccepted ==
    ASSUME BadgerInv, NEW c \in Caller, NEW id \in ID, Commit(c),
           NonceKey(id) \in DOMAIN txn[c].writes, hasKey(db, NonceKey(id))
    PROVE  Supersedes(txn[c].writes[NonceKey(id)].nonce, txn[c].op, db[NonceKey(id)])
<1> DEFINE k == NonceKey(id)
           o == txn[c].op
           w == txn[c].writes
<1>1. GoodTxn(txn[c], db) /\ ~txn[c].stale /\ IsDatabase(db)
    BY DEF Commit, BadgerInv, TxnsGood
<1>2. IsOp(o) /\ Body(o, db).ok /\ Body(o, db).writes = w
    BY <1>1 DEF GoodTxn
<1>3. /\ o.call.op = "nonce" /\ o.call.id = id
      /\ w[k] = [nonce |-> o.call.nonce, expires |-> ExpiresAt(o.time)]
    BY <1>1, <1>2, NonceWrites
<1>4. CheckAndSaveNonce(db, id, o.call.nonce, o.at, o.time).ok
    BY <1>2, <1>3, BodyIs
<1>5. /\ ~(hasKey(db, k) /\ ~Expired(db[k], o.time) /\ db[k].nonce >= o.call.nonce)
      /\ ~(ExpireNonce > 0 /\ o.call.nonce <= o.at - ExpireNonce)
    BY <1>4, TxnIs DEF CheckAndSaveNonce
<1>6. /\ db[k].nonce \in Nat /\ o.call.nonce \in Nat /\ o.at \in Nat
      /\ db[k].expires \in Int /\ (ExpireNonce = 0 => db[k].expires = 0)
    <2>1. db[k] \in Nonce
        BY <1>1, KeyTypes DEF IsDatabase
    <2>2. o.call.nonce \in Nat /\ o.at \in Nat
        BY <1>2, <1>3, CallFields DEF IsOp
    <2>3. QED
        BY <2>1, <2>2 DEF Nonce
<1>7. w[k].nonce = o.call.nonce
    BY <1>3
<1> HIDE DEF k, o, w
<1>8. Supersedes(w[k].nonce, o, db[k])
    BY <1>5, <1>6, <1>7, BadgerAssumption DEF k, Supersedes, Expired
<1>9. QED
    BY <1>8 DEF k, o, w

\* CheckAndSaveNonce replaces a nonce only by a higher one, however many requests
\* present theirs at once and although nonces are forgotten, but for a nonce that was
\* ahead of the clock and a check that was stale when its transaction began.
THEOREM NonceHighestHolds == BadgerSpec => NonceHighest
<1>1. BadgerInv /\ [BadgerNext]_badgerVars =>
        [\A c \in Caller, id \in ID :
            LET k == NonceKey(id)
            IN  Commit(c) /\ k \in DOMAIN txn[c].writes /\ hasKey(db, k) =>
                   Supersedes(txn[c].writes[k].nonce, txn[c].op, db[k])]_badgerVars
    BY NonceAccepted
<1>2. QED
    BY <1>1, BadgerInvHolds, PTL DEF BadgerSpec, NonceHighest

\* What UpdateNodePeers commits: of the reported peers it keeps those whose LastSeen, as
\* committed at the same moment, is recent.
LEMMA UpdateKeepsRecent ==
    ASSUME BadgerInv, NEW c \in Caller, Commit(c), txn[c].op.call.op = "updateNodePeers",
           NEW n \in Node, txn[c].op.call.node = n,
           NEW p \in NodePeers(n)', p \in txn[c].op.call.report
    PROVE  GetNode(p)'.lastSeen > txn[c].op.at - ExpireInterval
<1> DEFINE o == txn[c].op
           w == txn[c].writes
           report == o.call.report
           at == o.at
           r == [db[NodeKey(n)] EXCEPT !.lastSeen = at]
           seen == ReportedPeers(db, n, report, at)
           kept == KeptPeers(seen, at)
<1>1. GoodTxn(txn[c], db) /\ ~txn[c].stale /\ IsDatabase(db)
    BY DEF Commit, BadgerInv, TxnsGood
<1>2. IsOp(o) /\ Body(o, db).ok /\ Body(o, db).writes = w /\ TypedWrites(w)
    BY <1>1 DEF GoodTxn
<1>3. o.call.node = n /\ report \subseteq Node /\ at \in Nat
    BY <1>2, CallFields DEF IsOp
<1>4. /\ hasKey(db, NodeKey(n))
      /\ w = Over(setItem(NodeKey(n), r), setItem(PeersKey(n), kept))
    <2> HIDE DEF o, w
    <2>1. o.call.op = "updateNodePeers"
        BY DEF o
    <2>2. /\ hasKey(db, NodeKey(o.call.node))
          /\ Body(o, db).writes =
                Over(setItem(NodeKey(o.call.node),
                             [db[NodeKey(o.call.node)] EXCEPT !.lastSeen = o.at]),
                     setItem(PeersKey(o.call.node),
                             KeptPeers(ReportedPeers(db, o.call.node, o.call.report,
                                                     o.at), o.at)))
        BY <1>2, <2>1, BodyWrites
    <2>3. QED
        BY <1>2, <1>3, <2>2
<1>5. db' = Over(w, db)
    BY DEF Commit
<1>6. p \in Node /\ hasKey(db', NodeKey(p)) /\ getPeers(db', n)[p] # None
    BY DEF NodePeers, AllNodes
<1>7. GetNode(p)' = db'[NodeKey(p)]
    BY DEF GetNode
<1>8. db[NodeKey(n)] \in NodeRecord
    BY <1>1, <1>3, <1>4, KeyTypes DEF IsDatabase
<1>9. r.lastSeen = at
    BY <1>8 DEF NodeRecord
<1>10. seen \in Peers
    BY <1>1, <1>3, PeersType
<1>11. kept \in Peers /\ kept # None
    <2> HIDE DEF seen
    <2>1. kept \in Peers
        BY <1>10 DEF KeptPeers, Peers
    <2>2. QED
        BY <2>1, AbsentAssumption
<1>12. kept[p] # None => seen[p] > at - ExpireInterval /\ kept[p] = seen[p]
    BY <1>6 DEF KeptPeers
<1>13. seen[p] = IF hasKey(db, NodeKey(p)) THEN IF p = n THEN at ELSE db[NodeKey(p)].lastSeen
                 ELSE getPeers(db, n)[p]
    BY <1>6 DEF ReportedPeers
<1> HIDE DEF r, kept, seen, w, at, report
<1>14. /\ \A x : x \in DOMAIN w <=> x = NodeKey(n) \/ x = PeersKey(n)
       /\ w[NodeKey(n)] = r /\ w[PeersKey(n)] = kept
    BY <1>4, KeysDiffer, TwoItems
<1>15. db'[PeersKey(n)] = kept
    BY <1>1, <1>2, <1>3, <1>5, <1>14, KeyTypes, Committed
<1>16. getPeers(db', n) = kept
    BY <1>11, <1>15 DEF getPeers, hasKey
<1>17. seen[p] > at - ExpireInterval
    BY <1>6, <1>12, <1>16
<1>18. db'[NodeKey(p)] = IF p = n THEN r ELSE db[NodeKey(p)]
    <2>1. NodeKey(p) \in Key
        BY <1>6, KeyTypes
    <2>2. NodeKey(p) \in DOMAIN w <=> p = n
        BY <1>14, KeysDiffer
    <2>3. db'[NodeKey(p)] = IF NodeKey(p) \in DOMAIN w THEN w[NodeKey(p)] ELSE db[NodeKey(p)]
        BY <1>1, <1>2, <1>5, <2>1, Committed
    <2>4. QED
        BY <1>14, <2>2, <2>3
<1>19. hasKey(db, NodeKey(p))
    BY <1>4, <1>6, <1>18 DEF hasKey
<1>20. db'[NodeKey(p)].lastSeen = seen[p]
    BY <1>9, <1>13, <1>18, <1>19
<1>21. QED
    BY <1>7, <1>17, <1>20 DEF at

\* Of the peers that a node reports, UpdateNodePeers keeps only those whose own LastSeen is
\* recent in the database that it commits to: a SetNode or an update of the peer that
\* commits in between makes it fail with a conflict.
THEOREM SilentPeerDroppedCommitted == BadgerSpec => SilentPeerDropped
<1>1. BadgerInv /\ [BadgerNext]_badgerVars =>
        [\A c \in Caller, n \in Node :
            Commit(c) /\ txn[c].op.call.op = "updateNodePeers" /\ txn[c].op.call.node = n =>
               \A p \in NodePeers(n)' \cap txn[c].op.call.report :
                  GetNode(p)'.lastSeen > txn[c].op.at - ExpireInterval]_badgerVars
    BY UpdateKeepsRecent
<1>2. QED
    BY <1>1, BadgerInvHolds, PTL DEF BadgerSpec, SilentPeerDropped
-----------------------------------------------------------------------------
(* The ledger *)

\* The key of the balance of a holder, and its credit in a database.
PurseKey(h) == IF h \in Node THEN TrialKey(h) ELSE BalanceKey(h)
CreditIn(d, h) == getBalance(d, PurseKey(h)).credit

LEMMA PurseKeys ==
    /\ \A h \in Node \cup Account : /\ PurseKey(h) \in Key /\ ValueOf(PurseKey(h)) = Balance
                                    /\ PurseKey(h) \notin NonceKeys \cup {VersionKey}
                                    /\ \A m : PurseKey(h) \notin {NodeKey(m), PeersKey(m),
                                                                 AccountKey(m), NonceKey(m)}
    /\ \A g, h \in Node \cup Account : PurseKey(g) = PurseKey(h) => g = h
    /\ \A n \in Node : AccountKey(n) \in Key /\ AccountKey(n) \notin NonceKeys \cup {VersionKey}
    BY KeyTypes, KeysDiffer DEF PurseKey, NonceKeys

LEMMA PurseOfIs == \A h : PurseOf(h) = CreditIn(db, h)
    BY DEF PurseOf, CreditIn, PurseKey

\* What changes neither a balance nor a link changes nothing of the ledger.
LEMMA LedgerKept ==
    ASSUME \A h \in Node \cup Account : db'[PurseKey(h)] = db[PurseKey(h)],
           \A n \in Node : db'[AccountKey(n)] = db[AccountKey(n)]
    PROVE  UNCHANGED L!ledgerVars
<1>1. \A h \in Node \cup Account : PurseOf(h)' = PurseOf(h)
    BY DEF PurseOf, PurseKey, getBalance, hasKey
<1>2. QED
    BY <1>1 DEF L!ledgerVars

\* A balance is replaced by one with more, or less, credit.
LEMMA GrantCommits ==
    ASSUME NEW h \in Node \cup Account, NEW credit, NEW v \in Balance,
           v.credit = CreditIn(db, h) + credit,
           \A k \in Key : db'[k] = IF k = PurseKey(h) THEN v ELSE db[k]
    PROVE  L!Grant(h, credit)
<1>1. v # None
    BY AbsentAssumption
<1>2. PurseOf(h)' = PurseOf(h) + credit
    <2>1. db'[PurseKey(h)] = v
        BY PurseKeys
    <2>2. PurseOf(h)' = v.credit
        BY <1>1, <2>1 DEF PurseOf, PurseKey, getBalance, hasKey
    <2>3. QED
        BY <2>2, PurseOfIs
<1>3. ASSUME NEW g \in Node \cup Account, g # h
      PROVE  PurseOf(g)' = PurseOf(g)
    <2>1. db'[PurseKey(g)] = db[PurseKey(g)]
        BY <1>3, PurseKeys
    <2>2. QED
        BY <2>1 DEF PurseOf, PurseKey, getBalance, hasKey
<1>4. \A n \in Node : db'[AccountKey(n)] = db[AccountKey(n)]
    BY PurseKeys
<1>5. QED
    BY <1>2, <1>3, <1>4 DEF L!Grant

\* A link is set, the trial of the node is deleted and its credit is in the account.
LEMMA LinkCommits ==
    ASSUME NEW a \in Account, NEW n \in Node, NEW v \in Balance,
           v.credit = CreditIn(db, a) + CreditIn(db, n),
           \A k \in Key : db'[k] = IF k = AccountKey(n) THEN a
                                  ELSE IF k = PurseKey(a) THEN v
                                  ELSE IF k = PurseKey(n) THEN None ELSE db[k]
    PROVE  L!Link(a, n)
<1>1. v # None /\ a # n
    BY AbsentAssumption, BadgerAssumption
<1>2. PurseKey(a) # PurseKey(n) /\ PurseKey(a) \in Key /\ PurseKey(n) \in Key
    BY <1>1, PurseKeys
<1>3. PurseOf(a)' = PurseOf(a) + PurseOf(n)
    <2>1. db'[PurseKey(a)] = v
        BY <1>2, PurseKeys
    <2>2. PurseOf(a)' = v.credit
        BY <1>1, <2>1 DEF PurseOf, PurseKey, getBalance, hasKey
    <2>3. QED
        BY <2>2, PurseOfIs
<1>4. PurseOf(n)' = 0
    <2>1. db'[PurseKey(n)] = None
        BY <1>2, PurseKeys
    <2>2. QED
        BY <2>1 DEF PurseOf, PurseKey, getBalance, hasKey
<1>5. ASSUME NEW g \in Node \cup Account, g # a, g # n
      PROVE  PurseOf(g)' = PurseOf(g)
    <2>1. db'[PurseKey(g)] = db[PurseKey(g)]
        BY <1>5, PurseKeys
    <2>2. QED
        BY <2>1 DEF PurseOf, PurseKey, getBalance, hasKey
<1>6. \A m \in Node : db'[AccountKey(m)] = IF m = n THEN a ELSE db[AccountKey(m)]
    BY PurseKeys, KeysDiffer
<1>7. QED
    BY <1>1, <1>3, <1>4, <1>5, <1>6 DEF L!Link

\* Balances, trials and links of a database fit together: a linked node holds no trial,
\* and its account has a balance that names the account.
LinksFit(d) ==
    /\ \A a \in Account : hasKey(d, BalanceKey(a)) => d[BalanceKey(a)].account = a
    /\ \A n \in Node :
          /\ hasKey(d, TrialKey(n)) => /\ d[TrialKey(n)].account = None
                                      /\ ~hasKey(d, AccountKey(n))
          /\ hasKey(d, AccountKey(n)) => hasKey(d, BalanceKey(d[AccountKey(n)]))

LEMMA LinksKept ==
    ASSUME LinksFit(db), IsDatabase(db),
           \A h \in Node \cup Account : db'[PurseKey(h)] = db[PurseKey(h)],
           \A n \in Node : db'[AccountKey(n)] = db[AccountKey(n)]
    PROVE  LinksFit(db')
<1>1. /\ \A n \in Node : db'[TrialKey(n)] = db[TrialKey(n)]
      /\ \A a \in Account : db'[BalanceKey(a)] = db[BalanceKey(a)]
    BY BadgerAssumption DEF PurseKey
<1>2. \A n \in Node : hasKey(db, AccountKey(n)) => db[AccountKey(n)] \in Account
    BY KeyTypes DEF IsDatabase
<1>3. QED
    BY <1>1, <1>2 DEF LinksFit, hasKey

LEMMA GrantKeepsLinks ==
    ASSUME LinksFit(db), IsDatabase(db), NEW h \in Node \cup Account, NEW v \in Balance,
           v.account = IF h \in Account THEN h ELSE None,
           h \in Node => ~hasKey(db, AccountKey(h)),
           \A k \in Key : db'[k] = IF k = PurseKey(h) THEN v ELSE db[k]
    PROVE  LinksFit(db')
<1>1. v # None
    BY AbsentAssumption
<1>2. \A n \in Node : /\ db'[AccountKey(n)] = db[AccountKey(n)]
                      /\ db'[TrialKey(n)] = IF n = h THEN v ELSE db[TrialKey(n)]
    BY PurseKeys, KeyTypes, KeysDiffer DEF PurseKey
<1>3. \A a \in Account : db'[BalanceKey(a)] = IF a = h THEN v ELSE db[BalanceKey(a)]
    BY KeyTypes, KeysDiffer, BadgerAssumption DEF PurseKey
<1>4. \A n \in Node : hasKey(db, AccountKey(n)) => db[AccountKey(n)] \in Account
    BY KeyTypes DEF IsDatabase
<1>5. \A n \in Node : n \notin Account
    BY BadgerAssumption
<1>6. QED
    BY <1>1, <1>2, <1>3, <1>4, <1>5 DEF LinksFit, hasKey

LEMMA LinkKeepsLinks ==
    ASSUME LinksFit(db), IsDatabase(db), NEW a \in Account, NEW n \in Node,
           NEW v \in Balance, v.account = a,
           \A k \in Key : db'[k] = IF k = AccountKey(n) THEN a
                                  ELSE IF k = PurseKey(a) THEN v
                                  ELSE IF k = PurseKey(n) THEN None ELSE db[k]
    PROVE  LinksFit(db')
<1>1. v # None /\ a # None /\ a \notin Node
    BY AbsentAssumption, BadgerAssumption
<1>2. PurseKey(a) = BalanceKey(a) /\ PurseKey(n) = TrialKey(n)
    BY <1>1 DEF PurseKey
<1>3. ASSUME NEW m \in Node
      PROVE  /\ db'[AccountKey(m)] = IF m = n THEN a ELSE db[AccountKey(m)]
             /\ db'[TrialKey(m)] = IF m = n THEN None ELSE db[TrialKey(m)]
    <2>1. AccountKey(m) \in Key /\ TrialKey(m) \in Key
        BY KeyTypes
    <2>2. AccountKey(m) = AccountKey(n) <=> m = n
        BY KeysDiffer
    <2>3. TrialKey(m) = TrialKey(n) <=> m = n
        BY KeysDiffer
    <2>4. AccountKey(m) # BalanceKey(a) /\ TrialKey(m) # BalanceKey(a)
        BY KeysDiffer
    <2>5. AccountKey(m) # TrialKey(n) /\ TrialKey(m) # AccountKey(n)
        BY KeysDiffer
    <2>6. QED
        BY <1>2, <2>1, <2>2, <2>3, <2>4, <2>5
<1>4. \A b \in Account : db'[BalanceKey(b)] = IF b = a THEN v ELSE db[BalanceKey(b)]
    BY <1>2, KeyTypes, KeysDiffer
<1>5. \A m \in Node : hasKey(db, AccountKey(m)) => db[AccountKey(m)] \in Account
    BY KeyTypes DEF IsDatabase
<1>6. QED
    BY <1>1, <1>3, <1>4, <1>5 DEF LinksFit, hasKey

\* A commit is a step of the ledger, or changes nothing of it, and keeps balances, trials
\* and links together.
LEMMA CommitLedger ==
    ASSUME BadgerInv, NEW c \in Caller, Commit(c)
    PROVE  /\ L!LedgerNext \/ UNCHANGED L!ledgerVars
           /\ LinksFit(db) => LinksFit(db')
<1> DEFINE o == txn[c].op
           call == o.call
           w == txn[c].writes
<1>1. GoodTxn(txn[c], db) /\ ~txn[c].stale /\ IsDatabase(db) /\ db' = Over(w, db)
    BY DEF Commit, BadgerInv, TxnsGood
<1>2. IsOp(o) /\ Body(o, db).ok /\ Body(o, db).writes = w /\ TypedWrites(w)
    BY <1>1 DEF GoodTxn
<1>3. call \in Calls
    BY <1>2 DEF IsOp
<1>4. call.op \in {"nonce", "addNodeBalance", "addAccountBalance", "addAccountNode",
                   "setNode", "updateNodePeers"}
    BY <1>3, CallFields
<1> HIDE DEF o, w
<1>5. \A k \in Key : db'[k] = IF k \in DOMAIN w THEN w[k] ELSE db[k]
    BY <1>1, <1>2, Committed
<1>6. ASSUME \A h \in Node \cup Account : PurseKey(h) \notin DOMAIN w,
              \A n \in Node : AccountKey(n) \notin DOMAIN w
      PROVE  /\ UNCHANGED L!ledgerVars
             /\ LinksFit(db) => LinksFit(db')
    <2>1. /\ \A h \in Node \cup Account : db'[PurseKey(h)] = db[PurseKey(h)]
          /\ \A n \in Node : db'[AccountKey(n)] = db[AccountKey(n)]
        BY <1>5, <1>6, PurseKeys
    <2>2. QED
        BY <1>1, <2>1, LedgerKept, LinksKept
<1>7. CASE call.op = "nonce"
    <2>1. PICK v : w = setItem(NonceKey(call.id), v)
        BY <1>2, <1>7, BodyWrites
    <2>2. DOMAIN w = {NonceKey(call.id)}
        BY <2>1, SetItemIs
    <2>3. QED
        BY <1>6, <2>2, PurseKeys, KeysDiffer
<1>8. CASE call.op = "setNode"
    <2>1. DOMAIN w = {NodeKey(call.node)}
        BY <1>2, <1>8, BodyWrites
    <2>2. QED
        BY <1>6, <2>1, PurseKeys, KeysDiffer
<1>9. CASE call.op = "updateNodePeers"
    <2> DEFINE u == [db[NodeKey(call.node)] EXCEPT !.lastSeen = o.at]
               v == KeptPeers(ReportedPeers(db, call.node, call.report, o.at), o.at)
    <2>1. w = Over(setItem(NodeKey(call.node), u), setItem(PeersKey(call.node), v))
        BY <1>2, <1>9, BodyWrites
    <2> HIDE DEF u, v
    <2>2. \A x : x \in DOMAIN w <=> x = NodeKey(call.node) \/ x = PeersKey(call.node)
        BY <2>1, KeysDiffer, TwoItems
    <2>3. QED
        BY <1>6, <2>2, PurseKeys, KeysDiffer
<1>10. CASE call.op = "addAccountBalance"
    <2> DEFINE a == call.account
               v == [account |-> a, credit |-> getBalance(db, BalanceKey(a)).credit
                                               + call.credit]
    <2>1. a \in Account /\ call.credit \in Int
        BY <1>3, <1>10, CallFields
    <2>2. a \notin Node /\ PurseKey(a) = BalanceKey(a)
        BY <2>1, BadgerAssumption DEF PurseKey
    <2>3. w = setItem(BalanceKey(a), v)
        BY <1>2, <1>10, BodyWrites
    <2>4. v.credit = CreditIn(db, a) + call.credit
        BY <2>2 DEF CreditIn
    <2>5. getBalance(db, BalanceKey(a)) \in Balance
        BY <1>1, <2>1, KeyTypes, BalanceType
    <2>6. v \in Balance /\ v.account = a
        BY <2>1, <2>5 DEF Balance
    <2> HIDE DEF v, a
    <2>7. DOMAIN w = {BalanceKey(a)} /\ w[BalanceKey(a)] = v
        BY <2>3, SetItemIs
    <2>8. \A k \in Key : db'[k] = IF k = PurseKey(a) THEN v ELSE db[k]
        BY <1>5, <2>2, <2>7
    <2>9. L!Grant(a, call.credit)
        BY <2>1, <2>4, <2>6, <2>8, GrantCommits
    <2>10. LinksFit(db) => LinksFit(db')
        BY <1>1, <2>1, <2>2, <2>6, <2>8, GrantKeepsLinks
    <2>11. QED
        BY <1>3, <1>10, <2>1, <2>9, <2>10 DEF L!LedgerNext
<1>11. CASE call.op = "addNodeBalance"
    <2> DEFINE n == call.node
               b == SpendKey(db, n)
               h == IF hasKey(db, AccountKey(n)) THEN db[AccountKey(n)] ELSE n
               v == [getBalance(db, b) EXCEPT !.credit = @ + call.credit]
    <2>1. n \in Node /\ call.credit \in Int
        BY <1>3, <1>11, CallFields
    <2>2. /\ b \in Key /\ ValueOf(b) = Balance
          /\ h \in Node \cup Account /\ PurseKey(h) = b
        BY <1>1, <2>1, SpendKeyType, BadgerAssumption DEF PurseKey
    <2>3. w = setItem(b, v)
        BY <1>2, <1>11, BodyWrites
    <2>4. getBalance(db, b) \in Balance
        BY <1>1, <2>2, BalanceType
    <2>5. /\ v \in Balance /\ v.credit = getBalance(db, b).credit + call.credit
          /\ v.account = getBalance(db, b).account
        BY <2>1, <2>4 DEF Balance
    <2> HIDE DEF v, b
    <2>6. DOMAIN w = {b} /\ w[b] = v
        BY <2>3, SetItemIs
    <2>7. \A k \in Key : db'[k] = IF k = PurseKey(h) THEN v ELSE db[k]
        BY <1>5, <2>2, <2>6
    <2>8. v.credit = CreditIn(db, h) + call.credit
        BY <2>2, <2>5 DEF CreditIn
    <2>9. h = L!HolderOf(n)
        BY <2>1 DEF L!HolderOf, hasKey
    <2>10. h \in Node => ~hasKey(db, AccountKey(h))
        BY <1>1, <2>1, SpendKeyType, KeyTypes, BadgerAssumption DEF IsDatabase
    <2>11. LinksFit(db) => v.account = IF h \in Account THEN h ELSE None
        <3> SUFFICES ASSUME LinksFit(db)
                     PROVE  v.account = IF h \in Account THEN h ELSE None
            OBVIOUS
        <3>1. CASE hasKey(db, AccountKey(n))
            <4>1. h = db[AccountKey(n)] /\ h \in Account /\ b = BalanceKey(h)
                BY <1>1, <2>1, <3>1, KeyTypes DEF IsDatabase, SpendKey, b
            <4>2. hasKey(db, b) /\ db[b].account = h
                BY <2>1, <3>1, <4>1 DEF LinksFit
            <4>3. QED
                BY <2>5, <4>1, <4>2 DEF getBalance
        <3>2. CASE ~hasKey(db, AccountKey(n))
            <4>1. h = n /\ h \notin Account /\ b = TrialKey(n)
                BY <2>1, <3>2, BadgerAssumption DEF SpendKey, b
            <4>2. hasKey(db, b) => db[b].account = None
                BY <2>1, <4>1 DEF LinksFit
            <4>3. QED
                BY <2>5, <4>1, <4>2 DEF getBalance
        <3>3. QED
            BY <3>1, <3>2
    <2> HIDE DEF h, n
    <2>12. L!Grant(h, call.credit)
        BY <2>2, <2>5, <2>7, <2>8, GrantCommits
    <2>13. LinksFit(db) => LinksFit(db')
        BY <1>1, <2>2, <2>5, <2>7, <2>10, <2>11, GrantKeepsLinks
    <2>14. QED
        BY <1>3, <1>11, <2>1, <2>9, <2>12, <2>13 DEF L!LedgerNext
<1>12. CASE call.op = "addAccountNode"
    <2> DEFINE a == call.account
               n == call.node
               v == [account |-> a, credit |-> getBalance(db, BalanceKey(a)).credit
                                               + getBalance(db, TrialKey(n)).credit]
    <2>1. a \in Account /\ n \in Node
        BY <1>3, <1>12, CallFields
    <2>2. PurseKey(a) = BalanceKey(a) /\ PurseKey(n) = TrialKey(n)
        BY <2>1, BadgerAssumption DEF PurseKey
    <2>3. w = Over(setItem(AccountKey(n), a),
                   Over(setItem(BalanceKey(a), v), setItem(TrialKey(n), None)))
        BY <1>2, <1>12, BodyWrites
    <2>4. v.credit = CreditIn(db, a) + CreditIn(db, n)
        BY <2>2 DEF CreditIn
    <2>5. getBalance(db, BalanceKey(a)) \in Balance /\ getBalance(db, TrialKey(n)) \in Balance
        BY <1>1, <2>1, KeyTypes, BalanceType
    <2>6. v \in Balance /\ v.account = a
        BY <2>1, <2>5 DEF Balance
    <2> HIDE DEF v, a, n
    <2>7. /\ \A x : x \in DOMAIN w <=> x = AccountKey(n) \/ x = BalanceKey(a) \/ x = TrialKey(n)
          /\ w[AccountKey(n)] = a /\ w[BalanceKey(a)] = v /\ w[TrialKey(n)] = None
        BY <2>3, KeysDiffer, ThreeItems
    <2>8. \A k \in Key : db'[k] = IF k = AccountKey(n) THEN a
                                 ELSE IF k = PurseKey(a) THEN v
                                 ELSE IF k = PurseKey(n) THEN None ELSE db[k]
        BY <1>5, <2>2, <2>7
    <2>9. L!Link(a, n)
        BY <2>1, <2>4, <2>6, <2>8, LinkCommits
    <2>10. LinksFit(db) => LinksFit(db')
        BY <1>1, <2>1, <2>6, <2>8, LinkKeepsLinks
    <2>11. QED
        BY <2>1, <2>9, <2>10 DEF L!LedgerNext
<1>13. QED
    BY <1>4, <1>7, <1>8, <1>9, <1>10, <1>11, <1>12

\* The transactions of badgerStore implement the ledger: a commit changes one purse, or
\* moves a trial into an account; a conflict and a crash change none.
THEOREM BadgerImplementsLedger == BadgerSpec => LedgerSpec
<1>1. BadgerInit => L!LedgerInit
    <2> SUFFICES ASSUME BadgerInit PROVE L!LedgerInit
        OBVIOUS
    <2>1. \A k \in Key : k \notin NonceKeys \cup {VersionKey} => db[k] = None
        BY DEF BadgerInit
    <2>2. \A h \in Node \cup Account : db[PurseKey(h)] = None
        BY <2>1, PurseKeys
    <2>3. \A h \in Node \cup Account : PurseOf(h) = 0
        BY <2>2 DEF PurseOf, PurseKey, getBalance, hasKey
    <2>4. \A n \in Node : db[AccountKey(n)] = None
        BY <2>1, PurseKeys
    <2>5. QED
        BY <2>3, <2>4 DEF L!LedgerInit, L!Holder
<1>2. BadgerInv /\ [BadgerNext]_badgerVars => [L!LedgerNext]_(L!ledgerVars)
    <2> SUFFICES ASSUME BadgerInv, [BadgerNext]_badgerVars
                 PROVE  [L!LedgerNext]_(L!ledgerVars)
        OBVIOUS
    <2>1. ASSUME db' = db
          PROVE  UNCHANGED L!ledgerVars
        BY <2>1, LedgerKept
    <2>2. ASSUME NEW c \in Caller, Commit(c)
          PROVE  L!LedgerNext \/ UNCHANGED L!ledgerVars
        BY <2>2, CommitLedger
    <2>3. CASE MigrateCommit
        <3>1. db' = pend /\ Agree(pend, db, Key \ (NonceKeys \cup {VersionKey}))
            BY <2>3 DEF MigrateCommit, BadgerInv, MigrateGood, Bare, Agree
        <3>2. QED
            BY <3>1, PurseKeys, LedgerKept DEF Agree
    <2>4. QED
        BY <2>1, <2>2, <2>3 DEF BadgerNext, badgerVars, Tick, Begin, Conflict, OpenLatest,
           MigrateBegin, MigrateStep, Crash
<1>3. QED
    BY <1>1, <1>2, BadgerInvHolds, PTL DEF BadgerSpec, LedgerSpec, L!LedgerSpec
-----------------------------------------------------------------------------
(* The views *)

\* AddAccountNode leaves no trial behind under the key of a node that it links, and no
\* AddNodeBalance that overlaps it puts one there; a link always has its balance.
THEOREM LinksFitHolds == BadgerSpec => []LinksFit(db)
<1>1. BadgerInit => LinksFit(db)
    <2> SUFFICES ASSUME BadgerInit PROVE LinksFit(db)
        OBVIOUS
    <2>1. \A k \in Key : k \notin NonceKeys \cup {VersionKey} => db[k] = None
        BY DEF BadgerInit
    <2>2. \A h \in Node \cup Account : db[PurseKey(h)] = None
        BY <2>1, PurseKeys
    <2>3. \A n \in Node : db[TrialKey(n)] = None /\ db[AccountKey(n)] = None
        BY <2>1, <2>2, PurseKeys DEF PurseKey
    <2>4. \A a \in Account : db[BalanceKey(a)] = None
        BY <2>2, BadgerAssumption DEF PurseKey
    <2>5. QED
        BY <2>3, <2>4 DEF LinksFit, hasKey
<1>2. BadgerInv /\ LinksFit(db) /\ [BadgerNext]_badgerVars => LinksFit(db)'
    <2> SUFFICES ASSUME BadgerInv, LinksFit(db), [BadgerNext]_badgerVars
                 PROVE  LinksFit(db')
        OBVIOUS
    <2>1. CASE db' = db
        BY <2>1
    <2>2. ASSUME NEW c \in Caller, Commit(c)
          PROVE  LinksFit(db')
        BY <2>2, CommitLedger
    <2>3. CASE MigrateCommit
        <3>1. db' = pend /\ Agree(pend, db, Key \ (NonceKeys \cup {VersionKey}))
            BY <2>3 DEF MigrateCommit, BadgerInv, MigrateGood, Bare, Agree
        <3>2. IsDatabase(db)
            BY DEF BadgerInv
        <3>3. QED
            BY <3>1, <3>2, PurseKeys, LinksKept DEF Agree
    <2>4. QED
        BY <2>1, <2>2, <2>3 DEF BadgerNext, badgerVars, Tick, Begin, Conflict, OpenLatest,
           MigrateBegin, MigrateStep, Crash
<1>3. QED
    BY <1>1, <1>2, BadgerInvHolds, PTL DEF BadgerSpec

\* A node of an account finds the balance that names the account.
LEMMA LinksNamedIs ==
    ASSUME LinksFit(db)
    PROVE  LinksNamed
<1> SUFFICES ASSUME NEW a \in Account, NEW n \in Node, db[AccountKey(n)] = a
             PROVE  GetNodeBalance(n).account = a
    BY DEF LinksNamed, GetAccountNodes, IsAccountNode
<1>1. hasKey(db, AccountKey(n))
    BY BadgerAssumption DEF hasKey
<1>2. SpendKey(db, n) = BalanceKey(a)
    BY <1>1 DEF SpendKey
<1>3. hasKey(db, BalanceKey(a)) /\ db[BalanceKey(a)].account = a
    BY <1>1 DEF LinksFit
<1>4. QED
    BY <1>2, <1>3 DEF GetNodeBalance, getBalance

\* Balances without an account are trials of nodes without one.
LEMMA TrialsCountedIs ==
    ASSUME LinksFit(db), IsDatabase(db)
    PROVE  TrialsCounted
<1> DEFINE T == {k \in Held : db[k].account = None}
           f == [k \in T |-> k[2]]
<1>1. ASSUME NEW k \in T
      PROVE  \E n \in Unlinked : k = TrialKey(n)
    <2>1. hasKey(db, k) /\ db[k].account = None /\ k \in MoneyKeys
        BY DEF Held
    <2>2. \A a \in Account : k # BalanceKey(a)
        BY <2>1, BadgerAssumption DEF LinksFit
    <2>3. PICK n \in Node : k = TrialKey(n)
        BY <2>1, <2>2 DEF MoneyKeys
    <2>4. ~hasKey(db, AccountKey(n))
        BY <2>1, <2>3 DEF LinksFit
    <2>5. n \in Unlinked
        BY <2>4, BadgerAssumption DEF Unlinked, GetAccountNodes, IsAccountNode, hasKey
    <2>6. QED
        BY <2>3, <2>5
<1>2. \A n : TrialKey(n)[2] = n
    BY DEF TrialKey
<1>3. f \in Injection(T, Unlinked)
    <2> HIDE DEF T
    <2>1. f \in [T -> Unlinked]
        BY <1>1, <1>2
    <2>2. \A j, k \in T : f[j] = f[k] => j = k
        BY <1>1, <1>2
    <2>3. QED
        BY <2>1, <2>2 DEF Injection, IsInjective
<1>4. IsFiniteSet(Unlinked)
    BY BadgerAssumption, FS_Subset DEF Unlinked
<1>5. Cardinality(T) <= Cardinality(Unlinked)
    BY <1>3, <1>4, FS_Injection
<1>6. Stats.numTrialBalances = Cardinality(T)
    BY DEF Stats
<1>7. QED
    BY <1>5, <1>6 DEF TrialsCounted

-----------------------------------------------------------------------------
(* The sum of all credits: one summand per key, or per account and node. *)

MoneyCredits == [k \in MoneyKeys |-> getBalance(db, k).credit]

HeldCredits == [k \in Held |-> db[k].credit]

AccountCredits == [a \in Account |-> GetAccountBalance(a).credit]

SpendableCredits == [n \in Unlinked |-> Spendable(n)]

TrialKeyOf == [n \in Node |-> TrialKey(n)]

BalanceKeyOf == [a \in Account |-> BalanceKey(a)]

LEMMA TrialKeysFinite ==
    ASSUME NEW S \in SUBSET Node
    PROVE  IsFiniteSet({TrialKeyOf[n] : n \in S})
<1> DEFINE T == {TrialKeyOf[n] : n \in S}
           j == [n \in S |-> TrialKeyOf[n]]
<1>1. j \in [S -> T] /\ \A k \in T : \E n \in S : j[n] = k
    OBVIOUS
<1>2. \A n, m \in S : j[n] = j[m] => n = m
    BY KeysDiffer DEF TrialKeyOf
<1> HIDE DEF j, T
<1>3. j \in Bijection(S, T)
    BY <1>1, <1>2 DEF Bijection, Injection, IsInjective, Surjection
<1>4. IsFiniteSet(S)
    BY BadgerAssumption, FS_Subset
<1>5. QED
    BY <1>3, <1>4, FS_Bijection DEF ExistsBijection, T

LEMMA BalanceKeysFinite == IsFiniteSet({BalanceKeyOf[a] : a \in Account})
<1> DEFINE T == {BalanceKeyOf[a] : a \in Account}
<1>1. BalanceKeyOf \in [Account -> T] /\ \A k \in T : \E a \in Account : BalanceKeyOf[a] = k
    BY DEF BalanceKeyOf
<1>2. \A a, b \in Account : BalanceKeyOf[a] = BalanceKeyOf[b] => a = b
    BY KeysDiffer DEF BalanceKeyOf
<1> HIDE DEF T
<1>3. BalanceKeyOf \in Bijection(Account, T)
    BY <1>1, <1>2 DEF Bijection, Injection, IsInjective, Surjection
<1>4. QED
    BY <1>3, BadgerAssumption, FS_Bijection DEF ExistsBijection, T

LEMMA MoneyKeysFinite == IsFiniteSet(MoneyKeys) /\ IsFiniteSet(Held)
<1>1. IsFiniteSet({TrialKeyOf[n] : n \in Node})
    BY TrialKeysFinite
<1>2. MoneyKeys = {TrialKeyOf[n] : n \in Node} \cup {BalanceKeyOf[a] : a \in Account}
    BY DEF MoneyKeys, TrialKeyOf, BalanceKeyOf
<1>3. IsFiniteSet(MoneyKeys)
    BY <1>1, <1>2, BalanceKeysFinite, FS_Union
<1>4. QED
    BY <1>3, FS_Subset DEF Held

LEMMA HeldFold ==
    MapThenSumSet(LAMBDA k : db[k].credit, Held) = Sum(HeldCredits, Held)
<1> DEFINE Fold(it) ==
        it = [s \in SUBSET Held |->
                 IF s = {} THEN 0 ELSE db[Taken(s)].credit + it[s \ {Taken(s)}]]
           i == CHOOSE it : Fold(it)
<1>1. IsFiniteSet(Held)
    BY MoneyKeysFinite
<1>2. \A s \in SUBSET Held : s # {} => HeldCredits[Taken(s)] = db[Taken(s)].credit
    BY TakenIn DEF HeldCredits
<1>3. \A it : Fold(it) <=> Iterates(it, HeldCredits, Held)
    BY <1>2 DEF Iterates
<1>4. Iterates(i, HeldCredits, Held)
    BY <1>1, <1>3, IteratesExists
<1>5. MapThenSumSet(LAMBDA k : db[k].credit, Held) = i[Held]
    BY DEF MapThenSumSet, MapThenFoldSet, Taken
<1>6. QED
    BY <1>1, <1>4, <1>5, IteratesSum

LEMMA AccountFold ==
    MapThenSumSet(LAMBDA a : GetAccountBalance(a).credit, Account) = Sum(AccountCredits, Account)
<1> DEFINE Fold(it) ==
        it = [s \in SUBSET Account |->
                 IF s = {} THEN 0 ELSE GetAccountBalance(Taken(s)).credit + it[s \ {Taken(s)}]]
           i == CHOOSE it : Fold(it)
<1>1. IsFiniteSet(Account)
    BY BadgerAssumption
<1>2. \A s \in SUBSET Account : s # {} => AccountCredits[Taken(s)] = GetAccountBalance(Taken(s)).credit
    BY TakenIn DEF AccountCredits
<1>3. \A it : Fold(it) <=> Iterates(it, AccountCredits, Account)
    BY <1>2 DEF Iterates
<1>4. Iterates(i, AccountCredits, Account)
    BY <1>1, <1>3, IteratesExists
<1>5. MapThenSumSet(LAMBDA a : GetAccountBalance(a).credit, Account) = i[Account]
    BY DEF MapThenSumSet, MapThenFoldSet, Taken
<1>6. QED
    BY <1>1, <1>4, <1>5, IteratesSum

LEMMA SpendableFold ==
    MapThenSumSet(Spendable, Unlinked) = Sum(SpendableCredits, Unlinked)
<1> DEFINE Fold(it) ==
        it = [s \in SUBSET Unlinked |->
                 IF s = {} THEN 0 ELSE Spendable(Taken(s)) + it[s \ {Taken(s)}]]
           i == CHOOSE it : Fold(it)
<1>1. IsFiniteSet(Unlinked)
    BY BadgerAssumption, FS_Subset DEF Unlinked
<1>2. \A s \in SUBSET Unlinked : s # {} => SpendableCredits[Taken(s)] = Spendable(Taken(s))
    BY TakenIn DEF SpendableCredits
<1>3. \A it : Fold(it) <=> Iterates(it, SpendableCredits, Unlinked)
    BY <1>2 DEF Iterates
<1>4. Iterates(i, SpendableCredits, Unlinked)
    BY <1>1, <1>3, IteratesExists
<1>5. MapThenSumSet(Spendable, Unlinked) = i[Unlinked]
    BY DEF MapThenSumSet, MapThenFoldSet, Taken
<1>6. QED
    BY <1>1, <1>4, <1>5, IteratesSum

\* What is held is held by accounts and by nodes without one.
LEMMA CreditAgreesIs ==
    ASSUME LinksFit(db), IsDatabase(db)
    PROVE  CreditAgrees
<1> DEFINE TK == {TrialKeyOf[n] : n \in Unlinked}
           BK == {BalanceKeyOf[a] : a \in Account}
<1>1. Unlinked \in SUBSET Node /\ IsFiniteSet(Unlinked) /\ IsFiniteSet(Account)
    BY BadgerAssumption, FS_Subset DEF Unlinked
<1>2. IsFiniteSet(TK) /\ IsFiniteSet(BK) /\ IsFiniteSet(TK \cup BK)
    BY <1>1, TrialKeysFinite, BalanceKeysFinite, FS_Union
<1>3. TK \cap BK = {}
    BY <1>1, KeysDiffer DEF TrialKeyOf, BalanceKeyOf
<1>4. TK \cup BK \subseteq MoneyKeys
    BY <1>1 DEF TrialKeyOf, BalanceKeyOf, MoneyKeys
<1>5. Held \subseteq TK \cup BK
    <2> SUFFICES ASSUME NEW n \in Node, hasKey(db, TrialKey(n)) PROVE n \in Unlinked
        BY DEF Held, MoneyKeys, TrialKeyOf, BalanceKeyOf
    <2>1. ~hasKey(db, AccountKey(n))
        BY DEF LinksFit
    <2>2. QED
        BY <2>1, BadgerAssumption DEF Unlinked, GetAccountNodes, IsAccountNode, hasKey
<1>6. \A k \in MoneyKeys : getBalance(db, k) \in Balance
    <2>1. \A k \in MoneyKeys : k \in Key /\ ValueOf(k) = Balance
        BY KeyTypes DEF MoneyKeys
    <2>2. QED
        BY <2>1, BalanceType
<1>7. \A k \in MoneyKeys : MoneyCredits[k] = getBalance(db, k).credit /\ MoneyCredits[k] \in Int
    BY <1>6 DEF MoneyCredits, Balance
<1>8. Sum(HeldCredits, Held) = Sum(MoneyCredits, Held)
    <2>1. \A k \in Held : HeldCredits[k] = MoneyCredits[k]
        BY <1>7 DEF HeldCredits, Held, getBalance
    <2>2. QED
        BY <2>1, MoneyKeysFinite, SumSame
<1> HIDE DEF TK, BK
<1>9. Sum(MoneyCredits, Held) = Sum(MoneyCredits, TK \cup BK)
    <2>1. \A k \in (TK \cup BK) \ Held : MoneyCredits[k] = 0
        BY <1>4, <1>7 DEF Held, getBalance
    <2>2. QED
        BY <1>2, <1>4, <1>5, <1>7, <2>1, SumSupport
<1>10. Sum(MoneyCredits, TK \cup BK) = Sum(MoneyCredits, TK) + Sum(MoneyCredits, BK)
    BY <1>2, <1>3, <1>4, <1>7, SumUnion
<1>11. Sum(MoneyCredits, TK) = Sum(SpendableCredits, Unlinked)
    <2>1. ASSUME NEW n \in Unlinked PROVE Spendable(n) = getBalance(db, TrialKey(n)).credit
        <3>1. n \in Node /\ TrialKey(n) \in MoneyKeys
            BY <1>1 DEF MoneyKeys
        <3>2. ~hasKey(db, AccountKey(n))
            <4>1. hasKey(db, AccountKey(n)) => db[AccountKey(n)] \in Account
                BY <3>1, KeyTypes DEF IsDatabase
            <4>2. QED
                BY <4>1 DEF Unlinked, GetAccountNodes, IsAccountNode
        <3>3. SpendKey(db, n) = TrialKey(n)
            BY <3>2 DEF SpendKey
        <3>4. getBalance(db, TrialKey(n)) # None
            BY <1>6, <3>1, AbsentAssumption
        <3>5. QED
            BY <3>3, <3>4 DEF Spendable, GetNodeBalance, getBalance
    <2>2. \A n \in Unlinked : /\ SpendableCredits[n] = MoneyCredits[TrialKeyOf[n]]
                              /\ SpendableCredits[n] \in Int
        BY <1>1, <1>7, <2>1 DEF SpendableCredits, TrialKeyOf, MoneyKeys
    <2>3. \A n, m \in Unlinked : TrialKeyOf[n] = TrialKeyOf[m] => n = m
        BY <1>1, KeysDiffer DEF TrialKeyOf
    <2>4. QED
        BY <1>1, <2>2, <2>3, SumImage DEF TK
<1>12. Sum(MoneyCredits, BK) = Sum(AccountCredits, Account)
    <2>1. \A a \in Account : /\ AccountCredits[a] = MoneyCredits[BalanceKeyOf[a]]
                             /\ AccountCredits[a] \in Int
        BY <1>7 DEF AccountCredits, BalanceKeyOf, GetAccountBalance, MoneyKeys
    <2>2. \A a, b \in Account : BalanceKeyOf[a] = BalanceKeyOf[b] => a = b
        BY KeysDiffer DEF BalanceKeyOf
    <2>3. QED
        BY <1>1, <2>1, <2>2, SumImage DEF BK
<1>13. Sum(SpendableCredits, Unlinked) \in Int /\ Sum(AccountCredits, Account) \in Int
    <2>1. Sum(MoneyCredits, TK) \in Int /\ Sum(MoneyCredits, BK) \in Int
        BY <1>2, <1>4, <1>7, SumType
    <2>2. QED
        BY <1>11, <1>12, <2>1
<1>14. Sum(HeldCredits, Held) = Sum(AccountCredits, Account) + Sum(SpendableCredits, Unlinked)
    BY <1>8, <1>9, <1>10, <1>11, <1>12, <1>13
<1>15. Stats.totalCredit = Sum(HeldCredits, Held)
    BY HeldFold DEF Stats, TotalCredit
<1>16. QED
    BY <1>14, <1>15, AccountFold, SpendableFold DEF CreditAgrees

\* What Stats counts as trials are nodes without an account, linked nodes are billed to
\* the account that they name, Stats counts the hosts that ActiveHosts returns, and the
\* total credit of Stats is what all accounts and all nodes without one can spend: in
\* every committed state, however transactions overlap, fail and are lost.
THEOREM ViewsAgreeHolds == BadgerSpec => []ViewsAgree
<1>1. HostsCounted
    BY DEF HostsCounted, ActiveHosts, Stats
<1>2. BadgerInv /\ LinksFit(db) => CreditAgrees /\ TrialsCounted /\ LinksNamed
    BY CreditAgreesIs, LinksNamedIs, TrialsCountedIs DEF BadgerInv
<1>3. BadgerInv /\ LinksFit(db) => ViewsAgree
    BY <1>1, <1>2 DEF ViewsAgree
<1>4. QED
    BY <1>3, BadgerInvHolds, LinksFitHolds, PTL
=============================================================================
