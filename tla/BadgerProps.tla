---------------------------- MODULE BadgerProps ----------------------------
(***************************************************************************)
(* What the badger store guarantees although transactions overlap, fail    *)
(* and are lost, and databases of older releases are migrated.             *)
(***************************************************************************)
EXTENDS BadgerStore

ValueOf(k) ==
    CASE k[1] = "node" -> NodeRecord
      [] k[1] = "peers" -> Peers
      [] k[1] = "account" -> Account
      [] k[1] \in {"trial", "balance"} -> Balance
      [] k[1] = "nonce" -> Nonce
      [] k[1] = "version" -> Version

IsDatabase(d) == DOMAIN d = Key /\ \A k \in Key : hasKey(d, k) => d[k] \in ValueOf(k)

\* Every key of badgerStore holds a value of the type that its getItem decodes,
\* and so does every write of an open transaction or of a running migration.
BadgerTypeOK ==
    /\ now \in Nat
    /\ IsDatabase(db)
    /\ up \in BOOLEAN
    /\ pend # None => IsDatabase(pend) /\ ~up
    /\ \A c \in Caller : txn[c] # None =>
          /\ up
          /\ txn[c].reads \subseteq Key
          /\ DOMAIN txn[c].writes \subseteq Key
          /\ \A k \in DOMAIN txn[c].writes :
                txn[c].writes[k] # None => txn[c].writes[k] \in ValueOf(k)
          /\ txn[c].stale \in BOOLEAN

\* A transaction that will be committed has the effect that its function would
\* have if it ran only now: every value that the functions of badgerStore build
\* on is read through the transaction, so that no update is lost.
Serializable ==
    \A c \in Caller : txn[c] # None /\ ~txn[c].stale =>
        LET f == Body(txn[c].op, db) IN f.ok /\ f.writes = txn[c].writes

PurseOf(h) == getBalance(db, IF h \in Node THEN TrialKey(h) ELSE BalanceKey(h)).credit

L == INSTANCE Ledger WITH
        Amount <- {c.credit : c \in {x \in Calls : x.op \in {"addNodeBalance",
                                                            "addAccountBalance"}}},
        owner <- [n \in Node |-> db[AccountKey(n)]],
        purse <- [h \in Node \cup Account |-> PurseOf(h)]

\* The methods of badgerStore implement the same ledger as those of memoryStore:
\* a call that commits changes one purse, or moves a trial into an account; a
\* call that fails with a conflict, and a crash, change none.
LedgerSpec == L!LedgerSpec

\* Whether CheckAndSaveNonce may save a nonce over the held one, h: it is higher, or h
\* has expired, and was either ahead of the clock when it was saved or still fresh when
\* the time of its successor was checked, before the transaction.
Supersedes(nonce, o, h) ==
    \/ h.nonce < nonce
    \/ /\ Expired(h, o.time)
       /\ h.nonce > h.expires - ExpireNonce \/ o.at < h.expires

\* CheckAndSaveNonce saves a nonce only if it is higher than the last one saved for its
\* ID, however many requests present theirs at once.  That the last one is forgotten
\* after ExpireNonce makes no difference, since by then the nonces up to it are too
\* old, except for a nonce that was ahead of the clock of the pool (which nothing
\* refuses), and for a transaction that begins after its check went stale.
NonceHighest ==
    [][\A c \in Caller, id \in ID :
          LET k == NonceKey(id)
          IN  Commit(c) /\ k \in DOMAIN txn[c].writes /\ hasKey(db, k) =>
                 Supersedes(txn[c].writes[k].nonce, txn[c].op, db[k])]_badgerVars

\* A database that Open accepts and that has a nonce which is kept for good.
KeptForGood(d) ==
    /\ getVersion(d) = dbVersion /\ ExpireNonce > 0
    /\ \E k \in NonceKeys : hasKey(d, k) /\ d[k].expires = 0

\* The nonces of earlier releases and their version number go in one step, whenever the
\* process is killed during Migrate: a database that Open accepts comes to hold a nonce
\* for good only if Migrate met more entries than its iterator prefetches.
NoncesExpire ==
    [][KeptForGood(db)' =>
          \/ KeptForGood(db)
          \/ MigrateCommit /\ Cardinality(Scanned(db)) > PrefetchSize]_badgerVars

\* Of the peers that a node reports, NodePeers returns after the update only those
\* whose own LastSeen is recent, although that LastSeen may be overwritten, by a
\* call that looked at the clock earlier, while the update is in progress.
SilentPeerDropped ==
    [][\A c \in Caller, n \in Node :
          Commit(c) /\ txn[c].op.call.op = "updateNodePeers" /\ txn[c].op.call.node = n =>
             \A p \in NodePeers(n)' \cap txn[c].op.call.report :
                GetNode(p)'.lastSeen > txn[c].op.at - ExpireInterval]_badgerVars

Unlinked == {n \in Node : \A a \in Account : n \notin GetAccountNodes(a)}

Spendable(n) == IF GetNodeBalance(n) = None THEN 0 ELSE GetNodeBalance(n).credit

\* The credit of Stats is what GetAccountBalance and GetNodeBalance report together: no
\* trial is left behind under the key of a node once the node is linked.
CreditAgrees ==
    Stats.totalCredit = MapThenSumSet(LAMBDA a : GetAccountBalance(a).credit, Account)
                        + MapThenSumSet(Spendable, Unlinked)

\* NumTrialBalances counts only nodes without an account.
TrialsCounted == Stats.numTrialBalances <= Cardinality(Unlinked)

\* ActiveHosts and Stats find the same hosts.
HostsCounted ==
    \A hosts \in ActiveHosts(None, 0) : Cardinality(hosts) = Stats.numActiveHosts

\* GetNodeBalance names the account of a linked node, without which contractPayment
\* does not add its deposit.
LinksNamed == \A a \in Account : \A n \in GetAccountNodes(a) : GetNodeBalance(n).account = a

\* What the views report agrees, although balances, trials and links are separate keys
\* that are written by transactions which overlap.
ViewsAgree == CreditAgrees /\ TrialsCounted /\ HostsCounted /\ LinksNamed
=============================================================================
