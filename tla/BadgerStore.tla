---------------------------- MODULE BadgerStore ----------------------------
(***************************************************************************)
(* pool/store/badger: store.Store over a badger database.                  *)
(*                                                                         *)
(* Every method that writes is one db.Update: its function runs against a  *)
(* snapshot, and its writes are applied when it commits, unless a key that *)
(* it read was written meanwhile (badger.ErrConflict, which no caller      *)
(* retries).  Such a function is an operator from a database d to what it  *)
(* reads and writes.  Views are state functions.  The process may stop at  *)
(* any moment: what was committed remains, and Open migrates it.           *)
(***************************************************************************)
EXTENDS Integers, FiniteSets, FiniteSetsExt

CONSTANTS Node,            \* store.NodeID
          Account,         \* store.Account, also the IDs of wallets
          Kind,            \* node kinds
          None,            \* an absent key, an empty string
          Caller,          \* goroutines that call the store
          Calls,           \* the calls that they make
          ExpireInterval,  \* store.ExpireInterval, in clock ticks
          ExpireNonce,     \* store.ExpireNonce, in clock ticks
          Second,          \* badger's unit of time, in clock ticks
          PrefetchSize,    \* badger.DefaultIteratorOptions.PrefetchSize
          MaxTime,         \* bound: the clock stops here
          MaxCredit        \* bound: no balance leaves -MaxCredit..MaxCredit

dbVersion == 2

\* The databases of this release, of earlier ones and of the next one.
Version == 0 .. dbVersion + 1

ID == Node \cup Account

NodeKey(n) == <<"node", n>>
PeersKey(n) == <<"peers", n>>
AccountKey(n) == <<"account", n>>
TrialKey(n) == <<"trial", n>>
BalanceKey(a) == <<"balance", a>>
NonceKey(id) == <<"nonce", id>>
VersionKey == <<"version", None>>

NonceKeys == {NonceKey(id) : id \in ID}
MoneyKeys == {TrialKey(n) : n \in Node} \cup {BalanceKey(a) : a \in Account}
Key == {NodeKey(n) : n \in Node} \cup {PeersKey(n) : n \in Node}
       \cup {AccountKey(n) : n \in Node} \cup MoneyKeys \cup NonceKeys \cup {VersionKey}

NodeRecord == [isHost : BOOLEAN, kind : Kind \cup {None}, lastSeen : Nat]
Peers == [Node -> Nat \cup {None}]
Balance == [account : Account \cup {None}, credit : Int]
Nonce == [nonce : Nat, expires : IF ExpireNonce > 0 THEN Int ELSE {0}]     \* expires = 0: kept for good

\* None is no value that a key holds.
ASSUME AbsentAssumption == None \notin NodeRecord \cup Peers \cup Balance \cup Nonce

CallType ==
    [op : {"nonce"}, id : ID, nonce : Nat]
    \cup [op : {"addNodeBalance"}, node : Node, credit : Int]
    \cup [op : {"addAccountBalance"}, account : Account, credit : Int]
    \cup [op : {"addAccountNode"}, account : Account, node : Node]
    \cup [op : {"setNode"}, node : Node, isHost : BOOLEAN, kind : Kind \cup {None}]
    \cup [op : {"updateNodePeers"}, node : Node, report : SUBSET Node]

ASSUME BadgerAssumption ==
    /\ IsFiniteSet(Node) /\ IsFiniteSet(Account)
    /\ Node \cap Account = {}
    /\ None \notin Node \cup Account \cup Kind \cup Int
    /\ Calls \subseteq CallType
    /\ ExpireInterval \in Nat \ {0}
    /\ Second \in Nat \ {0}
    /\ ExpireNonce \in Nat /\ (ExpireNonce > 0 => ExpireNonce >= Second)
    /\ PrefetchSize \in Nat
    /\ MaxTime \in Nat /\ MaxCredit \in Nat

VARIABLES now,    \* time.Now()
          db,     \* the committed value of each key
          txn,    \* the transaction that a goroutine has open
          up,     \* whether Open has returned the store
          pend    \* the uncommitted database of a running migration

badgerVars == <<now, db, txn, up, pend>>
-----------------------------------------------------------------------------
(* helpers.go, and what badger does with a transaction *)

\* A function that returns nil with these reads and writes.
Txn(reads, writes) == [ok |-> TRUE, reads |-> reads, writes |-> writes]

\* A function that returns an error: its transaction is discarded.
Fails == [ok |-> FALSE, reads |-> {}, writes |-> {}]

\* setItem, setExpiringItem and deleting an item, which leaves None.
setItem(k, v) == [x \in {k} |-> v]

\* The values of writes where there are any, and those of d elsewhere.
Over(writes, d) ==
    [k \in DOMAIN writes \cup DOMAIN d |-> IF k \in DOMAIN writes THEN writes[k] ELSE d[k]]

hasKey(d, k) == d[k] # None

\* getItem of a balance: a missing one is empty.
getBalance(d, k) == IF hasKey(d, k) THEN d[k] ELSE [account |-> None, credit |-> 0]

\* When setExpiringItem lets a nonce expire: badger keeps whole seconds.  setItem keeps
\* it for good.
ExpiresAt(t) ==
    IF ExpireNonce > 0 THEN (t + ExpireNonce) - ((t + ExpireNonce) % Second) ELSE 0

Expired(e, t) == e.expires # 0 /\ e.expires <= t
-----------------------------------------------------------------------------
(* The functions of the methods that write *)

\* Mutant: nonces are not refused for being too old.
CheckAndSaveNonceAnyAge(d, id, nonce, at, t) ==
    LET k == NonceKey(id)
        found == hasKey(d, k) /\ ~Expired(d[k], t)
    IN  IF found /\ d[k].nonce >= nonce
        THEN Fails
        ELSE Txn({k}, setItem(k, [nonce |-> nonce, expires |-> ExpiresAt(t)]))

\* at is the time of the check that precedes the transaction, t its own.
CheckAndSaveNonce(d, id, nonce, at, t) ==
    LET k == NonceKey(id)
        found == hasKey(d, k) /\ ~Expired(d[k], t)
    IN  IF \/ ExpireNonce > 0 /\ nonce <= at - ExpireNonce
           \/ found /\ d[k].nonce >= nonce
        THEN Fails
        ELSE Txn({k}, setItem(k, [nonce |-> nonce, expires |-> ExpiresAt(t)]))

\* The key of the balance that a node spends from.
SpendKey(d, n) ==
    IF hasKey(d, AccountKey(n)) THEN BalanceKey(d[AccountKey(n)]) ELSE TrialKey(n)

\* Mutant: the balance is fetched with GetNodeBalance, before the transaction.
AddNodeBalanceOutside(d, n, credit) ==
    LET b == SpendKey(d, n)
    IN  IF hasKey(d, b) \/ hasKey(d, NodeKey(n))
        THEN Txn({AccountKey(n)}, setItem(b, [getBalance(d, b) EXCEPT !.credit = @ + credit]))
        ELSE Fails

\* The node is looked up only when it has no balance.
AddNodeBalance(d, n, credit) ==
    LET b == SpendKey(d, n)
    IN  IF hasKey(d, b) \/ hasKey(d, NodeKey(n))
        THEN Txn({AccountKey(n), b} \cup (IF hasKey(d, b) THEN {} ELSE {NodeKey(n)}),
                 setItem(b, [getBalance(d, b) EXCEPT !.credit = @ + credit]))
        ELSE Fails

AddAccountBalance(d, a, credit) ==
    LET b == BalanceKey(a)
    IN  Txn({b}, setItem(b, [account |-> a, credit |-> getBalance(d, b).credit + credit]))

\* Mutant: the trial is not deleted.
AddAccountNodeKeepTrial(d, a, n) ==
    LET b == BalanceKey(a)
        merged == getBalance(d, b).credit + getBalance(d, TrialKey(n)).credit
    IN  IF hasKey(d, NodeKey(n))
        THEN Txn({NodeKey(n), TrialKey(n), b},
                 Over(setItem(AccountKey(n), a),
                      setItem(b, [account |-> a, credit |-> merged])))
        ELSE Fails

AddAccountNode(d, a, n) ==
    LET b == BalanceKey(a)
        merged == getBalance(d, b).credit + getBalance(d, TrialKey(n)).credit
    IN  IF hasKey(d, NodeKey(n))
        THEN Txn({NodeKey(n), TrialKey(n), b},
                 Over(setItem(AccountKey(n), a),
                      Over(setItem(b, [account |-> a, credit |-> merged]),
                           setItem(TrialKey(n), None))))
        ELSE Fails

\* Mutant: the time is left out of the node that is saved.
SetNodeUnseen(n, isHost, kind, seen) ==
    Txn({}, setItem(NodeKey(n), [isHost |-> isHost, kind |-> kind, lastSeen |-> None]))

\* A blind write; the peers of the node are under another key, and stay.
SetNode(n, isHost, kind, seen) ==
    Txn({}, setItem(NodeKey(n), [isHost |-> isHost, kind |-> kind, lastSeen |-> seen]))

getPeers(d, n) == IF hasKey(d, PeersKey(n)) THEN d[PeersKey(n)] ELSE [p \in Node |-> None]

\* The peers of n once the reported ones that the pool knows are refreshed.  The
\* transaction has already written n itself, seen at that time.
ReportedPeers(d, n, report, at) ==
    [p \in Node |-> IF p \in report /\ hasKey(d, NodeKey(p))
                    THEN IF p = n THEN at ELSE d[NodeKey(p)].lastSeen
                    ELSE getPeers(d, n)[p]]

\* Mutant: the nodes of the reported peers are fetched before the transaction.
UpdateNodePeersUnread(d, n, report, at) ==
    LET seen == ReportedPeers(d, n, report, at)
        active(p) == seen[p] # None /\ seen[p] > at - ExpireInterval
    IN  IF hasKey(d, NodeKey(n))
        THEN Txn({NodeKey(n), PeersKey(n)},
                 Over(setItem(NodeKey(n), [d[NodeKey(n)] EXCEPT !.lastSeen = at]),
                      setItem(PeersKey(n),
                              [p \in Node |-> IF active(p) THEN seen[p] ELSE None])))
        ELSE Fails

\* at is read before the transaction begins.
UpdateNodePeers(d, n, report, at) ==
    LET seen == ReportedPeers(d, n, report, at)
        active(p) == seen[p] # None /\ seen[p] > at - ExpireInterval
    IN  IF hasKey(d, NodeKey(n))
        THEN Txn({NodeKey(n), PeersKey(n)} \cup {NodeKey(p) : p \in report},
                 Over(setItem(NodeKey(n), [d[NodeKey(n)] EXCEPT !.lastSeen = at]),
                      setItem(PeersKey(n),
                              [p \in Node |-> IF active(p) THEN seen[p] ELSE None])))
        ELSE Fails
-----------------------------------------------------------------------------
(* Transactions *)

\* What the function of an operation o does to the database d.  o is a call with
\* the time at which its caller first looked at the clock, and the time at which
\* its function ran.
Body(o, d) ==
    LET c == o.call
    IN  CASE c.op = "nonce" -> CheckAndSaveNonce(d, c.id, c.nonce, o.at, o.time)
          [] c.op = "addNodeBalance" -> AddNodeBalance(d, c.node, c.credit)
          [] c.op = "addAccountBalance" -> AddAccountBalance(d, c.account, c.credit)
          [] c.op = "addAccountNode" -> AddAccountNode(d, c.account, c.node)
          [] c.op = "setNode" -> SetNode(c.node, c.isHost, c.kind, o.at)
          [] c.op = "updateNodePeers" -> UpdateNodePeers(d, c.node, c.report, o.at)

\* The calls that look at the clock.
Timed(call, at) ==
    [call |-> call,
     at |-> IF call.op \in {"nonce", "setNode", "updateNodePeers"} THEN at ELSE 0,
     time |-> IF call.op = "nonce" THEN now ELSE 0]

InBound(writes) ==
    \A k \in DOMAIN writes \cap MoneyKeys :
        writes[k] # None => writes[k].credit \in -MaxCredit .. MaxCredit

\* The function of a call runs.  Its goroutine may have looked at the clock
\* some time ago.
Begin(c, o) ==
    LET f == Body(o, db)
    IN  /\ up /\ txn[c] = None
        /\ f.ok /\ InBound(f.writes)
        /\ txn' = [txn EXCEPT ![c] = [op |-> o, reads |-> f.reads, writes |-> f.writes,
                                      stale |-> FALSE]]
        /\ UNCHANGED <<now, db, up, pend>>

\* Whether the commit of c overwrites what x has read.
Overwrites(c, x) == txn[x] # None /\ txn[x].reads \cap DOMAIN txn[c].writes # {}

\* Mutant: the loser of a conflict commits all the same.
CommitAnyway(c) ==
    /\ txn[c] # None
    /\ db' = Over(txn[c].writes, db)
    /\ txn' = [txn EXCEPT ![c] = None]
    /\ UNCHANGED <<now, up, pend>>

Commit(c) ==
    /\ txn[c] # None /\ ~txn[c].stale
    /\ db' = Over(txn[c].writes, db)
    /\ txn' = [x \in Caller |-> IF x = c THEN None
                                ELSE IF Overwrites(c, x) THEN [txn[x] EXCEPT !.stale = TRUE]
                                ELSE txn[x]]
    /\ UNCHANGED <<now, up, pend>>

\* ErrConflict is returned to the caller.
Conflict(c) ==
    /\ txn[c] # None /\ txn[c].stale
    /\ txn' = [txn EXCEPT ![c] = None]
    /\ UNCHANGED <<now, db, up, pend>>
-----------------------------------------------------------------------------
(* Open, Migrate and the end of the process *)

getVersion(d) == IF hasKey(d, VersionKey) THEN d[VersionKey] ELSE 0

\* The entries that an iterator meets from the first nonce on.
Scanned(d) ==
    {VersionKey} \cup {k \in NonceKeys \cup {PeersKey(n) : n \in Node}
                             \cup {TrialKey(n) : n \in Node} : hasKey(d, k)}

\* The entries that "nuke the table" may delete.  txn.Delete keeps the slice that it
\* is given until the commit, and that slice is the key buffer of the iterator, which
\* is reused once there are more entries than it prefetches: what is deleted then is
\* any entry that it has met, or none; the version's key is too short to be one.
NukedNonces(d) ==
    IF Cardinality(Scanned(d)) > PrefetchSize
    THEN {gone \in SUBSET (Scanned(d) \ {VersionKey}) :
            Cardinality(gone) <= Cardinality({k \in NonceKeys : hasKey(d, k)})}
    ELSE {NonceKeys}

\* migrations[v], from version v to version v + 1: the databases it may result in.
migrations(v, d) ==
    {[k \in Key |-> IF k = VersionKey THEN v + 1 ELSE IF k \in gone THEN None ELSE d[k]] :
       gone \in IF v = 1 THEN NukedNonces(d) ELSE {{}}}

OpenLatest ==
    /\ ~up /\ pend = None /\ getVersion(db) = dbVersion
    /\ up' = TRUE
    /\ UNCHANGED <<now, db, txn, pend>>

\* Migrate's transaction begins.  A newer database is refused.
MigrateBegin ==
    /\ ~up /\ pend = None /\ getVersion(db) < dbVersion
    /\ pend' = db
    /\ UNCHANGED <<now, db, txn, up>>

\* Mutant: the new version is committed before the step is done.
MigrateStepEarlyVersion ==
    /\ pend # None /\ getVersion(pend) < dbVersion
    /\ pend' \in migrations(getVersion(pend), pend)
    /\ db' = [db EXCEPT ![VersionKey] = getVersion(pend) + 1]
    /\ UNCHANGED <<now, txn, up>>

MigrateStep ==
    /\ pend # None /\ getVersion(pend) < dbVersion
    /\ pend' \in migrations(getVersion(pend), pend)
    /\ UNCHANGED <<now, db, txn, up>>

MigrateCommit ==
    /\ pend # None /\ getVersion(pend) = dbVersion
    /\ db' = pend
    /\ pend' = None
    /\ up' = TRUE
    /\ UNCHANGED <<now, txn>>

\* The process is killed, or closes the store: open transactions are lost.
Crash ==
    /\ up \/ pend # None
    /\ up' = FALSE
    /\ pend' = None
    /\ txn' = [c \in Caller |-> None]
    /\ UNCHANGED <<now, db>>
-----------------------------------------------------------------------------
(* Views *)

GetNode(n) == db[NodeKey(n)]

AllNodes == {n \in Node : hasKey(db, NodeKey(n))}

\* None is ErrUnregisteredNode.
GetNodeBalance(n) ==
    IF hasKey(db, SpendKey(db, n)) \/ hasKey(db, NodeKey(n))
    THEN getBalance(db, SpendKey(db, n)) ELSE None

GetAccountBalance(a) == getBalance(db, BalanceKey(a))

IsAccountNode(a, n) == db[AccountKey(n)] = a

GetAccountNodes(a) == {n \in Node : IsAccountNode(a, n)}

Active(n) == GetNode(n).lastSeen > now - ExpireInterval

\* The results ActiveHosts may return: with a limit, a random subset of that size.
ActiveHosts(kind, limit) ==
    LET match == {n \in AllNodes : /\ GetNode(n).isHost
                                   /\ kind # None => GetNode(n).kind = kind
                                   /\ Active(n)}
    IN  IF limit <= 0 \/ Cardinality(match) < limit THEN {match} ELSE kSubset(limit, match)

\* Peers that the pool does not know any more are skipped.
NodePeers(n) == {p \in AllNodes : getPeers(db, n)[p] # None}

\* The balances and the trials.
Held == {k \in MoneyKeys : hasKey(db, k)}

TotalCredit == MapThenSumSet(LAMBDA k : db[k].credit, Held)

\* CountNode over the nodes, CountBalance over what is held.
Stats ==
    LET hosts == {n \in AllNodes : GetNode(n).isHost}
    IN  [numActiveHosts |-> Cardinality({n \in hosts : Active(n)}),
         numTotalHosts |-> Cardinality(hosts),
         numActiveClients |-> Cardinality({n \in AllNodes \ hosts : Active(n)}),
         numTotalClients |-> Cardinality(AllNodes \ hosts),
         totalCredit |-> TotalCredit,
         numTrialBalances |-> Cardinality({k \in Held : db[k].account = None})]
-----------------------------------------------------------------------------
NonceCalls == {c \in Calls : c.op = "nonce"}

\* A database of any release, without nodes, peers or balances.  Before version 2,
\* nonces were kept for good.
BadgerInit ==
    /\ now = 0
    /\ \E v \in Version, last \in [ID -> {c.nonce : c \in NonceCalls} \cup {None}] :
        /\ \A id \in ID : last[id] # None =>
              v \in {0, 1} /\ \E c \in NonceCalls : c.id = id /\ c.nonce = last[id]
        /\ db = [k \in Key |->
                   IF k = VersionKey /\ v # 0 THEN v
                   ELSE IF k \in NonceKeys /\ last[k[2]] # None
                   THEN [nonce |-> last[k[2]], expires |-> 0]
                   ELSE None]
    /\ txn = [c \in Caller |-> None]
    /\ up = FALSE
    /\ pend = None

Tick ==
    /\ now < MaxTime
    /\ now' = now + 1
    /\ UNCHANGED <<db, txn, up, pend>>

BadgerNext ==
    \/ Tick
    \/ \E c \in Caller :
          \/ \E call \in Calls, at \in 0 .. now : Begin(c, Timed(call, at))
          \/ Commit(c) \/ Conflict(c)
    \/ OpenLatest \/ MigrateBegin \/ MigrateStep \/ MigrateCommit
    \/ Crash

BadgerSpec == BadgerInit /\ [][BadgerNext]_badgerVars
=============================================================================
