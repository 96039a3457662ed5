---------------------------- MODULE MemoryStore ----------------------------
(***************************************************************************)
(* pool/store/memory: the in-memory implementation of store.Store.         *)
(*                                                                         *)
(* Every method of memoryStore holds s.mu from its first read to its last  *)
(* write, so every method is one step.  A method that returns              *)
(* ErrUnregisteredNode or ErrInvalidNonce changes nothing: that is its     *)
(* guard, and the caller's error path.  Methods that only read are state   *)
(* functions.  A key that is absent from a Go map is None.  Node metadata  *)
(* that no operation reads back (URI, Payout, versions, block number) is   *)
(* left out.                                                               *)
(***************************************************************************)
EXTENDS Integers, FiniteSets, FiniteSetsExt

CONSTANTS Node,            \* store.NodeID
          Account,         \* store.Account, also the IDs of wallets
          Kind,            \* node kinds ("geth", "parity")
          None,            \* an absent key, an empty string
          ExpireInterval,  \* store.ExpireInterval, in clock ticks
          ExpireNonce,     \* store.ExpireNonce, in clock ticks
          MaxTime          \* bound: the clock stops here

ASSUME StoreAssumption ==
    /\ Node \cap Account = {}
    /\ None \notin Node \cup Account \cup Kind
    /\ None \notin Int
    /\ ExpireInterval \in Nat \ {0}
    /\ ExpireNonce \in Nat
    /\ MaxTime \in Nat

VARIABLES now,       \* time.Now()
          nodes,     \* s.nodes
          accounts,  \* s.accounts: the account of a node
          trials,    \* s.trials: the credit of a node that has no account
          balances,  \* s.balances
          nonces     \* s.nonces, 0 when absent

nodeVars == <<nodes>>
accountVars == <<accounts, trials, balances>>
storeVars == <<now, nodes, accounts, trials, balances, nonces>>

ID == Node \cup Account

\* memNode: what SetNode saves, and the last-seen time of each known peer.
MemNode == [isHost : BOOLEAN, kind : Kind \cup {None}, lastSeen : Int,
            peers : [Node -> Int \cup {None}]]

Balance == [account : Account \cup {None}, credit : Int]

\* None is no value that a map holds.
ASSUME NoneAssumption == None \notin MemNode /\ None \notin Balance

StoreTypeOK ==
    /\ now \in Nat
    /\ nodes \in [Node -> MemNode \cup {None}]
    /\ accounts \in [Node -> Account \cup {None}]
    /\ trials \in [Node -> Int \cup {None}]
    /\ balances \in [Account -> Balance \cup {None}]
    /\ nonces \in [ID -> Nat]

StoreInit ==
    /\ now = 0
    /\ nodes = [n \in Node |-> None]
    /\ accounts = [n \in Node |-> None]
    /\ trials = [n \in Node |-> None]
    /\ balances = [a \in Account |-> None]
    /\ nonces = [id \in ID |-> 0]

Tick ==
    /\ now < MaxTime
    /\ now' = now + 1
    /\ UNCHANGED <<nodes, accountVars, nonces>>

Registered(n) == nodes[n] # None
-----------------------------------------------------------------------------
(* store.NonceStore *)

\* Mutant: the comparison with the last nonce is off by one.
NonceValidOffByOne(id, nonce) ==
    /\ ExpireNonce > 0 => nonce > now - ExpireNonce
    /\ nonces[id] <= nonce

NonceValid(id, nonce) ==
    /\ ExpireNonce > 0 => nonce > now - ExpireNonce
    /\ nonces[id] < nonce

CheckAndSaveNonce(id, nonce) ==
    /\ NonceValid(id, nonce)
    /\ nonces' = [nonces EXCEPT ![id] = nonce]
    /\ UNCHANGED <<now, nodes, accountVars>>
-----------------------------------------------------------------------------
(* store.BalanceStore and store.AccountStore *)

TrialCredit(n) == IF trials[n] = None THEN 0 ELSE trials[n]

GetAccountBalance(a) ==
    IF balances[a] = None THEN [account |-> None, credit |-> 0] ELSE balances[a]

GetNodeBalance(n) ==
    IF accounts[n] = None
    THEN [account |-> None, credit |-> TrialCredit(n)]
    ELSE GetAccountBalance(accounts[n])

AddAccountBalance(a, c) ==
    /\ balances' = [balances EXCEPT ![a] =
                        [account |-> GetAccountBalance(a).account,
                         credit |-> GetAccountBalance(a).credit + c]]
    /\ UNCHANGED <<now, nodes, accounts, trials, nonces>>

AddNodeBalance(n, c) ==
    /\ Registered(n)
    /\ \/ /\ accounts[n] # None
          /\ AddAccountBalance(accounts[n], c)
       \/ /\ accounts[n] = None
          /\ trials' = [trials EXCEPT ![n] = TrialCredit(n) + c]
          /\ UNCHANGED <<now, nodes, accounts, balances, nonces>>

\* Mutant: the trial is added to the account and kept.
AddAccountNodeKeepTrial(a, n) ==
    /\ Registered(n)
    /\ accounts' = [accounts EXCEPT ![n] = a]
    /\ balances' = [balances EXCEPT ![a] =
                        [account |-> a,
                         credit |-> GetAccountBalance(a).credit + TrialCredit(n)]]
    /\ UNCHANGED <<now, nodes, trials, nonces>>

\* Mutant: the migrated trial replaces the credit of the account.
AddAccountNodeOverwrite(a, n) ==
    /\ Registered(n)
    /\ accounts' = [accounts EXCEPT ![n] = a]
    /\ trials' = [trials EXCEPT ![n] = None]
    /\ balances' = [balances EXCEPT ![a] = [account |-> a, credit |-> TrialCredit(n)]]
    /\ UNCHANGED <<now, nodes, nonces>>

AddAccountNode(a, n) ==
    /\ Registered(n)
    /\ accounts' = [accounts EXCEPT ![n] = a]
    /\ trials' = [trials EXCEPT ![n] = None]
    /\ balances' = [balances EXCEPT ![a] =
                        [account |-> a,
                         credit |-> GetAccountBalance(a).credit + TrialCredit(n)]]
    /\ UNCHANGED <<now, nodes, nonces>>
-----------------------------------------------------------------------------
(* store.PoolStore *)

NoPeers == [p \in Node |-> None]

\* Mutant: the peers map of a new entry is not initialised.
SetNodeNilPeers(n, isHost, kind, seen) ==
    /\ nodes' = [nodes EXCEPT ![n] = [isHost |-> isHost, kind |-> kind,
                                      lastSeen |-> seen, peers |-> None]]
    /\ UNCHANGED <<now, accountVars, nonces>>

\* SetNode overwrites the whole entry: the peers known so far are forgotten.
\* seen is the LastSeen that the caller put in the Node.
SetNode(n, isHost, kind, seen) ==
    /\ nodes' = [nodes EXCEPT ![n] = [isHost |-> isHost, kind |-> kind,
                                      lastSeen |-> seen, peers |-> NoPeers]]
    /\ UNCHANGED <<now, accountVars, nonces>>

RemoveNode(n) ==
    /\ nodes' = [nodes EXCEPT ![n] = None]
    /\ UNCHANGED <<now, accountVars, nonces>>

NodePeers(n) == {p \in Node : nodes[n].peers[p] # None /\ Registered(p)}

Seen(t) == t > now - ExpireInterval

\* The results ActiveHosts may return: Go's map order is random, so with a
\* positive limit any subset of that size; otherwise every match.
ActiveHosts(kind, limit) ==
    LET match == {n \in Node : /\ Registered(n)
                               /\ nodes[n].isHost
                               /\ kind # None => nodes[n].kind = kind
                               /\ Seen(nodes[n].lastSeen)}
    IN  IF limit > 0 /\ limit < Cardinality(match) THEN kSubset(limit, match) ELSE {match}

\* Mutant: a reported peer is refreshed with the current time.
ReportedPeersNow(n, reported) ==
    [p \in Node |-> IF p \in reported /\ Registered(p)
                    THEN now ELSE nodes[n].peers[p]]

\* node.peers once the reported peers that the pool knows are refreshed.
ReportedPeers(n, reported) ==
    [p \in Node |-> IF p \in reported /\ Registered(p)
                    THEN nodes[p].lastSeen ELSE nodes[n].peers[p]]

\* The peers whose last-seen time is over: returned to the caller as inactive.
Inactive(n, reported) ==
    {p \in Node : LET t == ReportedPeers(n, reported)[p]
                  IN  t # None /\ ~Seen(t)}

UpdateNodePeers(n, reported) ==
    /\ Registered(n)
    /\ nodes' = [nodes EXCEPT
                    ![n].lastSeen = now,
                    ![n].peers = [p \in Node |->
                        IF p \in Inactive(n, reported) THEN None
                        ELSE ReportedPeers(n, reported)[p]]]
    /\ UNCHANGED <<now, accountVars, nonces>>
-----------------------------------------------------------------------------
(* store.Stats *)

\* CountBalance over s.balances and s.trials: Stats().TotalCredit
TotalCredit ==
    MapThenSumSet(LAMBDA a : GetAccountBalance(a).credit, Account)
    + MapThenSumSet(TrialCredit, Node)

=============================================================================
