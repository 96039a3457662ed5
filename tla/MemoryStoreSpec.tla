-------------------------- MODULE MemoryStoreSpec --------------------------
(***************************************************************************)
(* The memory store on its own, with callers that may make any call at     *)
(* any time; and the sense in which it implements Ledger.                  *)
(***************************************************************************)
EXTENDS MemoryStore

CONSTANTS Credit,     \* the amounts that callers add
          Nonces,     \* the nonces that callers present, each with its ID
          Reports,    \* the peer lists that nodes report
          MaxCredit   \* bound: no purse leaves -MaxCredit..MaxCredit

ASSUME CallerAssumption ==
    /\ Credit \subseteq Int
    /\ Nonces \subseteq ID \X Nat
    /\ Reports \subseteq SUBSET Node
    /\ MaxCredit \in Nat

InBound(c) == c \in -MaxCredit .. MaxCredit

\* connect takes the LastSeen of SetNode shortly before the call; here it is the time of
\* the call (Pool keeps the two apart).
StoreNext ==
    \/ Tick
    \/ \E p \in Nonces : CheckAndSaveNonce(p[1], p[2])
    \/ \E n \in Node, c \in Credit :
          InBound(GetNodeBalance(n).credit + c) /\ AddNodeBalance(n, c)
    \/ \E a \in Account, c \in Credit :
          InBound(GetAccountBalance(a).credit + c) /\ AddAccountBalance(a, c)
    \/ \E a \in Account, n \in Node :
          /\ InBound(GetAccountBalance(a).credit + TrialCredit(n))
          /\ AddAccountNode(a, n)
    \/ \E n \in Node, isHost \in BOOLEAN, kind \in Kind : SetNode(n, isHost, kind, now)
    \/ \E n \in Node : RemoveNode(n)
    \/ \E n \in Node, reported \in Reports : UpdateNodePeers(n, reported)

StoreSpec == StoreInit /\ [][StoreNext]_storeVars
-----------------------------------------------------------------------------
\* The purses of the abstract ledger: a Go map's zero value where a key is absent.
PurseOf(h) == IF h \in Node THEN TrialCredit(h) ELSE GetAccountBalance(h).credit

L == INSTANCE Ledger WITH
        Amount <- Credit,
        owner <- accounts,
        purse <- [h \in Node \cup Account |-> PurseOf(h)]

\* The methods of memoryStore implement the ledger: AddNodeBalance and
\* AddAccountBalance change one purse by the amount given, AddAccountNode
\* moves the trial of the node into the account, and no other method changes
\* what a node or an account holds.
LedgerSpec == L!LedgerSpec

\* A node that AddAccountNode has linked to an account holds no trial any
\* more, however often it is linked, relinked or credited: GetNodeBalance,
\* which stops reading s.trials at that point, loses sight of no credit.
NoStrandedTrial == \A n \in Node : accounts[n] # None => trials[n] = None

\* A peer that NodePeers still reports has itself been seen less than
\* ExpireInterval before the node's own last update (UpdateNodePeers stores
\* the peer's LastSeen, not the time of the report): a host that went silent
\* is dropped, so nobody is billed for it, even by nodes that keep listing it.
SilentPeerDropped ==
    \A n \in Node : Registered(n) =>
        \A p \in NodePeers(n) :
            nodes[p].lastSeen > nodes[n].lastSeen - ExpireInterval

\* SilentPeerDropped made inductive: times are in the past, the time kept for a
\* peer is one at which that peer was seen, and it was fresh at the last update.
PeerTimes ==
    \A n \in Node : Registered(n) =>
        /\ nodes[n].lastSeen <= now
        /\ \A p \in Node : nodes[n].peers[p] # None =>
              /\ nodes[n].peers[p] <= now
              /\ nodes[n].peers[p] > nodes[n].lastSeen - ExpireInterval
              /\ Registered(p) => nodes[n].peers[p] <= nodes[p].lastSeen

=============================================================================
