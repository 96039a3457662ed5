------------------------------- MODULE Ledger -------------------------------
(***************************************************************************)
(* What store.AccountStore and store.BalanceStore promise, whatever the    *)
(* driver: every node and every account has a purse of credit.  A node     *)
(* spends from its own purse (a trial) until it is linked to an account,   *)
(* and from the account's purse afterwards; linking moves the trial into   *)
(* the account in the same step, so that no credit is lost or duplicated.  *)
(***************************************************************************)
EXTENDS Integers

CONSTANTS Node, Account, None,
          Amount    \* the amounts a caller may add, of either sign

VARIABLES owner,    \* the account a node spends from, or None
          purse     \* the credit held by each node (trial) and each account

ledgerVars == <<owner, purse>>

Holder == Node \cup Account

\* The purse that pays for a node.
HolderOf(n) == IF owner[n] = None THEN n ELSE owner[n]

LedgerInit ==
    /\ owner = [n \in Node |-> None]
    /\ purse = [h \in Holder |-> 0]

\* Credit, of either sign, reaches exactly one purse.
Grant(h, c) ==
    /\ purse' = [purse EXCEPT ![h] = @ + c]
    /\ UNCHANGED owner

\* A node is linked to account a, and its trial moves there.
Link(a, n) ==
    /\ owner' = [owner EXCEPT ![n] = a]
    /\ purse' = [purse EXCEPT ![a] = @ + purse[n], ![n] = 0]

LedgerNext ==
    \/ \E n \in Node, c \in Amount : Grant(HolderOf(n), c)
    \/ \E a \in Account, c \in Amount : Grant(a, c)
    \/ \E a \in Account, n \in Node : Link(a, n)

LedgerSpec == LedgerInit /\ [][LedgerNext]_ledgerVars

=============================================================================
