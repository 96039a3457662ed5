----------------------------- MODULE MCPayment -----------------------------
(* A wallet under two spellings, with one node: two withdraws, a forged one, *)
(* a link, and a look at the balance.                                        *)
EXTENDS Payment

CONSTANTS n1, a1, a2

MCHex == [a \in {a1, a2} |-> a1]

Withdraw(nonce, signed) ==
    [op |-> "withdraw", account |-> a1, nonce |-> nonce, signed |-> signed]

Link(nonce) ==
    [op |-> "addNode", account |-> a1, nonce |-> nonce, signed |-> TRUE, node |-> n1]

MCPayRequest ==
    {Withdraw(1, TRUE), Withdraw(2, FALSE), Link(3), [op |-> "check", node |-> n1],
     [op |-> "account", account |-> a2]}

MCTwoWithdraws == {Link(1), Withdraw(2, TRUE), Withdraw(3, TRUE)}
=============================================================================
