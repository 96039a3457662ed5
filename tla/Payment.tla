------------------------------ MODULE Payment ------------------------------
(***************************************************************************)
(* pool/payment: PaymentService and contractPayment, over the memory store *)
(* and a payment contract.                                                 *)
(*                                                                         *)
(* Requests are served by goroutines of their own; balanceCache.mu is held *)
(* only inside a step.  The deposit of an account changes on the contract, *)
(* which is external; the cache learns of it from the Balance events that  *)
(* SubscribeBalance hands to one goroutine each, and from Get, which asks  *)
(* the contract without holding the lock.  SubscribeBalance never assigns  *)
(* lastErr, so that balanceCache.Reset is never reached: expireAfter stays *)
(* zero and no cached deposit expires.  An account is the text that a      *)
(* wallet's address was given as: requests keep the caller's spelling, the *)
(* event loop uses the checksummed one, and the contract sees the address. *)
(***************************************************************************)
EXTENDS MemoryStore

CONSTANTS Hex,          \* common.HexToAddress(a).Hex(): the checksummed spelling of an account
          PayRequest,   \* the requests to PaymentService, and the balance checks of the pool
          WithdrawMin,  \* PaymentService.WithdrawMin
          Fee,          \* what PaymentService.WithdrawFee subtracts
          MaxDeposit,   \* bound: the deposits that one account makes
          MaxEarned     \* bound: the credit that other handlers add to a node

\* check is contractPayment.GetNodeBalance, which OnClient and OnUpdate call.
PayRequestType ==
    [op : {"withdraw"}, account : Account, nonce : Nat, signed : BOOLEAN]
    \cup [op : {"addNode"}, account : Account, nonce : Nat, signed : BOOLEAN, node : Node]
    \cup [op : {"account"}, account : Account]
    \cup [op : {"check"}, node : Node]

Wallet == {Hex[a] : a \in Account}

ASSUME PaymentAssumption ==
    /\ Hex \in [Account -> Account] /\ \A a \in Account : Hex[Hex[a]] = Hex[a]
    /\ PayRequest \subseteq PayRequestType
    /\ WithdrawMin \in Nat /\ Fee \in 0 .. WithdrawMin
    /\ MaxDeposit \in Nat /\ MaxEarned \in Nat

VARIABLES chain,     \* the contract's entry of a wallet; ver counts its changes
          events,    \* Balance events on their way to the cache
          sub,       \* the event loop runs
          cache,     \* balanceCache.cache
          job,       \* the goroutine that serves a request
          payouts,   \* history: the settlements made for each request
          paid,      \* history: what was paid out to each wallet
          deposited, \* history: what each wallet deposited
          late       \* history: accounts whose cached deposit was overwritten by an older one

chainVars == <<chain, events, deposited>>
cacheVars == <<cache, late>>
payVars == <<chain, events, sub, cache, job, payouts, paid, deposited, late>>
vars == <<storeVars, payVars>>

ContractAccount == [deposit : Nat, locked : BOOLEAN, ver : Nat]
Event == [account : Wallet, deposit : Nat, ver : Nat]
Item == [deposit : Nat, ver : Nat]

\* A nil pointer is no cached deposit.
ASSUME ItemAssumption == None \notin Item

PC == {"idle", "verified", "credited", "filling", "fetched", "read", "done", "failed"}
Final == {"done", "failed"}

Job == [pc : PC, account : Account \cup {None}, credit : Int, item : Item \cup {None}]

PaymentTypeOK ==
    /\ StoreTypeOK
    /\ chain \in [Wallet -> ContractAccount]
    /\ events \subseteq Event
    /\ sub \in BOOLEAN
    /\ cache \in [Account -> Item \cup {None}]
    /\ job \in [PayRequest -> Job]
    /\ \A r \in PayRequest : job[r].pc \in {"fetched", "read"} => job[r].item # None
    /\ payouts \in [PayRequest -> Nat]
    /\ paid \in [Wallet -> Nat] /\ deposited \in [Wallet -> Nat]
    /\ late \subseteq Account

\* The nodes have connected before.
PaymentInit ==
    /\ now = 0
    /\ nodes = [n \in Node |-> [isHost |-> FALSE, kind |-> None, lastSeen |-> 0,
                                peers |-> NoPeers]]
    /\ accounts = [n \in Node |-> None]
    /\ trials = [n \in Node |-> None]
    /\ balances = [a \in Account |-> None]
    /\ nonces = [id \in ID |-> 0]
    /\ chain = [w \in Wallet |-> [deposit |-> 0, locked |-> FALSE, ver |-> 0]]
    /\ events = {} /\ sub = TRUE
    /\ cache = [a \in Account |-> None]
    /\ job = [r \in PayRequest |-> [pc |-> "idle", account |-> None, credit |-> 0,
                                    item |-> None]]
    /\ payouts = [r \in PayRequest |-> 0]
    /\ paid = [w \in Wallet |-> 0] /\ deposited = [w \in Wallet |-> 0]
    /\ late = {}

At(r, pc) == job[r].pc = pc
Become(r, j) == job' = [job EXCEPT ![r] = j]
Goto(r, pc) == Become(r, [job[r] EXCEPT !.pc = pc])

\* The handler returns, and its locals are gone.
Return(r, pc) ==
    Become(r, [pc |-> pc, account |-> None, credit |-> 0, item |-> None])
-----------------------------------------------------------------------------
(* The contract, external *)

\* The balance of a wallet changes; a subscriber is sent the event.
Changed(w, deposit) ==
    LET ver == chain[w].ver + 1
    IN  /\ chain' = [chain EXCEPT ![w].deposit = deposit, ![w].ver = ver]
        /\ events' = IF ~sub THEN events
                     ELSE events \cup {[account |-> w, deposit |-> deposit, ver |-> ver]}

Deposit(w) ==
    /\ deposited[w] < MaxDeposit
    /\ Changed(w, chain[w].deposit + 1)
    /\ deposited' = [deposited EXCEPT ![w] = @ + 1]
    /\ UNCHANGED <<storeVars, sub, cacheVars, job, payouts, paid>>

\* The owner asks for the deposit back: TimeLocked is set.
TimeLock(w) ==
    /\ ~chain[w].locked
    /\ chain' = [chain EXCEPT ![w].locked = TRUE]
    /\ UNCHANGED <<storeVars, events, deposited, sub, cacheVars, job, payouts, paid>>

\* Another handler of the pool credits a node, by AddNodeBalance.
Earn(n) ==
    /\ GetNodeBalance(n).credit < MaxEarned
    /\ AddNodeBalance(n, 1)
    /\ UNCHANGED payVars
-----------------------------------------------------------------------------
(* balanceCache, and SubscribeBalance that fills it *)

\* Whatever is cached is replaced.
Set(a, item) ==
    /\ cache' = [cache EXCEPT ![a] = item]
    /\ late' = IF cache[a] # None /\ item.ver < cache[a].ver THEN late \cup {a}
               ELSE IF item.ver = chain[Hex[a]].ver THEN late \ {a} ELSE late

\* Mutant: an event for an account that is not cached is ignored.
HandleEventIfCached(e) ==
    /\ events' = events \ {e}
    /\ IF cache[e.account] # None THEN Set(e.account, [deposit |-> e.deposit, ver |-> e.ver])
       ELSE UNCHANGED cacheVars
    /\ UNCHANGED <<storeVars, chain, deposited, sub, job, payouts, paid>>

\* The event loop reads an event and starts a goroutine for it: handlers overtake
\* each other.
HandleEvent(e) ==
    /\ events' = events \ {e}
    /\ Set(e.account, [deposit |-> e.deposit, ver |-> e.ver])
    /\ UNCHANGED <<storeVars, chain, deposited, sub, job, payouts, paid>>

\* sub.Err() yields an error; eventHandler is called again, and now sub.Err() is
\* closed and yields nil, which is taken for a clean exit.  What the loop has not
\* read by then is lost.
EventLoopExits ==
    /\ sub
    /\ sub' = FALSE
    /\ \E read \in SUBSET events : events' = read
    /\ UNCHANGED <<storeVars, chain, deposited, cacheVars, job, payouts, paid>>
-----------------------------------------------------------------------------
(* PaymentService.verify, AddNode *)

\* CheckAndSaveNonce comes first: a request with a bad signature has used its nonce.
verify(r) ==
    /\ r.op \in {"withdraw", "addNode"}
    /\ CheckAndSaveNonce(r.account, r.nonce)
    /\ IF r.signed THEN Goto(r, "verified") ELSE Return(r, "failed")
    /\ UNCHANGED <<chainVars, sub, cacheVars, payouts, paid>>

\* Account and the pool's own checks are not signed.
Ask(r) ==
    /\ r.op \in {"account", "check"} /\ At(r, "idle")
    /\ Goto(r, "verified")
    /\ UNCHANGED <<storeVars, chainVars, sub, cacheVars, payouts, paid>>

AddNode(r) ==
    /\ r.op = "addNode" /\ At(r, "verified")
    /\ AddAccountNode(r.account, r.node)
    /\ Return(r, "done")
    /\ UNCHANGED <<chainVars, sub, cacheVars, payouts, paid>>
-----------------------------------------------------------------------------
(* contractPayment.GetNodeBalance and GetAccountBalance *)

\* The credit, and the account that it belongs to, from the store.  A node on
\* trial has no deposit.
StoreBalance(r) ==
    IF r.op = "check" THEN GetNodeBalance(r.node)
    ELSE [account |-> r.account, credit |-> GetAccountBalance(r.account).credit]

GetCredit(r) ==
    LET b == StoreBalance(r)
    IN  /\ r.op # "addNode" /\ At(r, "verified")
        /\ IF b.account = None THEN Return(r, "done")
           ELSE Become(r, [pc |-> "credited", account |-> b.account, credit |-> b.credit,
                           item |-> None])
        /\ UNCHANGED <<storeVars, chainVars, sub, cacheVars, payouts, paid>>

\* Mutant: the lock is held while the contract is asked.
CacheUnlocked == \A r \in PayRequest : ~At(r, "filling")

\* balanceCache.mu is free between two steps.
CacheLock == TRUE

\* Get has the deposit: Withdraw goes on, the others return it.
GotDeposit(r, item) ==
    IF r.op = "withdraw" THEN Become(r, [job[r] EXCEPT !.pc = "read", !.item = item])
    ELSE Return(r, "done")

\* Mutant: the entry is not looked at.
GetHitUnchecked(r) ==
    /\ At(r, "credited") /\ CacheLock
    /\ GotDeposit(r, cache[job[r].account])
    /\ UNCHANGED <<storeVars, chainVars, sub, cacheVars, payouts, paid>>

\* balanceCache.Get
GetHit(r) ==
    /\ At(r, "credited") /\ CacheLock
    /\ cache[job[r].account] # None
    /\ GotDeposit(r, cache[job[r].account])
    /\ UNCHANGED <<storeVars, chainVars, sub, cacheVars, payouts, paid>>

GetMiss(r) ==
    /\ At(r, "credited") /\ CacheLock
    /\ cache[job[r].account] = None
    /\ Goto(r, "filling")
    /\ UNCHANGED <<storeVars, chainVars, sub, cacheVars, payouts, paid>>

\* GetBalance asks the contract; a deposit that is timelocked is an error.
GetBalance(r) ==
    LET c == chain[Hex[job[r].account]]
    IN  /\ At(r, "filling")
        /\ IF c.locked THEN Return(r, "failed")
           ELSE Become(r, [job[r] EXCEPT !.pc = "fetched",
                                         !.item = [deposit |-> c.deposit, ver |-> c.ver]])
        /\ UNCHANGED <<storeVars, chainVars, sub, cacheVars, payouts, paid>>

\* The contract cannot be reached.
GetBalanceFails(r) ==
    /\ At(r, "filling")
    /\ Return(r, "failed")
    /\ UNCHANGED <<storeVars, chainVars, sub, cacheVars, payouts, paid>>

GetSet(r) ==
    /\ At(r, "fetched")
    /\ Set(job[r].account, job[r].item)
    /\ GotDeposit(r, job[r].item)
    /\ UNCHANGED <<storeVars, chainVars, sub, payouts, paid>>
-----------------------------------------------------------------------------
(* Withdraw settles *)

Total(r) == job[r].item.deposit + job[r].credit

\* WithdrawBalanceMinimumError
BelowMinimum(r) ==
    /\ At(r, "read") /\ Total(r) < WithdrawMin
    /\ Return(r, "failed")
    /\ UNCHANGED <<storeVars, chainVars, sub, cacheVars, payouts, paid>>

\* Withdraw waits for the contract: OpSettle has no deadline.
Settling(r) == At(r, "read") /\ Total(r) >= WithdrawMin

\* OpSettle returns an error.
SettleFails(r) ==
    /\ Settling(r)
    /\ Return(r, "failed")
    /\ UNCHANGED <<storeVars, chainVars, sub, cacheVars, payouts, paid>>

\* OpSettle replaces the deposit by newBalance, which is 0, and pays the total
\* less the fee.  Nothing is written to the store: the credit stays.
Settle(r) ==
    LET w == Hex[job[r].account]
    IN  /\ Settling(r)
        /\ Changed(w, 0)
        /\ paid' = [paid EXCEPT ![w] = @ + Total(r) - Fee]
        /\ payouts' = [payouts EXCEPT ![r] = @ + 1]
        /\ Return(r, "done")
        /\ UNCHANGED <<storeVars, deposited, sub, cacheVars>>
-----------------------------------------------------------------------------
\* The steps of a handler that do not wait for the contract.
PayStep(r) ==
    \/ AddNode(r) \/ GetCredit(r) \/ GetHit(r) \/ GetMiss(r) \/ GetSet(r)
    \/ BelowMinimum(r)

\* What the contract answers to a handler that asked it.
ContractAnswers(r) ==
    GetBalance(r) \/ GetBalanceFails(r) \/ Settle(r) \/ SettleFails(r)

PaymentNext ==
    \/ \E w \in Wallet : Deposit(w) \/ TimeLock(w)
    \/ \E n \in Node : Earn(n)
    \/ \E e \in events : HandleEvent(e)
    \/ EventLoopExits
    \/ \E r \in PayRequest :
          \/ verify(r) \/ Ask(r) \/ PayStep(r) \/ ContractAnswers(r)

PaymentSpec == PaymentInit /\ [][PaymentNext]_vars

\* Goroutines are scheduled; the contract may leave any call unanswered.
PaymentFairSpec == PaymentSpec /\ \A r \in PayRequest : WF_vars(PayStep(r))
-----------------------------------------------------------------------------
(* Properties *)

\* A signed request is settled at most once, however often it is delivered and
\* however its deliveries interleave.
OnePayoutPerRequest == \A r \in PayRequest : payouts[r] <= 1

\* The cached deposit of an account in its checksummed spelling is older than the
\* contract's only while the event of a newer one is on its way, or because an older
\* one was set after it (by the handler of an earlier event, or by a Get that asked
\* the contract earlier), or because the subscription is lost: no event is dropped
\* while a Get is filling the cache.
StaleExplained ==
    \A w \in Wallet :
        cache[w] # None /\ cache[w].ver < chain[w].ver =>
            \/ \E e \in events : e.account = w /\ e.ver > cache[w].ver
            \/ w \in late
            \/ ~sub

\* A request for an account whose deposit is cached is answered, or is a withdraw that
\* comes to settling, although the contract leaves the calls of other requests without
\* an answer: Get does not hold the lock of the cache while it asks.
HitsNotBlocked ==
    \A r \in PayRequest :
        At(r, "credited") /\ cache[job[r].account] # None
            ~> job[r].pc \in Final \/ Settling(r)

\* SettleHandler is documented to settle the balance "by updating the internal
\* balance to newBalance and disbursing paymentAmount": an account is paid what it
\* deposited and earned, once.
PaidOnce ==
    \A w \in Wallet :
        paid[w] <= deposited[w] + MapThenSumSet(LAMBDA a : GetAccountBalance(a).credit,
                                                {a \in Account : Hex[a] = w})
=============================================================================
