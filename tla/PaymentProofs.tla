---------------------------- MODULE PaymentProofs ----------------------------
(***************************************************************************)
(* The payment service, for every set of wallets, spellings, nodes and     *)
(* requests: a request is settled at most once, and the cache is out of    *)
(* date only for one of the reasons that StaleExplained names.             *)
(***************************************************************************)
EXTENDS Payment, MemoryStoreProofs

\* The stages at which a handler knows the account.
Known == {"credited", "filling", "fetched", "read"}

\* What the goroutine of request r may hold, for a contract c and saved nonces ns: the
\* account and the deposit that its stage needs, a deposit no newer than the contract's,
\* and a nonce that is used up.  Only a Withdraw comes to settling.
Fit(r, j, c, ns) ==
    /\ j \in Job
    /\ j.pc \in Known => j.account \in Account
    /\ j.pc \in {"fetched", "read"} => j.item # None
    /\ j.pc = "fetched" => j.item.ver <= c[Hex[j.account]].ver
    /\ j.pc = "read" => r.op = "withdraw"
    /\ r.op = "withdraw" /\ j.pc # "idle" => r.nonce <= ns[r.account]

JobsFit == job = [r \in PayRequest |-> job[r]]
           /\ \A r \in PayRequest : Fit(r, job[r], chain, nonces)

\* A request that has settled is a Withdraw whose handler is over.
SettledIsOver ==
    \A r \in PayRequest :
        payouts[r] = 0 \/ (payouts[r] = 1 /\ r.op = "withdraw" /\ job[r].pc \in Final)

\* Neither an event nor the cache has a later version of a deposit than the contract.
NotAhead ==
    /\ \A e \in events : e.ver <= chain[e.account].ver
    /\ \A a \in Account : cache[a] # None => cache[a].ver <= chain[Hex[a]].ver

\* The latest version of a deposit is on its way to the cache, or in it, unless it was
\* overwritten or the subscription is lost.
LatestHeld ==
    \A w \in Wallet :
        \/ ~sub
        \/ w \in late
        \/ chain[w].ver = 0
        \/ \E e \in events : e.account = w /\ e.ver = chain[w].ver
        \/ cache[w] # None /\ cache[w].ver = chain[w].ver

\* The types of everything but the goroutines.
StateType ==
    /\ StoreTypeOK
    /\ chain \in [Wallet -> ContractAccount]
    /\ events \subseteq Event
    /\ sub \in BOOLEAN
    /\ cache \in [Account -> Item \cup {None}]
    /\ payouts \in [PayRequest -> Nat]
    /\ paid \in [Wallet -> Nat] /\ deposited \in [Wallet -> Nat]
    /\ late \subseteq Account

PayInv == StateType /\ JobsFit /\ SettledIsOver /\ NotAhead /\ LatestHeld
-----------------------------------------------------------------------------
\* A wallet is an account in its checksummed spelling.
LEMMA Wallets ==
    /\ \A a \in Account : Hex[a] \in Wallet
    /\ \A w \in Wallet : w \in Account /\ Hex[w] = w
    BY PaymentAssumption DEF Wallet

\* The fields that a request has.
LEMMA RequestFields ==
    ASSUME NEW r \in PayRequest
    PROVE  /\ r.op \in {"withdraw", "addNode", "account", "check"}
           /\ r.op # "check" => r.account \in Account
           /\ r.op \in {"withdraw", "addNode"} => r.nonce \in Nat /\ r.signed \in BOOLEAN
           /\ r.op \in {"addNode", "check"} => r.node \in Node
    BY PaymentAssumption DEF PayRequestType

\* A later state of the contract and of the nonces fits what a goroutine holds.
LEMMA FitKept ==
    ASSUME NEW r \in PayRequest, NEW j,
           NEW c \in [Wallet -> ContractAccount], NEW d \in [Wallet -> ContractAccount],
           NEW m \in [ID -> Nat], NEW n \in [ID -> Nat],
           \A w \in Wallet : c[w].ver <= d[w].ver,
           \A id \in ID : m[id] <= n[id],
           Fit(r, j, c, m)
    PROVE  Fit(r, j, d, n)
<1>1. ASSUME j.pc = "fetched"
      PROVE  j.item.ver <= d[Hex[j.account]].ver
    <2> DEFINE w == Hex[j.account]
    <2>1. j.account \in Account /\ j.item \in Item
        BY <1>1 DEF Fit, Known, Job
    <2>2. w \in Wallet
        BY <2>1, Wallets
    <2>3. j.item.ver <= c[w].ver
        BY <1>1 DEF Fit
    <2>4. j.item.ver \in Nat /\ c[w].ver \in Nat /\ d[w].ver \in Nat
        BY <2>1, <2>2 DEF Item, ContractAccount
    <2>5. c[w].ver <= d[w].ver
        BY <2>2
    <2> HIDE DEF w
    <2>6. QED
        BY <2>3, <2>4, <2>5 DEF w
<1>2. ASSUME r.op = "withdraw", j.pc # "idle"
      PROVE  r.nonce <= n[r.account]
    <2>1. r.account \in ID /\ r.nonce \in Nat
        BY <1>2, RequestFields DEF ID
    <2>2. QED
        BY <1>2, <2>1 DEF Fit
<1>3. QED
    BY <1>1, <1>2 DEF Fit

\* A goroutine that takes a fitting step leaves the others as they are.
LEMMA BecomeFits ==
    ASSUME JobsFit, NEW r \in PayRequest, NEW j, Become(r, j), Fit(r, j, chain, nonces)
    PROVE  /\ job' = [q \in PayRequest |-> job'[q]]
           /\ job'[r] = j
           /\ \A q \in PayRequest : q # r => job'[q] = job[q]
           /\ \A q \in PayRequest : Fit(q, job'[q], chain, nonces)
<1>1. job' = [q \in PayRequest |-> IF q = r THEN j ELSE job[q]]
    BY DEF Become, JobsFit
<1>2. QED
    BY <1>1 DEF JobsFit

\* A step of one goroutine that changes nothing else, and does not restart a request
\* that has settled.
LEMMA JobStep ==
    ASSUME PayInv, NEW r \in PayRequest, NEW j, Become(r, j), Fit(r, j, chain, nonces),
           payouts[r] = 0 \/ j.pc \in Final,
           UNCHANGED <<storeVars, chainVars, sub, cacheVars, payouts, paid>>
    PROVE  PayInv'
<1>1. StateType'
    BY DEF PayInv, StateType, StoreTypeOK, storeVars, chainVars, cacheVars
<1>2. /\ job' = [q \in PayRequest |-> job'[q]]
      /\ job'[r] = j
      /\ \A q \in PayRequest : q # r => job'[q] = job[q]
      /\ \A q \in PayRequest : Fit(q, job'[q], chain, nonces)
    BY BecomeFits DEF PayInv
<1>3. chain' = chain /\ nonces' = nonces /\ payouts' = payouts
    BY DEF storeVars, chainVars
<1>4. JobsFit'
    BY <1>2, <1>3 DEF JobsFit
<1>5. SettledIsOver'
    BY <1>2, <1>3 DEF PayInv, SettledIsOver
<1>6. NotAhead' /\ LatestHeld'
    BY DEF PayInv, NotAhead, LatestHeld, chainVars, cacheVars
<1>7. QED
    BY <1>1, <1>4, <1>5, <1>6 DEF PayInv

\* What a goroutine is left with when its handler returns.
Over(pc) == [pc |-> pc, account |-> None, credit |-> 0, item |-> None]

LEMMA OverFits ==
    ASSUME NEW r \in PayRequest, NEW pc \in Final,
           r.op = "withdraw" => r.nonce <= nonces[r.account]
    PROVE  Fit(r, Over(pc), chain, nonces) /\ Over(pc).pc = pc
<1>1. Over(pc) \in Job /\ Over(pc).pc = pc
    BY DEF Over, Job, PC, Final
<1>2. QED
    BY <1>1 DEF Fit, Known, Final

\* The handler of a request that has begun returns.
LEMMA ReturnStep ==
    ASSUME PayInv, NEW r \in PayRequest, NEW pc \in Final, ~At(r, "idle"), Return(r, pc),
           UNCHANGED <<storeVars, chainVars, sub, cacheVars, payouts, paid>>
    PROVE  PayInv'
<1>1. Fit(r, Over(pc), chain, nonces) /\ Over(pc).pc = pc
    BY OverFits DEF PayInv, JobsFit, Fit, At
<1>2. Become(r, Over(pc))
    BY DEF Return, Over
<1>3. QED
    BY <1>1, <1>2, JobStep
-----------------------------------------------------------------------------
(* The steps of a handler *)

LEMMA AskStep ==
    ASSUME PayInv, NEW r \in PayRequest, Ask(r)
    PROVE  PayInv'
<1> DEFINE j == [job[r] EXCEPT !.pc = "verified"]
<1>1. Become(r, j)
    BY DEF Ask, Goto
<1>2. job[r] \in Job
    BY DEF PayInv, JobsFit, Fit
<1>3. j \in Job /\ j.pc = "verified"
    BY <1>2 DEF Job, PC
<1> HIDE DEF j
<1>4. Fit(r, j, chain, nonces)
    BY <1>3 DEF Fit, Known, Ask
<1>5. payouts[r] = 0
    BY DEF PayInv, SettledIsOver, Ask
<1>6. QED
    BY <1>1, <1>4, <1>5, JobStep DEF Ask

LEMMA GetCreditStep ==
    ASSUME PayInv, NEW r \in PayRequest, GetCredit(r)
    PROVE  PayInv'
<1> DEFINE b == StoreBalance(r)
           j == [pc |-> "credited", account |-> b.account, credit |-> b.credit,
                 item |-> None]
<1>1. UNCHANGED <<storeVars, chainVars, sub, cacheVars, payouts, paid>>
    BY DEF GetCredit
<1>2. CASE b.account = None
    BY <1>1, <1>2, ReturnStep DEF GetCredit, At, Final
<1>3. CASE b.account # None
    <2>1. b.account \in Account /\ b.credit \in Int
        <3>1. CASE r.op = "check"
            BY <1>3, <3>1, LookupType, RequestFields
               DEF PayInv, StateType, StoreBalance, Balance
        <3>2. CASE r.op # "check"
            BY <1>3, <3>2, LookupType, RequestFields
               DEF PayInv, StateType, StoreBalance, Balance
        <3>3. QED
            BY <3>1, <3>2
    <2>2. Become(r, j)
        BY <1>3 DEF GetCredit
    <2> HIDE DEF b
    <2>3. j \in Job /\ j.pc = "credited" /\ j.account \in Account
        BY <2>1 DEF Job, PC
    <2> HIDE DEF j
    <2>4. Fit(r, j, chain, nonces)
        BY <2>3 DEF Fit, Known, PayInv, JobsFit, GetCredit, At
    <2>5. payouts[r] = 0
        BY DEF PayInv, SettledIsOver, GetCredit, At, Final
    <2>6. QED
        BY <1>1, <2>2, <2>4, <2>5, JobStep
<1>4. QED
    BY <1>2, <1>3

\* Get returns a deposit to a Withdraw, or to another caller.
LEMMA GotDepositFits ==
    ASSUME PayInv, NEW r \in PayRequest, NEW item \in Item, GotDeposit(r, item),
           job[r].pc \in Known \ {"read"}
    PROVE  \E j : Become(r, j) /\ Fit(r, j, chain, nonces)
                 /\ j.pc \in {"read", "done"} /\ payouts[r] = 0
<1>1. payouts[r] = 0
    BY DEF PayInv, SettledIsOver, Known, Final
<1>2. Fit(r, job[r], chain, nonces)
    BY DEF PayInv, JobsFit
<1>3. CASE r.op = "withdraw"
    <2> DEFINE j == [job[r] EXCEPT !.pc = "read", !.item = item]
    <2>1. Become(r, j)
        BY <1>3 DEF GotDeposit
    <2>2. job[r] \in Job /\ job[r].account \in Account /\ r.nonce <= nonces[r.account]
        BY <1>2, <1>3 DEF Fit, Known
    <2>3. j \in Job /\ j.pc = "read" /\ j.item = item /\ j.account = job[r].account
        BY <2>2 DEF Job, PC
    <2> HIDE DEF j
    <2>4. Fit(r, j, chain, nonces)
        BY <1>3, <2>2, <2>3, ItemAssumption DEF Fit, Known
    <2>5. QED
        BY <1>1, <2>1, <2>3, <2>4
<1>4. CASE r.op # "withdraw"
    <2>1. Become(r, Over("done"))
        BY <1>4 DEF GotDeposit, Return, Over
    <2>2. Fit(r, Over("done"), chain, nonces) /\ Over("done").pc = "done"
        BY <1>4, OverFits DEF Final
    <2>3. QED
        BY <1>1, <2>1, <2>2
<1>5. QED
    BY <1>3, <1>4

LEMMA GetHitStep ==
    ASSUME PayInv, NEW r \in PayRequest, GetHit(r)
    PROVE  PayInv'
<1> DEFINE item == cache[job[r].account]
<1>1. job[r].account \in Account
    BY DEF PayInv, JobsFit, Fit, Known, GetHit, At
<1>2. item \in Item
    BY <1>1 DEF PayInv, StateType, GetHit
<1>3. GotDeposit(r, item) /\ job[r].pc \in Known \ {"read"}
    BY DEF GetHit, At, Known
<1> HIDE DEF item
<1>4. PICK j : Become(r, j) /\ Fit(r, j, chain, nonces)
               /\ j.pc \in {"read", "done"} /\ payouts[r] = 0
    BY <1>2, <1>3, GotDepositFits
<1>5. QED
    BY <1>4, JobStep DEF GetHit

LEMMA GetMissStep ==
    ASSUME PayInv, NEW r \in PayRequest, GetMiss(r)
    PROVE  PayInv'
<1> DEFINE j == [job[r] EXCEPT !.pc = "filling"]
<1>1. Become(r, j)
    BY DEF GetMiss, Goto
<1>2. Fit(r, job[r], chain, nonces) /\ job[r].pc = "credited"
    BY DEF PayInv, JobsFit, GetMiss, At
<1>3. j \in Job /\ j.pc = "filling" /\ j.account = job[r].account
    BY <1>2 DEF Job, PC, Fit
<1> HIDE DEF j
<1>4. Fit(r, j, chain, nonces)
    BY <1>2, <1>3 DEF Fit, Known
<1>5. payouts[r] = 0
    BY <1>2 DEF PayInv, SettledIsOver, Final
<1>6. QED
    BY <1>1, <1>4, <1>5, JobStep DEF GetMiss

LEMMA GetBalanceStep ==
    ASSUME PayInv, NEW r \in PayRequest, GetBalance(r)
    PROVE  PayInv'
<1> DEFINE c == chain[Hex[job[r].account]]
           item == [deposit |-> c.deposit, ver |-> c.ver]
           j == [job[r] EXCEPT !.pc = "fetched", !.item = item]
<1>1. UNCHANGED <<storeVars, chainVars, sub, cacheVars, payouts, paid>>
    BY DEF GetBalance
<1>2. CASE c.locked
    BY <1>1, <1>2, ReturnStep DEF GetBalance, At, Final
<1>3. CASE ~c.locked
    <2>1. Become(r, j)
        BY <1>3 DEF GetBalance
    <2>2. Fit(r, job[r], chain, nonces) /\ job[r].pc = "filling"
        BY DEF PayInv, JobsFit, GetBalance, At
    <2>3. job[r] \in Job /\ job[r].account \in Account
        BY <2>2 DEF Fit, Known
    <2>4. c \in ContractAccount
        BY <2>3, Wallets DEF PayInv, StateType
    <2>5. item \in Item /\ item.ver = c.ver /\ c.ver \in Nat
        BY <2>4 DEF ContractAccount, Item
    <2> HIDE DEF item
    <2>6. j \in Job /\ j.pc = "fetched" /\ j.item = item /\ j.account = job[r].account
        BY <2>3, <2>5 DEF Job, PC
    <2>7. j.item # None /\ j.item.ver <= chain[Hex[j.account]].ver
        BY <2>5, <2>6, ItemAssumption
    <2> HIDE DEF j
    <2>8. Fit(r, j, chain, nonces)
        BY <2>2, <2>3, <2>6, <2>7 DEF Fit
    <2>9. payouts[r] = 0
        BY <2>2 DEF PayInv, SettledIsOver, Final
    <2>10. QED
        BY <1>1, <2>1, <2>8, <2>9, JobStep
<1>4. QED
    BY <1>2, <1>3

\* The nonce of a request is above the saved one: its handler has not begun.
LEMMA verifyStep ==
    ASSUME PayInv, NEW r \in PayRequest, verify(r)
    PROVE  PayInv'
<1>1. r.account \in ID /\ r.account \in Account /\ r.nonce \in Nat
    BY RequestFields DEF verify, ID
<1>2. CheckAndSaveNonce(r.account, r.nonce)
    BY DEF verify
<1>3. nonces \in [ID -> Nat] /\ nonces' \in [ID -> Nat] /\ StoreTypeOK'
    BY <1>1, <1>2, CheckAndSaveNonceType DEF PayInv, StateType, StoreTypeOK
<1>4. nonces[r.account] < r.nonce /\ nonces'[r.account] = r.nonce
    BY <1>1, <1>2 DEF CheckAndSaveNonce, NonceValid, PayInv, StateType, StoreTypeOK
<1>5. \A id \in ID : nonces[id] <= nonces'[id]
    BY <1>1, <1>2, <1>3, <1>4 DEF CheckAndSaveNonce
<1>6. UNCHANGED <<chainVars, sub, cacheVars, payouts, paid>>
    BY DEF verify
<1>7. payouts[r] = 0
    <2>1. SUFFICES ASSUME r.op = "withdraw", job[r].pc \in Final
                   PROVE  FALSE
        BY DEF PayInv, SettledIsOver
    <2>2. r.nonce <= nonces[r.account]
        BY <2>1 DEF PayInv, JobsFit, Fit, Final
    <2>3. QED
        BY <1>1, <1>3, <1>4, <2>2
<1>8. StateType'
    BY <1>3, <1>6 DEF PayInv, StateType, chainVars, cacheVars
<1>9. chain \in [Wallet -> ContractAccount] /\ \A w \in Wallet : chain[w].ver <= chain[w].ver
    BY DEF PayInv, StateType, ContractAccount
<1>10. PICK j : Become(r, j) /\ Fit(r, j, chain, nonces')
    <2>1. CASE r.signed
        <3> DEFINE j == [job[r] EXCEPT !.pc = "verified"]
        <3>1. Become(r, j)
            BY <2>1 DEF verify, Goto
        <3>2. job[r] \in Job
            BY DEF PayInv, JobsFit, Fit
        <3>3. j \in Job /\ j.pc = "verified"
            BY <3>2 DEF Job, PC
        <3> HIDE DEF j
        <3>4. Fit(r, j, chain, nonces')
            BY <1>1, <1>4, <3>3 DEF Fit, Known
        <3>5. QED
            BY <3>1, <3>4
    <2>2. CASE ~r.signed
        <3>1. Become(r, Over("failed"))
            BY <2>2 DEF verify, Return, Over
        <3>2. Over("failed") \in Job /\ Over("failed").pc = "failed"
            BY DEF Over, Job, PC
        <3>3. Fit(r, Over("failed"), chain, nonces')
            BY <1>1, <1>4, <3>2 DEF Fit, Known
        <3>4. QED
            BY <3>1, <3>3
    <2>3. QED
        BY <2>1, <2>2
<1>11. job' = [q \in PayRequest |-> IF q = r THEN j ELSE job[q]]
    BY <1>10 DEF Become, PayInv, JobsFit
<1>12. \A q \in PayRequest : Fit(q, job[q], chain, nonces')
    BY <1>3, <1>5, <1>9, FitKept DEF PayInv, JobsFit
<1>13. JobsFit'
    BY <1>6, <1>10, <1>11, <1>12 DEF JobsFit, chainVars
<1>14. SettledIsOver'
    BY <1>6, <1>7, <1>11 DEF PayInv, SettledIsOver
<1>15. NotAhead' /\ LatestHeld'
    BY <1>6 DEF PayInv, NotAhead, LatestHeld, chainVars, cacheVars
<1>16. QED
    BY <1>8, <1>13, <1>14, <1>15 DEF PayInv

LEMMA AddNodeStep ==
    ASSUME PayInv, NEW r \in PayRequest, AddNode(r)
    PROVE  PayInv'
<1>1. r.account \in Account /\ r.node \in Node /\ AddAccountNode(r.account, r.node)
    BY RequestFields DEF AddNode
<1>2. StoreTypeOK' /\ nonces' = nonces
    BY <1>1, AddAccountNodeType, AddAccountNodeKeeps DEF PayInv, StateType
<1>3. UNCHANGED <<chainVars, sub, cacheVars, payouts, paid>>
    BY DEF AddNode
<1>4. StateType'
    BY <1>2, <1>3 DEF PayInv, StateType, chainVars, cacheVars
<1>5. Fit(r, Over("done"), chain, nonces) /\ Become(r, Over("done"))
    BY OverFits DEF AddNode, Return, Over, Final
<1>6. /\ job' = [q \in PayRequest |-> job'[q]]
      /\ \A q \in PayRequest : q # r => job'[q] = job[q]
      /\ \A q \in PayRequest : Fit(q, job'[q], chain, nonces)
    BY <1>5, BecomeFits DEF PayInv
<1>7. JobsFit'
    BY <1>2, <1>3, <1>6 DEF JobsFit, chainVars
<1>8. SettledIsOver'
    BY <1>3, <1>6 DEF PayInv, SettledIsOver, AddNode
<1>9. NotAhead' /\ LatestHeld'
    BY <1>3 DEF PayInv, NotAhead, LatestHeld, chainVars, cacheVars
<1>10. QED
    BY <1>4, <1>7, <1>8, <1>9 DEF PayInv

LEMMA EarnStep ==
    ASSUME PayInv, NEW n \in Node, Earn(n)
    PROVE  PayInv'
<1>1. StoreTypeOK' /\ nonces' = nonces
    BY AddNodeBalanceType, AddNodeBalanceKeeps DEF PayInv, StateType, Earn
<1>2. UNCHANGED payVars
    BY DEF Earn
<1>3. StateType' /\ JobsFit' /\ SettledIsOver'
    BY <1>1, <1>2 DEF PayInv, StateType, JobsFit, SettledIsOver, payVars
<1>4. NotAhead' /\ LatestHeld'
    BY <1>2 DEF PayInv, NotAhead, LatestHeld, payVars
<1>5. QED
    BY <1>3, <1>4 DEF PayInv
-----------------------------------------------------------------------------
(* The cache *)

\* A deposit that the contract has or had is cached, and at most the event that
\* brought it is consumed: unless it replaced a later one, the latest is still held.
LEMMA SetHolds ==
    ASSUME PayInv, NEW a \in Account, NEW item \in Item, item.ver <= chain[Hex[a]].ver,
           Set(a, item), UNCHANGED <<chain, sub>>, events' \subseteq events,
           \A e \in events : e \in events' \/ (e.account = a /\ e.ver = item.ver)
    PROVE  /\ cache' \in [Account -> Item \cup {None}] /\ late' \subseteq Account
           /\ NotAhead' /\ LatestHeld'
<1>1. /\ cache \in [Account -> Item \cup {None}]
      /\ cache' = [cache EXCEPT ![a] = item]
    BY DEF PayInv, StateType, Set
<1>2. cache' \in [Account -> Item \cup {None}] /\ cache'[a] = item /\ item # None
    BY <1>1, ItemAssumption
<1>3. \A b \in Account : b # a => cache'[b] = cache[b]
    BY <1>1
<1>4. /\ late' \subseteq Account
      /\ \A b \in Account : b # a => (b \in late' <=> b \in late)
    BY DEF PayInv, StateType, Set
<1>5. NotAhead'
    BY <1>2, <1>3 DEF PayInv, NotAhead
<1>6. ASSUME NEW w \in Wallet
      PROVE  \/ ~sub'
             \/ w \in late'
             \/ chain'[w].ver = 0
             \/ \E e \in events' : e.account = w /\ e.ver = chain'[w].ver
             \/ cache'[w] # None /\ cache'[w].ver = chain'[w].ver
    <2>1. w \in Account /\ Hex[w] = w /\ chain[w].ver \in Nat /\ item.ver \in Nat
        BY Wallets DEF PayInv, StateType, ContractAccount, Item
    <2>2. CASE w # a
        BY <1>3, <1>4, <2>1, <2>2 DEF PayInv, LatestHeld
    <2>3. CASE w = a /\ item.ver = chain[w].ver
        BY <1>2, <2>3
    <2>4. CASE w = a /\ item.ver # chain[w].ver
        <3>1. item.ver < chain[w].ver
            BY <2>1, <2>4
        <3>2. CASE cache[a] # None /\ item.ver < cache[a].ver
            BY <2>4, <3>2 DEF Set
        <3>3. CASE ~(cache[a] # None /\ item.ver < cache[a].ver)
            <4>1. late' = late
                BY <2>1, <2>4, <3>3 DEF Set
            <4>2. ~(cache[w] # None /\ cache[w].ver = chain[w].ver)
                BY <2>4, <3>1, <3>3
            <4>3. \A e \in events : e.ver = chain[w].ver => e \in events'
                BY <2>4
            <4>4. QED
                BY <4>1, <4>2, <4>3 DEF PayInv, LatestHeld
        <3>4. QED
            BY <3>2, <3>3
    <2>5. QED
        BY <2>2, <2>3, <2>4
<1>7. LatestHeld'
    BY <1>6 DEF LatestHeld
<1>8. QED
    BY <1>2, <1>4, <1>5, <1>7

LEMMA HandleEventStep ==
    ASSUME PayInv, NEW e \in events, HandleEvent(e)
    PROVE  PayInv'
<1> DEFINE item == [deposit |-> e.deposit, ver |-> e.ver]
<1>1. e \in Event
    BY DEF PayInv, StateType
<1>2. e.account \in Account /\ Hex[e.account] = e.account /\ e.account \in Wallet
    BY <1>1, Wallets DEF Event
<1>3. item \in Item /\ item.ver = e.ver
    BY <1>1 DEF Event, Item
<1>4. Set(e.account, item) /\ events' = events \ {e}
    BY DEF HandleEvent
<1> HIDE DEF item
<1>5. item.ver <= chain[Hex[e.account]].ver
    BY <1>2, <1>3 DEF PayInv, NotAhead
<1>6. UNCHANGED <<storeVars, chain, deposited, sub, job, payouts, paid>>
    BY DEF HandleEvent
<1>7. /\ cache' \in [Account -> Item \cup {None}] /\ late' \subseteq Account
      /\ NotAhead' /\ LatestHeld'
    <2>1. \A f \in events : f \in events' \/ (f.account = e.account /\ f.ver = item.ver)
        BY <1>3, <1>4
    <2>2. events' \subseteq events /\ UNCHANGED <<chain, sub>>
        BY <1>4, <1>6
    <2>3. QED
        BY <1>2, <1>3, <1>4, <1>5, <2>1, <2>2, SetHolds
<1>8. StateType'
    BY <1>4, <1>6, <1>7 DEF PayInv, StateType, StoreTypeOK, storeVars
<1>9. JobsFit' /\ SettledIsOver'
    BY <1>6 DEF PayInv, JobsFit, SettledIsOver, storeVars
<1>10. QED
    BY <1>7, <1>8, <1>9 DEF PayInv

LEMMA GetSetStep ==
    ASSUME PayInv, NEW r \in PayRequest, GetSet(r)
    PROVE  PayInv'
<1> DEFINE item == job[r].item
           a == job[r].account
<1>1. Fit(r, job[r], chain, nonces) /\ job[r].pc = "fetched"
    BY DEF PayInv, JobsFit, GetSet, At
<1>2. a \in Account /\ item \in Item /\ item.ver <= chain[Hex[a]].ver
    BY <1>1 DEF Fit, Job, Known
<1>3. Set(a, item) /\ GotDeposit(r, item)
    BY DEF GetSet
<1>4. UNCHANGED <<storeVars, chainVars, sub, payouts, paid>>
    BY DEF GetSet
<1> HIDE DEF item, a
<1>5. events' = events /\ UNCHANGED <<chain, sub>> /\ nonces' = nonces
    BY <1>4 DEF chainVars, storeVars
<1>6. /\ cache' \in [Account -> Item \cup {None}] /\ late' \subseteq Account
      /\ NotAhead' /\ LatestHeld'
    BY <1>2, <1>3, <1>5, SetHolds
<1>7. PICK j : Become(r, j) /\ Fit(r, j, chain, nonces)
               /\ j.pc \in {"read", "done"} /\ payouts[r] = 0
    BY <1>1, <1>2, <1>3, GotDepositFits DEF Known
<1>8. /\ job' = [q \in PayRequest |-> job'[q]]
      /\ \A q \in PayRequest : q # r => job'[q] = job[q]
      /\ \A q \in PayRequest : Fit(q, job'[q], chain, nonces)
    BY <1>7, BecomeFits DEF PayInv
<1>9. JobsFit'
    BY <1>5, <1>8 DEF JobsFit
<1>10. SettledIsOver'
    BY <1>4, <1>7, <1>8 DEF PayInv, SettledIsOver
<1>11. StateType'
    BY <1>4, <1>6 DEF PayInv, StateType, StoreTypeOK, storeVars, chainVars
<1>12. QED
    BY <1>6, <1>9, <1>10, <1>11 DEF PayInv

LEMMA EventLoopExitsStep ==
    ASSUME PayInv, EventLoopExits
    PROVE  PayInv'
<1>1. UNCHANGED <<storeVars, chain, deposited, cacheVars, job, payouts, paid>>
    BY DEF EventLoopExits
<1>2. events' \subseteq events /\ sub' = FALSE
    BY DEF EventLoopExits
<1>3. StateType'
    BY <1>1, <1>2 DEF PayInv, StateType, StoreTypeOK, storeVars, cacheVars
<1>4. JobsFit' /\ SettledIsOver'
    BY <1>1 DEF PayInv, JobsFit, SettledIsOver, storeVars
<1>5. NotAhead' /\ LatestHeld'
    BY <1>1, <1>2 DEF PayInv, NotAhead, LatestHeld, cacheVars
<1>6. QED
    BY <1>3, <1>4, <1>5 DEF PayInv
-----------------------------------------------------------------------------
(* The contract *)

\* The contract is a version further, and what was held of it is still behind; a
\* subscriber is on its way to learn of it.
LEMMA ChangedHolds ==
    ASSUME PayInv, NEW w \in Wallet, NEW deposit \in Nat, Changed(w, deposit),
           UNCHANGED <<sub, cacheVars>>
    PROVE  /\ chain' \in [Wallet -> ContractAccount]
           /\ \A v \in Wallet : chain[v].ver <= chain'[v].ver
           /\ events' \subseteq Event
           /\ NotAhead' /\ LatestHeld'
<1> DEFINE ver == chain[w].ver + 1
           e == [account |-> w, deposit |-> deposit, ver |-> ver]
<1>1. chain \in [Wallet -> ContractAccount] /\ events \subseteq Event
    BY DEF PayInv, StateType
<1>2. chain[w] \in ContractAccount /\ chain[w].ver \in Nat /\ ver \in Nat
    BY <1>1 DEF ContractAccount
<1>3. chain' = [chain EXCEPT ![w].deposit = deposit, ![w].ver = ver]
    BY DEF Changed
<1>4. events' = IF ~sub THEN events ELSE events \cup {e}
    BY DEF Changed
<1>5. chain[w].ver < ver
    BY <1>2
<1> HIDE DEF ver
<1>6. /\ chain' \in [Wallet -> ContractAccount]
      /\ chain'[w].ver = ver
      /\ \A v \in Wallet : v # w => chain'[v] = chain[v]
    BY <1>1, <1>2, <1>3 DEF ContractAccount
<1>7. e \in Event /\ e.account = w /\ e.ver = ver
    BY <1>2 DEF Event
<1> HIDE DEF e
<1>8. \A v \in Wallet : /\ chain[v].ver \in Nat /\ chain'[v].ver \in Nat
                         /\ chain[v].ver <= chain'[v].ver
    <2>1. TAKE v \in Wallet
    <2>2. CASE v = w
        BY <1>2, <1>5, <1>6, <2>2
    <2>3. CASE v # w
        BY <1>1, <1>6, <2>3 DEF ContractAccount
    <2>4. QED
        BY <2>2, <2>3
<1>9. events' \subseteq Event
    BY <1>1, <1>4, <1>7
<1>10. NotAhead'
    <2>1. ASSUME NEW f \in events'
          PROVE  f.ver <= chain'[f.account].ver
        <3>1. f \in Event /\ f.account \in Wallet /\ f.ver \in Nat
            BY <1>9 DEF Event
        <3>2. CASE f = e
            BY <1>2, <1>6, <1>7, <3>2
        <3>3. CASE f # e
            <4>1. f \in events
                BY <1>4, <3>3
            <4>2. f.ver <= chain[f.account].ver
                BY <4>1 DEF PayInv, NotAhead
            <4>3. QED
                BY <1>8, <3>1, <4>2
        <3>4. QED
            BY <3>2, <3>3
    <2>2. ASSUME NEW a \in Account, cache'[a] # None
          PROVE  cache'[a].ver <= chain'[Hex[a]].ver
        <3>1. cache' = cache /\ cache[a].ver \in Nat
            BY <2>2 DEF PayInv, StateType, cacheVars, Item
        <3>2. Hex[a] \in Wallet
            BY Wallets
        <3>3. cache[a].ver <= chain[Hex[a]].ver
            BY <2>2, <3>1 DEF PayInv, NotAhead
        <3>4. QED
            BY <1>8, <3>1, <3>2, <3>3
    <2>3. QED
        BY <2>1, <2>2 DEF NotAhead
<1>11. LatestHeld'
    BY <1>4, <1>6, <1>7 DEF PayInv, LatestHeld, cacheVars
<1>12. QED
    BY <1>6, <1>8, <1>9, <1>10, <1>11

LEMMA DepositStep ==
    ASSUME PayInv, NEW w \in Wallet, Deposit(w)
    PROVE  PayInv'
<1>1. chain[w].deposit + 1 \in Nat
    BY DEF PayInv, StateType, ContractAccount
<1>2. UNCHANGED <<storeVars, sub, cacheVars, job, payouts, paid>>
    BY DEF Deposit
<1>3. /\ chain' \in [Wallet -> ContractAccount]
      /\ \A v \in Wallet : chain[v].ver <= chain'[v].ver
      /\ events' \subseteq Event
      /\ NotAhead' /\ LatestHeld'
    BY <1>1, <1>2, ChangedHolds DEF Deposit
<1>4. deposited' \in [Wallet -> Nat]
    BY DEF PayInv, StateType, Deposit
<1>5. StateType'
    BY <1>2, <1>3, <1>4 DEF PayInv, StateType, StoreTypeOK, storeVars, cacheVars
<1>6. nonces \in [ID -> Nat] /\ \A id \in ID : nonces[id] <= nonces[id]
    BY DEF PayInv, StateType, StoreTypeOK
<1>7. \A r \in PayRequest : Fit(r, job[r], chain', nonces)
    BY <1>3, <1>6, FitKept DEF PayInv, JobsFit, StateType
<1>8. JobsFit' /\ SettledIsOver'
    BY <1>2, <1>7 DEF PayInv, JobsFit, SettledIsOver, storeVars
<1>9. QED
    BY <1>3, <1>5, <1>8 DEF PayInv

LEMMA TimeLockStep ==
    ASSUME PayInv, NEW w \in Wallet, TimeLock(w)
    PROVE  PayInv'
<1>1. UNCHANGED <<storeVars, events, deposited, sub, cacheVars, job, payouts, paid>>
    BY DEF TimeLock
<1>2. /\ chain' \in [Wallet -> ContractAccount]
      /\ \A v \in Wallet : chain'[v].ver = chain[v].ver
    BY DEF PayInv, StateType, TimeLock, ContractAccount
<1>3. \A v \in Wallet : chain[v].ver <= chain'[v].ver
    BY <1>2 DEF ContractAccount
<1>4. StateType'
    BY <1>1, <1>2 DEF PayInv, StateType, StoreTypeOK, storeVars, cacheVars
<1>5. nonces \in [ID -> Nat] /\ \A id \in ID : nonces[id] <= nonces[id]
    BY DEF PayInv, StateType, StoreTypeOK
<1>6. \A r \in PayRequest : Fit(r, job[r], chain', nonces)
    BY <1>2, <1>3, <1>5, FitKept DEF PayInv, JobsFit, StateType
<1>7. JobsFit' /\ SettledIsOver'
    BY <1>1, <1>6 DEF PayInv, JobsFit, SettledIsOver, storeVars
<1>8. NotAhead'
    <2>1. \A e \in events : e.account \in Wallet
        BY DEF PayInv, StateType, Event
    <2>2. QED
        BY <1>1, <1>2, <2>1, Wallets DEF PayInv, NotAhead, cacheVars
<1>9. LatestHeld'
    BY <1>1, <1>2 DEF PayInv, LatestHeld, cacheVars
<1>10. QED
    BY <1>4, <1>7, <1>8, <1>9 DEF PayInv

LEMMA SettleStep ==
    ASSUME PayInv, NEW r \in PayRequest, Settle(r)
    PROVE  PayInv'
<1> DEFINE w == Hex[job[r].account]
<1>1. Fit(r, job[r], chain, nonces) /\ job[r].pc = "read"
    BY DEF PayInv, JobsFit, Settle, Settling, At
<1>2. w \in Wallet /\ r.op = "withdraw" /\ Total(r) \in Int
    BY <1>1, Wallets DEF Fit, Known, Job, Item, Total
<1>3. UNCHANGED <<storeVars, deposited, sub, cacheVars>>
    BY DEF Settle
<1>4. /\ Changed(w, 0)
      /\ paid' = [paid EXCEPT ![w] = @ + Total(r) - Fee]
      /\ payouts' = [payouts EXCEPT ![r] = @ + 1]
    BY DEF Settle
<1> HIDE DEF w
<1>5. /\ chain' \in [Wallet -> ContractAccount]
      /\ \A v \in Wallet : chain[v].ver <= chain'[v].ver
      /\ events' \subseteq Event
      /\ NotAhead' /\ LatestHeld'
    BY <1>2, <1>3, <1>4, ChangedHolds
<1>6. paid' \in [Wallet -> Nat]
    <2>1. paid[w] \in Nat /\ WithdrawMin \in Nat /\ Fee \in Nat /\ Fee <= WithdrawMin
        BY <1>2, PaymentAssumption DEF PayInv, StateType
    <2>2. Total(r) >= WithdrawMin
        BY DEF Settle, Settling
    <2>3. paid[w] + Total(r) - Fee \in Nat
        BY <1>2, <2>1, <2>2
    <2>4. QED
        BY <1>2, <1>4, <2>3 DEF PayInv, StateType
<1>7. payouts[r] = 0
    BY <1>1 DEF PayInv, SettledIsOver, Final
<1>8. /\ payouts' \in [PayRequest -> Nat] /\ payouts'[r] = 1
      /\ \A q \in PayRequest : q # r => payouts'[q] = payouts[q]
    BY <1>4, <1>7 DEF PayInv, StateType
<1>9. StateType'
    BY <1>3, <1>5, <1>6, <1>8 DEF PayInv, StateType, StoreTypeOK, storeVars, cacheVars
<1>10. Fit(r, Over("done"), chain, nonces) /\ Over("done").pc = "done"
    BY <1>1, OverFits DEF Fit, Final
<1>11. Become(r, Over("done"))
    BY DEF Settle, Return, Over
<1>12. /\ job' = [q \in PayRequest |-> job'[q]]
       /\ job'[r] = Over("done")
       /\ \A q \in PayRequest : q # r => job'[q] = job[q]
       /\ \A q \in PayRequest : Fit(q, job'[q], chain, nonces)
    BY <1>10, <1>11, BecomeFits DEF PayInv
<1>13. nonces \in [ID -> Nat] /\ \A id \in ID : nonces[id] <= nonces[id]
    BY DEF PayInv, StateType, StoreTypeOK
<1>14. \A q \in PayRequest : Fit(q, job'[q], chain', nonces)
    BY <1>5, <1>12, <1>13, FitKept DEF PayInv, StateType
<1>15. JobsFit'
    BY <1>3, <1>12, <1>14 DEF JobsFit, storeVars
<1>16. SettledIsOver'
    <2>1. job'[r].pc \in Final
        BY <1>10, <1>12 DEF Final
    <2>2. QED
        BY <1>2, <1>8, <1>12, <2>1 DEF PayInv, SettledIsOver
<1>17. QED
    BY <1>5, <1>9, <1>15, <1>16 DEF PayInv
-----------------------------------------------------------------------------
LEMMA PaymentInitInv == PaymentInit => PayInv
<1> SUFFICES ASSUME PaymentInit PROVE PayInv
    OBVIOUS
<1> DEFINE e == [isHost |-> FALSE, kind |-> None, lastSeen |-> 0, peers |-> NoPeers]
           c == [deposit |-> 0, locked |-> FALSE, ver |-> 0]
           j == [pc |-> "idle", account |-> None, credit |-> 0, item |-> None]
<1>1. e \in MemNode
    BY DEF MemNode, NoPeers
<1>2. c \in ContractAccount /\ c.ver = 0
    BY DEF ContractAccount
<1>3. j \in Job /\ j.pc = "idle"
    BY DEF Job, PC
<1>4. /\ nodes = [n \in Node |-> e] /\ chain = [w \in Wallet |-> c]
      /\ job = [r \in PayRequest |-> j]
    BY DEF PaymentInit
<1> HIDE DEF e, c, j
<1>5. StoreTypeOK
    BY <1>1, <1>4 DEF PaymentInit, StoreTypeOK
<1>6. StateType
    BY <1>2, <1>4, <1>5 DEF PaymentInit, StateType
<1>7. JobsFit /\ SettledIsOver
    BY <1>3, <1>4 DEF PaymentInit, JobsFit, Fit, Known, SettledIsOver
<1>8. NotAhead /\ LatestHeld
    BY <1>2, <1>4 DEF PaymentInit, NotAhead, LatestHeld
<1>9. QED
    BY <1>6, <1>7, <1>8 DEF PayInv

LEMMA PaymentStep == PayInv /\ [PaymentNext]_vars => PayInv'
<1> SUFFICES ASSUME PayInv, [PaymentNext]_vars
             PROVE  PayInv'
    OBVIOUS
<1>1. ASSUME NEW w \in Wallet, Deposit(w) \/ TimeLock(w)
      PROVE  PayInv'
    BY <1>1, DepositStep, TimeLockStep
<1>2. ASSUME NEW n \in Node, Earn(n)
      PROVE  PayInv'
    BY <1>2, EarnStep
<1>3. ASSUME NEW e \in events, HandleEvent(e)
      PROVE  PayInv'
    BY <1>3, HandleEventStep
<1>4. CASE EventLoopExits
    BY <1>4, EventLoopExitsStep
<1>5. ASSUME NEW r \in PayRequest, verify(r) \/ Ask(r)
      PROVE  PayInv'
    BY <1>5, verifyStep, AskStep
<1>6. ASSUME NEW r \in PayRequest, AddNode(r) \/ GetCredit(r) \/ Settle(r)
      PROVE  PayInv'
    BY <1>6, AddNodeStep, GetCreditStep, SettleStep
<1>7. ASSUME NEW r \in PayRequest, GetHit(r) \/ GetMiss(r) \/ GetBalance(r) \/ GetSet(r)
      PROVE  PayInv'
    BY <1>7, GetHitStep, GetMissStep, GetBalanceStep, GetSetStep
<1>8. ASSUME NEW r \in PayRequest, GetBalanceFails(r) \/ BelowMinimum(r) \/ SettleFails(r)
      PROVE  PayInv'
    BY <1>8, ReturnStep DEF GetBalanceFails, BelowMinimum, SettleFails, Settling, At, Final
<1>9. CASE UNCHANGED vars
    <2>1. StateType' /\ JobsFit' /\ SettledIsOver'
        BY <1>9 DEF PayInv, StateType, StoreTypeOK, JobsFit, SettledIsOver,
                    vars, storeVars, payVars
    <2>2. NotAhead' /\ LatestHeld'
        BY <1>9 DEF PayInv, NotAhead, LatestHeld, vars, payVars
    <2>3. QED
        BY <2>1, <2>2 DEF PayInv
<1>10. QED
    BY <1>1, <1>2, <1>3, <1>4, <1>5, <1>6, <1>7, <1>8, <1>9
       DEF PaymentNext, PayStep, ContractAnswers

LEMMA PayInvHolds == PaymentSpec => []PayInv
    BY PaymentInitInv, PaymentStep, PTL DEF PaymentSpec

\* The store, the contract, the cache and every goroutine of the payment service hold
\* values of their types, and a handler that has looked the deposit up has one.
THEOREM PaymentTypeCorrect == PaymentSpec => []PaymentTypeOK
<1>1. PayInv => PaymentTypeOK
    BY DEF PayInv, StateType, JobsFit, Fit, PaymentTypeOK
<1>2. QED
    BY <1>1, PayInvHolds, PTL

\* Withdraw settles a signed request at most once: verify saves the nonce before the
\* handler goes on, so no delivery of a request that was served is verified again.
THEOREM OnePayoutPerRequestHolds == PaymentSpec => []OnePayoutPerRequest
<1>1. PayInv => OnePayoutPerRequest
    BY DEF PayInv, SettledIsOver, OnePayoutPerRequest
<1>2. QED
    BY <1>1, PayInvHolds, PTL

\* balanceCache is behind the contract only while a newer event is on its way, after an
\* older deposit was set over a newer one, or when SubscribeBalance has ended.
THEOREM StaleExplainedHolds == PaymentSpec => []StaleExplained
<1>1. ASSUME PayInv, NEW w \in Wallet, cache[w] # None, cache[w].ver < chain[w].ver
      PROVE  \/ \E e \in events : e.account = w /\ e.ver > cache[w].ver
             \/ w \in late
             \/ ~sub
    <2>1. w \in Account
        BY Wallets
    <2>2. cache[w].ver \in Nat /\ chain[w].ver \in Nat
        BY <1>1, <2>1 DEF PayInv, StateType, Item, ContractAccount
    <2>3. chain[w].ver # 0 /\ cache[w].ver # chain[w].ver
        BY <1>1, <2>2
    <2>4. QED
        BY <1>1, <2>2, <2>3 DEF PayInv, LatestHeld
<1>2. PayInv => StaleExplained
    BY <1>1 DEF StaleExplained
<1>3. QED
    BY <1>2, PayInvHolds, PTL
=============================================================================
