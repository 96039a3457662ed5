# vipnode in TLA+

vipnode lets Ethereum light clients pay full nodes for their service. A *pool*
keeps a table of nodes and their credit. *Agents*, companions of Ethereum
nodes, connect to the pool over a websocket: an agent of a full node is a
*host*, an agent of a light node a *client*. A client asks the pool for hosts;
the pool calls each candidate back over the host's own connection
(`vipnode_whitelist`) and returns those that accepted. Every minute each agent
reports its peers, and the pool moves credit from the client to the hosts it is
connected to.

This directory models the pool, its two stores, its billing, its payments and its
status, the bidirectional JSON-RPC connection below them, and the agent with the
program that runs and retries it. All paths are relative to `src/`.

## 1. Inventory

| component | state | operations | correct means |
|---|---|---|---|
| Pool service, `pool/service.go` | `remoteHosts`, `remoteNodeLookup` under `mu`; a goroutine per request | Connect, Host, Client, Update, Peer, CloseRemote | requests run once; remotes belong to whoever signed for them and go when their connection does; hosts that are returned have whitelisted the caller; every request is answered |
| Memory store, `pool/store/memory` | nodes with peers, accounts, trials, balances, nonces under `mu` | the `store.Store` interface | credit is neither lost nor duplicated when nodes are linked; silent peers expire; nonces grow |
| Badger store, `pool/store/badger` | the same in a transactional database, and a version | the same, and Migrate | the same promises, in spite of conflicts, expiring keys and crashes |
| Balance manager, `pool/balance` | settings only | OnClient, OnUpdate | what hosts get is what clients pay |
| JSON-RPC remote, `jsonrpc2/remote.go`, `pending.go`, `client.go` | `pending` under `mu` | Call, Serve | a request is handled at most once; a result comes from its handler; callers and Serve do not hang; `pending` is bounded |
| JSON-RPC server, codecs, HTTP, `jsonrpc2/` | registry of methods | Register, Handle | dispatch and encoding |
| Websocket server, `server.go` | – | ServeHTTP | runs Serve, then `onDisconnect` |
| Payment, `pool/payment` | balance cache; the contract's deposits | AddNode, Withdraw, Account, cache Get/Set/Reset | a balance is paid out once; the cache follows the chain |
| Status, `pool/status` | one cached response | Status | a response is not older than `CacheDuration` |
| Agent, `agent/agent.go` | `started`, `stopCh`, `waitCh` | Start, Stop, Wait, UpdatePeers, AddPeers, Whitelist | starts once, stops when told, replaces invalid peers |
| Command line, `main.go`, `agent.go`, `client.go`, `host.go`, `pool.go` | backoff index, the goroutines of a run | runs and retries | retries with growing delays; an interrupt ends it; a lost connection ends a run and not the program |
| Ethereum node RPC, `ethnode` | the node's peers and trusted peers | Connect, Disconnect, AddTrusted, RemoveTrusted, Peers | what the agent asked for is what the node does |
| Remote and static pool, `pool/` | a list of nodes | Update, Peer | – |
| Request signing, helpers | – | – | cryptography, formatting |

How they interact: `server.ServeHTTP` makes one `jsonrpc2.Remote` per websocket
and calls `VipnodePool.CloseRemote` when its `Serve` returns. `Serve` starts a
goroutine per request, so that the handlers of one connection and of different
connections all interleave; a handler finds its own connection in the context
and may keep it (`remoteHosts`) and call it later, from the handler of another
connection. Handlers share the store, whose methods each hold one lock; between
two store calls anything may happen. The balance manager makes several store
calls per update. Wallets reach the same store through the payment service.

What is hard here: handlers overlap and re-read or overwrite each other's store
entries; a connection ends while its handlers run; a host reconnects before the
pool noticed that it was gone; a whitelist call times out although the host
served it; requests are delivered twice or late; handlers on both ends of a
connection call each other; database transactions conflict; the process stops
in the middle of a migration; contract events overtake each other; an update of
the agent works on an answer that is older than what the pool asked for meanwhile;
two goroutines report the same loss with different errors. `PROJECT.json` lists each of these hazards at its
line.

## 2. Modules

| module | models |
|---|---|
| `Ledger` | abstract: what `AccountStore` and `BalanceStore` promise about credit |
| `MemoryStore` | the methods of `memoryStore`, as actions and state functions |
| `MemoryStoreSpec` | the store with arbitrary callers; its properties; the mapping to `Ledger` |
| `Pool` | `VipnodePool` with `payPerInterval`, `PaymentService.AddNode`, `CloseRemote`, on `MemoryStore` |
| `PoolProps` | the properties of `Pool` |
| `RPC` | abstract: what `Service.Call` promises |
| `Remote` | two `jsonrpc2.Remote`s and the wire between them; the mapping to `RPC` |
| `BadgerStore` | `badgerStore`: transactions, expiry, `Open` and `Migrate` |
| `BadgerProps` | its properties; the mapping to `Ledger` |
| `Payment` | `PaymentService`, `contractPayment` and `balanceCache`, on `MemoryStore`, with the contract as environment |
| `Agent` | `UpdatePeers`, `AddPeers`, `Whitelist`, over the calls of `ethnode` and a remote or static pool |
| `Runner` | the subcommands, the life cycle of `agent.Agent`, and the retry loop |
| `Status` | `PoolStatus.Status` |
| `Sums` | the sum of a function over a finite set, and the lemmas that the proofs about credit need |
| `MemoryStoreProofs`, `PoolProofs`, `RemoteProofs`, `BadgerProofs`, `PaymentProofs`, `AgentProofs`, `RunnerStatusProofs` | the theorems of section 4 |
| `MCStore`, `MCPoolBilling`, `MCPoolHosts`, `MCRemote`, `MCBadger`, `MCPayment`, `MCAgent`, `MCRunner`, `MCStatus` | instances for TLC |

**MemoryStore.** `nodes`, `accounts`, `trials`, `balances`, `nonces` are the
maps of `memoryStore`; an absent key is `None`. Each method holds `s.mu`
throughout, so each is one step. A method that returns an error changes
nothing: its error condition is the negation of its guard, and `Pool` has a
disjunct for it where the caller handles the error. Balances are integers of any
size (`big.Int`), times are clock ticks. `Tick` advances `now`.

**Pool.** `handler[r]` is the goroutine that serves request `r`: its program
counter and the locals that outlive a step. A step is the code between two
store calls or sections under `VipnodePool.mu`, e.g. an update is `Verify`,
`UpdateGetNode`, `UpdatePeers`, `UpdateActive`, `OnUpdate`, one `CreditPeer` per
host, `CheckMinBalance`, `Debit`. `Verify` can happen again at any time for a
request that was already served: that is redelivery, and only the nonce stands
against it. `Peer` needs no signature and can be repeated. `call` and `via`
hold the state of the whitelist calls of `requestHosts` and the connection each
went to; the host's agent serves them (`HostWhitelists`, `HostRefuses`), and they
may time out at any moment, served or not. `trusted` is what the hosts' Ethereum
nodes were told. `Disconnect` is the return of `Serve`, `CloseRemote` the
clean-up that follows as a step of its own. The error of a rejected connect
(wrong network, HTTP without a reverse service, bad URI) is `ConnectReject`.
A signature is taken to be valid; `Host` is `connect` with `full` set, as in the
code. `OnUpdate`'s refusal of a zero `Interval` or `CreditPerInterval` is
excluded by `PoolAssumption`. `disconnectPeers` calls a method that agents
do not register and only logs the outcome, so it is no step of its own.

**Remote.** `pc` is the goroutine in `Call`, `stage` where its request or
response is. A channel is identified by who created it: `getPendingChan` is called
by `receive` and by `Serve`, whichever is first, and after an eviction both may
create one for the same ID. `pending` is kept oldest first, which is the order
`pendingOldest` sorts into. `ServeEnds` is a failed read; nobody tells the callers.

**BadgerStore.** `db` maps keys to values, as the database does, and the code's
key prefixes are the first components of keys. The function that a method gives to
`db.Update` is an operator from a database to what it reads and writes (`setItem` is one
write, `Over` applies writes in order). `Begin` runs it on the database of that moment; `Commit` applies its writes, and
is only possible if no key that it read was written meanwhile, otherwise the
call fails with a conflict, which nobody retries. Several methods take a time that their caller read
earlier, so the `at` that `Timed` adds to a call may be behind the clock. Views are state functions.
Badger truncates the time at which an entry expires to its unit, `Second`, in clock ticks. `Crash` keeps what was
committed (`SyncWrites` is badger's default); `Open` refuses a newer version and
migrates an older one, step by step. The step to version 2 hands the key buffer of its iterator
to `txn.Delete`, which keeps the slice until the commit, while the iterator reuses the buffer once it meets more entries than it
prefetches (`Scanned`, `PrefetchSize`); then any of the entries it met may be deleted, or none
(`NukedNonces`). The databases to start from are those of any version with nonces, and without nodes, peers or balances:
the migration may delete entries of those, which the other properties are not about. Unlike the
memory store, `SetNode` keeps the peers of a node that connects again.

**Payment.** `chain` is the contract's entry of a wallet, with a version that counts its
changes; `events` are the goroutines that the event loop started, one per event, so
that they run in any order. `balanceCache.Get` is three steps: the lookup under the lock, the
call to the contract outside it, and the `Set`. `lastErr` is never assigned
(`contract.go:156-170`), so the fallback to `Reset` is never reached and is no action. A
cached deposit is used although the account was timelocked since. The nonce is
saved before the signature is checked, so that a forged request uses it up. An account
is a spelling of an address: the events have the checksummed one (`contract.go:142`),
requests the caller's, so the cached deposit of another spelling is never refreshed;
`StaleExplained` speaks of the checksummed one only. A withdrawal waits for two answers of the
contract, to `GetBalance` and to `OpSettle`, neither of which has a deadline: `ContractAnswers`
has both, apart from the steps that a handler makes alone (`PayStep`). The settlement is taken to act on the
state that its balance was read from.

**Agent.** `peers`, `wanted` and `trusted` are the Ethereum node's; on parity and
pantheon the calls for connections are overloaded on trusted peers (`overload`), and a
connection may outlive `DisconnectPeer`. `up` is the one goroutine in `UpdatePeers`,
with what it has read. The pool is the part of `VipnodePool` and its store that concerns this agent:
`known` is the peers that the store keeps for its node, as entries that are fresh or expired; `silent`
nodes report no more, and `lapsed` ones were last seen longer than `ExpireInterval` ago. `Update`
answers with every entry that it keeps, of hosts and of clients (`Fresh`), and those that it deletes (`Inactive`);
`Peer` with hosts that are not skipped and accept the whitelist call, more or fewer than
were asked for (`Available`). An error in the middle of an update is `CallFails`; `Restart`
stands for the program, which `Runner` details. Addresses matter only as far as `StrictPeers`
compares them, loopback ones being equal to each other.

**Runner.** One run has the main goroutine, the handler of interrupts, `Serve` and the update
loop. The steps of the last three relate a run to the next state of that run (`Goroutines`), so that they apply to the current
run and to `leftover`, an earlier one that returned before its loop did. Earlier runs
share nothing, so one of them, any one, stands for all; `strays` counts the requests that its loop has written
since. `UpdatePeers` is here where it waits: for the node's peers, for the answer to `Update`, for the node
while that is carried out, and the same for `Peer`. An error is
reduced to what the retry loop does with it. `started` of `agent.Agent` is never
set, so `ErrAlreadyStarted` cannot occur, and `Start` is called once per agent. A
malformed message makes `ReadMessage` return `io.EOF`, so `Serve` may return while
the connection is up. An interrupt that comes while an agent is being loaded, or at the
instant that a pause ends, is noticed at the next pause. After a run of `clearTimeout` or
more the pause is still the next one of the series, and the one after that is
`backoff[1]`: the first, 5 seconds, is never used again.

**Status.** The read lock is one step; the write lock is held from `Refresh` until the
response is stored. A response is its time and whether it carries an error.

## 3. Runs

Passing runs, with the distinct states of each where they matter for the time:

- `store` (`MCStore.cfg`): two nodes, two accounts, every store method in every
  order. Two accounts are needed to relink a node, two nodes to share an account
  and to be each other's peer; the clock may pass `ExpireInterval` twice; purses
  hold 0 to 2, enough for a trial to meet a non-empty account. Checks the type
  invariant, `NoStrandedTrial`, `SilentPeerDropped`, and that the store
  implements `Ledger`. Nodes are interchangeable (symmetry; all properties are
  safety properties).
- `pool_billing`: a client with two updates that may overlap, its host, and a
  wallet that links the host in between; every signed request may be redelivered.
  Two updates are the least at which `LastSeen` can be read twice; two ticks let
  both bill different intervals. `MinBalance` is -1: with it `OnClient` accepts the
  client, unless the updates that overlap its connect have billed it by then. `ZeroSum`: the total of all purses is always what
  the updates in flight have credited and not yet debited. `CreditCannotFail`: the error that
  `OnUpdate` ignores cannot occur. `NoReplay`.
- `pool_hosts`: a host that connects over `c1`, reconnects over `c2`, and asks for
  peers itself, while a client asks for hosts (over `c2` as well, which the pool does not
  mind: a third connection would only multiply states) and connections end.
  `RemoteAuthenticated`, `RemoteCanBeClosed`, `ReturnedHostTrusts`, and, under
  fairness, `RequestsAnswered`.
- `remote`: the agent's call is served by a handler that calls back, whose
  handler calls once more, while the pool makes a call of its own; the pool's end has
  a `PendingLimit` of one, so that its two calls evict each other, and its
  calls have deadlines, as in the code. `PendingBounded`, `Remote` implements `RPC`, and,
  under fairness, `CallsReturn` and `ServeGoesOn`.
- `badger` (482,000 states): databases of every version, with a crash at any
  moment; two callers, the least at which transactions conflict, and every writing method,
  with both roles for one node. `Serializable`: a transaction that can commit
  would do the same if it ran only now, so that no update is lost. `LedgerSpec`: the
  store implements the ledger that the memory store does. `NonceHighest`: a nonce is only
  saved above the last one saved for its ID, forgotten or not, except after a nonce that was ahead of the
  clock and for a check that was stale when its transaction began. `NoncesExpire`: a database that `Open` accepts comes to
  hold a nonce for good only by migrating more entries than the iterator prefetches; a
  `PrefetchSize` of 2 makes both cases happen. `SilentPeerDropped`: reports do not
  keep a silent peer, although they overlap its own calls. `ViewsAgree`: balances, trials
  and links, which are separate keys, agree. Callers are interchangeable (symmetry; safety only).
- `payment` (140,000 states): a wallet under two spellings and its node; a signed and a
  forged withdrawal, a link, a query and a balance check of the pool, each delivered any
  number of times, one deposit and one unit of earnings, a time lock, and a
  subscription that may be lost. `OnePayoutPerRequest`, `StaleExplained` (the only
  reasons for which a cached deposit is out of date), `HitsNotBlocked` (a request whose deposit is cached
  gets its answer, or as far as settling, while the contract leaves other calls unanswered).
- `agent` (1,280,000 states): two hosts, one on a loopback address, a client and a stranger;
  strict or not, overloaded calls or not, a remote or a static pool; `NumHosts` below and above the
  number of hosts (static pools strict and not overloaded, and these two with the larger `NumHosts` only, to save
  states); two faults (failed calls, refusals, lost peers, silent nodes).
  `UpdateCleans`, `ConfirmedKept`, `WhitelistKept`, and, under fairness, `HostsMaintained`: the agent gets
  the hosts that it is short of, where clients among its peers count as hosts: section 5.
- `runner` (450,000 states): every subcommand over every transport, six tries, one more
  than there are pauses, and an interrupt, which may be missed.
  `RunnerTypeOK` (the index of the
  pause stays in range), `OneWorkingLoop` (a loop that outlives its run writes at most one more request),
  `InterruptEnds` (unless an update never returns), `LossNoticed`.
- `status` (64,000 states): three callers, of which one refreshes, one waits and
  one comes later; the cache expires once. `FreshEnough`, `RefreshRate`, `CallsReturn`.

Deadlock is not checked where the system may stop: in the pool, remote and payment
runs a finite set of requests is served, and then nothing is left to do; a
database of a newer release cannot be opened; the program exits. The memory
store, the agent and the status never deadlock, which is checked.

Three more runs show a departure from what the repository says: section 5.

Bounds: `MaxTime` (the clock), `MaxCredit` (a purse, in the store runs), `MaxDeposit`
and `MaxEarned`, `MaxFaults`, `MaxTries`, `MaxInterrupts`, and the
finite sets of requests and calls. Handlers, nonces and peers are bounded by
those sets. `PrefetchSize` (100 in badger) and `Second` are parameters of the code, with small values in the run.

Fairness: `FairSpec` has weak fairness on the steps of each handler. The Go
scheduler runs every goroutine that is ready, store calls return, and a whitelist call
that nobody answers is ended by `poolWhitelistTimeout`, a step of the handler that is
enabled whatever the host does. No fairness is assumed of the network, the
clock, connections or hosts. `RemoteFairSpec` has weak fairness on each
caller, on `Serve` of each end, and on handlers; a deadline counts as a step of the
caller only for calls that have one. That `Serve` eventually reads what was written is the
assumption that the connection delivers while it lasts; `CallsReturn` says nothing once
either `Serve` has returned, and indeed a call without a deadline then waits
forever. `PaymentFairSpec` has weak fairness on the steps of a handler that need nobody
else, and none on the contract's answers, neither to `GetBalance` nor to `OpSettle`: that is the point of `HitsNotBlocked`.
`AgentSpec`: the ticker ticks and calls return, with an answer or an error, the node dials those it was told to,
and time passes, so that entries which nobody renews expire; calls may fail, and hosts may refuse, as long as `MaxFaults` allows.
`RunnerSpec`: goroutines are scheduled, `Start` has a deadline, a broken connection is noticed by the read in
`Serve`, and, strongly, a `select`
that again and again finds both the ticker and `stopCh` ready takes the latter at
some time. Nothing is assumed of an update: neither the node nor the pool has to answer. `StatusSpec` has strong fairness on each caller, since a waiting writer of
a `sync.RWMutex` gets its turn, and store and contract calls return.

Every property has a mutant in `PROJECT.json`: a definition next to the one it
replaces, with the slip it makes in its comment, under which TLC finds the property violated.

## 4. Proofs

The theorems hold for all sets of nodes, accounts, requests, connections, callers and calls,
all limits and intervals, under the assumptions named in the modules:

- the sets of nodes, accounts and requests are finite where credit is summed over them;
- constants have their types (`StoreAssumption`, `CallerAssumption`, `PoolAssumption`,
  `RemoteAssumption`, `BadgerAssumption`, and those of `Payment`, `Agent`, `Runner` and
  `Status`); nodes and wallets have different IDs, and a client request does not claim to
  be a full node;
- the mark for something absent is not one of the values that may be there
  (`NoneAssumption`, `ItemAssumption`, `AbsentAssumption`, `NilAssumption`). In Go this is
  a nil pointer, a missing key or an empty string.

TLC evaluates all of them in the runs.

**Sums.** The library's theorems on induction over finite sets cannot be used here, since they take an
operator. `Sums` defines the sum of a function, not of an operator, and argues by the smallest
counterexample: the subsets for which a statement fails, if any, have a minimal one, as the strict
subset order of a finite set is well founded, and taking one element out of it gives a contradiction. So
`Sum` does not depend on the order in which elements are taken (`SumStep`), and the rest follows: what changing
one value does to a sum (`SumChange`), and how sums split and are mapped. The properties use `MapThenSumSet` of
the community modules; `PoolProofs` and `BadgerProofs` unfold it to `Sum` first.

**Memory store, pool and remote**

- `StoreTypeCorrect`, `PoolTypeCorrect`, `RemoteTypeCorrect`: one lemma per store
  method, used by the store, the pool and the payment service.
- `NoStrandedTrialHolds`: inductive with the type invariant.
- `StoreImplementsLedger`: each store step is a `Grant`, a `Link` or a stutter of
  `Ledger`, under the type invariant. The purse of a node is its trial, that of an account
  its balance; an absent key counts as zero, as a Go map has it.
- `SilentPeerDroppedHolds`: not inductive, because nothing in it says that a
  peer's kept time is not newer than the peer's own `LastSeen`. `PeerTimes` adds that, and that times
  are not in the future.
- `NoReplayHolds`: from `NonceSaved`, that the nonce of a request whose handler
  began is not above the nonce stored for its signer; stored nonces only grow.
- `RemoteAuthenticatedHolds`, `RemoteCanBeClosedHolds`, `CreditCannotFailHolds`: inductive
  with the type invariant (the second one also uses the first). `StepKeeps` first reduces every handler step to what it may change
  (`StepEffect`: one handler moves, nobody is unregistered, remotes change only in `ConnectRemote`),
  and `StepLocals` what it does to the locals, so that the invariants are argued from these
  effects and not action by action.
- `ReturnedHostTrustsHolds`: `CallsJustified` says of every whitelist call, in each of its
  states, that its connection was entered for that host, that it is not to a skipped
  node, and that a served call left its mark in `trusted`.
- `ZeroSumHolds`: `BillInv` adds to the equation that no handler has a time that is still to come, so that
  no credit is negative, that the peers left to credit are among those that will be charged for, and
  that none is left when the client is debited. Then each of the store's effects on the purses is
  a lemma of its own (`GrantMoves`: one purse grows by the amount; `LinkMoves`: the total stays;
  `PursesStay`), and each step of a handler moves the purses by as much as its own claim
  (`StepBills`). The hypothesis, `NoPositiveMinimum`, is that `MinBalance` is not set, the default, or is at
  most zero, as for pools that let clients owe. It cannot be dropped: section 5.
- `NoCreditLostHolds` has no such hypothesis: with any `MinBalance` the purses hold at least what
  the updates in flight account for. The early return of `OnUpdate` errs on one side only.
- `PendingBoundedHolds`: the bound with the type invariant, and that `CleanPending`
  shortens a sequence that is at its limit.
- `ResponseFindsCallerHolds`: `receive` and `Serve` race to create the channel of a call.
  `ChannelOf` says that before the race there is none, and afterwards one, which
  everyone who asked for it holds. It is about ends that discard nothing from `r.pending`, as those
  of agents; where there is a limit, an evicted call may wait on a channel that no response comes to, and
  only its deadline ends it (TLC finds the state when the hypothesis is dropped).
- `RemoteImplementsRPC`: from `CallStages`, which relates what the caller is at to
  where its request or response is: a response that can be received has a finished handler,
  and a request is only on the wire after its caller wrote it.

**Badger store.** `BadgerInv` is inductive. Beside types it says, in `GoodTxn`, that the
function of every open transaction which nobody has overwritten would succeed on the
committed database and read and write what it did (reads as well as writes, since it is the
reads that decide about the next conflict), and in `MigrateGood` that a running
migration works on a database of nonces and a version only (`Bare`), and leaves a nonce for good only if the iterator meets more than it prefetches.

- `SerializableHolds` follows. The argument is `BodyReads`: each of the six functions gives the
  same result on two databases that agree on the keys that it read. This is exactly what a read
  outside the transaction would break.
- `BadgerImplementsLedger`: by `BodyWrites`, what a commit writes is what its function would
  write now, and this is a `Grant`, a `Link` or nothing of the ledger (`CommitLedger`).
- `NonceHighestHolds`: the nonce that the function compared with is still the one that is held
  when it commits (`NonceAccepted`). If it has expired by then, the new nonce passed the check
  against the clock, and so is above it unless that nonce was ahead of the clock or the check was
  stale. `NoncesExpireHolds`: the step to version 2 removes the nonces if the iterator prefetches all it meets
  (`migrationsGood`; a migration changes nothing that `Scanned` depends on before that step, `ScannedSame`), and
  `CheckAndSaveNonce` never saves one for good when `ExpireNonce` is positive (`CommitNonces`).
- `SilentPeerDroppedCommitted`: a reported peer is kept with its own `LastSeen`, which the
  transaction read, so that it is still its `LastSeen` at the commit.
- `LinksFitHolds`: a linked node has no trial, and its account has a balance that names it.
  It is inductive with `BadgerInv` only: a credit that was begun before a link would
  otherwise leave a trial behind.
- `ViewsAgreeHolds`: three of its four parts follow from `LinksFit`. The fourth, `CreditAgrees`,
  compares two sums, what `Stats` adds up over the keys of the database, and what `GetAccountBalance`
  shows of each account and `GetNodeBalance` of each node without one; by `LinksFit` each trial and each balance occurs in
  exactly one term of either (`SumUnion`, `SumSupport`, `SumImage`).

**Payment.** `PayInv` is inductive. Beside types it has, in `JobsFit`, what each handler holds at each
step: among others that the nonce of a request which got past its verification is not above
the nonce that is stored, so that no later delivery does.

- `OnePayoutPerRequestHolds`: from `SettledIsOver`, a request that was paid is a withdrawal whose
  handler is over; by the nonces, it does not begin again.
- `StaleExplainedHolds`: not inductive, since nothing in it says where the newest deposit is.
  `LatestHeld` does: in an event on its way, or in the cache, unless an older one was set after it or
  the subscription is lost. `NotAhead`, that nothing is newer than the contract, makes a version
  that differs an older one.

**Agent.** `AgentInv` is inductive.

- `UpdateCleansHolds`: from `Dealt`, that while no call failed every peer to be dropped was told to go, is
  being told, or is still in the list.
- `ConfirmedKeptHolds` and `WhitelistKeptHolds`: from `StrictPlan`, that with `StrictPeers` an update
  drops only peers that were connected when it began and are not confirmed. A newcomer that is
  whitelisted meanwhile is not among them. `MatchesConfirmed` shows that the code's comparison of addresses
  comes to the same as the definition of a confirmed peer in the properties.

**Runner and status.** `RunnerInv` and `StatusInv` are inductive.

- `OneWorkingLoopHolds`: from `RunStages`, that outside of a run nothing of it is left and that there is no
  update loop before `Start` has returned; so a run that returns has seen its loop end, or
  its `Serve`. `LeftWaiting` then says of the run that was left that its `Serve` has returned, and that a loop of it which
  wrote a request waits for the answer or has ended; `GoroutinesStep` shows that no step of its goroutines changes that,
  whether the connection is up or not. `RunnerTypeCorrect` includes the bound of the index of the pause, for any number of tries.
- `FreshEnoughHolds`: from `Filling`, that whoever holds the lock fills in a response that is no older than
  his call, and `Waiting`, that what replaces the cache while a call waits is no older than that call.
- `RefreshRateHolds`: from `LastCached`, that while nobody refreshes, the cache is what was last
  fetched; otherwise the time of the last refresh would not be the one that is compared.

Only model-checked:

- the liveness properties `RequestsAnswered`, `ServeGoesOn`, `CallsReturn` (of `Remote` and of
  `Status`), `HitsNotBlocked`, `HostsMaintained`, `InterruptEnds` and `LossNoticed`, which are out
  of the prover's reach;
- the counterexamples of section 5.

## 5. Departures

Runs in which TLC finds a statement of the repository violated:

- `pool_stale_close`: closing the old connection of a host drops its new remote
  (`pool/service.go:77`).
- `payment_withdraw_twice`: `Withdraw` pays the credit in the store and leaves it there,
  so the next one pays it again (`pool/payment/service.go:131`).
- `runner_lost_connection`: on a lost connection, `Serve` returns `io.EOF`, which is retried,
  and the update loop of a started agent fails with an `AgentPoolError`, which is not. TLC's trace has both on
  `errChan`, and `Run` returns the latter: the program exits (`agent.go:287`).

Met while modelling, and kept in the model as the code has them:

- A peer that is not reported any more is kept until it expires
  (`memory.go:296`); the comment at `store.go:154` says that it is removed.
- `OnUpdate` compares `MinBalance` with the charge of the update, not with the
  balance, after the hosts were credited (`perinterval.go:91-95`): a low charge makes
  the update fail with the credit granted, and a node below the minimum passes. With a
  positive minimum `ZeroSum` therefore fails; credit is left over, and none is lost (`NoCreditLostHolds`).
- Two overlapping updates read the same `LastSeen` and bill the same time twice
  (`service.go:147`).
- A connect that outlives its connection registers a remote that is never removed
  (`service.go:330`).
- `requestHosts` asks for more hosts than it may return, to make up for those that it
  skips, and does not truncate (`service.go:397`).
- With the badger store, the credit of a host may fail with a conflict; `OnUpdate` drops
  the error and charges the client all the same (`perinterval.go:87`).
- A static pool reports all its nodes as active, connected or not: if they are as many as
  `NumHosts` it is never asked for them and nothing is connected. `Goal` of `Agent` allows for it.
- Without `StrictPeers`, an answer of the pool that is older than a concurrent `Whitelist` may
  revoke it; `WhitelistKept` is about strict agents.
- `client` with a static pool registers no handler for interrupts, while the retry loop has
  captured them: ctrl-C is ignored (`client.go:57`).
- The goroutines and the connection of a run are not ended when `Run` returns. After a malformed message
  (`codec.go:27-35` makes `io.EOF` of it) the connection is still up: the loop that is left
  ticks on, calls the node, and writes one more request, which the pool carries out, beside those of the
  new run. Nobody hands it the answer, so there it waits for good. `OneWorkingLoop` bounds it by that one request.
- `Stop` waits for the update loop (`client.go:124` has a TODO), whose calls have no deadline
  (`agent/agent.go:179` passes `context.Background()`, `http.go:73-101` sets no timeout): a pool or a node that hangs
  keeps an interrupted agent running. `InterruptEnds` excepts it.
- A withdrawal waits for `OpSettle` without a deadline (`payment/service.go:131`, `contract.go:202`).
- `versions.go:28-29` passes the iterator's key, not a copy of it, to `txn.Delete`, and drops its error
  (`ErrTxnTooBig`), under the comment "so we just nuke the table". On a large database nonces without a time
  to live survive at version 2, and entries of peers or trials may be deleted in their place.
- A nonce is only checked against the clock from below (`badger.go:54`, `memory.go:52`), while
  `store.go:18-20` has it "within 15 minutes of now" and `store.go:133` asks for the "highest nonce
  seen". With the badger store a nonce that was ahead of the clock when it was saved is
  forgotten while it still passes that check, and so is accepted again. The same holds within the second that badger
  truncates, and for a check that was made before the transaction began; `NonceHighest`
  names these exceptions. With the memory store nonces are kept for good.
- `Update` answers with all peers that the pool knows, clients too (`service.go:172`), and the agent counts
  them (`agent/agent.go:286`), although `NumHosts` is "the minimum number of vipnode hosts" (`agent/agent.go:60-62`): an agent whose peers
  are clients asks for no hosts. Without the exception in `Goal`, TLC finds `HostsMaintained` violated.
- With `StrictPeers` the list of peers to drop is not a superset of the pool's, as `agent/agent.go:250` says: an
  inactive peer that is not connected is on the pool's only.
- A failed `GetTotalDeposit` returns no response, and nil is cached (`status.go:113`):
  every later call refreshes, against the comment on an "error-based DoS", and a caller
  that waited gets neither a response nor an error, which the health check takes for healthy.

## 6. Not modelled

- `big.Int` values that are copied share their digits. A balance returned by
  the memory store can be read while another call writes the same array; the
  model has numbers.
- Encoding (JSON, gob), reflection, signatures, URIs, flags, logging. IDs of calls do not
  wrap around.
- The contract beyond deposits, the time lock and settlement; how Ethereum nodes find and
  keep peers; detection of the kind of a node.
- `runPool`, which only connects the parts; `RemotePool`, which signs and sends.
- A negative `PeerRequest.Num`, which panics in the memory store (`memory.go:218`); `num` is a natural number in `Pool`.
- Deposits in `OnClient` of `Pool`: the memory store has none, and only `contractPayment`, in `Payment`, adds them.
- `MemoryStoreSpec` has `SetNode` stamp a node with the time of the call, while `service.go:304` reads the clock before
  `service.go:335` stores it. `Pool` keeps the two steps apart. A delay of `ExpireInterval` between them would
  break `SilentPeerDropped` of the memory store.
- A second response to one call: `Serve` would block on its channel (`remote.go:129`). Each
  end of `Remote` answers a request at most once, as this code does.
- Databases of earlier releases that hold nodes, peers or balances; see `BadgerStore` in section 2.
- `Pool` runs on the memory store. Over the badger store every store call of a handler may
  also fail, as `BadgerStore` shows; the handlers return such errors, except for the one
  that `OnUpdate` drops.

## 7. Plan

Every invariant and every safety property of an action that a passing run checks is proved, and so are
the refinements. What is left:

1. That `CleanPending` evicts the oldest calls, for every limit, beside the bound on `pending`.
2. `Pool` over the badger store: that a failed store call leaves the claims of a bill as they are,
   except for the credit whose error `OnUpdate` drops.
