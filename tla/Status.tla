------------------------------- MODULE Status -------------------------------
(***************************************************************************)
(* pool/status: PoolStatus.Status, the cached answer to unauthenticated    *)
(* callers.                                                                *)
(*                                                                         *)
(* s.mu is held for reading while the cached pointer is copied, which is   *)
(* one step, and for writing throughout getStatus, which takes time: the   *)
(* store, the contract and the store again are asked.  Responses that      *)
(* differ have different TimeUpdated.                                      *)
(***************************************************************************)
EXTENDS Integers

CONSTANTS Caller,         \* the goroutines that call Status
          CacheDuration,  \* PoolStatus.CacheDuration, in clock ticks
          None,           \* nil
          MaxTime         \* bound: the clock stops here

ASSUME StatusAssumption ==
    None \notin Caller /\ CacheDuration \in Nat \ {0} /\ MaxTime \in Nat

VARIABLES now,         \* time.Now()
          mu,          \* the caller that holds s.mu for writing
          cachedResp,  \* s.cachedResp
          call,        \* the calls
          last         \* history: when getStatus was last called, and whether it
                       \* left anything to cache

statusVars == <<now, mu, cachedResp, call, last>>

\* failed: Error is set in the response.
Response == [updated : 0 .. MaxTime, failed : BOOLEAN]
Refreshing == [at : 0 .. MaxTime, dropped : BOOLEAN]

\* nil is no response.
ASSUME NilAssumption == None \notin Response \cup Refreshing

\* seen: the local cachedResp; began: history, when the call began.
Call ==
    [pc : {"idle", "missed", "stats", "deposit", "hosts", "returned"}, began : 0 .. MaxTime,
     seen : Response \cup {None}, fill : Response \cup {None},
     resp : Response \cup {None}, err : BOOLEAN]

StatusTypeOK ==
    /\ now \in 0 .. MaxTime
    /\ mu \in Caller \cup {None}
    /\ cachedResp \in Response \cup {None}
    /\ call \in [Caller -> Call]
    /\ \A c \in Caller : mu = c <=> call[c].pc \in {"stats", "deposit", "hosts"}
    /\ last \in Refreshing \cup {None}

Idle == [pc |-> "idle", began |-> 0, seen |-> None, fill |-> None, resp |-> None, err |-> FALSE]

StatusInit ==
    /\ now = 0 /\ mu = None /\ cachedResp = None
    /\ call = [c \in Caller |-> Idle]
    /\ last = None

Become(c, r) == call' = [call EXCEPT ![c] = r]

Return(c, resp, err) ==
    Become(c, [call[c] EXCEPT !.pc = "returned", !.seen = None, !.fill = None,
                              !.resp = resp, !.err = err])

Tick ==
    /\ now < MaxTime
    /\ now' = now + 1
    /\ UNCHANGED <<mu, cachedResp, call, last>>
-----------------------------------------------------------------------------
(* Status *)

Valid(resp) == resp # None /\ resp.updated + CacheDuration > now

\* The read lock is free: the cache is valid, or the call goes on to refresh it.
CheckCache(c) ==
    /\ call[c].pc = "idle" /\ mu = None
    /\ IF Valid(cachedResp)
       THEN Become(c, [Idle EXCEPT !.pc = "returned", !.began = now, !.resp = cachedResp])
       ELSE Become(c, [Idle EXCEPT !.pc = "missed", !.began = now, !.seen = cachedResp])
    /\ UNCHANGED <<now, mu, cachedResp, last>>

\* Mutant: whatever is cached now is returned.
BeatenByAny(c) == cachedResp # None

\* "Did another request beat us to it?"  The pointers are compared.
Beaten(c) == cachedResp # call[c].seen

TakeCached(c) ==
    /\ call[c].pc = "missed" /\ mu = None /\ Beaten(c)
    /\ Return(c, cachedResp, FALSE)
    /\ UNCHANGED <<now, mu, cachedResp, last>>

\* getStatus begins, with the write lock held.
Refresh(c) ==
    /\ call[c].pc = "missed" /\ mu = None /\ ~Beaten(c)
    /\ mu' = c
    /\ last' = [at |-> now, dropped |-> FALSE]
    /\ Become(c, [call[c] EXCEPT !.pc = "stats",
                     !.fill = [updated |-> now, failed |-> FALSE]])
    /\ UNCHANGED <<now, cachedResp>>

\* Mutant: an error leaves the cache as it is.
CacheUnlessError(resp, err) == cachedResp' = IF err THEN cachedResp ELSE resp

\* "We save the status even if there is an error".
Cache(resp, err) == cachedResp' = resp

\* Mutant: the lock is only released when there is no error.
UnlockUnlessError(err) == mu' = IF err THEN mu ELSE None

Unlock(err) == mu' = None

\* getStatus returns, the result is cached, and the lock released.
Refreshed(c, resp, err) ==
    /\ Cache(resp, err)
    /\ Unlock(err)
    /\ Return(c, resp, err)

\* Stats, or ActiveHosts and NodePeers: a store error is part of the response.
StoreFails(c) ==
    /\ call[c].pc \in {"stats", "hosts"}
    /\ Refreshed(c, [call[c].fill EXCEPT !.failed = TRUE], TRUE)
    /\ UNCHANGED <<now, last>>

Stats(c) ==
    /\ call[c].pc = "stats"
    /\ Become(c, [call[c] EXCEPT !.pc = "deposit"])
    /\ UNCHANGED <<now, mu, cachedResp, last>>

TotalDeposit(c) ==
    /\ call[c].pc = "deposit"
    /\ Become(c, [call[c] EXCEPT !.pc = "hosts"])
    /\ UNCHANGED <<now, mu, cachedResp, last>>

\* Mutant: getStatus starts over, with the lock held.
TotalDepositRetries(c) ==
    /\ call[c].pc = "deposit"
    /\ Become(c, [call[c] EXCEPT !.pc = "stats"])
    /\ UNCHANGED <<now, mu, cachedResp, last>>

\* GetTotalDeposit fails twice, or times out: there is no response at all.
TotalDepositFails(c) ==
    /\ call[c].pc = "deposit"
    /\ Refreshed(c, None, TRUE)
    /\ last' = [last EXCEPT !.dropped = TRUE]
    /\ UNCHANGED now

ActiveHosts(c) ==
    /\ call[c].pc = "hosts"
    /\ Refreshed(c, call[c].fill, FALSE)
    /\ UNCHANGED <<now, last>>

\* The goroutine serves another request.
Again(c) ==
    /\ call[c].pc = "returned"
    /\ Become(c, Idle)
    /\ UNCHANGED <<now, mu, cachedResp, last>>
-----------------------------------------------------------------------------
StatusStep(c) ==
    \/ CheckCache(c) \/ TakeCached(c) \/ Refresh(c) \/ StoreFails(c)
    \/ Stats(c) \/ TotalDeposit(c) \/ TotalDepositFails(c) \/ ActiveHosts(c)

StatusNext == Tick \/ \E c \in Caller : StatusStep(c) \/ Again(c)

\* Goroutines are scheduled, a waiting writer gets its turn, store calls return and
\* GetTotalDeposit has a timeout.
StatusSpec ==
    StatusInit /\ [][StatusNext]_statusVars /\ \A c \in Caller : SF_statusVars(StatusStep(c))
-----------------------------------------------------------------------------
(* Properties *)

\* A response is never older than CacheDuration was when the call began, however long
\* the call waited for the lock behind others.
FreshEnough ==
    \A c \in Caller : call[c].pc = "returned" /\ call[c].resp # None =>
        call[c].resp.updated + CacheDuration > call[c].began

\* The store and the contract are asked once per CacheDuration, errors included
\* ("to avoid an error-based DoS"), except after a failed GetTotalDeposit, which
\* leaves nothing to cache.
RefreshRate ==
    [][mu = None /\ mu' # None =>
          last = None \/ last.dropped \/ now >= last.at + CacheDuration]_statusVars

\* Every call returns.
CallsReturn == \A c \in Caller : call[c].pc = "missed" ~> call[c].pc = "returned"
=============================================================================
