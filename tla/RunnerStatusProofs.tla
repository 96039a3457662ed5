-------------------------- MODULE RunnerStatusProofs --------------------------
(***************************************************************************)
(* Two small components that share nothing: the cached status of the pool, *)
(* for any number of callers and any CacheDuration; and the runs of an     *)
(* agent by the command line, for any number of tries and interrupts.      *)
(***************************************************************************)
EXTENDS Status, Runner, TLAPS

\* What Become leaves alone: the calls of all others.
LEMMA BecomeEffect ==
    ASSUME NEW c \in Caller, NEW r, call \in [Caller -> Call], Become(c, r)
    PROVE  /\ call'[c] = r
           /\ \A d \in Caller : d # c => call'[d] = call[d]
           /\ r \in Call => call' \in [Caller -> Call]
    BY DEF Become

\* A call that returns keeps when it began.
LEMMA ReturnEffect ==
    ASSUME NEW c \in Caller, NEW resp \in Response \cup {None}, NEW err \in BOOLEAN,
           call \in [Caller -> Call], Return(c, resp, err)
    PROVE  /\ call' \in [Caller -> Call]
           /\ call'[c].pc = "returned" /\ call'[c].resp = resp
           /\ call'[c].began = call[c].began
           /\ \A d \in Caller : d # c => call'[d] = call[d]
<1> DEFINE r == [call[c] EXCEPT !.pc = "returned", !.seen = None, !.fill = None,
                                !.resp = resp, !.err = err]
<1>1. r \in Call /\ r.pc = "returned" /\ r.resp = resp /\ r.began = call[c].began
    BY DEF Call
<1>2. Become(c, r)
    BY DEF Return
<1> HIDE DEF r
<1>3. QED
    BY <1>1, <1>2, BecomeEffect

\* The holder of the lock, made inductive: what it fills in, and when it began to.
Filling ==
    \A c \in Caller : mu = c =>
        /\ call[c].fill \in Response
        /\ call[c].fill.updated >= call[c].began
        /\ last \in Refreshing /\ ~last.dropped /\ last.at = call[c].fill.updated

\* A call that waits for the lock began after what it saw was over, and before
\* whatever replaces it: the read lock is not granted while getStatus runs.
Waiting ==
    \A c \in Caller : call[c].pc = "missed" =>
        /\ call[c].seen = None \/ call[c].seen.updated + CacheDuration <= now
        /\ cachedResp \in {None, call[c].seen} \/ cachedResp.updated >= call[c].began
        /\ \A d \in Caller : mu = d => call[d].fill.updated >= call[c].began

\* While nobody refreshes it, the cache holds what getStatus last returned.
LastCached ==
    mu = None => \/ last = None \/ last.dropped
                 \/ cachedResp # None /\ cachedResp.updated = last.at

StatusInv ==
    /\ StatusTypeOK
    /\ \A c \in Caller : call[c].began <= now
    /\ Filling /\ Waiting /\ LastCached /\ FreshEnough

LEMMA StatusInvInit == StatusInit => StatusInv
<1> SUFFICES ASSUME StatusInit PROVE StatusInv
    OBVIOUS
<1>1. Idle \in Call /\ Idle.pc = "idle" /\ Idle.began = 0
    BY StatusAssumption DEF Idle, Call
<1>2. \A c \in Caller : call[c] = Idle
    BY DEF StatusInit
<1>3. StatusTypeOK
    BY <1>1, <1>2, StatusAssumption DEF StatusInit, StatusTypeOK
<1>4. QED
    BY <1>1, <1>2, <1>3, StatusAssumption
    DEF StatusInit, StatusInv, Filling, Waiting, LastCached, FreshEnough

\* The cache is checked with the read lock held: the answer is valid now, or what was
\* seen is over.
LEMMA CheckCacheKeeps ==
    ASSUME StatusInv, NEW c \in Caller, CheckCache(c)
    PROVE  StatusInv'
<1> USE DEF StatusInv
<1> DEFINE hit == [Idle EXCEPT !.pc = "returned", !.began = now, !.resp = cachedResp]
           miss == [Idle EXCEPT !.pc = "missed", !.began = now, !.seen = cachedResp]
<1>1. /\ hit \in Call /\ hit.pc = "returned" /\ hit.began = now /\ hit.resp = cachedResp
      /\ miss \in Call /\ miss.pc = "missed" /\ miss.began = now /\ miss.seen = cachedResp
    BY DEF StatusTypeOK, Idle, Call
<1>2. UNCHANGED <<now, mu, cachedResp, last>> /\ mu = None
    BY DEF CheckCache
<1>3. \/ Valid(cachedResp) /\ Become(c, hit)
      \/ ~Valid(cachedResp) /\ Become(c, miss)
    BY DEF CheckCache
<1> HIDE DEF hit, miss
<1>4. PICK r \in Call : /\ Become(c, r) /\ r.began = now
                        /\ \/ r = hit /\ Valid(cachedResp)
                           \/ r = miss /\ ~Valid(cachedResp)
    BY <1>1, <1>3
<1>5. call' \in [Caller -> Call] /\ call'[c] = r /\ \A d \in Caller : d # c => call'[d] = call[d]
    BY <1>4, BecomeEffect DEF StatusTypeOK
<1>6. StatusTypeOK'
    BY <1>1, <1>2, <1>4, <1>5, StatusAssumption DEF StatusTypeOK
<1>7. (\A d \in Caller : call[d].began <= now)'
    BY <1>2, <1>4, <1>5 DEF StatusTypeOK
<1>8. Filling' /\ LastCached'
    BY <1>2, <1>5, StatusAssumption DEF Filling, LastCached
<1>9. Waiting'
    BY <1>1, <1>2, <1>4, <1>5, StatusAssumption DEF Waiting, Valid, StatusTypeOK, Response
<1>10. FreshEnough'
    BY <1>1, <1>2, <1>4, <1>5, StatusAssumption DEF FreshEnough, Valid, StatusTypeOK, Response
<1>11. QED
    BY <1>6, <1>7, <1>8, <1>9, <1>10

\* What replaced the entry that the call saw was made after the call began.
LEMMA TakeCachedKeeps ==
    ASSUME StatusInv, NEW c \in Caller, TakeCached(c)
    PROVE  StatusInv'
<1> USE DEF StatusInv
<1>1. UNCHANGED <<now, mu, cachedResp, last>> /\ mu = None /\ Return(c, cachedResp, FALSE)
    BY DEF TakeCached
<1>2. /\ call' \in [Caller -> Call] /\ call'[c].pc = "returned" /\ call'[c].resp = cachedResp
      /\ call'[c].began = call[c].began /\ \A d \in Caller : d # c => call'[d] = call[d]
    BY <1>1, ReturnEffect DEF StatusTypeOK
<1>3. cachedResp = None \/ cachedResp.updated >= call[c].began
    BY DEF TakeCached, Beaten, Waiting
<1>4. StatusTypeOK'
    BY <1>1, <1>2, StatusAssumption DEF StatusTypeOK
<1>5. (\A d \in Caller : call[d].began <= now)'
    BY <1>1, <1>2
<1>6. Filling' /\ LastCached' /\ Waiting'
    BY <1>1, <1>2, StatusAssumption DEF Filling, LastCached, Waiting
<1>7. FreshEnough'
    <2>1. call[c].began \in Nat /\ (cachedResp # None => cachedResp.updated \in Nat)
        BY StatusAssumption DEF StatusTypeOK, Response, Call
    <2>2. QED
        BY <1>1, <1>2, <1>3, <2>1, StatusAssumption DEF FreshEnough
<1>8. QED
    BY <1>4, <1>5, <1>6, <1>7

\* getStatus begins: its response is as new as can be.
LEMMA RefreshKeeps ==
    ASSUME StatusInv, NEW c \in Caller, Refresh(c)
    PROVE  StatusInv'
<1> USE DEF StatusInv
<1> DEFINE f == [updated |-> now, failed |-> FALSE]
           r == [call[c] EXCEPT !.pc = "stats", !.fill = f]
<1>1. f \in Response /\ f.updated = now
    BY DEF StatusTypeOK, Response
<1>2. call[c] \in Call
    BY DEF StatusTypeOK
<1> HIDE DEF f
<1>3. r \in Call /\ r.pc = "stats" /\ r.fill = f /\ r.began = call[c].began
    BY <1>1, <1>2 DEF Call
<1>4. Become(c, r) /\ UNCHANGED <<now, cachedResp>> /\ mu = None /\ mu' = c
    BY DEF Refresh, f
<1>5. last' \in Refreshing /\ last'.at = now /\ ~last'.dropped
    BY DEF Refresh, StatusTypeOK, Refreshing
<1> HIDE DEF r
<1>6. call' \in [Caller -> Call] /\ call'[c] = r /\ \A d \in Caller : d # c => call'[d] = call[d]
    BY <1>3, <1>4, BecomeEffect DEF StatusTypeOK
<1>7. StatusTypeOK'
    BY <1>3, <1>4, <1>5, <1>6, StatusAssumption DEF StatusTypeOK
<1>8. (\A d \in Caller : call[d].began <= now)'
    BY <1>3, <1>4, <1>6
<1>9. Filling'
    BY <1>1, <1>3, <1>4, <1>5, <1>6 DEF Filling
<1>10. LastCached'
    BY <1>4, StatusAssumption DEF LastCached
<1>11. Waiting'
    BY <1>1, <1>3, <1>4, <1>6, StatusAssumption DEF Waiting
<1>12. FreshEnough'
    BY <1>3, <1>6 DEF FreshEnough
<1>13. QED
    BY <1>7, <1>8, <1>9, <1>10, <1>11, <1>12

\* getStatus returns what it filled in, or nothing, which is then recorded as dropped.
LEMMA RefreshedKeeps ==
    ASSUME StatusInv, NEW c \in Caller, call[c].pc \in {"stats", "deposit", "hosts"},
           NEW resp \in Response \cup {None}, NEW err \in BOOLEAN, Refreshed(c, resp, err),
           \/ resp # None /\ resp.updated = call[c].fill.updated /\ last' = last
           \/ resp = None /\ last' = [last EXCEPT !.dropped = TRUE],
           UNCHANGED now
    PROVE  StatusInv'
<1> USE DEF StatusInv
<1>1. /\ mu = c /\ mu' = None /\ cachedResp' = resp /\ Return(c, resp, err)
      /\ \A d \in Caller : mu = d => d = c
    BY DEF Refreshed, Cache, Unlock, StatusTypeOK
<1>2. /\ call' \in [Caller -> Call] /\ call'[c].pc = "returned" /\ call'[c].resp = resp
      /\ call'[c].began = call[c].began /\ \A d \in Caller : d # c => call'[d] = call[d]
    BY <1>1, ReturnEffect DEF StatusTypeOK
<1>3. /\ call[c].fill.updated >= call[c].began
      /\ last \in Refreshing /\ last.at = call[c].fill.updated
    BY <1>1 DEF Filling
<1>4. /\ last' \in Refreshing /\ last'.at = last.at
      /\ (resp # None /\ resp.updated = last'.at) \/ last'.dropped
    BY <1>3 DEF Refreshing
<1>5. StatusTypeOK'
    BY <1>1, <1>2, <1>4, StatusAssumption DEF StatusTypeOK
<1>6. (\A d \in Caller : call[d].began <= now)'
    BY <1>1, <1>2
<1>7. Filling' /\ LastCached'
    BY <1>1, <1>4, StatusAssumption DEF Filling, LastCached
<1>8. Waiting'
    BY <1>1, <1>2, StatusAssumption DEF Waiting
<1>9. FreshEnough'
    <2>1. call[c].began \in Nat /\ (resp # None => resp.updated \in Nat)
        BY StatusAssumption DEF StatusTypeOK, Response, Call
    <2>2. QED
        BY <1>1, <1>2, <1>3, <2>1, StatusAssumption DEF FreshEnough
<1>10. QED
    BY <1>5, <1>6, <1>7, <1>8, <1>9

LEMMA StoreFailsKeeps ==
    ASSUME StatusInv, NEW c \in Caller, StoreFails(c)
    PROVE  StatusInv'
<1> DEFINE resp == [call[c].fill EXCEPT !.failed = TRUE]
<1>1. mu = c
    BY DEF StatusInv, StatusTypeOK, StoreFails
<1>2. call[c].fill \in Response
    BY <1>1 DEF StatusInv, Filling
<1>3. resp \in Response /\ resp.updated = call[c].fill.updated
    BY <1>2 DEF Response
<1>4. /\ Refreshed(c, resp, TRUE) /\ UNCHANGED <<now, last>>
      /\ call[c].pc \in {"stats", "deposit", "hosts"}
    BY DEF StoreFails
<1> HIDE DEF resp
<1>5. QED
    BY <1>3, <1>4, RefreshedKeeps, NilAssumption

LEMMA TotalDepositFailsKeeps ==
    ASSUME StatusInv, NEW c \in Caller, TotalDepositFails(c)
    PROVE  StatusInv'
    BY RefreshedKeeps DEF TotalDepositFails

LEMMA ActiveHostsKeeps ==
    ASSUME StatusInv, NEW c \in Caller, ActiveHosts(c)
    PROVE  StatusInv'
<1>1. mu = c
    BY DEF StatusInv, StatusTypeOK, ActiveHosts
<1>2. call[c].fill \in Response
    BY <1>1 DEF StatusInv, Filling
<1>3. QED
    BY <1>2, RefreshedKeeps, NilAssumption DEF ActiveHosts

\* getStatus goes on, or another call is made: nothing but the place in the code changes.
LEMMA AdvanceKeeps ==
    ASSUME StatusInv, NEW c \in Caller, Stats(c) \/ TotalDeposit(c) \/ Again(c)
    PROVE  StatusInv'
<1> USE DEF StatusInv
<1>1. UNCHANGED <<now, mu, cachedResp, last>>
    BY DEF Stats, TotalDeposit, Again
<1>2. CASE Again(c)
    <2>1. Idle \in Call /\ Idle.pc = "idle" /\ Idle.began = 0
        BY StatusAssumption DEF Idle, Call
    <2>2. call' \in [Caller -> Call] /\ call'[c] = Idle /\ \A d \in Caller : d # c => call'[d] = call[d]
        BY <1>2, <2>1, BecomeEffect DEF StatusTypeOK, Again
    <2>3. StatusTypeOK'
        BY <1>1, <1>2, <2>1, <2>2 DEF StatusTypeOK, Again
    <2>4. mu # c
        BY <1>2 DEF StatusTypeOK, Again
    <2>5. QED
        BY <1>1, <2>1, <2>2, <2>3, <2>4, StatusAssumption
        DEF StatusTypeOK, Filling, Waiting, LastCached, FreshEnough
<1>3. CASE Stats(c) \/ TotalDeposit(c)
    <2>1. PICK pc \in {"deposit", "hosts"} : Become(c, [call[c] EXCEPT !.pc = pc])
        BY <1>3 DEF Stats, TotalDeposit
    <2> DEFINE r == [call[c] EXCEPT !.pc = pc]
    <2>2. r \in Call /\ r.pc = pc /\ r.began = call[c].began /\ r.fill = call[c].fill
        BY DEF StatusTypeOK, Call
    <2>3. Become(c, r)
        BY <2>1
    <2> HIDE DEF r
    <2>4. call' \in [Caller -> Call] /\ call'[c] = r /\ \A d \in Caller : d # c => call'[d] = call[d]
        BY <2>2, <2>3, BecomeEffect DEF StatusTypeOK
    <2>5. StatusTypeOK'
        BY <1>1, <1>3, <2>2, <2>4 DEF StatusTypeOK, Stats, TotalDeposit
    <2>6. QED
        BY <1>1, <2>2, <2>4, <2>5, StatusAssumption
        DEF StatusTypeOK, Filling, Waiting, LastCached, FreshEnough
<1>4. QED
    BY <1>2, <1>3

LEMMA StatusTickKeeps ==
    ASSUME StatusInv, Tick
    PROVE  StatusInv'
<1> USE DEF StatusInv, Tick
<1>1. StatusTypeOK'
    BY StatusAssumption DEF StatusTypeOK
<1>2. \A c \in Caller : /\ call[c].began \in Nat
                        /\ call[c].seen # None => call[c].seen.updated \in Nat
    BY StatusAssumption DEF StatusTypeOK, Call, Response
<1>3. Waiting'
    BY <1>2, StatusAssumption DEF Waiting, StatusTypeOK
<1>4. QED
    BY <1>1, <1>2, <1>3 DEF StatusTypeOK, Filling, LastCached, FreshEnough

LEMMA StatusInvNext == StatusInv /\ [StatusNext]_statusVars => StatusInv'
<1>1. ASSUME StatusInv, UNCHANGED statusVars PROVE StatusInv'
    BY <1>1 DEF statusVars, StatusInv, StatusTypeOK, Filling, Waiting, LastCached, FreshEnough
<1>2. QED
    BY <1>1, StatusTickKeeps, CheckCacheKeeps, TakeCachedKeeps, RefreshKeeps, StoreFailsKeeps,
       TotalDepositFailsKeeps, ActiveHostsKeeps, AdvanceKeeps DEF StatusNext, StatusStep

\* Only the holder of s.mu is inside getStatus, and the cache holds responses.
THEOREM StatusTypeCorrect == StatusSpec => []StatusTypeOK
<1>1. StatusInv => StatusTypeOK
    BY DEF StatusInv
<1>2. QED
    BY <1>1, StatusInvInit, StatusInvNext, PTL DEF StatusSpec

\* No answer was over when its call began, however many callers waited for the lock.
THEOREM FreshEnoughHolds == StatusSpec => []FreshEnough
<1>1. StatusInv => FreshEnough
    BY DEF StatusInv
<1>2. QED
    BY <1>1, StatusInvInit, StatusInvNext, PTL DEF StatusSpec

\* The store and the contract are asked once per CacheDuration, whatever callers do:
\* a call that still finds what it saw finds what the last refresh cached.
THEOREM RefreshRateHolds == StatusSpec => RefreshRate
<1> DEFINE A == mu = None /\ mu' # None =>
                    last = None \/ last.dropped \/ now >= last.at + CacheDuration
<1>1. ASSUME StatusInv, NEW c \in Caller, Refresh(c) PROVE A
    BY <1>1 DEF StatusInv, Refresh, Beaten, Waiting, LastCached
<1>2. ASSUME StatusInv, [StatusNext]_statusVars PROVE [A]_statusVars
    <2>1. CASE \E c \in Caller : Refresh(c)
        BY <1>1, <1>2, <2>1
    <2>2. CASE ~\E c \in Caller : Refresh(c)
        BY <1>2, <2>2 DEF StatusNext, StatusStep, statusVars, Tick, CheckCache, TakeCached, StoreFails,
           Stats, TotalDeposit, TotalDepositFails, ActiveHosts, Again, Refreshed, Unlock
    <2>3. QED
        BY <2>1, <2>2
<1>3. QED
    BY <1>2, StatusInvInit, StatusInvNext, PTL DEF StatusSpec, RefreshRate
-----------------------------------------------------------------------------
\* Outside of a run nothing of it is left, and before Start has returned there is no
\* update loop; in between, runHost alone listens for interrupts.
RunStages ==
    /\ main.pc \notin {"dial", "start", "run"} => run = NoRun
    /\ At("dial") => /\ run.conn = "none" /\ run.serve = "off" /\ run.loop = "off"
                     /\ run.notify => config.cmd = "host"
    /\ At("start") => run.loop = "off"

\* A run that left its loop behind has no Serve to hand an answer over, and once the loop
\* has written a request it waits, or has failed.
LeftWaiting ==
    /\ leftover.loop # "off" => leftover.serve = "returned"
    /\ strays = 0 \/ (strays = 1 /\ leftover.loop \in {"update", "peer", "returned"})

RunnerInv == RunnerTypeOK /\ RunStages /\ LeftWaiting

LEMMA PauseType == \A i \in Nat : Pause(i) \in -1 .. Len(Backoff) - 1
    BY DEF Pause, Backoff

LEMMA NoRunType == RunOK(NoRun) /\ NoRun.loop = "off"
    BY DEF NoRun, Run, RunOK, Error, Updating

\* A run that returns before its loop has no Serve any more.
LEMMA ReturnedKeeps ==
    ASSUME RunnerInv, NEW err \in Error, Returned(err),
           run.loop = "off" \/ run.loop = "returned" \/ run.serve = "returned"
    PROVE  RunnerInv'
<1> USE DEF RunnerInv
<1>1. PICK long \in BOOLEAN :
          /\ main' = IF err # "retry" THEN [main EXCEPT !.pc = "exit", !.err = err]
                     ELSE [main EXCEPT !.pc = "backoff", !.b = Pause(main.i),
                                       !.i = IF Resets(long) THEN 0 ELSE @]
          /\ run' = NoRun
          /\ \/ leftover' = leftover
             \/ /\ leftover = NoRun /\ run.loop \in {"select"} \cup Updating
                /\ leftover' = [run EXCEPT !.serveErr = "nil"]
          /\ UNCHANGED <<config, sigCh, strays, tries, interrupts>>
    BY DEF Returned
<1>2. main' \in Main /\ main'.pc \in {"exit", "backoff"}
    <2>1. main \in Main /\ Pause(main.i) \in -1 .. Len(Backoff) - 1
        BY PauseType DEF RunnerTypeOK, Main
    <2>2. QED
        BY <1>1, <2>1 DEF Main, Resets
<1>3. RunOK(leftover)' /\ LeftWaiting'
    <2>1. CASE leftover' = leftover
        BY <1>1, <2>1 DEF RunnerTypeOK, RunOK, LeftWaiting
    <2>2. CASE /\ leftover = NoRun /\ run.loop \in {"select"} \cup Updating
               /\ leftover' = [run EXCEPT !.serveErr = "nil"]
        <3>1. strays' = 0
            BY <1>1, <2>2, NoRunType DEF LeftWaiting
        <3>2. RunOK(leftover') /\ leftover'.serve = run.serve
            BY <2>2 DEF RunnerTypeOK, RunOK, Run, Error
        <3>3. run.serve = "returned"
            BY <2>2 DEF Updating
        <3>4. QED
            BY <3>1, <3>2, <3>3 DEF LeftWaiting, RunOK
    <2>3. QED
        BY <1>1, <2>1, <2>2
<1>4. QED
    BY <1>1, <1>2, <1>3, NoRunType DEF RunnerTypeOK, RunOK, RunStages, At

\* The steps of the retry loop between two runs.
LEMMA BackoffKeeps ==
    ASSUME RunnerInv, BackoffInterrupted \/ BackoffElapses \/ NextTry
    PROVE  RunnerInv'
<1> USE DEF RunnerInv
<1>1. main \in Main
    BY DEF RunnerTypeOK
<1>2. /\ run = NoRun /\ UNCHANGED <<config, run, leftover, strays, interrupts>>
      /\ RunOK(run)' /\ RunOK(leftover)' /\ LeftWaiting'
    BY DEF BackoffInterrupted, BackoffElapses, NextTry, At, RunStages, RunnerTypeOK, RunOK,
           LeftWaiting
<1>3. CASE BackoffInterrupted
    <2>1. main' \in Main /\ main'.pc = "exit"
        BY <1>1, <1>3 DEF BackoffInterrupted, Main, Error
    <2>2. sigCh' = FALSE /\ UNCHANGED tries
        BY <1>3 DEF BackoffInterrupted
    <2>3. QED
        BY <1>2, <2>1, <2>2 DEF RunnerTypeOK, RunStages, At
<1>4. CASE BackoffElapses
    <2>1. main' \in Main /\ main'.pc = "elapsed"
        BY <1>1, <1>4 DEF BackoffElapses, Goto, Main
    <2>2. UNCHANGED <<sigCh, tries>>
        BY <1>4 DEF BackoffElapses
    <2>3. QED
        BY <1>2, <2>1, <2>2 DEF RunnerTypeOK, RunStages, At
<1>5. CASE NextTry
    <2> DEFINE i == main.i + 1
    <2>1. main' \in Main /\ main'.pc = "load"
        <3>1. i \in Nat /\ main' = [main EXCEPT !.pc = "load", !.i = i, !.b = -1]
            BY <1>1, <1>5 DEF NextTry, Main
        <3> HIDE DEF i
        <3>2. -1 \in -1 .. Len(Backoff) - 1
            BY DEF Backoff
        <3>3. QED
            BY <1>1, <3>1, <3>2 DEF Main
    <2>2. UNCHANGED sigCh /\ tries' \in 0 .. MaxTries
        BY <1>5, RunnerAssumption DEF NextTry, RunnerTypeOK
    <2>3. QED
        BY <1>2, <2>1, <2>2 DEF RunnerTypeOK, RunStages, At
<1>6. QED
    BY <1>3, <1>4, <1>5

\* A step of the current run only: where main is, and what is left of the run.
LEMMA WithinRun ==
    ASSUME RunnerInv, NEW r, RunOK(r), run' = r, main' \in Main, RunStages',
           UNCHANGED <<config, sigCh, leftover, strays, tries, interrupts>>
    PROVE  RunnerInv'
    BY DEF RunnerInv, RunnerTypeOK, LeftWaiting, RunOK

LEMMA LoadAgentKeeps ==
    ASSUME RunnerInv, LoadAgent
    PROVE  RunnerInv'
<1>1. main \in Main /\ run = NoRun /\ run.loop = "off"
    BY NoRunType DEF RunnerInv, RunnerTypeOK, RunStages, LoadAgent, At
<1>2. CASE \E err \in {"retry", "fatal"} : Returned(err)
    BY <1>1, <1>2, ReturnedKeeps DEF Error
<1>3. CASE /\ Goto("dial") /\ run' = [run EXCEPT !.notify = config.cmd = "host"]
           /\ UNCHANGED <<config, sigCh, leftover, strays, tries, interrupts>>
    <2>1. main' \in Main /\ main'.pc = "dial"
        BY <1>1, <1>3 DEF Goto, Main
    <2>2. /\ run' \in Run /\ (run'.notify <=> config.cmd = "host")
          /\ run'.conn = "none" /\ run'.serve = "off" /\ run'.loop = "off"
          /\ ~run'.sig /\ ~run'.stopping
        BY <1>1, <1>3, NoRunType DEF Run, NoRun, RunOK
    <2>3. RunStages'
        BY <1>3, <2>1, <2>2 DEF RunStages, At
    <2>4. RunOK(run')
        BY <2>2 DEF RunOK
    <2>5. QED
        BY <1>3, <2>1, <2>3, <2>4, WithinRun
<1>4. QED
    BY <1>2, <1>3 DEF LoadAgent

LEMMA LoadPoolKeeps ==
    ASSUME RunnerInv, LoadPool
    PROVE  RunnerInv'
<1>1. main \in Main /\ RunOK(run) /\ run.loop = "off"
    BY DEF RunnerInv, RunnerTypeOK, RunStages, LoadPool, At
<1>2. CASE \E err \in Error : Returned(err)
    BY <1>1, <1>2, ReturnedKeeps
<1> DEFINE r == [run EXCEPT !.notify = config.cmd # "client",
                            !.conn = IF config.pool = "ws" THEN "up" ELSE "none",
                            !.serve = IF config.pool = "ws" THEN "on" ELSE "off"]
<1>3. CASE /\ Goto("start") /\ run' = r
           /\ UNCHANGED <<config, sigCh, leftover, strays, tries, interrupts>>
    <2>1. main' \in Main /\ main'.pc = "start"
        BY <1>1, <1>3 DEF Goto, Main
    <2>2. /\ r \in Run /\ r.loop = "off" /\ r.sig = run.sig /\ r.stopping = run.stopping
          /\ r.notify = (config.cmd # "client") /\ (r.serve # "off" => r.conn # "none")
        BY <1>1 DEF Run, RunOK
    <2> HIDE DEF r
    <2>3. RunOK(r)
        BY <1>1, <2>2 DEF RunnerInv, RunStages, LoadPool, At, RunOK
    <2>4. RunStages'
        BY <1>3, <2>1, <2>2 DEF RunStages, At
    <2>5. QED
        BY <1>3, <2>1, <2>3, <2>4, WithinRun
<1>4. QED
    BY <1>2, <1>3 DEF LoadPool, DialError, Error

LEMMA StartKeeps ==
    ASSUME RunnerInv, Start \/ StartFails
    PROVE  RunnerInv'
<1>1. main \in Main /\ RunOK(run) /\ run.loop = "off"
    BY DEF RunnerInv, RunnerTypeOK, RunStages, Start, StartFails, At
<1>2. CASE StartFails
    BY <1>1, <1>2, ReturnedKeeps DEF StartFails, StartErrors, Error
<1>3. CASE Start
    <2> DEFINE r == [run EXCEPT !.loop = "select", !.notify = @ \/ config.pool # "static"]
    <2>1. main' \in Main /\ main'.pc = "run"
        BY <1>1, <1>3 DEF Start, Goto, Main
    <2>2. /\ r \in Run /\ r.sig = run.sig /\ r.stopping = run.stopping /\ (run.notify => r.notify)
          /\ r.serve = run.serve /\ r.conn = run.conn
        BY <1>1 DEF Run, RunOK
    <2>3. run' = r /\ UNCHANGED <<config, sigCh, leftover, strays, tries, interrupts>>
        BY <1>3 DEF Start
    <2> HIDE DEF r
    <2>4. RunStages'
        BY <2>1 DEF RunStages, At
    <2>5. RunOK(r)
        BY <1>1, <2>2 DEF RunOK
    <2>6. QED
        BY <2>1, <2>3, <2>4, <2>5, WithinRun
<1>4. QED
    BY <1>2, <1>3

\* Run returns when its loop has, or when Serve has.
LEMMA RunReturnsKeeps ==
    ASSUME RunnerInv, RunReturns
    PROVE  RunnerInv'
<1>1. PICK err \in Error : Returned(err) /\ (run.serve = "returned" \/ run.loop = "returned")
    BY DEF RunReturns, ErrChan
<1>2. QED
    BY <1>1, ReturnedKeeps

\* The handler's channel is only used by a run that has registered it.
LEMMA SignalledOK ==
    ASSUME NEW r, RunOK(r)
    PROVE  LET s == [r EXCEPT !.sig = @ \/ r.notify]
           IN  /\ RunOK(s) /\ s.loop = r.loop /\ s.serve = r.serve /\ s.conn = r.conn
               /\ s.notify = r.notify /\ (r = NoRun => s = NoRun)
<1> DEFINE s == [r EXCEPT !.sig = @ \/ r.notify]
<1>1. /\ s \in Run /\ s.notify = r.notify /\ s.stopping = r.stopping
      /\ s.sig = (r.sig \/ r.notify) /\ s.loop = r.loop
      /\ s.conn = r.conn /\ s.serve = r.serve
    BY DEF Run, RunOK
<1>2. ASSUME r = NoRun PROVE s = NoRun
    <2>1. (r.sig \/ r.notify) = FALSE
        BY <1>2 DEF NoRun
    <2>2. s = [NoRun EXCEPT !.sig = FALSE]
        BY <1>2, <2>1, Zenon
    <2> HIDE DEF s
    <2>3. QED
        BY <2>2 DEF NoRun
<1> HIDE DEF s
<1>3. RunOK(s)
    BY <1>1 DEF RunOK
<1>4. QED
    BY <1>1, <1>2, <1>3 DEF s

LEMMA InterruptKeeps ==
    ASSUME RunnerInv, Interrupt
    PROVE  RunnerInv'
<1>1. RunOK(run) /\ RunOK(leftover)
    BY DEF RunnerInv, RunnerTypeOK
<1>2. /\ RunOK(run') /\ run'.loop = run.loop /\ run'.serve = run.serve /\ run'.conn = run.conn
      /\ run'.notify = run.notify /\ (run = NoRun => run' = NoRun)
    BY <1>1, SignalledOK DEF Interrupt
<1>3. RunOK(leftover') /\ leftover'.loop = leftover.loop /\ leftover'.serve = leftover.serve
    BY <1>1, SignalledOK DEF Interrupt
<1>4. /\ UNCHANGED <<config, main, strays, tries>> /\ sigCh' = TRUE
      /\ interrupts' \in 0 .. MaxInterrupts
    BY RunnerAssumption DEF Interrupt, RunnerInv, RunnerTypeOK
<1>5. RunOK(run)' /\ RunOK(leftover)'
    BY <1>2, <1>3 DEF RunOK
<1>6. RunStages' /\ LeftWaiting'
    BY <1>2, <1>3, <1>4 DEF RunnerInv, RunStages, LeftWaiting, At
<1>7. QED
    BY <1>4, <1>5, <1>6 DEF RunnerInv, RunnerTypeOK

\* What a step of the goroutines does to the run they belong to: it has begun, they start
\* no loop and no Serve, and a loop without a Serve gets no answer.
LEMMA GoroutinesStep ==
    ASSUME NEW r, NEW s, RunOK(r), Goroutines(r, s)
    PROVE  /\ RunOK(s) /\ r # NoRun /\ s.notify = r.notify
           /\ r.loop = "off" => s.loop = "off"
           /\ r.conn = "none" => s.conn = "none"
           /\ r.serve = "off" => s.serve = "off"
           /\ r.serve = "returned" =>
                  /\ s.serve = "returned"
                  /\ r.loop \in {"update", "peer", "returned"} =>
                         s.loop = r.loop \/ s.loop = "returned"
<1> USE DEF RunOK
<1>1. CASE ConnectionLost(r, s)
    BY <1>1 DEF ConnectionLost, Run, NoRun
<1>2. CASE ServeReturns(r, s)
    <2>1. PICK err \in Error :
              r.serve = "on" /\ s = [r EXCEPT !.serve = "returned", !.serveErr = err]
        BY <1>2 DEF ServeReturns, Error
    <2>2. /\ s \in Run /\ s.notify = r.notify /\ s.sig = r.sig /\ s.stopping = r.stopping
          /\ s.loop = r.loop /\ s.conn = r.conn
        BY <2>1 DEF Run
    <2>3. r # NoRun
        BY <2>1 DEF NoRun
    <2>4. QED
        BY <2>1, <2>2, <2>3
<1>3. CASE HandleSignal(r, s)
    <2>1. /\ s \in Run /\ s.notify = r.notify /\ r.sig
          /\ s.loop = r.loop /\ s.conn = r.conn /\ s.serve = r.serve
        BY <1>3 DEF HandleSignal, Run
    <2>2. r # NoRun
        BY <2>1 DEF NoRun
    <2>3. QED
        BY <2>1, <2>2
<1>4. CASE Stopped(r, s)
    <2>1. /\ s \in Run /\ s.notify = r.notify /\ s.sig = r.sig /\ ~s.stopping
          /\ r.loop = "select" /\ s.conn = r.conn /\ s.serve = r.serve
        BY <1>4 DEF Stopped, Run, Error
    <2>2. r # NoRun
        BY <2>1 DEF NoRun
    <2>3. QED
        BY <2>1, <2>2
<1>5. CASE TickerFires(r, s)
    BY <1>5 DEF TickerFires, Run, NoRun, Updating
<1>6. CASE Sends(r, s)
    <2>1. PICK l \in {"select"} \cup Updating :
              r.loop \in {"peers", "apply"} /\ s = [r EXCEPT !.loop = l]
        BY <1>6 DEF Sends, Updating
    <2>2. QED
        BY <2>1 DEF Run, NoRun, Updating
<1>7. CASE Answers(r, s)
    <2>1. PICK l \in {"select"} \cup Updating :
              r.loop \in {"update", "peer"} /\ s = [r EXCEPT !.loop = l]
        BY <1>7 DEF Answers, Updating
    <2>2. r.serve # "returned"
        BY <1>7 DEF Answers, Answered, Run
    <2>3. QED
        BY <2>1, <2>2 DEF Run, NoRun, Updating
<1>8. CASE Updated(r, s)
    <2>1. PICK l \in {"select"} \cup Updating :
              r.loop \in {"apply", "add"} /\ s = [r EXCEPT !.loop = l]
        BY <1>8 DEF Updated, Updating
    <2>2. QED
        BY <2>1 DEF Run, NoRun, Updating
<1>9. CASE UpdateFails(r, s)
    <2>1. PICK err \in Error :
              /\ r.loop \in Updating /\ s = [r EXCEPT !.loop = "returned", !.loopErr = err]
        BY <1>9 DEF UpdateFails, UpdateErrors, Updating
    <2>2. /\ s \in Run /\ s.notify = r.notify /\ s.sig = r.sig /\ s.stopping = r.stopping
          /\ s.loop = "returned" /\ s.conn = r.conn /\ s.serve = r.serve
        BY <2>1 DEF Run
    <2>3. r.loop # "off" /\ r # NoRun
        BY <2>1 DEF NoRun, Updating
    <2>4. QED
        BY <2>2, <2>3
<1>10. QED
    BY <1>1, <1>2, <1>3, <1>4, <1>5, <1>6, <1>7, <1>8, <1>9 DEF Goroutines

LEMMA RunStepKeeps ==
    ASSUME RunnerInv, RunStep
    PROVE  RunnerInv'
<1>1. RunOK(run) /\ Goroutines(run, run') /\ main \in Main
    BY DEF RunnerInv, RunnerTypeOK, RunStep
<1>2. UNCHANGED <<config, main, sigCh, leftover, strays, tries, interrupts>>
    BY DEF RunStep, KeepOthers
<1>3. /\ RunOK(run') /\ run # NoRun /\ run'.notify = run.notify
      /\ run.loop = "off" => run'.loop = "off"
      /\ run.conn = "none" => run'.conn = "none"
      /\ run.serve = "off" => run'.serve = "off"
    BY <1>1, GoroutinesStep
<1>4. RunStages'
    BY <1>2, <1>3 DEF RunnerInv, RunStages, At
<1>5. QED
    BY <1>1, <1>2, <1>3, <1>4, WithinRun

LEMMA LeftoverStepKeeps ==
    ASSUME RunnerInv, LeftoverStep
    PROVE  RunnerInv'
<1>1. RunOK(leftover) /\ Goroutines(leftover, leftover')
    BY DEF RunnerInv, RunnerTypeOK, LeftoverStep
<1>2. /\ UNCHANGED <<config, main, sigCh, run, tries, interrupts>>
      /\ strays' = strays + IF leftover.loop # leftover'.loop /\ leftover'.loop \in {"update", "peer"}
                            THEN 1 ELSE 0
    BY DEF LeftoverStep
<1>3. /\ RunOK(leftover')
      /\ leftover.loop = "off" => leftover'.loop = "off"
      /\ leftover.serve = "returned" =>
             /\ leftover'.serve = "returned"
             /\ leftover.loop \in {"update", "peer", "returned"} =>
                    leftover'.loop = leftover.loop \/ leftover'.loop = "returned"
    BY <1>1, GoroutinesStep
<1>4. LeftWaiting'
    BY <1>2, <1>3 DEF RunnerInv, LeftWaiting
<1>5. strays' \in Nat
    BY <1>4 DEF LeftWaiting
<1>6. RunOK(leftover)' /\ RunOK(run)'
    BY <1>2, <1>3 DEF RunOK, RunnerInv, RunnerTypeOK
<1>7. QED
    BY <1>2, <1>4, <1>5, <1>6 DEF RunnerInv, RunnerTypeOK, RunStages, At

LEMMA RunnerInvariance == RunnerSpec => []RunnerInv
<1>1. RunnerInit => RunnerInv
    <2> SUFFICES ASSUME RunnerInit PROVE RunnerInv
        OBVIOUS
    <2>1. main \in Main /\ main.pc = "load"
        BY DEF RunnerInit, Main, Error, Backoff
    <2>2. tries \in 0 .. MaxTries /\ interrupts \in 0 .. MaxInterrupts
        BY RunnerAssumption DEF RunnerInit
    <2>3. QED
        BY <2>1, <2>2, NoRunType
        DEF RunnerInit, RunnerInv, RunnerTypeOK, RunStages, LeftWaiting, At
<1>2. RunnerInv /\ UNCHANGED runnerVars => RunnerInv'
    BY DEF runnerVars, RunnerInv, RunnerTypeOK, RunOK, RunStages, LeftWaiting, At
<1>3. RunnerInv /\ [RunnerNext]_runnerVars => RunnerInv'
    BY <1>2, BackoffKeeps, LoadAgentKeeps, LoadPoolKeeps, StartKeeps, RunReturnsKeeps,
       InterruptKeeps, RunStepKeeps, LeftoverStepKeeps DEF RunnerNext, MainStep
<1>4. QED
    BY <1>1, <1>3, PTL DEF RunnerSpec

\* The index of the pause stays within the table of pauses, for any number of tries, and
\* only a registered handler has an interrupt to handle.
THEOREM RunnerTypeCorrect == RunnerSpec => []RunnerTypeOK
<1>1. RunnerInv => RunnerTypeOK
    BY DEF RunnerInv
<1>2. QED
    BY <1>1, RunnerInvariance, PTL

\* An update loop that outlives its run writes at most one more request to the pool,
\* however many runs, losses and interrupts there are: Start fails before there is a loop,
\* Run returns after its loop or after Serve, and without Serve no answer reaches the loop.
THEOREM OneWorkingLoopHolds == RunnerSpec => []OneWorkingLoop
<1>1. RunnerInv => OneWorkingLoop
    BY DEF RunnerInv, LeftWaiting, OneWorkingLoop
<1>2. QED
    BY <1>1, RunnerInvariance, PTL
=============================================================================
