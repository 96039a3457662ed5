------------------------------- MODULE Runner -------------------------------
(***************************************************************************)
(* main.go, agent.go, client.go, host.go: the subcommands that run an      *)
(* agent, with the life cycle of agent.Agent (Start, Stop, Wait and        *)
(* serveUpdates) and the retry loop around it.                             *)
(*                                                                         *)
(* The goroutines of one run are the main one, the handler of interrupts,  *)
(* Serve, and the update loop.  Run returns the first error that Serve or  *)
(* Wait puts into errChan; nothing closes the connection or stops the      *)
(* other goroutines then, so their steps are defined for any run: the      *)
(* current one, and an earlier one that returned before its loop did.      *)
(* An error is the way the retry loop treats it.                           *)
(***************************************************************************)
EXTENDS Integers, Sequences

CONSTANTS Config,         \* the subcommands and transports to choose from
          MaxTries,       \* bound: the runs of one process
          MaxInterrupts   \* bound: the interrupts

\* fullNode: UserAgent().IsFullNode; invalid: a URI that does not parse, or of another scheme.
ConfigType ==
    [cmd : {"agent"}, pool : {"ws", "http", "static", "memory", "invalid"}, fullNode : BOOLEAN]
    \cup [cmd : {"client"}, pool : {"ws", "http", "static"}, fullNode : BOOLEAN]
    \cup [cmd : {"host"}, pool : {"ws", "memory"}, fullNode : BOOLEAN]

ASSUME RunnerAssumption ==
    Config \subseteq ConfigType /\ MaxTries \in Nat \ {0} /\ MaxInterrupts \in Nat

VARIABLES config,     \* the command line
          main,       \* the retry loop
          sigCh,      \* the interrupt in the retry loop's own channel
          run,        \* the current run
          leftover,   \* an earlier run, any one, that returned before its loop
          strays,     \* the requests its loop has written since
          tries,      \* the runs so far
          interrupts  \* the interrupts so far

runnerVars == <<config, main, sigCh, run, leftover, strays, tries, interrupts>>

\* nil: no error; retry: io.EOF, ErrExplainRetry, net.Error or NoHostNodesError;
\* lost: an AgentPoolError because the connection is gone; fatal: any other.
Error == {"nil", "retry", "lost", "fatal"}

Backoff == <<5, 30, 60, 90, 300>>

\* i: the loop variable; b: the index of the pause, or -1 during a run.
Main ==
    [pc : {"load", "dial", "start", "run", "backoff", "elapsed", "exit"},
     i : Nat, b : -1 .. Len(Backoff) - 1, err : Error]

\* Where UpdatePeers is: the node is asked for its peers; the pool's answer to Update is
\* awaited, then carried out; the pool's answer to Peer is awaited, then carried out.
Updating == {"peers", "update", "apply", "peer", "add"}

\* sig, stopping: the handler's channel holds an interrupt; it is in Agent.Stop.
Run ==
    [notify : BOOLEAN, sig : BOOLEAN, stopping : BOOLEAN, conn : {"none", "up", "down"},
     serve : {"off", "on", "returned"}, serveErr : Error,
     loop : {"off", "select", "returned"} \cup Updating, loopErr : Error]

RunOK(r) ==
    r \in Run /\ (r.sig \/ r.stopping => r.notify) /\ (r.serve # "off" => r.conn # "none")

RunnerTypeOK ==
    /\ config \in Config /\ main \in Main /\ sigCh \in BOOLEAN
    /\ RunOK(run) /\ RunOK(leftover) /\ strays \in Nat
    /\ tries \in 0 .. MaxTries /\ interrupts \in 0 .. MaxInterrupts

NoRun ==
    [notify |-> FALSE, sig |-> FALSE, stopping |-> FALSE, conn |-> "none",
     serve |-> "off", serveErr |-> "nil", loop |-> "off", loopErr |-> "nil"]

RunnerInit ==
    /\ config \in Config
    /\ main = [pc |-> "load", i |-> 0, b |-> -1, err |-> "nil"]
    /\ sigCh = FALSE /\ run = NoRun /\ leftover = NoRun /\ strays = 0
    /\ tries = 1 /\ interrupts = 0

At(pc) == main.pc = pc
Goto(pc) == main' = [main EXCEPT !.pc = pc]
-----------------------------------------------------------------------------
(* The environment *)

\* signal.Notify: every registered channel gets it, unless it is full.
Interrupt ==
    /\ interrupts < MaxInterrupts /\ ~At("exit")
    /\ interrupts' = interrupts + 1
    /\ sigCh' = TRUE
    /\ run' = [run EXCEPT !.sig = @ \/ run.notify]
    /\ leftover' = [leftover EXCEPT !.sig = @ \/ leftover.notify]
    /\ UNCHANGED <<config, main, strays, tries>>

ConnectionLost(r, s) == r.conn = "up" /\ s = [r EXCEPT !.conn = "down"]
-----------------------------------------------------------------------------
(* subcommand *)

\* Mutant: the index is not clamped.
PauseUnclamped(i) == i

Pause(i) == IF i >= Len(Backoff) THEN Len(Backoff) - 1 ELSE i

\* time.Now().After(since.Add(clearTimeout))
Resets(long) == long

\* runAgent, runClient or runHost returns.  If its loop has not, the loop goes on;
\* nobody hears Serve's error, or the loop's.
Returned(err) ==
    \E long \in BOOLEAN :
        /\ main' = IF err # "retry" THEN [main EXCEPT !.pc = "exit", !.err = err]
                   ELSE [main EXCEPT !.pc = "backoff", !.b = Pause(main.i),
                                     !.i = IF Resets(long) THEN 0 ELSE @]
        /\ run' = NoRun
        /\ \/ leftover' = leftover
           \/ leftover = NoRun /\ run.loop \in {"select"} \cup Updating 
              /\ leftover' = [run EXCEPT !.serveErr = "nil"]
        /\ UNCHANGED <<config, sigCh, strays, tries, interrupts>>

\* An interrupt that is in the channel is taken at once: the timer is not ready yet.
BackoffInterrupted ==
    /\ At("backoff") \/ At("elapsed")
    /\ sigCh
    /\ main' = [main EXCEPT !.pc = "exit", !.err = "nil"]
    /\ sigCh' = FALSE
    /\ UNCHANGED <<config, run, leftover, strays, tries, interrupts>>

\* time.After fires; an interrupt may still come before the loop goes on.
BackoffElapses ==
    /\ At("backoff") /\ ~sigCh
    /\ Goto("elapsed")
    /\ UNCHANGED <<config, sigCh, run, leftover, strays, tries, interrupts>>

NextTry ==
    /\ At("elapsed") /\ tries < MaxTries
    /\ main' = [main EXCEPT !.pc = "load", !.i = @ + 1, !.b = -1]
    /\ tries' = tries + 1
    /\ UNCHANGED <<config, sigCh, run, leftover, strays, interrupts>>
-----------------------------------------------------------------------------
(* One run *)

\* LoadAgent, and the same in runClient and runHost: the node is dialled and its
\* settings are checked.  A node that is not ready is a retry.
LoadAgent ==
    /\ At("load")
    /\ \/ /\ Goto("dial")
          /\ run' = [run EXCEPT !.notify = config.cmd = "host"]
          /\ UNCHANGED <<config, sigCh, leftover, strays, tries, interrupts>>
       \/ \E err \in {"retry", "fatal"} : Returned(err)

\* Only runClient gives up when the pool cannot be dialled.
DialError == IF config.cmd = "client" THEN "fatal" ELSE "retry"

\* The agent subcommand refuses other schemes, and HTTP for full nodes.
Refused ==
    config.cmd = "agent" /\ (config.pool = "invalid" \/ (config.pool = "http" /\ config.fullNode))

\* LoadPool; then Run registers for interrupts and starts Serve, before Start.
LoadPool ==
    /\ At("dial")
    /\ IF Refused THEN Returned("fatal")
       ELSE \/ /\ Goto("start")
               /\ run' = [run EXCEPT !.notify = config.cmd # "client",
                                     !.conn = IF config.pool = "ws" THEN "up" ELSE "none",
                                     !.serve = IF config.pool = "ws" THEN "on" ELSE "off"]
               /\ UNCHANGED <<config, sigCh, leftover, strays, tries, interrupts>>
            \/ config.pool = "ws" /\ Returned(DialError)

\* Calls to the pool are answered: over HTTP, or while Serve reads.
Answered(r) == r.conn = "none" \/ (r.conn = "up" /\ r.serve = "on")

\* Agent.Start: Connect and the first UpdatePeers, under one deadline; then the loop.
\* runClient registers for interrupts only now, and with a static pool not at all.
Start ==
    /\ At("start") /\ Answered(run)
    /\ Goto("run")
    /\ run' = [run EXCEPT !.loop = "select", !.notify = @ \/ config.pool # "static"]
    /\ UNCHANGED <<config, sigCh, leftover, strays, tries, interrupts>>

\* A call that fails because the connection is gone is no io.EOF to the retry loop.
StartErrors == {"retry", "fatal"} \cup {err \in {"lost"} : run.conn = "down"}

StartFails ==
    /\ At("start")
    /\ \E err \in StartErrors : Returned(err)

\* ReadMessage fails: the connection is lost, or a message is malformed.  The codec
\* makes io.EOF of all but unexpected close codes.
ServeReturns(r, s) ==
    /\ r.serve = "on"
    /\ \E err \in {"retry", "fatal"} : s = [r EXCEPT !.serve = "returned", !.serveErr = err]

\* Mutant: only Wait is waited for.
ErrChanWaitOnly == {err \in Error : run.loop = "returned" /\ err = run.loopErr}

\* What is offered on errChan; with a static or memory pool, what Wait returns.
ErrChan ==
    {err \in Error : \/ run.serve = "returned" /\ err = run.serveErr
                     \/ run.loop = "returned" /\ err = run.loopErr}

\* Mutant: Run gives up on a loop that takes its time.
RunReturnsEarly ==
    /\ At("run")
    /\ \E err \in ErrChan \cup {"retry"} : Returned(err)

RunReturns ==
    /\ At("run")
    /\ \E err \in ErrChan : Returned(err)
-----------------------------------------------------------------------------
(* Agent: Stop, serveUpdates and UpdatePeers *)

\* Mutant: Stop does not wait for the loop.
HandleSignalNow(r, s) ==
    r.sig /\ ~r.stopping /\ s = [r EXCEPT !.sig = FALSE, !.stopping = r.loop = "select"]

\* The handler of interrupts calls Stop, which blocks until the loop takes it.
HandleSignal(r, s) ==
    r.sig /\ ~r.stopping /\ s = [r EXCEPT !.sig = FALSE, !.stopping = TRUE]

Stopped(r, s) ==
    /\ r.loop = "select" /\ r.stopping
    /\ s = [r EXCEPT !.loop = "returned", !.loopErr = "nil", !.stopping = FALSE]

TickerFires(r, s) == r.loop = "select" /\ s = [r EXCEPT !.loop = "peers"]

\* Update or Peer is written; on a lost connection that may go unnoticed.
Sends(r, s) ==
    /\ r.loop \in {"peers", "apply"}
    /\ s = [r EXCEPT !.loop = IF @ = "peers" THEN "update" ELSE "peer"]

\* The calls have no deadline: without an answer the loop waits for good.
Answers(r, s) ==
    /\ r.loop \in {"update", "peer"} /\ Answered(r)
    /\ s = [r EXCEPT !.loop = IF @ = "update" THEN "apply" ELSE "add"]

Updated(r, s) == r.loop \in {"apply", "add"} /\ s = [r EXCEPT !.loop = "select"]

\* The node's errors, those of the pool's answers, and those of writing.
UpdateErrors(r) ==
    {err \in Error :
        \/ err \in {"retry", "fatal"} /\ r.loop \in {"peers", "apply", "add"}
        \/ err = "fatal" /\ r.loop \in {"update", "peer"} /\ Answered(r)
        \/ err = "lost" /\ r.loop \in {"peers", "apply"} /\ r.conn = "down"}

UpdateFails(r, s) ==
    \E err \in UpdateErrors(r) : s = [r EXCEPT !.loop = "returned", !.loopErr = err]
-----------------------------------------------------------------------------
MainStep ==
    \/ BackoffInterrupted \/ BackoffElapses \/ NextTry
    \/ LoadAgent \/ LoadPool \/ Start \/ StartFails \/ RunReturns

\* Serve, the handler and the loop of a run, and the network below them.
Goroutines(r, s) ==
    \/ ConnectionLost(r, s) \/ ServeReturns(r, s) \/ HandleSignal(r, s) \/ Stopped(r, s)
    \/ TickerFires(r, s) \/ Sends(r, s) \/ Answers(r, s) \/ Updated(r, s) \/ UpdateFails(r, s)

KeepOthers == UNCHANGED <<config, main, sigCh, leftover, strays, tries, interrupts>>

RunStep == Goroutines(run, run') /\ KeepOthers

\* The earlier run's goroutines are still there until the process exits.
LeftoverStep ==
    /\ ~At("exit") /\ Goroutines(leftover, leftover')
    /\ strays' = strays + IF leftover.loop # leftover'.loop /\ leftover'.loop \in {"update", "peer"}
                          THEN 1 ELSE 0
    /\ UNCHANGED <<config, main, sigCh, run, tries, interrupts>>

RunnerNext == MainStep \/ Interrupt \/ RunStep \/ LeftoverStep

\* Goroutines are scheduled, Start has a deadline, and a broken connection is noticed; a
\* select takes what is offered again and again.  Nothing is assumed of an update: neither
\* the node nor the pool has to answer.
RunnerSpec ==
    /\ RunnerInit /\ [][RunnerNext]_runnerVars
    /\ WF_runnerVars(MainStep)
    /\ WF_runnerVars(run.conn = "down" /\ ServeReturns(run, run') /\ KeepOthers)
    /\ WF_runnerVars(HandleSignal(run, run') /\ KeepOthers)
    /\ SF_runnerVars(Stopped(run, run') /\ KeepOthers)
-----------------------------------------------------------------------------
(* Properties *)

\* Two loops never work on one node and pool: one that outlives its run writes at most one
\* more request.  Run returns before its loop only after Serve has, so that nobody hands
\* the loop the answer it then waits for, even if the connection is still up (codec.go
\* makes io.EOF of a malformed message) and the pool carries the request out.
OneWorkingLoop == strays <= 1

\* An interrupt during a run, or during a pause, ends the program, unless an update never
\* returns: Stop waits for the loop, whose calls have no deadline.  If Run returns while
\* Stop waits, the retry loop has got the interrupt too.
InterruptEnds ==
    []((At("run") /\ (run.sig \/ run.stopping)) \/ (At("backoff") /\ sigCh)
           => <>(At("exit") \/ [](run.loop \in Updating)))

\* A run whose connection is lost comes to an end: the update loop may wait forever for
\* an answer, since Serve does not tell it, but Run hears of it from Serve.
LossNoticed == At("run") /\ (run.conn = "down" \/ run.serve = "returned") ~> ~At("run")

\* subcommand is to "run with retries for host/client", and to retry when the connection
\* is closed: once Serve reports io.EOF of a lost connection, Run's return is a retry, or
\* at least the loss does not end the program.
LossRetried ==
    [][At("run") /\ run.conn = "down" /\ run.serve = "returned" /\ run.serveErr = "retry"
           => ~(At("exit")' /\ main'.err = "lost")]_runnerVars
=============================================================================
