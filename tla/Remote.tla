------------------------------- MODULE Remote -------------------------------
(***************************************************************************)
(* jsonrpc2/remote.go: the two ends of one connection.  Each end is a      *)
(* Remote: a Serve loop that reads messages, a goroutine per incoming      *)
(* request, and callers blocked in receive until Serve hands them their    *)
(* response over the channel that r.pending keeps for its ID.              *)
(*                                                                         *)
(* IDs are unique per end (Client.NextID), so that a call is its ID, and   *)
(* the other end, a Remote as well, answers each request at most once.     *)
(* Handlers run concurrently, so that their responses come in any order:   *)
(* the wire is not ordered.  A channel is named by the goroutine that      *)
(* created it for its ID: the caller ("receive") or Serve ("serve").       *)
(***************************************************************************)
EXTENDS Naturals, Sequences

CONSTANTS Side,            \* the two ends
          Call,            \* the calls that either end makes
          From,            \* the end that makes a call
          Parent,          \* the call whose handler makes it, or None
          Deadline,        \* the calls whose context has a deadline
          None,
          PendingLimit,    \* Remote.PendingLimit of each end
          PendingDiscard   \* Remote.PendingDiscard of each end

ASSUME RemoteAssumption ==
    /\ None \notin Call
    /\ From \in [Call -> Side]
    /\ Parent \in [Call -> Call \cup {None}]
    /\ Deadline \subseteq Call
    /\ PendingLimit \in [Side -> Nat]
    /\ PendingDiscard \in [Side -> Nat]
    /\ \A c \in Call : Parent[c] # None => From[Parent[c]] # From[c]

VARIABLES pc,       \* the goroutine in Remote.Call
          stage,    \* where the request, then the response, of a call is
          wait,     \* the channel that receive waits on
          dest,     \* the channel that Serve sends the response to
          pending,  \* r.pending of each end, oldest entry first
          serve,    \* the response that the Serve of an end is sending, or None
          ended     \* the ends whose Serve returned

remoteVars == <<pc, stage, wait, dest, pending, serve, ended>>

PC == {"idle", "written", "waiting", "received", "returned", "failed"}
Stage == {"none", "request", "handling", "response", "sending", "buffered", "consumed"}
Creator == {"receive", "serve"}
Entry == [call : Call, by : Creator]

RemoteTypeOK ==
    /\ pc \in [Call -> PC]
    /\ stage \in [Call -> Stage]
    /\ wait \in [Call -> Creator \cup {None}]
    /\ dest \in [Call -> Creator \cup {None}]
    /\ pending \in [Side -> Seq(Entry)]
    /\ serve \in [Side -> Call \cup {None}]
    /\ ended \subseteq Side

RemoteInit ==
    /\ pc = [c \in Call |-> "idle"]
    /\ stage = [c \in Call |-> "none"]
    /\ wait = [c \in Call |-> None]
    /\ dest = [c \in Call |-> None]
    /\ pending = [s \in Side |-> <<>>]
    /\ serve = [s \in Side |-> None]
    /\ ended = {}
-----------------------------------------------------------------------------
(* getPendingChan *)

\* cleanPending: the oldest entries go, whoever waits on their channels.
CleanPending(q, num) == SubSeq(q, (IF num > Len(q) THEN Len(q) ELSE num) + 1, Len(q))

\* Mutant: the limit is off by one.
MakeRoomLate(s) ==
    IF PendingLimit[s] > 0 /\ Len(pending[s]) > PendingLimit[s] /\ PendingDiscard[s] > 0
    THEN CleanPending(pending[s], PendingDiscard[s]) ELSE pending[s]

\* r.pending once there is room, before the key is looked up.
MakeRoom(s) ==
    IF PendingLimit[s] > 0 /\ Len(pending[s]) >= PendingLimit[s] /\ PendingDiscard[s] > 0
    THEN CleanPending(pending[s], PendingDiscard[s]) ELSE pending[s]

Created(q, c) == {q[i].by : i \in {j \in DOMAIN q : q[j].call = c}}

\* The goroutine that created the channel of c, the present one if none did.
PendingChan(s, c, by) ==
    LET known == Created(MakeRoom(s), c)
    IN  IF known = {} THEN by ELSE CHOOSE b \in known : TRUE

GetPendingChan(s, c, by) ==
    pending' = [pending EXCEPT ![s] =
        IF Created(MakeRoom(s), c) = {} THEN Append(MakeRoom(s), [call |-> c, by |-> by])
        ELSE MakeRoom(s)]

\* The entries but that of c: a map has one at most.
Without(q, c) ==
    LET at == {i \in DOMAIN q : q[i].call = c}
        i == CHOOSE j \in at : TRUE
    IN  IF at = {} THEN q ELSE SubSeq(q, 1, i - 1) \o SubSeq(q, i + 1, Len(q))

DeletePending(s, c) == pending' = [pending EXCEPT ![s] = Without(@, c)]
-----------------------------------------------------------------------------
(* Remote.Call and receive *)

\* Client.Request and WriteMessage.  A call that a handler makes is made while
\* the handler runs.
Write(c) ==
    /\ pc[c] = "idle"
    /\ Parent[c] # None => stage[Parent[c]] = "handling"
    /\ pc' = [pc EXCEPT ![c] = "written"]
    /\ stage' = [stage EXCEPT ![c] = "request"]
    /\ UNCHANGED <<wait, dest, pending, serve, ended>>

\* The connection is gone.
WriteFails(c) ==
    /\ pc[c] = "idle" /\ ended # {}
    /\ Parent[c] # None => stage[Parent[c]] = "handling"
    /\ pc' = [pc EXCEPT ![c] = "failed"]
    /\ UNCHANGED <<stage, wait, dest, pending, serve, ended>>

ReceiveWait(c) ==
    /\ pc[c] = "written"
    /\ pc' = [pc EXCEPT ![c] = "waiting"]
    /\ wait' = [wait EXCEPT ![c] = PendingChan(From[c], c, "receive")]
    /\ GetPendingChan(From[c], c, "receive")
    /\ UNCHANGED <<stage, dest, serve, ended>>

\* Mutant: discarding an entry closes its channel, and the wait ends.
ReceiveClosed(c) ==
    /\ pc[c] = "waiting"
    /\ \/ stage[c] = "buffered" /\ dest[c] = wait[c]
       \/ Created(pending[From[c]], c) = {}
    /\ pc' = [pc EXCEPT ![c] = "received"]
    /\ stage' = [stage EXCEPT ![c] = "consumed"]
    /\ UNCHANGED <<wait, dest, pending, serve, ended>>

Receive(c) ==
    /\ pc[c] = "waiting" /\ stage[c] = "buffered" /\ dest[c] = wait[c]
    /\ pc' = [pc EXCEPT ![c] = "received"]
    /\ stage' = [stage EXCEPT ![c] = "consumed"]
    /\ UNCHANGED <<wait, dest, pending, serve, ended>>

\* The entry is deleted, and the result decoded.
ReceiveDelete(c) ==
    /\ pc[c] = "received"
    /\ pc' = [pc EXCEPT ![c] = "returned"]
    /\ DeletePending(From[c], c)
    /\ UNCHANGED <<stage, wait, dest, serve, ended>>

\* ctx.Done: the entry stays in r.pending.
ReceiveDone(c) ==
    /\ pc[c] = "waiting" /\ c \in Deadline
    /\ pc' = [pc EXCEPT ![c] = "failed"]
    /\ UNCHANGED <<stage, wait, dest, pending, serve, ended>>
-----------------------------------------------------------------------------
(* Serve and handleRequest *)

\* Mutant: Serve runs the handler of a request itself.
ServeReadsInline(s) ==
    /\ s \notin ended /\ serve[s] = None
    /\ \A c \in Call : stage[c] = "handling" => From[c] = s

\* Serve is at ReadMessage.
ServeReads(s) == s \notin ended /\ serve[s] = None

\* A request: its handler gets a goroutine.
ServeRequest(s, c) ==
    /\ ServeReads(s) /\ From[c] # s /\ stage[c] = "request"
    /\ stage' = [stage EXCEPT ![c] = "handling"]
    /\ UNCHANGED <<pc, wait, dest, pending, serve, ended>>

\* Server.Handle returns and the response is written; the calls that the
\* handler made are over.
HandleRequest(c) ==
    /\ stage[c] = "handling"
    /\ \A d \in Call : Parent[d] = c => pc[d] \in {"idle", "returned", "failed"}
    /\ stage' = [stage EXCEPT ![c] = "response"]
    /\ UNCHANGED <<pc, wait, dest, pending, serve, ended>>

\* A response: Serve looks for its channel.
ServeResponse(s, c) ==
    /\ ServeReads(s) /\ From[c] = s /\ stage[c] = "response"
    /\ stage' = [stage EXCEPT ![c] = "sending"]
    /\ dest' = [dest EXCEPT ![c] = PendingChan(s, c, "serve")]
    /\ GetPendingChan(s, c, "serve")
    /\ serve' = [serve EXCEPT ![s] = c]
    /\ UNCHANGED <<pc, wait, ended>>

\* Mutant: the channel has no buffer, so that a send needs a receiver.
ServeSendUnbuffered(s) ==
    /\ serve[s] # None
    /\ pc[serve[s]] = "waiting" /\ dest[serve[s]] = wait[serve[s]]
    /\ stage' = [stage EXCEPT ![serve[s]] = "buffered"]
    /\ serve' = [serve EXCEPT ![s] = None]
    /\ UNCHANGED <<pc, wait, dest, pending, ended>>

\* The channel has a buffer of one.
ServeSend(s) ==
    /\ serve[s] # None
    /\ stage' = [stage EXCEPT ![serve[s]] = "buffered"]
    /\ serve' = [serve EXCEPT ![s] = None]
    /\ UNCHANGED <<pc, wait, dest, pending, ended>>

\* ReadMessage fails: Serve returns.  Callers are not told.
ServeEnds(s) ==
    /\ ServeReads(s)
    /\ ended' = ended \cup {s}
    /\ UNCHANGED <<pc, stage, wait, dest, pending, serve>>
-----------------------------------------------------------------------------
CallStep(c) ==
    \/ ReceiveWait(c) \/ Receive(c) \/ ReceiveDelete(c) \/ ReceiveDone(c)

ServeStep(s) ==
    ServeSend(s) \/ \E c \in Call : ServeRequest(s, c) \/ ServeResponse(s, c)

RemoteNext ==
    \/ \E c \in Call : Write(c) \/ WriteFails(c) \/ CallStep(c) \/ HandleRequest(c)
    \/ \E s \in Side : ServeStep(s) \/ ServeEnds(s)

RemoteSpec == RemoteInit /\ [][RemoteNext]_remoteVars

\* Goroutines are scheduled, Serve reads what arrived and handlers return.
RemoteFairSpec ==
    /\ RemoteSpec
    /\ \A c \in Call : WF_remoteVars(CallStep(c)) /\ WF_remoteVars(HandleRequest(c))
    /\ \A s \in Side : WF_remoteVars(ServeStep(s))
-----------------------------------------------------------------------------
(* Properties *)

\* r.pending holds at most PendingLimit entries, although calls that time out
\* leave theirs behind, and so do responses that nobody waits for any more.
PendingBounded ==
    \A s \in Side : PendingLimit[s] > 0 /\ PendingDiscard[s] > 0 =>
        Len(pending[s]) <= PendingLimit[s]

\* What the caller knows, and what the other end does, in terms of RPC.
CallerOf(p) ==
    CASE p = "idle" -> "idle"
      [] p \in {"written", "waiting"} -> "calling"
      [] p \in {"received", "returned"} -> "returned"
      [] p = "failed" -> "failed"

HandlingOf(g) ==
    CASE g \in {"none", "request"} -> "none"
      [] g = "handling" -> "running"
      [] OTHER -> "finished"

R == INSTANCE RPC WITH
        caller <- [c \in Call |-> CallerOf(pc[c])],
        handling <- [c \in Call |-> HandlingOf(stage[c])]

\* Call promises what RPC says: a handler runs at most once, and no call
\* returns a result that its handler did not produce, whatever is evicted
\* from r.pending, times out, or is answered late.
RPCSpec == R!RPCSpec

\* While the connection lasts, every call returns, calls that handlers make
\* back over the connection on which they are being served included: the two
\* Serve loops never wait for each other.  Nor does the eviction of r.pending
\* keep a call waiting, as long as an end that sets PendingLimit gives its calls
\* a deadline: the response to an evicted call goes to a channel nobody reads.
CallsReturn ==
    \A c \in Call : pc[c] # "idle" ~> pc[c] \in {"returned", "failed"} \/ ended # {}

\* Serve is never stuck on a response whose caller has given up.
ServeGoesOn == \A s \in Side : serve[s] # None ~> serve[s] = None
=============================================================================
