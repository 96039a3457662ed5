---------------------------- MODULE RemoteProofs ----------------------------
(***************************************************************************)
(* Remote, for every set of calls, every nesting of callbacks, and every   *)
(* limit and discard of the pending messages of each end.                  *)
(***************************************************************************)
EXTENDS Remote, SequenceTheorems, TLAPS

LEMMA ChooseIn == \A S : S # {} => (CHOOSE x \in S : TRUE) \in S
    OBVIOUS

\* cleanPending returns entries, and takes out num of them, or all.
LEMMA CleanPendingEffect ==
    ASSUME NEW q \in Seq(Entry), NEW num \in Nat
    PROVE  /\ CleanPending(q, num) \in Seq(Entry)
           /\ Len(CleanPending(q, num)) <= Len(q)
           /\ num > 0 /\ Len(q) > 0 => Len(CleanPending(q, num)) < Len(q)
<1> DEFINE k == IF num > Len(q) THEN Len(q) ELSE num
<1>1. k \in 0 .. Len(q) /\ (num > 0 /\ Len(q) > 0 => k > 0)
    OBVIOUS
<1>2. CleanPending(q, num) = SubSeq(q, k + 1, Len(q))
    BY DEF CleanPending
<1> HIDE DEF k
<1>3. /\ SubSeq(q, k + 1, Len(q)) \in Seq(Entry)
      /\ Len(SubSeq(q, k + 1, Len(q))) = Len(q) - k
    BY <1>1
<1>4. QED
    BY <1>1, <1>2, <1>3

\* With a limit, making room leaves a free place.
LEMMA MakeRoomEffect ==
    ASSUME RemoteTypeOK, NEW s \in Side
    PROVE  /\ MakeRoom(s) \in Seq(Entry)
           /\ PendingBounded /\ PendingLimit[s] > 0 /\ PendingDiscard[s] > 0 =>
                  Len(MakeRoom(s)) < PendingLimit[s]
<1>1. pending[s] \in Seq(Entry) /\ PendingLimit[s] \in Nat /\ PendingDiscard[s] \in Nat
    BY RemoteAssumption DEF RemoteTypeOK
<1>2. CASE PendingLimit[s] > 0 /\ Len(pending[s]) >= PendingLimit[s] /\ PendingDiscard[s] > 0
    BY <1>1, <1>2, CleanPendingEffect DEF MakeRoom, PendingBounded
<1>3. CASE ~(PendingLimit[s] > 0 /\ Len(pending[s]) >= PendingLimit[s] /\ PendingDiscard[s] > 0)
    BY <1>1, <1>3 DEF MakeRoom
<1>4. QED
    BY <1>2, <1>3

LEMMA CreatedType ==
    ASSUME NEW q \in Seq(Entry), NEW c
    PROVE  Created(q, c) \subseteq Creator
<1> SUFFICES ASSUME NEW b \in Created(q, c) PROVE b \in Creator
    OBVIOUS
<1>1. PICK j \in DOMAIN q : b = q[j].by
    BY DEF Created
<1>2. q[j] \in Entry
    OBVIOUS
<1>3. QED
    BY <1>1, <1>2 DEF Entry

LEMMA GetPendingChanEffect ==
    ASSUME RemoteTypeOK, NEW s \in Side, NEW c \in Call, NEW by \in Creator,
           GetPendingChan(s, c, by)
    PROVE  /\ pending' \in [Side -> Seq(Entry)]
           /\ PendingChan(s, c, by) \in Creator
           /\ PendingBounded => PendingBounded'
<1> DEFINE q == MakeRoom(s)
           e == [call |-> c, by |-> by]
           new == IF Created(q, c) = {} THEN Append(q, e) ELSE q
<1>1. q \in Seq(Entry) /\ e \in Entry
    BY MakeRoomEffect DEF Entry
<1>2. pending' = [pending EXCEPT ![s] = new]
    BY DEF GetPendingChan
<1>3. PendingChan(s, c, by) \in Creator
    <2>1. Created(q, c) \subseteq Creator
        BY <1>1, CreatedType
    <2>2. PendingChan(s, c, by) =
              IF Created(q, c) = {} THEN by ELSE CHOOSE b \in Created(q, c) : TRUE
        BY DEF PendingChan
    <2>3. CASE Created(q, c) = {}
        BY <2>2, <2>3
    <2>4. CASE Created(q, c) # {}
        <3>1. (CHOOSE b \in Created(q, c) : TRUE) \in Created(q, c)
            BY <2>4, ChooseIn
        <3>2. PendingChan(s, c, by) \in Created(q, c)
            BY <2>2, <2>4, <3>1, Zenon
        <3>3. QED
            BY <2>1, <3>2
    <2>5. QED
        BY <2>3, <2>4
<1> HIDE DEF q, e
<1>4. new \in Seq(Entry) /\ Len(new) <= Len(q) + 1
    BY <1>1
<1>5. PendingBounded /\ PendingLimit[s] > 0 /\ PendingDiscard[s] > 0 =>
          Len(q) < PendingLimit[s]
    BY MakeRoomEffect DEF q
<1> HIDE DEF new
<1>6. pending \in [Side -> Seq(Entry)] /\ PendingLimit \in [Side -> Nat]
    BY RemoteAssumption DEF RemoteTypeOK
<1>7. pending' \in [Side -> Seq(Entry)]
    BY <1>2, <1>4, <1>6
<1>8. ASSUME PendingBounded, NEW t \in Side, PendingLimit[t] > 0, PendingDiscard[t] > 0
      PROVE  Len(pending'[t]) <= PendingLimit[t]
    <2>1. CASE t = s
        <3>1. pending'[t] = new
            BY <1>2, <1>6, <2>1
        <3>2. Len(q) < PendingLimit[t] /\ Len(q) \in Nat /\ Len(new) \in Nat
            BY <1>1, <1>4, <1>5, <1>8, <2>1
        <3>3. QED
            BY <1>4, <1>6, <3>1, <3>2
    <2>2. CASE t # s
        BY <1>2, <1>6, <1>8, <2>2 DEF PendingBounded
    <2>3. QED
        BY <2>1, <2>2
<1>9. QED
    BY <1>3, <1>7, <1>8 DEF PendingBounded

LEMMA WithoutEffect ==
    ASSUME NEW q \in Seq(Entry), NEW c \in Call
    PROVE  Without(q, c) \in Seq(Entry) /\ Len(Without(q, c)) <= Len(q)
<1> DEFINE at == {i \in DOMAIN q : q[i].call = c}
           i == CHOOSE j \in at : TRUE
<1>1. CASE at = {}
    BY <1>1 DEF Without
<1>2. CASE at # {}
    <2>a. i \in at
        BY <1>2, ChooseIn
    <2>1. i \in 1 .. Len(q)
        BY <2>a
    <2>2. Without(q, c) = SubSeq(q, 1, i - 1) \o SubSeq(q, i + 1, Len(q))
        BY <1>2 DEF Without
    <2> HIDE DEF i, at
    <2>3. /\ SubSeq(q, 1, i - 1) \in Seq(Entry) /\ Len(SubSeq(q, 1, i - 1)) = i - 1
          /\ SubSeq(q, i + 1, Len(q)) \in Seq(Entry)
          /\ Len(SubSeq(q, i + 1, Len(q))) = Len(q) - i
        BY <2>1
    <2> DEFINE u == SubSeq(q, 1, i - 1)
               v == SubSeq(q, i + 1, Len(q))
    <2> HIDE DEF u, v
    <2>4. u \o v \in Seq(Entry) /\ Len(u \o v) = Len(u) + Len(v)
        BY <2>3, ConcatProperties DEF u, v
    <2>5. Without(q, c) = u \o v
        BY <2>2 DEF u, v
    <2>6. Len(u) = i - 1 /\ Len(v) = Len(q) - i
        BY <2>3 DEF u, v
    <2>7. QED
        BY <2>1, <2>4, <2>5, <2>6
<1>3. QED
    BY <1>1, <1>2

LEMMA DeletePendingEffect ==
    ASSUME RemoteTypeOK, NEW s \in Side, NEW c \in Call, DeletePending(s, c)
    PROVE  pending' \in [Side -> Seq(Entry)] /\ (PendingBounded => PendingBounded')
<1>1. pending \in [Side -> Seq(Entry)] /\ PendingLimit \in [Side -> Nat]
    BY RemoteAssumption DEF RemoteTypeOK
<1>2. pending' = [pending EXCEPT ![s] = Without(pending[s], c)]
    BY DEF DeletePending
<1>3. Without(pending[s], c) \in Seq(Entry) /\ Len(Without(pending[s], c)) <= Len(pending[s])
    BY <1>1, WithoutEffect
<1>4. \A t \in Side : pending'[t] \in Seq(Entry) /\ Len(pending'[t]) <= Len(pending[t])
    BY <1>1, <1>2, <1>3
<1>5. \A t \in Side : Len(pending[t]) \in Nat /\ Len(pending'[t]) \in Nat
    BY <1>1, <1>4
<1>6. QED
    BY <1>1, <1>2, <1>3, <1>4, <1>5 DEF PendingBounded

-----------------------------------------------------------------------------
(* Type correctness and the bound on the pending messages. *)

\* How far a call is on one side, and its messages on the other.
CallStages ==
    /\ \A c \in Call :
          /\ pc[c] = "idle" => stage[c] = "none"
          /\ pc[c] \in {"received", "returned"} => stage[c] = "consumed"
    /\ \A s \in Side : serve[s] # None =>
          stage[serve[s]] = "sending" /\ From[serve[s]] = s

RemoteInv == RemoteTypeOK /\ PendingBounded /\ CallStages

LEMMA RemoteInitInv == RemoteInit => RemoteInv
<1> SUFFICES ASSUME RemoteInit PROVE RemoteInv
    OBVIOUS
<1>1. RemoteTypeOK
    BY DEF RemoteInit, RemoteTypeOK, PC, Stage
<1>2. PendingBounded
    BY RemoteAssumption DEF RemoteInit, PendingBounded
<1>3. CallStages
    BY DEF RemoteInit, CallStages
<1>4. QED
    BY <1>1, <1>2, <1>3 DEF RemoteInv

LEMMA SamePending == PendingBounded /\ UNCHANGED pending => PendingBounded'
    BY DEF PendingBounded

\* One case per action.
LEMMA RemoteInductive == RemoteInv /\ [RemoteNext]_remoteVars => RemoteInv'
<1> SUFFICES ASSUME RemoteInv, [RemoteNext]_remoteVars PROVE RemoteInv'
    OBVIOUS
<1>1. RemoteTypeOK /\ PendingBounded /\ CallStages
    BY DEF RemoteInv
<1> USE RemoteAssumption
<1>2. ASSUME NEW c \in Call, Write(c) PROVE RemoteInv'
    <2>1. RemoteTypeOK'
        BY <1>1, <1>2 DEF Write, RemoteTypeOK, PC, Stage
    <2>2. CallStages'
        BY <1>1, <1>2 DEF Write, RemoteTypeOK, CallStages
    <2>3. QED
        BY <1>1, <1>2, <2>1, <2>2, SamePending DEF Write, RemoteInv
<1>3. ASSUME NEW c \in Call, WriteFails(c) PROVE RemoteInv'
    <2>1. RemoteTypeOK'
        BY <1>1, <1>3 DEF WriteFails, RemoteTypeOK, PC
    <2>2. CallStages'
        BY <1>1, <1>3 DEF WriteFails, RemoteTypeOK, CallStages
    <2>3. QED
        BY <1>1, <1>3, <2>1, <2>2, SamePending DEF WriteFails, RemoteInv
<1>4. ASSUME NEW c \in Call, ReceiveWait(c) PROVE RemoteInv'
    <2>1. /\ pending' \in [Side -> Seq(Entry)] /\ PendingBounded'
          /\ PendingChan(From[c], c, "receive") \in Creator
        BY <1>1, <1>4, GetPendingChanEffect DEF ReceiveWait, Creator
    <2>2. RemoteTypeOK'
        BY <1>1, <1>4, <2>1 DEF ReceiveWait, RemoteTypeOK, PC
    <2>3. CallStages'
        BY <1>1, <1>4 DEF ReceiveWait, RemoteTypeOK, CallStages
    <2>4. QED
        BY <2>1, <2>2, <2>3 DEF RemoteInv
<1>5. ASSUME NEW c \in Call, Receive(c) PROVE RemoteInv'
    <2>1. RemoteTypeOK'
        BY <1>1, <1>5 DEF Receive, RemoteTypeOK, PC, Stage
    <2>2. CallStages'
        BY <1>1, <1>5 DEF Receive, RemoteTypeOK, CallStages
    <2>3. QED
        BY <1>1, <1>5, <2>1, <2>2, SamePending DEF Receive, RemoteInv
<1>6. ASSUME NEW c \in Call, ReceiveDelete(c) PROVE RemoteInv'
    <2>1. pending' \in [Side -> Seq(Entry)] /\ PendingBounded'
        BY <1>1, <1>6, DeletePendingEffect DEF ReceiveDelete
    <2>2. RemoteTypeOK'
        BY <1>1, <1>6, <2>1 DEF ReceiveDelete, RemoteTypeOK, PC
    <2>3. CallStages'
        BY <1>1, <1>6 DEF ReceiveDelete, RemoteTypeOK, CallStages
    <2>4. QED
        BY <2>1, <2>2, <2>3 DEF RemoteInv
<1>7. ASSUME NEW c \in Call, ReceiveDone(c) PROVE RemoteInv'
    <2>1. RemoteTypeOK'
        BY <1>1, <1>7 DEF ReceiveDone, RemoteTypeOK, PC
    <2>2. CallStages'
        BY <1>1, <1>7 DEF ReceiveDone, RemoteTypeOK, CallStages
    <2>3. QED
        BY <1>1, <1>7, <2>1, <2>2, SamePending DEF ReceiveDone, RemoteInv
<1>8. ASSUME NEW c \in Call, HandleRequest(c) PROVE RemoteInv'
    <2>1. RemoteTypeOK'
        BY <1>1, <1>8 DEF HandleRequest, RemoteTypeOK, Stage
    <2>2. CallStages'
        BY <1>1, <1>8 DEF HandleRequest, RemoteTypeOK, CallStages
    <2>3. QED
        BY <1>1, <1>8, <2>1, <2>2, SamePending DEF HandleRequest, RemoteInv
<1>9. ASSUME NEW s \in Side, NEW c \in Call, ServeRequest(s, c) PROVE RemoteInv'
    <2>1. RemoteTypeOK'
        BY <1>1, <1>9 DEF ServeRequest, RemoteTypeOK, Stage
    <2>2. CallStages'
        BY <1>1, <1>9 DEF ServeRequest, RemoteTypeOK, CallStages
    <2>3. QED
        BY <1>1, <1>9, <2>1, <2>2, SamePending DEF ServeRequest, RemoteInv
<1>10. ASSUME NEW s \in Side, NEW c \in Call, ServeResponse(s, c) PROVE RemoteInv'
    <2>1. /\ pending' \in [Side -> Seq(Entry)] /\ PendingBounded'
          /\ PendingChan(s, c, "serve") \in Creator
        BY <1>1, <1>10, GetPendingChanEffect DEF ServeResponse, Creator
    <2>2. RemoteTypeOK'
        BY <1>1, <1>10, <2>1 DEF ServeResponse, RemoteTypeOK, Stage
    <2>3. CallStages'
        BY <1>1, <1>10 DEF ServeResponse, RemoteTypeOK, CallStages
    <2>4. QED
        BY <2>1, <2>2, <2>3 DEF RemoteInv
<1>11. ASSUME NEW s \in Side, ServeSend(s) PROVE RemoteInv'
    <2>1. RemoteTypeOK'
        BY <1>1, <1>11 DEF ServeSend, RemoteTypeOK, Stage
    <2>2. CallStages'
        BY <1>1, <1>11 DEF ServeSend, RemoteTypeOK, CallStages
    <2>3. QED
        BY <1>1, <1>11, <2>1, <2>2, SamePending DEF ServeSend, RemoteInv
<1>12. ASSUME NEW s \in Side, ServeEnds(s) PROVE RemoteInv'
    <2>1. RemoteTypeOK' /\ CallStages'
        BY <1>1, <1>12 DEF ServeEnds, RemoteTypeOK, CallStages
    <2>2. QED
        BY <1>1, <1>12, <2>1, SamePending DEF ServeEnds, RemoteInv
<1>13. CASE UNCHANGED remoteVars
    BY <1>1, <1>13 DEF RemoteInv, RemoteTypeOK, PendingBounded, CallStages, remoteVars
<1>14. QED
    BY <1>2, <1>3, <1>4, <1>5, <1>6, <1>7, <1>8, <1>9, <1>10, <1>11, <1>12, <1>13
    DEF RemoteNext, CallStep, ServeStep

LEMMA RemoteInvHolds == RemoteSpec => []RemoteInv
    BY RemoteInitInv, RemoteInductive, PTL DEF RemoteSpec

\* Whatever the calls, every waiting caller and every response that Serve sends
\* has a channel, and r.pending holds entries of calls.
THEOREM RemoteTypeCorrect == RemoteSpec => []RemoteTypeOK
<1>1. RemoteInv => RemoteTypeOK
    BY DEF RemoteInv
<1>2. QED
    BY <1>1, RemoteInvHolds, PTL

\* The messages that a Remote holds for callers that gave up, or never came,
\* stay within PendingLimit, for every limit, discard and number of calls.
THEOREM PendingBoundedHolds == RemoteSpec => []PendingBounded
<1>1. RemoteInv => PendingBounded
    BY DEF RemoteInv
<1>2. QED
    BY <1>1, RemoteInvHolds, PTL
-----------------------------------------------------------------------------
(* Refinement. *)

\* A step that moves pc[c] alone, or stage[c] alone, in terms of RPC.
LEMMA CallerStep ==
    ASSUME RemoteTypeOK, NEW c \in Call, NEW p \in PC, pc' = [pc EXCEPT ![c] = p],
           \A d \in Call : HandlingOf(stage'[d]) = HandlingOf(stage[d])
    PROVE  /\ [d \in Call |-> CallerOf(pc'[d])] =
                  [[d \in Call |-> CallerOf(pc[d])] EXCEPT ![c] = CallerOf(p)]
           /\ [d \in Call |-> HandlingOf(stage'[d])] = [d \in Call |-> HandlingOf(stage[d])]
    BY DEF RemoteTypeOK

LEMMA HandlingStep ==
    ASSUME RemoteTypeOK, NEW c \in Call, NEW g \in Stage, stage' = [stage EXCEPT ![c] = g],
           UNCHANGED pc
    PROVE  /\ [d \in Call |-> HandlingOf(stage'[d])] =
                  [[d \in Call |-> HandlingOf(stage[d])] EXCEPT ![c] = HandlingOf(g)]
           /\ [d \in Call |-> CallerOf(pc'[d])] = [d \in Call |-> CallerOf(pc[d])]
    BY DEF RemoteTypeOK

\* Nothing that RPC sees changes.
LEMMA HiddenStep ==
    ASSUME \A d \in Call : /\ CallerOf(pc'[d]) = CallerOf(pc[d])
                           /\ HandlingOf(stage'[d]) = HandlingOf(stage[d])
    PROVE  UNCHANGED R!rpcVars
    BY DEF R!rpcVars

LEMMA RemoteStepRefines ==
    RemoteInv /\ [RemoteNext]_remoteVars => [R!RPCNext]_(R!rpcVars)
<1> SUFFICES ASSUME RemoteInv, [RemoteNext]_remoteVars PROVE R!RPCNext \/ UNCHANGED R!rpcVars
    OBVIOUS
<1>1. RemoteTypeOK /\ CallStages /\ pc \in [Call -> PC] /\ stage \in [Call -> Stage]
    BY DEF RemoteInv, RemoteTypeOK
<1>2. ASSUME NEW c \in Call, Write(c) PROVE R!Invoke(c)
    <2>1. \A d \in Call : HandlingOf(stage'[d]) = HandlingOf(stage[d])
        BY <1>1, <1>2 DEF Write, CallStages, HandlingOf
    <2>2. CallerOf(pc[c]) = "idle" /\ CallerOf("written") = "calling" /\ "written" \in PC
        BY <1>2 DEF Write, CallerOf, PC
    <2>3. QED
        BY <1>1, <1>2, <2>1, <2>2, CallerStep DEF Write, R!Invoke
<1>3. ASSUME NEW c \in Call, WriteFails(c) \/ ReceiveDone(c) PROVE R!Fail(c)
    <2>1. /\ pc' = [pc EXCEPT ![c] = "failed"] /\ UNCHANGED stage
          /\ CallerOf(pc[c]) \in {"idle", "calling"} /\ CallerOf("failed") = "failed" /\ "failed" \in PC
        BY <1>3 DEF WriteFails, ReceiveDone, CallerOf, PC
    <2>2. QED
        BY <1>1, <2>1, CallerStep DEF R!Fail
<1>4. ASSUME NEW c \in Call, Receive(c) PROVE R!Result(c)
    <2>1. \A d \in Call : HandlingOf(stage'[d]) = HandlingOf(stage[d])
        BY <1>1, <1>4 DEF Receive, HandlingOf
    <2>2. /\ CallerOf(pc[c]) = "calling" /\ HandlingOf(stage[c]) = "finished"
          /\ CallerOf("received") = "returned" /\ "received" \in PC
        BY <1>4 DEF Receive, CallerOf, HandlingOf, PC
    <2>3. QED
        BY <1>1, <1>4, <2>1, <2>2, CallerStep DEF Receive, R!Result
<1>5. ASSUME NEW c \in Call, ReceiveWait(c) \/ ReceiveDelete(c) PROVE UNCHANGED R!rpcVars
    <2>1. \A d \in Call : CallerOf(pc'[d]) = CallerOf(pc[d]) /\ stage'[d] = stage[d]
        BY <1>1, <1>5 DEF ReceiveWait, ReceiveDelete, CallerOf
    <2>2. QED
        BY <2>1, HiddenStep
<1>6. ASSUME NEW s \in Side, NEW c \in Call, ServeRequest(s, c) PROVE R!Begin(c)
    <2>1. pc[c] \in {"written", "waiting", "failed"}
        BY <1>1, <1>6 DEF ServeRequest, CallStages, PC
    <2>2. /\ CallerOf(pc[c]) \in {"calling", "failed"} /\ HandlingOf(stage[c]) = "none"
          /\ HandlingOf("handling") = "running" /\ "handling" \in Stage
        BY <1>6, <2>1 DEF ServeRequest, CallerOf, HandlingOf, Stage
    <2>3. QED
        BY <1>1, <1>6, <2>2, HandlingStep DEF ServeRequest, R!Begin
<1>7. ASSUME NEW c \in Call, HandleRequest(c) PROVE R!Finish(c)
    <2>1. /\ HandlingOf(stage[c]) = "running"
          /\ HandlingOf("response") = "finished" /\ "response" \in Stage
        BY <1>7 DEF HandleRequest, HandlingOf, Stage
    <2>2. QED
        BY <1>1, <1>7, <2>1, HandlingStep DEF HandleRequest, R!Finish
<1>8. ASSUME NEW s \in Side, NEW c \in Call, ServeResponse(s, c) PROVE UNCHANGED R!rpcVars
    <2>1. \A d \in Call : pc'[d] = pc[d] /\ HandlingOf(stage'[d]) = HandlingOf(stage[d])
        BY <1>1, <1>8 DEF ServeResponse, HandlingOf
    <2>2. QED
        BY <2>1, HiddenStep
<1>9. ASSUME NEW s \in Side, ServeSend(s) PROVE UNCHANGED R!rpcVars
    <2>1. serve[s] \in Call /\ stage[serve[s]] = "sending"
        BY <1>1, <1>9 DEF ServeSend, RemoteTypeOK, CallStages
    <2>2. \A d \in Call : pc'[d] = pc[d] /\ HandlingOf(stage'[d]) = HandlingOf(stage[d])
        BY <1>1, <1>9, <2>1 DEF ServeSend, HandlingOf
    <2>3. QED
        BY <2>2, HiddenStep
<1>10. ASSUME NEW s \in Side, ServeEnds(s) PROVE UNCHANGED R!rpcVars
    BY <1>10, HiddenStep DEF ServeEnds
<1>11. CASE UNCHANGED remoteVars
    BY <1>11, HiddenStep DEF remoteVars
<1>12. QED
    BY <1>2, <1>3, <1>4, <1>5, <1>6, <1>7, <1>8, <1>9, <1>10, <1>11
    DEF RemoteNext, CallStep, ServeStep, R!RPCNext

\* Remote implements RPC: evictions, time-outs and late responses never make a
\* call return without its handler, nor a handler run twice.
THEOREM RemoteImplementsRPC == RemoteSpec => RPCSpec
<1>1. RemoteInit => R!RPCInit
    BY DEF RemoteInit, R!RPCInit, CallerOf, HandlingOf
<1>2. RemoteInv /\ [RemoteNext]_remoteVars => [R!RPCNext]_(R!rpcVars)
    BY RemoteStepRefines
<1>3. QED
    BY <1>1, <1>2, RemoteInvHolds, PTL DEF RemoteSpec, RPCSpec, R!RPCSpec
-----------------------------------------------------------------------------
(* Who creates the channel.  receive and Serve race for it: the caller may   *)
(* ask for the channel of its ID before or after the response arrives.       *)

\* An end that discards nothing from r.pending, the default.
KeepsPending(s) == PendingLimit[s] = 0 \/ PendingDiscard[s] = 0

\* A caller waits on the very channel that Serve sends its response to,
\* whichever of the two asked for it first, as long as its end discards no
\* pending messages.
ResponseFindsCaller ==
    \A c \in Call : KeepsPending(From[c]) =>
        (pc[c] = "waiting" /\ stage[c] \in {"sending", "buffered"} => dest[c] = wait[c])

\* Before the race nobody has created the channel of c; after it there is one,
\* which each of the two that asked for it holds.
ChannelOf(c) ==
    LET made == Created(pending[From[c]], c)
    IN  /\ pc[c] = "idle" => made = {}
        /\ pc[c] = "written" /\ stage[c] \in {"none", "request", "handling", "response"} =>
               made = {}
        /\ pc[c] = "waiting" => made = {wait[c]}
        /\ pc[c] \in {"written", "waiting"} /\ stage[c] \in {"sending", "buffered"} =>
               made = {dest[c]}
        /\ pc[c] \in {"written", "waiting"} => stage[c] # "consumed"

ChannelInv == RemoteInv /\ \A c \in Call : KeepsPending(From[c]) => ChannelOf(c)

LEMMA CreatedAppend ==
    ASSUME NEW q \in Seq(Entry), NEW e \in Entry, NEW d
    PROVE  Created(Append(q, e), d) = Created(q, d) \cup (IF e.call = d THEN {e.by} ELSE {})
<1> DEFINE r == Append(q, e)
<1>1. /\ Len(q) \in Nat /\ DOMAIN q = 1 .. Len(q) /\ DOMAIN r = 1 .. Len(q) + 1
      /\ \A i \in 1 .. Len(q) : r[i] = q[i]
      /\ r[Len(q) + 1] = e
    OBVIOUS
<1> HIDE DEF r
<1>2. ASSUME NEW b \in Created(r, d)
      PROVE  b \in Created(q, d) \cup (IF e.call = d THEN {e.by} ELSE {})
    <2>1. PICK i \in DOMAIN r : r[i].call = d /\ b = r[i].by
        BY <1>2 DEF Created
    <2>2. CASE i \in 1 .. Len(q)
        BY <1>1, <2>1, <2>2 DEF Created
    <2>3. CASE i = Len(q) + 1
        BY <1>1, <2>1, <2>3
    <2>4. QED
        BY <1>1, <2>2, <2>3
<1>3. ASSUME NEW b \in Created(q, d) PROVE b \in Created(r, d)
    <2>1. PICK i \in DOMAIN q : q[i].call = d /\ b = q[i].by
        BY <1>3 DEF Created
    <2>2. i \in DOMAIN r /\ r[i] = q[i]
        BY <1>1, <2>1
    <2>3. QED
        BY <2>1, <2>2 DEF Created
<1>4. ASSUME e.call = d PROVE e.by \in Created(r, d)
    <2>1. Len(q) + 1 \in DOMAIN r
        BY <1>1
    <2>2. QED
        BY <1>1, <1>4, <2>1 DEF Created
<1>5. QED
    BY <1>2, <1>3, <1>4 DEF r

\* delete(r.pending, key) leaves the other keys alone.
LEMMA WithoutOther ==
    ASSUME NEW q \in Seq(Entry), NEW c \in Call, NEW d \in Call, d # c
    PROVE  Created(Without(q, c), d) = Created(q, d)
<1> DEFINE at == {i \in DOMAIN q : q[i].call = c}
           i == CHOOSE j \in at : TRUE
<1>1. CASE at = {}
    BY <1>1 DEF Without
<1>2. CASE at # {}
    <2>a. i \in at
        BY <1>2, ChooseIn
    <2>1. i \in 1 .. Len(q) /\ q[i].call = c /\ Len(q) \in Nat
        BY <2>a
    <2>2. Without(q, c) = SubSeq(q, 1, i - 1) \o SubSeq(q, i + 1, Len(q))
        BY <1>2 DEF Without
    <2> HIDE DEF i, at
    <2> DEFINE u == SubSeq(q, 1, i - 1)
               v == SubSeq(q, i + 1, Len(q))
               w == u \o v
    <2>3. /\ u \in Seq(Entry) /\ Len(u) = i - 1
          /\ \A k \in 1 .. i - 1 : u[k] = q[k]
        BY <2>1
    <2>4. /\ v \in Seq(Entry) /\ Len(v) = Len(q) - i
          /\ \A k \in 1 .. Len(q) - i : v[k] = q[k + i]
        BY <2>1
    <2> HIDE DEF u, v
    <2>5. /\ w \in Seq(Entry) /\ Len(w) = Len(u) + Len(v)
          /\ \A k \in 1 .. Len(u) + Len(v) :
                w[k] = IF k <= Len(u) THEN u[k] ELSE v[k - Len(u)]
        BY <2>3, <2>4, ConcatProperties
    <2> HIDE DEF w
    <2>6. /\ DOMAIN w = 1 .. Len(q) - 1 /\ DOMAIN q = 1 .. Len(q)
          /\ \A k \in 1 .. i - 1 : w[k] = q[k]
          /\ \A k \in i .. Len(q) - 1 : w[k] = q[k + 1]
        <3>1. Len(w) = Len(q) - 1 /\ Len(u) + Len(v) = Len(q) - 1
            BY <2>1, <2>3, <2>4, <2>5
        <3>2. ASSUME NEW k \in 1 .. i - 1 PROVE w[k] = q[k]
            BY <2>1, <2>3, <2>5, <3>1, <3>2
        <3>3. ASSUME NEW k \in i .. Len(q) - 1 PROVE w[k] = q[k + 1]
            <4>1. k - (i - 1) \in 1 .. Len(q) - i /\ k \in 1 .. Len(q) - 1 /\ ~(k <= i - 1)
                BY <2>1, <3>3
            <4>2. w[k] = v[k - (i - 1)]
                BY <2>3, <2>5, <3>1, <4>1
            <4>3. v[k - (i - 1)] = q[(k - (i - 1)) + i] /\ (k - (i - 1)) + i = k + 1
                BY <2>1, <2>4, <4>1
            <4>4. QED
                BY <4>2, <4>3
        <3>4. QED
            BY <2>5, <3>1, <3>2, <3>3
    <2>7. ASSUME NEW b \in Created(w, d) PROVE b \in Created(q, d)
        <3>1. PICK k \in DOMAIN w : w[k].call = d /\ b = w[k].by
            BY <2>7 DEF Created
        <3>2. PICK m \in DOMAIN q : w[k] = q[m]
            BY <2>1, <2>6, <3>1
        <3>3. QED
            BY <3>1, <3>2 DEF Created
    <2>8. ASSUME NEW b \in Created(q, d) PROVE b \in Created(w, d)
        <3>1. PICK m \in DOMAIN q : q[m].call = d /\ b = q[m].by
            BY <2>8 DEF Created
        <3>2. m # i
            BY <2>1, <3>1
        <3>3. CASE m < i
            <4>1. m \in DOMAIN w /\ w[m] = q[m]
                BY <2>1, <2>6, <3>1, <3>3
            <4>2. QED
                BY <3>1, <4>1 DEF Created
        <3>4. CASE m > i
            <4>1. m - 1 \in DOMAIN w /\ w[m - 1] = q[m]
                BY <2>1, <2>6, <3>1, <3>4
            <4>2. QED
                BY <3>1, <4>1 DEF Created
        <3>5. QED
            BY <2>1, <2>6, <3>2, <3>3, <3>4
    <2>9. Created(w, d) = Created(q, d)
        BY <2>7, <2>8
    <2>10. Without(q, c) = w
        BY <2>2 DEF u, v, w
    <2>11. QED
        BY <2>9, <2>10
<1>3. QED
    BY <1>1, <1>2

\* Asking for the channel of c creates it, or finds the one there is; the other
\* channels of ends that discard nothing stay.
LEMMA GetPendingChanKeeps ==
    ASSUME RemoteTypeOK, NEW s \in Side, NEW c \in Call, NEW by \in Creator,
           GetPendingChan(s, c, by)
    PROVE  /\ \A t \in Side, d \in Call : KeepsPending(t) /\ (t # s \/ d # c) =>
                  Created(pending'[t], d) = Created(pending[t], d)
           /\ KeepsPending(s) /\ Created(pending[s], c) = {} =>
                  PendingChan(s, c, by) = by /\ Created(pending'[s], c) = {by}
           /\ \A b : KeepsPending(s) /\ Created(pending[s], c) = {b} =>
                  PendingChan(s, c, by) = b /\ Created(pending'[s], c) = {b}
<1> DEFINE q == MakeRoom(s)
           e == [call |-> c, by |-> by]
<1>1. pending \in [Side -> Seq(Entry)] /\ e \in Entry /\ e.call = c /\ e.by = by
    BY DEF RemoteTypeOK, Entry
<1>2. KeepsPending(s) => q = pending[s]
    BY RemoteAssumption DEF KeepsPending, MakeRoom
<1>3. /\ \A t \in Side : t # s => pending'[t] = pending[t]
      /\ pending'[s] = IF Created(q, c) = {} THEN Append(q, e) ELSE q
    BY <1>1 DEF GetPendingChan
<1>4. PendingChan(s, c, by) =
          IF Created(q, c) = {} THEN by ELSE CHOOSE b \in Created(q, c) : TRUE
    BY DEF PendingChan
<1> HIDE DEF q, e
<1>5. pending[s] \in Seq(Entry)
    BY <1>1
<1>6. \A d : Created(Append(pending[s], e), d) =
          Created(pending[s], d) \cup (IF e.call = d THEN {e.by} ELSE {})
    BY <1>1, <1>5, CreatedAppend
<1>7. ASSUME NEW t \in Side, NEW d \in Call, KeepsPending(t), t # s \/ d # c
      PROVE  Created(pending'[t], d) = Created(pending[t], d)
    <2>1. CASE t # s
        BY <1>3, <2>1
    <2>2. CASE t = s
        BY <1>1, <1>2, <1>3, <1>6, <1>7, <2>2
    <2>3. QED
        BY <2>1, <2>2
<1>8. ASSUME KeepsPending(s), Created(pending[s], c) = {}
      PROVE  PendingChan(s, c, by) = by /\ Created(pending'[s], c) = {by}
    BY <1>1, <1>2, <1>3, <1>4, <1>6, <1>8
<1>9. ASSUME NEW b, KeepsPending(s), Created(pending[s], c) = {b}
      PROVE  PendingChan(s, c, by) = b /\ Created(pending'[s], c) = {b}
    <2>1. Created(q, c) # {} /\ Created(q, c) = {b}
        BY <1>2, <1>9
    <2>2. (CHOOSE x \in Created(q, c) : TRUE) \in Created(q, c)
        BY <2>1, ChooseIn
    <2>3. PendingChan(s, c, by) \in Created(q, c)
        BY <1>4, <2>1, <2>2, Zenon
    <2>4. QED
        BY <1>2, <1>3, <1>9, <2>1, <2>3
<1>10. QED
    BY <1>7, <1>8, <1>9

\* A step that leaves c and its channel alone.
LEMMA ChannelStays ==
    ASSUME NEW c \in Call, ChannelOf(c),
           pc'[c] = pc[c], stage'[c] = stage[c], wait'[c] = wait[c], dest'[c] = dest[c],
           Created(pending'[From[c]], c) = Created(pending[From[c]], c)
    PROVE  ChannelOf(c)'
    BY DEF ChannelOf

\* One case per action that moves a call or touches r.pending.
LEMMA ChannelInductive == ChannelInv /\ [RemoteNext]_remoteVars => ChannelInv'
<1> SUFFICES ASSUME ChannelInv, [RemoteNext]_remoteVars,
                    NEW d \in Call, KeepsPending(From[d])
             PROVE  ChannelOf(d)'
    BY RemoteInductive DEF ChannelInv, KeepsPending
<1>1. RemoteTypeOK /\ CallStages /\ ChannelOf(d) /\ RemoteInv
    BY DEF ChannelInv, RemoteInv
<1>2. /\ pc \in [Call -> PC] /\ stage \in [Call -> Stage]
      /\ wait \in [Call -> Creator \cup {None}] /\ dest \in [Call -> Creator \cup {None}]
      /\ pending \in [Side -> Seq(Entry)] /\ serve \in [Side -> Call \cup {None}]
    BY <1>1 DEF RemoteTypeOK
<1>3. From[d] \in Side /\ \A c \in Call : From[c] \in Side
    BY RemoteAssumption
<1>4. /\ pc[d] = "idle" => stage[d] = "none"
      /\ \A s \in Side : serve[s] # None => stage[serve[s]] = "sending"
    BY <1>1 DEF CallStages
<1>5. ASSUME NEW c \in Call, Write(c) \/ WriteFails(c) \/ Receive(c) \/ ReceiveDone(c)
                             \/ HandleRequest(c)
      PROVE  ChannelOf(d)'
    <2>1. /\ \A x \in Call \ {c} : pc'[x] = pc[x] /\ stage'[x] = stage[x]
          /\ UNCHANGED <<wait, dest, pending>>
        BY <1>2, <1>5 DEF Write, WriteFails, Receive, ReceiveDone, HandleRequest
    <2>2. CASE c # d
        BY <1>1, <2>1, <2>2, ChannelStays
    <2>3. CASE c = d
        BY <1>1, <1>2, <1>4, <1>5, <2>1, <2>3
        DEF Write, WriteFails, Receive, ReceiveDone, HandleRequest, ChannelOf
    <2>4. QED
        BY <2>2, <2>3
<1>6. ASSUME NEW c \in Call, ReceiveWait(c) PROVE ChannelOf(d)'
    <2>1. /\ pc[c] = "written" /\ pc' = [pc EXCEPT ![c] = "waiting"]
          /\ wait' = [wait EXCEPT ![c] = PendingChan(From[c], c, "receive")]
          /\ GetPendingChan(From[c], c, "receive")
          /\ UNCHANGED <<stage, dest>>
        BY <1>6 DEF ReceiveWait
    <2>2. CASE c # d
        <3>1. Created(pending'[From[d]], d) = Created(pending[From[d]], d)
            BY <1>1, <1>3, <2>1, <2>2, GetPendingChanKeeps DEF Creator
        <3>2. QED
            BY <1>1, <1>2, <2>1, <2>2, <3>1, ChannelStays
    <2>3. CASE c = d
        <3>1. /\ pc'[d] = "waiting" /\ wait'[d] = PendingChan(From[d], d, "receive")
              /\ stage'[d] = stage[d] /\ dest'[d] = dest[d]
            BY <1>2, <2>1, <2>3
        <3>2. CASE stage[d] \in {"sending", "buffered"}
            <4>1. Created(pending[From[d]], d) = {dest[d]}
                BY <1>1, <2>1, <2>3, <3>2 DEF ChannelOf
            <4>2. wait'[d] = dest[d] /\ Created(pending'[From[d]], d) = {dest[d]}
                BY <1>1, <1>3, <2>1, <2>3, <3>1, <4>1, GetPendingChanKeeps DEF Creator
            <4>3. QED
                BY <3>1, <3>2, <4>2 DEF ChannelOf
        <3>3. CASE stage[d] \notin {"sending", "buffered"}
            <4>1. Created(pending[From[d]], d) = {} /\ stage[d] # "consumed"
                BY <1>1, <1>2, <2>1, <2>3, <3>3 DEF ChannelOf, Stage
            <4>2. wait'[d] = "receive" /\ Created(pending'[From[d]], d) = {"receive"}
                BY <1>1, <1>3, <2>1, <2>3, <3>1, <4>1, GetPendingChanKeeps DEF Creator
            <4>3. QED
                BY <3>1, <3>3, <4>1, <4>2 DEF ChannelOf
        <3>4. QED
            BY <3>2, <3>3
    <2>4. QED
        BY <2>2, <2>3
<1>7. ASSUME NEW c \in Call, ReceiveDelete(c) PROVE ChannelOf(d)'
    <2>1. /\ pc' = [pc EXCEPT ![c] = "returned"] /\ UNCHANGED <<stage, wait, dest>>
          /\ pending' = [pending EXCEPT ![From[c]] = Without(pending[From[c]], c)]
        BY <1>7 DEF ReceiveDelete, DeletePending
    <2>2. CASE c # d
        <3>1. Created(Without(pending[From[c]], c), d) = Created(pending[From[c]], d)
            BY <1>2, <1>3, <2>2, WithoutOther
        <3>2. Created(pending'[From[d]], d) = Created(pending[From[d]], d)
            BY <1>2, <1>3, <2>1, <3>1
        <3>3. QED
            BY <1>1, <1>2, <2>1, <2>2, <3>2, ChannelStays
    <2>3. CASE c = d
        BY <1>2, <2>1, <2>3 DEF ChannelOf
    <2>4. QED
        BY <2>2, <2>3
<1>8. ASSUME NEW s \in Side, NEW c \in Call, ServeRequest(s, c) PROVE ChannelOf(d)'
    BY <1>1, <1>2, <1>8 DEF ServeRequest, ChannelOf
<1>9. ASSUME NEW s \in Side, NEW c \in Call, ServeResponse(s, c) PROVE ChannelOf(d)'
    <2>1. /\ From[c] = s /\ stage[c] = "response" /\ stage' = [stage EXCEPT ![c] = "sending"]
          /\ dest' = [dest EXCEPT ![c] = PendingChan(s, c, "serve")]
          /\ GetPendingChan(s, c, "serve")
          /\ UNCHANGED <<pc, wait>>
        BY <1>9 DEF ServeResponse
    <2>2. CASE c # d
        <3>1. Created(pending'[From[d]], d) = Created(pending[From[d]], d)
            BY <1>1, <1>3, <2>1, <2>2, GetPendingChanKeeps DEF Creator
        <3>2. QED
            BY <1>1, <1>2, <2>1, <2>2, <3>1, ChannelStays
    <2>3. CASE c = d
        <3>1. /\ stage'[d] = "sending" /\ dest'[d] = PendingChan(From[d], d, "serve")
              /\ pc'[d] = pc[d] /\ wait'[d] = wait[d] /\ pc[d] # "idle"
            BY <1>2, <1>4, <2>1, <2>3
        <3>2. CASE pc[d] = "written"
            <4>1. Created(pending[From[d]], d) = {}
                BY <1>1, <2>1, <2>3, <3>2 DEF ChannelOf
            <4>2. dest'[d] = "serve" /\ Created(pending'[From[d]], d) = {"serve"}
                BY <1>1, <1>3, <2>1, <2>3, <3>1, <4>1, GetPendingChanKeeps DEF Creator
            <4>3. QED
                BY <3>1, <3>2, <4>2 DEF ChannelOf
        <3>3. CASE pc[d] = "waiting"
            <4>1. Created(pending[From[d]], d) = {wait[d]}
                BY <1>1, <3>3 DEF ChannelOf
            <4>2. dest'[d] = wait[d] /\ Created(pending'[From[d]], d) = {wait[d]}
                BY <1>1, <1>3, <2>1, <2>3, <3>1, <4>1, GetPendingChanKeeps DEF Creator
            <4>3. QED
                BY <3>1, <3>3, <4>2 DEF ChannelOf
        <3>4. CASE pc[d] \notin {"written", "waiting"}
            BY <3>1, <3>4 DEF ChannelOf
        <3>5. QED
            BY <3>2, <3>3, <3>4
    <2>4. QED
        BY <2>2, <2>3
<1>10. ASSUME NEW s \in Side, ServeSend(s) PROVE ChannelOf(d)'
    <2>1. /\ stage[serve[s]] = "sending" /\ serve[s] \in Call
          /\ stage' = [stage EXCEPT ![serve[s]] = "buffered"]
          /\ UNCHANGED <<pc, wait, dest, pending>>
        BY <1>2, <1>4, <1>10 DEF ServeSend
    <2>2. QED
        BY <1>1, <1>2, <2>1 DEF ChannelOf
<1>11. ASSUME NEW s \in Side, ServeEnds(s) PROVE ChannelOf(d)'
    BY <1>1, <1>11 DEF ServeEnds, ChannelOf
<1>12. CASE UNCHANGED remoteVars
    BY <1>1, <1>12 DEF remoteVars, ChannelOf
<1>13. QED
    BY <1>5, <1>6, <1>7, <1>8, <1>9, <1>10, <1>11, <1>12 DEF RemoteNext, CallStep, ServeStep

LEMMA ChannelInvHolds == RemoteSpec => []ChannelInv
<1>1. ASSUME RemoteInit PROVE ChannelInv
    <2>1. ASSUME NEW c \in Call PROVE ChannelOf(c)
        <3>1. pc[c] = "idle" /\ Created(pending[From[c]], c) = {}
            BY <1>1, RemoteAssumption DEF RemoteInit, Created
        <3>2. QED
            BY <3>1 DEF ChannelOf
    <2>2. QED
        BY <1>1, <2>1, RemoteInitInv DEF ChannelInv
<1>2. QED
    BY <1>1, ChannelInductive, PTL DEF RemoteSpec

\* On an end that discards no pending messages, no response is ever sent to a
\* channel other than the one its caller waits on, for every set of calls and
\* every order in which receive and Serve come to getPendingChan.
THEOREM ResponseFindsCallerHolds == RemoteSpec => []ResponseFindsCaller
<1>1. ASSUME ChannelInv PROVE ResponseFindsCaller
    <2> SUFFICES ASSUME NEW c \in Call, KeepsPending(From[c]), pc[c] = "waiting",
                        stage[c] \in {"sending", "buffered"}
                 PROVE  dest[c] = wait[c]
        BY DEF ResponseFindsCaller
    <2>1. ChannelOf(c)
        BY <1>1 DEF ChannelInv
    <2>2. {dest[c]} = {wait[c]}
        BY <2>1 DEF ChannelOf
    <2>3. QED
        BY <2>2
<1>2. QED
    BY <1>1, ChannelInvHolds, PTL

=============================================================================
