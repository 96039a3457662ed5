----------------------------- MODULE AgentProofs -----------------------------
(***************************************************************************)
(* UpdatePeers and Whitelist, for every set of hosts, clients, strangers,  *)
(* addresses and settings: what an update removes, and what it must leave  *)
(* alone.                                                                  *)
(***************************************************************************)
EXTENDS Agent, TLAPS

\* The stages at which the pool's answer to this update is known.
Answered == {"dropping", "asking", "connecting", "done"}

\* Unless a call failed, an invalid peer was dropped, is being dropped, or is still in
\* the list; once the loop is over all of them were.
Dealt ==
    /\ At("done") => ~up.errs
    /\ ~up.errs =>
          /\ At("dropping") => up.invalid \subseteq told \cup up.todo \cup {up.cur}
          /\ up.pc \in Answered \ {"dropping"} => up.invalid \subseteq told

\* With StrictPeers, what is dropped was connected and is not confirmed.
StrictPlan ==
    config.strict =>
        /\ At("snapped") => told = {}
        /\ up.pc \in Answered => up.invalid = Unconfirmed(up.active, up.snap)
        /\ At("dropping") => up.todo \cup ({up.cur} \ {None}) \subseteq up.invalid
        /\ told \subseteq Unconfirmed(up.active, up.snap)

\* The types, apart for UpdatePeers and for everything else.
NodeType ==
    /\ config \in Config
    /\ peers \in [Node -> Addr \cup {None}] /\ wanted \subseteq Node /\ trusted \subseteq Node
    /\ lapsed \subseteq silent /\ silent \subseteq PoolNode
    /\ known \in [PoolNode -> {"no", "fresh", "expired"}]
    /\ faults \in 0 .. MaxFaults
    /\ told \subseteq Node /\ whitelisted \subseteq Node

UpdateType ==
    /\ up \in Update
    /\ up.cur # None => up.pc = "dropping"
    /\ up.todo # {} => up.pc \in {"dropping", "connecting"}

AgentInv == NodeType /\ UpdateType /\ Dealt /\ StrictPlan /\ WhitelistKept
-----------------------------------------------------------------------------
\* RemoteHost makes all loopback addresses equal: a connected peer matches exactly
\* when the pool confirms it.
LEMMA MatchesConfirmed ==
    ASSUME UpdateType, NEW n \in Node, up.snap[n] # None
    PROVE  Matches(n, up.active, up.snap) <=> Confirmed(n)
<1>1. CASE n \in up.active \cap Host
    <2>1. up.snap[n] \in Addr /\ HostAddr[n] \in Addr
        BY <1>1, AgentAssumption DEF UpdateType, Update
    <2>2. up.snap[n] # None /\ HostAddr[n] # None
        BY <2>1, AgentAssumption
    <2>3. QED
        BY <1>1, <2>2 DEF Matches, Confirmed, RemoteHost
<1>2. CASE n \notin up.active \cap Host
    BY <1>2 DEF Matches, Confirmed
<1>3. QED
    BY <1>1, <1>2

LEMMA FaultType ==
    ASSUME faults \in 0 .. MaxFaults, Fault
    PROVE  faults' \in 0 .. MaxFaults
    BY AgentAssumption DEF Fault

\* The update ends with nothing left to do.
LEMMA EndUpdateFields ==
    ASSUME NEW u \in Update, EndUpdate(u)
    PROVE  /\ up' \in Update
           /\ up'.pc = IF u.errs THEN "failed" ELSE "done"
           /\ up'.todo = {} /\ up'.cur = None
           /\ up'.snap = u.snap /\ up'.active = u.active /\ up'.invalid = u.invalid
           /\ up'.errs = u.errs
    BY DEF EndUpdate, Update, PC

\* Steps of others leave UpdatePeers where it was.
LEMMA OthersKeep ==
    ASSUME AgentInv, UNCHANGED <<config, up, told>>
    PROVE  UpdateType' /\ Dealt' /\ StrictPlan'
<1>1. UpdateType'
    BY DEF AgentInv, UpdateType
<1>2. Dealt'
    BY DEF AgentInv, Dealt, At
<1>3. StrictPlan'
    BY DEF AgentInv, StrictPlan, At
<1>4. QED
    BY <1>1, <1>2, <1>3

\* A node is trusted as long as neither list loses it.
LEMMA TrustKept ==
    ASSUME AgentInv, UNCHANGED <<config, wanted, trusted, whitelisted>>, up'.snap = up.snap
    PROVE  WhitelistKept'
    BY DEF AgentInv, WhitelistKept, Trusted

LEMMA NodeDialsStep ==
    ASSUME AgentInv, NEW h \in Host, NodeDials(h)
    PROVE  AgentInv'
<1>1. NodeType'
    BY AgentAssumption DEF AgentInv, NodeType, NodeDials, poolVars
<1>2. QED
    BY <1>1, OthersKeep, TrustKept DEF AgentInv, NodeDials

LEMMA PeerChangesStep ==
    ASSUME AgentInv, NEW n \in Node, NEW a \in Addr \cup {None}, PeerChanges(n, a)
    PROVE  AgentInv'
<1>1. faults' \in 0 .. MaxFaults
    BY FaultType DEF AgentInv, NodeType, PeerChanges
<1>2. NodeType'
    BY <1>1 DEF AgentInv, NodeType, PeerChanges, poolVars
<1>3. QED
    BY <1>2, OthersKeep, TrustKept DEF AgentInv, PeerChanges

LEMMA FallsSilentStep ==
    ASSUME AgentInv, NEW n \in PoolNode, FallsSilent(n)
    PROVE  AgentInv'
<1>1. faults' \in 0 .. MaxFaults
    BY FaultType DEF AgentInv, NodeType, FallsSilent
<1>2. NodeType'
    BY <1>1 DEF AgentInv, NodeType, FallsSilent, nodeVars
<1>3. QED
    BY <1>2, OthersKeep, TrustKept DEF AgentInv, FallsSilent, nodeVars

LEMMA TimePassesStep ==
    ASSUME AgentInv, NEW n \in PoolNode, Lapses(n) \/ EntryExpires(n)
    PROVE  AgentInv'
<1>1. UNCHANGED <<config, nodeVars, silent, up, faults, told, whitelisted>>
    BY DEF Lapses, EntryExpires
<1>2. /\ lapsed' \subseteq silent
      /\ known' \in [PoolNode -> {"no", "fresh", "expired"}]
    BY DEF Lapses, EntryExpires, AgentInv, NodeType
<1>3. NodeType'
    BY <1>1, <1>2 DEF AgentInv, NodeType, nodeVars
<1>4. QED
    BY <1>1, <1>3, OthersKeep, TrustKept DEF AgentInv, nodeVars

LEMMA WhitelistStep ==
    ASSUME AgentInv, NEW n \in Caller, Whitelist(n)
    PROVE  AgentInv'
<1>1. n \in Node
    BY AgentAssumption
<1>2. NodeType'
    BY <1>1 DEF AgentInv, NodeType, Whitelist, AddTrustedPeer, poolVars
<1>3. WhitelistKept'
    BY DEF AgentInv, WhitelistKept, Whitelist, AddTrustedPeer, Trusted
<1>4. QED
    BY <1>2, <1>3, OthersKeep DEF AgentInv, Whitelist
-----------------------------------------------------------------------------
(* The steps of UpdatePeers *)

LEMMA PeersStep ==
    ASSUME AgentInv, Peers
    PROVE  AgentInv'
<1>1. NodeType /\ UpdateType
    BY DEF AgentInv
<1>2. NodeType'
    BY <1>1 DEF NodeType, Peers, nodeVars, poolVars
<1>3. /\ up' \in Update /\ up'.pc = "snapped" /\ up'.todo = up.todo /\ up'.cur = up.cur
      /\ told' = {} /\ whitelisted' = {}
    BY <1>1 DEF Peers, NodeType, UpdateType, Update, PC
<1>4. up.cur = None /\ up.todo = {}
    BY <1>1 DEF UpdateType, Peers, At
<1>5. UpdateType'
    BY <1>3, <1>4 DEF UpdateType
<1>6. Dealt' /\ StrictPlan' /\ WhitelistKept'
    BY <1>3 DEF Dealt, StrictPlan, WhitelistKept, Answered, At
<1>7. QED
    BY <1>2, <1>5, <1>6 DEF AgentInv

LEMMA CallFailsStep ==
    ASSUME AgentInv, CallFails
    PROVE  AgentInv'
<1> DEFINE u == [up EXCEPT !.errs = TRUE]
<1>1. NodeType /\ UpdateType
    BY DEF AgentInv
<1>2. faults' \in 0 .. MaxFaults
    BY <1>1, FaultType DEF NodeType, CallFails
<1>3. NodeType'
    BY <1>1, <1>2 DEF NodeType, CallFails, nodeVars, Refreshed
<1>4. u \in Update /\ u.errs = TRUE /\ u.snap = up.snap /\ u.active = up.active
    BY <1>1 DEF UpdateType, Update
<1>5. EndUpdate(u)
    BY DEF CallFails
<1> HIDE DEF u
<1>6. /\ up' \in Update /\ up'.pc = "failed" /\ up'.todo = {} /\ up'.cur = None
      /\ up'.snap = up.snap /\ up'.active = up.active /\ up'.errs = TRUE
    BY <1>4, <1>5, EndUpdateFields
<1>7. UpdateType'
    BY <1>6 DEF UpdateType
<1>8. Dealt' /\ StrictPlan'
    BY <1>6 DEF AgentInv, Dealt, StrictPlan, Answered, At, CallFails
<1>9. WhitelistKept'
    BY <1>6, TrustKept DEF CallFails, nodeVars
<1>10. QED
    BY <1>3, <1>7, <1>8, <1>9 DEF AgentInv

LEMMA PoolUpdateStep ==
    ASSUME AgentInv, PoolUpdate
    PROVE  AgentInv'
<1> DEFINE active == IF config.static THEN StaticActive ELSE Fresh
           inactive == IF config.static THEN {} ELSE Inactive
           invalid == InvalidPeers(active, inactive)
<1>1. NodeType /\ UpdateType
    BY DEF AgentInv
<1>2. NodeType'
    BY <1>1 DEF NodeType, PoolUpdate, nodeVars, Refreshed
<1>3. active \subseteq PoolNode /\ inactive \subseteq Node
    BY DEF StaticActive, Fresh, Inactive, PoolNode, Node
<1>4. invalid \subseteq Node /\ (config.strict => invalid = Unconfirmed(active, up.snap))
    BY <1>3 DEF InvalidPeers, Unconfirmed
<1>5. up' = [up EXCEPT !.pc = "dropping", !.active = active, !.invalid = invalid,
                       !.todo = invalid]
    BY DEF PoolUpdate
<1> HIDE DEF active, inactive, invalid
<1>6. /\ up' \in Update /\ up'.pc = "dropping" /\ up'.todo = invalid /\ up'.cur = up.cur
      /\ up'.snap = up.snap /\ up'.active = active /\ up'.invalid = invalid
    BY <1>1, <1>3, <1>4, <1>5 DEF UpdateType, Update, PC
<1>7. up.cur = None /\ At("snapped") /\ told' = told /\ config' = config
    BY <1>1 DEF UpdateType, PoolUpdate, At
<1>8. UpdateType'
    BY <1>6 DEF UpdateType
<1>9. Dealt'
    BY <1>6 DEF Dealt, Answered, At
<1>10. StrictPlan'
    BY <1>4, <1>6, <1>7 DEF AgentInv, StrictPlan, Answered, At
<1>11. WhitelistKept'
    BY <1>6, TrustKept DEF PoolUpdate, nodeVars
<1>12. QED
    BY <1>2, <1>8, <1>9, <1>10, <1>11 DEF AgentInv

\* With StrictPeers a peer on the list was connected when the update began: taking it
\* off the trusted list revokes no later whitelisting.
LEMMA RemoveTrustedStep ==
    ASSUME AgentInv, NEW n \in Node, RemoveTrusted(n)
    PROVE  AgentInv'
<1> DEFINE next == [up EXCEPT !.todo = @ \ {n}, !.cur = n]
<1>1. NodeType /\ UpdateType
    BY DEF AgentInv
<1>2. up.pc = "dropping" /\ up.cur = None /\ n \in up.todo
    BY DEF RemoveTrusted, At
<1>3. UNCHANGED <<config, poolVars, told, whitelisted>>
    BY DEF RemoveTrusted
<1>4. \/ up' = next /\ RemoveTrustedPeer(n) /\ UNCHANGED faults
      \/ up' = TrustError(next) /\ Fault /\ UNCHANGED nodeVars
    BY DEF RemoveTrusted
<1>5. /\ next \in Update /\ next.pc = "dropping" /\ next.todo = up.todo \ {n}
      /\ next.cur = n /\ next.snap = up.snap /\ next.active = up.active
      /\ next.invalid = up.invalid /\ next.errs = up.errs
    BY <1>1, <1>2 DEF UpdateType, Update
<1> HIDE DEF next
<1>6. /\ up' \in Update /\ up'.pc = "dropping" /\ up'.todo = up.todo \ {n}
      /\ up'.cur = n /\ up'.snap = up.snap /\ up'.active = up.active
      /\ up'.invalid = up.invalid /\ (up.errs => up'.errs)
    <2>1. CASE up' = next
        BY <1>5, <2>1
    <2>2. CASE up' = TrustError(next)
        BY <1>5, <2>2 DEF TrustError, Update
    <2>3. QED
        BY <1>4, <2>1, <2>2
<1>7. NodeType'
    <2>1. CASE RemoveTrustedPeer(n) /\ UNCHANGED faults
        BY <1>1, <1>3, <2>1 DEF NodeType, RemoveTrustedPeer, poolVars
    <2>2. CASE Fault /\ UNCHANGED nodeVars
        BY <1>1, <1>3, <2>2, FaultType DEF NodeType, nodeVars, poolVars
    <2>3. QED
        BY <1>4, <2>1, <2>2
<1>8. UpdateType'
    BY <1>6 DEF UpdateType
<1>9. Dealt'
    <2>1. None \notin Node /\ up.invalid \subseteq Node
        BY <1>1, AgentAssumption DEF UpdateType, Update
    <2>2. QED
        BY <1>2, <1>3, <1>6, <2>1 DEF AgentInv, Dealt, Answered, At
<1>10. StrictPlan'
    BY <1>2, <1>3, <1>6 DEF AgentInv, StrictPlan, Answered, At
<1>11. WhitelistKept'
    <2>1. config.strict => up.snap[n] # None
        BY <1>2 DEF AgentInv, StrictPlan, Answered, At, Unconfirmed
    <2>2. \A m \in Node : m # n /\ Trusted(m) => Trusted(m)'
        BY <1>3, <1>4 DEF RemoveTrustedPeer, Trusted, nodeVars
    <2>3. whitelisted \subseteq Node
        BY <1>1 DEF NodeType
    <2>4. QED
        BY <1>3, <1>6, <2>1, <2>2, <2>3 DEF AgentInv, WhitelistKept
<1>12. QED
    BY <1>7, <1>8, <1>9, <1>10, <1>11 DEF AgentInv

LEMMA DisconnectStep ==
    ASSUME AgentInv, Disconnect
    PROVE  AgentInv'
<1> DEFINE n == up.cur
           next == [up EXCEPT !.cur = None]
<1>1. NodeType /\ UpdateType
    BY DEF AgentInv
<1>2. up.pc = "dropping" /\ n # None
    BY DEF Disconnect, At
<1>3. n \in Node
    BY <1>1, <1>2 DEF UpdateType, Update
<1>4. UNCHANGED <<config, poolVars, whitelisted>>
    BY DEF Disconnect
<1>5. \/ up' = next /\ DisconnectPeer(n) /\ told' = told \cup {n} /\ UNCHANGED faults
      \/ up' = [next EXCEPT !.errs = TRUE] /\ Fault /\ UNCHANGED <<nodeVars, told>>
    BY DEF Disconnect
<1>6. /\ next \in Update /\ next.pc = "dropping" /\ next.todo = up.todo
      /\ next.cur = None /\ next.snap = up.snap /\ next.active = up.active
      /\ next.invalid = up.invalid /\ next.errs = up.errs
    BY <1>1, <1>2 DEF UpdateType, Update
<1> HIDE DEF next
<1>7. /\ up' \in Update /\ up'.pc = "dropping" /\ up'.todo = up.todo
      /\ up'.cur = None /\ up'.snap = up.snap /\ up'.active = up.active
      /\ up'.invalid = up.invalid /\ (up.errs => up'.errs)
      /\ \/ told' = told \cup {n}
         \/ told' = told /\ up'.errs
    BY <1>5, <1>6 DEF Update
<1>8. NodeType'
    <2>1. CASE DisconnectPeer(n) /\ told' = told \cup {n} /\ UNCHANGED faults
        BY <1>1, <1>3, <1>4, <2>1 DEF NodeType, DisconnectPeer, poolVars
    <2>2. CASE Fault /\ UNCHANGED <<nodeVars, told>>
        BY <1>1, <1>4, <2>2, FaultType DEF NodeType, nodeVars, poolVars
    <2>3. QED
        BY <1>5, <2>1, <2>2
<1>9. UpdateType'
    BY <1>7 DEF UpdateType
<1>10. Dealt'
    BY <1>2, <1>7 DEF AgentInv, Dealt, Answered, At
<1>11. StrictPlan'
    BY <1>2, <1>4, <1>7 DEF AgentInv, StrictPlan, Answered, At
<1>12. WhitelistKept'
    <2>1. config.strict => up.snap[n] # None
        BY <1>2 DEF AgentInv, StrictPlan, Answered, At, Unconfirmed
    <2>2. \A m \in Node : m # n /\ Trusted(m) => Trusted(m)'
        BY <1>4, <1>5 DEF DisconnectPeer, Trusted, nodeVars
    <2>3. whitelisted \subseteq Node
        BY <1>1 DEF NodeType
    <2>4. QED
        BY <1>4, <1>7, <2>1, <2>2, <2>3 DEF AgentInv, WhitelistKept
<1>13. QED
    BY <1>8, <1>9, <1>10, <1>11, <1>12 DEF AgentInv

\* A later stage of an update that has dealt with every invalid peer.
LEMMA LaterStage ==
    ASSUME AgentInv, NodeType', up' \in Update,
           up.pc \in Answered, At("dropping") => up.todo = {} /\ up.cur = None,
           up'.pc \in {"asking", "connecting", "done"}, up'.pc = "done" => ~up'.errs,
           up'.todo # {} => up'.pc = "connecting", up'.cur = None,
           up'.snap = up.snap, up'.active = up.active, up'.invalid = up.invalid,
           up'.errs = up.errs, UNCHANGED <<config, told>>, WhitelistKept'
    PROVE  AgentInv'
<1>1. UpdateType'
    BY DEF UpdateType
<1>2. None \notin Node /\ up.invalid \subseteq Node
    BY AgentAssumption DEF AgentInv, UpdateType, Update
<1>3. Dealt'
    BY <1>2 DEF AgentInv, Dealt, Answered, At
<1>4. StrictPlan'
    BY DEF AgentInv, StrictPlan, Answered, At
<1>5. QED
    BY <1>1, <1>3, <1>4 DEF AgentInv

\* EndUpdate of an update that has dealt with every invalid peer, or of a failed one.
LEMMA EndStep ==
    ASSUME AgentInv, NodeType', NEW u \in Update, EndUpdate(u),
           up.pc \in Answered, At("dropping") => up.todo = {} /\ up.cur = None,
           u.snap = up.snap, u.active = up.active, u.invalid = up.invalid, u.errs = up.errs,
           UNCHANGED <<config, told>>, WhitelistKept'
    PROVE  AgentInv'
<1>1. /\ up' \in Update
      /\ up'.pc = IF up.errs THEN "failed" ELSE "done"
      /\ up'.todo = {} /\ up'.cur = None
      /\ up'.snap = up.snap /\ up'.active = up.active /\ up'.invalid = up.invalid
      /\ up'.errs = up.errs
    BY EndUpdateFields
<1>2. CASE up.errs
    <2>1. up'.pc = "failed" /\ up'.errs
        BY <1>1, <1>2
    <2>2. UpdateType' /\ Dealt'
        BY <1>1, <2>1 DEF UpdateType, Dealt, At
    <2>3. StrictPlan'
        BY <1>1, <2>1 DEF AgentInv, StrictPlan, Answered, At
    <2>4. QED
        BY <2>2, <2>3 DEF AgentInv
<1>3. CASE ~up.errs
    BY <1>1, <1>3, LaterStage
<1>4. QED
    BY <1>2, <1>3

LEMMA DroppedStep ==
    ASSUME AgentInv, Dropped
    PROVE  AgentInv'
<1>1. NodeType /\ UpdateType
    BY DEF AgentInv
<1>2. UNCHANGED <<config, nodeVars, poolVars, faults, told, whitelisted>>
    BY DEF Dropped
<1>3. NodeType'
    BY <1>1, <1>2 DEF NodeType, nodeVars, poolVars
<1>4. up.pc = "dropping" /\ up.cur = None /\ up.todo = {} /\ up.pc \in Answered
    BY DEF Dropped, At, Answered
<1>5. CASE NeedMore > 0
    <2>1. up' = [up EXCEPT !.pc = "asking"]
        BY <1>5 DEF Dropped
    <2>2. /\ up' \in Update /\ up'.pc = "asking" /\ up'.todo = {} /\ up'.cur = None
          /\ up'.snap = up.snap /\ up'.active = up.active /\ up'.invalid = up.invalid
          /\ up'.errs = up.errs
        BY <1>1, <1>4, <2>1 DEF UpdateType, Update, PC
    <2>3. WhitelistKept'
        BY <1>2, <2>2, TrustKept DEF nodeVars
    <2>4. QED
        BY <1>2, <1>3, <1>4, <2>2, <2>3, LaterStage
<1>6. CASE ~(NeedMore > 0)
    <2>1. EndUpdate(up) /\ up \in Update
        BY <1>1, <1>6 DEF Dropped, UpdateType
    <2>2. WhitelistKept'
        BY <1>2, <2>1, EndUpdateFields, TrustKept DEF nodeVars
    <2>3. QED
        BY <1>2, <1>3, <1>4, <2>1, <2>2, EndStep
<1>7. QED
    BY <1>5, <1>6

LEMMA PeerStep ==
    ASSUME AgentInv, Peer
    PROVE  AgentInv'
<1>1. NodeType /\ UpdateType
    BY DEF AgentInv
<1>2. UNCHANGED <<config, nodeVars, poolVars, faults, told, whitelisted>>
    BY DEF Peer
<1>3. NodeType'
    BY <1>1, <1>2 DEF NodeType, nodeVars, poolVars
<1>4. up.pc = "asking" /\ up.pc \in Answered
    BY DEF Peer, At, Answered
<1>5. PICK hosts \in SUBSET Host : up' = [up EXCEPT !.pc = "connecting", !.todo = hosts]
    BY DEF Peer
<1>6. up.cur = None /\ hosts \subseteq Node
    BY <1>1, <1>4 DEF UpdateType, PoolNode, Node
<1>7. /\ up' \in Update /\ up'.pc = "connecting" /\ up'.cur = None
      /\ up'.snap = up.snap /\ up'.active = up.active /\ up'.invalid = up.invalid
      /\ up'.errs = up.errs
    BY <1>1, <1>5, <1>6 DEF UpdateType, Update, PC
<1>8. WhitelistKept'
    BY <1>2, <1>7, TrustKept DEF nodeVars
<1>9. QED
    BY <1>2, <1>3, <1>4, <1>7, <1>8, LaterStage DEF At

LEMMA NoPeersErrorStep ==
    ASSUME AgentInv, NoPeersError
    PROVE  AgentInv'
<1>1. NodeType /\ UpdateType
    BY DEF AgentInv
<1>2. UNCHANGED <<config, nodeVars, poolVars, told, whitelisted>>
    BY DEF NoPeersError
<1>3. faults' \in 0 .. MaxFaults
    BY <1>1, FaultType DEF NoPeersError, NodeType
<1>4. NodeType'
    BY <1>1, <1>2, <1>3 DEF NodeType, nodeVars, poolVars
<1>5. EndUpdate(up) /\ up \in Update /\ up.pc = "asking" /\ up.pc \in Answered
    BY <1>1 DEF NoPeersError, UpdateType, At, Answered
<1>6. WhitelistKept'
    BY <1>2, <1>5, EndUpdateFields, TrustKept DEF nodeVars
<1>7. QED
    BY <1>2, <1>4, <1>5, <1>6, EndStep DEF At

LEMMA AddPeerStep ==
    ASSUME AgentInv, NEW n \in Node, AddPeer(n)
    PROVE  AgentInv'
<1> DEFINE next == [up EXCEPT !.todo = @ \ {n}]
<1>1. NodeType /\ UpdateType
    BY DEF AgentInv
<1>2. UNCHANGED <<config, poolVars, faults, told, whitelisted>> /\ ConnectPeer(n)
    BY DEF AddPeer
<1>3. NodeType'
    BY <1>1, <1>2 DEF NodeType, ConnectPeer, poolVars
<1>4. up.pc = "connecting" /\ up.pc \in Answered /\ up.cur = None
    BY <1>1 DEF AddPeer, At, Answered, UpdateType
<1>5. /\ next \in Update /\ next.pc = "connecting" /\ next.cur = None
      /\ next.snap = up.snap /\ next.active = up.active /\ next.invalid = up.invalid
      /\ next.errs = up.errs
    BY <1>1, <1>4 DEF UpdateType, Update
<1>6. IF next.todo = {} THEN EndUpdate(next) ELSE up' = next
    BY DEF AddPeer
<1> HIDE DEF next
<1>7. up'.snap = up.snap
    BY <1>5, <1>6, EndUpdateFields
<1>8. WhitelistKept'
    BY <1>2, <1>7 DEF AgentInv, WhitelistKept, Trusted, ConnectPeer
<1>9. CASE next.todo = {}
    BY <1>2, <1>3, <1>4, <1>5, <1>6, <1>8, <1>9, EndStep DEF At
<1>10. CASE next.todo # {}
    BY <1>2, <1>3, <1>4, <1>5, <1>6, <1>8, <1>10, LaterStage DEF At
<1>11. QED
    BY <1>9, <1>10

LEMMA RestartStep ==
    ASSUME AgentInv, Restart
    PROVE  AgentInv'
<1>1. NodeType /\ UpdateType
    BY DEF AgentInv
<1>2. UNCHANGED <<config, nodeVars, poolVars, faults, told, whitelisted>>
    BY DEF Restart
<1>3. NodeType'
    BY <1>1, <1>2 DEF NodeType, nodeVars, poolVars
<1>4. up' = [up EXCEPT !.pc = "idle", !.errs = FALSE] /\ up.pc = "failed"
    BY DEF Restart, At
<1>5. /\ up' \in Update /\ up'.pc = "idle" /\ up'.todo = up.todo /\ up'.cur = up.cur
      /\ up'.snap = up.snap /\ up'.active = up.active
    BY <1>1, <1>4 DEF UpdateType, Update, PC
<1>6. UpdateType'
    BY <1>1, <1>4, <1>5 DEF UpdateType
<1>7. Dealt' /\ StrictPlan'
    BY <1>2, <1>5 DEF AgentInv, Dealt, StrictPlan, Answered, At
<1>8. WhitelistKept'
    BY <1>2, <1>5, TrustKept DEF nodeVars
<1>9. QED
    BY <1>3, <1>6, <1>7, <1>8 DEF AgentInv
-----------------------------------------------------------------------------
LEMMA AgentInitInv == AgentInit => AgentInv
<1> SUFFICES ASSUME AgentInit PROVE AgentInv
    OBVIOUS
<1> DEFINE u == [pc |-> "idle", snap |-> NoPeers, active |-> {}, invalid |-> {},
                 todo |-> {}, cur |-> None, errs |-> FALSE]
<1>1. u \in Update /\ u.pc = "idle" /\ u.todo = {} /\ u.cur = None /\ up = u
    BY DEF AgentInit, Update, PC, NoPeers
<1> HIDE DEF u
<1>2. NodeType
    BY AgentAssumption DEF AgentInit, NodeType, NoPeers
<1>3. UpdateType
    BY <1>1 DEF UpdateType
<1>4. Dealt /\ StrictPlan /\ WhitelistKept
    BY <1>1 DEF AgentInit, Dealt, StrictPlan, WhitelistKept, Answered, At
<1>5. QED
    BY <1>2, <1>3, <1>4 DEF AgentInv

LEMMA AgentStep == AgentInv /\ [AgentNext]_vars => AgentInv'
<1> SUFFICES ASSUME AgentInv, [AgentNext]_vars
             PROVE  AgentInv'
    OBVIOUS
<1>1. CASE Peers \/ PoolUpdate \/ Disconnect \/ Dropped \/ Peer \/ NoPeersError
    BY <1>1, PeersStep, PoolUpdateStep, DisconnectStep, DroppedStep, PeerStep,
       NoPeersErrorStep
<1>2. ASSUME NEW n \in Node, RemoveTrusted(n) \/ AddPeer(n)
      PROVE  AgentInv'
    BY <1>2, RemoveTrustedStep, AddPeerStep
<1>3. CASE CallFails \/ Restart
    BY <1>3, CallFailsStep, RestartStep
<1>4. CASE \/ \E h \in Host : NodeDials(h)
           \/ \E n \in PoolNode : FallsSilent(n) \/ Lapses(n) \/ EntryExpires(n)
    BY <1>4, NodeDialsStep, FallsSilentStep, TimePassesStep
<1>5. ASSUME NEW n \in Node, NEW a \in Addr \cup {None}, PeerChanges(n, a)
      PROVE  AgentInv'
    BY <1>5, PeerChangesStep
<1>6. ASSUME NEW n \in Caller, Whitelist(n)
      PROVE  AgentInv'
    BY <1>6, WhitelistStep
<1>7. CASE UNCHANGED vars
    <2>1. NodeType'
        BY <1>7 DEF AgentInv, NodeType, vars, nodeVars, poolVars
    <2>2. QED
        BY <1>7, <2>1, OthersKeep, TrustKept DEF AgentInv, vars, nodeVars
<1>8. QED
    BY <1>1, <1>2, <1>3, <1>4, <1>5, <1>6, <1>7 DEF AgentNext, UpdateStep

LEMMA AgentInvHolds == AgentSpec => []AgentInv
    BY AgentInitInv, AgentStep, PTL DEF AgentSpec

\* The agent's state, the node's and the pool's hold values of their types; a peer is
\* being dropped, and work is left, only in the loops of UpdatePeers and AddPeers.
THEOREM AgentTypeCorrect == AgentSpec => []AgentTypeOK
<1>1. AgentInv => AgentTypeOK
    BY DEF AgentInv, NodeType, UpdateType, AgentTypeOK
<1>2. QED
    BY <1>1, AgentInvHolds, PTL

\* UpdatePeers returns no error only if every invalid peer was disconnected; with
\* StrictPeers those are all that the pool did not confirm under the same address.
THEOREM UpdateCleansHolds == AgentSpec => []UpdateCleans
<1>1. ASSUME AgentInv, At("done")
      PROVE  up.invalid \subseteq told
    BY <1>1 DEF AgentInv, Dealt, Answered, At
<1>2. ASSUME AgentInv, At("done"), config.strict, NEW n \in Node,
             up.snap[n] # None, ~Confirmed(n)
      PROVE  n \in told
    <2>1. ~Matches(n, up.active, up.snap)
        BY <1>2, MatchesConfirmed DEF AgentInv
    <2>2. n \in up.invalid
        BY <1>2, <2>1 DEF AgentInv, StrictPlan, Answered, At, Unconfirmed
    <2>3. QED
        BY <1>1, <1>2, <2>2
<1>3. AgentInv => UpdateCleans
    BY <1>1, <1>2 DEF UpdateCleans
<1>4. QED
    BY <1>3, AgentInvHolds, PTL

\* With StrictPeers UpdatePeers disconnects no peer that the pool confirmed, loopback
\* addresses included, whichever calls failed on the way.
THEOREM ConfirmedKeptHolds == AgentSpec => []ConfirmedKept
<1>1. ASSUME AgentInv, config.strict, NEW n \in told
      PROVE  ~Confirmed(n)
    <2>1. n \in Unconfirmed(up.active, up.snap)
        BY <1>1 DEF AgentInv, StrictPlan
    <2>2. n \in Node /\ up.snap[n] # None /\ ~Matches(n, up.active, up.snap)
        BY <2>1 DEF Unconfirmed
    <2>3. QED
        BY <1>1, <2>2, MatchesConfirmed DEF AgentInv
<1>2. AgentInv => ConfirmedKept
    BY <1>1 DEF ConfirmedKept
<1>3. QED
    BY <1>2, AgentInvHolds, PTL

\* With StrictPeers an update never revokes the trust of a node that Whitelist added
\* while it ran, unless the node was connected when it began.
THEOREM WhitelistKeptHolds == AgentSpec => []WhitelistKept
<1>1. AgentInv => WhitelistKept
    BY DEF AgentInv
<1>2. QED
    BY <1>1, AgentInvHolds, PTL
=============================================================================
