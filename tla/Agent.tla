------------------------------- MODULE Agent -------------------------------
(***************************************************************************)
(* agent: UpdatePeers, AddPeers and Whitelist over an Ethereum node, with  *)
(* a remote pool or a StaticPool.                                          *)
(*                                                                         *)
(* One goroutine runs UpdatePeers, first from Start and then at every tick *)
(* of serveUpdates; Whitelist runs in goroutines of the connection.  Every *)
(* call to the node or the pool is a step.  Of the pool there is what its  *)
(* Update and Peer answer to this agent; what the node does on its own     *)
(* (dial, accept, lose peers) is external.                                 *)
(***************************************************************************)
EXTENDS Integers, FiniteSets, FiniteSetsExt

CONSTANTS Host,       \* the hosts that the pool, or the StaticPool, has
          Client,     \* the other nodes that the pool knows
          Stranger,   \* the nodes that it does not know
          Addr,       \* addresses of peers
          Loopback,   \* those that are loopback or unspecified
          Caller,     \* the nodes that the pool may ask to whitelist
          HostAddr,   \* the address of a host in the pool's answers
          Config,     \* the settings to choose from
          None,       \* absent
          MaxFaults   \* bound: failures, lost and unasked-for peers

PoolNode == Host \cup Client
Node == PoolNode \cup Stranger

\* overload: the node has no calls to connect and disconnect a peer, so that
\* ConnectPeer and DisconnectPeer are the calls for trusted peers (parity, pantheon).
ConfigType == [overload : BOOLEAN, strict : BOOLEAN, static : BOOLEAN, numHosts : Nat]

ASSUME AgentAssumption ==
    /\ Host \cap Client = {} /\ PoolNode \cap Stranger = {} /\ None \notin Node \cup Addr
    /\ Caller \subseteq Node /\ IsFiniteSet(PoolNode)
    /\ Loopback \subseteq Addr /\ HostAddr \in [Host -> Addr]
    /\ Config \subseteq ConfigType /\ MaxFaults \in Nat

VARIABLES config,      \* the agent's settings
          peers,       \* the node's connections: the remote address of each peer
          wanted,      \* the nodes that it was told to connect to
          trusted,     \* its trusted peers, if they are kept apart
          silent,      \* nodes whose own agents stopped
          lapsed,      \* those that the pool has not seen for ExpireInterval
          known,       \* the pool's entries for the peers of this node, by their age
          up,          \* UpdatePeers
          faults,      \* how many faults have happened
          told,        \* history: peers that the current update has removed
          whitelisted  \* history: nodes whitelisted since the current update began

nodeVars == <<peers, wanted, trusted>>
poolVars == <<silent, lapsed, known>>
vars == <<config, nodeVars, poolVars, up, faults, told, whitelisted>>

PC == {"idle", "snapped", "dropping", "asking", "connecting", "done", "failed"}

\* snap: the peers that were reported; active, todo: the pool's answer, and what is
\* left to do of it; cur: whose RemoveTrustedPeer was called last.
Update ==
    [pc : PC, snap : [Node -> Addr \cup {None}], active : SUBSET PoolNode, invalid : SUBSET Node,
     todo : SUBSET Node, cur : Node \cup {None}, errs : BOOLEAN]

AgentTypeOK ==
    /\ config \in Config
    /\ peers \in [Node -> Addr \cup {None}] /\ wanted \subseteq Node /\ trusted \subseteq Node
    /\ lapsed \subseteq silent /\ silent \subseteq PoolNode
    /\ known \in [PoolNode -> {"no", "fresh", "expired"}]
    /\ up \in Update
    /\ up.cur # None => up.pc = "dropping"
    /\ up.todo # {} => up.pc \in {"dropping", "connecting"}
    /\ faults \in 0 .. MaxFaults
    /\ told \subseteq Node /\ whitelisted \subseteq Node

NoPeers == [n \in Node |-> None]

AgentInit ==
    /\ config \in Config
    /\ peers = NoPeers /\ wanted = {} /\ trusted = {}
    /\ silent = {} /\ lapsed = {} /\ known = [n \in PoolNode |-> "no"]
    /\ up = [pc |-> "idle", snap |-> NoPeers, active |-> {}, invalid |-> {}, todo |-> {},
             cur |-> None, errs |-> FALSE]
    /\ faults = 0 /\ told = {} /\ whitelisted = {}

At(pc) == up.pc = pc

Fault == faults < MaxFaults /\ faults' = faults + 1
-----------------------------------------------------------------------------
(* The Ethereum node *)

Trusted(n) == IF config.overload THEN n \in wanted ELSE n \in trusted

AddTrustedPeer(n) ==
    /\ IF config.overload THEN wanted' = wanted \cup {n} /\ UNCHANGED trusted
       ELSE trusted' = trusted \cup {n} /\ UNCHANGED wanted
    /\ UNCHANGED peers

RemoveTrustedPeer(n) ==
    /\ IF config.overload THEN wanted' = wanted \ {n} /\ UNCHANGED trusted
       ELSE trusted' = trusted \ {n} /\ UNCHANGED wanted
    /\ UNCHANGED peers

ConnectPeer(n) == wanted' = wanted \cup {n} /\ UNCHANGED <<peers, trusted>>

\* Where the call is overloaded, the connection may outlive it.
DisconnectPeer(n) ==
    /\ wanted' = wanted \ {n}
    /\ \/ peers' = [peers EXCEPT ![n] = None]
       \/ config.overload /\ UNCHANGED peers
    /\ UNCHANGED trusted

\* External: the node dials a host that it was told to connect to.
NodeDials(h) ==
    /\ h \in wanted \ silent /\ peers[h] = None
    /\ peers' = [peers EXCEPT ![h] = HostAddr[h]]
    /\ UNCHANGED <<config, wanted, trusted, poolVars, up, faults, told, whitelisted>>

\* External: somebody connects to the node, or a connection is lost.
PeerChanges(n, a) ==
    /\ Fault
    /\ peers[n] # a /\ None \in {peers[n], a}
    /\ peers' = [peers EXCEPT ![n] = a]
    /\ UNCHANGED <<config, wanted, trusted, poolVars, up, told, whitelisted>>

\* Agent.Whitelist, called by the pool.
Whitelist(n) ==
    /\ AddTrustedPeer(n)
    /\ whitelisted' = whitelisted \cup {n}
    /\ UNCHANGED <<config, poolVars, up, faults, told>>
-----------------------------------------------------------------------------
(* The pool, as far as it concerns this agent *)

\* External: the agent of another node stops.
FallsSilent(n) ==
    /\ Fault
    /\ n \notin silent
    /\ silent' = silent \cup {n}
    /\ UNCHANGED <<config, nodeVars, lapsed, known, up, told, whitelisted>>

\* ExpireInterval passes since the last update of a node.
Lapses(n) ==
    /\ n \in silent \ lapsed
    /\ lapsed' = lapsed \cup {n}
    /\ UNCHANGED <<config, nodeVars, silent, known, up, faults, told, whitelisted>>

\* ExpireInterval passes since the time that the pool's entry for a peer holds.
EntryExpires(n) ==
    /\ known[n] = "fresh"
    /\ known' = [known EXCEPT ![n] = "expired"]
    /\ UNCHANGED <<config, nodeVars, silent, lapsed, up, faults, told, whitelisted>>

\* The entry for a peer once UpdateNodePeers took up the report: the peer's LastSeen.
Entry(n) ==
    IF up.snap[n] # None THEN IF n \in lapsed THEN "expired" ELSE "fresh"
    ELSE known[n]

\* Mutant: the pool also takes up peers that it does not know.
FreshAny == {n \in PoolNode : Entry(n) = "fresh"} \cup {n \in Stranger : up.snap[n] # None}

\* What VipnodePool.Update answers: of the nodes that it knows, the peers whose entries
\* it keeps, hosts or not, and those whose entries it deletes.
Fresh == {n \in PoolNode : Entry(n) = "fresh"}
Inactive == {n \in PoolNode : Entry(n) = "expired"}

\* The pool's entries after an update.
Refreshed == [n \in PoolNode |-> IF n \in Fresh THEN "fresh" ELSE "no"]

\* The hosts that requestHosts may return: those that it skips are the node's peers, and
\* those whose agents are gone do not accept a vipnode_whitelist.
Skipped == {n \in PoolNode : known[n] # "no"}
Available == Host \ (silent \cup Skipped)

\* StaticPool.Update: all its nodes are active.
StaticActive == Host
-----------------------------------------------------------------------------
(* UpdatePeers *)

\* NodeURI.RemoteHost
RemoteHost(a) == IF a \in Loopback THEN None ELSE a

\* Mutant: addresses are not compared.
MatchesID(n, active, snap) == n \in active \cap Host

\* Mutant: the addresses are compared as they are.
MatchesRaw(n, active, snap) == n \in active \cap Host /\ snap[n] = HostAddr[n]

\* A peer that the pool has as active, under the same host.  Of its clients the pool
\* keeps no URI, so that they are not in the lookup.
Matches(n, active, snap) ==
    n \in active \cap Host /\ RemoteHost(snap[n]) = RemoteHost(HostAddr[n])

Unconfirmed(active, snap) == {n \in Node : snap[n] # None /\ ~Matches(n, active, snap)}

\* Mutant: the pool's list is extended.
InvalidPeersExtended(active, inactive) ==
    IF config.strict THEN inactive \cup Unconfirmed(active, up.snap) ELSE inactive

\* With StrictPeers the pool's list is replaced.
InvalidPeers(active, inactive) ==
    IF config.strict THEN Unconfirmed(active, up.snap) ELSE inactive

\* The update ends: Start or serveUpdates gets its error, or the loop goes on.
EndUpdate(u) ==
    up' = [u EXCEPT !.pc = IF u.errs THEN "failed" ELSE "done", !.todo = {}, !.cur = None]

\* A tick, or Start: the peers are read.
Peers ==
    /\ At("idle") \/ At("done")
    /\ up' = [up EXCEPT !.pc = "snapped", !.snap = peers, !.active = {}, !.invalid = {}]
    /\ told' = {} /\ whitelisted' = {}
    /\ UNCHANGED <<config, nodeVars, poolVars, faults>>

\* Peers, BlockNumber, p.Update, p.Peer or ConnectPeer fails: UpdatePeers returns at
\* once, also when some of the new peers are not connected yet.  A pool whose Update
\* fails may have taken up the report.
CallFails ==
    /\ Fault
    /\ up.pc \in {"idle", "done", "snapped", "asking", "connecting"}
    /\ EndUpdate([up EXCEPT !.errs = TRUE])
    /\ \/ UNCHANGED known
       \/ At("snapped") /\ ~config.static /\ known' = Refreshed
    /\ UNCHANGED <<config, nodeVars, silent, lapsed, told, whitelisted>>

\* p.Update
PoolUpdate ==
    LET active == IF config.static THEN StaticActive ELSE Fresh
        inactive == IF config.static THEN {} ELSE Inactive
        invalid == InvalidPeers(active, inactive)
    IN  /\ At("snapped")
        /\ up' = [up EXCEPT !.pc = "dropping", !.active = active, !.invalid = invalid,
                            !.todo = invalid]
        /\ known' = IF config.static THEN known ELSE Refreshed
        /\ UNCHANGED <<config, nodeVars, silent, lapsed, faults, told, whitelisted>>

\* The error is kept, and the loop goes on with DisconnectPeer.
TrustError(u) == [u EXCEPT !.errs = TRUE]

RemoveTrusted(n) ==
    LET next == [up EXCEPT !.todo = @ \ {n}, !.cur = n]
    IN  /\ At("dropping") /\ up.cur = None /\ n \in up.todo
        /\ \/ up' = next /\ RemoveTrustedPeer(n) /\ UNCHANGED faults
           \/ up' = TrustError(next) /\ Fault /\ UNCHANGED nodeVars
        /\ UNCHANGED <<config, poolVars, told, whitelisted>>

Disconnect ==
    LET n == up.cur
        next == [up EXCEPT !.cur = None]
    IN  /\ At("dropping") /\ n # None
        /\ \/ up' = next /\ DisconnectPeer(n) /\ told' = told \cup {n} /\ UNCHANGED faults
           \/ up' = [next EXCEPT !.errs = TRUE] /\ Fault /\ UNCHANGED <<nodeVars, told>>
        /\ UNCHANGED <<config, poolVars, whitelisted>>

\* Mutant: every peer counts, not only those of the pool.
NeedMoreAllPeers == config.numHosts - Cardinality({n \in Node : up.snap[n] # None})

NeedMore == config.numHosts - Cardinality(up.active)

\* All invalid peers were dealt with.
Dropped ==
    /\ At("dropping") /\ up.cur = None /\ up.todo = {}
    /\ IF NeedMore > 0 THEN up' = [up EXCEPT !.pc = "asking"] ELSE EndUpdate(up)
    /\ UNCHANGED <<config, nodeVars, poolVars, faults, told, whitelisted>>

\* p.Peer of a StaticPool returns all its nodes; a pool picks as many as it was asked
\* for, as it skips, and one for the caller, and returns those that accept in time.
Peer ==
    /\ At("asking")
    /\ \E hosts \in SUBSET Host :
          /\ hosts # {}
          /\ IF config.static THEN hosts = Host
             ELSE /\ hosts \subseteq Available
                  /\ Cardinality(hosts) <= NeedMore + Cardinality(Skipped) + 1
          /\ up' = [up EXCEPT !.pc = "connecting", !.todo = hosts]
    /\ UNCHANGED <<config, nodeVars, poolVars, faults, told, whitelisted>>

\* An internal error of p.Peer, such as "no available hosts", is ErrNoPeers: the
\* update goes on, and asks again next time.  That none of the hosts that could be
\* had accepted is a fault.
NoPeersError ==
    /\ At("asking") /\ ~config.static
    /\ IF Available = {} THEN UNCHANGED faults ELSE Fault
    /\ EndUpdate(up)
    /\ UNCHANGED <<config, nodeVars, poolVars, told, whitelisted>>

AddPeer(n) ==
    LET next == [up EXCEPT !.todo = @ \ {n}]
    IN  /\ At("connecting") /\ n \in up.todo
        /\ ConnectPeer(n)
        /\ IF next.todo = {} THEN EndUpdate(next) ELSE up' = next
        /\ UNCHANGED <<config, poolVars, faults, told, whitelisted>>

\* The program runs the agent again.
Restart ==
    /\ At("failed")
    /\ up' = [up EXCEPT !.pc = "idle", !.errs = FALSE]
    /\ UNCHANGED <<config, nodeVars, poolVars, faults, told, whitelisted>>
-----------------------------------------------------------------------------
\* The calls of UpdatePeers that are answered.
UpdateStep ==
    \/ Peers \/ PoolUpdate \/ Disconnect \/ Dropped \/ Peer \/ NoPeersError
    \/ \E n \in Node : RemoveTrusted(n) \/ AddPeer(n)

AgentNext ==
    \/ UpdateStep \/ CallFails \/ Restart
    \/ \E h \in Host : NodeDials(h)
    \/ \E n \in PoolNode : FallsSilent(n) \/ Lapses(n) \/ EntryExpires(n)
    \/ \E n \in Node, a \in Addr \cup {None} : PeerChanges(n, a)
    \/ \E n \in Caller : Whitelist(n)

\* The pool's entry is not renewed: the peer is not reported, or was not seen since.
Outdated(n) == n \in silent \/ peers[n] = None

\* The ticker ticks and calls return; the node dials; time passes.
AgentSpec ==
    /\ AgentInit /\ [][AgentNext]_vars
    /\ WF_vars(UpdateStep)
    /\ \A h \in Host : WF_vars(NodeDials(h))
    /\ \A n \in PoolNode : WF_vars(Lapses(n)) /\ WF_vars(Outdated(n) /\ EntryExpires(n))
-----------------------------------------------------------------------------
(* Properties *)

\* The pool has the peer as active, and both sides agree on its host, or neither
\* knows a routable one.
Confirmed(n) ==
    /\ n \in up.active \cap Host
    /\ up.snap[n] = HostAddr[n] \/ {up.snap[n], HostAddr[n]} \subseteq Loopback

\* An update that returns no error has made the node drop every peer that it had to:
\* with StrictPeers "any peers that don't match the active peer set that is returned
\* by the pool", address included, otherwise those that the pool called invalid.
UpdateCleans ==
    At("done") =>
        /\ up.invalid \subseteq told
        /\ config.strict =>
              \A n \in Node : up.snap[n] # None /\ ~Confirmed(n) => n \in told

\* With StrictPeers, a peer that the pool confirmed is not dropped.
ConfirmedKept == config.strict => \A n \in told : ~Confirmed(n)

\* With StrictPeers, a node that is whitelisted while an update is under way, and was
\* not connected when the update began, is still trusted: the pool's answer, which is
\* older than the call, does not revoke it.
WhitelistKept ==
    config.strict => \A n \in whitelisted : up.snap[n] = None => Trusted(n)

Connected(set) == {n \in set \ silent : peers[n] # None}

\* How many hosts the agent maintains: what NumHosts leaves after the clients among its
\* peers, which a pool reports as active too, and as many as can be had.  A StaticPool
\* reports all its nodes as active, connected or not, and is only asked for them when
\* they are too few.
Goal ==
    IF config.static
    THEN IF config.numHosts <= Cardinality(Host) THEN 0 ELSE Cardinality(Host \ silent)
    ELSE Min({config.numHosts - Cardinality(Connected(Client)), Cardinality(Host \ silent)})

Short == Cardinality(Connected(Host)) < Goal

\* NumHosts is documented as "the minimum number of vipnode hosts the client should
\* maintain connections with"; the code maintains as many pool nodes of any role.  An
\* agent that lacks hosts in this sense gets them or fails, although hosts time out and
\* fall silent and connections are lost, if its calls are answered and hosts that can be
\* had are refused to it only so often.
HostsMaintained == Short ~> ~Short \/ At("failed")
=============================================================================
