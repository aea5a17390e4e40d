---------------------------- MODULE ClusterConfig ----------------------------
(***************************************************************************)
(* The slots configuration of Redis Cluster (cluster.c): who serves each   *)
(* slot, in the view of every node.  A node learns from the headers of     *)
(* PING and PONG packets and from UPDATE packets; a claim wins a slot when *)
(* its config epoch is greater.  New epochs come from won elections and,   *)
(* without agreement, from resharding, CLUSTER FAILOVER TAKEOVER and the   *)
(* resolution of collisions.                                               *)
(*                                                                         *)
(* All nodes know each other.  An election is one step here, its messages  *)
(* are those of ClusterElection, and so is the order of saving nodes.conf  *)
(* and sending: here a change is saved when it is made.  Keys are left     *)
(* out: the commands that need an empty slot or data set find it empty.    *)
(***************************************************************************)
EXTENDS Naturals, Sequences, FiniteSets, FiniteSetsExt

CONSTANTS
  Nodes,          \* the nodes; their IDs are compared by number
  Slots,          \* hash slots, numbers
  None,           \* no node
  Owner,          \* the node that serves each slot at the start, or None
  Master,         \* the master of each node at the start, None for a master
  Kinds,          \* the kinds of events that may happen, see Event
  MaxEvents,      \* bound on the number of events
  MaxInFlight     \* no PING is sent while this many packets are under way

ASSUME NodesAssumption == Nodes \subseteq Nat /\ IsFiniteSet(Nodes) /\ None \notin Nodes
ASSUME SlotsAssumption == Slots \subseteq Nat
ASSUME OwnerAssumption == Owner \in [Slots -> Nodes \cup {None}]
ASSUME MasterAssumption == Master \in [Nodes -> Nodes \cup {None}]
ASSUME BoundAssumption == MaxEvents \in Nat /\ MaxInFlight \in Nat
ASSUME KindsAssumption ==
  Kinds \subseteq {"takeover", "bumpepoch", "setslot", "assign", "addslots", "delslots",
                  "replicate", "election", "restart", "link"}

VARIABLES
  node,           \* the state of each node, see NodeState
  out,            \* out[n][m]: packets of n on its own link to m
  back,           \* back[n][m]: PONGs of m on the link of n to m
  events          \* number of events so far

vars == <<node, out, back, events>>

-----------------------------------------------------------------------------
(***************************************************************************)
(* The state of a node and what it reads from it.                          *)
(***************************************************************************)
NodeState ==
  [currentEpoch : Nat,
   lastVoteEpoch : Nat,
   configEpoch : [Nodes -> Nat],                  \* of each node it knows
   slots : [Slots -> Nodes \cup {None}],          \* server.cluster->slots
   slaveof : [Nodes -> Nodes \cup {None}],        \* None for a master
   importing : SUBSET Slots,                      \* importing_slots_from
   aborted : BOOLEAN]                             \* an assertion failed

IsMaster(st, n) == st.slaveof[n] = None
SlotsOf(st, n) == {s \in Slots : st.slots[s] = n}

\* The node itself, or its master if it is a slave.
MasterOf(st, n) == IF IsMaster(st, n) THEN n ELSE st.slaveof[n]

\* The header of every packet: a slave announces its master's slots and epoch.
clusterBuildMessageHdr(st, me) ==
  [currentEpoch |-> st.currentEpoch,
   configEpoch |-> st.configEpoch[MasterOf(st, me)],
   slots |-> SlotsOf(st, MasterOf(st, me)),
   slaveof |-> st.slaveof[me]]

Packet(type, st, me) ==
  [type |-> type, hdr |-> clusterBuildMessageHdr(st, me), about |-> None,
   epoch |-> 0, slots |-> {}]

UpdatePacket(st, me, n) ==
  [type |-> "update", hdr |-> clusterBuildMessageHdr(st, me), about |-> n,
   epoch |-> st.configEpoch[n], slots |-> SlotsOf(st, n)]

-----------------------------------------------------------------------------
(***************************************************************************)
(* What a packet does to the node "me" that receives it.                   *)
(***************************************************************************)
\* The epochs of the header.
SeeEpochs(st, sender, h) ==
  [st EXCEPT !.currentEpoch = Max({@, h.currentEpoch}),
             !.configEpoch[sender] = Max({@, h.configEpoch})]

\* The role of the sender.
SwitchRole(st, sender, h) ==
  IF h.slaveof = None THEN [st EXCEPT !.slaveof[sender] = None]
  ELSE [st EXCEPT !.slaveof[sender] = h.slaveof,
                  !.slots = [s \in Slots |-> IF IsMaster(st, sender) /\ @[s] = sender
                                             THEN None ELSE @[s]]]

\* Turn me into a slave of n: serverAssert(myself->numslots == 0).
clusterSetMaster(st, me, n) ==
  IF SlotsOf(st, me) # {} THEN [st EXCEPT !.aborted = TRUE]
  ELSE [st EXCEPT !.slaveof[me] = n,
                  !.importing = IF IsMaster(st, me) THEN {} ELSE @]

\* Mutant: only unassigned slots are bound to the sender.
clusterUpdateSlotsConfigWith_Owned(st, me, sender, epoch, claimed) ==
  LET taken == {s \in claimed \ st.importing :
                  st.slots[s] # sender /\ st.slots[s] = None}
  IN  IF sender = me THEN st
      ELSE [st EXCEPT !.slots = [s \in Slots |-> IF s \in taken THEN sender ELSE @[s]]]

\* Mutant: a master that lost a slot is demoted although it serves others.
clusterUpdateSlotsConfigWith_NotEmpty(st, me, sender, epoch, claimed) ==
  LET curmaster == MasterOf(st, me)
      taken == {s \in claimed \ st.importing :
                  /\ st.slots[s] # sender
                  /\ st.slots[s] = None \/ st.configEpoch[st.slots[s]] < epoch}
      bound == [st EXCEPT !.slots = [s \in Slots |-> IF s \in taken THEN sender ELSE @[s]]]
  IN  IF sender = me THEN st
      ELSE IF \E s \in taken : st.slots[s] = curmaster
      THEN clusterSetMaster(bound, me, sender)
      ELSE bound

\* The slots "claimed" by a master with "epoch" are bound to it where the
\* claim is newer.  A master left without slots, or the slave of one, becomes
\* a slave of the node that took the last ones.
clusterUpdateSlotsConfigWith(st, me, sender, epoch, claimed) ==
  LET curmaster == MasterOf(st, me)
      taken == {s \in claimed \ st.importing :
                  /\ st.slots[s] # sender
                  /\ st.slots[s] = None \/ st.configEpoch[st.slots[s]] < epoch}
      bound == [st EXCEPT !.slots = [s \in Slots |-> IF s \in taken THEN sender ELSE @[s]]]
  IN  IF sender = me THEN st
      ELSE IF (\E s \in taken : st.slots[s] = curmaster) /\ SlotsOf(bound, curmaster) = {}
      THEN clusterSetMaster(bound, me, sender)
      ELSE bound

\* A slot the sender claims although its owner has a greater epoch.
Outdated(st, sender, h) ==
  {s \in h.slots : /\ st.slots[s] \notin {sender, None}
                   /\ st.configEpoch[st.slots[s]] > h.configEpoch}

\* Mutant: the current epoch is taken, not the next one.
clusterHandleConfigEpochCollision_NoIncrement(st, me, sender) ==
  IF st.configEpoch[sender] = st.configEpoch[me] /\ me < sender
  THEN [st EXCEPT !.configEpoch[me] = st.currentEpoch] ELSE st

\* The node with the smaller ID takes a new epoch.
clusterHandleConfigEpochCollision(st, me, sender) ==
  IF st.configEpoch[sender] = st.configEpoch[me] /\ me < sender
  THEN [st EXCEPT !.currentEpoch = @ + 1, !.configEpoch[me] = st.currentEpoch + 1]
  ELSE st

\* PING and PONG: the state after each part of the handler.
ProcessPing(st, me, sender, h) ==
  LET seen == SeeEpochs(st, sender, h)
      roles == SwitchRole(seen, sender, h)
      dirty == SlotsOf(roles, MasterOf(roles, sender)) # h.slots
      bound == IF IsMaster(roles, sender) /\ dirty
               THEN clusterUpdateSlotsConfigWith(roles, me, sender, h.configEpoch, h.slots)
               ELSE roles
      collides == /\ IsMaster(bound, me) /\ IsMaster(bound, sender)
                  /\ h.configEpoch = bound.configEpoch[me]
  IN  [pong |-> Packet("pong", seen, me),
       updates |-> IF dirty /\ Outdated(bound, sender, h) # {}
                   THEN <<UpdatePacket(bound, me, bound.slots[Min(Outdated(bound, sender, h))])>>
                   ELSE <<>>,
       state |-> IF collides THEN clusterHandleConfigEpochCollision(bound, me, sender)
                 ELSE bound]

\* UPDATE: the configuration of the node p.about.
ProcessUpdate(st, me, sender, p) ==
  LET seen == SeeEpochs(st, sender, p.hdr)
  IN  IF seen.configEpoch[p.about] >= p.epoch THEN seen
      ELSE clusterUpdateSlotsConfigWith(
             [seen EXCEPT !.slaveof[p.about] = None, !.configEpoch[p.about] = p.epoch],
             me, p.about, p.epoch, p.slots)

-----------------------------------------------------------------------------
(***************************************************************************)
(* Packets.  A link is a TCP connection of its owner to another node: the  *)
(* owner sends PING, UPDATE and unsolicited PONG packets on it, the other  *)
(* side answers with PONG on the same connection.                          *)
(***************************************************************************)
Others(n) == Nodes \ {n}

Pairs == {p \in Nodes \X Nodes : p[1] # p[2]}

Up == {n \in Nodes : ~node[n].aborted}

\* What n has not read is lost.
LoseUnread(n) ==
  /\ out' = [m \in Nodes |-> [out[m] EXCEPT ![n] = <<>>]]
  /\ back' = [back EXCEPT ![n] = [m \in Nodes |-> <<>>]]

\* An assertion fails and the process ends.  What the handler did so far was
\* neither saved nor sent.
Abort(n) ==
  /\ node' = [node EXCEPT ![n].aborted = TRUE]
  /\ LoseUnread(n)

\* The number of packets on the link of p[1] to p[2].
OnLink(p) == Len(out[p[1]][p[2]]) + Len(back[p[1]][p[2]])

\* clusterCron pings a node whose last PING was answered.
Ping(n, m) ==
  /\ OnLink(<<n, m>>) = 0
  /\ MapThenSumSet(OnLink, Pairs \cap (Up \X Up)) < MaxInFlight
  /\ out' = [out EXCEPT ![n][m] = Append(@, Packet("ping", node[n], n))]
  /\ UNCHANGED <<node, back, events>>

\* n processes the first packet of m on the link of m.
ReceiveOnAccepted(n, m) ==
  LET p == Head(out[m][n])
      r == ProcessPing(node[n], n, m, p.hdr)
      u == ProcessUpdate(node[n], n, m, p)
  IN  /\ out[m][n] # <<>>
      /\ UNCHANGED events
      /\ \/ /\ p.type \in {"ping", "pong"} /\ ~r.state.aborted
            /\ node' = [node EXCEPT ![n] = r.state]
            /\ out' = [out EXCEPT ![m][n] = Tail(@), ![n][m] = @ \o r.updates]
            /\ back' = [back EXCEPT ![m][n] = IF p.type = "ping" THEN Append(@, r.pong) ELSE @]
         \/ /\ p.type = "update" /\ ~u.aborted
            /\ node' = [node EXCEPT ![n] = u]
            /\ out' = [out EXCEPT ![m][n] = Tail(@)]
            /\ UNCHANGED back
         \/ /\ IF p.type = "update" THEN u.aborted ELSE r.state.aborted
            /\ Abort(n)

\* n processes the PONG of m on its own link.
ReceiveOnOwn(n, m) ==
  LET r == ProcessPing(node[n], n, m, Head(back[n][m]).hdr)
  IN  /\ back[n][m] # <<>>
      /\ UNCHANGED events
      /\ \/ /\ ~r.state.aborted
            /\ node' = [node EXCEPT ![n] = r.state]
            /\ back' = [back EXCEPT ![n][m] = Tail(@)]
            /\ out' = [out EXCEPT ![n][m] = @ \o r.updates]
         \/ r.state.aborted /\ Abort(n)

\* PONG to all the nodes.
clusterBroadcastPong(n, st) ==
  out' = [out EXCEPT ![n] = [m \in Nodes |-> IF m = n THEN <<>>
                                            ELSE Append(out[n][m], Packet("pong", st, n))]]

-----------------------------------------------------------------------------
(***************************************************************************)
(* Events: commands of the administrator, elections and faults.            *)
(***************************************************************************)
Event(kind) == kind \in Kinds /\ events < MaxEvents /\ events' = events + 1

clusterGetMaxEpoch(st) == Max({st.currentEpoch} \cup {st.configEpoch[m] : m \in Nodes})

\* A new epoch without asking anybody.
clusterBumpConfigEpochWithoutConsensus(st, me) ==
  IF st.configEpoch[me] \in {0} \/ st.configEpoch[me] # clusterGetMaxEpoch(st)
  THEN [st EXCEPT !.currentEpoch = @ + 1, !.configEpoch[me] = st.currentEpoch + 1]
  ELSE st

\* me takes its master's slots.
clusterFailoverReplaceYourMaster(st, me) ==
  [st EXCEPT !.slaveof[me] = None,
             !.slots = [s \in Slots |-> IF @[s] = st.slaveof[me] THEN me ELSE @[s]]]

\* CLUSTER FAILOVER TAKEOVER.
Takeover(n) ==
  LET st == clusterFailoverReplaceYourMaster(
              clusterBumpConfigEpochWithoutConsensus(node[n], n), n)
  IN  /\ Event("takeover")
      /\ ~IsMaster(node[n], n)
      /\ node' = [node EXCEPT ![n] = st]
      /\ clusterBroadcastPong(n, st)
      /\ UNCHANGED back

\* CLUSTER BUMPEPOCH.
BumpEpoch(n) ==
  /\ Event("bumpepoch")
  /\ node' = [node EXCEPT ![n] = clusterBumpConfigEpochWithoutConsensus(@, n)]
  /\ UNCHANGED <<out, back>>

\* The masters with slots that st knows.
Voters(st) == {m \in Nodes : IsMaster(st, m) /\ SlotsOf(st, m) # {}}

\* What node v answers to the vote request of n with header h.
Grants(v, n, h) ==
  LET st == SeeEpochs(node[v], n, h)
  IN  /\ IsMaster(st, v) /\ SlotsOf(st, v) # {}
      /\ h.currentEpoch >= st.currentEpoch
      /\ st.lastVoteEpoch # st.currentEpoch
      /\ ~IsMaster(st, n)
      /\ \A s \in h.slots : st.slots[s] # None => st.configEpoch[st.slots[s]] <= h.configEpoch

\* The slave n is elected by the nodes in V, its request is lost elsewhere.
Elected(n, V) ==
  LET asking == [node[n] EXCEPT !.currentEpoch = @ + 1]
      h == clusterBuildMessageHdr(asking, n)
      voted(v) == [SeeEpochs(node[v], n, h) EXCEPT !.lastVoteEpoch = h.currentEpoch]
      won == [asking EXCEPT
                !.configEpoch = [m \in Nodes |->
                   IF m = n THEN asking.currentEpoch
                   ELSE IF m \in V THEN Max({@[m], node[m].configEpoch[m]}) ELSE @[m]]]
      st == clusterFailoverReplaceYourMaster(won, n)
  IN  /\ Event("election")
      /\ ~IsMaster(node[n], n) /\ h.slots # {}
      /\ V \subseteq Voters(asking)
      /\ 2 * Cardinality(V) > Cardinality(Voters(asking))
      /\ \A v \in V : Grants(v, n, h)
      /\ node' = [m \in Nodes |-> IF m = n THEN st ELSE IF m \in V THEN voted(m) ELSE node[m]]
      /\ clusterBroadcastPong(n, st)
      /\ UNCHANGED back

\* CLUSTER SETSLOT s IMPORTING.
SetImporting(n, s) ==
  /\ Event("setslot")
  /\ IsMaster(node[n], n) /\ node[n].slots[s] # n
  /\ node' = [node EXCEPT ![n].importing = @ \cup {s}]
  /\ UNCHANGED <<out, back>>

\* CLUSTER SETSLOT s STABLE.
SetStable(n, s) ==
  /\ Event("setslot")
  /\ IsMaster(node[n], n) /\ s \in node[n].importing
  /\ node' = [node EXCEPT ![n].importing = @ \ {s}]
  /\ UNCHANGED <<out, back>>

\* CLUSTER SETSLOT s NODE, at the node that is to serve the slot.
SetSlotMyself(n, s) ==
  LET st == IF s \in node[n].importing
            THEN clusterBumpConfigEpochWithoutConsensus(node[n], n) ELSE node[n]
  IN  /\ Event("setslot")
      /\ IsMaster(node[n], n)
      /\ node' = [node EXCEPT ![n] = [st EXCEPT !.importing = @ \ {s}, !.slots[s] = n]]
      /\ UNCHANGED <<out, back>>

\* CLUSTER SETSLOT s NODE, at a node that is not to serve the slot.  The
\* command carries no epoch, and m may be any node.
SetSlotNode(n, s, m) ==
  /\ Event("assign")
  /\ IsMaster(node[n], n)
  /\ m # n /\ node[n].slots[s] # m
  /\ node' = [node EXCEPT ![n].slots[s] = m]
  /\ UNCHANGED <<out, back>>

\* CLUSTER ADDSLOTS, which does not look at the role of the node.
AddSlot(n, s) ==
  /\ Event("addslots")
  /\ node[n].slots[s] = None
  /\ node' = [node EXCEPT ![n].slots[s] = n, ![n].importing = @ \ {s}]
  /\ UNCHANGED <<out, back>>

\* CLUSTER DELSLOTS.
DelSlot(n, s) ==
  /\ Event("delslots")
  /\ node[n].slots[s] # None
  /\ node' = [node EXCEPT ![n].slots[s] = None, ![n].importing = @ \ {s}]
  /\ UNCHANGED <<out, back>>

\* CLUSTER REPLICATE.  Only of a master the command asks for no slots.
Replicate(n, m) ==
  LET st == clusterSetMaster(node[n], n, m)
  IN  /\ Event("replicate")
      /\ m # n /\ IsMaster(node[n], m)
      /\ IsMaster(node[n], n) => SlotsOf(node[n], n) = {}
      /\ node[n].slaveof[n] # m
      /\ \/ /\ ~st.aborted
            /\ node' = [node EXCEPT ![n] = st]
            /\ UNCHANGED <<out, back>>
         \/ st.aborted /\ Abort(n)

\* Mutant: the saved current epoch is not raised to the config epochs.
Restart_SavedEpoch(n) ==
  /\ Event("restart")
  /\ \E e \in node[n].lastVoteEpoch .. node[n].currentEpoch :
       node' = [node EXCEPT ![n].currentEpoch = e, ![n].aborted = FALSE]
  /\ LoseUnread(n)

\* The node restarts from nodes.conf, whether it aborted or not.  A
\* currentEpoch that was only heard of is not saved.
Restart(n) ==
  /\ Event("restart")
  /\ \E e \in 0 .. node[n].currentEpoch :
       /\ e >= node[n].lastVoteEpoch
       /\ \A m \in Nodes : e >= node[n].configEpoch[m]
       /\ node' = [node EXCEPT ![n].currentEpoch = e, ![n].aborted = FALSE]
  /\ LoseUnread(n)

\* The link of n to m is closed with the packets on it.
freeClusterLink(n, m) ==
  /\ Event("link")
  /\ out[n][m] \o back[n][m] # <<>>
  /\ out' = [out EXCEPT ![n][m] = <<>>]
  /\ back' = [back EXCEPT ![n][m] = <<>>]
  /\ UNCHANGED node

-----------------------------------------------------------------------------
InitState ==
  [currentEpoch |-> 0, lastVoteEpoch |-> 0, configEpoch |-> [m \in Nodes |-> 0],
   slots |-> Owner, slaveof |-> Master, importing |-> {}, aborted |-> FALSE]

Init ==
  /\ node = [n \in Nodes |-> InitState]
  /\ out = [n \in Nodes |-> [m \in Nodes |-> <<>>]]
  /\ back = [n \in Nodes |-> [m \in Nodes |-> <<>>]]
  /\ events = 0

Receive(n, m) == ReceiveOnAccepted(n, m) \/ ReceiveOnOwn(n, m)

Administrator ==
  \/ \E n \in Up : Takeover(n) \/ BumpEpoch(n)
  \/ \E n \in Up, s \in Slots : SetImporting(n, s) \/ SetStable(n, s) \/ SetSlotMyself(n, s)
  \/ \E n \in Up, m \in Nodes, s \in Slots : SetSlotNode(n, s, m)
  \/ \E n \in Up, s \in Slots : AddSlot(n, s) \/ DelSlot(n, s)
  \/ \E n \in Up, m \in Nodes : Replicate(n, m)

Environment ==
  \/ \E n \in Up, V \in SUBSET Up : Elected(n, V)
  \/ \E n \in Nodes : Restart(n)
  \/ \E n \in Nodes, m \in Nodes : freeClusterLink(n, m)

Next ==
  \/ \E p \in Pairs : {p[1], p[2]} \subseteq Up /\ Ping(p[1], p[2])
  \/ \E p \in Pairs : p[1] \in Up /\ Receive(p[1], p[2])
  \/ Administrator
  \/ Environment

\* clusterCron pings each node that is up again and again: when the last PING
\* was answered, or after it freed the link because no PONG came for half the
\* node timeout.  So the packets on a link are read or lost in the end.
Fairness ==
  \A p \in Pairs : []<><<Ping(p[1], p[2]) \/ ~({p[1], p[2]} \subseteq Up)>>_vars

Spec == Init /\ [][Next]_vars /\ Fairness

-----------------------------------------------------------------------------
\* Every node has a view of all nodes and slots.
TypeOK ==
  /\ node \in [Nodes -> NodeState]
  /\ events \in 0 .. MaxEvents

\* No node knows a greater config epoch of a master than the master itself, so
\* that no stale packet outbids a master's own claims, and no config epoch is
\* greater than the current epoch of a node that knows it: the next epoch a
\* node takes is new to it (clusterBumpConfigEpochWithoutConsensus, and
\* clusterLoadConfig after a restart).
MasterKnowsBest ==
  \A n, m \in Nodes :
    /\ IsMaster(node[m], m) => node[n].configEpoch[m] <= node[m].configEpoch[m]
    /\ node[n].configEpoch[m] <= node[n].currentEpoch

\* The assertion of clusterSetMaster fails only on a slave with slots, which
\* ADDSLOTS can make: no order of claims, UPDATE packets and commands demotes
\* a master that still serves a slot.
OnlySlavesAbort ==
  \A n \in Nodes :
    node[n].aborted => ~IsMaster(node[n], n) /\ SlotsOf(node[n], n) # {}

Claims(n, s) == IsMaster(node[n], n) /\ node[n].slots[s] = n

EpochsDistinct ==
  \A n, m \in Nodes :
    n # m /\ IsMaster(node[n], n) /\ IsMaster(node[m], m)
      => node[n].configEpoch[n] # node[m].configEpoch[m]

\* Two masters end with different config epochs, whatever happened: the
\* collision of nodes that took an epoch without asking is resolved although
\* each sees old headers of the others (clusterHandleConfigEpochCollision).
EpochsBecomeDistinct == <>[]EpochsDistinct

\* The last failover wins: in the end the slots that the master with the
\* greatest config epoch claims are its own for every node that is up and does
\* not import them, stale claims and UPDATE packets notwithstanding
\* (clusterUpdateSlotsConfigWith).  The exception is a slot that SETSLOT NODE
\* bound to a slave, whose epoch may be that of the claim.
NewestClaimWins ==
  <>[](\A n \in Nodes, m \in Up, s \in Slots :
         /\ Claims(n, s) /\ s \notin node[m].importing
         /\ \A o \in Nodes \ {n} : node[o].configEpoch[o] < node[n].configEpoch[n]
         => \/ node[m].slots[s] = n
            \/ node[m].slots[s] # None /\ ~IsMaster(node[m], node[m].slots[s]))

\* A claim that no other node disputes can be propagated when no epochs
\* collide: it outbids the node that any other one still binds the slot to,
\* unless that one imports it.  "set this node configEpoch to a new epoch so
\* that the new version can be propagated by the cluster" (the SETSLOT branch
\* of clusterCommand).
NewVersionPropagates ==
  EpochsDistinct =>
    \A n, m \in Nodes, s \in Slots :
      /\ Claims(n, s) /\ \A o \in Nodes \ {n} : ~Claims(o, s)
      /\ s \notin node[m].importing /\ node[m].slots[s] \notin {n, None}
      => node[m].configEpoch[node[m].slots[s]] < node[n].configEpoch[n]

=============================================================================
