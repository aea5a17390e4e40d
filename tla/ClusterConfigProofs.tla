------------------------- MODULE ClusterConfigProofs -------------------------
(***************************************************************************)
(* For any nodes, slots and events: no node knows a greater config epoch   *)
(* of a master than the master itself, no config epoch is above the        *)
(* current epoch of a node that knows it, and only a slave with slots      *)
(* aborts.                                                                 *)
(***************************************************************************)
EXTENDS ClusterNodeProofs

-----------------------------------------------------------------------------
(***************************************************************************)
(* Steps.                                                                  *)
(***************************************************************************)
\* The parts of a packet.
LEMMA PacketPartsOK ==
  ASSUME NEW p \in Packets
  PROVE  p.hdr \in Header /\ p.hdr.configEpoch \in Nat /\ p.hdr.currentEpoch \in Nat /\ p.epoch \in Nat
BY DEF Packets, Header

\* The packets in the queues are packets.
LEMMA InQueue ==
  ASSUME NEW q \in Queues, NEW n \in Nodes, NEW m \in Nodes, NEW p \in Elements(q[n][m])
  PROVE  p \in Packets
<1>1. q[n][m] \in Queue
  BY DEF Queues
<1>2. \A i \in DOMAIN q[n][m] : q[n][m][i] \in Packets
  BY <1>1 DEF Queue
<1> QED
  BY <1>2 DEF Elements

\* A packet stays true when the nodes cover what they covered.
LEMMA PacketLater ==
  ASSUME NEW nd, NEW nd2, NEW p \in Packets, NEW a \in Nodes, NEW b \in Nodes,
         PacketOK(nd, p, a, b),
         \A m \in Nodes, e \in Nat : Covers(nd[m], m, e) => Covers(nd2[m], m, e)
  PROVE  PacketOK(nd2, p, a, b)
BY PacketPartsOK DEF PacketOK, Announces

\* The obligations of a step: the nodes cover what they covered, what they
\* learn is covered, and so is what they send.
LEMMA StepOK ==
  ASSUME IInv,
         node' \in [Nodes -> NodeState], events' \in 0 .. MaxEvents,
         out' \in Queues, back' \in Queues,
         \A m \in Nodes, e \in Nat : Covers(node[m], m, e) => Covers(node'[m], m, e),
         \A m \in Nodes : Bounded(node'[m]) /\ Sound(node'[m], m),
         \A n, m \in Nodes : \/ node'[n].configEpoch[m] = node[n].configEpoch[m]
                             \/ Covers(node'[m], m, node'[n].configEpoch[m]),
         \A n, m \in Nodes : \A p \in Elements(out'[n][m]) :
           p \in Elements(out[n][m]) \/ PacketOK(node', p, n, m),
         \A n, m \in Nodes : \A p \in Elements(back'[n][m]) :
           p \in Elements(back[n][m]) \/ PacketOK(node', p, m, n)
  PROVE  IInv'
<1>0. node \in [Nodes -> NodeState] /\ out \in Queues /\ back \in Queues
  BY DEF IInv, Types, TypeOK
<1>1. Types'
  BY DEF Types, TypeOK
<1>2. NodesOK'
  BY DEF NodesOK
<1>3. EpochsOK'
  <2> SUFFICES ASSUME NEW n \in Nodes, NEW m \in Nodes
               PROVE  Covers(node'[m], m, node'[n].configEpoch[m])
    BY DEF EpochsOK
  <2>1. Covers(node[m], m, node[n].configEpoch[m])
    BY DEF IInv, EpochsOK
  <2>2. node[n].configEpoch[m] \in Nat
    BY <1>0, StateOK
  <2>3. Covers(node'[m], m, node[n].configEpoch[m])
    BY <2>1, <2>2
  <2> QED
    BY <2>3
<1>4. ASSUME NEW n \in Nodes, NEW m \in Nodes, NEW p \in Elements(out'[n][m])
      PROVE  PacketOK(node', p, n, m)
  <2>1. CASE p \in Elements(out[n][m])
    <3>1. p \in Packets /\ PacketOK(node, p, n, m)
      BY <1>0, <2>1, InQueue DEF IInv, PacketsOK
    <3> QED
      BY <3>1, PacketLater, ZenonT(30)
  <2> QED
    BY <2>1
<1>5. ASSUME NEW n \in Nodes, NEW m \in Nodes, NEW p \in Elements(back'[n][m])
      PROVE  PacketOK(node', p, m, n)
  <2>1. CASE p \in Elements(back[n][m])
    <3>1. p \in Packets /\ PacketOK(node, p, m, n)
      BY <1>0, <2>1, InQueue DEF IInv, PacketsOK
    <3> QED
      BY <3>1, PacketLater, ZenonT(30)
  <2> QED
    BY <2>1
<1>6. PacketsOK'
  BY <1>4, <1>5 DEF PacketsOK
<1> QED
  BY <1>1, <1>2, <1>3, <1>6 DEF IInv

\* A step of one node.
LEMMA OneNodeOK ==
  ASSUME IInv, NEW n \in Nodes, NEW st \in NodeState, node' = [node EXCEPT ![n] = st],
         events' \in 0 .. MaxEvents, out' \in Queues, back' \in Queues,
         Bounded(st), Sound(st, n),
         \A e \in Nat : Covers(node[n], n, e) => Covers(st, n, e),
         \A m \in Nodes \ {n} : \/ st.configEpoch[m] = node[n].configEpoch[m]
                                \/ Covers(node[m], m, st.configEpoch[m]),
         \A a, b \in Nodes : \A p \in Elements(out'[a][b]) :
           p \in Elements(out[a][b]) \/ PacketOK(node', p, a, b),
         \A a, b \in Nodes : \A p \in Elements(back'[a][b]) :
           p \in Elements(back[a][b]) \/ PacketOK(node', p, b, a)
  PROVE  IInv'
<1>1. /\ node \in [Nodes -> NodeState] /\ node' \in [Nodes -> NodeState]
      /\ node'[n] = st /\ \A m \in Nodes \ {n} : node'[m] = node[m]
  BY DEF IInv, Types, TypeOK
<1>2. \A m \in Nodes, e \in Nat : Covers(node[m], m, e) => Covers(node'[m], m, e)
  BY <1>1
<1>3. \A m \in Nodes : Bounded(node'[m]) /\ Sound(node'[m], m)
  BY <1>1 DEF IInv, NodesOK
<1>4. ASSUME NEW a \in Nodes, NEW m \in Nodes
      PROVE  \/ node'[a].configEpoch[m] = node[a].configEpoch[m]
             \/ Covers(node'[m], m, node'[a].configEpoch[m])
  <2>1. CASE a # n
    BY <1>1, <2>1
  <2>2. CASE a = n /\ m = n
    BY <1>1, <2>2, CoversOwn
  <2>3. CASE a = n /\ m # n
    BY <1>1, <2>3
  <2> QED
    BY <2>1, <2>2, <2>3
<1> QED
  BY <1>1, <1>2, <1>3, <1>4, StepOK, ZenonT(30)

\* A node evolves by itself and sends nothing.
LEMMA QuietOK ==
  ASSUME IInv, NEW n \in Nodes, NEW st \in NodeState, node' = [node EXCEPT ![n] = st],
         events' \in 0 .. MaxEvents, UNCHANGED <<out, back>>,
         Bounded(st), Sound(st, n),
         \A e \in Nat : Covers(node[n], n, e) => Covers(st, n, e),
         \A m \in Nodes \ {n} : st.configEpoch[m] = node[n].configEpoch[m]
  PROVE  IInv'
<1>1. out \in Queues /\ back \in Queues
  BY DEF IInv, Types
<1> QED
  BY <1>1, OneNodeOK, ZenonT(30)

\* A queue is replaced.
Put(q, n, m, s) == [q EXCEPT ![n][m] = s]

\* The queues after one of them was replaced.
LEMMA QueueOK ==
  ASSUME NEW q \in Queues, NEW n \in Nodes, NEW m \in Nodes, NEW s \in Queue
  PROVE  /\ Put(q, n, m, s) \in Queues
         /\ \A a, b \in Nodes : Put(q, n, m, s)[a][b] = IF a = n /\ b = m THEN s ELSE q[a][b]
BY DEF Queues, Put

\* What holds of the nodes and the queues in every step.
LEMMA StateFacts ==
  ASSUME IInv
  PROVE  /\ node \in [Nodes -> NodeState] /\ out \in Queues /\ back \in Queues
         /\ events \in 0 .. MaxEvents /\ events \in Nat
         /\ \A n \in Nodes : node[n] \in NodeState /\ Bounded(node[n]) /\ Sound(node[n], n)
         /\ \A n, m \in Nodes : out[n][m] \in Queue /\ back[n][m] \in Queue
<1>1. node \in [Nodes -> NodeState] /\ out \in Queues /\ back \in Queues /\ events \in 0 .. MaxEvents
  BY DEF IInv, Types, TypeOK
<1>2. events \in Nat
  BY <1>1, BoundAssumption
<1> QED
  BY <1>1, <1>2 DEF IInv, NodesOK, Queues

\* PING.
LEMMA PingStep ==
  ASSUME IInv, NEW n \in Nodes, NEW m \in Nodes, Ping(n, m)
  PROVE  IInv'
<1> DEFINE p == Packet("ping", node[n], n)
<1>1. /\ node \in [Nodes -> NodeState] /\ out \in Queues /\ back \in Queues
      /\ events \in 0 .. MaxEvents /\ node[n] \in NodeState /\ Bounded(node[n])
      /\ Sound(node[n], n) /\ out[n][m] \in Queue
  BY StateFacts
<1>2. p \in Packets /\ p.type = "ping" /\ Announces(node[n], n, p)
  BY <1>1, PacketTypeOK
<1> HIDE DEF p
<1> DEFINE s == Append(out[n][m], p)
<1>3. s \in Queue /\ Elements(s) = Elements(out[n][m]) \cup {p}
  BY <1>1, <1>2, ElementsAppend
<1>4. out' = Put(out, n, m, s) /\ UNCHANGED <<node, back, events>>
  BY DEF Ping, p, Put
<1> HIDE DEF s
<1>5. out' \in Queues /\ \A a, b \in Nodes : out'[a][b] = IF a = n /\ b = m THEN s ELSE out[a][b]
  <2>1. /\ Put(out, n, m, s) \in Queues
       /\ \A a, b \in Nodes : Put(out, n, m, s)[a][b] = IF a = n /\ b = m THEN s ELSE out[a][b]
    BY <1>1, <1>3, QueueOK
  <2> QED
    BY <1>4, <2>1
<1>6. PacketOK(node', p, n, m)
  BY <1>2, <1>4 DEF PacketOK
<1>7. \A a, b \in Nodes : \A x \in Elements(out'[a][b]) :
        x \in Elements(out[a][b]) \/ PacketOK(node', x, a, b)
  BY <1>3, <1>5, <1>6
<1> QED
  BY <1>1, <1>4, <1>5, <1>7, StepOK, StateFacts

\* A node loses what it has not read; its epochs for others do not change.
LEMMA LosesOK ==
  ASSUME IInv, NEW n \in Nodes, NEW st \in NodeState, node' = [node EXCEPT ![n] = st],
         events' \in 0 .. MaxEvents, LoseUnread(n), Bounded(st), Sound(st, n),
         st.configEpoch = node[n].configEpoch,
         \A e \in Nat : Covers(node[n], n, e) => Covers(st, n, e)
  PROVE  IInv'
<1>1. out \in Queues /\ back \in Queues
  BY StateFacts
<1>2. /\ out' = [m \in Nodes |-> [out[m] EXCEPT ![n] = <<>>]]
      /\ back' = [back EXCEPT ![n] = [m \in Nodes |-> <<>>]]
  BY DEF LoseUnread
<1>3. <<>> \in Queue /\ Elements(<<>>) = {}
  BY DEF Elements, Queue
<1>4. out' \in Queues /\ \A a, b \in Nodes : out'[a][b] = IF b = n THEN <<>> ELSE out[a][b]
  BY <1>1, <1>2, <1>3, Zenon DEF Queues
<1>5. back' \in Queues /\ \A a, b \in Nodes : back'[a][b] = IF a = n THEN <<>> ELSE back[a][b]
  BY <1>1, <1>2, <1>3 DEF Queues
<1>6. \A a, b \in Nodes : /\ \A p \in Elements(out'[a][b]) : p \in Elements(out[a][b])
                          /\ \A p \in Elements(back'[a][b]) : p \in Elements(back[a][b])
  BY <1>3, <1>4, <1>5
<1> QED
  BY <1>4, <1>5, <1>6, OneNodeOK

\* A slave with slots aborts.
LEMMA AbortStep ==
  ASSUME IInv, NEW n \in Nodes, ~Serves(node[n], n), Abort(n), events' \in 0 .. MaxEvents
  PROVE  IInv'
<1> DEFINE st == [node[n] EXCEPT !.aborted = TRUE]
<1>1. node \in [Nodes -> NodeState] /\ node[n] \in NodeState /\ Bounded(node[n])
  BY StateFacts
<1>2. node' = [node EXCEPT ![n] = st] /\ LoseUnread(n)
  BY <1>1 DEF Abort, NodeState
<1>3. /\ st \in NodeState /\ st.configEpoch = node[n].configEpoch /\ st.slots = node[n].slots
      /\ st.currentEpoch = node[n].currentEpoch /\ st.slaveof = node[n].slaveof
  BY <1>1, Zenon DEF NodeState
<1> HIDE DEF st
<1>4. Bounded(st) /\ Sound(st, n)
  BY <1>1, <1>3 DEF Bounded, Sound, Serves, IsMaster, SlotsOf
<1>5. \A e \in Nat : Covers(node[n], n, e) => Covers(st, n, e)
  BY <1>3 DEF Covers, IsMaster
<1> QED
  BY <1>2, <1>3, <1>4, <1>5, LosesOK, ZenonT(30)

\* What a handler learns from the packet it reads.
LEMMA ReadOK ==
  ASSUME IInv, NEW n \in Nodes, ~node[n].aborted, NEW m \in Nodes \ {n}, NEW p \in Packets, PacketOK(node, p, m, n)
  PROVE  LET r == ProcessPing(node[n], n, m, p.hdr)
         IN  /\ r.state \in NodeState /\ Bounded(r.state)
             /\ r.state.aborted => ~Serves(node[n], n)
             /\ \A e \in Nat : Covers(node[n], n, e) => Covers(r.state, n, e)
             /\ \A x \in Nodes \ {n} : \/ r.state.configEpoch[x] = node[n].configEpoch[x]
                                       \/ Covers(node[x], x, r.state.configEpoch[x])
             /\ r.pong \in Packets /\ r.pong.type = "pong" /\ Announces(r.state, n, r.pong)
             /\ r.updates \in Queue
             /\ \A u \in Elements(r.updates) :
                  /\ Announces(r.state, n, u) /\ u.about \in Nodes \ {m}
                  /\ u.epoch <= u.hdr.currentEpoch /\ u.epoch <= r.state.configEpoch[u.about]
                  /\ u \in Packets
<1> DEFINE r == ProcessPing(node[n], n, m, p.hdr)
<1>1. node[n] \in NodeState /\ Bounded(node[n])
  BY StateFacts
<1>2. /\ p.hdr \in Header /\ p.hdr.configEpoch <= p.hdr.currentEpoch
      /\ Covers(node[m], m, p.hdr.configEpoch)
  BY PacketPartsOK DEF PacketOK, Announces
<1>3. /\ r.state \in NodeState /\ Evolves(node[n], r.state, n) /\ Bounded(r.state)
      /\ \A x \in Nodes \ {n, m} : r.state.configEpoch[x] = node[n].configEpoch[x]
      /\ r.state.configEpoch[m] \in {node[n].configEpoch[m], p.hdr.configEpoch}
      /\ r.pong \in Packets /\ r.pong.type = "pong" /\ Announces(r.state, n, r.pong)
      /\ r.updates \in Queue
      /\ \A u \in Elements(r.updates) :
           /\ Announces(r.state, n, u) /\ u.about \in Nodes \ {m}
           /\ u.epoch <= u.hdr.currentEpoch /\ u.epoch <= r.state.configEpoch[u.about]
  BY <1>1, <1>2, ProcessPingOK, ZenonT(30)
<1> HIDE DEF r
<1>4. r.state.aborted => ~Serves(node[n], n)
  BY <1>3 DEF Evolves
<1>5. \A e \in Nat : Covers(node[n], n, e) => Covers(r.state, n, e)
  BY <1>1, <1>3, EvolvesCovers
<1>6. \A x \in Nodes \ {n} : \/ r.state.configEpoch[x] = node[n].configEpoch[x]
                             \/ Covers(node[x], x, r.state.configEpoch[x])
  BY <1>2, <1>3
<1>7. \A u \in Elements(r.updates) : u \in Packets
  BY <1>3 DEF Elements, Queue
<1> QED
  BY <1>3, <1>4, <1>5, <1>6, <1>7 DEF r

\* The packets a handler sends say what the nodes cover afterwards.
LEMMA UpdatesOK ==
  ASSUME IInv, NEW n \in Nodes, NEW m \in Nodes \ {n}, NEW st \in NodeState,
         node' = [node EXCEPT ![n] = st],
         \A e \in Nat : Covers(node[n], n, e) => Covers(st, n, e),
         \A x \in Nodes \ {n} : \/ st.configEpoch[x] = node[n].configEpoch[x]
                                \/ Covers(node[x], x, st.configEpoch[x]),
         NEW u \in Packets, Announces(st, n, u), u.about \in Nodes \ {m},
         u.epoch <= u.hdr.currentEpoch, u.epoch <= st.configEpoch[u.about]
  PROVE  PacketOK(node', u, n, m)
<1>1. /\ node \in [Nodes -> NodeState] /\ node'[n] = st
      /\ \A x \in Nodes \ {n} : node'[x] = node[x]
  BY StateFacts
<1>2. u.epoch \in Nat /\ st.configEpoch[u.about] \in Nat
  BY PacketPartsOK, StateOK
<1>3. Covers(node'[u.about], u.about, st.configEpoch[u.about])
  <2>1. CASE u.about = n
    BY <1>1, <2>1, CoversOwn
  <2>2. CASE u.about # n /\ Covers(node[u.about], u.about, st.configEpoch[u.about])
    BY <1>1, <2>2
  <2>3. CASE u.about # n /\ st.configEpoch[u.about] = node[n].configEpoch[u.about]
    <3>1. Covers(node[u.about], u.about, node[n].configEpoch[u.about])
      BY DEF IInv, EpochsOK
    <3> QED
      BY <1>1, <2>3, <3>1
  <2> QED
    BY <2>1, <2>2, <2>3
<1>4. node'[u.about] \in NodeState
  BY <1>1
<1>5. Covers(node'[u.about], u.about, u.epoch)
  BY <1>2, <1>3, <1>4, CoversLess
<1> QED
  BY <1>1, <1>5 DEF PacketOK

\* A PONG on the own link.
LEMMA OwnStep ==
  ASSUME IInv, NEW n \in Nodes, ~node[n].aborted, NEW m \in Nodes \ {n}, ReceiveOnOwn(n, m)
  PROVE  IInv'
<1> DEFINE p == Head(back[n][m])
           r == ProcessPing(node[n], n, m, p.hdr)
           s == out[n][m] \o r.updates
           t == Tail(back[n][m])
<1>1. /\ events' = events /\ back[n][m] # <<>>
      /\ \/ /\ ~r.state.aborted /\ node' = [node EXCEPT ![n] = r.state]
            /\ back' = Put(back, n, m, t) /\ out' = Put(out, n, m, s)
         \/ r.state.aborted /\ Abort(n)
  BY DEF ReceiveOnOwn, Put
<1>2. /\ out \in Queues /\ back \in Queues /\ events \in 0 .. MaxEvents
      /\ out[n][m] \in Queue /\ back[n][m] \in Queue
  BY StateFacts
<1>3. /\ p \in Packets /\ p \in Elements(back[n][m])
      /\ t \in Queue /\ Elements(t) \subseteq Elements(back[n][m])
  BY <1>1, <1>2, ElementsTail
<1> HIDE DEF p, t
<1>4. PacketOK(node, p, m, n)
  BY <1>3 DEF IInv, PacketsOK
<1>5. /\ r.state \in NodeState /\ Bounded(r.state)
      /\ r.state.aborted => ~Serves(node[n], n)
      /\ \A e \in Nat : Covers(node[n], n, e) => Covers(r.state, n, e)
      /\ \A x \in Nodes \ {n} : \/ r.state.configEpoch[x] = node[n].configEpoch[x]
                                \/ Covers(node[x], x, r.state.configEpoch[x])
      /\ r.updates \in Queue
      /\ \A u \in Elements(r.updates) :
           /\ Announces(r.state, n, u) /\ u.about \in Nodes \ {m}
           /\ u.epoch <= u.hdr.currentEpoch /\ u.epoch <= r.state.configEpoch[u.about]
           /\ u \in Packets
  BY <1>3, <1>4, ReadOK
<1> HIDE DEF r
<1>6. CASE r.state.aborted /\ Abort(n)
  BY <1>1, <1>2, <1>5, <1>6, AbortStep
<1>7. CASE /\ ~r.state.aborted /\ node' = [node EXCEPT ![n] = r.state]
           /\ back' = Put(back, n, m, t) /\ out' = Put(out, n, m, s)
  <2>0. Sound(r.state, n)
    BY <1>7 DEF Sound
  <2>1. s \in Queue /\ Elements(s) \subseteq Elements(out[n][m]) \cup Elements(r.updates)
    BY <1>2, <1>5, ElementsConcat
  <2> HIDE DEF s
  <2>2. ASSUME NEW u \in Elements(r.updates)
        PROVE  PacketOK(node', u, n, m)
    BY <1>5, <1>7, <2>2, UpdatesOK, ZenonT(30)
  <2>3. out' \in Queues /\ \A a, b \in Nodes : out'[a][b] = IF a = n /\ b = m THEN s ELSE out[a][b]
    <3>1. /\ Put(out, n, m, s) \in Queues
         /\ \A a, b \in Nodes : Put(out, n, m, s)[a][b] = IF a = n /\ b = m THEN s ELSE out[a][b]
      BY <1>2, <2>1, QueueOK
    <3> QED
      BY <1>7, <3>1
  <2>4. back' \in Queues /\ \A a, b \in Nodes : back'[a][b] = IF a = n /\ b = m THEN t ELSE back[a][b]
    <3>1. /\ Put(back, n, m, t) \in Queues
         /\ \A a, b \in Nodes : Put(back, n, m, t)[a][b] = IF a = n /\ b = m THEN t ELSE back[a][b]
      BY <1>2, <1>3, QueueOK
    <3> QED
      BY <1>7, <3>1
  <2>5. \A a, b \in Nodes : \A x \in Elements(out'[a][b]) :
           x \in Elements(out[a][b]) \/ PacketOK(node', x, a, b)
    BY <2>1, <2>2, <2>3
  <2>6. \A a, b \in Nodes : \A x \in Elements(back'[a][b]) :
           x \in Elements(back[a][b]) \/ PacketOK(node', x, b, a)
    BY <1>3, <2>4
  <2> QED
    BY <1>1, <1>2, <1>5, <1>7, <2>0, <2>3, <2>4, <2>5, <2>6, OneNodeOK, ZenonT(30)
<1> QED
  BY <1>1, <1>6, <1>7

\* A packet on a link that another node opened.
LEMMA AcceptedStep ==
  ASSUME IInv, NEW n \in Nodes, ~node[n].aborted, NEW m \in Nodes \ {n}, ReceiveOnAccepted(n, m)
  PROVE  IInv'
<1> DEFINE p == Head(out[m][n])
           r == ProcessPing(node[n], n, m, p.hdr)
           s == out[n][m] \o r.updates
           t == Tail(out[m][n])
           u == ProcessUpdate(node[n], n, m, p)
<1>1. /\ out \in Queues /\ back \in Queues /\ events \in 0 .. MaxEvents /\ node[n] \in NodeState
      /\ out[n][m] \in Queue /\ out[m][n] \in Queue /\ back[m][n] \in Queue
      /\ Bounded(node[n])
  BY StateFacts
<1>2. events' = events /\ out[m][n] # <<>>
  BY DEF ReceiveOnAccepted
<1>3. /\ p \in Packets /\ p \in Elements(out[m][n])
      /\ t \in Queue /\ Elements(t) \subseteq Elements(out[m][n])
  BY <1>1, <1>2, ElementsTail
<1>4. PacketOK(node, p, m, n)
  BY <1>3 DEF IInv, PacketsOK
<1>5. CASE /\ p.type \in {"ping", "pong"} /\ ~r.state.aborted
           /\ node' = [node EXCEPT ![n] = r.state]
           /\ out' = [out EXCEPT ![m][n] = Tail(@), ![n][m] = @ \o r.updates]
           /\ back' = [back EXCEPT ![m][n] = IF p.type = "ping" THEN Append(@, r.pong) ELSE @]
  <2> DEFINE v == IF p.type = "ping" THEN Append(back[m][n], r.pong) ELSE back[m][n]
  <2>1. out' = Put(Put(out, m, n, t), n, m, s)
    BY <1>1, <1>5 DEF Queues, Put
  <2>2. back' = Put(back, m, n, v)
    BY <1>5 DEF Put
  <2> HIDE DEF p, t
  <2>3. /\ r.state \in NodeState /\ Bounded(r.state) /\ Sound(r.state, n)
        /\ \A e \in Nat : Covers(node[n], n, e) => Covers(r.state, n, e)
        /\ \A x \in Nodes \ {n} : \/ r.state.configEpoch[x] = node[n].configEpoch[x]
                                  \/ Covers(node[x], x, r.state.configEpoch[x])
        /\ r.pong \in Packets /\ r.pong.type = "pong" /\ Announces(r.state, n, r.pong)
        /\ r.updates \in Queue
        /\ \A x \in Elements(r.updates) :
             /\ Announces(r.state, n, x) /\ x.about \in Nodes \ {m}
             /\ x.epoch <= x.hdr.currentEpoch /\ x.epoch <= r.state.configEpoch[x.about]
             /\ x \in Packets
    BY <1>3, <1>4, <1>5, ReadOK DEF Sound
  <2>4. node' = [node EXCEPT ![n] = r.state]
    BY <1>5
  <2> HIDE DEF r
  <2>5. s \in Queue /\ Elements(s) \subseteq Elements(out[n][m]) \cup Elements(r.updates)
    BY <1>1, <2>3, ElementsConcat
  <2>6. v \in Queue /\ Elements(v) \subseteq Elements(back[m][n]) \cup {r.pong}
    <3>1. CASE p.type = "ping"
      BY <1>1, <2>3, <3>1, ElementsAppend
    <3>2. CASE p.type # "ping"
      BY <1>1, <3>2
    <3> QED
      BY <3>1, <3>2
  <2> HIDE DEF s, v
  <2>7. ASSUME NEW x \in Elements(r.updates)
        PROVE  PacketOK(node', x, n, m)
    BY <2>3, <2>4, <2>7, UpdatesOK, ZenonT(30)
  <2>8. PacketOK(node', r.pong, n, m)
    <3>1. node'[n] = r.state
      BY <2>4, StateFacts
    <3> QED
      BY <2>3, <3>1 DEF PacketOK
  <2>9. /\ out' \in Queues
        /\ \A a, b \in Nodes : out'[a][b] = IF a = n /\ b = m THEN s
                                            ELSE IF a = m /\ b = n THEN t ELSE out[a][b]
    <3> DEFINE q == Put(out, m, n, t)
    <3>1. q \in Queues /\ \A a, b \in Nodes : q[a][b] = IF a = m /\ b = n THEN t ELSE out[a][b]
      BY <1>1, <1>3, QueueOK
    <3> HIDE DEF q
    <3>2. /\ Put(q, n, m, s) \in Queues
          /\ \A a, b \in Nodes : Put(q, n, m, s)[a][b] = IF a = n /\ b = m THEN s ELSE q[a][b]
      BY <2>5, <3>1, QueueOK
    <3>3. out' = Put(q, n, m, s)
      BY <2>1 DEF q
    <3> QED
      BY <3>1, <3>2, <3>3
  <2>10. back' \in Queues /\ \A a, b \in Nodes : back'[a][b] = IF a = m /\ b = n THEN v ELSE back[a][b]
    <3>1. /\ Put(back, m, n, v) \in Queues
         /\ \A a, b \in Nodes : Put(back, m, n, v)[a][b] = IF a = m /\ b = n THEN v ELSE back[a][b]
      BY <1>1, <2>6, QueueOK
    <3> QED
      BY <2>2, <3>1
  <2>11. \A a, b \in Nodes : \A x \in Elements(out'[a][b]) :
           x \in Elements(out[a][b]) \/ PacketOK(node', x, a, b)
    BY <1>3, <2>5, <2>7, <2>9
  <2>12. \A a, b \in Nodes : \A x \in Elements(back'[a][b]) :
           x \in Elements(back[a][b]) \/ PacketOK(node', x, b, a)
    BY <2>6, <2>8, <2>10
  <2> QED
    BY <1>1, <1>2, <2>3, <2>4, <2>9, <2>10, <2>11, <2>12, OneNodeOK, ZenonT(30)
<1>6. CASE /\ p.type = "update" /\ ~u.aborted
           /\ node' = [node EXCEPT ![n] = u]
           /\ out' = [out EXCEPT ![m][n] = t]
           /\ UNCHANGED back
  <2> HIDE DEF p, t
  <2>1. /\ p.hdr.configEpoch <= p.hdr.currentEpoch /\ p.about \in Nodes \ {n}
        /\ p.epoch <= p.hdr.currentEpoch /\ Covers(node[p.about], p.about, p.epoch)
        /\ Covers(node[m], m, p.hdr.configEpoch)
    BY <1>4, <1>6 DEF PacketOK, Announces
  <2>2. /\ u \in NodeState /\ Evolves(node[n], u, n) /\ Bounded(u)
        /\ \A x \in Nodes : \/ u.configEpoch[x] = node[n].configEpoch[x]
                            \/ x = m /\ u.configEpoch[x] = p.hdr.configEpoch
                            \/ x = p.about /\ u.configEpoch[x] = p.epoch
    BY <1>1, <1>3, <2>1, ProcessUpdateOK
  <2>3. node' = [node EXCEPT ![n] = u] /\ ~u.aborted
    BY <1>6
  <2> HIDE DEF u
  <2>4. \A e \in Nat : Covers(node[n], n, e) => Covers(u, n, e)
    BY <1>1, <2>2, EvolvesCovers
  <2>5. \A x \in Nodes \ {n} : \/ u.configEpoch[x] = node[n].configEpoch[x]
                               \/ Covers(node[x], x, u.configEpoch[x])
    BY <2>1, <2>2
  <2>6. Sound(u, n)
    BY <2>3 DEF Sound
  <2>7. out' \in Queues /\ \A a, b \in Nodes : out'[a][b] = IF a = m /\ b = n THEN t ELSE out[a][b]
    <3>1. out' = Put(out, m, n, t)
      BY <1>6 DEF Put
    <3>2. /\ Put(out, m, n, t) \in Queues
          /\ \A a, b \in Nodes : Put(out, m, n, t)[a][b] = IF a = m /\ b = n THEN t ELSE out[a][b]
      BY <1>1, <1>3, QueueOK
    <3> QED
      BY <3>1, <3>2
  <2>8. \A a, b \in Nodes : \A x \in Elements(out'[a][b]) : x \in Elements(out[a][b])
    BY <1>3, <2>7
  <2>9. back' = back
    BY <1>6
  <2> QED
    BY <1>1, <1>2, <2>2, <2>3, <2>4, <2>5, <2>6, <2>7, <2>8, <2>9, OneNodeOK, ZenonT(30)
<1>7. CASE (IF p.type = "update" THEN u.aborted ELSE r.state.aborted) /\ Abort(n)
  <2> HIDE DEF p, t
  <2>1. CASE p.type = "update"
    <3>1. /\ p.hdr.configEpoch <= p.hdr.currentEpoch /\ p.about \in Nodes \ {n}
          /\ p.epoch <= p.hdr.currentEpoch
      BY <1>4, <2>1 DEF PacketOK, Announces
    <3>2. Evolves(node[n], u, n)
      BY <1>1, <1>3, <3>1, ProcessUpdateOK
    <3> HIDE DEF u
    <3> QED
      BY <1>1, <1>2, <1>7, <2>1, <3>2, AbortStep DEF Evolves
  <2>2. CASE p.type # "update"
    <3>1. r.state.aborted => ~Serves(node[n], n)
      BY <1>3, <1>4, ReadOK
    <3> HIDE DEF r
    <3> QED
      BY <1>1, <1>2, <1>7, <2>2, <3>1, AbortStep
  <2> QED
    BY <2>1, <2>2
<1> QED
  BY <1>5, <1>6, <1>7 DEF ReceiveOnAccepted

\* An event counts.
LEMMA EventOK ==
  ASSUME IInv, NEW kind, Event(kind)
  PROVE  events' \in 0 .. MaxEvents
<1>1. events \in Nat /\ MaxEvents \in Nat
  BY StateFacts, BoundAssumption
<1> QED
  BY <1>1 DEF Event

\* clusterBroadcastPong(): the packets say what n covers.
LEMMA BroadcastOK ==
  ASSUME IInv, NEW n \in Nodes, NEW st \in NodeState, Bounded(st), node'[n] = st,
         clusterBroadcastPong(n, st)
  PROVE  /\ out' \in Queues
         /\ \A a, b \in Nodes : \A p \in Elements(out'[a][b]) :
              p \in Elements(out[a][b]) \/ PacketOK(node', p, a, b)
<1> DEFINE p == Packet("pong", st, n)
<1>1. p \in Packets /\ p.type = "pong" /\ Announces(st, n, p)
  BY PacketTypeOK
<1>2. out' = [out EXCEPT ![n] = [m \in Nodes |-> IF m = n THEN <<>> ELSE Append(out[n][m], p)]]
  BY DEF clusterBroadcastPong
<1> HIDE DEF p
<1>3. \A a, b \in Nodes : out[a][b] \in Queue
  BY StateFacts
<1>4. \A m \in Nodes : /\ Append(out[n][m], p) \in Queue
                       /\ Elements(Append(out[n][m], p)) = Elements(out[n][m]) \cup {p}
  BY <1>1, <1>3, ElementsAppend
<1>5. <<>> \in Queue /\ Elements(<<>>) = {}
  BY <1>1, ElementsFew, Zenon
<1> DEFINE row == [m \in Nodes |-> IF m = n THEN <<>> ELSE Append(out[n][m], p)]
<1>6. /\ row \in [Nodes -> Queue]
      /\ \A m \in Nodes : Elements(row[m]) \subseteq Elements(out[n][m]) \cup {p}
  BY <1>4, <1>5
<1> HIDE DEF row
<1>7. out' = [out EXCEPT ![n] = row] /\ out \in Queues
  BY <1>2, StateFacts DEF row
<1>8. out' \in Queues /\ \A a, b \in Nodes : out'[a][b] = IF a = n THEN row[b] ELSE out[a][b]
  BY <1>6, <1>7 DEF Queues
<1>9. \A b \in Nodes : PacketOK(node', p, n, b)
  BY <1>1 DEF PacketOK
<1> QED
  BY <1>6, <1>8, <1>9, Zenon

\* CLUSTER FAILOVER TAKEOVER.
LEMMA TakeoverStep ==
  ASSUME IInv, NEW n \in Nodes, ~node[n].aborted, Takeover(n)
  PROVE  IInv'
<1> DEFINE bumped == clusterBumpConfigEpochWithoutConsensus(node[n], n)
           st == clusterFailoverReplaceYourMaster(bumped, n)
<1>1. /\ node[n] \in NodeState /\ Bounded(node[n]) /\ back \in Queues
      /\ node \in [Nodes -> NodeState]
  BY StateFacts
<1>2. /\ node' = [node EXCEPT ![n] = st] /\ clusterBroadcastPong(n, st) /\ back' = back
      /\ ~IsMaster(node[n], n)
  BY DEF Takeover
<1>3. events' \in 0 .. MaxEvents
  BY EventOK DEF Takeover
<1>4. /\ bumped \in NodeState /\ Bounded(bumped) /\ ~bumped.aborted
      /\ \A x \in Nodes \ {n} : bumped.configEpoch[x] = node[n].configEpoch[x]
      /\ bumped.configEpoch[n] >= node[n].currentEpoch
  BY <1>1, BumpOK
<1> HIDE DEF bumped
<1>5. /\ st \in NodeState /\ IsMaster(st, n) /\ ~st.aborted
      /\ st.configEpoch = bumped.configEpoch /\ st.currentEpoch = bumped.currentEpoch
  BY <1>4, ReplaceOK
<1> HIDE DEF st
<1>6. Bounded(st) /\ Sound(st, n)
  BY <1>4, <1>5 DEF Bounded, Sound
<1>7. \A e \in Nat : Covers(node[n], n, e) => Covers(st, n, e)
  BY <1>1, <1>2, <1>4, <1>5, PromotedCovers
<1>8. node'[n] = st
  BY <1>1, <1>2
<1>9. /\ out' \in Queues
      /\ \A a, b \in Nodes : \A p \in Elements(out'[a][b]) :
           p \in Elements(out[a][b]) \/ PacketOK(node', p, a, b)
  BY <1>2, <1>5, <1>6, <1>8, BroadcastOK, ZenonT(30)
<1>10. \A x \in Nodes \ {n} : st.configEpoch[x] = node[n].configEpoch[x]
  BY <1>4, <1>5
<1> QED
  BY <1>1, <1>2, <1>3, <1>5, <1>6, <1>7, <1>9, <1>10, OneNodeOK, ZenonT(30)

\* CLUSTER BUMPEPOCH.
LEMMA BumpStep ==
  ASSUME IInv, NEW n \in Nodes, ~node[n].aborted, BumpEpoch(n)
  PROVE  IInv'
<1> DEFINE st == clusterBumpConfigEpochWithoutConsensus(node[n], n)
<1>1. node[n] \in NodeState /\ Bounded(node[n])
  BY StateFacts
<1>2. node' = [node EXCEPT ![n] = st] /\ UNCHANGED <<out, back>> /\ events' \in 0 .. MaxEvents
  BY EventOK DEF BumpEpoch
<1>3. /\ st \in NodeState /\ Bounded(st) /\ Evolves(node[n], st, n)
      /\ ~st.aborted /\ \A x \in Nodes \ {n} : st.configEpoch[x] = node[n].configEpoch[x]
  BY <1>1, BumpOK
<1> HIDE DEF st
<1>4. Sound(st, n) /\ \A e \in Nat : Covers(node[n], n, e) => Covers(st, n, e)
  BY <1>1, <1>3, EvolvesCovers DEF Sound
<1> QED
  BY <1>2, <1>3, <1>4, QuietOK, Zenon

\* What the request of a slave says, and what a vote for it means.
LEMMA GrantOK ==
  ASSUME IInv, NEW n \in Nodes, NEW v \in Nodes, ~node[v].aborted, NEW h \in Header,
         h.configEpoch <= h.currentEpoch, Grants(v, n, h)
  PROVE  LET st == SeeEpochs(node[v], n, h)
             r == [st EXCEPT !.lastVoteEpoch = h.currentEpoch]
         IN  /\ v # n /\ node[v].currentEpoch <= h.currentEpoch
             /\ r \in NodeState /\ Bounded(r) /\ Sound(r, v) /\ Evolves(node[v], r, v)
             /\ r.configEpoch[n] \in {node[v].configEpoch[n], h.configEpoch}
             /\ \A x \in Nodes \ {n} : r.configEpoch[x] = node[v].configEpoch[x]
<1> DEFINE st == SeeEpochs(node[v], n, h)
           r == [st EXCEPT !.lastVoteEpoch = h.currentEpoch]
<1>1. node[v] \in NodeState /\ Bounded(node[v])
  BY StateFacts
<1>2. /\ st \in NodeState /\ Evolves(node[v], st, v) /\ Bounded(st) /\ ~st.aborted
      /\ st.configEpoch[n] \in {node[v].configEpoch[n], h.configEpoch}
      /\ \A x \in Nodes \ {n} : st.configEpoch[x] = node[v].configEpoch[x]
  <2>1. st = SeeEpochs(node[v], n, h)
    OBVIOUS
  <2> HIDE DEF st, r
  <2>2. Learnt(node[v], st, v, n, h)
    BY <1>1, <2>1, SeeEpochsOK
  <2> QED
    BY <2>2 DEF Learnt
<1>3. IsMaster(st, v) /\ ~IsMaster(st, n) /\ h.currentEpoch >= st.currentEpoch
  BY DEF Grants
<1> HIDE DEF st
<1>4. v # n
  BY <1>3
<1>5. node[v].currentEpoch <= h.currentEpoch
  <2>1. node[v].currentEpoch \in Nat /\ st.currentEpoch \in Nat /\ h.currentEpoch \in Nat
    BY <1>1, <1>2, StateOK, HeaderOK
  <2>2. node[v].currentEpoch <= st.currentEpoch
    BY <1>2 DEF Evolves
  <2> QED
    BY <1>3, <2>1, <2>2
<1>6. /\ r \in NodeState /\ r.configEpoch = st.configEpoch /\ r.currentEpoch = st.currentEpoch
      /\ r.slots = st.slots /\ r.slaveof = st.slaveof /\ ~r.aborted
  BY <1>2, HeaderOK DEF NodeState
<1> HIDE DEF r
<1>7. Bounded(r) /\ Evolves(node[v], r, v)
  BY <1>2, <1>6 DEF Bounded, Evolves, IsMaster, Serves, SlotsOf
<1>8. Sound(r, v)
  BY <1>6 DEF Sound
<1> QED
  BY <1>2, <1>4, <1>5, <1>6, <1>7, <1>8 DEF r, st

\* The state of the winner of an election, before it replaces its master.
Won(asking, n, V) ==
  [asking EXCEPT
     !.configEpoch = [m \in Nodes |->
        IF m = n THEN asking.currentEpoch
        ELSE IF m \in V THEN Max({@[m], node[m].configEpoch[m]}) ELSE @[m]]]

\* What the winner of an election knows.
LEMMA WonOK ==
  ASSUME IInv, NEW n \in Nodes, NEW V \in SUBSET (Nodes \ {n}), NEW asking \in NodeState,
         ~asking.aborted, asking.currentEpoch = node[n].currentEpoch + 1,
         asking.configEpoch = node[n].configEpoch,
         \A v \in V : node[v].currentEpoch <= asking.currentEpoch
  PROVE  LET won == Won(asking, n, V)
         IN  /\ won \in NodeState /\ Bounded(won) /\ ~won.aborted
             /\ won.configEpoch[n] >= node[n].currentEpoch
             /\ won.configEpoch[n] = asking.currentEpoch
             /\ \A m \in Nodes \ {n} :
                  won.configEpoch[m] \in {node[n].configEpoch[m], node[m].configEpoch[m]}
<1> DEFINE known == [m \in Nodes |->
                       IF m = n THEN asking.currentEpoch
                       ELSE IF m \in V THEN Max({asking.configEpoch[m], node[m].configEpoch[m]})
                       ELSE asking.configEpoch[m]]
           won == [asking EXCEPT !.configEpoch = known]
<1>1. /\ \A m \in Nodes : node[m] \in NodeState /\ Bounded(node[m])
      /\ \A m, x \in Nodes : node[m].configEpoch[x] \in Nat
      /\ \A m \in Nodes : node[m].currentEpoch \in Nat
  BY StateFacts, StateOK
<1>2. \A m \in V : /\ known[m] \in {node[n].configEpoch[m], node[m].configEpoch[m]}
                   /\ known[m] \in Nat
  <2> SUFFICES ASSUME NEW m \in V
               PROVE  known[m] \in {node[n].configEpoch[m], node[m].configEpoch[m]}
    BY <1>1, ZenonT(30)
  <2>1. known[m] = Max({node[n].configEpoch[m], node[m].configEpoch[m]})
    OBVIOUS
  <2> QED
    BY <1>1, <2>1, MaxOK
<1>3. /\ known[n] = asking.currentEpoch /\ asking.currentEpoch \in Nat
      /\ \A m \in Nodes \ V : m # n => known[m] = node[n].configEpoch[m]
  BY <1>1
<1>4. known \in [Nodes -> Nat]
  <2>1. \A m \in Nodes : known[m] \in Nat
    BY <1>1, <1>2, <1>3
  <2> QED
    BY <2>1, Zenon
<1> HIDE DEF known
<1>5. \A m \in Nodes : known[m] <= asking.currentEpoch
  <2> SUFFICES ASSUME NEW m \in Nodes, m # n
               PROVE  known[m] <= asking.currentEpoch
    BY <1>3
  <2>1. node[n].configEpoch[m] <= asking.currentEpoch
    <3>1. node[n].configEpoch[m] <= node[n].currentEpoch
      BY <1>1 DEF Bounded
    <3> QED
      BY <1>1, <3>1
  <2>2. m \in V => node[m].configEpoch[m] <= asking.currentEpoch
    <3>1. node[m].configEpoch[m] <= node[m].currentEpoch
      BY <1>1 DEF Bounded
    <3>2. m \in V => node[m].currentEpoch <= asking.currentEpoch
      OBVIOUS
    <3> QED
      BY <1>1, <1>3, <3>1, <3>2
  <2> QED
    BY <1>2, <1>3, <2>1, <2>2
<1>6. /\ won \in NodeState /\ won.configEpoch = known
      /\ won.currentEpoch = asking.currentEpoch /\ ~won.aborted
  BY <1>4 DEF NodeState
<1>7. won = Won(asking, n, V)
  BY DEF known, Won
<1> HIDE DEF won
<1>8. Bounded(won)
  BY <1>5, <1>6 DEF Bounded
<1>9. won.configEpoch[n] >= node[n].currentEpoch /\ won.configEpoch[n] = asking.currentEpoch
  BY <1>1, <1>3, <1>6
<1>10. \A m \in Nodes \ {n} :
         won.configEpoch[m] \in {node[n].configEpoch[m], node[m].configEpoch[m]}
  BY <1>2, <1>3, <1>6
<1> QED
  BY <1>6, <1>7, <1>8, <1>9, <1>10

\* A won election.
LEMMA ElectedStep ==
  ASSUME IInv, NEW n \in Nodes, NEW V \in SUBSET Nodes,
         \A m \in V \cup {n} : ~node[m].aborted, Elected(n, V)
  PROVE  IInv'
<1> DEFINE asking == [node[n] EXCEPT !.currentEpoch = @ + 1]
           h == clusterBuildMessageHdr(asking, n)
           voted(v) == [SeeEpochs(node[v], n, h) EXCEPT !.lastVoteEpoch = h.currentEpoch]
           won == Won(asking, n, V)
           st == clusterFailoverReplaceYourMaster(won, n)
<1>1. /\ ~IsMaster(node[n], n) /\ \A v \in V : Grants(v, n, h)
      /\ node' = [m \in Nodes |-> IF m = n THEN st ELSE IF m \in V THEN voted(m) ELSE node[m]]
      /\ clusterBroadcastPong(n, st) /\ back' = back
  BY DEF Elected, Won
<1>2. events' \in 0 .. MaxEvents
  BY EventOK DEF Elected
<1>3. /\ node \in [Nodes -> NodeState] /\ back \in Queues
      /\ \A m \in Nodes : node[m] \in NodeState /\ Bounded(node[m]) /\ Sound(node[m], m)
      /\ \A m \in Nodes : node[m].currentEpoch \in Nat
  BY StateFacts, StateOK
<1>4. /\ asking \in NodeState /\ ~asking.aborted /\ asking.currentEpoch = node[n].currentEpoch + 1
      /\ asking.configEpoch = node[n].configEpoch /\ asking.slaveof = node[n].slaveof
  <2> DEFINE next == node[n].currentEpoch + 1
  <2>1. next \in Nat
    BY <1>3
  <2>2. asking = [node[n] EXCEPT !.currentEpoch = next]
    BY <1>3 DEF NodeState
  <2> HIDE DEF next, asking
  <2>3. /\ asking \in NodeState /\ ~asking.aborted /\ asking.currentEpoch = next
        /\ asking.configEpoch = node[n].configEpoch /\ asking.slaveof = node[n].slaveof
    BY <1>3, <2>1, <2>2, Zenon DEF NodeState
  <2> QED
    BY <2>3 DEF next
<1> HIDE DEF asking
<1>5. Bounded(asking)
  <2>1. \A x \in Nodes : node[n].configEpoch[x] \in Nat /\ node[n].configEpoch[x] <= node[n].currentEpoch
    BY <1>3, StateOK DEF Bounded
  <2> QED
    BY <1>3, <1>4, <2>1 DEF Bounded
<1>6. h \in Header /\ h.configEpoch <= h.currentEpoch /\ h.currentEpoch = asking.currentEpoch
  BY <1>4, <1>5, BuildHeaderOK
<1> HIDE DEF h
<1>7. ASSUME NEW v \in V
      PROVE  /\ v # n /\ node[v].currentEpoch <= h.currentEpoch
             /\ voted(v) \in NodeState /\ Bounded(voted(v)) /\ Sound(voted(v), v)
             /\ Evolves(node[v], voted(v), v)
             /\ voted(v).configEpoch[n] \in {node[v].configEpoch[n], h.configEpoch}
             /\ \A x \in Nodes \ {n} : voted(v).configEpoch[x] = node[v].configEpoch[x]
  BY <1>1, <1>6, <1>7, GrantOK
<1>8. /\ won \in NodeState /\ Bounded(won) /\ ~won.aborted
      /\ won.configEpoch[n] >= node[n].currentEpoch /\ won.configEpoch[n] = asking.currentEpoch
      /\ \A m \in Nodes \ {n} :
           won.configEpoch[m] \in {node[n].configEpoch[m], node[m].configEpoch[m]}
  <2>1. V \in SUBSET (Nodes \ {n}) /\ \A v \in V : node[v].currentEpoch <= asking.currentEpoch
    BY <1>6, <1>7, Zenon
  <2> QED
    BY <1>4, <2>1, WonOK, Zenon
<1> HIDE DEF won
<1>9. /\ st \in NodeState /\ IsMaster(st, n) /\ ~st.aborted
      /\ st.configEpoch = won.configEpoch /\ st.currentEpoch = won.currentEpoch
  BY <1>8, ReplaceOK
<1> HIDE DEF st, voted
<1>10. /\ node'[n] = st /\ \A v \in V : node'[v] = voted(v)
       /\ \A m \in Nodes \ V : m # n => node'[m] = node[m]
  BY <1>1, <1>7
<1>11. node' \in [Nodes -> NodeState]
  <2>1. \A m \in Nodes : node'[m] \in NodeState
    BY <1>3, <1>7, <1>9, <1>10
  <2> QED
    BY <1>1, <2>1
<1>12. Bounded(st) /\ Sound(st, n)
  BY <1>8, <1>9 DEF Bounded, Sound
<1>13. \A m \in Nodes : Bounded(node'[m]) /\ Sound(node'[m], m)
  BY <1>3, <1>7, <1>10, <1>12
<1>14. ASSUME NEW m \in Nodes, NEW e \in Nat, Covers(node[m], m, e)
       PROVE  Covers(node'[m], m, e)
  <2>1. CASE m = n
    BY <1>1, <1>3, <1>8, <1>9, <1>10, <1>14, <2>1, PromotedCovers
  <2>2. CASE m \in V
    BY <1>3, <1>7, <1>10, <1>14, <2>2, EvolvesCovers
  <2>3. CASE m # n /\ m \notin V
    BY <1>10, <1>14, <2>3
  <2> QED
    BY <2>1, <2>2, <2>3
<1>15. ASSUME NEW a \in Nodes, NEW m \in Nodes
       PROVE  \/ node'[a].configEpoch[m] = node[a].configEpoch[m]
              \/ Covers(node'[m], m, node'[a].configEpoch[m])
  <2>1. CASE a = n /\ m = n
    BY <1>9, <1>10, <2>1, CoversOwn
  <2>2. CASE a = n /\ m # n
    <3>1. node'[a].configEpoch[m] \in {node[a].configEpoch[m], node[m].configEpoch[m]}
      BY <1>8, <1>9, <1>10, <2>2
    <3>2. Covers(node[m], m, node[m].configEpoch[m]) /\ node[m].configEpoch[m] \in Nat
      BY <1>3, CoversOwn, StateOK
    <3>3. Covers(node'[m], m, node[m].configEpoch[m])
      BY <1>14, <3>2
    <3> QED
      BY <3>1, <3>3
  <2>3. CASE a \in V /\ m = n
    <3>1. node'[a].configEpoch[m] \in {node[a].configEpoch[m], h.configEpoch}
      BY <1>7, <1>10, <2>3
    <3>2. Covers(st, n, h.configEpoch)
      <4>1. st.configEpoch[n] = h.currentEpoch /\ h.configEpoch <= st.configEpoch[n]
        BY <1>6, <1>8, <1>9
      <4> QED
        BY <1>9, <4>1 DEF Covers
    <3>3. Covers(node'[m], m, h.configEpoch)
      BY <1>10, <2>3, <3>2
    <3> QED
      BY <3>1, <3>3
  <2>4. CASE a \in V /\ m # n
    BY <1>7, <1>10, <2>4
  <2>5. CASE a # n /\ a \notin V
    BY <1>10, <2>5
  <2> QED
    BY <2>1, <2>2, <2>3, <2>4, <2>5
<1>16. /\ out' \in Queues
       /\ \A a, b \in Nodes : \A p \in Elements(out'[a][b]) :
            p \in Elements(out[a][b]) \/ PacketOK(node', p, a, b)
  BY <1>1, <1>9, <1>10, <1>12, BroadcastOK
<1>17. \A m \in Nodes, e \in Nat : Covers(node[m], m, e) => Covers(node'[m], m, e)
  BY <1>14
<1>18. back' \in Queues /\ \A a, b \in Nodes : \A p \in Elements(back'[a][b]) : p \in Elements(back[a][b])
  BY <1>1, <1>3
<1> QED
  BY <1>2, <1>11, <1>13, <1>15, <1>16, <1>17, <1>18, StepOK, ZenonT(30)

\* A node changes its slots, and neither roles nor epochs.
LEMMA SlotsOnlyOK ==
  ASSUME IInv, NEW n \in Nodes, NEW st \in NodeState, node' = [node EXCEPT ![n] = st],
         events' \in 0 .. MaxEvents, UNCHANGED <<out, back>>,
         st.configEpoch = node[n].configEpoch, st.currentEpoch = node[n].currentEpoch,
         st.slaveof = node[n].slaveof, ~st.aborted
  PROVE  IInv'
<1>1. Bounded(st) /\ Sound(st, n)
  BY StateFacts DEF Bounded, Sound
<1>2. \A e \in Nat : Covers(node[n], n, e) => Covers(st, n, e)
  BY DEF Covers, IsMaster
<1> QED
  BY <1>1, <1>2, QuietOK, Zenon

\* CLUSTER SETSLOT IMPORTING and STABLE.
LEMMA ImportingStep ==
  ASSUME IInv, NEW n \in Nodes, ~node[n].aborted, NEW s \in Slots, SetImporting(n, s) \/ SetStable(n, s)
  PROVE  IInv'
<1>1. node[n] \in NodeState /\ node \in [Nodes -> NodeState]
  BY StateFacts
<1>2. events' \in 0 .. MaxEvents /\ UNCHANGED <<out, back>>
  BY EventOK DEF SetImporting, SetStable
<1>3. PICK I \in SUBSET Slots : node' = [node EXCEPT ![n] = [node[n] EXCEPT !.importing = I]]
  <2>1. node[n].importing \cup {s} \in SUBSET Slots /\ node[n].importing \ {s} \in SUBSET Slots
    BY <1>1, StateOK
  <2>2. CASE SetImporting(n, s)
    BY <1>1, <2>1, <2>2, Zenon DEF SetImporting, NodeState
  <2>3. CASE SetStable(n, s)
    BY <1>1, <2>1, <2>3, Zenon DEF SetStable, NodeState
  <2> QED
    BY <2>2, <2>3
<1> DEFINE st == [node[n] EXCEPT !.importing = I]
<1>4. /\ st \in NodeState /\ st.configEpoch = node[n].configEpoch
      /\ st.currentEpoch = node[n].currentEpoch /\ st.slaveof = node[n].slaveof
      /\ ~st.aborted
  BY <1>1, Zenon DEF NodeState
<1>5. node' = [node EXCEPT ![n] = st]
  BY <1>3
<1> HIDE DEF st
<1> QED
  BY <1>2, <1>4, <1>5, SlotsOnlyOK, Zenon

\* CLUSTER SETSLOT NODE at the new owner.
LEMMA SetSlotMyselfStep ==
  ASSUME IInv, NEW n \in Nodes, ~node[n].aborted, NEW s \in Slots, SetSlotMyself(n, s)
  PROVE  IInv'
<1> DEFINE a == IF s \in node[n].importing
                THEN clusterBumpConfigEpochWithoutConsensus(node[n], n) ELSE node[n]
           st == [a EXCEPT !.importing = @ \ {s}, !.slots[s] = n]
<1>1. node[n] \in NodeState /\ Bounded(node[n])
  BY StateFacts
<1>2. /\ node' = [node EXCEPT ![n] = st] /\ UNCHANGED <<out, back>> /\ IsMaster(node[n], n)
      /\ events' \in 0 .. MaxEvents
  <2>1. events' \in 0 .. MaxEvents
    BY EventOK DEF SetSlotMyself
  <2> QED
    BY <2>1, Zenon DEF SetSlotMyself
<1>3. Evolves(node[n], node[n], n)
  BY <1>1, StateOK DEF Evolves
<1>4. /\ a \in NodeState /\ Bounded(a) /\ ~a.aborted /\ Evolves(node[n], a, n) /\ a.slaveof = node[n].slaveof
      /\ \A x \in Nodes \ {n} : a.configEpoch[x] = node[n].configEpoch[x]
  BY <1>1, <1>3, BumpOK
<1> HIDE DEF a
<1>5. st = [a EXCEPT !.importing = a.importing \ {s}, !.slots = [@ EXCEPT ![s] = n]]
  BY <1>4 DEF NodeState
<1>6. a.importing \ {s} \in SUBSET Slots
  BY <1>4, StateOK
<1> HIDE DEF st
<1>7. /\ st \in NodeState /\ st.configEpoch = a.configEpoch /\ st.currentEpoch = a.currentEpoch
      /\ st.slaveof = a.slaveof /\ ~st.aborted
  BY <1>4, <1>5, <1>6, Zenon DEF NodeState
<1>8. Bounded(st) /\ Sound(st, n)
  BY <1>4, <1>7 DEF Bounded, Sound
<1>9. \A e \in Nat : Covers(node[n], n, e) => Covers(st, n, e)
  <2>1. \A e \in Nat : Covers(node[n], n, e) => Covers(a, n, e)
    BY <1>1, <1>4, EvolvesCovers
  <2>2. \A e \in Nat : Covers(a, n, e) => Covers(st, n, e)
    BY <1>7 DEF Covers, IsMaster
  <2> QED
    BY <2>1, <2>2
<1> QED
  BY <1>2, <1>4, <1>7, <1>8, <1>9, QuietOK, Zenon

\* CLUSTER SETSLOT NODE at another node, CLUSTER ADDSLOTS and DELSLOTS.
LEMMA SetSlotStep ==
  ASSUME IInv, NEW n \in Nodes, ~node[n].aborted, NEW s \in Slots,
         (\E m \in Nodes : SetSlotNode(n, s, m)) \/ AddSlot(n, s) \/ DelSlot(n, s)
  PROVE  IInv'
<1>1. node[n] \in NodeState /\ node \in [Nodes -> NodeState]
  BY StateFacts
<1>2. events' \in 0 .. MaxEvents /\ UNCHANGED <<out, back>>
  BY EventOK DEF SetSlotNode, AddSlot, DelSlot
<1>3. PICK I \in SUBSET Slots, o \in Nodes \cup {None} :
        node' = [node EXCEPT ![n] = [node[n] EXCEPT !.slots = [@ EXCEPT ![s] = o], !.importing = I]]
  <2>1. node[n].importing \in SUBSET Slots /\ node[n].importing \ {s} \in SUBSET Slots
    BY <1>1, StateOK
  <2>2. CASE \E m \in Nodes : SetSlotNode(n, s, m)
    <3>1. PICK m \in Nodes : node' = [node EXCEPT ![n].slots[s] = m]
      BY <2>2, Zenon DEF SetSlotNode
    <3>2. [node[n] EXCEPT !.slots[s] = m]
            = [node[n] EXCEPT !.slots = [@ EXCEPT ![s] = m], !.importing = node[n].importing]
      BY <1>1, Zenon DEF NodeState
    <3>3. node' = [node EXCEPT ![n] = [node[n] EXCEPT !.slots[s] = m]]
      BY <1>1, <3>1 DEF NodeState
    <3> QED
      BY <2>1, <3>2, <3>3
  <2>3. CASE AddSlot(n, s)
    <3>1. node' = [node EXCEPT ![n].slots[s] = n, ![n].importing = @ \ {s}]
      BY <2>3 DEF AddSlot
    <3>2. node' = [node EXCEPT ![n] = [node[n] EXCEPT !.slots = [@ EXCEPT ![s] = n],
                                                      !.importing = node[n].importing \ {s}]]
      BY <1>1, <3>1, Zenon DEF NodeState
    <3> QED
      BY <2>1, <3>2
  <2>4. CASE DelSlot(n, s)
    <3>1. node' = [node EXCEPT ![n].slots[s] = None, ![n].importing = @ \ {s}]
      BY <2>4 DEF DelSlot
    <3>2. node' = [node EXCEPT ![n] = [node[n] EXCEPT !.slots = [@ EXCEPT ![s] = None],
                                                      !.importing = node[n].importing \ {s}]]
      BY <1>1, <3>1, Zenon DEF NodeState
    <3> QED
      BY <2>1, <3>2
  <2> QED
    BY <2>2, <2>3, <2>4
<1> DEFINE st == [node[n] EXCEPT !.slots = [@ EXCEPT ![s] = o], !.importing = I]
<1>4. /\ st \in NodeState /\ st.configEpoch = node[n].configEpoch
      /\ st.currentEpoch = node[n].currentEpoch /\ st.slaveof = node[n].slaveof
      /\ ~st.aborted
  BY <1>1, Zenon DEF NodeState
<1>5. node' = [node EXCEPT ![n] = st]
  BY <1>3
<1> HIDE DEF st
<1> QED
  BY <1>2, <1>4, <1>5, SlotsOnlyOK, Zenon

\* CLUSTER REPLICATE.
LEMMA ReplicateStep ==
  ASSUME IInv, NEW n \in Nodes, ~node[n].aborted, NEW m \in Nodes, Replicate(n, m)
  PROVE  IInv'
<1> DEFINE st == clusterSetMaster(node[n], n, m)
<1>1. node[n] \in NodeState /\ Bounded(node[n])
  BY StateFacts
<1>2. /\ events' \in 0 .. MaxEvents
      /\ IsMaster(node[n], n) => SlotsOf(node[n], n) = {}
      /\ \/ ~st.aborted /\ node' = [node EXCEPT ![n] = st] /\ UNCHANGED <<out, back>>
         \/ st.aborted /\ Abort(n)
  <2>1. events' \in 0 .. MaxEvents
    BY EventOK DEF Replicate
  <2> QED
    BY <2>1, Zenon DEF Replicate
<1>3. /\ st \in NodeState /\ Evolves(node[n], st, n)
      /\ st.configEpoch = node[n].configEpoch /\ st.currentEpoch = node[n].currentEpoch
  BY <1>1, <1>2, SetMasterOK
<1> HIDE DEF st
<1>4. Bounded(st)
  BY <1>1, <1>3 DEF Bounded
<1>5. \A e \in Nat : Covers(node[n], n, e) => Covers(st, n, e)
  BY <1>1, <1>3, EvolvesCovers
<1>6. CASE ~st.aborted /\ node' = [node EXCEPT ![n] = st] /\ UNCHANGED <<out, back>>
  <2>1. Sound(st, n)
    BY <1>6 DEF Sound
  <2> QED
    BY <1>2, <1>3, <1>4, <1>5, <1>6, <2>1, QuietOK, Zenon
<1>7. CASE st.aborted /\ Abort(n)
  <2>1. ~Serves(node[n], n)
    BY <1>3, <1>7 DEF Evolves
  <2> QED
    BY <1>2, <1>7, <2>1, AbortStep, Zenon
<1> QED
  BY <1>2, <1>6, <1>7

\* A restart.
LEMMA RestartStep ==
  ASSUME IInv, NEW n \in Nodes, Restart(n)
  PROVE  IInv'
<1>1. node \in [Nodes -> NodeState] /\ node[n] \in NodeState
  BY StateFacts
<1>2. PICK e \in 0 .. node[n].currentEpoch :
        /\ \A m \in Nodes : e >= node[n].configEpoch[m]
        /\ node' = [node EXCEPT ![n].currentEpoch = e, ![n].aborted = FALSE]
  BY Zenon DEF Restart
<1>3. LoseUnread(n) /\ events' \in 0 .. MaxEvents
  BY EventOK DEF Restart
<1> DEFINE st == [node[n] EXCEPT !.currentEpoch = e, !.aborted = FALSE]
<1>4. e \in Nat
  BY <1>1, <1>2, StateOK
<1>5. node' = [node EXCEPT ![n] = st]
  BY <1>1, <1>2 DEF NodeState
<1>6. /\ st \in NodeState /\ st.configEpoch = node[n].configEpoch /\ st.currentEpoch = e
      /\ st.slaveof = node[n].slaveof /\ ~st.aborted
  BY <1>1, <1>4, Zenon DEF NodeState
<1> HIDE DEF st
<1>7. Bounded(st) /\ Sound(st, n)
  BY <1>1, <1>2, <1>4, <1>6, StateOK DEF Bounded, Sound
<1>8. \A d \in Nat : Covers(node[n], n, d) => Covers(st, n, d)
  BY <1>6 DEF IsMaster, Covers
<1> QED
  BY <1>3, <1>5, <1>6, <1>7, <1>8, LosesOK, ZenonT(30)

\* A link is closed.
LEMMA FreeLinkStep ==
  ASSUME IInv, NEW n \in Nodes, NEW m \in Nodes, freeClusterLink(n, m)
  PROVE  IInv'
<1> DEFINE none == <<>>
<1>1. /\ node \in [Nodes -> NodeState] /\ out \in Queues /\ back \in Queues
      /\ \A a \in Nodes : Bounded(node[a]) /\ Sound(node[a], a)
  BY StateFacts
<1>2. /\ out' = Put(out, n, m, none) /\ back' = Put(back, n, m, none) /\ node' = node
      /\ events' \in 0 .. MaxEvents
  BY EventOK DEF freeClusterLink, Put
<1>3. none \in Queue /\ Elements(none) = {}
  BY DEF Elements, Queue
<1> HIDE DEF none
<1>4. /\ Put(out, n, m, none) \in Queues
      /\ \A a, b \in Nodes : Put(out, n, m, none)[a][b] = IF a = n /\ b = m THEN none ELSE out[a][b]
  BY <1>1, <1>3, QueueOK
<1>5. /\ Put(back, n, m, none) \in Queues
      /\ \A a, b \in Nodes : Put(back, n, m, none)[a][b] = IF a = n /\ b = m THEN none ELSE back[a][b]
  BY <1>1, <1>3, QueueOK
<1>6. \A a, b \in Nodes : /\ \A p \in Elements(out'[a][b]) : p \in Elements(out[a][b])
                          /\ \A p \in Elements(back'[a][b]) : p \in Elements(back[a][b])
  BY <1>2, <1>3, <1>4, <1>5
<1>7. out' \in Queues /\ back' \in Queues
  BY <1>2, <1>4, <1>5
<1> QED
  BY <1>1, <1>2, <1>6, <1>7, StepOK

\* A command of the administrator.
LEMMA AdministratorStep ==
  ASSUME IInv, Administrator
  PROVE  IInv'
BY TakeoverStep, BumpStep, ImportingStep, SetSlotMyselfStep, SetSlotStep, ReplicateStep
   DEF Administrator, Up

\* An election, a restart or a broken link.
LEMMA EnvironmentStep ==
  ASSUME IInv, Environment
  PROVE  IInv'
BY ElectedStep, RestartStep, FreeLinkStep DEF Environment, Up

\* A PING is sent or a packet is read.
LEMMA PacketStep ==
  ASSUME IInv, NEW p \in Pairs, Ping(p[1], p[2]) \/ (p[1] \in Up /\ Receive(p[1], p[2]))
  PROVE  IInv'
<1>1. p[1] \in Nodes /\ p[2] \in Nodes \ {p[1]}
  BY DEF Pairs
<1> QED
  BY <1>1, PingStep, OwnStep, AcceptedStep DEF Receive, Up

-----------------------------------------------------------------------------
(***************************************************************************)
(* Results.                                                                *)
(***************************************************************************)
\* The invariant holds of nodes that know only epoch 0 and agree on the slots.
LEMMA InitOK == Init => IInv
<1> SUFFICES ASSUME Init
             PROVE  IInv
  OBVIOUS
<1>1. /\ InitState \in NodeState
      /\ \A m \in Nodes : InitState.configEpoch[m] = 0
      /\ InitState.currentEpoch = 0 /\ ~InitState.aborted
  BY OwnerAssumption, MasterAssumption DEF InitState, NodeState
<1>2. /\ node \in [Nodes -> NodeState] /\ \A n \in Nodes : node[n] = InitState
      /\ events \in 0 .. MaxEvents
  BY <1>1, BoundAssumption DEF Init
<1>3. /\ \A n, m \in Nodes : out[n][m] = <<>> /\ back[n][m] = <<>>
      /\ out \in Queues /\ back \in Queues
  BY DEF Init, Queues, Queue
<1>4. Types
  BY <1>2, <1>3 DEF Types, TypeOK
<1>5. \A n \in Nodes : Bounded(InitState) /\ Sound(InitState, n)
  BY <1>1 DEF Bounded, Sound
<1>6. \A m \in Nodes : Covers(InitState, m, 0)
  BY <1>1 DEF Covers
<1>7. NodesOK /\ EpochsOK
  BY <1>1, <1>2, <1>5, <1>6 DEF NodesOK, EpochsOK
<1>8. PacketsOK
  BY <1>3 DEF PacketsOK, Elements
<1> QED
  BY <1>4, <1>7, <1>8 DEF IInv

\* Every command, fault and packet keeps the inductive invariant, so that it
\* holds of every state of the cluster.
THEOREM Inductive == Spec => []IInv
<1>1. ASSUME IInv, UNCHANGED vars
      PROVE  IInv'
  <2>1. Types'
    BY <1>1 DEF IInv, vars, Types, TypeOK
  <2>2. NodesOK' /\ EpochsOK'
    BY <1>1 DEF IInv, vars, NodesOK, EpochsOK
  <2>3. PacketsOK'
    BY <1>1 DEF IInv, vars, PacketsOK
  <2> QED
    BY <2>1, <2>2, <2>3 DEF IInv
<1>2. IInv /\ [Next]_vars => IInv'
  BY <1>1, AdministratorStep, EnvironmentStep, PacketStep DEF Next
<1> QED
  BY InitOK, <1>2, PTL DEF Spec

\* For any nodes, slots and events: whatever packets are late or lost and
\* whichever nodes restart, nobody knows a greater config epoch of a master
\* than the master itself, so that its next claim is not outbid by an echo of
\* its own, and the next epoch a node takes is new to it (cluster.c).
THEOREM KnowsBest == Spec => []MasterKnowsBest
<1>1. IInv => MasterKnowsBest
  BY DEF IInv, EpochsOK, NodesOK, Bounded, Covers, MasterKnowsBest
<1> QED
  BY <1>1, Inductive, PTL

\* For any nodes, slots and events: the assertion of clusterSetMaster()
\* (cluster.c) fails only on a node that already is a slave and has slots, which
\* ADDSLOTS permits; never on a master that is demoted.
THEOREM AbortsAreSlaves == Spec => []OnlySlavesAbort
<1>1. IInv => OnlySlavesAbort
  BY DEF IInv, NodesOK, Sound, Serves, OnlySlavesAbort
<1> QED
  BY <1>1, Inductive, PTL
=============================================================================
