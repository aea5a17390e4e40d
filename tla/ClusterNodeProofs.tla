-------------------------- MODULE ClusterNodeProofs --------------------------
(***************************************************************************)
(* The inductive invariant of the slots configuration, and what packets    *)
(* and commands do to the state of one node.  ClusterConfigProofs has the  *)
(* steps of the cluster and the results.                                   *)
(***************************************************************************)
EXTENDS ClusterConfig, WellFoundedInduction, TLAPS

Header ==
  [currentEpoch : Nat, configEpoch : Nat, slots : SUBSET Slots, slaveof : Nodes \cup {None}]

Packets ==
  [type : {"ping", "pong", "update"}, hdr : Header, about : Nodes \cup {None},
   epoch : Nat, slots : SUBSET Slots]

Queue == Seq(Packets)
Queues == [Nodes -> [Nodes -> Queue]]

Types == TypeOK /\ out \in Queues /\ back \in Queues

\* No config epoch known to a node is above its current epoch.
Bounded(st) == \A x \in Nodes : st.configEpoch[x] <= st.currentEpoch

\* The node serves no slot if it is a slave.
Serves(st, me) == IsMaster(st, me) \/ SlotsOf(st, me) = {}

\* A node that aborted is a slave with slots.
Sound(st, me) == st.aborted => ~Serves(st, me)

\* "me" may have announced epoch e: its own as a master, that of its master as
\* a slave.  A slave that becomes a master takes an epoch that is not smaller.
Covers(st, me, e) ==
  IF IsMaster(st, me) THEN e <= st.configEpoch[me]
  ELSE \E x \in Nodes : e <= st.configEpoch[x]

\* The packets in a queue.
Elements(q) == {q[i] : i \in DOMAIN q}

\* The sender of a packet announced no more than it covers.
Announces(st, me, p) ==
  p.hdr.configEpoch <= p.hdr.currentEpoch /\ Covers(st, me, p.hdr.configEpoch)

\* A packet says no more than the nodes it is about know of themselves, and no
\* UPDATE goes to the node it is about.
PacketOK(nd, p, from, to) ==
  /\ Announces(nd[from], from, p)
  /\ p.type = "update" => /\ p.about \in Nodes \ {to}
                          /\ p.epoch <= p.hdr.currentEpoch
                          /\ Covers(nd[p.about], p.about, p.epoch)

EpochsOK == \A n, m \in Nodes : Covers(node[m], m, node[n].configEpoch[m])

PacketsOK ==
  \A n, m \in Nodes : /\ \A p \in Elements(out[n][m]) : PacketOK(node, p, n, m)
                      /\ \A p \in Elements(back[n][m]) : PacketOK(node, p, m, n)

NodesOK == \A n \in Nodes : Bounded(node[n]) /\ Sound(node[n], n)

IInv == Types /\ NodesOK /\ EpochsOK /\ PacketsOK

-----------------------------------------------------------------------------
(***************************************************************************)
(* Queues, and the greatest and the least of a set.                        *)
(***************************************************************************)
\* What is in a queue after a packet was appended.
LEMMA ElementsAppend ==
  ASSUME NEW q \in Queue, NEW p \in Packets
  PROVE  Append(q, p) \in Queue /\ Elements(Append(q, p)) = Elements(q) \cup {p}
<1>1. /\ Append(q, p) \in Queue /\ DOMAIN Append(q, p) = 1 .. Len(q) + 1
      /\ \A i \in 1 .. Len(q) : Append(q, p)[i] = q[i]
      /\ Append(q, p)[Len(q) + 1] = p
  BY DEF Queue
<1>2. DOMAIN q = 1 .. Len(q) /\ Len(q) \in Nat
  BY DEF Queue
<1>3. 1 .. Len(q) + 1 = (1 .. Len(q)) \cup {Len(q) + 1}
  BY <1>2
<1> QED
  BY <1>1, <1>2, <1>3 DEF Elements

\* The first packet of a queue, and the others.
LEMMA ElementsTail ==
  ASSUME NEW q \in Queue, q # <<>>
  PROVE  /\ Head(q) \in Packets /\ Head(q) \in Elements(q)
         /\ Tail(q) \in Queue /\ Elements(Tail(q)) \subseteq Elements(q)
<1>1. Len(q) \in Nat \ {0} /\ DOMAIN q = 1 .. Len(q) /\ Head(q) = q[1] /\ Head(q) \in Packets
  BY DEF Queue
<1>2. /\ Tail(q) \in Queue /\ DOMAIN Tail(q) = 1 .. Len(q) - 1
      /\ \A i \in 1 .. Len(q) - 1 : Tail(q)[i] = q[i + 1]
  BY DEF Queue
<1>3. Elements(Tail(q)) \subseteq Elements(q)
  <2> SUFFICES ASSUME NEW i \in 1 .. Len(q) - 1
               PROVE  Tail(q)[i] \in Elements(q)
    BY <1>2 DEF Elements
  <2>1. i + 1 \in 1 .. Len(q)
    BY <1>1
  <2> QED
    BY <1>1, <1>2, <2>1 DEF Elements
<1> QED
  BY <1>1, <1>2, <1>3 DEF Elements

\* The empty queue and the queue of one packet.
LEMMA ElementsFew ==
  ASSUME NEW p \in Packets
  PROVE  /\ <<>> \in Queue /\ Elements(<<>>) = {}
         /\ <<p>> \in Queue /\ Elements(<<p>>) = {p}
<1>1. <<>> \in Queue /\ Elements(<<>>) = {}
  BY DEF Queue, Elements
<1>2. <<p>> \in Queue /\ DOMAIN <<p>> = {1} /\ <<p>>[1] = p
  BY DEF Queue
<1> QED
  BY <1>1, <1>2 DEF Elements

\* What is in two queues, one after the other.
LEMMA ElementsConcat ==
  ASSUME NEW q \in Queue, NEW r \in Queue
  PROVE  q \o r \in Queue /\ Elements(q \o r) \subseteq Elements(q) \cup Elements(r)
<1>1. /\ q \o r \in Queue /\ DOMAIN (q \o r) = 1 .. Len(q) + Len(r)
      /\ \A i \in 1 .. Len(q) + Len(r) :
           (q \o r)[i] = IF i <= Len(q) THEN q[i] ELSE r[i - Len(q)]
  BY DEF Queue
<1>2. /\ DOMAIN q = 1 .. Len(q) /\ Len(q) \in Nat
      /\ DOMAIN r = 1 .. Len(r) /\ Len(r) \in Nat
  BY DEF Queue
<1>3. ASSUME NEW i \in 1 .. Len(q) + Len(r)
      PROVE  (q \o r)[i] \in Elements(q) \cup Elements(r)
  <2>1. CASE i <= Len(q)
    BY <1>1, <1>2, <2>1 DEF Elements
  <2>2. CASE ~(i <= Len(q))
    <3>1. i - Len(q) \in DOMAIN r /\ (q \o r)[i] = r[i - Len(q)]
      BY <1>1, <1>2, <2>2
    <3> QED
      BY <3>1 DEF Elements
  <2> QED
    BY <2>1, <2>2
<1> QED
  BY <1>1, <1>3 DEF Elements

\* The greater of two numbers.
LEMMA MaxOK ==
  ASSUME NEW a \in Nat, NEW b \in Nat
  PROVE  Max({a, b}) \in {a, b} /\ a <= Max({a, b}) /\ b <= Max({a, b})
<1>1. \E x \in {a, b} : \A y \in {a, b} : x >= y
  <2>1. CASE a >= b
    BY <2>1
  <2>2. CASE ~(a >= b)
    BY <2>2
  <2> QED
    BY <2>1, <2>2
<1>2. Max({a, b}) \in {a, b} /\ \A y \in {a, b} : Max({a, b}) >= y
  BY <1>1 DEF Max
<1> QED
  BY <1>2

\* A set of numbers that is not empty has a least element.
LEMMA MinOK ==
  ASSUME NEW T, T \subseteq Nat, T # {}
  PROVE  Min(T) \in T
<1>1. PICK x \in T : \A y \in T : ~(<<y, x>> \in OpToRel(<, Nat))
  BY NatLessThanWellFounded, WFMin
<1>2. ASSUME NEW y \in T
      PROVE  x <= y
  <2>1. x \in Nat /\ y \in Nat
    OBVIOUS
  <2>2. ~(y < x)
    BY <1>1, <2>1, Zenon DEF OpToRel
  <2> QED
    BY <2>1, <2>2
<1> QED
  BY <1>2, Zenon DEF Min

-----------------------------------------------------------------------------
(***************************************************************************)
(* What packets do to the state of the node that reads them.               *)
(***************************************************************************)
\* The state of "me" changes so that no epoch gets smaller, "me" neither
\* becomes a master nor a slave with slots, and aborts only if it is one.
Evolves(st, r, me) ==
  /\ r \in NodeState
  /\ \A x \in Nodes : st.configEpoch[x] <= r.configEpoch[x]
  /\ st.currentEpoch <= r.currentEpoch
  /\ IsMaster(r, me) => IsMaster(st, me)
  /\ Serves(st, me) => Serves(r, me)
  /\ r.aborted => st.aborted \/ ~Serves(st, me)

\* The fields of a state.
LEMMA StateOK ==
  ASSUME NEW st \in NodeState
  PROVE  /\ st.currentEpoch \in Nat /\ st.lastVoteEpoch \in Nat
         /\ st.configEpoch \in [Nodes -> Nat]
         /\ \A x \in Nodes : st.configEpoch[x] \in Nat
         /\ st.slots \in [Slots -> Nodes \cup {None}]
         /\ st.slaveof \in [Nodes -> Nodes \cup {None}]
         /\ st.importing \in SUBSET Slots /\ st.aborted \in BOOLEAN
BY DEF NodeState

\* The parts of a header.
LEMMA HeaderOK ==
  ASSUME NEW h \in Header
  PROVE  /\ h.currentEpoch \in Nat /\ h.configEpoch \in Nat
         /\ h.slots \in SUBSET Slots /\ h.slaveof \in Nodes \cup {None}
BY DEF Header

\* Evolving twice is evolving.
LEMMA EvolvesTwice ==
  ASSUME NEW a \in NodeState, NEW b, NEW c, NEW me \in Nodes,
         Evolves(a, b, me), Evolves(b, c, me)
  PROVE  Evolves(a, c, me)
<1>1. b \in NodeState /\ c \in NodeState
  BY DEF Evolves
<1>2. \A x \in Nodes : a.configEpoch[x] <= c.configEpoch[x]
  BY <1>1, StateOK DEF Evolves
<1>3. a.currentEpoch <= c.currentEpoch
  BY <1>1, StateOK DEF Evolves
<1> QED
  BY <1>1, <1>2, <1>3 DEF Evolves

\* What a node may have announced it may have announced later on.
LEMMA EvolvesCovers ==
  ASSUME NEW st \in NodeState, NEW r, NEW me \in Nodes, Evolves(st, r, me),
         NEW e \in Nat, Covers(st, me, e)
  PROVE  Covers(r, me, e)
<1>1. r \in NodeState /\ \A x \in Nodes : st.configEpoch[x] <= r.configEpoch[x]
  BY DEF Evolves
<1>2. \A x \in Nodes : st.configEpoch[x] \in Nat /\ r.configEpoch[x] \in Nat
  BY <1>1, StateOK
<1>3. \A x \in Nodes : e <= st.configEpoch[x] => e <= r.configEpoch[x]
  BY <1>1, <1>2
<1>4. CASE IsMaster(st, me)
  BY <1>3, <1>4 DEF Covers
<1>5. CASE ~IsMaster(st, me)
  BY <1>3, <1>5 DEF Covers, Evolves
<1> QED
  BY <1>4, <1>5

\* A smaller epoch is covered too.
LEMMA CoversLess ==
  ASSUME NEW st \in NodeState, NEW me \in Nodes, NEW e \in Nat, NEW d \in Nat,
         Covers(st, me, e), d <= e
  PROVE  Covers(st, me, d)
<1>1. \A x \in Nodes : st.configEpoch[x] \in Nat
  BY StateOK
<1>2. \A x \in Nodes : e <= st.configEpoch[x] => d <= st.configEpoch[x]
  BY <1>1
<1> QED
  BY <1>2 DEF Covers

\* A node covers its own epoch.
LEMMA CoversOwn ==
  ASSUME NEW st \in NodeState, NEW me \in Nodes
  PROVE  Covers(st, me, st.configEpoch[me])
<1>1. st.configEpoch[me] \in Nat
  BY StateOK
<1> QED
  BY <1>1 DEF Covers

\* A master, or the master of a slave, is a node.
LEMMA MasterOfOK ==
  ASSUME NEW st \in NodeState, NEW x \in Nodes
  PROVE  MasterOf(st, x) \in Nodes
BY StateOK DEF MasterOf, IsMaster

\* clusterBuildMessageHdr(): the header says what the node covers.
LEMMA BuildHeaderOK ==
  ASSUME NEW st \in NodeState, NEW me \in Nodes, Bounded(st)
  PROVE  LET h == clusterBuildMessageHdr(st, me)
         IN  /\ h \in Header /\ h.configEpoch <= h.currentEpoch
             /\ Covers(st, me, h.configEpoch)
             /\ h.currentEpoch = st.currentEpoch
<1> DEFINE h == clusterBuildMessageHdr(st, me)
<1>1. /\ h.currentEpoch = st.currentEpoch /\ h.configEpoch = st.configEpoch[MasterOf(st, me)]
      /\ h = [currentEpoch |-> st.currentEpoch, configEpoch |-> st.configEpoch[MasterOf(st, me)],
              slots |-> SlotsOf(st, MasterOf(st, me)), slaveof |-> st.slaveof[me]]
  BY DEF clusterBuildMessageHdr
<1>2. MasterOf(st, me) \in Nodes
  BY MasterOfOK
<1>3. st.configEpoch[MasterOf(st, me)] \in Nat /\ st.currentEpoch \in Nat
      /\ st.slaveof[me] \in Nodes \cup {None}
  BY <1>2, StateOK
<1>4. SlotsOf(st, MasterOf(st, me)) \in SUBSET Slots
  BY DEF SlotsOf
<1>5. h \in Header
  BY <1>1, <1>3, <1>4 DEF Header
<1>6. h.configEpoch <= h.currentEpoch
  BY <1>1, <1>2 DEF Bounded
<1>7. Covers(st, me, h.configEpoch)
  BY <1>1, <1>2, <1>3 DEF Covers, MasterOf
<1> QED
  BY <1>1, <1>5, <1>6, <1>7

\* r is st with what the header h of the sender says of the epochs: only what
\* is known of the sender changes.
Learnt(st, r, me, sender, h) ==
  /\ r \in NodeState /\ Evolves(st, r, me) /\ Bounded(r)
  /\ h.currentEpoch <= r.currentEpoch
  /\ r.configEpoch[sender] \in {st.configEpoch[sender], h.configEpoch}
  /\ \A x \in Nodes \ {sender} : r.configEpoch[x] = st.configEpoch[x]
  /\ r.slots = st.slots /\ r.slaveof = st.slaveof /\ r.aborted = st.aborted

\* The epochs of a header.
LEMMA SeeEpochsOK ==
  ASSUME NEW st \in NodeState, NEW me \in Nodes, NEW sender \in Nodes, NEW h \in Header,
         Bounded(st), h.configEpoch <= h.currentEpoch, NEW r, r = SeeEpochs(st, sender, h)
  PROVE  Learnt(st, r, me, sender, h)
<1> DEFINE seen == SeeEpochs(st, sender, h)
           cur == Max({st.currentEpoch, h.currentEpoch})
           conf == Max({st.configEpoch[sender], h.configEpoch})
<1>1. /\ st.currentEpoch \in Nat /\ st.configEpoch[sender] \in Nat
      /\ h.currentEpoch \in Nat /\ h.configEpoch \in Nat
  BY StateOK, HeaderOK
<1>2. /\ cur \in {st.currentEpoch, h.currentEpoch}
      /\ st.currentEpoch <= cur /\ h.currentEpoch <= cur
      /\ conf \in {st.configEpoch[sender], h.configEpoch}
      /\ st.configEpoch[sender] <= conf /\ h.configEpoch <= conf
  BY <1>1, MaxOK
<1> HIDE DEF cur, conf
<1>3. seen = [st EXCEPT !.currentEpoch = cur, !.configEpoch = [@ EXCEPT ![sender] = conf]]
  BY DEF SeeEpochs, cur, conf, NodeState
<1> HIDE DEF seen
<1>4. cur \in Nat /\ conf \in Nat
  BY <1>1, <1>2
<1>5. /\ seen \in NodeState
      /\ seen.currentEpoch = cur /\ seen.configEpoch[sender] = conf
      /\ \A x \in Nodes \ {sender} : seen.configEpoch[x] = st.configEpoch[x]
      /\ seen.slots = st.slots /\ seen.slaveof = st.slaveof /\ seen.aborted = st.aborted
  BY <1>3, <1>4, Zenon DEF NodeState
<1>6. \A x \in Nodes : st.configEpoch[x] <= seen.configEpoch[x]
  BY <1>2, <1>5, StateOK
<1>7. Evolves(st, seen, me)
  BY <1>2, <1>5, <1>6 DEF Evolves, IsMaster, Serves, SlotsOf
<1>8. Bounded(seen)
  <2>1. conf <= cur
    BY <1>1, <1>2 DEF Bounded
  <2>2. \A x \in Nodes : st.configEpoch[x] \in Nat /\ st.configEpoch[x] <= st.currentEpoch
    BY StateOK DEF Bounded
  <2>3. \A x \in Nodes : st.configEpoch[x] <= cur
    BY <1>1, <1>2, <2>2
  <2> QED
    BY <1>5, <2>1, <2>3 DEF Bounded
<1>9. r = seen
  BY DEF seen
<1> QED
  BY <1>2, <1>5, <1>7, <1>8, <1>9 DEF Learnt

\* The role of the sender: its slots and its role change, no epoch does.
LEMMA SwitchRoleOK ==
  ASSUME NEW st \in NodeState, NEW me \in Nodes, NEW sender \in Nodes \ {me}, NEW h \in Header
  PROVE  LET r == SwitchRole(st, sender, h)
         IN  /\ r \in NodeState /\ Evolves(st, r, me)
             /\ r.configEpoch = st.configEpoch /\ r.currentEpoch = st.currentEpoch
             /\ IsMaster(r, me) = IsMaster(st, me)
<1> DEFINE r == SwitchRole(st, sender, h)
           kept == [s \in Slots |-> IF IsMaster(st, sender) /\ st.slots[s] = sender
                                    THEN None ELSE st.slots[s]]
<1>1. CASE h.slaveof = None
  <2>1. r = [st EXCEPT !.slaveof = [@ EXCEPT ![sender] = None]]
    BY <1>1 DEF SwitchRole, NodeState
  <2> HIDE DEF r
  <2>2. /\ r \in NodeState /\ r.configEpoch = st.configEpoch /\ r.slots = st.slots
        /\ r.currentEpoch = st.currentEpoch /\ r.slaveof[me] = st.slaveof[me]
        /\ r.aborted = st.aborted
    BY <2>1 DEF NodeState
  <2>3. \A x \in Nodes : st.configEpoch[x] \in Nat /\ st.currentEpoch \in Nat
    BY StateOK
  <2>4. Evolves(st, r, me)
    BY <2>2, <2>3 DEF Evolves, IsMaster, Serves, SlotsOf
  <2> QED
    BY <2>2, <2>4 DEF r, IsMaster
<1>2. CASE h.slaveof # None
  <2>1. r = [st EXCEPT !.slaveof = [@ EXCEPT ![sender] = h.slaveof], !.slots = kept]
    BY <1>2 DEF SwitchRole, NodeState
  <2>2. kept \in [Slots -> Nodes \cup {None}] /\ h.slaveof \in Nodes \cup {None}
    BY StateOK, HeaderOK
  <2>3. \A s \in Slots : kept[s] = me => st.slots[s] = me
    BY NodesAssumption
  <2> HIDE DEF r, kept
  <2>4. /\ r \in NodeState /\ r.configEpoch = st.configEpoch /\ r.slots = kept
        /\ r.currentEpoch = st.currentEpoch /\ r.slaveof[me] = st.slaveof[me]
        /\ r.aborted = st.aborted
    BY <2>1, <2>2, Zenon DEF NodeState
  <2>5. \A x \in Nodes : st.configEpoch[x] \in Nat /\ st.currentEpoch \in Nat
    BY StateOK
  <2>6. Evolves(st, r, me)
    BY <2>3, <2>4, <2>5 DEF Evolves, IsMaster, Serves, SlotsOf
  <2> QED
    BY <2>4, <2>6 DEF r, IsMaster
<1> QED
  BY <1>1, <1>2

\* clusterSetMaster() for a slave, or for a master without slots.
LEMMA SetMasterOK ==
  ASSUME NEW st \in NodeState, NEW me \in Nodes, NEW n \in Nodes,
         IsMaster(st, me) => SlotsOf(st, me) = {}
  PROVE  LET r == clusterSetMaster(st, me, n)
         IN  /\ r \in NodeState /\ Evolves(st, r, me)
             /\ r.configEpoch = st.configEpoch /\ r.currentEpoch = st.currentEpoch
<1> DEFINE r == clusterSetMaster(st, me, n)
           imp == IF IsMaster(st, me) THEN {} ELSE st.importing
<1>1. \A x \in Nodes : st.configEpoch[x] \in Nat /\ st.currentEpoch \in Nat
  BY StateOK
<1>2. CASE SlotsOf(st, me) # {}
  <2>1. r = [st EXCEPT !.aborted = TRUE]
    BY <1>2 DEF clusterSetMaster
  <2> HIDE DEF r
  <2>2. /\ r \in NodeState /\ r.configEpoch = st.configEpoch /\ r.slots = st.slots
        /\ r.currentEpoch = st.currentEpoch /\ r.slaveof = st.slaveof
    BY <2>1, Zenon DEF NodeState
  <2>3. ~Serves(st, me)
    BY <1>2 DEF Serves
  <2> QED
    BY <1>1, <2>2, <2>3 DEF r, Evolves, Serves, SlotsOf, IsMaster
<1>3. CASE SlotsOf(st, me) = {}
  <2>1. r = [st EXCEPT !.slaveof = [@ EXCEPT ![me] = n], !.importing = imp]
    BY <1>3 DEF clusterSetMaster, NodeState
  <2>2. imp \in SUBSET Slots
    BY StateOK
  <2> HIDE DEF r, imp
  <2>3. /\ r \in NodeState /\ r.configEpoch = st.configEpoch /\ r.slots = st.slots
        /\ r.currentEpoch = st.currentEpoch /\ r.slaveof[me] = n /\ r.aborted = st.aborted
    BY <2>1, <2>2, Zenon DEF NodeState
  <2>4. ~IsMaster(r, me)
    BY <2>3, NodesAssumption DEF IsMaster
  <2> QED
    BY <1>1, <1>3, <2>3, <2>4 DEF r, Evolves, Serves, SlotsOf
<1> QED
  BY <1>2, <1>3

\* clusterUpdateSlotsConfigWith(): no epoch changes, a master is demoted only
\* when it has no slots, and only a slave with slots aborts.
LEMMA UpdateSlotsOK ==
  ASSUME NEW st \in NodeState, NEW me \in Nodes, NEW sender \in Nodes \ {me},
         NEW epoch \in Nat, NEW claimed \in SUBSET Slots
  PROVE  LET r == clusterUpdateSlotsConfigWith(st, me, sender, epoch, claimed)
         IN  /\ r \in NodeState /\ Evolves(st, r, me)
             /\ r.configEpoch = st.configEpoch /\ r.currentEpoch = st.currentEpoch
<1> DEFINE curmaster == MasterOf(st, me)
           taken == {s \in claimed \ st.importing :
                       /\ st.slots[s] # sender
                       /\ st.slots[s] = None \/ st.configEpoch[st.slots[s]] < epoch}
           table == [s \in Slots |-> IF s \in taken THEN sender ELSE st.slots[s]]
           bound == [st EXCEPT !.slots = table]
           demoted == (\E s \in taken : st.slots[s] = curmaster) /\ SlotsOf(bound, curmaster) = {}
           r == clusterUpdateSlotsConfigWith(st, me, sender, epoch, claimed)
<1>1. r = IF demoted THEN clusterSetMaster(bound, me, sender) ELSE bound
  BY DEF clusterUpdateSlotsConfigWith, NodeState
<1>2. table \in [Slots -> Nodes \cup {None}]
  BY StateOK
<1>3. \A s \in Slots : table[s] = me => st.slots[s] = me
  OBVIOUS
<1> HIDE DEF table
<1>4. /\ bound \in NodeState /\ bound.configEpoch = st.configEpoch
      /\ bound.currentEpoch = st.currentEpoch /\ bound.slaveof = st.slaveof
      /\ bound.slots = table /\ bound.aborted = st.aborted
  BY <1>2 DEF NodeState
<1> HIDE DEF bound, taken, r
<1>5. \A x \in Nodes : st.configEpoch[x] \in Nat /\ st.currentEpoch \in Nat
  BY StateOK
<1>6. Evolves(st, bound, me)
  BY <1>3, <1>4, <1>5 DEF Evolves, IsMaster, Serves, SlotsOf
<1>7. CASE ~demoted
  BY <1>1, <1>4, <1>6, <1>7 DEF r
<1>8. CASE demoted
  <2>1. IsMaster(bound, me) => SlotsOf(bound, me) = {}
    BY <1>4, <1>8 DEF MasterOf, IsMaster
  <2> QED
    BY <1>1, <1>4, <1>6, <1>8, <2>1, SetMasterOK, EvolvesTwice DEF r
<1> QED
  BY <1>7, <1>8

\* clusterHandleConfigEpochCollision(): only the epochs of "me" itself grow.
LEMMA CollisionOK ==
  ASSUME NEW st \in NodeState, NEW me \in Nodes, NEW sender \in Nodes \ {me}, Bounded(st)
  PROVE  LET r == clusterHandleConfigEpochCollision(st, me, sender)
         IN  /\ r \in NodeState /\ Evolves(st, r, me) /\ Bounded(r)
             /\ \A x \in Nodes \ {me} : r.configEpoch[x] = st.configEpoch[x]
<1> DEFINE r == clusterHandleConfigEpochCollision(st, me, sender)
           next == st.currentEpoch + 1
           up == [st EXCEPT !.currentEpoch = next, !.configEpoch = [@ EXCEPT ![me] = next]]
<1>1. r = up \/ r = st
  BY DEF clusterHandleConfigEpochCollision, NodeState
<1>2. /\ st.currentEpoch \in Nat
      /\ \A x \in Nodes : st.configEpoch[x] \in Nat /\ st.configEpoch[x] <= st.currentEpoch
  BY StateOK DEF Bounded
<1>3. next \in Nat /\ next = st.currentEpoch + 1
  BY <1>2
<1> HIDE DEF next
<1>4. /\ up \in NodeState /\ up.currentEpoch = next /\ up.configEpoch[me] = next
      /\ \A x \in Nodes \ {me} : up.configEpoch[x] = st.configEpoch[x]
      /\ up.slots = st.slots /\ up.slaveof = st.slaveof /\ up.aborted = st.aborted
  BY <1>3, Zenon DEF NodeState
<1> HIDE DEF r, up
<1>5. \A x \in Nodes : /\ st.configEpoch[x] <= up.configEpoch[x]
                       /\ up.configEpoch[x] <= up.currentEpoch
  BY <1>2, <1>3, <1>4
<1>6. Evolves(st, up, me) /\ Bounded(up)
  BY <1>2, <1>3, <1>4, <1>5 DEF Evolves, IsMaster, Serves, SlotsOf, Bounded
<1>7. Evolves(st, st, me)
  BY <1>2 DEF Evolves
<1> QED
  BY <1>1, <1>4, <1>6, <1>7 DEF r

\* A PING or PONG of node n, and what it announces.
LEMMA PacketTypeOK ==
  ASSUME NEW type \in {"ping", "pong"}, NEW st \in NodeState, NEW me \in Nodes, Bounded(st)
  PROVE  LET p == Packet(type, st, me)
         IN  p \in Packets /\ p.type = type /\ Announces(st, me, p)
<1>1. clusterBuildMessageHdr(st, me) \in Header
  BY BuildHeaderOK
<1>2. Packet(type, st, me) \in Packets
  BY <1>1 DEF Packet, Packets
<1> QED
  BY <1>2, BuildHeaderOK DEF Packet, Announces

\* What a packet announced stays covered when its sender evolves.
LEMMA AnnouncesLater ==
  ASSUME NEW p \in Packets, NEW st \in NodeState, NEW me \in Nodes, NEW r,
         Evolves(st, r, me), Announces(st, me, p)
  PROVE  Announces(r, me, p)
<1>1. p.hdr.configEpoch \in Nat
  BY DEF Packets, Header
<1> QED
  BY <1>1, EvolvesCovers DEF Announces

\* An UPDATE about the owner of an outdated slot.
LEMMA UpdateTypeOK ==
  ASSUME NEW st \in NodeState, NEW me \in Nodes, Bounded(st), NEW n \in Nodes,
         NEW p, p = UpdatePacket(st, me, n)
  PROVE  /\ p \in Packets /\ Announces(st, me, p)
         /\ p.about = n /\ p.epoch = st.configEpoch[n] /\ p.epoch <= p.hdr.currentEpoch
<1>1. clusterBuildMessageHdr(st, me) \in Header
      /\ clusterBuildMessageHdr(st, me).currentEpoch = st.currentEpoch
  BY BuildHeaderOK
<1>2. st.configEpoch[n] \in Nat /\ st.configEpoch[n] <= st.currentEpoch
  BY StateOK DEF Bounded
<1>3. SlotsOf(st, n) \in SUBSET Slots
  BY DEF SlotsOf
<1>4. p \in Packets
  BY <1>1, <1>2, <1>3 DEF UpdatePacket, Packets
<1> QED
  BY <1>1, <1>2, <1>4, BuildHeaderOK DEF UpdatePacket, Announces

\* clusterProcessPacket() of a PING or PONG: what the node knows of the others
\* comes from its sender, and what it sends it covers.
LEMMA ProcessPingOK ==
  ASSUME NEW st \in NodeState, Bounded(st), NEW me \in Nodes, NEW sender \in Nodes \ {me},
         NEW h \in Header, h.configEpoch <= h.currentEpoch
  PROVE  LET r == ProcessPing(st, me, sender, h)
         IN  /\ r.state \in NodeState /\ Evolves(st, r.state, me) /\ Bounded(r.state)
             /\ \A x \in Nodes \ {me, sender} : r.state.configEpoch[x] = st.configEpoch[x]
             /\ r.state.configEpoch[sender] \in {st.configEpoch[sender], h.configEpoch}
             /\ r.pong \in Packets /\ r.pong.type = "pong" /\ Announces(r.state, me, r.pong)
             /\ r.updates \in Queue
             /\ \A p \in Elements(r.updates) :
                  /\ Announces(r.state, me, p) /\ p.about \in Nodes \ {sender}
                  /\ p.epoch <= p.hdr.currentEpoch
                  /\ p.epoch <= r.state.configEpoch[p.about]
<1> DEFINE r == ProcessPing(st, me, sender, h)
           seen == SeeEpochs(st, sender, h)
           roles == SwitchRole(seen, sender, h)
           dirty == SlotsOf(roles, MasterOf(roles, sender)) # h.slots
           bound == IF IsMaster(roles, sender) /\ dirty
                    THEN clusterUpdateSlotsConfigWith(roles, me, sender, h.configEpoch, h.slots)
                    ELSE roles
           collides == /\ IsMaster(bound, me) /\ IsMaster(bound, sender)
                       /\ h.configEpoch = bound.configEpoch[me]
           final == IF collides THEN clusterHandleConfigEpochCollision(bound, me, sender)
                    ELSE bound
           about == bound.slots[Min(Outdated(bound, sender, h))]
<1>1. /\ r.pong = Packet("pong", seen, me) /\ r.state = final
      /\ r.updates = IF dirty /\ Outdated(bound, sender, h) # {}
                     THEN <<UpdatePacket(bound, me, about)>> ELSE <<>>
  BY DEF ProcessPing
<1>2. /\ seen \in NodeState /\ Evolves(st, seen, me) /\ Bounded(seen)
      /\ seen.configEpoch[sender] \in {st.configEpoch[sender], h.configEpoch}
      /\ \A x \in Nodes \ {sender} : seen.configEpoch[x] = st.configEpoch[x]
  <2>1. sender \in Nodes /\ seen = SeeEpochs(st, sender, h)
    OBVIOUS
  <2> HIDE DEF r, seen, roles, dirty, bound, collides, final, about
  <2>2. Learnt(st, seen, me, sender, h)
    BY <2>1, SeeEpochsOK
  <2> QED
    BY <2>2 DEF Learnt
<1> HIDE DEF r, seen
<1>3. /\ roles \in NodeState /\ Evolves(seen, roles, me)
      /\ roles.configEpoch = seen.configEpoch /\ roles.currentEpoch = seen.currentEpoch
  BY <1>2, SwitchRoleOK
<1> HIDE DEF roles, dirty
<1>4. h.configEpoch \in Nat /\ h.slots \in SUBSET Slots
  BY HeaderOK
<1>5. Evolves(roles, roles, me)
  BY <1>3, StateOK DEF Evolves
<1>6. /\ bound \in NodeState /\ Evolves(roles, bound, me)
      /\ bound.configEpoch = roles.configEpoch /\ bound.currentEpoch = roles.currentEpoch
  <2> DEFINE upd == clusterUpdateSlotsConfigWith(roles, me, sender, h.configEpoch, h.slots)
  <2>1. /\ upd \in NodeState /\ Evolves(roles, upd, me)
        /\ upd.configEpoch = roles.configEpoch /\ upd.currentEpoch = roles.currentEpoch
    BY <1>3, <1>4, UpdateSlotsOK
  <2>2. bound = upd \/ bound = roles
    BY DEF upd
  <2> HIDE DEF upd, bound
  <2> QED
    BY <1>3, <1>5, <2>1, <2>2
<1> HIDE DEF bound
<1>7. Bounded(bound) /\ Evolves(seen, bound, me) /\ Evolves(bound, bound, me)
  <2>1. Evolves(bound, bound, me)
    BY <1>6, StateOK DEF Evolves
  <2> QED
    BY <1>2, <1>3, <1>6, <2>1, EvolvesTwice DEF Bounded
<1>8. /\ final \in NodeState /\ Evolves(bound, final, me) /\ Bounded(final)
      /\ \A x \in Nodes \ {me} : final.configEpoch[x] = bound.configEpoch[x]
  BY <1>6, <1>7, CollisionOK
<1> HIDE DEF final
<1>9. Evolves(seen, final, me) /\ Evolves(st, final, me)
  BY <1>2, <1>6, <1>7, <1>8, EvolvesTwice
<1>10. /\ \A x \in Nodes \ {me, sender} : final.configEpoch[x] = st.configEpoch[x]
       /\ final.configEpoch[sender] \in {st.configEpoch[sender], h.configEpoch}
  BY <1>2, <1>3, <1>6, <1>8
<1>11. r.pong \in Packets /\ r.pong.type = "pong" /\ Announces(final, me, r.pong)
  <2> DEFINE p == Packet("pong", seen, me)
  <2>1. p \in Packets /\ p.type = "pong" /\ Announces(seen, me, p)
    BY <1>2, PacketTypeOK
  <2> HIDE DEF p
  <2>2. Announces(final, me, p)
    BY <1>2, <1>9, <2>1, AnnouncesLater
  <2> QED
    BY <1>1, <2>1, <2>2 DEF p
<1>12. CASE r.updates = <<>>
  BY <1>1, <1>8, <1>9, <1>10, <1>11, <1>12, ElementsFew DEF r
<1>13. CASE Outdated(bound, sender, h) # {} /\ r.updates = <<UpdatePacket(bound, me, about)>>
  <2>1. Min(Outdated(bound, sender, h)) \in Outdated(bound, sender, h)
    BY <1>4, <1>13, MinOK, SlotsAssumption DEF Outdated
  <2>2. about \in Nodes \ {sender}
    BY <1>4, <1>6, <2>1, StateOK, ZenonT(30) DEF Outdated
  <2> HIDE DEF about
  <2> DEFINE p == UpdatePacket(bound, me, about)
  <2> HIDE DEF p
  <2>3. /\ p \in Packets /\ Announces(bound, me, p) /\ p.about = about
        /\ p.epoch = bound.configEpoch[about] /\ p.epoch <= p.hdr.currentEpoch
    <3>1. /\ bound \in NodeState /\ Bounded(bound)
          /\ about \in Nodes /\ p = UpdatePacket(bound, me, about)
      BY <1>6, <1>7, <2>2 DEF p
    <3> QED
      BY <3>1, UpdateTypeOK
  <2>4. Announces(final, me, p)
    BY <1>6, <1>8, <2>3, AnnouncesLater
  <2>5. p.epoch <= final.configEpoch[about]
    BY <1>8, <2>2, <2>3 DEF Evolves
  <2>6. r.updates \in Queue /\ Elements(r.updates) = {p}
    BY <1>13, <2>3, ElementsFew DEF p
  <2> QED
    BY <1>1, <1>8, <1>9, <1>10, <1>11, <2>2, <2>3, <2>4, <2>5, <2>6 DEF r
<1> QED
  BY <1>1, <1>12, <1>13

\* clusterProcessPacket() of an UPDATE about another node.
LEMMA ProcessUpdateOK ==
  ASSUME NEW st \in NodeState, Bounded(st), NEW me \in Nodes, NEW sender \in Nodes \ {me},
         NEW p \in Packets, p.hdr.configEpoch <= p.hdr.currentEpoch,
         p.about \in Nodes \ {me}, p.epoch <= p.hdr.currentEpoch
  PROVE  LET r == ProcessUpdate(st, me, sender, p)
         IN  /\ r \in NodeState /\ Evolves(st, r, me) /\ Bounded(r)
             /\ \A x \in Nodes : \/ r.configEpoch[x] = st.configEpoch[x]
                                 \/ x = sender /\ r.configEpoch[x] = p.hdr.configEpoch
                                 \/ x = p.about /\ r.configEpoch[x] = p.epoch
<1> DEFINE r == ProcessUpdate(st, me, sender, p)
           seen == SeeEpochs(st, sender, p.hdr)
           known == [seen EXCEPT !.slaveof = [@ EXCEPT ![p.about] = None],
                                 !.configEpoch = [@ EXCEPT ![p.about] = p.epoch]]
<1>1. p.hdr \in Header /\ p.epoch \in Nat /\ p.slots \in SUBSET Slots
  BY DEF Packets
<1>2. /\ seen \in NodeState /\ Evolves(st, seen, me) /\ Bounded(seen)
      /\ p.hdr.currentEpoch <= seen.currentEpoch
      /\ seen.configEpoch[sender] \in {st.configEpoch[sender], p.hdr.configEpoch}
      /\ \A x \in Nodes \ {sender} : seen.configEpoch[x] = st.configEpoch[x]
  <2>1. sender \in Nodes /\ seen = SeeEpochs(st, sender, p.hdr)
    OBVIOUS
  <2> HIDE DEF r, seen, known
  <2>2. Learnt(st, seen, me, sender, p.hdr)
    BY <1>1, <2>1, SeeEpochsOK
  <2> QED
    BY <2>2 DEF Learnt
<1>3. r = IF seen.configEpoch[p.about] >= p.epoch THEN seen
          ELSE clusterUpdateSlotsConfigWith(known, me, p.about, p.epoch, p.slots)
  BY <1>2 DEF ProcessUpdate, NodeState
<1> HIDE DEF r, seen
<1>4. CASE seen.configEpoch[p.about] >= p.epoch
  BY <1>2, <1>3, <1>4 DEF r
<1>5. CASE ~(seen.configEpoch[p.about] >= p.epoch)
  <2>1. /\ known \in NodeState /\ known.configEpoch[p.about] = p.epoch
        /\ \A x \in Nodes \ {p.about} : known.configEpoch[x] = seen.configEpoch[x]
        /\ known.slaveof[me] = seen.slaveof[me] /\ known.slots = seen.slots
        /\ known.currentEpoch = seen.currentEpoch /\ known.aborted = seen.aborted
    BY <1>1, <1>2, Zenon DEF NodeState
  <2> HIDE DEF known
  <2>2. /\ seen.currentEpoch \in Nat /\ p.hdr.currentEpoch \in Nat
        /\ \A x \in Nodes : seen.configEpoch[x] \in Nat
    BY <1>1, <1>2, StateOK, HeaderOK
  <2>3. \A x \in Nodes : seen.configEpoch[x] <= known.configEpoch[x]
    BY <1>1, <1>5, <2>1, <2>2
  <2>4. Evolves(seen, known, me)
    BY <2>1, <2>2, <2>3 DEF Evolves, IsMaster, Serves, SlotsOf
  <2>5. Bounded(known)
    BY <1>1, <1>2, <2>1, <2>2 DEF Bounded
  <2>6. /\ r \in NodeState /\ Evolves(known, r, me)
        /\ r.configEpoch = known.configEpoch /\ r.currentEpoch = known.currentEpoch
    BY <1>1, <1>3, <1>5, <2>1, UpdateSlotsOK
  <2>7. Evolves(seen, r, me) /\ Evolves(st, r, me)
    BY <1>2, <2>1, <2>4, <2>6, EvolvesTwice
  <2>8. Bounded(r)
    BY <2>5, <2>6 DEF Bounded
  <2> QED
    BY <1>2, <2>1, <2>6, <2>7, <2>8 DEF r
<1> QED
  BY <1>4, <1>5

-----------------------------------------------------------------------------
(***************************************************************************)
(* What commands and elections do to the state of a node.                  *)
(***************************************************************************)
\* clusterGetMaxEpoch() is the current epoch.
LEMMA MaxEpochOK ==
  ASSUME NEW st \in NodeState, Bounded(st)
  PROVE  clusterGetMaxEpoch(st) = st.currentEpoch
<1> DEFINE S == {st.currentEpoch} \cup {st.configEpoch[m] : m \in Nodes}
<1>1. st.currentEpoch \in S /\ \A y \in S : y \in Nat /\ st.currentEpoch >= y
  BY StateOK DEF Bounded
<1> HIDE DEF S
<1>2. Max(S) \in S /\ \A y \in S : Max(S) >= y
  BY <1>1 DEF Max
<1>3. Max(S) = st.currentEpoch
  BY <1>1, <1>2
<1> QED
  BY <1>3 DEF S, clusterGetMaxEpoch

\* clusterBumpConfigEpochWithoutConsensus(): the epoch of "me" is the current
\* epoch afterwards.
LEMMA BumpOK ==
  ASSUME NEW st \in NodeState, NEW me \in Nodes, Bounded(st)
  PROVE  LET r == clusterBumpConfigEpochWithoutConsensus(st, me)
         IN  /\ r \in NodeState /\ Bounded(r) /\ Evolves(st, r, me)
             /\ \A x \in Nodes \ {me} : r.configEpoch[x] = st.configEpoch[x]
             /\ r.configEpoch[me] = r.currentEpoch \/ r = st
             /\ r.configEpoch[me] >= st.currentEpoch
             /\ r.slots = st.slots /\ r.slaveof = st.slaveof /\ r.aborted = st.aborted
<1> DEFINE r == clusterBumpConfigEpochWithoutConsensus(st, me)
           next == st.currentEpoch + 1
           up == [st EXCEPT !.currentEpoch = next, !.configEpoch = [@ EXCEPT ![me] = next]]
<1>1. r = up \/ (r = st /\ st.configEpoch[me] = st.currentEpoch)
  BY MaxEpochOK DEF clusterBumpConfigEpochWithoutConsensus, NodeState
<1>2. /\ st.currentEpoch \in Nat
      /\ \A x \in Nodes : st.configEpoch[x] \in Nat /\ st.configEpoch[x] <= st.currentEpoch
  BY StateOK DEF Bounded
<1>3. next \in Nat /\ next = st.currentEpoch + 1
  BY <1>2
<1> HIDE DEF next
<1>4. /\ up \in NodeState /\ up.currentEpoch = next /\ up.configEpoch[me] = next
      /\ \A x \in Nodes \ {me} : up.configEpoch[x] = st.configEpoch[x]
      /\ up.slots = st.slots /\ up.slaveof = st.slaveof /\ up.aborted = st.aborted
  BY <1>3, Zenon DEF NodeState
<1> HIDE DEF r, up
<1>5. \A x \in Nodes : /\ st.configEpoch[x] <= up.configEpoch[x]
                       /\ up.configEpoch[x] <= up.currentEpoch
  BY <1>2, <1>3, <1>4
<1>6. Evolves(st, up, me) /\ Bounded(up) /\ up.configEpoch[me] >= st.currentEpoch
  BY <1>2, <1>3, <1>4, <1>5 DEF Evolves, IsMaster, Serves, SlotsOf, Bounded
<1>7. Evolves(st, st, me)
  BY <1>2 DEF Evolves
<1>8. CASE r = up
  BY <1>4, <1>6, <1>8 DEF r
<1>9. CASE r = st /\ st.configEpoch[me] = st.currentEpoch
  BY <1>2, <1>7, <1>9 DEF r
<1> QED
  BY <1>1, <1>8, <1>9

\* clusterFailoverReplaceYourMaster(): a slave becomes a master.
LEMMA ReplaceOK ==
  ASSUME NEW st \in NodeState, NEW me \in Nodes
  PROVE  LET r == clusterFailoverReplaceYourMaster(st, me)
         IN  /\ r \in NodeState /\ IsMaster(r, me) /\ r.aborted = st.aborted
             /\ r.configEpoch = st.configEpoch /\ r.currentEpoch = st.currentEpoch
<1> DEFINE r == clusterFailoverReplaceYourMaster(st, me)
           table == [s \in Slots |-> IF st.slots[s] = st.slaveof[me] THEN me ELSE st.slots[s]]
<1>1. r = [st EXCEPT !.slaveof = [@ EXCEPT ![me] = None], !.slots = table]
  BY DEF clusterFailoverReplaceYourMaster, NodeState
<1>2. table \in [Slots -> Nodes \cup {None}]
  BY StateOK
<1> HIDE DEF table, r
<1>3. /\ r \in NodeState /\ r.slaveof[me] = None /\ r.aborted = st.aborted
      /\ r.configEpoch = st.configEpoch /\ r.currentEpoch = st.currentEpoch
  BY <1>1, <1>2, Zenon DEF NodeState
<1> QED
  BY <1>3 DEF IsMaster, r

\* A slave that becomes a master with an epoch that is not below its current
\* epoch covers what it covered.
LEMMA PromotedCovers ==
  ASSUME NEW a \in NodeState, Bounded(a), NEW r \in NodeState, NEW me \in Nodes,
         ~IsMaster(a, me), IsMaster(r, me), r.configEpoch[me] >= a.currentEpoch,
         NEW e \in Nat, Covers(a, me, e)
  PROVE  Covers(r, me, e)
<1>1. PICK x \in Nodes : e <= a.configEpoch[x]
  BY DEF Covers
<1>2. a.configEpoch[x] \in Nat /\ a.currentEpoch \in Nat /\ r.configEpoch[me] \in Nat
  BY StateOK
<1>3. e <= r.configEpoch[me]
  BY <1>1, <1>2 DEF Bounded
<1> QED
  BY <1>3 DEF Covers

=============================================================================
