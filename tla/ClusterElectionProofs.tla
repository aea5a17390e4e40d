------------------------ MODULE ClusterElectionProofs ------------------------
(***************************************************************************)
(* Proofs about ClusterElection, for every set of masters and slaves and   *)
(* every bound: types, the votes of a master, and, when no vote of an      *)
(* older attempt arrives late and no vote is written before it is saved,   *)
(* what the votes mean for the winners.                                    *)
(***************************************************************************)
EXTENDS ClusterElection, FiniteSetTheorems, TLAPS

Ack(m) == m.type = "AUTH_ACK"

\* Votes only grow, and nodes.conf never runs ahead of the memory.
EpochsOrdered ==
    \A n \in Nodes :
        /\ lastVoteEpoch[n] <= currentEpoch[n]
        /\ disk[n].lastVoteEpoch <= lastVoteEpoch[n]
        /\ disk[n].lastVoteEpoch <= disk[n].currentEpoch

\* Who sends what to whom, and that every vote on the wire is in acksSent.
Routing ==
    /\ \A n \in Nodes : \A m \in sndbuf[n] :
          /\ m.from = n
          /\ Ack(m) => n \in Masters /\ m.to \in Slaves
          /\ ~Ack(m) => n \in Slaves
    /\ \A m \in net : /\ Ack(m) => m \in acksSent
                      /\ ~Ack(m) => m.from \in Slaves
    /\ \A a \in acksSent : Ack(a) /\ a.from \in Masters /\ a.to \in Slaves

\* A buffered vote was never on the wire, is at most the last vote, and is
\* either saved or will be by the next clusterBeforeSleep().
BufferedVotes ==
    \A n \in Nodes : \A m \in sndbuf[n] : Ack(m) =>
        /\ m \notin acksSent
        /\ m.epoch <= lastVoteEpoch[n]
        /\ "SAVE_CONFIG" \in todo[n] \/ m.epoch <= disk[n].lastVoteEpoch

\* A master votes for one slave in one epoch, buffered votes included.
SingleVotes ==
    /\ OneVotePerEpoch
    /\ \A n \in Nodes : \A a \in sndbuf[n] :
          \A b \in acksSent \cup sndbuf[n] :
             Ack(a) /\ Ack(b) /\ b.from = n /\ a.epoch = b.epoch => a.to = b.to

\* An attempt that has not asked for votes yet has none and expects none.
\* One that has asked only expects votes of its own epoch, and its counter
\* is the number of masters whose vote for that epoch it received.
Attempt(s) ==
    /\ authValid[s] /\ ~authSent[s] =>
          UnderWay(s) = {} /\ authCount[s] = 0 /\ counted[s] = {}
    /\ authSent[s] =>
          /\ authEpoch[s] >= 1
          /\ \A m \in UnderWay(s) : m.epoch = authEpoch[s]
          /\ authCount[s] = Cardinality(counted[s])
          /\ \A v \in counted[s] :
                /\ AuthAck(v, s, authEpoch[s]) \in acksSent
                /\ AuthAck(v, s, authEpoch[s]) \notin net

Attempts == \A s \in Slaves : Attempt(s)

\* A candidate has no config epoch of its own before it wins.
Candidates == \A s \in Slaves : role[s] = "slave" => configEpoch[s] = 0

IInv ==
    /\ TypeOK
    /\ EpochsOrdered
    /\ Routing
    /\ VoteIsDurable
    /\ BufferedVotes
    /\ SingleVotes
    /\ Attempts
    /\ Candidates
    /\ WinnerHasMajority

-----------------------------------------------------------------------------
\* The inductive invariant holds initially.
LEMMA InitIInv == Init => IInv
<1> SUFFICES ASSUME Init PROVE IInv
  OBVIOUS
<1>1. TypeOK
  BY DEF Init, TypeOK, Saved, Nodes
<1>2. ASSUME NEW n \in Nodes
      PROVE  /\ lastVoteEpoch[n] = 0 /\ currentEpoch[n] = 0
             /\ disk[n].lastVoteEpoch = 0 /\ disk[n].currentEpoch = 0
             /\ sndbuf[n] = {}
  BY DEF Init, Saved
<1>3. net = {} /\ acksSent = {}
  BY DEF Init
<1>4. EpochsOrdered
  BY <1>2 DEF EpochsOrdered
<1>5. Routing
  BY <1>2, <1>3, Zenon DEF Routing
<1>6. VoteIsDurable /\ BufferedVotes
  BY <1>2, <1>3, Zenon DEF VoteIsDurable, BufferedVotes
<1>7. SingleVotes
  BY <1>2, <1>3, Zenon DEF SingleVotes, OneVotePerEpoch
<1>8. Attempts
  BY DEF Init, Attempts, Attempt
<1>9. Candidates
  BY DEF Init, Candidates
<1>10. WinnerHasMajority
  BY DEF Init, WinnerHasMajority
<1> QED
  BY <1>1, <1>4, <1>5, <1>6, <1>7, <1>8, <1>9, <1>10 DEF IInv


\* The maximum of two epochs is an epoch, and at least both.
LEMMA MaxOfNat ==
    ASSUME NEW a \in Nat, NEW b \in Nat
    PROVE  MaxOf(a, b) \in Nat /\ MaxOf(a, b) >= a /\ MaxOf(a, b) >= b
  BY DEF MaxOf

\* An update with a value of the right type keeps a function's type.
LEMMA UpdateType ==
    ASSUME NEW S, NEW T, NEW f \in [S -> T], NEW x \in S, NEW v \in T
    PROVE  [f EXCEPT ![x] = v] \in [S -> T]
  OBVIOUS

\* The type invariant holds in every reachable state, whatever the switches.
LEMMA TypeStep == TypeOK /\ [Next]_vars => TypeOK'
<1> SUFFICES ASSUME TypeOK, [Next]_vars PROVE TypeOK'
  OBVIOUS
<1> USE DEF TypeOK, Nodes
<1>1. ASSUME NEW n \in Nodes, ReceivePing(n) PROVE TypeOK'
  BY <1>1 DEF ReceivePing, authVars, wireVars, histVars
<1>2. ASSUME NEW n \in Nodes, clusterBeforeSleep(n) PROVE TypeOK'
  BY <1>2 DEF clusterBeforeSleep, Saved, authVars, wireVars, histVars
<1>3. ASSUME NEW n \in Nodes, clusterWriteHandler(n) PROVE TypeOK'
  BY <1>3 DEF clusterWriteHandler, nodeVars, authVars
<1>4. ASSUME NEW n \in Nodes, CrashRestart(n) PROVE TypeOK'
  <2>1. (authSent \in [Slaves -> BOOLEAN])'
    BY <1>4, Zenon DEF CrashRestart
  <2>2. (authValid \in [Slaves -> BOOLEAN])'
    BY <1>4, Zenon DEF CrashRestart
  <2>3. (sndbuf \in [Nodes -> SUBSET Message])' /\ (net \in SUBSET Message)'
    <3>1. \A x \in Nodes : (IF x = n THEN {} ELSE {m \in sndbuf[x] : m.to # n})
                              \in SUBSET Message
      OBVIOUS
    <3> QED
      BY <1>4, <3>1, Zenon DEF CrashRestart
  <2>4. /\ (currentEpoch \in [Nodes -> Nat])'
        /\ (lastVoteEpoch \in [Nodes -> Nat])'
        /\ (todo \in [Nodes -> SUBSET Flags])'
        /\ (faults \in Nat)'
    BY <1>4 DEF CrashRestart
  <2>5. /\ (authEpoch \in [Slaves -> Nat])'
        /\ (authCount \in [Slaves -> Nat])'
        /\ (counted \in [Slaves -> SUBSET Masters])'
    <3>1. \A s \in Slaves :
             /\ (IF s = n THEN 0 ELSE authEpoch[s]) \in Nat
             /\ (IF s = n THEN 0 ELSE authCount[s]) \in Nat
             /\ (IF s = n THEN {} ELSE counted[s]) \in SUBSET Masters
      OBVIOUS
    <3> QED
      BY <1>4, <3>1, Zenon DEF CrashRestart
  <2> QED
    BY <1>4, <2>1, <2>2, <2>3, <2>4, <2>5 DEF CrashRestart
<1>5. ASSUME NEW m \in Masters, NEW req \in net,
             clusterSendFailoverAuthIfNeeded(m, req)
      PROVE  TypeOK'
  <2> DEFINE epoch == MaxOf(currentEpoch[m], req.epoch)
  <2>1. req.from \in Nodes /\ req.epoch \in Nat /\ currentEpoch[m] \in Nat
    BY DEF Message
  <2>2. epoch \in Nat
    BY <2>1, MaxOfNat, ZenonT(30)
  <2>3. AuthAck(m, req.from, epoch) \in Message
    BY <2>1, <2>2 DEF AuthAck, Message
  <2> HIDE DEF epoch
  <2>4. /\ net' = net \ {req}
        /\ currentEpoch' = [currentEpoch EXCEPT ![m] = epoch]
        /\ UNCHANGED <<disk, authVars, faults, histVars>>
    BY <1>5 DEF clusterSendFailoverAuthIfNeeded, epoch
  <2>5. \/ /\ lastVoteEpoch' = [lastVoteEpoch EXCEPT ![m] = epoch]
           /\ todo' = [todo EXCEPT ![m] = @ \cup {"SAVE_CONFIG"}]
           /\ sndbuf' = [sndbuf EXCEPT
                            ![m] = @ \cup {AuthAck(m, req.from, epoch)}]
        \/ UNCHANGED <<lastVoteEpoch, todo, sndbuf>>
    BY <1>5 DEF clusterSendFailoverAuthIfNeeded, epoch
  <2>6. /\ (net \in SUBSET Message)'
        /\ (currentEpoch \in [Nodes -> Nat])'
    BY <2>2, <2>4
  <2>7. /\ (lastVoteEpoch \in [Nodes -> Nat])'
        /\ (todo \in [Nodes -> SUBSET Flags])'
        /\ (sndbuf \in [Nodes -> SUBSET Message])'
    <3>1. /\ todo[m] \cup {"SAVE_CONFIG"} \in SUBSET Flags
          /\ sndbuf[m] \cup {AuthAck(m, req.from, epoch)} \in SUBSET Message
      BY <2>3 DEF Flags
    <3>2. CASE UNCHANGED <<lastVoteEpoch, todo, sndbuf>>
      BY <3>2
    <3>3. CASE ~UNCHANGED <<lastVoteEpoch, todo, sndbuf>>
      <4>1. /\ lastVoteEpoch' = [lastVoteEpoch EXCEPT ![m] = epoch]
            /\ todo' = [todo EXCEPT ![m] = todo[m] \cup {"SAVE_CONFIG"}]
            /\ sndbuf' = [sndbuf EXCEPT
                            ![m] = sndbuf[m] \cup {AuthAck(m, req.from, epoch)}]
        BY <2>5, <3>3
      <4> QED
        BY <2>2, <3>1, <4>1, UpdateType
    <3> QED
      BY <3>2, <3>3
  <2> QED
    BY <2>4, <2>6, <2>7, Zenon DEF authVars, histVars
<1>6. ASSUME NEW s \in Slaves, NEW ack \in net, ReceiveAck(s, ack)
      PROVE  TypeOK'
  <2>1. ack.epoch \in Nat /\ MaxOf(currentEpoch[s], ack.epoch) \in Nat
    BY MaxOfNat, ZenonT(30) DEF Message
  <2>2. /\ (net \in SUBSET Message)'
        /\ (currentEpoch \in [Nodes -> Nat])'
    BY <1>6, <2>1 DEF ReceiveAck
  <2>3. /\ (authCount \in [Slaves -> Nat])'
        /\ (counted \in [Slaves -> SUBSET Masters])'
        /\ (todo \in [Nodes -> SUBSET Flags])'
    <3>1. /\ authCount[s] + 1 \in Nat
          /\ todo[s] \cup {"HANDLE_FAILOVER"} \in SUBSET Flags
      BY DEF Flags
    <3>2. CASE ack.from \in Masters /\ ack.epoch >= authEpoch[s]
      <4>1. counted[s] \cup {ack.from} \in SUBSET Masters
        BY <3>2
      <4>2. /\ authCount' = [authCount EXCEPT ![s] = authCount[s] + 1]
            /\ counted' = [counted EXCEPT ![s] = counted[s] \cup {ack.from}]
            /\ todo' = [todo EXCEPT ![s] = todo[s] \cup {"HANDLE_FAILOVER"}]
        BY <1>6, <3>2 DEF ReceiveAck
      <4> QED
        BY <3>1, <4>1, <4>2, UpdateType
    <3>3. CASE ~(ack.from \in Masters /\ ack.epoch >= authEpoch[s])
      BY <1>6, <3>3 DEF ReceiveAck
    <3> QED
      BY <3>2, <3>3
  <2> QED
    BY <1>6, <2>2, <2>3, Zenon DEF ReceiveAck
<1>7. ASSUME NEW s \in Slaves, ScheduleElection(s) PROVE TypeOK'
  BY <1>7, SMTT(60) DEF ScheduleElection, ResetVotes, ClearHandleFlag, Flags, wireVars
<1>8. ASSUME NEW s \in Slaves, RequestVotes(s) PROVE TypeOK'
  <2>1. \A m \in Masters : AuthRequest(s, m, currentEpoch[s] + 1) \in Message
    BY DEF AuthRequest, Message
  <2> QED
    BY <1>8, <2>1 DEF RequestVotes, Flags, histVars
<1>9. ASSUME NEW s \in Slaves, WinElection(s) PROVE TypeOK'
  <2>1. MaxOf(configEpoch[s], authEpoch[s]) \in Nat
    BY MaxOfNat
  <2> QED
    BY <1>9, <2>1 DEF WinElection, clusterSetNodeAsMaster, Saved, wireVars, histVars
<1>10. ASSUME NEW s \in Slaves, NothingToDo(s) PROVE TypeOK'
  BY <1>10 DEF NothingToDo, ClearHandleFlag, authVars, wireVars, histVars
<1>11. ASSUME NEW s \in Slaves, ElectionExpires(s) PROVE TypeOK'
  BY <1>11 DEF ElectionExpires, nodeVars, wireVars, histVars
<1>12. ASSUME NEW s \in Slaves, freeClusterLink(s) PROVE TypeOK'
  BY <1>12 DEF freeClusterLink, nodeVars, authVars, histVars
<1>13. CASE UNCHANGED vars
  BY <1>13 DEF vars, nodeVars, authVars, wireVars, histVars
<1> QED
  BY <1>1, <1>2, <1>3, <1>4, <1>5, <1>6, <1>7, <1>8, <1>9, <1>10, <1>11,
     <1>12, <1>13 DEF Next

-----------------------------------------------------------------------------
\* The two outcomes of clusterSendFailoverAuthIfNeeded(), without the choices
\* that decide between them.
LEMMA VoteOutcome ==
    ASSUME TypeOK, NEW m \in Masters, NEW req \in net,
           clusterSendFailoverAuthIfNeeded(m, req)
    PROVE  LET epoch == MaxOf(currentEpoch[m], req.epoch)
               ack == AuthAck(m, req.from, epoch) IN
           /\ epoch \in Nat /\ epoch >= currentEpoch[m]
           /\ req.type = "AUTH_REQUEST" /\ req.to = m
           /\ net' = net \ {req}
           /\ currentEpoch' = [currentEpoch EXCEPT ![m] = epoch]
           /\ UNCHANGED <<disk, authVars, faults, histVars>>
           /\ \/ /\ req.epoch = epoch
                 /\ lastVoteEpoch[m] # epoch
                 /\ lastVoteEpoch' = [lastVoteEpoch EXCEPT ![m] = epoch]
                 /\ todo' = [todo EXCEPT ![m] = todo[m] \cup {"SAVE_CONFIG"}]
                 /\ sndbuf' = [sndbuf EXCEPT ![m] = sndbuf[m] \cup {ack}]
              \/ UNCHANGED <<lastVoteEpoch, todo, sndbuf>>
<1> DEFINE epoch == MaxOf(currentEpoch[m], req.epoch)
<1>1. currentEpoch[m] \in Nat /\ req.epoch \in Nat
  BY DEF TypeOK, Message, Nodes
<1>2. epoch \in Nat /\ epoch >= currentEpoch[m] /\ epoch >= req.epoch
  BY <1>1, MaxOfNat, ZenonT(30)
<1> HIDE DEF epoch
<1>3. /\ req.type = "AUTH_REQUEST" /\ req.to = m
      /\ net' = net \ {req}
      /\ currentEpoch' = [currentEpoch EXCEPT ![m] = epoch]
      /\ UNCHANGED <<disk, authVars, faults, histVars>>
  BY DEF clusterSendFailoverAuthIfNeeded, epoch
<1>4. \/ /\ req.epoch >= epoch
         /\ lastVoteEpoch[m] # epoch
         /\ lastVoteEpoch' = [lastVoteEpoch EXCEPT ![m] = epoch]
         /\ todo' = [todo EXCEPT ![m] = todo[m] \cup {"SAVE_CONFIG"}]
         /\ sndbuf' = [sndbuf EXCEPT
                          ![m] = sndbuf[m] \cup {AuthAck(m, req.from, epoch)}]
      \/ UNCHANGED <<lastVoteEpoch, todo, sndbuf>>
  BY DEF clusterSendFailoverAuthIfNeeded, GrantVote, epoch
<1>5. req.epoch >= epoch => req.epoch = epoch
  BY <1>1, <1>2
<1> QED
  BY <1>2, <1>3, <1>4, <1>5 DEF epoch

\* The order of the epochs is kept by every step.
LEMMA EpochsStep == TypeOK /\ EpochsOrdered /\ [Next]_vars => EpochsOrdered'
<1> SUFFICES ASSUME TypeOK, EpochsOrdered, [Next]_vars PROVE EpochsOrdered'
  OBVIOUS
<1> USE DEF TypeOK, EpochsOrdered, Nodes
<1>1. ASSUME NEW n \in Nodes, ReceivePing(n) PROVE EpochsOrdered'
  BY <1>1 DEF ReceivePing
<1>2. ASSUME NEW n \in Nodes, clusterBeforeSleep(n) PROVE EpochsOrdered'
  BY <1>2 DEF clusterBeforeSleep, Saved
<1>3. ASSUME NEW n \in Nodes, clusterWriteHandler(n) PROVE EpochsOrdered'
  BY <1>3 DEF clusterWriteHandler, nodeVars
<1>4. ASSUME NEW n \in Nodes, CrashRestart(n) PROVE EpochsOrdered'
  BY <1>4 DEF CrashRestart
<1>5. ASSUME NEW m \in Masters, NEW req \in net,
             clusterSendFailoverAuthIfNeeded(m, req)
      PROVE  EpochsOrdered'
  BY <1>5, VoteOutcome
<1>6. ASSUME NEW s \in Slaves, NEW ack \in net, ReceiveAck(s, ack)
      PROVE  EpochsOrdered'
  <2>1. /\ MaxOf(currentEpoch[s], ack.epoch) \in Nat
        /\ MaxOf(currentEpoch[s], ack.epoch) >= currentEpoch[s]
    BY MaxOfNat, ZenonT(30) DEF Message
  <2> QED
    BY <1>6, <2>1 DEF ReceiveAck
<1>7. ASSUME NEW s \in Slaves,
             \/ ScheduleElection(s)
             \/ NothingToDo(s)
             \/ ElectionExpires(s)
             \/ freeClusterLink(s)
      PROVE  EpochsOrdered'
  BY <1>7 DEF ScheduleElection, NothingToDo, ElectionExpires, freeClusterLink,
              nodeVars
<1>8. ASSUME NEW s \in Slaves, RequestVotes(s) PROVE EpochsOrdered'
  BY <1>8 DEF RequestVotes
<1>9. ASSUME NEW s \in Slaves, WinElection(s) PROVE EpochsOrdered'
  BY <1>9 DEF WinElection, Saved
<1>10. CASE UNCHANGED vars
  BY <1>10 DEF vars, nodeVars
<1> QED
  BY <1>1, <1>2, <1>3, <1>4, <1>5, <1>6, <1>7, <1>8, <1>9, <1>10 DEF Next

\* Messages keep their ends, and every vote on the wire is recorded.
LEMMA RoutingStep == TypeOK /\ Routing /\ [Next]_vars => Routing'
<1> SUFFICES ASSUME TypeOK, Routing, [Next]_vars PROVE Routing'
  OBVIOUS
<1> USE DEF TypeOK, Routing, Nodes
<1>1. ASSUME NEW n \in Nodes, clusterWriteHandler(n) PROVE Routing'
  <2>1. /\ net' = net \cup sndbuf[n]
        /\ sndbuf' = [sndbuf EXCEPT ![n] = {}]
        /\ acksSent' = acksSent \cup {m \in sndbuf[n] : Ack(m)}
    BY <1>1 DEF clusterWriteHandler, Ack
  <2> QED
    BY <2>1
<1>2. ASSUME NEW n \in Nodes, CrashRestart(n) PROVE Routing'
  <2>1. /\ \A x \in Nodes : sndbuf'[x] \subseteq sndbuf[x]
        /\ net' \subseteq net
        /\ acksSent' = acksSent
    BY <1>2 DEF CrashRestart
  <2> QED
    BY <2>1
<1>3. ASSUME NEW m \in Masters, NEW req \in net,
             clusterSendFailoverAuthIfNeeded(m, req)
      PROVE  Routing'
  <2> DEFINE ack == AuthAck(m, req.from, MaxOf(currentEpoch[m], req.epoch))
  <2>1. ack.from = m /\ ack.to = req.from /\ Ack(ack)
    BY DEF AuthAck, Ack
  <2> HIDE DEF ack
  <2>2. /\ ~Ack(req)
        /\ net' = net \ {req}
        /\ acksSent' = acksSent
        /\ \/ sndbuf' = [sndbuf EXCEPT ![m] = sndbuf[m] \cup {ack}]
           \/ sndbuf' = sndbuf
    BY <1>3, VoteOutcome, SMTT(60) DEF histVars, Ack, ack
  <2>3. req.from \in Slaves
    BY <2>2
  <2> QED
    BY <2>1, <2>2, <2>3
<1>4. ASSUME NEW s \in Slaves, RequestVotes(s) PROVE Routing'
  <2> DEFINE reqs == {AuthRequest(s, m, currentEpoch[s] + 1) : m \in Masters}
  <2>1. \A q \in reqs : q.from = s /\ ~Ack(q)
    BY DEF AuthRequest, Ack
  <2> HIDE DEF reqs
  <2>2. /\ sndbuf' = [sndbuf EXCEPT ![s] = sndbuf[s] \cup reqs]
        /\ net' = net
        /\ acksSent' = acksSent
    BY <1>4 DEF RequestVotes, histVars, reqs
  <2> QED
    BY <2>1, <2>2
<1>5. ASSUME NEW s \in Slaves, freeClusterLink(s) PROVE Routing'
  BY <1>5 DEF freeClusterLink, histVars
<1>6. ASSUME NEW s \in Slaves, NEW ack \in net, ReceiveAck(s, ack)
      PROVE  Routing'
  BY <1>6 DEF ReceiveAck
<1>7. CASE UNCHANGED <<sndbuf, net, acksSent>>
  BY <1>7
<1> QED
  BY <1>1, <1>2, <1>3, <1>4, <1>5, <1>6, <1>7
     DEF Next, ReceivePing, clusterBeforeSleep, ScheduleElection, WinElection,
         NothingToDo, ElectionExpires, wireVars, histVars, vars

-----------------------------------------------------------------------------
\* The part of the invariant that makes votes durable and unique.
VotesInv ==
    /\ VoteIsDurable
    /\ BufferedVotes
    /\ SingleVotes

\* Steps that neither create, send nor save a vote keep VotesInv.
LEMMA VotesFrame ==
    ASSUME TypeOK, VotesInv,
           disk' = disk, lastVoteEpoch' = lastVoteEpoch, acksSent' = acksSent,
           \A n \in Nodes : \A m \in sndbuf'[n] : m \in sndbuf[n] \/ ~Ack(m),
           \A n \in Nodes :
              "SAVE_CONFIG" \in todo[n] => "SAVE_CONFIG" \in todo'[n]
    PROVE  VotesInv'
<1>1. VoteIsDurable'
  BY DEF VotesInv, VoteIsDurable
<1>2. BufferedVotes'
  BY DEF VotesInv, BufferedVotes, Ack
<1>3. OneVotePerEpoch'
  BY DEF VotesInv, SingleVotes, OneVotePerEpoch
<1>4. ASSUME NEW n \in Nodes, NEW a \in sndbuf'[n], NEW b \in acksSent \cup sndbuf'[n],
             Ack(a), Ack(b), b.from = n, a.epoch = b.epoch
      PROVE  a.to = b.to
  <2>1. a \in sndbuf[n] /\ b \in acksSent \cup sndbuf[n]
    BY <1>4
  <2> QED
    BY <1>4, <2>1 DEF VotesInv, SingleVotes
<1>5. SingleVotes'
  BY <1>3, <1>4 DEF SingleVotes, Ack
<1> QED
  BY <1>1, <1>2, <1>5 DEF VotesInv

\* A save (clusterBeforeSleep(), clusterFailoverReplaceYourMaster()) makes the
\* buffered votes of the node durable.
LEMMA VotesSaved ==
    ASSUME TypeOK, EpochsOrdered, VotesInv, NEW n \in Nodes,
           disk' = [disk EXCEPT ![n] = Saved(currentEpoch[n], lastVoteEpoch[n])],
           UNCHANGED <<lastVoteEpoch, acksSent, sndbuf>>,
           \A x \in Nodes \ {n} : todo'[x] = todo[x]
    PROVE  VotesInv'
<1>1. /\ disk'[n].lastVoteEpoch = lastVoteEpoch[n]
      /\ disk'[n].lastVoteEpoch >= disk[n].lastVoteEpoch
      /\ \A x \in Nodes \ {n} : disk'[x] = disk[x]
  BY DEF TypeOK, EpochsOrdered, Saved
<1>2. VoteIsDurable'
  <2> SUFFICES ASSUME NEW a \in acksSent
               PROVE  disk'[a.from].lastVoteEpoch >= a.epoch
    BY DEF VoteIsDurable
  <2>1. a.from \in Nodes /\ a.epoch \in Nat
    BY DEF TypeOK, Message
  <2>2. disk[a.from].lastVoteEpoch >= a.epoch
    BY DEF VotesInv, VoteIsDurable
  <2>3. CASE a.from = n
    BY <1>1, <2>1, <2>2, <2>3 DEF TypeOK
  <2>4. CASE a.from # n
    BY <1>1, <2>1, <2>2, <2>4
  <2> QED
    BY <2>3, <2>4
<1>3. BufferedVotes'
  <2> SUFFICES ASSUME NEW x \in Nodes, NEW m \in sndbuf[x], Ack(m)
               PROVE  /\ m \notin acksSent
                      /\ m.epoch <= lastVoteEpoch[x]
                      /\ \/ "SAVE_CONFIG" \in todo'[x]
                         \/ m.epoch <= disk'[x].lastVoteEpoch
    BY DEF BufferedVotes, Ack
  <2>1. /\ m \notin acksSent
        /\ m.epoch <= lastVoteEpoch[x]
        /\ "SAVE_CONFIG" \in todo[x] \/ m.epoch <= disk[x].lastVoteEpoch
    BY DEF VotesInv, BufferedVotes
  <2>2. CASE x = n
    BY <1>1, <2>1, <2>2
  <2>3. CASE x # n
    BY <1>1, <2>1, <2>3
  <2> QED
    BY <2>2, <2>3
<1>4. SingleVotes'
  BY DEF VotesInv, SingleVotes, OneVotePerEpoch, Ack
<1> QED
  BY <1>2, <1>3, <1>4 DEF VotesInv

\* A vote is for an epoch above every earlier vote of the same master: the
\* voter refuses its lastVoteEpoch, and its currentEpoch never decreases
\* below it.
LEMMA VotesGranted ==
    ASSUME TypeOK, EpochsOrdered, Routing, VotesInv,
           NEW m \in Masters, NEW req \in net,
           clusterSendFailoverAuthIfNeeded(m, req)
    PROVE  VotesInv'
<1> DEFINE epoch == MaxOf(currentEpoch[m], req.epoch)
           ack == AuthAck(m, req.from, epoch)
<1>1. /\ epoch \in Nat /\ epoch >= currentEpoch[m]
      /\ UNCHANGED <<disk, acksSent>>
      /\ \/ /\ lastVoteEpoch[m] # epoch
            /\ lastVoteEpoch' = [lastVoteEpoch EXCEPT ![m] = epoch]
            /\ todo' = [todo EXCEPT ![m] = todo[m] \cup {"SAVE_CONFIG"}]
            /\ sndbuf' = [sndbuf EXCEPT ![m] = sndbuf[m] \cup {ack}]
         \/ UNCHANGED <<lastVoteEpoch, todo, sndbuf>>
  BY VoteOutcome DEF histVars
<1>2. ack.from = m /\ ack.epoch = epoch /\ Ack(ack)
  BY DEF AuthAck, Ack
<1> HIDE DEF epoch, ack
<1>3. CASE UNCHANGED <<lastVoteEpoch, todo, sndbuf>>
  BY <1>1, <1>3, VotesFrame
<1>4. CASE ~UNCHANGED <<lastVoteEpoch, todo, sndbuf>>
  <2>1. /\ lastVoteEpoch[m] # epoch
        /\ lastVoteEpoch' = [lastVoteEpoch EXCEPT ![m] = epoch]
        /\ todo' = [todo EXCEPT ![m] = todo[m] \cup {"SAVE_CONFIG"}]
        /\ sndbuf' = [sndbuf EXCEPT ![m] = sndbuf[m] \cup {ack}]
    BY <1>1, <1>4
  <2>2. m \in Nodes /\ lastVoteEpoch[m] \in Nat /\ epoch > lastVoteEpoch[m]
    <3>1. m \in Nodes
      BY DEF Nodes
    <3>2. /\ lastVoteEpoch[m] \in Nat
          /\ currentEpoch[m] \in Nat
          /\ lastVoteEpoch[m] <= currentEpoch[m]
      BY <3>1 DEF TypeOK, EpochsOrdered
    <3> QED
      BY <1>1, <2>1, <3>1, <3>2
  <2>3. \A a \in sndbuf[m] : Ack(a) => a.epoch \in Nat /\ a.epoch < epoch
    <3>1. \A a \in sndbuf[m] : a.epoch \in Nat
      BY <2>2 DEF TypeOK, Message
    <3>2. \A a \in sndbuf[m] : Ack(a) => a.epoch <= lastVoteEpoch[m]
      BY <2>2 DEF VotesInv, BufferedVotes
    <3> QED
      BY <1>1, <2>2, <3>1, <3>2
  <2>4. \A a \in acksSent : a.from = m => a.epoch \in Nat /\ a.epoch < epoch
    <3> SUFFICES ASSUME NEW a \in acksSent, a.from = m
                 PROVE  a.epoch \in Nat /\ a.epoch < epoch
      OBVIOUS
    <3>1. a.epoch \in Nat /\ disk[m].lastVoteEpoch \in Nat
      BY <2>2 DEF TypeOK, Message
    <3>2. a.epoch <= disk[m].lastVoteEpoch
      BY DEF VotesInv, VoteIsDurable
    <3>3. disk[m].lastVoteEpoch <= lastVoteEpoch[m]
      BY <2>2 DEF EpochsOrdered
    <3> QED
      BY <1>1, <2>2, <3>1, <3>2, <3>3
  <2>5. VoteIsDurable'
    BY <1>1 DEF VotesInv, VoteIsDurable
  <2>6. BufferedVotes'
    <3> SUFFICES ASSUME NEW x \in Nodes, NEW a \in sndbuf'[x], Ack(a)
                 PROVE  /\ a \notin acksSent
                        /\ a.epoch <= lastVoteEpoch'[x]
                        /\ \/ "SAVE_CONFIG" \in todo'[x]
                           \/ a.epoch <= disk[x].lastVoteEpoch
      BY <1>1 DEF BufferedVotes, Ack
    <3>1. CASE x # m
      BY <2>1, <3>1 DEF TypeOK, VotesInv, BufferedVotes
    <3>2. CASE x = m
      <4>1. "SAVE_CONFIG" \in todo'[x] /\ lastVoteEpoch'[x] = epoch
        BY <2>1, <2>2, <3>2 DEF TypeOK
      <4>2. a \in sndbuf[m] \/ a = ack
        BY <2>1, <2>2, <3>2 DEF TypeOK
      <4>3. CASE a = ack
        BY <1>1, <1>2, <2>4, <4>1, <4>3
      <4>4. CASE a \in sndbuf[m]
        BY <1>1, <2>2, <2>3, <4>1, <4>4 DEF VotesInv, BufferedVotes
      <4> QED
        BY <4>2, <4>3, <4>4
    <3> QED
      BY <3>1, <3>2
  <2>7. SingleVotes'
    <3>1. OneVotePerEpoch'
      BY <1>1 DEF VotesInv, SingleVotes, OneVotePerEpoch
    <3>2. ASSUME NEW x \in Nodes, NEW a \in sndbuf'[x],
                 NEW b \in acksSent \cup sndbuf'[x],
                 Ack(a), Ack(b), b.from = x, a.epoch = b.epoch
          PROVE  a.to = b.to
      <4>1. CASE x # m
        BY <2>1, <3>2, <4>1 DEF TypeOK, VotesInv, SingleVotes
      <4>2. CASE x = m
        <5>1. /\ a \in sndbuf[m] \/ a = ack
              /\ b \in acksSent \/ b \in sndbuf[m] \/ b = ack
          BY <2>1, <2>2, <4>2 DEF TypeOK
        <5>2. CASE a = ack /\ b = ack
          BY <5>2
        <5>3. CASE a = ack /\ b # ack
          BY <1>1, <1>2, <2>3, <2>4, <3>2, <4>2, <5>1, <5>3, SMTT(60)
        <5>4. CASE a # ack /\ b = ack
          BY <1>1, <1>2, <2>3, <3>2, <5>1, <5>4
        <5>5. CASE a # ack /\ b # ack
          BY <2>2, <3>2, <4>2, <5>1, <5>5 DEF VotesInv, SingleVotes
        <5> QED
          BY <5>2, <5>3, <5>4, <5>5
      <4> QED
        BY <4>1, <4>2
    <3> QED
      BY <1>1, <3>1, <3>2 DEF SingleVotes, Ack
  <2> QED
    BY <2>5, <2>6, <2>7 DEF VotesInv
<1> QED
  BY <1>3, <1>4

\* Votes are sent only once they are saved, and crashes forget no sent vote.
LEMMA VotesStep ==
    ASSUME ~WriteBeforeSave,
           TypeOK, EpochsOrdered, Routing, VotesInv, [Next]_vars
    PROVE  VotesInv'
<1>1. ASSUME NEW n \in Nodes, ReceivePing(n) PROVE VotesInv'
  BY <1>1, VotesFrame DEF ReceivePing, wireVars, histVars
<1>2. ASSUME NEW n \in Nodes, clusterBeforeSleep(n) PROVE VotesInv'
  <2>1. \A x \in Nodes \ {n} : todo'[x] = todo[x]
    BY <1>2 DEF clusterBeforeSleep, TypeOK
  <2>2. /\ disk' = [disk EXCEPT ![n] = Saved(currentEpoch[n], lastVoteEpoch[n])]
        /\ UNCHANGED <<lastVoteEpoch, acksSent, sndbuf>>
    BY <1>2 DEF clusterBeforeSleep, wireVars, histVars
  <2> QED
    BY <2>1, <2>2, VotesSaved, ZenonT(30)
<1>3. ASSUME NEW n \in Nodes, clusterWriteHandler(n) PROVE VotesInv'
  <2> DEFINE sent == {m \in sndbuf[n] : m.type = "AUTH_ACK"}
  <2>1. /\ "SAVE_CONFIG" \notin todo[n]
        /\ sndbuf' = [sndbuf EXCEPT ![n] = {}]
        /\ acksSent' = acksSent \cup sent
        /\ UNCHANGED <<lastVoteEpoch, disk, todo>>
    BY <1>3 DEF clusterWriteHandler, MayWrite, nodeVars
  <2>2. \A a \in sent : /\ a \in sndbuf[n] /\ Ack(a) /\ a.from = n
                        /\ a.epoch \in Nat /\ a.epoch <= disk[n].lastVoteEpoch
    BY <2>1 DEF VotesInv, BufferedVotes, Ack, Routing, TypeOK, Message
  <2> HIDE DEF sent
  <2>3. VoteIsDurable'
    <3> SUFFICES ASSUME NEW a \in acksSent'
                 PROVE  disk[a.from].lastVoteEpoch >= a.epoch
      BY <2>1 DEF VoteIsDurable
    <3>1. CASE a \in acksSent
      BY <3>1 DEF VotesInv, VoteIsDurable
    <3>2. CASE a \in sent
      <4>1. disk[n].lastVoteEpoch \in Nat
        BY DEF TypeOK
      <4> QED
        BY <2>2, <3>2, <4>1
    <3> QED
      BY <2>1, <3>1, <3>2
  <2>4. BufferedVotes'
    <3> SUFFICES ASSUME NEW x \in Nodes, NEW m \in sndbuf'[x], Ack(m)
                 PROVE  /\ m \notin acksSent'
                        /\ m.epoch <= lastVoteEpoch[x]
                        /\ \/ "SAVE_CONFIG" \in todo[x]
                           \/ m.epoch <= disk[x].lastVoteEpoch
      BY <2>1 DEF BufferedVotes, Ack
    <3>1. x # n /\ m \in sndbuf[x]
      BY <2>1 DEF TypeOK
    <3>2. m.from = x
      BY <3>1 DEF Routing
    <3>3. m \notin sent
      BY <2>2, <3>1, <3>2
    <3> QED
      BY <2>1, <3>1, <3>3 DEF VotesInv, BufferedVotes
  <2>5. SingleVotes'
    <3>1. OneVotePerEpoch'
      <4> SUFFICES ASSUME NEW a \in acksSent', NEW b \in acksSent',
                          a.from = b.from, a.epoch = b.epoch
                   PROVE  a.to = b.to
        BY DEF OneVotePerEpoch
      <4>1. Ack(a) /\ Ack(b)
        BY <2>1, <2>2 DEF Routing
      <4>2. CASE a \in acksSent /\ b \in acksSent
        BY <4>2 DEF VotesInv, SingleVotes, OneVotePerEpoch
      <4>3. CASE a \in sent
        BY <2>1, <2>2, <4>1, <4>3 DEF VotesInv, SingleVotes
      <4>4. CASE b \in sent
        BY <2>1, <2>2, <4>1, <4>4 DEF VotesInv, SingleVotes
      <4> QED
        BY <2>1, <4>2, <4>3, <4>4
    <3>2. ASSUME NEW x \in Nodes, NEW a \in sndbuf'[x],
                 NEW b \in acksSent' \cup sndbuf'[x],
                 Ack(a), Ack(b), b.from = x, a.epoch = b.epoch
          PROVE  a.to = b.to
      <4>1. x # n /\ sndbuf'[x] = sndbuf[x] /\ a \in sndbuf[x]
        BY <2>1 DEF TypeOK
      <4>2. b \in acksSent \cup sndbuf[x]
        BY <2>1, <2>2, <3>2, <4>1
      <4> QED
        BY <3>2, <4>1, <4>2 DEF VotesInv, SingleVotes
    <3> QED
      BY <3>1, <3>2 DEF SingleVotes, Ack
  <2> QED
    BY <2>3, <2>4, <2>5 DEF VotesInv
<1>4. ASSUME NEW n \in Nodes, CrashRestart(n) PROVE VotesInv'
  <2>1. /\ UNCHANGED <<disk, acksSent>>
        /\ sndbuf'[n] = {}
        /\ \A x \in Nodes : sndbuf'[x] \subseteq sndbuf[x]
        /\ \A x \in Nodes \ {n} : /\ lastVoteEpoch'[x] = lastVoteEpoch[x]
                                  /\ todo'[x] = todo[x]
    BY <1>4 DEF CrashRestart, TypeOK
  <2>2. VoteIsDurable'
    BY <2>1 DEF VotesInv, VoteIsDurable
  <2>3. BufferedVotes'
    BY <2>1 DEF VotesInv, BufferedVotes, Ack
  <2>4. SingleVotes'
    BY <2>1 DEF VotesInv, SingleVotes, OneVotePerEpoch, Ack
  <2> QED
    BY <2>2, <2>3, <2>4 DEF VotesInv
<1>5. ASSUME NEW m \in Masters, NEW req \in net,
             clusterSendFailoverAuthIfNeeded(m, req)
      PROVE  VotesInv'
  BY <1>5, VotesGranted
<1>6. ASSUME NEW s \in Slaves, NEW ack \in net, ReceiveAck(s, ack)
      PROVE  VotesInv'
  <2>1. \A n \in Nodes : "SAVE_CONFIG" \in todo[n] => "SAVE_CONFIG" \in todo'[n]
    <3>1. todo \in [Nodes -> SUBSET Flags]
      BY DEF TypeOK
    <3> QED
      BY <1>6, <3>1 DEF ReceiveAck
  <2> QED
    BY <1>6, <2>1, VotesFrame DEF ReceiveAck
<1>7. ASSUME NEW s \in Slaves, ScheduleElection(s) \/ NothingToDo(s)
      PROVE  VotesInv'
  <2>1. \A n \in Nodes : "SAVE_CONFIG" \in todo[n] => "SAVE_CONFIG" \in todo'[n]
    BY <1>7 DEF ScheduleElection, NothingToDo, ClearHandleFlag, TypeOK
  <2> QED
    BY <1>7, <2>1, VotesFrame DEF ScheduleElection, NothingToDo, wireVars,
                                  histVars
<1>8. ASSUME NEW s \in Slaves, ElectionExpires(s) PROVE VotesInv'
  BY <1>8, VotesFrame DEF ElectionExpires, nodeVars, wireVars, histVars
<1>9. ASSUME NEW s \in Slaves, RequestVotes(s) PROVE VotesInv'
  <2>1. \A n \in Nodes : "SAVE_CONFIG" \in todo[n] => "SAVE_CONFIG" \in todo'[n]
    BY <1>9 DEF RequestVotes, TypeOK
  <2>2. \A n \in Nodes : \A m \in sndbuf'[n] : m \in sndbuf[n] \/ ~Ack(m)
    <3> DEFINE asked == {AuthRequest(s, m, currentEpoch[s] + 1) : m \in Masters}
    <3>1. \A m \in asked : ~Ack(m)
      BY DEF AuthRequest, Ack
    <3>2. sndbuf' = [sndbuf EXCEPT ![s] = @ \cup asked]
      BY <1>9 DEF RequestVotes
    <3>3. sndbuf \in [Nodes -> SUBSET Message]
      BY DEF TypeOK
    <3> HIDE DEF asked
    <3> QED
      BY <3>1, <3>2, <3>3
  <2> QED
    BY <1>9, <2>1, <2>2, VotesFrame DEF RequestVotes, histVars
<1>10. ASSUME NEW s \in Slaves, WinElection(s) PROVE VotesInv'
  <2>1. s \in Nodes /\ \A x \in Nodes \ {s} : todo'[x] = todo[x]
    BY <1>10 DEF WinElection, TypeOK, Nodes
  <2>2. /\ disk' = [disk EXCEPT ![s] = Saved(currentEpoch[s], lastVoteEpoch[s])]
        /\ UNCHANGED <<lastVoteEpoch, acksSent, sndbuf>>
    BY <1>10 DEF WinElection, wireVars, histVars
  <2> QED
    BY <2>1, <2>2, VotesSaved, ZenonT(30)
<1>11. ASSUME NEW s \in Slaves, freeClusterLink(s) PROVE VotesInv'
  <2>1. \A n \in Nodes : \A m \in sndbuf'[n] : m \in sndbuf[n] \/ ~Ack(m)
    BY <1>11 DEF freeClusterLink
  <2> QED
    BY <1>11, <2>1, VotesFrame DEF freeClusterLink, nodeVars, histVars
<1>12. CASE UNCHANGED vars
  BY <1>12, VotesFrame DEF vars, nodeVars, wireVars, histVars
<1> QED
  BY <1>1, <1>2, <1>3, <1>4, <1>5, <1>6, <1>7, <1>8, <1>9, <1>10, <1>11, <1>12
     DEF Next

-----------------------------------------------------------------------------
\* Every variable keeps its type.
THEOREM TypeCorrect == Spec => []TypeOK
<1>1. Init => TypeOK
  BY InitIInv DEF IInv
<1> QED
  BY <1>1, TypeStep, PTL DEF Spec

\* A master sends one vote per epoch, and only votes its disk remembers,
\* whenever it crashes.  Late votes do not matter for this.
THEOREM VotesSafety ==
    ASSUME ~WriteBeforeSave
    PROVE  Spec => [](OneVotePerEpoch /\ VoteIsDurable)
<1> DEFINE Inv == TypeOK /\ EpochsOrdered /\ Routing /\ VotesInv
<1>1. Init => Inv
  BY InitIInv DEF IInv, VotesInv
<1>2. Inv /\ [Next]_vars => Inv'
  BY TypeStep, EpochsStep, RoutingStep, VotesStep
<1>3. Inv => OneVotePerEpoch /\ VoteIsDurable
  BY DEF VotesInv, SingleVotes
<1> QED
  BY <1>1, <1>2, <1>3, PTL DEF Spec

\* The disk of a master remembers the epoch of every vote that left it, or a
\* later one: a master that crashes and loads nodes.conf cannot vote again.
THEOREM VotesDurable ==
    ASSUME ~WriteBeforeSave
    PROVE  Spec => []VoteIsDurable
BY VotesSafety, PTL

-----------------------------------------------------------------------------
\* needed_quorum is a strict majority: two quorums exceed the voters.
LEMMA QuorumSize ==
    /\ Cardinality(Masters) \in Nat
    /\ needed_quorum \in Nat
    /\ needed_quorum + needed_quorum > Cardinality(Masters)
<1>1. Cardinality(Masters) \in Nat
  BY MastersAssumption, FS_CardinalityType
<1> QED
  BY <1>1 DEF needed_quorum

-----------------------------------------------------------------------------
\* An attempt is not disturbed by a step that leaves its counters alone,
\* puts nothing new under way for it and re-sends no vote.
LEMMA AttemptFrame ==
    ASSUME NEW s \in Slaves, Attempt(s),
           authValid'[s] => authValid[s],
           authSent'[s] = authSent[s], authEpoch'[s] = authEpoch[s],
           authCount'[s] = authCount[s], counted'[s] = counted[s],
           UnderWay(s)' \subseteq UnderWay(s),
           acksSent \subseteq acksSent',
           \A a \in net' : a \in net \/ a \notin acksSent
    PROVE  Attempt(s)'
<1>1. (authValid[s] /\ ~authSent[s] =>
          UnderWay(s) = {} /\ authCount[s] = 0 /\ counted[s] = {})'
  BY DEF Attempt
<1>2. ASSUME authSent'[s]
      PROVE  (/\ authEpoch[s] >= 1
              /\ \A m \in UnderWay(s) : m.epoch = authEpoch[s]
              /\ authCount[s] = Cardinality(counted[s])
              /\ \A v \in counted[s] :
                    /\ AuthAck(v, s, authEpoch[s]) \in acksSent
                    /\ AuthAck(v, s, authEpoch[s]) \notin net)'
  BY <1>2 DEF Attempt, AuthAck
<1> QED
  BY <1>1, <1>2 DEF Attempt, AuthAck

\* Sending and losing messages puts nothing new under way.
LEMMA UnderWayShrinks ==
    ASSUME NEW s,
           \A m \in net' : m \in net \/ \E n \in Nodes : m \in sndbuf[n],
           \A n \in Nodes : \A m \in sndbuf'[n] : m \in sndbuf[n]
    PROVE  UnderWay(s)' \subseteq UnderWay(s)
  BY DEF UnderWay

\* A vote that arrives while votes are asked for is for the epoch asked for,
\* and is the first one of its sender: the counter counts masters.
LEMMA AttemptReceives ==
    ASSUME TypeOK, Routing, NEW s \in Slaves, Attempt(s),
           NEW ack \in net, ReceiveAck(s, ack)
    PROVE  Attempt(s)'
<1>1. /\ ack.to = s /\ ack.type = "AUTH_ACK"
      /\ net' = net \ {ack}
      /\ UNCHANGED <<authSent, authValid, authEpoch, acksSent, sndbuf>>
  BY DEF ReceiveAck
<1>2. ack \in UnderWay(s)
  BY <1>1 DEF UnderWay
<1>3. UnderWay(s)' \subseteq UnderWay(s)
  BY <1>1, UnderWayShrinks
<1>4. CASE ~authSent[s]
  BY <1>1, <1>2, <1>4 DEF Attempt
<1>5. CASE authSent[s]
  <2>1. /\ authEpoch[s] >= 1
        /\ \A m \in UnderWay(s) : m.epoch = authEpoch[s]
        /\ authCount[s] = Cardinality(counted[s])
        /\ \A v \in counted[s] : /\ AuthAck(v, s, authEpoch[s]) \in acksSent
                                 /\ AuthAck(v, s, authEpoch[s]) \notin net
    BY <1>5 DEF Attempt
  <2>2. ack.epoch = authEpoch[s] /\ ack.from \in Masters /\ ack \in acksSent
    BY <1>1, <1>2, <2>1 DEF Routing, Ack
  <2>3. ack = AuthAck(ack.from, s, authEpoch[s])
    BY <1>1, <2>2 DEF TypeOK, Message, AuthAck
  <2>4. ack.from \notin counted[s]
    BY <2>1, <2>3
  <2>5. authEpoch[s] \in Nat /\ ack.epoch >= authEpoch[s]
    BY <2>2 DEF TypeOK
  <2>6. /\ authCount'[s] = authCount[s] + 1
        /\ counted'[s] = counted[s] \cup {ack.from}
    BY <2>2, <2>5 DEF ReceiveAck, TypeOK
  <2>7. authCount'[s] = Cardinality(counted'[s])
    <3>1. IsFiniteSet(counted[s])
      BY MastersAssumption, FS_Subset DEF TypeOK
    <3> QED
      BY <2>1, <2>4, <2>6, <3>1, FS_AddElement
  <2>8. \A v \in counted'[s] : /\ AuthAck(v, s, authEpoch[s]) \in acksSent
                               /\ AuthAck(v, s, authEpoch[s]) \notin net'
    BY <1>1, <2>1, <2>2, <2>3, <2>6
  <2> QED
    BY <1>1, <1>3, <1>5, <2>1, <2>7, <2>8 DEF Attempt, AuthAck
<1> QED
  BY <1>4, <1>5

\* Without votes of older attempts under way when an attempt is scheduled,
\* failover_auth_count counts distinct masters that voted for its epoch.
LEMMA AttemptsStep ==
    ASSUME ~LateVotes,
           TypeOK, Routing, BufferedVotes, Attempts, [Next]_vars
    PROVE  Attempts'
<1> SUFFICES ASSUME NEW t \in Slaves PROVE Attempt(t)'
  BY DEF Attempts
<1>a. Attempt(t)
  BY DEF Attempts
<1>1. ASSUME UNCHANGED <<authVars, wireVars, histVars>> PROVE Attempt(t)'
  BY <1>a, <1>1, UnderWayShrinks, AttemptFrame DEF authVars, wireVars, histVars
<1>2. ASSUME NEW n \in Nodes, clusterWriteHandler(n) PROVE Attempt(t)'
  <2>1. /\ net' = net \cup sndbuf[n]
        /\ sndbuf' = [sndbuf EXCEPT ![n] = {}]
        /\ acksSent \subseteq acksSent'
        /\ UNCHANGED <<authVars, counted>>
    BY <1>2 DEF clusterWriteHandler
  <2>2. UnderWay(t)' \subseteq UnderWay(t)
    BY <2>1, UnderWayShrinks DEF TypeOK
  <2>3. \A a \in net' : a \in net \/ a \notin acksSent
    BY <2>1 DEF BufferedVotes, Routing, Ack
  <2> QED
    BY <1>a, <2>1, <2>2, <2>3, AttemptFrame DEF authVars
<1>3. ASSUME NEW n \in Nodes, CrashRestart(n) PROVE Attempt(t)'
  <2>1. CASE t = n
    <3>1. authSent'[t] = FALSE /\ authValid'[t] = FALSE
      BY <1>3, <2>1, Zenon DEF CrashRestart
    <3> QED
      BY <3>1 DEF Attempt
  <2>2. CASE t # n
    <3>1. /\ authEpoch'[t] = authEpoch[t]
          /\ authCount'[t] = authCount[t]
          /\ authSent'[t] = authSent[t]
          /\ authValid'[t] = authValid[t]
          /\ counted'[t] = counted[t]
      BY <1>3, <2>2, Zenon DEF CrashRestart
    <3>2. /\ \A x \in Nodes : sndbuf'[x] \subseteq sndbuf[x]
          /\ net' \subseteq net
          /\ acksSent' = acksSent
      BY <1>3 DEF CrashRestart
    <3> QED
      BY <1>a, <3>1, <3>2, UnderWayShrinks, AttemptFrame
  <2> QED
    BY <2>1, <2>2
<1>4. ASSUME NEW m \in Masters, NEW req \in net,
             clusterSendFailoverAuthIfNeeded(m, req)
      PROVE  Attempt(t)'
  <2> DEFINE ack == AuthAck(m, req.from, MaxOf(currentEpoch[m], req.epoch))
  <2>1. /\ req.type = "AUTH_REQUEST"
        /\ net' = net \ {req}
        /\ UNCHANGED <<authVars, histVars>>
        /\ \/ /\ req.epoch = MaxOf(currentEpoch[m], req.epoch)
              /\ sndbuf' = [sndbuf EXCEPT ![m] = sndbuf[m] \cup {ack}]
           \/ sndbuf' = sndbuf
    BY <1>4, VoteOutcome
  <2>2. CASE sndbuf' = sndbuf
    BY <1>a, <2>1, <2>2, UnderWayShrinks, AttemptFrame DEF authVars, histVars
  <2>3. CASE sndbuf' # sndbuf
    <3>1. /\ sndbuf' = [sndbuf EXCEPT ![m] = sndbuf[m] \cup {ack}]
          /\ ack.type = "AUTH_ACK" /\ ack.to = req.from /\ ack.epoch = req.epoch
      BY <2>1, <2>3 DEF AuthAck
    <3> HIDE DEF ack
    <3>2. UnderWay(t)' \subseteq UnderWay(t) \cup (IF t = req.from THEN {ack} ELSE {})
      BY <2>1, <3>1 DEF UnderWay, TypeOK
    <3>3. CASE t # req.from
      BY <1>a, <2>1, <3>2, <3>3, AttemptFrame DEF authVars, histVars
    <3>4. CASE t = req.from
      <4>1. req \in UnderWay(t)
        BY <2>1, <3>4 DEF UnderWay
      <4>2. CASE ~authSent[t]
        BY <1>a, <2>1, <4>1, <4>2 DEF Attempt, authVars
      <4>3. CASE authSent[t]
        BY <1>a, <2>1, <3>1, <3>2, <4>1, <4>3
           DEF Attempt, authVars, histVars, AuthAck
      <4> QED
        BY <4>2, <4>3
    <3> QED
      BY <3>3, <3>4
  <2> QED
    BY <2>2, <2>3
<1>5. ASSUME NEW s \in Slaves, NEW ack \in net, ReceiveAck(s, ack)
      PROVE  Attempt(t)'
  <2>1. CASE s = t
    BY <1>a, <1>5, <2>1, AttemptReceives
  <2>2. CASE s # t
    <3>1. /\ net' \subseteq net
          /\ UNCHANGED <<sndbuf, authSent, authValid, authEpoch, acksSent>>
          /\ authCount'[t] = authCount[t]
          /\ counted'[t] = counted[t]
      BY <1>5, <2>2 DEF ReceiveAck, TypeOK
    <3> QED
      BY <1>a, <3>1, UnderWayShrinks, AttemptFrame
  <2> QED
    BY <2>1, <2>2
<1>6. ASSUME NEW s \in Slaves, ScheduleElection(s) PROVE Attempt(t)'
  <2>1. UNCHANGED <<net, sndbuf, acksSent, authEpoch>>
    BY <1>6 DEF ScheduleElection, wireVars
  <2>2. CASE s = t
    <3>1. /\ UnderWay(t) = {} /\ UnderWay(t)' = UnderWay(t)
          /\ authCount'[t] = 0
          /\ counted'[t] = {}
      BY <1>6, <2>1, <2>2 DEF ScheduleElection, ResetVotes, TypeOK, UnderWay
    <3>2. authSent'[t] = FALSE
      BY <1>6, <2>2 DEF ScheduleElection, TypeOK
    <3> QED
      BY <3>1, <3>2 DEF Attempt
  <2>3. CASE s # t
    <3>1. /\ authCount'[t] = authCount[t]
          /\ counted'[t] = counted[t]
          /\ authSent'[t] = authSent[t]
          /\ authValid'[t] = authValid[t]
      BY <1>6, <2>3, ZenonT(30) DEF ScheduleElection, ResetVotes, TypeOK
    <3> QED
      BY <1>a, <2>1, <3>1, UnderWayShrinks, AttemptFrame
  <2> QED
    BY <2>2, <2>3
<1>7. ASSUME NEW s \in Slaves, RequestVotes(s) PROVE Attempt(t)'
  <2> DEFINE epoch == currentEpoch[s] + 1
             reqs == {AuthRequest(s, m, epoch) : m \in Masters}
  <2>1. /\ authValid[s] /\ ~authSent[s]
        /\ authEpoch' = [authEpoch EXCEPT ![s] = epoch]
        /\ sndbuf' = [sndbuf EXCEPT ![s] = sndbuf[s] \cup reqs]
        /\ UNCHANGED <<net, authCount, counted, authValid, acksSent>>
    BY <1>7 DEF RequestVotes, histVars
  <2>2. \A q \in reqs : /\ q.type = "AUTH_REQUEST" /\ q.from = s
                        /\ q.epoch = epoch
    BY DEF AuthRequest
  <2>3. epoch \in Nat /\ epoch >= 1
    BY DEF TypeOK, Nodes
  <2> HIDE DEF epoch, reqs
  <2>4. UnderWay(t)' \subseteq UnderWay(t) \cup (IF s = t THEN reqs ELSE {})
    BY <2>1, <2>2 DEF UnderWay, TypeOK
  <2>5. CASE s = t
    <3>1. UnderWay(t) = {} /\ authCount[t] = 0 /\ counted[t] = {}
      BY <1>a, <2>1, <2>5 DEF Attempt
    <3>2. authSent'[t] = TRUE /\ authEpoch'[t] = epoch
      BY <1>7, <2>1, <2>5 DEF RequestVotes, TypeOK
    <3>3. authCount'[t] = Cardinality(counted'[t])
      BY <2>1, <3>1, FS_EmptySet
    <3> QED
      BY <2>1, <2>2, <2>3, <2>4, <2>5, <3>1, <3>2, <3>3 DEF Attempt
  <2>6. CASE s # t
    <3>1. authSent'[t] = authSent[t] /\ authEpoch'[t] = authEpoch[t]
      BY <1>7, <2>1, <2>6, ZenonT(30) DEF RequestVotes, TypeOK
    <3> QED
      BY <1>a, <2>1, <2>4, <2>6, <3>1, AttemptFrame
  <2> QED
    BY <2>5, <2>6
<1>8. ASSUME NEW s \in Slaves, ElectionExpires(s) PROVE Attempt(t)'
  <2>1. /\ UNCHANGED <<authSent, authEpoch, authCount, counted, net, sndbuf,
                       acksSent>>
        /\ authValid' = [authValid EXCEPT ![s] = FALSE]
    BY <1>8 DEF ElectionExpires, wireVars, histVars
  <2>2. authValid'[t] => authValid[t]
    BY <2>1 DEF TypeOK
  <2> QED
    BY <1>a, <2>1, <2>2, UnderWayShrinks, AttemptFrame
<1>9. ASSUME NEW s \in Slaves, freeClusterLink(s) PROVE Attempt(t)'
  <2>1. /\ UNCHANGED <<authVars, histVars>>
        /\ net' \subseteq net
        /\ \A n \in Nodes : sndbuf'[n] \subseteq sndbuf[n]
    BY <1>9 DEF freeClusterLink
  <2> QED
    BY <1>a, <2>1, UnderWayShrinks, AttemptFrame DEF authVars, histVars
<1>10. ASSUME NEW s \in Slaves, WinElection(s) PROVE Attempt(t)'
  BY <1>a, <1>10, UnderWayShrinks, AttemptFrame
     DEF WinElection, wireVars, histVars
<1> QED
  BY <1>1, <1>2, <1>3, <1>4, <1>5, <1>6, <1>7, <1>8, <1>9, <1>10
     DEF Next, ReceivePing, clusterBeforeSleep, NothingToDo, vars

-----------------------------------------------------------------------------
\* Who wins has the votes that its counter counted, and its config epoch
\* becomes the epoch of the election.
LEMMA WinnersStep ==
    ASSUME TypeOK, Attempts, Candidates, WinnerHasMajority, [Next]_vars
    PROVE  Candidates' /\ WinnerHasMajority'
<1>1. ASSUME UNCHANGED <<role, configEpoch>>, acksSent \subseteq acksSent'
      PROVE  Candidates' /\ WinnerHasMajority'
  BY <1>1 DEF Candidates, WinnerHasMajority, AuthAck
<1>2. ASSUME NEW s \in Slaves, WinElection(s)
      PROVE  Candidates' /\ WinnerHasMajority'
  <2>1. /\ role[s] = "slave" /\ authSent[s] /\ authCount[s] >= needed_quorum
        /\ configEpoch' = [configEpoch EXCEPT
                              ![s] = MaxOf(configEpoch[s], authEpoch[s])]
        /\ role' = [role EXCEPT ![s] = "master"]
        /\ acksSent' = acksSent
    BY <1>2 DEF WinElection, clusterSetNodeAsMaster, histVars
  <2>2. MaxOf(configEpoch[s], authEpoch[s]) = authEpoch[s]
    BY <2>1 DEF Candidates, MaxOf, TypeOK, Attempts, Attempt
  <2>3. /\ counted[s] \in SUBSET Masters
        /\ Cardinality(counted[s]) >= needed_quorum
        /\ \A m \in counted[s] : AuthAck(m, s, authEpoch[s]) \in acksSent
    BY <2>1 DEF Attempts, Attempt, TypeOK
  <2>4. configEpoch'[s] = authEpoch[s]
    BY <2>1, <2>2 DEF TypeOK
  <2>5. \A t \in Slaves \ {s} : role'[t] = role[t] /\ configEpoch'[t] = configEpoch[t]
    BY <2>1 DEF TypeOK
  <2>6. role'[s] = "master"
    BY <2>1 DEF TypeOK
  <2>7. Candidates'
    BY <2>5, <2>6 DEF Candidates
  <2>8. ASSUME NEW t \in Slaves, role'[t] = "master"
        PROVE  \E Q \in SUBSET Masters :
                  /\ Cardinality(Q) >= needed_quorum
                  /\ \A m \in Q : AuthAck(m, t, configEpoch'[t]) \in acksSent
    <3>1. CASE t = s
      BY <2>3, <2>4, <3>1
    <3>2. CASE t # s
      BY <2>5, <2>8, <3>2 DEF WinnerHasMajority
    <3> QED
      BY <3>1, <3>2
  <2> QED
    BY <2>1, <2>7, <2>8 DEF WinnerHasMajority, AuthAck
<1>3. \/ acksSent \subseteq acksSent' /\ UNCHANGED <<role, configEpoch>>
      \/ \E s \in Slaves : WinElection(s)
  <2> DEFINE Frame == acksSent \subseteq acksSent' /\ UNCHANGED <<role, configEpoch>>
  <2>1. ASSUME NEW n \in Nodes, ReceivePing(n) \/ clusterBeforeSleep(n)
        PROVE  Frame
    BY <2>1 DEF ReceivePing, clusterBeforeSleep, authVars, histVars
  <2>2. ASSUME NEW n \in Nodes, clusterWriteHandler(n) \/ CrashRestart(n)
        PROVE  Frame
    BY <2>2 DEF clusterWriteHandler, CrashRestart, authVars, histVars
  <2>3. ASSUME NEW m \in Masters, NEW req \in net,
               clusterSendFailoverAuthIfNeeded(m, req)
        PROVE  Frame
    BY <2>3 DEF clusterSendFailoverAuthIfNeeded, authVars, histVars
  <2>4. ASSUME NEW s \in Slaves, NEW ack \in net, ReceiveAck(s, ack)
        PROVE  Frame
    BY <2>4 DEF ReceiveAck
  <2>5. ASSUME NEW s \in Slaves, ScheduleElection(s) \/ RequestVotes(s)
        PROVE  Frame
    BY <2>5 DEF ScheduleElection, RequestVotes, histVars
  <2>6. ASSUME NEW s \in Slaves,
               NothingToDo(s) \/ ElectionExpires(s) \/ freeClusterLink(s)
        PROVE  Frame
    BY <2>6 DEF NothingToDo, ElectionExpires, freeClusterLink, authVars, histVars
  <2>7. CASE UNCHANGED vars
    BY <2>7 DEF vars, authVars, histVars
  <2> QED
    BY <2>1, <2>2, <2>3, <2>4, <2>5, <2>6, <2>7 DEF Next
<1> QED
  BY <1>1, <1>2, <1>3

-----------------------------------------------------------------------------
\* The steps of the induction, put together.
LEMMA IInvStep ==
    ASSUME ~LateVotes, ~WriteBeforeSave
    PROVE  IInv /\ [Next]_vars => IInv'
<1> SUFFICES ASSUME IInv, [Next]_vars PROVE IInv'
  OBVIOUS
<1>1. /\ TypeOK /\ EpochsOrdered /\ Routing /\ VotesInv /\ BufferedVotes
      /\ Attempts /\ Candidates /\ WinnerHasMajority
  BY DEF IInv, VotesInv
<1>2. TypeOK' /\ EpochsOrdered' /\ Routing'
  BY <1>1, TypeStep, EpochsStep, RoutingStep
<1>3. VotesInv'
  BY <1>1, VotesStep
<1>4. Attempts'
  BY <1>1, AttemptsStep
<1>5. Candidates' /\ WinnerHasMajority'
  BY <1>1, WinnersStep
<1> QED
  BY <1>2, <1>3, <1>4, <1>5 DEF IInv, VotesInv

\* The inductive invariant of the election holds in every reachable state.
THEOREM Inductive ==
    ASSUME ~LateVotes, ~WriteBeforeSave
    PROVE  Spec => []IInv
<1>1. IInv /\ [Next]_vars => IInv'
  BY IInvStep
<1> QED
  BY <1>1, InitIInv, PTL DEF Spec

\* Two majorities of the voters share a voter, and it voted once: no two
\* slaves can hold a majority for one epoch.
LEMMA DistinctWinners == IInv => WinnersHaveDistinctEpochs
<1> SUFFICES ASSUME IInv, NEW s \in Slaves, NEW t \in Slaves,
                    role[s] = "master", role[t] = "master",
                    configEpoch[s] = configEpoch[t]
             PROVE  s = t
  BY DEF WinnersHaveDistinctEpochs
<1>1. PICK P \in SUBSET Masters :
         /\ Cardinality(P) >= needed_quorum
         /\ \A m \in P : AuthAck(m, s, configEpoch[s]) \in acksSent
  BY DEF IInv, WinnerHasMajority
<1>2. PICK Q \in SUBSET Masters :
         /\ Cardinality(Q) >= needed_quorum
         /\ \A m \in Q : AuthAck(m, t, configEpoch[s]) \in acksSent
  BY DEF IInv, WinnerHasMajority
<1>3. Cardinality(P) \in Nat /\ Cardinality(Q) \in Nat
  BY MastersAssumption, FS_Subset, FS_CardinalityType
<1>4. Cardinality(P) + Cardinality(Q) > Cardinality(Masters)
  BY <1>1, <1>2, <1>3, QuorumSize
<1>5. PICK m \in P \cap Q : TRUE
  BY <1>4, MastersAssumption, FS_MajoritiesIntersect
<1>6. /\ AuthAck(m, s, configEpoch[s]) \in acksSent
      /\ AuthAck(m, t, configEpoch[s]) \in acksSent
  BY <1>1, <1>2, <1>5
<1> QED
  BY <1>6 DEF IInv, SingleVotes, OneVotePerEpoch, AuthAck

\* For any number of masters, slaves, elections and crashes: two slaves never
\* win with the same config epoch.
THEOREM ElectionSafety ==
    ASSUME ~LateVotes, ~WriteBeforeSave
    PROVE  Spec => []WinnersHaveDistinctEpochs
  BY Inductive, DistinctWinners, PTL

\* Every winner was voted by a majority for its epoch.
THEOREM MajorityBehindWinner ==
    ASSUME ~LateVotes, ~WriteBeforeSave
    PROVE  Spec => []WinnerHasMajority
<1>1. IInv => WinnerHasMajority
  BY DEF IInv
<1> QED
  BY <1>1, Inductive, PTL
=============================================================================
