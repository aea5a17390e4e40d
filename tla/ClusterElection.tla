--------------------------- MODULE ClusterElection ---------------------------
(***************************************************************************)
(* The failover election of Redis Cluster (src/redis5/src/cluster.c).      *)
(*                                                                         *)
(* A slave whose master is failing (or whose administrator asked for a     *)
(* manual failover) increments currentEpoch, asks every master for a vote  *)
(* and, once a majority of the masters serving slots acknowledged, takes   *)
(* its master's place with the election epoch as its configEpoch.          *)
(*                                                                         *)
(* The set of voters, the masters serving at least one slot, is the same   *)
(* in the view of every node: this is the state between two changes of     *)
(* the slots configuration.  ClusterConfig models the changes.             *)
(*                                                                         *)
(* Two behaviours of the environment are switched by constants, because    *)
(* the code relies on their absence:                                       *)
(*   LateVotes        a vote (or the request for it) of one attempt may    *)
(*                    still be under way when the slave schedules its next *)
(*                    attempt, auth_retry_time later or after a restart;   *)
(*   WriteBeforeSave  the write handler of a link may run between the vote *)
(*                    and the beforeSleep() that saves it: the link's      *)
(*                    write event was returned by the same poll as the     *)
(*                    request, or the events are served by                 *)
(*                    processEventsWhileBlocked(), which never saves.      *)
(***************************************************************************)
EXTENDS Integers, FiniteSets

CONSTANTS
    Masters,          \* the masters serving at least one slot
    Slaves,           \* their slaves, the candidates
    LateVotes,        \* see above
    WriteBeforeSave,  \* see above
    MaxEpoch,         \* bound on currentEpoch
    MaxFaults         \* bound on the number of crashes and broken links

ASSUME MastersAssumption == IsFiniteSet(Masters) /\ Masters # {}
ASSUME SlavesAssumption == Masters \cap Slaves = {}
ASSUME SwitchAssumption == LateVotes \in BOOLEAN /\ WriteBeforeSave \in BOOLEAN
ASSUME BoundAssumption == MaxEpoch \in Nat /\ MaxFaults \in Nat

Nodes == Masters \cup Slaves

VARIABLES
    currentEpoch,   \* [Nodes -> Nat] server.cluster->currentEpoch
    lastVoteEpoch,  \* [Nodes -> Nat] server.cluster->lastVoteEpoch
    disk,           \* [Nodes -> ...] the two epochs in the node's nodes.conf
    todo,           \* [Nodes -> ...] server.cluster->todo_before_sleep
    role,           \* [Slaves -> ...] myself->flags of the candidates
    configEpoch,    \* [Slaves -> Nat] myself->configEpoch of the candidates
    authEpoch,      \* [Slaves -> Nat] failover_auth_epoch
    authCount,      \* [Slaves -> Nat] failover_auth_count
    authSent,       \* [Slaves -> BOOLEAN] failover_auth_sent
    authValid,      \* [Slaves -> BOOLEAN] the attempt is scheduled and not older
                    \* than auth_timeout with respect to failover_auth_time
    sndbuf,         \* [Nodes -> set of messages] the send buffers of its links
    net,            \* the messages on the wire
    faults,         \* the number of crashes and broken links so far
    acksSent,       \* history: every vote that was ever put on the wire
    counted         \* history: [Slaves -> the voters in authCount]

nodeVars == <<currentEpoch, lastVoteEpoch, disk, todo>>
authVars == <<role, configEpoch, authEpoch, authCount, authSent, authValid>>
wireVars == <<sndbuf, net>>
histVars == <<acksSent, counted>>
vars == <<nodeVars, authVars, wireVars, faults, histVars>>

Flags == {"HANDLE_FAILOVER", "SAVE_CONFIG"}

Message == [type: {"AUTH_REQUEST", "AUTH_ACK"}, from: Nodes, to: Nodes,
            epoch: Nat]

AuthRequest(s, m, e) ==
    [type |-> "AUTH_REQUEST", from |-> s, to |-> m, epoch |-> e]

AuthAck(m, s, e) == [type |-> "AUTH_ACK", from |-> m, to |-> s, epoch |-> e]

MaxOf(a, b) == IF a >= b THEN a ELSE b

\* What clusterSaveConfig() writes of node n's state, given its new epochs.
Saved(cur, vote) == [currentEpoch |-> cur, lastVoteEpoch |-> vote]

\* Mutant: half of the masters are enough.
needed_quorum_Half == Cardinality(Masters) \div 2

needed_quorum == (Cardinality(Masters) \div 2) + 1

TypeOK ==
    /\ currentEpoch \in [Nodes -> Nat]
    /\ lastVoteEpoch \in [Nodes -> Nat]
    /\ disk \in [Nodes -> [currentEpoch: Nat, lastVoteEpoch: Nat]]
    /\ todo \in [Nodes -> SUBSET Flags]
    /\ role \in [Slaves -> {"slave", "master"}]
    /\ configEpoch \in [Slaves -> Nat]
    /\ authEpoch \in [Slaves -> Nat]
    /\ authCount \in [Slaves -> Nat]
    /\ authSent \in [Slaves -> BOOLEAN]
    /\ authValid \in [Slaves -> BOOLEAN]
    /\ sndbuf \in [Nodes -> SUBSET Message]
    /\ net \in SUBSET Message
    /\ faults \in Nat
    /\ acksSent \in SUBSET Message
    /\ counted \in [Slaves -> SUBSET Masters]

Init ==
    /\ currentEpoch = [n \in Nodes |-> 0]
    /\ lastVoteEpoch = [n \in Nodes |-> 0]
    /\ disk = [n \in Nodes |-> Saved(0, 0)]
    /\ todo = [n \in Nodes |-> {}]
    /\ role = [s \in Slaves |-> "slave"]
    /\ configEpoch = [s \in Slaves |-> 0]
    /\ authEpoch = [s \in Slaves |-> 0]
    /\ authCount = [s \in Slaves |-> 0]
    /\ authSent = [s \in Slaves |-> FALSE]
    /\ authValid = [s \in Slaves |-> FALSE]
    /\ sndbuf = [n \in Nodes |-> {}]
    /\ net = {}
    /\ faults = 0
    /\ acksSent = {}
    /\ counted = [s \in Slaves |-> {}]

-----------------------------------------------------------------------------
(***************************************************************************)
(* Handlers of clusterProcessPacket().  Every header received raises the   *)
(* receiver's currentEpoch to the sender's.                                *)
(***************************************************************************)

\* A PING, PONG or any other header carries the sender's currentEpoch.  The
\* node that created an epoch saved it before any header could show it, so
\* the epochs on the bus are those some node has on disk.
ReceivePing(n) ==
    /\ \E x \in Nodes : \E e \in 1..disk[x].currentEpoch :
          /\ e > currentEpoch[n]
          /\ currentEpoch' = [currentEpoch EXCEPT ![n] = e]
    /\ UNCHANGED <<lastVoteEpoch, disk, todo, authVars, wireVars, faults,
                   histVars>>

(***************************************************************************)
(* clusterSendFailoverAuthIfNeeded().  The voter is willing if what the    *)
(* request's FORCEACK flag and its own tables and clock say when it reads  *)
(* the request allow the vote: the requester is a slave whose master is    *)
(* flagged FAIL (or the flag is set), no slave of that master got a vote   *)
(* less than two node timeouts ago, and no claimed slot has an owner with  *)
(* a greater configEpoch.                                                  *)
(***************************************************************************)
\* Mutant: the voter forgets that it already voted in this epoch.
GrantVote_Again(m, req, epoch, willing) ==
    /\ m \in Masters
    /\ req.epoch >= epoch
    /\ willing

GrantVote(m, req, epoch, willing) ==
    /\ m \in Masters
    /\ req.epoch >= epoch
    /\ lastVoteEpoch[m] # epoch
    /\ willing

clusterSendFailoverAuthIfNeeded(m, req) ==
    LET epoch == MaxOf(currentEpoch[m], req.epoch) IN
    /\ req \in net /\ req.to = m /\ req.type = "AUTH_REQUEST"
    /\ net' = net \ {req}
    /\ currentEpoch' = [currentEpoch EXCEPT ![m] = epoch]
    /\ \E willing \in BOOLEAN :
          IF GrantVote(m, req, epoch, willing)
          THEN /\ lastVoteEpoch' = [lastVoteEpoch EXCEPT ![m] = epoch]
               /\ todo' = [todo EXCEPT ![m] = @ \cup {"SAVE_CONFIG"}]
               /\ sndbuf' = [sndbuf EXCEPT
                                ![m] = @ \cup {AuthAck(m, req.from, epoch)}]
          ELSE UNCHANGED <<lastVoteEpoch, todo, sndbuf>>
    /\ UNCHANGED <<disk, authVars, faults, histVars>>

\* The FAILOVER_AUTH_ACK branch: the vote counts when the voter is a master
\* serving slots and its epoch is not older than the one of the election.
ReceiveAck(s, ack) ==
    /\ ack \in net /\ ack.to = s /\ ack.type = "AUTH_ACK"
    /\ net' = net \ {ack}
    /\ currentEpoch' = [currentEpoch EXCEPT ![s] = MaxOf(@, ack.epoch)]
    /\ IF ack.from \in Masters /\ ack.epoch >= authEpoch[s]
       THEN /\ authCount' = [authCount EXCEPT ![s] = @ + 1]
            /\ counted' = [counted EXCEPT ![s] = @ \cup {ack.from}]
            /\ todo' = [todo EXCEPT ![s] = @ \cup {"HANDLE_FAILOVER"}]
       ELSE UNCHANGED <<authCount, counted, todo>>
    /\ UNCHANGED <<lastVoteEpoch, disk, role, configEpoch, authEpoch, authSent,
                   authValid, sndbuf, faults, acksSent>>

-----------------------------------------------------------------------------
(***************************************************************************)
(* clusterHandleSlaveFailover(), called by clusterCron() and, when the     *)
(* HANDLE_FAILOVER flag is set, by clusterBeforeSleep(); one action per    *)
(* way out of it.  That the master is flagged FAIL (or a manual failover   *)
(* can start), serves slots and did not leave the slave behind for too     *)
(* long depends on tables of other components: each action may find these  *)
(* preconditions true, and NothingToDo may find them false.                *)
(***************************************************************************)

ClearHandleFlag(s) == [todo EXCEPT ![s] = @ \ {"HANDLE_FAILOVER"}]

\* The votes s asked for, and the requests that may still produce one.
UnderWay(s) ==
    {m \in net \cup UNION {sndbuf[n] : n \in Nodes} :
        \/ m.type = "AUTH_REQUEST" /\ m.from = s
        \/ m.type = "AUTH_ACK" /\ m.to = s}

\* Mutant: failover_auth_count survives into the next attempt.
ResetVotes_Keep(s) == authCount

ResetVotes(s) == [authCount EXCEPT ![s] = 0]

\* auth_age > auth_retry_time: set up a new attempt.  The delay before the
\* votes are requested, and what the slave's rank adds to it, only postpone
\* RequestVotes.  A manual failover does not wait and asks to be called
\* again, unless the flag is dropped at the end of the clusterBeforeSleep()
\* that made this call.
ScheduleElection(s) ==
    /\ role[s] = "slave"
    /\ ~authValid[s]
    /\ LateVotes \/ UnderWay(s) = {}
    /\ authValid' = [authValid EXCEPT ![s] = TRUE]
    /\ authCount' = ResetVotes(s)
    /\ authSent' = [authSent EXCEPT ![s] = FALSE]
    /\ counted' = [counted EXCEPT ![s] = {}]
    /\ \/ todo' = [todo EXCEPT ![s] = @ \cup {"HANDLE_FAILOVER"}]
       \/ todo' = ClearHandleFlag(s)
    /\ UNCHANGED <<currentEpoch, lastVoteEpoch, disk, role, configEpoch,
                   authEpoch, wireVars, faults, acksSent>>

\* Ask for votes.  The copies of the request that go to slaves only raise
\* their currentEpoch, as a PING does.
RequestVotes(s) ==
    /\ role[s] = "slave"
    /\ authValid[s]
    /\ ~authSent[s]
    /\ currentEpoch[s] < MaxEpoch
    /\ LET epoch == currentEpoch[s] + 1 IN
       /\ currentEpoch' = [currentEpoch EXCEPT ![s] = epoch]
       /\ authEpoch' = [authEpoch EXCEPT ![s] = epoch]
       /\ sndbuf' = [sndbuf EXCEPT ![s] =
                        @ \cup {AuthRequest(s, m, epoch) : m \in Masters}]
    /\ authSent' = [authSent EXCEPT ![s] = TRUE]
    /\ todo' = [todo EXCEPT ![s] = (@ \ {"HANDLE_FAILOVER"})
                                       \cup {"SAVE_CONFIG"}]
    /\ UNCHANGED <<lastVoteEpoch, disk, role, configEpoch, authCount, authValid,
                   net, faults, histVars>>

\* Mutant: the SLAVE flag is not cleared.
clusterSetNodeAsMaster_Both(s) == [role EXCEPT ![s] = "slave,master"]

clusterSetNodeAsMaster(s) == [role EXCEPT ![s] = "master"]

\* The quorum was reached: clusterFailoverReplaceYourMaster(), which saves
\* the configuration before it returns.
WinElection(s) ==
    /\ role[s] = "slave"
    /\ authValid[s]
    /\ authSent[s]
    /\ authCount[s] >= needed_quorum
    /\ configEpoch' = [configEpoch EXCEPT ![s] = MaxOf(@, authEpoch[s])]
    /\ role' = clusterSetNodeAsMaster(s)
    /\ disk' = [disk EXCEPT ![s] = Saved(currentEpoch[s], lastVoteEpoch[s])]
    /\ todo' = [todo EXCEPT ![s] = @ \ Flags]
    /\ UNCHANGED <<currentEpoch, lastVoteEpoch, authEpoch, authCount, authSent,
                   authValid, wireVars, faults, histVars>>

\* Every early return: a precondition fails, the attempt still waits, is
\* over, or has not enough votes yet.
NothingToDo(s) ==
    /\ "HANDLE_FAILOVER" \in todo[s]
    /\ todo' = ClearHandleFlag(s)
    /\ UNCHANGED <<currentEpoch, lastVoteEpoch, disk, authVars, wireVars,
                   faults, histVars>>

\* auth_age > auth_timeout: the attempt is too old to ask for votes or to
\* win; once auth_retry_time is over too, a new one may be scheduled.
ElectionExpires(s) ==
    /\ authValid[s]
    /\ authValid' = [authValid EXCEPT ![s] = FALSE]
    /\ UNCHANGED <<nodeVars, role, configEpoch, authEpoch, authCount, authSent,
                   wireVars, faults, histVars>>

-----------------------------------------------------------------------------
(* The event loop, the links and the process.                              *)

\* clusterBeforeSleep(): the failover flag first, then the save.
clusterBeforeSleep(n) ==
    /\ "SAVE_CONFIG" \in todo[n]
    /\ "HANDLE_FAILOVER" \notin todo[n]
    /\ disk' = [disk EXCEPT ![n] = Saved(currentEpoch[n], lastVoteEpoch[n])]
    /\ todo' = [todo EXCEPT ![n] = {}]
    /\ UNCHANGED <<currentEpoch, lastVoteEpoch, authVars, wireVars, faults,
                   histVars>>

\* Mutant: a writable link is served whatever is left to save.
MayWrite_Always(n) == TRUE

\* AE_BARRIER and beforeSleep() put the save between queueing and writing.
\* A request is queued by clusterCron(), after the batch's file events, and
\* is always written after the save.
MayWrite(n) ==
    \/ "SAVE_CONFIG" \notin todo[n]
    \/ WriteBeforeSave /\ n \in Masters

\* All the links of n that have data to send; a link that is not writable
\* yet keeps its data in the socket, which net includes.
clusterWriteHandler(n) ==
    /\ sndbuf[n] # {}
    /\ MayWrite(n)
    /\ net' = net \cup sndbuf[n]
    /\ sndbuf' = [sndbuf EXCEPT ![n] = {}]
    /\ acksSent' = acksSent \cup {m \in sndbuf[n] : m.type = "AUTH_ACK"}
    /\ UNCHANGED <<nodeVars, authVars, faults, counted>>

\* The links of candidate s break, and the data buffered or travelling on
\* them is lost.  A message that is lost alone is one never received.
freeClusterLink(s) ==
    /\ UnderWay(s) # {}
    /\ faults < MaxFaults
    /\ faults' = faults + 1
    /\ sndbuf' = [n \in Nodes |-> sndbuf[n] \ UnderWay(s)]
    /\ net' = net \ UnderWay(s)
    /\ UNCHANGED <<nodeVars, authVars, histVars>>

\* The process dies and comes back with what its nodes.conf holds.  What is
\* on the wire towards it dies with its sockets; what it wrote may arrive.
CrashRestart(n) ==
    /\ faults < MaxFaults
    /\ faults' = faults + 1
    /\ currentEpoch' = [currentEpoch EXCEPT ![n] = disk[n].currentEpoch]
    /\ lastVoteEpoch' = [lastVoteEpoch EXCEPT ![n] = disk[n].lastVoteEpoch]
    /\ todo' = [todo EXCEPT ![n] = {}]
    /\ sndbuf' = [x \in Nodes |-> IF x = n THEN {}
                                  ELSE {m \in sndbuf[x] : m.to # n}]
    /\ net' = {m \in net : m.to # n}
    /\ authEpoch' = [s \in Slaves |-> IF s = n THEN 0 ELSE authEpoch[s]]
    /\ authCount' = [s \in Slaves |-> IF s = n THEN 0 ELSE authCount[s]]
    /\ authSent' = [s \in Slaves |-> IF s = n THEN FALSE ELSE authSent[s]]
    /\ authValid' = [s \in Slaves |-> IF s = n THEN FALSE ELSE authValid[s]]
    /\ counted' = [s \in Slaves |-> IF s = n THEN {} ELSE counted[s]]
    /\ UNCHANGED <<disk, role, configEpoch, acksSent>>

Next ==
    \/ \E n \in Nodes :
          \/ ReceivePing(n)
          \/ clusterBeforeSleep(n)
          \/ clusterWriteHandler(n)
          \/ CrashRestart(n)
    \/ \E m \in Masters : \E req \in net :
          clusterSendFailoverAuthIfNeeded(m, req)
    \/ \E s \in Slaves :
          \/ \E ack \in net : ReceiveAck(s, ack)
          \/ ScheduleElection(s)
          \/ RequestVotes(s)
          \/ WinElection(s)
          \/ NothingToDo(s)
          \/ ElectionExpires(s)
          \/ freeClusterLink(s)

Spec == Init /\ [][Next]_vars

-----------------------------------------------------------------------------
\* Two slaves never get the same config epoch out of failover elections
\* (the comment above clusterHandleConfigEpochCollision() relies on it).
WinnersHaveDistinctEpochs ==
    \A s, t \in Slaves :
        /\ role[s] = "master"
        /\ role[t] = "master"
        /\ configEpoch[s] = configEpoch[t]
        => s = t

\* A slave that replaced its master was voted, for exactly the epoch it now
\* uses, by a majority of the masters: no vote of an older attempt and no
\* vote of one master twice went into failover_auth_count.
WinnerHasMajority ==
    \A s \in Slaves : role[s] = "master" =>
        \E Q \in SUBSET Masters :
            /\ Cardinality(Q) >= needed_quorum
            /\ \A m \in Q : AuthAck(m, s, configEpoch[s]) \in acksSent

\* A master never puts votes for two slaves on the wire in one epoch, across
\* crashes: the vote is in nodes.conf before it is written to the link.
OneVotePerEpoch ==
    \A a, b \in acksSent :
        a.from = b.from /\ a.epoch = b.epoch => a.to = b.to

\* A vote that left the node is on its disk.
VoteIsDurable ==
    \A a \in acksSent : disk[a.from].lastVoteEpoch >= a.epoch
=============================================================================
