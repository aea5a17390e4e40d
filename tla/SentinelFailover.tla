--------------------------- MODULE SentinelFailover ---------------------------
(***************************************************************************)
(* Sentinel (src/redis5/src/sentinel.c): the election of the Sentinel that *)
(* fails over a master, the failover it runs, and the propagation of the   *)
(* new configuration to the other Sentinels.                               *)
(*                                                                         *)
(* All the Sentinels monitor one master, and others: current_epoch is      *)
(* shared by every master a Sentinel monitors, so it may advance because   *)
(* of a failover this module does not show (OtherFailover).  The Redis     *)
(* instances are the environment: when they look down, are selectable, or  *)
(* report the role of a master is a free choice, and so is every timeout.  *)
(*                                                                         *)
(* Messages may be late, repeated (requests and hellos are) or lost:       *)
(* requests keeps every request, the answers a Sentinel has when it counts *)
(* are any part of the votes the others gave, and a hello message carries  *)
(* what its sender has or had.                                             *)
(*                                                                         *)
(* Two behaviours of the environment are switched by constants, because    *)
(* the code relies on their absence:                                       *)
(*   Overlap   a Sentinel that waits for votes may learn of a newer epoch; *)
(*   Failback  the first a Sentinel hears of a newer configuration may be  *)
(*             that the instance it has in master->addr is the master      *)
(*             again: it missed the configurations between, or still moves *)
(*             the slaves to the instance it promoted.                     *)
(***************************************************************************)
EXTENDS Integers, FiniteSets

CONSTANTS
    Sentinels,    \* the Sentinels monitoring the master
    Starters,     \* those that may start a failover; the others only vote
    Instances,    \* the addresses of the master and of its slaves
    M0,           \* the master every Sentinel was configured with
    None,         \* no leader, no promoted slave
    quorum,       \* the configured quorum of the master
    Overlap,      \* see above
    Failback,     \* see above
    MaxEpoch,     \* bound on current_epoch
    MaxEvents     \* bound on crashes, commands and failovers of other masters

ASSUME SentinelsAssumption == IsFiniteSet(Sentinels) /\ Sentinels # {}
ASSUME StartersAssumption == Starters \subseteq Sentinels
ASSUME InstancesAssumption == M0 \in Instances
ASSUME NoneAssumption == None \notin Sentinels /\ None \notin Instances
ASSUME SwitchAssumption == Overlap \in BOOLEAN /\ Failback \in BOOLEAN
ASSUME BoundAssumption ==
    /\ quorum \in Nat
    /\ MaxEpoch \in Nat
    /\ MaxEvents \in Nat

VARIABLES
    current_epoch,   \* [Sentinels -> Nat] sentinel.current_epoch
    leader,          \* [Sentinels -> ...] master->leader, the Sentinel's vote
    leader_epoch,    \* [Sentinels -> Nat] master->leader_epoch
    failover_state,  \* [Sentinels -> States] master->failover_state
    failover_epoch,  \* [Sentinels -> Nat] master->failover_epoch
    force,           \* [Sentinels -> BOOLEAN] SRI_FORCE_FAILOVER
    promoted,        \* [Sentinels -> ...] master->promoted_slave
    addr,            \* [Sentinels -> Instances] master->addr
    config_epoch,    \* [Sentinels -> Nat] master->config_epoch
    disk,            \* [Sentinels -> ...] the Sentinel's configuration file
    requests,        \* the votes asked for, to every Sentinel
    events,          \* the number of crashes, commands and other failovers
    votes,           \* every vote ever given
    configs          \* every configuration ever created

ballotVars == <<current_epoch, leader, leader_epoch>>
failoverVars == <<failover_state, failover_epoch, force, promoted>>
configVars == <<addr, config_epoch>>
histVars == <<votes, configs>>
vars == <<ballotVars, failoverVars, configVars, disk, requests, events,
          histVars>>

States == {"NONE", "WAIT_START", "SELECT_SLAVE", "SEND_SLAVEOF_NOONE",
           "WAIT_PROMOTION", "RECONF_SLAVES"}

\* The states in which the Sentinel acts as the leader of its failover.
Acting == {"SELECT_SLAVE", "SEND_SLAVEOF_NOONE", "WAIT_PROMOTION",
           "RECONF_SLAVES"}

MaxOf(a, b) == IF a >= b THEN a ELSE b

Vote == [voter: Sentinels, epoch: Nat, leader: Sentinels]
Config == [epoch: Nat, addr: Instances, by: Sentinels \cup {None},
           forced: BOOLEAN]
Request == [from: Sentinels, epoch: Nat, addr: Instances]

TypeOK ==
    /\ current_epoch \in [Sentinels -> Nat]
    /\ leader \in [Sentinels -> Sentinels \cup {None}]
    /\ leader_epoch \in [Sentinels -> Nat]
    /\ failover_state \in [Sentinels -> States]
    /\ failover_epoch \in [Sentinels -> Nat]
    /\ force \in [Sentinels -> BOOLEAN]
    /\ promoted \in [Sentinels -> Instances \cup {None}]
    /\ addr \in [Sentinels -> Instances]
    /\ config_epoch \in [Sentinels -> Nat]
    /\ disk \in [Sentinels -> [current_epoch: Nat, leader_epoch: Nat,
                               config_epoch: Nat, addr: Instances]]
    /\ requests \in SUBSET Request
    /\ events \in Nat
    /\ votes \in SUBSET Vote
    /\ configs \in SUBSET Config

Init ==
    /\ current_epoch = [s \in Sentinels |-> 0]
    /\ leader = [s \in Sentinels |-> None]
    /\ leader_epoch = [s \in Sentinels |-> 0]
    /\ failover_state = [s \in Sentinels |-> "NONE"]
    /\ failover_epoch = [s \in Sentinels |-> 0]
    /\ force = [s \in Sentinels |-> FALSE]
    /\ promoted = [s \in Sentinels |-> None]
    /\ addr = [s \in Sentinels |-> M0]
    /\ config_epoch = [s \in Sentinels |-> 0]
    /\ disk = [s \in Sentinels |-> [current_epoch |-> 0, leader_epoch |-> 0,
                                    config_epoch |-> 0, addr |-> M0]]
    /\ requests = {}
    /\ events = 0
    /\ votes = {}
    /\ configs = {[epoch |-> 0, addr |-> M0, by |-> None, forced |-> FALSE]}

-----------------------------------------------------------------------------
(* Configuration file and epochs.                                          *)

\* sentinelGetCurrentMasterAddress(): the promoted slave once it took over.
CurrentAddr(s) ==
    IF failover_state[s] = "RECONF_SLAVES" THEN promoted[s] ELSE addr[s]

\* What sentinelFlushConfig() writes; a failed flush is only logged and is
\* not modelled.
Flushed(cur, vote, config, a) ==
    [current_epoch |-> cur, leader_epoch |-> vote, config_epoch |-> config,
     addr |-> a]

\* The assumption Overlap removes: an epoch newer than its own does not
\* reach a Sentinel that is waiting for votes.
MayLearn(s, epoch) ==
    \/ Overlap
    \/ failover_state[s] # "WAIT_START"
    \/ epoch <= current_epoch[s]

-----------------------------------------------------------------------------
(* Votes.                                                                  *)

\* Mutant: a Sentinel votes again in the epoch it already voted in.
Grants_Again(s, cur, epoch) == leader_epoch[s] <= epoch /\ cur <= epoch

\* sentinelVoteLeader() gives its vote: it has none in this epoch or a
\* later one, and does not know of a newer epoch.
Grants(s, cur, epoch) == leader_epoch[s] < epoch /\ cur <= epoch

\* Mutant: the vote is flushed later, with the next change of configuration.
VoteSaved_Later(s, cur, vote) == disk[s]

\* The file after sentinelVoteLeader() changed an epoch.
VoteSaved(s, cur, vote) ==
    Flushed(cur, vote, config_epoch[s], CurrentAddr(s))

\* sentinelVoteLeader() when the current epoch is cur: the vote goes to
\* runid, unless there is one for this epoch or a later one already.
sentinelVoteLeader(s, cur, req_epoch, runid) ==
    IF Grants(s, cur, req_epoch)
    THEN /\ leader' = [leader EXCEPT ![s] = runid]
         /\ leader_epoch' = [leader_epoch EXCEPT ![s] = req_epoch]
         /\ disk' = [disk EXCEPT ![s] = VoteSaved(s, req_epoch, req_epoch)]
         /\ votes' = votes \cup {[voter |-> s, epoch |-> req_epoch,
                                  leader |-> runid]}
    ELSE /\ UNCHANGED <<leader, leader_epoch, votes>>
         /\ disk' = IF req_epoch <= cur THEN disk
                    ELSE [disk EXCEPT
                             ![s] = VoteSaved(s, req_epoch, leader_epoch[s])]

\* SENTINEL IS-MASTER-DOWN-BY-ADDR with a runid: the voter looks the master
\* up by address and votes, or finds its old vote; the answer is the vote.
\* A request of an older epoch changes nothing.
IsMasterDownByAddr(t, req) ==
    /\ req.from # t
    /\ req.addr = addr[t]
    /\ MayLearn(t, req.epoch)
    /\ req.epoch >= current_epoch[t]
    /\ current_epoch' = [current_epoch EXCEPT ![t] = req.epoch]
    /\ sentinelVoteLeader(t, current_epoch[t], req.epoch, req.from)
    /\ UNCHANGED <<failoverVars, configVars, requests, events, configs>>

\* The other Sentinels with a vote to report for the current epoch.
Answers(s, cur) ==
    {t \in Sentinels \ {s} : \E v \in votes : v.voter = t /\ v.epoch = cur}

\* The Sentinels among those heard (their answer arrived, see
\* sentinelReceiveIsMasterDownReply(), and is not too old) that say c leads
\* in the epoch that is current now.
Others(heard, cur, c) ==
    {t \in heard : [voter |-> t, epoch |-> cur, leader |-> c] \in votes}

\* The Sentinels s may vote for: one of the most voted, or itself.
MostVoted(s, heard, cur) ==
    LET count(c) == Cardinality(Others(heard, cur, c))
        voted == {c \in Sentinels : Others(heard, cur, c) # {}} IN
    IF voted = {} THEN {s}
    ELSE {c \in voted : \A d \in voted : count(c) >= count(d)}

\* Mutant: half of the voters are enough.
Majority_Half == Cardinality(Sentinels) \div 2

Majority == (Cardinality(Sentinels) \div 2) + 1

\* sentinelGetLeader() for the failover's epoch, after the vote it makes s
\* give: s itself is the winner when its votes reach the majority and the
\* quorum (no other Sentinel can have as many).
IsLeader(s, heard, cur, epoch) ==
    LET mine == IF leader'[s] = s /\ leader_epoch'[s] = epoch THEN 1 ELSE 0
        max_votes == Cardinality(Others(heard, cur, s)) + mine
    IN max_votes >= Majority /\ max_votes >= quorum

-----------------------------------------------------------------------------
(* The timer: sentinelHandleRedisInstance() on the master.                 *)

\* sentinelAskMasterStateToOtherSentinels(), at the end of every tick.
Ask(s, state, cur) ==
    requests' = IF state = "NONE" THEN requests
                ELSE requests \cup {[from |-> s, epoch |-> cur,
                                     addr |-> addr[s]]}

\* sentinelFailoverWaitStart(): vote, then continue as the leader, or go to
\* one of the states in otherwise.
WaitStart(s, cur, epoch, forced, otherwise) ==
    \E heard \in SUBSET Answers(s, cur) :
       /\ \E winner \in MostVoted(s, heard, cur) :
             sentinelVoteLeader(s, cur, epoch, winner)
       /\ \E state \in IF forced \/ IsLeader(s, heard, cur, epoch)
                       THEN {"SELECT_SLAVE"}
                       ELSE otherwise :
             /\ failover_state' = [failover_state EXCEPT ![s] = state]
             /\ force' = [force EXCEPT ![s] = forced /\ state # "NONE"]
             /\ Ask(s, state, cur)

\* sentinelStartFailoverIfNeeded() finds the master objectively down and no
\* recent attempt: a new epoch, and the state machine runs at once.
sentinelStartFailover(s) ==
    LET epoch == current_epoch[s] + 1 IN
    /\ s \in Starters
    /\ failover_state[s] = "NONE"
    /\ epoch <= MaxEpoch
    /\ current_epoch' = [current_epoch EXCEPT ![s] = epoch]
    /\ failover_epoch' = [failover_epoch EXCEPT ![s] = epoch]
    /\ WaitStart(s, epoch, epoch, FALSE, {"WAIT_START"})
    /\ UNCHANGED <<promoted, configVars, events, configs>>

\* A later tick keeps waiting, or aborts after the election timeout.
sentinelFailoverWaitStart(s) ==
    /\ failover_state[s] = "WAIT_START"
    /\ WaitStart(s, current_epoch[s], failover_epoch[s], force[s],
                 {"WAIT_START", "NONE"})
    /\ UNCHANGED <<current_epoch, failover_epoch, promoted, configVars, events,
                   configs>>

\* Mutant: the slave is forgotten and the state machine goes on.
sentinelAbortFailover_GoesOn(s) ==
    /\ promoted' = [promoted EXCEPT ![s] = None]
    /\ UNCHANGED <<failover_state, force>>
    /\ Ask(s, "NONE", current_epoch[s])

sentinelAbortFailover(s) ==
    /\ failover_state' = [failover_state EXCEPT ![s] = "NONE"]
    /\ force' = [force EXCEPT ![s] = FALSE]
    /\ promoted' = [promoted EXCEPT ![s] = None]
    /\ Ask(s, "NONE", current_epoch[s])

\* The best slave may be any of them; which are good enough depends on their
\* state, priority and offset.
sentinelSelectSlave(s) == Instances \ {addr[s]}

\* A slave is promoted, or none is good enough.
sentinelFailoverSelectSlave(s) ==
    /\ failover_state[s] = "SELECT_SLAVE"
    /\ \/ \E slave \in sentinelSelectSlave(s) :
             /\ promoted' = [promoted EXCEPT ![s] = slave]
             /\ failover_state' = [failover_state EXCEPT
                                      ![s] = "SEND_SLAVEOF_NOONE"]
             /\ UNCHANGED force
             /\ Ask(s, "SEND_SLAVEOF_NOONE", current_epoch[s])
       \/ sentinelAbortFailover(s)
    /\ UNCHANGED <<ballotVars, failover_epoch, configVars, disk, events,
                   histVars>>

\* SLAVEOF NO ONE is sent, or the slave is disconnected for too long.
sentinelFailoverSendSlaveOfNoOne(s) ==
    /\ failover_state[s] = "SEND_SLAVEOF_NOONE"
    /\ \/ /\ failover_state' = [failover_state EXCEPT ![s] = "WAIT_PROMOTION"]
          /\ UNCHANGED <<force, promoted>>
          /\ Ask(s, "WAIT_PROMOTION", current_epoch[s])
       \/ sentinelAbortFailover(s)
    /\ UNCHANGED <<ballotVars, failover_epoch, configVars, disk, events,
                   histVars>>

\* The promotion was not seen in time.
sentinelFailoverWaitPromotion(s) ==
    /\ failover_state[s] = "WAIT_PROMOTION"
    /\ sentinelAbortFailover(s)
    /\ UNCHANGED <<ballotVars, failover_epoch, configVars, disk, events,
                   histVars>>

\* A tick that leaves the state machine where it is.
sentinelAskMasterState(s) ==
    /\ Ask(s, failover_state[s], current_epoch[s])
    /\ UNCHANGED <<ballotVars, failoverVars, configVars, disk, events, histVars>>

\* sentinelResetMasterAndChangeAddress(); the vote's epoch survives.
Reset(s, a) ==
    /\ failover_state' = [failover_state EXCEPT ![s] = "NONE"]
    /\ force' = [force EXCEPT ![s] = FALSE]
    /\ promoted' = [promoted EXCEPT ![s] = None]
    /\ leader' = [leader EXCEPT ![s] = None]
    /\ addr' = [addr EXCEPT ![s] = a]

\* sentinelFailoverReconfNextSlave() and sentinelFailoverDetectEnd(): all the
\* slaves were told, or it takes too long; the same tick switches the master.
sentinelFailoverSwitchToPromotedSlave(s) ==
    /\ failover_state[s] = "RECONF_SLAVES"
    /\ Reset(s, promoted[s])
    /\ disk' = [disk EXCEPT ![s] =
                   Flushed(current_epoch[s], leader_epoch[s], config_epoch[s],
                           promoted[s])]
    /\ Ask(s, "RECONF_SLAVES", current_epoch[s])
    /\ UNCHANGED <<current_epoch, leader_epoch, failover_epoch, config_epoch,
                   events, histVars>>

-----------------------------------------------------------------------------
(* Commands, INFO and hello.                                               *)

\* SENTINEL FAILOVER: no agreement is asked for.
sentinelFailoverCommand(s) ==
    /\ s \in Starters
    /\ events < MaxEvents
    /\ events' = events + 1
    /\ failover_state[s] = "NONE"
    /\ current_epoch[s] < MaxEpoch
    /\ current_epoch' = [current_epoch EXCEPT ![s] = @ + 1]
    /\ failover_epoch' = [failover_epoch EXCEPT ![s] = current_epoch[s] + 1]
    /\ failover_state' = [failover_state EXCEPT ![s] = "WAIT_START"]
    /\ force' = [force EXCEPT ![s] = TRUE]
    /\ UNCHANGED <<leader, leader_epoch, promoted, configVars, disk,
                   requests, histVars>>

\* The failover of another master takes an epoch, and flushes it with its
\* own vote.
OtherFailover(s) ==
    /\ s \in Starters
    /\ events < MaxEvents
    /\ events' = events + 1
    /\ current_epoch[s] < MaxEpoch
    /\ MayLearn(s, current_epoch[s] + 1)
    /\ current_epoch' = [current_epoch EXCEPT ![s] = @ + 1]
    /\ disk' = [disk EXCEPT ![s] =
                   Flushed(current_epoch[s] + 1, leader_epoch[s],
                           config_epoch[s], CurrentAddr(s))]
    /\ UNCHANGED <<leader, leader_epoch, failoverVars, configVars,
                   requests, histVars>>

\* INFO of the promoted slave says it is a master (sentinelRefreshInstanceInfo).
PromotionSeen(s) ==
    LET c == [epoch |-> failover_epoch[s], addr |-> promoted[s], by |-> s,
              forced |-> force[s]] IN
    /\ failover_state[s] = "WAIT_PROMOTION"
    /\ failover_state' = [failover_state EXCEPT ![s] = "RECONF_SLAVES"]
    /\ config_epoch' = [config_epoch EXCEPT ![s] = failover_epoch[s]]
    /\ disk' = [disk EXCEPT ![s] =
                   Flushed(current_epoch[s], leader_epoch[s],
                           failover_epoch[s], promoted[s])]
    /\ configs' = configs \cup {c}
    /\ UNCHANGED <<ballotVars, failover_epoch, force, promoted, addr,
                   requests, events, votes>>

\* sentinelSendHello(): what Sentinel t publishes, and what it published
\* before and arrives late: an epoch it had and a configuration not newer
\* than its own.
HelloFrom(t) ==
    LET hello(e, c, a) ==
            [current_epoch |-> e, config_epoch |-> c, addr |-> a]
        late(c) == {hello(e, c.epoch, c.addr) : e \in c.epoch..current_epoch[t]}
    IN {hello(current_epoch[t], config_epoch[t], CurrentAddr(t))}
       \cup UNION {late(c) : c \in {c \in configs : c.epoch <= config_epoch[t]}}

\* Mutant: any other configuration is taken.
Newer_Other(s, h) == config_epoch[s] # h.config_epoch

\* The configuration in the hello message replaces this Sentinel's.
Newer(s, h) == config_epoch[s] < h.config_epoch

\* The assumption Failback removes: no newer configuration has the address
\* of master->addr.
MayReturn(s, h) == Failback \/ ~(Newer(s, h) /\ h.addr = addr[s])

sentinelProcessHelloMessage(s, h) ==
    LET cur == MaxOf(current_epoch[s], h.current_epoch) IN
    /\ Newer(s, h) \/ cur # current_epoch[s]
    /\ MayLearn(s, h.current_epoch) /\ MayReturn(s, h)
    /\ current_epoch' = [current_epoch EXCEPT ![s] = cur]
    /\ IF Newer(s, h)
       THEN config_epoch' = [config_epoch EXCEPT ![s] = h.config_epoch]
       ELSE UNCHANGED config_epoch
    /\ IF Newer(s, h) /\ h.addr # addr[s]
       THEN /\ Reset(s, h.addr)
            /\ disk' = [disk EXCEPT ![s] = Flushed(cur, leader_epoch[s],
                                                   h.config_epoch, h.addr)]
       ELSE /\ UNCHANGED <<failover_state, force, promoted, leader, addr>>
            /\ disk' = IF cur = current_epoch[s] THEN disk
                       ELSE [disk EXCEPT ![s] =
                                Flushed(cur, leader_epoch[s], config_epoch[s],
                                        CurrentAddr(s))]
    /\ UNCHANGED <<leader_epoch, failover_epoch, requests, events, histVars>>

\* The process dies and restarts from its configuration file.
CrashRestart(s) ==
    /\ events < MaxEvents
    /\ events' = events + 1
    /\ current_epoch' = [current_epoch EXCEPT ![s] = disk[s].current_epoch]
    /\ leader_epoch' = [leader_epoch EXCEPT ![s] = disk[s].leader_epoch]
    /\ config_epoch' = [config_epoch EXCEPT ![s] = disk[s].config_epoch]
    /\ failover_epoch' = [failover_epoch EXCEPT ![s] = 0]
    /\ Reset(s, disk[s].addr)
    /\ UNCHANGED <<disk, requests, histVars>>

Next ==
    \E s \in Sentinels :
       \/ \E req \in requests : IsMasterDownByAddr(s, req)
       \/ sentinelStartFailover(s)
       \/ sentinelFailoverWaitStart(s)
       \/ sentinelFailoverSelectSlave(s)
       \/ sentinelFailoverSendSlaveOfNoOne(s)
       \/ sentinelFailoverWaitPromotion(s)
       \/ sentinelAskMasterState(s)
       \/ sentinelFailoverSwitchToPromotedSlave(s)
       \/ sentinelFailoverCommand(s)
       \/ OtherFailover(s)
       \/ PromotionSeen(s)
       \/ \E t \in Sentinels \ {s} : \E h \in HelloFrom(t) :
             sentinelProcessHelloMessage(s, h)
       \/ CrashRestart(s)

Spec == Init /\ [][Next]_vars

-----------------------------------------------------------------------------
\* "Each Sentinel can vote just one time per epoch", as the description of
\* IS-MASTER-DOWN-BY-ADDR says, across crashes: sentinelVoteLeader() flushes
\* leader_epoch before it answers.
OneVotePerEpoch ==
    \A v, w \in votes : v.voter = w.voter /\ v.epoch = w.epoch => v = w

\* The Sentinels that voted for s in the given epoch.
VotersFor(s, epoch) ==
    {t \in Sentinels :
        [voter |-> t, epoch |-> epoch, leader |-> s] \in votes}

\* A Sentinel that went beyond WAIT_START, not forced by a command, has the
\* votes of a majority in the epoch of its failover (sentinelGetLeader():
\* "the majority of the Sentinels we know ... for the same epoch").
LeaderHasMajority ==
    \A s \in Sentinels :
        failover_state[s] \in Acting /\ ~force[s] =>
            2 * Cardinality(VotersFor(s, failover_epoch[s]))
                > Cardinality(Sentinels)

\* Two Sentinels with the same config epoch advertise the same master: the
\* hello messages could never make them agree again.  Epochs taken by
\* SENTINEL FAILOVER, which asks nobody, are not covered.
SameEpochSameMaster ==
    \A s, t \in Sentinels :
        /\ config_epoch[s] = config_epoch[t]
        /\ \A c \in configs : c.epoch = config_epoch[s] => ~c.forced
        => CurrentAddr(s) = CurrentAddr(t)

\* "Update master info if received configuration is newer": no step leaves a
\* Sentinel with an older configuration than it had, a restart included.
ConfigNeverGoesBack ==
    [][\A s \in Sentinels : config_epoch'[s] >= config_epoch[s]]_vars
=============================================================================
