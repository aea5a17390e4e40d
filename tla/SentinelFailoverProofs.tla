------------------------ MODULE SentinelFailoverProofs ------------------------
(***************************************************************************)
(* Proofs about SentinelFailover, for every set of Sentinels and instances *)
(* and every bound: types, votes and leaders.  SentinelConfigProofs goes   *)
(* on with the configurations.                                             *)
(***************************************************************************)
EXTENDS SentinelFailover, FiniteSetTheorems, TLAPS

-----------------------------------------------------------------------------
(* The inductive invariants.                                               *)

\* A Sentinel that selected a slave has one.
Promoted ==
    \A s \in Sentinels :
        failover_state[s] \in Acting \ {"SELECT_SLAVE"} =>
            promoted[s] \in Instances

\* Types.
TInv == TypeOK /\ Promoted

\* The file has the epoch of the last vote, and no vote is newer.
VotesRemembered ==
    /\ \A s \in Sentinels : disk[s].leader_epoch = leader_epoch[s]
    /\ \A v \in votes : v.epoch <= leader_epoch[v.voter]

\* Votes: what holds whatever the environment does.
VInv == VotesRemembered /\ OneVotePerEpoch

\* What a Sentinel that waits or acts knows about its votes; the first part
\* is what Overlap breaks.
Waiting(s) ==
    /\ failover_state[s] = "WAIT_START" => failover_epoch[s] = current_epoch[s]
    /\ leader[s] # None =>
          [voter |-> s, epoch |-> leader_epoch[s], leader |-> leader[s]] \in votes

\* Leaders: what holds without Overlap.
LInv == (\A s \in Sentinels : Waiting(s)) /\ LeaderHasMajority

-----------------------------------------------------------------------------
(* Types.                                                                  *)

\* An update with a value of the right type keeps a function's type.
LEMMA UpdateType ==
    ASSUME NEW S, NEW T, NEW f \in [S -> T], NEW x \in S, NEW v \in T
    PROVE  [f EXCEPT ![x] = v] \in [S -> T]
  OBVIOUS

\* The larger of two epochs.
LEMMA MaxOfBounds ==
    ASSUME NEW a \in Nat, NEW b \in Nat
    PROVE  MaxOf(a, b) \in Nat /\ MaxOf(a, b) >= a /\ MaxOf(a, b) >= b
  BY DEF MaxOf

\* What sentinelFlushConfig() writes is a configuration file.
LEMMA FlushedType ==
    ASSUME NEW cur \in Nat, NEW vote \in Nat, NEW config \in Nat,
           NEW a \in Instances
    PROVE  Flushed(cur, vote, config, a)
              \in [current_epoch: Nat, leader_epoch: Nat, config_epoch: Nat,
                   addr: Instances]
  BY DEF Flushed

\* The advertised address (sentinelGetCurrentMasterAddress()) is an instance.
LEMMA CurrentAddrType ==
    ASSUME TInv, NEW s \in Sentinels
    PROVE  CurrentAddr(s) \in Instances
  BY DEF TInv, TypeOK, Promoted, CurrentAddr, Acting

\* sentinelVoteLeader() keeps the types of what it changes.
LEMMA VoteType ==
    ASSUME TInv, NEW s \in Sentinels, NEW cur \in Nat, NEW epoch \in Nat,
           NEW runid \in Sentinels,
           sentinelVoteLeader(s, cur, epoch, runid)
    PROVE  /\ (leader \in [Sentinels -> Sentinels \cup {None}])'
           /\ (leader_epoch \in [Sentinels -> Nat])'
           /\ (disk \in [Sentinels -> [current_epoch: Nat, leader_epoch: Nat,
                                       config_epoch: Nat, addr: Instances]])'
           /\ (votes \in SUBSET Vote)'
<1> DEFINE File == [current_epoch: Nat, leader_epoch: Nat, config_epoch: Nat,
                    addr: Instances]
<1>1. /\ leader \in [Sentinels -> Sentinels \cup {None}]
      /\ leader_epoch \in [Sentinels -> Nat]
      /\ disk \in [Sentinels -> File]
      /\ votes \in SUBSET Vote
      /\ leader_epoch[s] \in Nat /\ config_epoch[s] \in Nat
  BY DEF TInv, TypeOK
<1>2. CurrentAddr(s) \in Instances
  BY CurrentAddrType
<1>3. /\ VoteSaved(s, epoch, epoch) \in File
      /\ VoteSaved(s, epoch, leader_epoch[s]) \in File
  BY <1>1, <1>2, FlushedType DEF VoteSaved
<1>4. [voter |-> s, epoch |-> epoch, leader |-> runid] \in Vote
  BY DEF Vote
<1> HIDE DEF File
<1>5. CASE Grants(s, cur, epoch)
  <2>1. /\ leader' = [leader EXCEPT ![s] = runid]
        /\ leader_epoch' = [leader_epoch EXCEPT ![s] = epoch]
        /\ disk' = [disk EXCEPT ![s] = VoteSaved(s, epoch, epoch)]
        /\ votes' = votes \cup {[voter |-> s, epoch |-> epoch,
                                 leader |-> runid]}
    BY <1>5 DEF sentinelVoteLeader
  <2>2. runid \in Sentinels \cup {None}
    OBVIOUS
  <2>3. votes' \in SUBSET Vote
    BY <1>1, <1>4, <2>1
  <2>4. disk' \in [Sentinels -> File]
    BY <1>1, <1>3, <2>1, UpdateType
  <2>5. leader' \in [Sentinels -> Sentinels \cup {None}]
    BY <1>1, <2>1, <2>2, UpdateType
  <2>6. leader_epoch' \in [Sentinels -> Nat]
    BY <1>1, <2>1, UpdateType
  <2> QED
    BY <2>3, <2>4, <2>5, <2>6 DEF File
<1>6. CASE ~Grants(s, cur, epoch)
  <2>1. /\ UNCHANGED <<leader, leader_epoch, votes>>
        /\ \/ disk' = disk
           \/ disk' = [disk EXCEPT ![s] = VoteSaved(s, epoch, leader_epoch[s])]
    BY <1>6 DEF sentinelVoteLeader
  <2>2. disk' \in [Sentinels -> File]
    BY <1>1, <1>3, <2>1, UpdateType
  <2> QED
    BY <1>1, <2>1, <2>2 DEF File
<1> QED
  BY <1>5, <1>6

\* A hello message carries epochs and an address.
LEMMA HelloType ==
    ASSUME TInv, NEW t \in Sentinels, NEW h \in HelloFrom(t)
    PROVE  /\ h.current_epoch \in Nat
           /\ h.config_epoch \in Nat
           /\ h.addr \in Instances
<1>1. /\ current_epoch[t] \in Nat /\ config_epoch[t] \in Nat
      /\ configs \in SUBSET Config
  BY DEF TInv, TypeOK
<1>2. CurrentAddr(t) \in Instances
  BY CurrentAddrType
<1>3. CASE h = [current_epoch |-> current_epoch[t],
               config_epoch |-> config_epoch[t], addr |-> CurrentAddr(t)]
  BY <1>1, <1>2, <1>3
<1>4. CASE \E c \in configs : \E e \in c.epoch..current_epoch[t] :
              h = [current_epoch |-> e, config_epoch |-> c.epoch,
                   addr |-> c.addr]
  <2>1. PICK c \in configs : \E e \in c.epoch..current_epoch[t] :
              h = [current_epoch |-> e, config_epoch |-> c.epoch,
                   addr |-> c.addr]
    BY <1>4
  <2>2. c.epoch \in Nat /\ c.addr \in Instances
    BY <1>1 DEF Config
  <2> QED
    BY <1>1, <2>1, <2>2
<1> QED
  BY <1>3, <1>4 DEF HelloFrom

\* The request a Sentinel sends has the right type.
LEMMA AskType ==
    ASSUME TInv, NEW s \in Sentinels, NEW state, NEW cur \in Nat,
           Ask(s, state, cur)
    PROVE  requests' \in SUBSET Request
<1>1. requests \in SUBSET Request /\ addr[s] \in Instances
  BY DEF TInv, TypeOK
<1>2. [from |-> s, epoch |-> cur, addr |-> addr[s]] \in Request
  BY <1>1 DEF Request
<1> QED
  BY <1>1, <1>2 DEF Ask

\* The Sentinel voted for is a Sentinel.
LEMMA MostVotedType ==
    ASSUME NEW s \in Sentinels, NEW heard, NEW cur
    PROVE  MostVoted(s, heard, cur) \subseteq Sentinels
  BY DEF MostVoted

\* What a tick in WAIT_START changes.
LEMMA WaitStartType ==
    ASSUME TInv, NEW s \in Sentinels, NEW cur \in Nat, NEW epoch \in Nat,
           NEW forced \in BOOLEAN, NEW otherwise \in SUBSET {"WAIT_START", "NONE"},
           WaitStart(s, cur, epoch, forced, otherwise)
    PROVE  /\ (leader \in [Sentinels -> Sentinels \cup {None}])'
           /\ (leader_epoch \in [Sentinels -> Nat])'
           /\ (disk \in [Sentinels -> [current_epoch: Nat, leader_epoch: Nat,
                                       config_epoch: Nat, addr: Instances]])'
           /\ (votes \in SUBSET Vote)'
           /\ requests' \in SUBSET Request
           /\ (force \in [Sentinels -> BOOLEAN])'
           /\ \E state \in {"SELECT_SLAVE", "WAIT_START", "NONE"} :
                 failover_state' = [failover_state EXCEPT ![s] = state]
<1>1. PICK heard \in SUBSET Answers(s, cur) :
         /\ \E winner \in MostVoted(s, heard, cur) :
               sentinelVoteLeader(s, cur, epoch, winner)
         /\ \E state \in IF forced \/ IsLeader(s, heard, cur, epoch)
                         THEN {"SELECT_SLAVE"} ELSE otherwise :
               /\ failover_state' = [failover_state EXCEPT ![s] = state]
               /\ force' = [force EXCEPT ![s] = forced /\ state # "NONE"]
               /\ Ask(s, state, cur)
  BY DEF WaitStart
<1>2. PICK winner \in Sentinels : sentinelVoteLeader(s, cur, epoch, winner)
  BY <1>1, MostVotedType
<1>3. PICK state \in {"SELECT_SLAVE", "WAIT_START", "NONE"} :
         /\ failover_state' = [failover_state EXCEPT ![s] = state]
         /\ force' = [force EXCEPT ![s] = forced /\ state # "NONE"]
         /\ Ask(s, state, cur)
  BY <1>1
<1>4. force \in [Sentinels -> BOOLEAN]
  BY DEF TInv, TypeOK
<1>5. force' \in [Sentinels -> BOOLEAN]
  <2>1. (forced /\ state # "NONE") \in BOOLEAN
    OBVIOUS
  <2> QED
    BY <1>3, <1>4, <2>1, Zenon, UpdateType
<1>6. requests' \in SUBSET Request
  BY <1>3, AskType
<1> QED
  BY <1>2, <1>3, <1>5, <1>6, VoteType

\* Aborting, or going on with the next state, keeps the types of the failover.
LEMMA AbortType ==
    ASSUME TInv, NEW s \in Sentinels, sentinelAbortFailover(s)
    PROVE  /\ (failover_state \in [Sentinels -> States])'
           /\ (force \in [Sentinels -> BOOLEAN])'
           /\ (promoted \in [Sentinels -> Instances \cup {None}])'
           /\ requests' \in SUBSET Request
           /\ Promoted'
<1>1. /\ failover_state \in [Sentinels -> States]
      /\ force \in [Sentinels -> BOOLEAN]
      /\ promoted \in [Sentinels -> Instances \cup {None}]
      /\ current_epoch[s] \in Nat
  BY DEF TInv, TypeOK
<1>2. /\ failover_state' = [failover_state EXCEPT ![s] = "NONE"]
      /\ force' = [force EXCEPT ![s] = FALSE]
      /\ promoted' = [promoted EXCEPT ![s] = None]
      /\ Ask(s, "NONE", current_epoch[s])
  BY DEF sentinelAbortFailover
<1>3. requests' \in SUBSET Request
  BY <1>1, <1>2, AskType
<1>4. Promoted'
  BY <1>1, <1>2 DEF TInv, Promoted, Acting
<1>5. force' \in [Sentinels -> BOOLEAN]
  BY <1>1, <1>2, UpdateType, Zenon
<1> QED
  BY <1>1, <1>2, <1>3, <1>4, <1>5 DEF States

\* So does going back to NONE with another master.
LEMMA ResetType ==
    ASSUME TInv, NEW s \in Sentinels, NEW a \in Instances, Reset(s, a)
    PROVE  /\ (failover_state \in [Sentinels -> States])'
           /\ (force \in [Sentinels -> BOOLEAN])'
           /\ (promoted \in [Sentinels -> Instances \cup {None}])'
           /\ (leader \in [Sentinels -> Sentinels \cup {None}])'
           /\ (addr \in [Sentinels -> Instances])'
           /\ Promoted'
<1>1. /\ failover_state \in [Sentinels -> States]
      /\ force \in [Sentinels -> BOOLEAN]
      /\ promoted \in [Sentinels -> Instances \cup {None}]
      /\ leader \in [Sentinels -> Sentinels \cup {None}]
      /\ addr \in [Sentinels -> Instances]
  BY DEF TInv, TypeOK
<1>2. /\ failover_state' = [failover_state EXCEPT ![s] = "NONE"]
      /\ force' = [force EXCEPT ![s] = FALSE]
      /\ promoted' = [promoted EXCEPT ![s] = None]
      /\ leader' = [leader EXCEPT ![s] = None]
      /\ addr' = [addr EXCEPT ![s] = a]
  BY DEF Reset
<1>4. Promoted'
  BY <1>1, <1>2 DEF TInv, Promoted, Acting
<1>5. force' \in [Sentinels -> BOOLEAN]
  BY <1>1, <1>2, UpdateType, Zenon
<1> QED
  BY <1>1, <1>2, <1>4, <1>5 DEF States

\* Every step keeps the types.
LEMMA TypeStep ==
    ASSUME TInv, [Next]_vars
    PROVE  TInv'
<1> DEFINE File == [current_epoch: Nat, leader_epoch: Nat, config_epoch: Nat,
                    addr: Instances]
<1>0. /\ current_epoch \in [Sentinels -> Nat]
      /\ leader \in [Sentinels -> Sentinels \cup {None}]
      /\ leader_epoch \in [Sentinels -> Nat]
      /\ failover_state \in [Sentinels -> States]
      /\ failover_epoch \in [Sentinels -> Nat]
      /\ force \in [Sentinels -> BOOLEAN]
      /\ promoted \in [Sentinels -> Instances \cup {None}]
      /\ addr \in [Sentinels -> Instances]
      /\ config_epoch \in [Sentinels -> Nat]
      /\ disk \in [Sentinels -> File]
      /\ requests \in SUBSET Request
      /\ events \in Nat
      /\ votes \in SUBSET Vote
      /\ configs \in SUBSET Config
      /\ Promoted
  BY DEF TInv, TypeOK
<1>1. CASE UNCHANGED vars
  BY <1>0, <1>1 DEF TInv, TypeOK, Promoted, vars, ballotVars, failoverVars,
     configVars, histVars
<1>2. ASSUME NEW s \in Sentinels, NEW req \in requests,
             IsMasterDownByAddr(s, req)
      PROVE  TInv'
  <2>1. req.epoch \in Nat /\ req.from \in Sentinels /\ current_epoch[s] \in Nat
    BY <1>0 DEF Request
  <2>2. sentinelVoteLeader(s, current_epoch[s], req.epoch, req.from)
    BY <1>2 DEF IsMasterDownByAddr
  <2>3. current_epoch' \in [Sentinels -> Nat]
    BY <1>0, <1>2, <2>1, UpdateType DEF IsMasterDownByAddr
  <2>4. UNCHANGED <<failoverVars, configVars, requests, events, configs>>
    BY <1>2 DEF IsMasterDownByAddr
  <2> QED
    BY <1>0, <2>1, <2>2, <2>3, <2>4, VoteType
       DEF TInv, TypeOK, Promoted, failoverVars, configVars
<1>3. ASSUME NEW s \in Sentinels, sentinelStartFailover(s)
      PROVE  TInv'
  <2> DEFINE epoch == current_epoch[s] + 1
  <2>1. epoch \in Nat
    BY <1>0
  <2>2. /\ WaitStart(s, epoch, epoch, FALSE, {"WAIT_START"})
        /\ current_epoch' = [current_epoch EXCEPT ![s] = epoch]
        /\ failover_epoch' = [failover_epoch EXCEPT ![s] = epoch]
        /\ UNCHANGED <<promoted, configVars, events, configs>>
    BY <1>3 DEF sentinelStartFailover
  <2> HIDE DEF epoch
  <2>3. /\ current_epoch' \in [Sentinels -> Nat]
        /\ failover_epoch' \in [Sentinels -> Nat]
    BY <1>0, <2>1, <2>2, UpdateType
  <2>4. /\ (leader \in [Sentinels -> Sentinels \cup {None}])'
        /\ (leader_epoch \in [Sentinels -> Nat])'
        /\ (disk \in [Sentinels -> File])'
        /\ (votes \in SUBSET Vote)'
        /\ requests' \in SUBSET Request
        /\ (force \in [Sentinels -> BOOLEAN])'
        /\ \E state \in {"SELECT_SLAVE", "WAIT_START", "NONE"} :
              failover_state' = [failover_state EXCEPT ![s] = state]
    BY <2>1, <2>2, WaitStartType
  <2>5. (failover_state \in [Sentinels -> States])' /\ Promoted'
    BY <1>0, <2>2, <2>4 DEF States, Promoted, Acting
  <2> QED
    BY <1>0, <2>2, <2>3, <2>4, <2>5 DEF TInv, TypeOK, configVars
<1>4. ASSUME NEW s \in Sentinels, sentinelFailoverWaitStart(s)
      PROVE  TInv'
  <2>1. /\ current_epoch[s] \in Nat /\ failover_epoch[s] \in Nat
        /\ force[s] \in BOOLEAN
    BY <1>0
  <2>2. /\ WaitStart(s, current_epoch[s], failover_epoch[s], force[s],
                     {"WAIT_START", "NONE"})
        /\ UNCHANGED <<current_epoch, failover_epoch, promoted, configVars,
                       events, configs>>
    BY <1>4 DEF sentinelFailoverWaitStart
  <2>3. PICK cur \in Nat, epoch \in Nat, forced \in BOOLEAN :
           WaitStart(s, cur, epoch, forced, {"WAIT_START", "NONE"})
    BY <2>1, <2>2
  <2>4. /\ (leader \in [Sentinels -> Sentinels \cup {None}])'
        /\ (leader_epoch \in [Sentinels -> Nat])'
        /\ (disk \in [Sentinels -> File])'
        /\ (votes \in SUBSET Vote)'
        /\ requests' \in SUBSET Request
        /\ (force \in [Sentinels -> BOOLEAN])'
        /\ \E state \in {"SELECT_SLAVE", "WAIT_START", "NONE"} :
              failover_state' = [failover_state EXCEPT ![s] = state]
    BY <2>3, WaitStartType
  <2>5. (failover_state \in [Sentinels -> States])' /\ Promoted'
    BY <1>0, <2>2, <2>4 DEF States, Promoted, Acting
  <2> QED
    BY <1>0, <2>2, <2>4, <2>5 DEF TInv, TypeOK, configVars
<1>5. ASSUME NEW s \in Sentinels,
             \/ sentinelFailoverSelectSlave(s)
             \/ sentinelFailoverSendSlaveOfNoOne(s)
             \/ sentinelFailoverWaitPromotion(s)
      PROVE  TInv'
  <2>1. UNCHANGED <<ballotVars, failover_epoch, configVars, disk, events,
                    histVars>>
    BY <1>5 DEF sentinelFailoverSelectSlave, sentinelFailoverSendSlaveOfNoOne,
       sentinelFailoverWaitPromotion
  <2> DEFINE Ok ==
        /\ (failover_state \in [Sentinels -> States])'
        /\ (force \in [Sentinels -> BOOLEAN])'
        /\ (promoted \in [Sentinels -> Instances \cup {None}])'
        /\ requests' \in SUBSET Request
        /\ Promoted'
  <2>2. ASSUME sentinelAbortFailover(s)
        PROVE  Ok
    BY <2>2, AbortType
  <2>3. ASSUME NEW slave \in sentinelSelectSlave(s),
               promoted' = [promoted EXCEPT ![s] = slave],
               failover_state' = [failover_state EXCEPT
                                     ![s] = "SEND_SLAVEOF_NOONE"],
               UNCHANGED force,
               Ask(s, "SEND_SLAVEOF_NOONE", current_epoch[s])
        PROVE  Ok
    <3>1. slave \in Instances /\ current_epoch[s] \in Nat
      BY <1>0 DEF sentinelSelectSlave
    <3>2. requests' \in SUBSET Request
      BY <2>3, <3>1, AskType
    <3>3. Promoted'
      BY <1>0, <2>3, <3>1 DEF Promoted, Acting
    <3> QED
      BY <1>0, <2>3, <3>1, <3>2, <3>3 DEF States
  <2>4. ASSUME failover_state[s] = "SEND_SLAVEOF_NOONE",
               failover_state' = [failover_state EXCEPT ![s] = "WAIT_PROMOTION"],
               UNCHANGED <<force, promoted>>,
               Ask(s, "WAIT_PROMOTION", current_epoch[s])
        PROVE  Ok
    <3>1. current_epoch[s] \in Nat
      BY <1>0
    <3>2. requests' \in SUBSET Request
      BY <2>4, <3>1, AskType
    <3>3. Promoted'
      BY <1>0, <2>4 DEF Promoted, Acting
    <3> QED
      BY <1>0, <2>4, <3>2, <3>3 DEF States
  <2> HIDE DEF Ok
  <2>5. Ok
    BY <1>5, <2>2, <2>3, <2>4 DEF sentinelFailoverSelectSlave,
       sentinelFailoverSendSlaveOfNoOne, sentinelFailoverWaitPromotion
  <2> QED
    BY <1>0, <2>1, <2>5 DEF Ok, TInv, TypeOK, ballotVars, configVars, histVars
<1>6. ASSUME NEW s \in Sentinels, sentinelAskMasterState(s)
      PROVE  TInv'
  <2>1. requests' \in SUBSET Request
    BY <1>0, <1>6, AskType DEF sentinelAskMasterState
  <2>2. UNCHANGED <<ballotVars, failoverVars, configVars, disk, events, histVars>>
    BY <1>6 DEF sentinelAskMasterState
  <2> QED
    BY <1>0, <2>1, <2>2 DEF TInv, TypeOK, Promoted, ballotVars, failoverVars,
       configVars, histVars
<1>7. ASSUME NEW s \in Sentinels, sentinelFailoverSwitchToPromotedSlave(s)
      PROVE  TInv'
  <2>1. promoted[s] \in Instances /\ current_epoch[s] \in Nat
        /\ leader_epoch[s] \in Nat /\ config_epoch[s] \in Nat
    BY <1>0, <1>7 DEF sentinelFailoverSwitchToPromotedSlave, Promoted, Acting
  <2>2. /\ Reset(s, promoted[s])
        /\ Ask(s, "RECONF_SLAVES", current_epoch[s])
        /\ UNCHANGED <<current_epoch, leader_epoch, failover_epoch,
                       config_epoch, events, histVars>>
        /\ disk' = [disk EXCEPT ![s] =
                       Flushed(current_epoch[s], leader_epoch[s],
                               config_epoch[s], promoted[s])]
    BY <1>7 DEF sentinelFailoverSwitchToPromotedSlave
  <2>3. disk' \in [Sentinels -> File]
    BY <1>0, <2>1, <2>2, FlushedType, UpdateType
  <2>4. requests' \in SUBSET Request
    BY <2>1, <2>2, AskType
  <2> QED
    BY <1>0, <2>1, <2>2, <2>3, <2>4, ResetType DEF TInv, TypeOK, histVars
<1>8. ASSUME NEW s \in Sentinels, sentinelFailoverCommand(s)
      PROVE  TInv'
  <2>1. /\ events' = events + 1
        /\ current_epoch' = [current_epoch EXCEPT ![s] = current_epoch[s] + 1]
        /\ failover_epoch' = [failover_epoch EXCEPT ![s] = current_epoch[s] + 1]
        /\ failover_state' = [failover_state EXCEPT ![s] = "WAIT_START"]
        /\ force' = [force EXCEPT ![s] = TRUE]
        /\ UNCHANGED <<leader, leader_epoch, promoted, configVars, disk,
                       requests, histVars>>
    BY <1>8 DEF sentinelFailoverCommand
  <2>2. current_epoch[s] + 1 \in Nat
    BY <1>0
  <2>3. /\ current_epoch' \in [Sentinels -> Nat]
        /\ failover_epoch' \in [Sentinels -> Nat]
    BY <1>0, <2>1, <2>2, UpdateType
  <2>4. force' \in [Sentinels -> BOOLEAN]
    BY <1>0, <2>1, UpdateType, Zenon
  <2>5. failover_state' \in [Sentinels -> States] /\ Promoted'
    BY <1>0, <2>1 DEF States, Promoted, Acting
  <2>6. events' \in Nat
    BY <1>0, <2>1
  <2> QED
    BY <1>0, <2>1, <2>3, <2>4, <2>5, <2>6 DEF TInv, TypeOK, configVars, histVars
<1>9. ASSUME NEW s \in Sentinels, OtherFailover(s)
      PROVE  TInv'
  <2>1. /\ events' = events + 1
        /\ current_epoch' = [current_epoch EXCEPT ![s] = current_epoch[s] + 1]
        /\ disk' = [disk EXCEPT ![s] =
                       Flushed(current_epoch[s] + 1, leader_epoch[s],
                               config_epoch[s], CurrentAddr(s))]
        /\ UNCHANGED <<leader, leader_epoch, failoverVars, configVars,
                       requests, histVars>>
    BY <1>9 DEF OtherFailover
  <2>2. /\ current_epoch[s] + 1 \in Nat /\ leader_epoch[s] \in Nat
        /\ config_epoch[s] \in Nat /\ events' \in Nat
        /\ CurrentAddr(s) \in Instances
    BY <1>0, <2>1, CurrentAddrType
  <2>3. /\ current_epoch' \in [Sentinels -> Nat]
        /\ disk' \in [Sentinels -> File]
    BY <1>0, <2>1, <2>2, FlushedType, UpdateType
  <2> QED
    BY <1>0, <2>1, <2>2, <2>3 DEF TInv, TypeOK, Promoted, failoverVars,
       configVars, histVars
<1>10. ASSUME NEW s \in Sentinels, PromotionSeen(s)
       PROVE  TInv'
  <2> DEFINE c == [epoch |-> failover_epoch[s], addr |-> promoted[s], by |-> s,
                   forced |-> force[s]]
  <2>1. /\ failover_state[s] = "WAIT_PROMOTION"
        /\ failover_state' = [failover_state EXCEPT ![s] = "RECONF_SLAVES"]
        /\ config_epoch' = [config_epoch EXCEPT ![s] = failover_epoch[s]]
        /\ disk' = [disk EXCEPT ![s] =
                       Flushed(current_epoch[s], leader_epoch[s],
                               failover_epoch[s], promoted[s])]
        /\ configs' = configs \cup {c}
        /\ UNCHANGED <<ballotVars, failover_epoch, force, promoted, addr,
                       requests, events, votes>>
    BY <1>10 DEF PromotionSeen
  <2>2. /\ promoted[s] \in Instances /\ current_epoch[s] \in Nat
        /\ leader_epoch[s] \in Nat /\ failover_epoch[s] \in Nat
        /\ force[s] \in BOOLEAN
    BY <1>0, <2>1 DEF Promoted, Acting
  <2>3. c \in Config
    BY <2>2 DEF Config
  <2>4. /\ disk' \in [Sentinels -> File]
        /\ config_epoch' \in [Sentinels -> Nat]
    BY <1>0, <2>1, <2>2, FlushedType, UpdateType
  <2>5. configs' \in SUBSET Config
    BY <1>0, <2>1, <2>3
  <2>6. failover_state' \in [Sentinels -> States] /\ Promoted'
    BY <1>0, <2>1, <2>2 DEF States, Promoted, Acting
  <2> QED
    BY <1>0, <2>1, <2>4, <2>5, <2>6 DEF TInv, TypeOK, ballotVars
<1>11. ASSUME NEW s \in Sentinels, NEW t \in Sentinels, NEW h \in HelloFrom(t),
              sentinelProcessHelloMessage(s, h)
       PROVE  TInv'
  <2> DEFINE cur == MaxOf(current_epoch[s], h.current_epoch)
  <2>1. /\ h.current_epoch \in Nat /\ h.config_epoch \in Nat
        /\ h.addr \in Instances
    BY HelloType
  <2>2. /\ cur \in Nat /\ leader_epoch[s] \in Nat /\ config_epoch[s] \in Nat
        /\ CurrentAddr(s) \in Instances
    BY <1>0, <2>1, CurrentAddrType DEF MaxOf
  <2>3. /\ current_epoch' = [current_epoch EXCEPT ![s] = cur]
        /\ \/ config_epoch' = [config_epoch EXCEPT ![s] = h.config_epoch]
           \/ config_epoch' = config_epoch
        /\ \/ /\ Reset(s, h.addr)
              /\ disk' = [disk EXCEPT ![s] = Flushed(cur, leader_epoch[s],
                                                     h.config_epoch, h.addr)]
           \/ /\ UNCHANGED <<failover_state, force, promoted, leader, addr>>
              /\ \/ disk' = disk
                 \/ disk' = [disk EXCEPT ![s] =
                                Flushed(cur, leader_epoch[s], config_epoch[s],
                                        CurrentAddr(s))]
        /\ UNCHANGED <<leader_epoch, failover_epoch, requests, events, histVars>>
    BY <1>11 DEF sentinelProcessHelloMessage
  <2> HIDE DEF cur
  <2>4. /\ current_epoch' \in [Sentinels -> Nat]
        /\ config_epoch' \in [Sentinels -> Nat]
    BY <1>0, <2>1, <2>2, <2>3, UpdateType
  <2>5. disk' \in [Sentinels -> File]
    <3>1. /\ Flushed(cur, leader_epoch[s], h.config_epoch, h.addr) \in File
          /\ Flushed(cur, leader_epoch[s], config_epoch[s], CurrentAddr(s))
                \in File
      BY <2>1, <2>2, FlushedType
    <3> HIDE DEF File
    <3> QED
      BY <1>0, <2>3, <3>1, UpdateType
  <2>6. CASE Reset(s, h.addr)
    BY <1>0, <2>1, <2>3, <2>4, <2>5, <2>6, ResetType DEF TInv, TypeOK, histVars
  <2>7. CASE UNCHANGED <<failover_state, force, promoted, leader, addr>>
    BY <1>0, <2>3, <2>4, <2>5, <2>7 DEF TInv, TypeOK, Promoted, histVars
  <2> QED
    BY <2>3, <2>6, <2>7
<1>12. ASSUME NEW s \in Sentinels, CrashRestart(s)
       PROVE  TInv'
  <2>1. /\ events' = events + 1
        /\ current_epoch' = [current_epoch EXCEPT ![s] = disk[s].current_epoch]
        /\ leader_epoch' = [leader_epoch EXCEPT ![s] = disk[s].leader_epoch]
        /\ config_epoch' = [config_epoch EXCEPT ![s] = disk[s].config_epoch]
        /\ failover_epoch' = [failover_epoch EXCEPT ![s] = 0]
        /\ Reset(s, disk[s].addr)
        /\ UNCHANGED <<disk, requests, histVars>>
    BY <1>12 DEF CrashRestart
  <2>2. /\ disk[s].current_epoch \in Nat /\ disk[s].leader_epoch \in Nat
        /\ disk[s].config_epoch \in Nat /\ disk[s].addr \in Instances
        /\ events' \in Nat
    BY <1>0, <2>1
  <2>3. /\ current_epoch' \in [Sentinels -> Nat]
        /\ leader_epoch' \in [Sentinels -> Nat]
        /\ config_epoch' \in [Sentinels -> Nat]
        /\ failover_epoch' \in [Sentinels -> Nat]
    BY <1>0, <2>1, <2>2, UpdateType
  <2> QED
    BY <1>0, <2>1, <2>2, <2>3, ResetType DEF TInv, TypeOK, histVars
<1> QED
  BY <1>1, <1>2, <1>3, <1>4, <1>5, <1>6, <1>7, <1>8, <1>9, <1>10, <1>11, <1>12
     DEF Next

\* The initial state has the right types.
LEMMA TypeInit == Init => TInv
<1> SUFFICES ASSUME Init PROVE TInv
  OBVIOUS
<1>1. /\ current_epoch \in [Sentinels -> Nat]
      /\ leader \in [Sentinels -> Sentinels \cup {None}]
      /\ leader_epoch \in [Sentinels -> Nat]
      /\ failover_epoch \in [Sentinels -> Nat]
      /\ promoted \in [Sentinels -> Instances \cup {None}]
      /\ config_epoch \in [Sentinels -> Nat]
      /\ requests \in SUBSET Request
      /\ events \in Nat
      /\ votes \in SUBSET Vote
  BY DEF Init
<1>2. failover_state \in [Sentinels -> States] /\ Promoted
  BY DEF Init, States, Promoted, Acting
<1>3. force \in [Sentinels -> BOOLEAN]
  BY DEF Init
<1>4. addr \in [Sentinels -> Instances]
  BY InstancesAssumption DEF Init
<1>5. disk \in [Sentinels -> [current_epoch: Nat, leader_epoch: Nat,
                             config_epoch: Nat, addr: Instances]]
  BY InstancesAssumption DEF Init
<1>6. configs \in SUBSET Config
  BY InstancesAssumption DEF Init, Config
<1> QED
  BY <1>1, <1>2, <1>3, <1>4, <1>5, <1>6 DEF TInv, TypeOK

\* Every variable keeps its type, and a Sentinel that selected a slave still
\* has it when it promotes it (promoted_slave is never NULL there), whatever
\* the environment does.
THEOREM TypeCorrect == Spec => []TypeOK
<1>1. TInv /\ [Next]_vars => TInv'
  BY TypeStep
<1>2. TInv => TypeOK
  BY DEF TInv
<1> QED
  BY TypeInit, <1>1, <1>2, PTL DEF Spec

-----------------------------------------------------------------------------
(* Votes.                                                                  *)

\* The voting part of a tick in WAIT_START.
LEMMA WaitStartVote ==
    ASSUME NEW s \in Sentinels, NEW cur, NEW epoch, NEW forced, NEW otherwise,
           WaitStart(s, cur, epoch, forced, otherwise)
    PROVE  \E winner \in Sentinels : sentinelVoteLeader(s, cur, epoch, winner)
  BY MostVotedType DEF WaitStart

\* A step that gives no vote and keeps the epoch of the last one.
LEMMA VotesKept ==
    ASSUME TInv, VInv, UNCHANGED votes,
           \A r \in Sentinels : /\ leader_epoch'[r] = leader_epoch[r]
                                /\ disk'[r].leader_epoch = leader_epoch[r]
    PROVE  VInv'
<1>1. \A v \in votes : v.voter \in Sentinels
  BY DEF TInv, TypeOK, Vote
<1>2. VotesRemembered'
  BY <1>1 DEF VInv, VotesRemembered
<1>3. OneVotePerEpoch'
  BY DEF VInv, OneVotePerEpoch
<1> QED
  BY <1>2, <1>3 DEF VInv

\* A vote is given in an epoch newer than that of every vote of the voter.
LEMMA VoteGiven ==
    ASSUME TInv, VInv, NEW s \in Sentinels, NEW cur \in Nat, NEW epoch \in Nat,
           NEW runid \in Sentinels,
           sentinelVoteLeader(s, cur, epoch, runid)
    PROVE  VInv'
<1> DEFINE v == [voter |-> s, epoch |-> epoch, leader |-> runid]
<1>0. /\ leader_epoch \in [Sentinels -> Nat]
      /\ DOMAIN disk = Sentinels
      /\ votes \in SUBSET Vote
      /\ \A r \in Sentinels : disk[r].leader_epoch = leader_epoch[r]
      /\ \A w \in votes : w.epoch <= leader_epoch[w.voter]
  BY DEF TInv, TypeOK, VInv, VotesRemembered
<1>1. CASE Grants(s, cur, epoch)
  <2>1. /\ leader_epoch' = [leader_epoch EXCEPT ![s] = epoch]
        /\ disk' = [disk EXCEPT ![s] = VoteSaved(s, epoch, epoch)]
        /\ votes' = votes \cup {v}
        /\ leader_epoch[s] < epoch
    BY <1>1 DEF sentinelVoteLeader, Grants
  <2>2. VoteSaved(s, epoch, epoch).leader_epoch = epoch
    BY DEF VoteSaved, Flushed
  <2>3. \A r \in Sentinels : disk'[r].leader_epoch = leader_epoch'[r]
    BY <1>0, <2>1, <2>2
  <2>4. \A w \in votes : /\ w.voter \in Sentinels /\ w.epoch \in Nat
                         /\ w.epoch <= leader_epoch'[w.voter]
                         /\ w.voter = s => w.epoch < epoch
    BY <1>0, <2>1 DEF Vote
  <2>5. v.epoch <= leader_epoch'[v.voter]
    BY <1>0, <2>1
  <2>6. VotesRemembered'
    BY <2>1, <2>3, <2>4, <2>5 DEF VotesRemembered
  <2>7. OneVotePerEpoch'
    <3> SUFFICES ASSUME NEW a \in votes', NEW b \in votes',
                        a.voter = b.voter, a.epoch = b.epoch
                 PROVE  a = b
      BY DEF OneVotePerEpoch
    <3>1. a \in votes /\ b \in votes => a = b
      BY DEF VInv, OneVotePerEpoch
    <3>2. ~(a \in votes /\ b = v) /\ ~(b \in votes /\ a = v)
      BY <2>4
    <3> QED
      BY <2>1, <3>1, <3>2
  <2> QED
    BY <2>6, <2>7 DEF VInv
<1>2. CASE ~Grants(s, cur, epoch)
  <2>1. /\ UNCHANGED <<leader_epoch, votes>>
        /\ \/ disk' = disk
           \/ disk' = [disk EXCEPT ![s] = VoteSaved(s, epoch, leader_epoch[s])]
    BY <1>2 DEF sentinelVoteLeader
  <2>2. VoteSaved(s, epoch, leader_epoch[s]).leader_epoch = leader_epoch[s]
    BY DEF VoteSaved, Flushed
  <2>3. \A r \in Sentinels : disk'[r].leader_epoch = leader_epoch[r]
    BY <1>0, <2>1, <2>2
  <2> QED
    BY <2>1, <2>3, VotesKept
<1> QED
  BY <1>1, <1>2

\* Every step remembers the votes.
LEMMA VoteStep ==
    ASSUME TInv, VInv, [Next]_vars
    PROVE  VInv'
<1>0. /\ current_epoch \in [Sentinels -> Nat]
      /\ failover_epoch \in [Sentinels -> Nat]
      /\ leader_epoch \in [Sentinels -> Nat]
      /\ DOMAIN disk = Sentinels
      /\ requests \in SUBSET Request
      /\ \A r \in Sentinels : disk[r].leader_epoch = leader_epoch[r]
  BY DEF TInv, TypeOK, VInv, VotesRemembered
<1>1. CASE /\ UNCHANGED <<votes, leader_epoch>>
           /\ \/ disk' = disk
              \/ \E s \in Sentinels : \E e, c, a :
                    disk' = [disk EXCEPT ![s] = Flushed(e, leader_epoch[s], c, a)]
  BY <1>0, <1>1, VotesKept DEF Flushed
<1>2. CASE UNCHANGED vars
  BY <1>1, <1>2 DEF vars, ballotVars, histVars
<1>3. ASSUME NEW s \in Sentinels, NEW req \in requests,
             IsMasterDownByAddr(s, req)
      PROVE  VInv'
  BY <1>0, <1>3, VoteGiven DEF IsMasterDownByAddr, Request
<1>4. ASSUME NEW s \in Sentinels, sentinelStartFailover(s)
      PROVE  VInv'
  <2>1. current_epoch[s] + 1 \in Nat
    BY <1>0
  <2> QED
    BY <1>4, <2>1, WaitStartVote, VoteGiven DEF sentinelStartFailover
<1>5. ASSUME NEW s \in Sentinels, sentinelFailoverWaitStart(s)
      PROVE  VInv'
  BY <1>0, <1>5, WaitStartVote, VoteGiven DEF sentinelFailoverWaitStart
<1>6. ASSUME NEW s \in Sentinels,
             \/ sentinelFailoverSelectSlave(s)
             \/ sentinelFailoverSendSlaveOfNoOne(s)
             \/ sentinelFailoverWaitPromotion(s)
             \/ sentinelAskMasterState(s)
      PROVE  VInv'
  BY <1>1, <1>6 DEF sentinelFailoverSelectSlave,
     sentinelFailoverSendSlaveOfNoOne, sentinelFailoverWaitPromotion,
     sentinelAskMasterState, ballotVars, histVars
<1>7. ASSUME NEW s \in Sentinels,
             \/ sentinelFailoverSwitchToPromotedSlave(s)
             \/ sentinelFailoverCommand(s)
             \/ OtherFailover(s)
             \/ PromotionSeen(s)
      PROVE  VInv'
  <2>1. CASE sentinelFailoverSwitchToPromotedSlave(s)
    BY <1>1, <2>1 DEF sentinelFailoverSwitchToPromotedSlave, histVars
  <2>2. CASE sentinelFailoverCommand(s)
    BY <1>1, <2>2 DEF sentinelFailoverCommand, histVars
  <2>3. CASE OtherFailover(s)
    BY <1>1, <2>3 DEF OtherFailover, histVars
  <2>4. CASE PromotionSeen(s)
    BY <1>1, <2>4 DEF PromotionSeen, ballotVars
  <2> QED
    BY <1>7, <2>1, <2>2, <2>3, <2>4
<1>8. ASSUME NEW s \in Sentinels, NEW h, sentinelProcessHelloMessage(s, h)
      PROVE  VInv'
  BY <1>1, <1>8 DEF sentinelProcessHelloMessage, histVars
<1>9. ASSUME NEW s \in Sentinels, CrashRestart(s)
      PROVE  VInv'
  BY <1>0, <1>9, VotesKept DEF CrashRestart, histVars
<1> QED
  BY <1>2, <1>3, <1>4, <1>5, <1>6, <1>7, <1>8, <1>9 DEF Next

\* Nobody has voted at the start.
LEMMA VoteInit == Init => VInv
<1> SUFFICES ASSUME Init PROVE VInv
  OBVIOUS
<1>1. votes = {}
  BY DEF Init
<1>2. \A s \in Sentinels : disk[s].leader_epoch = 0 /\ leader_epoch[s] = 0
  BY DEF Init
<1>3. VotesRemembered
  BY <1>1, <1>2 DEF VotesRemembered
<1>4. OneVotePerEpoch
  BY <1>1 DEF OneVotePerEpoch
<1> QED
  BY <1>3, <1>4 DEF VInv

\* A Sentinel votes at most once per epoch, whatever the environment does:
\* the file remembers leader_epoch across crashes.
THEOREM VotesSafety == Spec => []OneVotePerEpoch
<1>1. TInv /\ VInv /\ [Next]_vars => (TInv /\ VInv)'
  BY TypeStep, VoteStep
<1>2. TInv /\ VInv => OneVotePerEpoch
  BY DEF VInv
<1> QED
  BY TypeInit, VoteInit, <1>1, <1>2, PTL DEF Spec

-----------------------------------------------------------------------------
(* Leaders.                                                                *)

\* Votes are only added, so a majority stays one.
LEMMA VotersGrow ==
    ASSUME votes \subseteq votes', NEW s, NEW e
    PROVE  /\ Cardinality(VotersFor(s, e)) \in Nat
           /\ Cardinality(VotersFor(s, e)') \in Nat
           /\ Cardinality(VotersFor(s, e)) <= Cardinality(VotersFor(s, e)')
<1>1. /\ VotersFor(s, e) \subseteq VotersFor(s, e)'
      /\ VotersFor(s, e)' \subseteq Sentinels
  BY DEF VotersFor
<1>2. IsFiniteSet(Sentinels)
  BY SentinelsAssumption
<1>3. IsFiniteSet(VotersFor(s, e)')
  BY <1>1, <1>2, FS_Subset
<1> QED
  BY <1>1, <1>3, FS_Subset, FS_CardinalityType

\* What a vote does to the memory of the voter and to the history.
LEMMA VoteRecorded ==
    ASSUME TInv, NEW s \in Sentinels, NEW cur, NEW epoch, NEW runid, Waiting(s),
           sentinelVoteLeader(s, cur, epoch, runid)
    PROVE  /\ votes \subseteq votes'
           /\ \A r \in Sentinels \ {s} : /\ leader'[r] = leader[r]
                                         /\ leader_epoch'[r] = leader_epoch[r]
           /\ leader'[s] # None =>
                 [voter |-> s, epoch |-> leader_epoch'[s],
                  leader |-> leader'[s]] \in votes'
<1>1. DOMAIN leader = Sentinels /\ DOMAIN leader_epoch = Sentinels
  BY DEF TInv, TypeOK
<1>2. CASE Grants(s, cur, epoch)
  <2>1. /\ leader' = [leader EXCEPT ![s] = runid]
        /\ leader_epoch' = [leader_epoch EXCEPT ![s] = epoch]
        /\ votes' = votes \cup {[voter |-> s, epoch |-> epoch,
                                 leader |-> runid]}
    BY <1>2 DEF sentinelVoteLeader
  <2>2. leader'[s] = runid /\ leader_epoch'[s] = epoch
    BY <1>1, <2>1
  <2>3. \A r \in Sentinels \ {s} : /\ leader'[r] = leader[r]
                                   /\ leader_epoch'[r] = leader_epoch[r]
    BY <1>1, <2>1
  <2> QED
    BY <2>1, <2>2, <2>3
<1>3. CASE ~Grants(s, cur, epoch)
  <2>1. UNCHANGED <<leader, leader_epoch, votes>>
    BY <1>3 DEF sentinelVoteLeader
  <2> QED
    BY <2>1 DEF Waiting
<1> QED
  BY <1>2, <1>3

\* A Sentinel elected with answers of its failover epoch has the majority.
LEMMA Elected ==
    ASSUME TInv, NEW s \in Sentinels, NEW epoch \in Nat, Waiting(s),
           NEW heard \in SUBSET Answers(s, epoch), NEW winner \in Sentinels,
           sentinelVoteLeader(s, epoch, epoch, winner),
           IsLeader(s, heard, epoch, epoch)
    PROVE  2 * Cardinality(VotersFor(s, epoch)') > Cardinality(Sentinels)
<1> DEFINE O == Others(heard, epoch, s)
           W == VotersFor(s, epoch)'
           N == Cardinality(Sentinels)
           mine == IF leader'[s] = s /\ leader_epoch'[s] = epoch THEN 1 ELSE 0
<1>1. IsFiniteSet(Sentinels) /\ N \in Nat
  BY SentinelsAssumption, FS_CardinalityType
<1>2. W \subseteq Sentinels
  BY DEF VotersFor
<1>3. O \subseteq W /\ s \notin O
  BY VoteRecorded DEF Others, Answers, VotersFor
<1>4. IsFiniteSet(W) /\ IsFiniteSet(O)
  BY <1>1, <1>2, <1>3, FS_Subset
<1>5. Cardinality(W) \in Nat /\ Cardinality(O) \in Nat
  BY <1>4, FS_CardinalityType
<1>6. Cardinality(O) + mine <= Cardinality(W)
  <2>1. CASE mine = 1
    <3>1. leader'[s] = s /\ leader_epoch'[s] = epoch
      BY <2>1
    <3>2. s # None
      BY NoneAssumption
    <3>3. s \in W
      BY <3>1, <3>2, VoteRecorded DEF VotersFor
    <3>4. Cardinality(O \cup {s}) = Cardinality(O) + 1
      BY <1>3, <1>4, FS_AddElement
    <3>5. O \cup {s} \subseteq W
      BY <1>3, <3>3
    <3>6. Cardinality(O \cup {s}) <= Cardinality(W)
      BY <1>4, <3>5, FS_Subset
    <3> QED
      BY <2>1, <3>4, <3>6
  <2>2. CASE mine = 0
    <3>1. Cardinality(O) <= Cardinality(W)
      BY <1>3, <1>4, FS_Subset
    <3> HIDE DEF O, W, mine
    <3> QED
      BY <1>5, <2>2, <3>1
  <2> QED
    BY <2>1, <2>2
<1>7. Cardinality(O) + mine >= (N \div 2) + 1
  BY DEF IsLeader, Majority
<1>8. mine \in Nat
  OBVIOUS
<1> HIDE DEF O, W, N, mine
<1>9. 2 * Cardinality(W) > N
  BY <1>1, <1>5, <1>6, <1>7, <1>8
<1> QED
  BY <1>9 DEF W, N

\* A tick in WAIT_START that counts the votes of the failover epoch.
LEMMA WaitStartLeader ==
    ASSUME TInv, NEW s \in Sentinels, NEW epoch \in Nat,
           NEW forced \in BOOLEAN, NEW otherwise \in SUBSET {"WAIT_START", "NONE"},
           Waiting(s),
           WaitStart(s, epoch, epoch, forced, otherwise)
    PROVE  /\ votes \subseteq votes'
           /\ \A r \in Sentinels \ {s} :
                 /\ leader'[r] = leader[r]
                 /\ leader_epoch'[r] = leader_epoch[r]
                 /\ failover_state'[r] = failover_state[r]
                 /\ force'[r] = force[r]
           /\ leader'[s] # None =>
                 [voter |-> s, epoch |-> leader_epoch'[s],
                  leader |-> leader'[s]] \in votes'
           /\ failover_state'[s] \in Acting /\ ~force'[s] =>
                 2 * Cardinality(VotersFor(s, epoch)') > Cardinality(Sentinels)
<1>1. PICK heard \in SUBSET Answers(s, epoch) :
         /\ \E winner \in MostVoted(s, heard, epoch) :
               sentinelVoteLeader(s, epoch, epoch, winner)
         /\ \E state \in IF forced \/ IsLeader(s, heard, epoch, epoch)
                         THEN {"SELECT_SLAVE"} ELSE otherwise :
               /\ failover_state' = [failover_state EXCEPT ![s] = state]
               /\ force' = [force EXCEPT ![s] = forced /\ state # "NONE"]
               /\ Ask(s, state, epoch)
  BY DEF WaitStart
<1>2. PICK winner \in Sentinels : sentinelVoteLeader(s, epoch, epoch, winner)
  BY <1>1, MostVotedType
<1>3. PICK state \in IF forced \/ IsLeader(s, heard, epoch, epoch)
                     THEN {"SELECT_SLAVE"} ELSE otherwise :
         /\ failover_state' = [failover_state EXCEPT ![s] = state]
         /\ force' = [force EXCEPT ![s] = forced /\ state # "NONE"]
  BY <1>1
<1>4. DOMAIN failover_state = Sentinels /\ DOMAIN force = Sentinels
  BY DEF TInv, TypeOK
<1>5. \A r \in Sentinels \ {s} : /\ failover_state'[r] = failover_state[r]
                                 /\ force'[r] = force[r]
  BY <1>3
<1>6. ASSUME failover_state'[s] \in Acting, ~force'[s]
      PROVE  2 * Cardinality(VotersFor(s, epoch)') > Cardinality(Sentinels)
  <2>1. failover_state'[s] = state /\ force'[s] = (forced /\ state # "NONE")
    BY <1>3, <1>4, Zenon
  <2>2. state \notin otherwise /\ state # "NONE"
    BY <1>6, <2>1 DEF Acting
  <2>3. IsLeader(s, heard, epoch, epoch)
    BY <1>3, <1>6, <2>1, <2>2
  <2> QED
    BY <1>2, <2>3, Elected
<1> QED
  BY <1>2, <1>5, <1>6, VoteRecorded

\* What a step must do to every Sentinel for the leaders to be right.
LeaderOk(r) ==
    /\ failover_state'[r] = "WAIT_START" => failover_epoch'[r] = current_epoch'[r]
    /\ leader'[r] # None =>
          \/ leader'[r] = leader[r] /\ leader_epoch'[r] = leader_epoch[r]
          \/ [voter |-> r, epoch |-> leader_epoch'[r],
              leader |-> leader'[r]] \in votes'
    /\ failover_state'[r] \in Acting /\ ~force'[r] =>
          \/ /\ failover_state[r] \in Acting /\ ~force[r]
             /\ failover_epoch'[r] = failover_epoch[r]
          \/ 2 * Cardinality(VotersFor(r, failover_epoch[r])')
                > Cardinality(Sentinels)

\* A step that is right for every Sentinel keeps the leaders right.
LEMMA LeadersKept ==
    ASSUME TInv, LInv, votes \subseteq votes', \A r \in Sentinels : LeaderOk(r)
    PROVE  LInv'
<1>1. ASSUME NEW r \in Sentinels PROVE Waiting(r)'
  <2>1. LeaderOk(r) /\ Waiting(r)
    BY DEF LInv
  <2> QED
    BY <2>1 DEF LeaderOk, Waiting
<1>2. ASSUME NEW r \in Sentinels, failover_state'[r] \in Acting, ~force'[r]
      PROVE  2 * Cardinality(VotersFor(r, failover_epoch[r]))'
                > Cardinality(Sentinels)
  <2>1. CASE 2 * Cardinality(VotersFor(r, failover_epoch[r])')
                > Cardinality(Sentinels)
    BY <2>1
  <2>2. CASE /\ failover_state[r] \in Acting /\ ~force[r]
             /\ failover_epoch'[r] = failover_epoch[r]
    <3> DEFINE e == failover_epoch[r]
    <3>1. 2 * Cardinality(VotersFor(r, e)) > Cardinality(Sentinels)
      BY <2>2 DEF LInv, LeaderHasMajority
    <3>2. PICK f : f = failover_epoch[r]
      OBVIOUS
    <3>3. /\ Cardinality(VotersFor(r, f)) \in Nat
          /\ Cardinality(VotersFor(r, f)') \in Nat
          /\ Cardinality(VotersFor(r, f)) <= Cardinality(VotersFor(r, f)')
      BY VotersGrow
    <3>4. Cardinality(Sentinels) \in Nat
      BY SentinelsAssumption, FS_CardinalityType
    <3>5. 2 * Cardinality(VotersFor(r, f)') > Cardinality(Sentinels)
      BY <3>1, <3>2, <3>3, <3>4
    <3>6. VotersFor(r, failover_epoch[r])' = VotersFor(r, f)'
      BY <2>2, <3>2 DEF VotersFor
    <3> QED
      BY <3>5, <3>6
  <2>3. LeaderOk(r)
    OBVIOUS
  <2> QED
    BY <1>2, <2>1, <2>2, <2>3 DEF LeaderOk
<1>3. LeaderHasMajority'
  BY <1>2 DEF LeaderHasMajority
<1> QED
  BY <1>1, <1>3 DEF LInv

\* Every step keeps the leaders right, when no epoch is learnt while waiting.
LEMMA LeaderStep ==
    ASSUME TInv, LInv, ~Overlap, [Next]_vars
    PROVE  LInv'
<1>0. /\ current_epoch \in [Sentinels -> Nat]
      /\ leader \in [Sentinels -> Sentinels \cup {None}]
      /\ leader_epoch \in [Sentinels -> Nat]
      /\ failover_state \in [Sentinels -> States]
      /\ failover_epoch \in [Sentinels -> Nat]
      /\ force \in [Sentinels -> BOOLEAN]
      /\ requests \in SUBSET Request
      /\ \A r \in Sentinels : Waiting(r)
  BY DEF TInv, TypeOK, LInv
<1>1. CASE UNCHANGED vars
  <2>1. \A r \in Sentinels : LeaderOk(r)
    BY <1>0, <1>1 DEF LeaderOk, Waiting, vars, ballotVars, failoverVars
  <2> QED
    BY <1>1, <2>1, LeadersKept DEF vars, histVars
<1>2. ASSUME NEW s \in Sentinels, NEW req \in requests,
             IsMasterDownByAddr(s, req)
      PROVE  LInv'
  <2>1. /\ current_epoch' = [current_epoch EXCEPT ![s] = req.epoch]
        /\ req.epoch \in Nat
        /\ req.epoch >= current_epoch[s]
        /\ failover_state[s] = "WAIT_START" => req.epoch <= current_epoch[s]
        /\ UNCHANGED <<failover_state, failover_epoch, force>>
    BY <1>0, <1>2 DEF IsMasterDownByAddr, MayLearn, Request, failoverVars
  <2>2. sentinelVoteLeader(s, current_epoch[s], req.epoch, req.from)
    BY <1>2 DEF IsMasterDownByAddr
  <2>3. /\ votes \subseteq votes'
        /\ \A r \in Sentinels \ {s} : /\ leader'[r] = leader[r]
                                      /\ leader_epoch'[r] = leader_epoch[r]
        /\ leader'[s] # None =>
              [voter |-> s, epoch |-> leader_epoch'[s],
               leader |-> leader'[s]] \in votes'
    BY <1>0, <2>2, VoteRecorded
  <2>4. \A r \in Sentinels \ {s} : LeaderOk(r)
    BY <1>0, <2>1, <2>3 DEF LeaderOk, Waiting
  <2>5. LeaderOk(s)
    <3>1. current_epoch[s] \in Nat /\ current_epoch'[s] = req.epoch
      BY <1>0, <2>1
    <3>2. failover_state'[s] = "WAIT_START" =>
              failover_epoch'[s] = current_epoch'[s]
      <4>1. failover_state[s] = "WAIT_START" =>
                failover_epoch[s] = current_epoch[s]
        BY <1>0 DEF Waiting
      <4>2. failover_state[s] = "WAIT_START" => req.epoch = current_epoch[s]
        BY <2>1, <3>1
      <4> QED
        BY <2>1, <3>1, <4>1, <4>2
    <3> QED
      BY <2>1, <2>3, <3>2 DEF LeaderOk
  <2> QED
    BY <2>3, <2>4, <2>5, LeadersKept
<1>3. ASSUME NEW s \in Sentinels, sentinelStartFailover(s)
      PROVE  LInv'
  <2>1. PICK epoch \in Nat : epoch = current_epoch[s] + 1
    BY <1>0
  <2>2. /\ WaitStart(s, epoch, epoch, FALSE, {"WAIT_START"})
        /\ current_epoch' = [current_epoch EXCEPT ![s] = epoch]
        /\ failover_epoch' = [failover_epoch EXCEPT ![s] = epoch]
    BY <1>3, <2>1 DEF sentinelStartFailover
  <2>3. /\ votes \subseteq votes'
        /\ \A r \in Sentinels \ {s} :
              /\ leader'[r] = leader[r]
              /\ leader_epoch'[r] = leader_epoch[r]
              /\ failover_state'[r] = failover_state[r]
              /\ force'[r] = force[r]
        /\ leader'[s] # None =>
              [voter |-> s, epoch |-> leader_epoch'[s],
               leader |-> leader'[s]] \in votes'
        /\ failover_state'[s] \in Acting /\ ~force'[s] =>
              2 * Cardinality(VotersFor(s, epoch)') > Cardinality(Sentinels)
    BY <1>0, <2>2, WaitStartLeader
  <2>4. failover_epoch'[s] = epoch /\ current_epoch'[s] = epoch
    BY <1>0, <2>2
  <2>5. VotersFor(s, failover_epoch[s])' = VotersFor(s, epoch)'
    BY <2>4 DEF VotersFor
  <2>6. LeaderOk(s)
    BY <2>3, <2>4, <2>5 DEF LeaderOk
  <2>7. \A r \in Sentinels \ {s} : LeaderOk(r)
    BY <1>0, <2>2, <2>3 DEF LeaderOk, Waiting
  <2> QED
    BY <2>3, <2>6, <2>7, LeadersKept
<1>4. ASSUME NEW s \in Sentinels, sentinelFailoverWaitStart(s)
      PROVE  LInv'
  <2>1. PICK epoch \in Nat : epoch = failover_epoch[s]
    BY <1>0
  <2>2. PICK forced \in BOOLEAN : forced = force[s]
    BY <1>0
  <2>3. current_epoch[s] = epoch
    BY <1>0, <1>4, <2>1 DEF Waiting, sentinelFailoverWaitStart
  <2>4. /\ WaitStart(s, epoch, epoch, forced, {"WAIT_START", "NONE"})
        /\ UNCHANGED <<current_epoch, failover_epoch>>
    BY <1>4, <2>1, <2>2, <2>3 DEF sentinelFailoverWaitStart
  <2>5. /\ votes \subseteq votes'
        /\ \A r \in Sentinels \ {s} :
              /\ leader'[r] = leader[r]
              /\ leader_epoch'[r] = leader_epoch[r]
              /\ failover_state'[r] = failover_state[r]
              /\ force'[r] = force[r]
        /\ leader'[s] # None =>
              [voter |-> s, epoch |-> leader_epoch'[s],
               leader |-> leader'[s]] \in votes'
        /\ failover_state'[s] \in Acting /\ ~force'[s] =>
              2 * Cardinality(VotersFor(s, epoch)') > Cardinality(Sentinels)
    BY <1>0, <2>4, WaitStartLeader
  <2>6. VotersFor(s, failover_epoch[s])' = VotersFor(s, epoch)'
    BY <2>1, <2>4 DEF VotersFor
  <2>7. LeaderOk(s)
    BY <2>1, <2>3, <2>4, <2>5, <2>6 DEF LeaderOk
  <2>8. \A r \in Sentinels \ {s} : LeaderOk(r)
    BY <1>0, <2>4, <2>5 DEF LeaderOk, Waiting
  <2> QED
    BY <2>5, <2>7, <2>8, LeadersKept
<1>5. ASSUME NEW s \in Sentinels,
             \/ sentinelFailoverSelectSlave(s)
             \/ sentinelFailoverSendSlaveOfNoOne(s)
             \/ sentinelFailoverWaitPromotion(s)
             \/ PromotionSeen(s)
      PROVE  LInv'
  <2>1. /\ failover_state[s] \in Acting
        /\ \/ /\ \E next \in Acting :
                    failover_state' = [failover_state EXCEPT ![s] = next]
              /\ force' = force
           \/ failover_state' = [failover_state EXCEPT ![s] = "NONE"]
              /\ force' = [force EXCEPT ![s] = FALSE]
        /\ UNCHANGED <<current_epoch, leader, leader_epoch, failover_epoch,
                       votes>>
    BY <1>5 DEF sentinelFailoverSelectSlave, sentinelFailoverSendSlaveOfNoOne,
       sentinelFailoverWaitPromotion, PromotionSeen, sentinelAbortFailover,
       Acting, ballotVars, histVars
  <2>2. \A r \in Sentinels \ {s} : LeaderOk(r)
    BY <1>0, <2>1 DEF LeaderOk, Waiting
  <2>3. LeaderOk(s)
    BY <1>0, <2>1 DEF LeaderOk, Waiting, Acting
  <2> QED
    BY <2>1, <2>2, <2>3, LeadersKept
<1>6. ASSUME NEW s \in Sentinels, sentinelAskMasterState(s)
      PROVE  LInv'
  <2>1. UNCHANGED <<current_epoch, leader, leader_epoch, failover_state,
                    failover_epoch, force, votes>>
    BY <1>6 DEF sentinelAskMasterState, ballotVars, failoverVars, histVars
  <2>2. \A r \in Sentinels : LeaderOk(r)
    BY <1>0, <2>1 DEF LeaderOk, Waiting
  <2> QED
    BY <2>1, <2>2, LeadersKept
<1>7. ASSUME NEW s \in Sentinels, NEW a, Reset(s, a), UNCHANGED votes,
             \A r \in Sentinels \ {s} :
                 UNCHANGED <<current_epoch[r], leader_epoch[r],
                             failover_epoch[r]>>
      PROVE  LInv'
  <2>1. /\ failover_state' = [failover_state EXCEPT ![s] = "NONE"]
        /\ force' = [force EXCEPT ![s] = FALSE]
        /\ leader' = [leader EXCEPT ![s] = None]
    BY <1>7 DEF Reset
  <2>2. \A r \in Sentinels \ {s} : LeaderOk(r)
    BY <1>0, <1>7, <2>1 DEF LeaderOk, Waiting
  <2>3. LeaderOk(s)
    BY <1>0, <2>1 DEF LeaderOk, Acting
  <2> QED
    BY <1>7, <2>2, <2>3, LeadersKept
<1>8. ASSUME NEW s \in Sentinels, sentinelFailoverSwitchToPromotedSlave(s)
      PROVE  LInv'
  BY <1>7, <1>8 DEF sentinelFailoverSwitchToPromotedSlave, histVars
<1>9. ASSUME NEW s \in Sentinels, CrashRestart(s)
      PROVE  LInv'
  BY <1>0, <1>7, <1>9 DEF CrashRestart, histVars
<1>10. ASSUME NEW s \in Sentinels, sentinelFailoverCommand(s)
       PROVE  LInv'
  <2>1. /\ current_epoch' = [current_epoch EXCEPT ![s] = current_epoch[s] + 1]
        /\ failover_epoch' = [failover_epoch EXCEPT ![s] = current_epoch[s] + 1]
        /\ failover_state' = [failover_state EXCEPT ![s] = "WAIT_START"]
        /\ force' = [force EXCEPT ![s] = TRUE]
        /\ UNCHANGED <<leader, leader_epoch, votes>>
    BY <1>10 DEF sentinelFailoverCommand, histVars
  <2>2. \A r \in Sentinels \ {s} : LeaderOk(r)
    BY <1>0, <2>1 DEF LeaderOk, Waiting
  <2>3. LeaderOk(s)
    BY <1>0, <2>1 DEF LeaderOk, Acting
  <2> QED
    BY <2>1, <2>2, <2>3, LeadersKept
<1>11. ASSUME NEW s \in Sentinels, NEW cur \in Nat,
              current_epoch' = [current_epoch EXCEPT ![s] = cur],
              failover_state[s] = "WAIT_START" => cur = current_epoch[s],
              UNCHANGED <<leader, leader_epoch, failover_state, failover_epoch,
                          force, votes>>
       PROVE  LInv'
  <2>1. \A r \in Sentinels : LeaderOk(r)
    BY <1>0, <1>11 DEF LeaderOk, Waiting
  <2> QED
    BY <1>11, <2>1, LeadersKept
<1>12. ASSUME NEW s \in Sentinels, OtherFailover(s)
       PROVE  LInv'
  <2>1. /\ current_epoch' = [current_epoch EXCEPT ![s] = current_epoch[s] + 1]
        /\ current_epoch[s] + 1 \in Nat
        /\ failover_state[s] # "WAIT_START"
        /\ UNCHANGED <<leader, leader_epoch, failover_state, failover_epoch,
                       force, votes>>
    <3>1. current_epoch[s] \in Nat
      BY <1>0
    <3>2. /\ current_epoch' = [current_epoch EXCEPT ![s] = current_epoch[s] + 1]
          /\ UNCHANGED <<leader, leader_epoch, failover_state, failover_epoch,
                         force, votes>>
      BY <1>12 DEF OtherFailover, failoverVars, histVars
    <3>3. \/ failover_state[s] # "WAIT_START"
          \/ current_epoch[s] + 1 <= current_epoch[s]
      BY <1>12 DEF OtherFailover, MayLearn
    <3>4. current_epoch[s] + 1 \in Nat /\ ~(current_epoch[s] + 1 <= current_epoch[s])
      BY <3>1
    <3>5. failover_state[s] # "WAIT_START"
      BY <3>3, <3>4, Zenon
    <3> QED
      BY <3>2, <3>4, <3>5, Zenon
  <2> QED
    BY <1>11, <2>1
<1>13. ASSUME NEW s \in Sentinels, NEW t \in Sentinels, NEW h \in HelloFrom(t),
              sentinelProcessHelloMessage(s, h)
       PROVE  LInv'
  <2>1. h.current_epoch \in Nat
    BY HelloType
  <2>2. PICK cur \in Nat : cur = MaxOf(current_epoch[s], h.current_epoch)
    BY <1>0, <2>1 DEF MaxOf
  <2>3. failover_state[s] = "WAIT_START" => cur = current_epoch[s]
    BY <1>0, <1>13, <2>1, <2>2 DEF sentinelProcessHelloMessage, MayLearn, MaxOf
  <2>4. /\ current_epoch' = [current_epoch EXCEPT ![s] = cur]
        /\ UNCHANGED <<leader_epoch, failover_epoch, votes>>
        /\ \/ Reset(s, h.addr)
           \/ UNCHANGED <<failover_state, force, leader>>
    BY <1>13, <2>2 DEF sentinelProcessHelloMessage, histVars
  <2>5. CASE Reset(s, h.addr)
    BY <1>0, <1>7, <2>4, <2>5
  <2>6. CASE UNCHANGED <<failover_state, force, leader>>
    BY <1>11, <2>3, <2>4, <2>6
  <2> QED
    BY <2>4, <2>5, <2>6
<1> QED
  BY <1>1, <1>2, <1>3, <1>4, <1>5, <1>6, <1>8, <1>9, <1>10, <1>12, <1>13
     DEF Next

\* Nobody leads at the start.
LEMMA LeaderInit == Init => LInv
<1> SUFFICES ASSUME Init PROVE LInv
  OBVIOUS
<1>1. \A s \in Sentinels : failover_state[s] = "NONE" /\ leader[s] = None
  BY DEF Init
<1>2. \A s \in Sentinels : Waiting(s)
  BY <1>1 DEF Waiting
<1>3. LeaderHasMajority
  BY <1>1 DEF LeaderHasMajority, Acting
<1> QED
  BY <1>2, <1>3 DEF LInv

\* A Sentinel that leads a failover it was not ordered to run has the votes of
\* a majority in the epoch of that failover, when no other epoch interferes
\* with the election.
THEOREM MajorityBehindLeader == ~Overlap => (Spec => []LeaderHasMajority)
<1> SUFFICES ASSUME ~Overlap PROVE Spec => []LeaderHasMajority
  OBVIOUS
<1>1. TInv /\ LInv /\ [Next]_vars => (TInv /\ LInv)'
  BY TypeStep, LeaderStep
<1>2. TInv /\ LInv => LeaderHasMajority
  BY DEF LInv
<1> QED
  BY TypeInit, LeaderInit, <1>1, <1>2, PTL DEF Spec
=============================================================================
