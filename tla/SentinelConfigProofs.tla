------------------------- MODULE SentinelConfigProofs -------------------------
(***************************************************************************)
(* Proofs about SentinelFailover, continued: the configurations that       *)
(* leaders create and hello messages spread.                               *)
(***************************************************************************)
EXTENDS SentinelFailoverProofs

-----------------------------------------------------------------------------
(* The inductive invariant.                                                *)

\* A failover that has not created its configuration yet.
Pending == {"WAIT_START", "SELECT_SLAVE", "SEND_SLAVEOF_NOONE",
            "WAIT_PROMOTION"}

\* The file has the configuration the Sentinel advertises, and an epoch that
\* is not older.
Durable(s) ==
    /\ disk[s].config_epoch = config_epoch[s]
    /\ disk[s].addr = CurrentAddr(s)
    /\ config_epoch[s] <= disk[s].current_epoch
    /\ disk[s].current_epoch <= current_epoch[s]

\* The configuration advertised was created; a configuration of s is not newer
\* than its file.
Created(s) ==
    /\ \E c \in configs : c.epoch = config_epoch[s] /\ c.addr = CurrentAddr(s)
    /\ \A c \in configs : c.by = s => c.epoch <= disk[s].current_epoch

\* The epoch of a pending failover is new.
Fresh(s) ==
    failover_state[s] \in Pending =>
        /\ config_epoch[s] < failover_epoch[s]
        /\ failover_epoch[s] <= current_epoch[s]
        /\ \A c \in configs : c.by = s => c.epoch < failover_epoch[s]

\* An unforced configuration has a majority behind it.
History ==
    \A c \in configs :
       IF c.by = None THEN c.epoch = 0 /\ c.addr = M0
       ELSE /\ c.epoch > 0
            /\ ~c.forced => 2 * Cardinality(VotersFor(c.by, c.epoch))
                               > Cardinality(Sentinels)

\* Unforced configurations of one epoch agree.
Agreement ==
    \A c, d \in configs :
        c.epoch = d.epoch /\ ~c.forced /\ ~d.forced => c.addr = d.addr

\* What is known of a Sentinel and its configuration.
Local(s) == Durable(s) /\ Created(s) /\ Fresh(s)

\* The configuration of every Sentinel: what holds without Failback.
CInv == \A s \in Sentinels : Local(s)

\* All the configurations: what holds without Overlap and Failback.
AInv == History /\ Agreement

\* The inductive invariant.
IInv == TInv /\ VInv /\ LInv /\ CInv /\ AInv

-----------------------------------------------------------------------------
(* Proofs.                                                                 *)

\* Every Sentinel starts from the configuration it was given.
LEMMA ConfigInit == Init => CInv /\ AInv
<1> SUFFICES ASSUME Init PROVE CInv /\ AInv
  OBVIOUS
<1> DEFINE c == [epoch |-> 0, addr |-> M0, by |-> None, forced |-> FALSE]
<1>1. configs = {c} /\ c.epoch = 0 /\ c.addr = M0 /\ c.by = None
  BY DEF Init
<1> HIDE DEF c
<1>2. ASSUME NEW s \in Sentinels PROVE Durable(s) /\ Created(s) /\ Fresh(s)
  <2>1. /\ config_epoch[s] = 0 /\ current_epoch[s] = 0 /\ addr[s] = M0
        /\ failover_state[s] = "NONE"
        /\ disk[s] = [current_epoch |-> 0, leader_epoch |-> 0,
                      config_epoch |-> 0, addr |-> M0]
    BY DEF Init
  <2>2. CurrentAddr(s) = M0
    BY <2>1 DEF CurrentAddr
  <2>a. /\ disk[s].config_epoch = 0 /\ disk[s].current_epoch = 0
        /\ disk[s].addr = M0
    <3>1. disk[s] = [current_epoch |-> 0, leader_epoch |-> 0,
                     config_epoch |-> 0, addr |-> M0]
      BY <2>1
    <3> QED
      BY <3>1
  <2>b. /\ config_epoch[s] <= disk[s].current_epoch
        /\ disk[s].current_epoch <= current_epoch[s]
    BY <2>1, <2>a
  <2>3. Durable(s)
    BY <2>1, <2>2, <2>a, <2>b, Zenon DEF Durable
  <2>4. Created(s)
    <3>1. c.by # s
      BY <1>1, NoneAssumption
    <3>2. c.epoch = config_epoch[s]
      BY <1>1, <2>1
    <3>3. c \in configs /\ \A d \in configs : d = c
      BY <1>1
    <3>4. c.addr = CurrentAddr(s)
      BY <1>1, <2>2, Zenon
    <3> QED
      BY <3>1, <3>2, <3>3, <3>4, Zenon DEF Created
  <2>5. Fresh(s)
    BY <2>1 DEF Fresh, Pending
  <2> QED
    BY <2>3, <2>4, <2>5
<1>3. History
  BY <1>1 DEF History
<1>4. Agreement
  BY <1>1 DEF Agreement
<1> QED
  BY <1>2, <1>3, <1>4 DEF CInv, AInv, Local

\* Two majorities have a Sentinel in common.
LEMMA MajoritiesIntersect ==
    ASSUME NEW A \in SUBSET Sentinels, NEW B \in SUBSET Sentinels,
           2 * Cardinality(A) > Cardinality(Sentinels),
           2 * Cardinality(B) > Cardinality(Sentinels)
    PROVE  A \cap B # {}
<1>1. IsFiniteSet(A) /\ IsFiniteSet(B) /\ IsFiniteSet(Sentinels)
  BY SentinelsAssumption, FS_Subset
<1>2. /\ Cardinality(A) \in Nat /\ Cardinality(B) \in Nat
      /\ Cardinality(Sentinels) \in Nat
  BY <1>1, FS_CardinalityType
<1>3. Cardinality(A) + Cardinality(B) > Cardinality(Sentinels)
  BY <1>2
<1> QED
  BY <1>1, <1>3, FS_MajoritiesIntersect

\* The Sentinel does not change.
Same(r) ==
    UNCHANGED <<current_epoch[r], failover_state[r], failover_epoch[r],
                promoted[r], addr[r], config_epoch[r], disk[r]>>

\* A hello message carries a configuration that was created, and an epoch
\* that is not older.
LEMMA HelloSound ==
    ASSUME TInv, CInv, NEW t \in Sentinels, NEW h \in HelloFrom(t)
    PROVE  /\ h.config_epoch <= h.current_epoch
           /\ \E c \in configs : c.epoch = h.config_epoch /\ c.addr = h.addr
<1>1. /\ current_epoch[t] \in Nat /\ config_epoch[t] \in Nat
      /\ disk[t].current_epoch \in Nat /\ configs \in SUBSET Config
  BY DEF TInv, TypeOK
<1>2. Durable(t) /\ Created(t)
  BY DEF CInv, Local
<1>3. CASE h = [current_epoch |-> current_epoch[t],
               config_epoch |-> config_epoch[t], addr |-> CurrentAddr(t)]
  <2>1. config_epoch[t] <= current_epoch[t]
    <3>1. /\ config_epoch[t] <= disk[t].current_epoch
          /\ disk[t].current_epoch <= current_epoch[t]
      BY <1>2 DEF Durable
    <3> QED
      BY <1>1, <3>1
  <2> QED
    BY <1>2, <1>3, <2>1 DEF Created
<1>4. CASE \E c \in configs : \E e \in c.epoch..current_epoch[t] :
              h = [current_epoch |-> e, config_epoch |-> c.epoch,
                   addr |-> c.addr]
  <2>1. PICK c \in configs : \E e \in c.epoch..current_epoch[t] :
              h = [current_epoch |-> e, config_epoch |-> c.epoch,
                   addr |-> c.addr]
    BY <1>4
  <2>2. c.epoch \in Nat
    BY <1>1 DEF Config
  <2> QED
    BY <1>1, <2>1, <2>2
<1> QED
  BY <1>3, <1>4 DEF HelloFrom

\* A Sentinel that does not move keeps its configuration; only the Sentinel
\* that moves may create one.
LEMMA OthersKept ==
    ASSUME NEW s \in Sentinels, NEW r \in Sentinels \ {s}, Local(r), Same(r),
           configs \subseteq configs',
           \A c \in configs' \ configs : c.by = s
    PROVE  Local(r)'
<1>1. CurrentAddr(r)' = CurrentAddr(r)
  BY DEF Same, CurrentAddr
<1>2. Durable(r)'
  BY <1>1 DEF Local, Durable, Same
<1>3. Created(r)'
  BY <1>1 DEF Local, Created, Same
<1>4. Fresh(r)'
  BY DEF Local, Fresh, Same
<1> QED
  BY <1>2, <1>3, <1>4 DEF Local

\* A step that creates no configuration.
LEMMA NoConfigCreated ==
    ASSUME CInv, NEW s \in Sentinels, \A r \in Sentinels \ {s} : Same(r),
           Local(s)', configs' = configs
    PROVE  CInv'
<1>1. ASSUME NEW r \in Sentinels PROVE Local(r)'
  BY OthersKept DEF CInv
<1> QED
  BY <1>1 DEF CInv

\* A Sentinel that keeps its configuration, learns or takes an epoch, and
\* flushes it or not.
LEMMA EpochTaken ==
    ASSUME TInv, TInv', CInv, NEW s \in Sentinels, configs' = configs,
           config_epoch'[s] = config_epoch[s], addr'[s] = addr[s],
           CurrentAddr(s)' = CurrentAddr(s),
           current_epoch[s] <= current_epoch'[s],
           \/ disk'[s] = disk[s]
           \/ \E vote : disk'[s] = Flushed(current_epoch'[s], vote,
                                           config_epoch[s], CurrentAddr(s)),
           failover_state'[s] \in Pending =>
              \/ /\ failover_state[s] \in Pending
                 /\ failover_epoch'[s] = failover_epoch[s]
              \/ /\ failover_epoch'[s] = current_epoch[s] + 1
                 /\ current_epoch'[s] = current_epoch[s] + 1
    PROVE  Local(s)'
<1>1. /\ current_epoch[s] \in Nat /\ config_epoch[s] \in Nat
      /\ failover_epoch[s] \in Nat /\ disk[s].current_epoch \in Nat
      /\ current_epoch'[s] \in Nat /\ \A c \in configs : c.epoch \in Nat
  BY DEF TInv, TypeOK, Config
<1>2. Durable(s) /\ Created(s) /\ Fresh(s)
  BY DEF CInv, Local
<1>3. /\ disk'[s].config_epoch = config_epoch[s]
      /\ disk'[s].addr = CurrentAddr(s)
      /\ \/ disk'[s].current_epoch = disk[s].current_epoch
         \/ disk'[s].current_epoch = current_epoch'[s]
  <2>1. CASE disk'[s] = disk[s]
    BY <1>2, <2>1 DEF Durable
  <2>2. CASE \E vote : disk'[s] = Flushed(current_epoch'[s], vote,
                                          config_epoch[s], CurrentAddr(s))
    BY <2>2 DEF Flushed
  <2> QED
    BY <2>1, <2>2
<1>4. /\ config_epoch[s] <= disk[s].current_epoch
      /\ disk[s].current_epoch <= current_epoch[s]
      /\ \A c \in configs : c.by = s => c.epoch <= disk[s].current_epoch
  BY <1>2 DEF Durable, Created
<1>5. Durable(s)'
  BY <1>1, <1>3, <1>4 DEF Durable
<1>6. Created(s)'
  <2>1. \A c \in configs : c.by = s => c.epoch <= disk'[s].current_epoch
    BY <1>1, <1>3, <1>4
  <2> QED
    BY <1>2, <2>1 DEF Created
<1>7. Fresh(s)'
  <2> SUFFICES ASSUME failover_state'[s] \in Pending
               PROVE  /\ config_epoch[s] < failover_epoch'[s]
                      /\ failover_epoch'[s] <= current_epoch'[s]
                      /\ \A c \in configs : c.by = s => c.epoch < failover_epoch'[s]
    BY DEF Fresh
  <2>1. CASE failover_state[s] \in Pending /\ failover_epoch'[s] = failover_epoch[s]
    BY <1>1, <1>2, <2>1 DEF Fresh
  <2>2. CASE /\ failover_epoch'[s] = current_epoch[s] + 1
             /\ current_epoch'[s] = current_epoch[s] + 1
    BY <1>1, <1>4, <2>2
  <2> QED
    BY <2>1, <2>2
<1> QED
  BY <1>5, <1>6, <1>7 DEF Local

\* A Sentinel that takes a configuration that was created, in memory and in
\* its file, and is left without a failover.
LEMMA ConfigTaken ==
    ASSUME TInv, TInv', CInv, NEW s \in Sentinels, configs' = configs,
           NEW a \in Instances, Reset(s, a),
           disk'[s].config_epoch = config_epoch'[s],
           disk'[s].addr = a,
           config_epoch'[s] <= disk'[s].current_epoch,
           disk'[s].current_epoch <= current_epoch'[s],
           disk[s].current_epoch <= disk'[s].current_epoch,
           \E c \in configs : c.epoch = config_epoch'[s] /\ c.addr = a
    PROVE  Local(s)'
<1>1. /\ failover_state'[s] = "NONE" /\ addr'[s] = a
  BY DEF Reset, TInv, TypeOK
<1>2. CurrentAddr(s)' = a
  BY <1>1 DEF CurrentAddr
<1>3. Durable(s)'
  BY <1>2 DEF Durable
<1>4. Created(s)'
  <2>1. /\ disk[s].current_epoch \in Nat /\ disk'[s].current_epoch \in Nat
        /\ config_epoch'[s] \in Nat /\ \A c \in configs : c.epoch \in Nat
    BY DEF TInv, TypeOK, Config
  <2>2. \A c \in configs : c.by = s => c.epoch <= disk[s].current_epoch
    BY DEF CInv, Local, Created
  <2>3. \A c \in configs : c.by = s => c.epoch <= disk'[s].current_epoch
    BY <2>1, <2>2
  <2> QED
    BY <1>2, <2>3 DEF Created
<1>5. Fresh(s)'
  BY <1>1 DEF Fresh, Pending
<1> QED
  BY <1>3, <1>4, <1>5 DEF Local

\* The configuration a leader creates is new to it.
LEMMA ConfigCreated ==
    ASSUME TInv, CInv, NEW s \in Sentinels, PromotionSeen(s)
    PROVE  CInv'
<1> DEFINE c == [epoch |-> failover_epoch[s], addr |-> promoted[s], by |-> s,
                 forced |-> force[s]]
<1>1. /\ failover_state[s] = "WAIT_PROMOTION"
      /\ failover_state' = [failover_state EXCEPT ![s] = "RECONF_SLAVES"]
      /\ config_epoch' = [config_epoch EXCEPT ![s] = failover_epoch[s]]
      /\ disk' = [disk EXCEPT ![s] =
                     Flushed(current_epoch[s], leader_epoch[s],
                             failover_epoch[s], promoted[s])]
      /\ configs' = configs \cup {c}
      /\ UNCHANGED <<current_epoch, failover_epoch, force, promoted, addr, votes>>
  BY DEF PromotionSeen, ballotVars
<1>2. /\ failover_state \in [Sentinels -> States]
      /\ config_epoch \in [Sentinels -> Nat]
      /\ DOMAIN disk = Sentinels /\ configs \in SUBSET Config
      /\ current_epoch[s] \in Nat /\ failover_epoch[s] \in Nat
      /\ disk[s].current_epoch \in Nat /\ force[s] \in BOOLEAN
  BY DEF TInv, TypeOK
<1>3. \A d \in configs : d.epoch \in Nat /\ d.by \in Sentinels \cup {None}
  BY <1>2 DEF Config
<1>4. /\ config_epoch[s] < failover_epoch[s]
      /\ failover_epoch[s] <= current_epoch[s]
      /\ \A d \in configs : d.by = s => d.epoch < failover_epoch[s]
      /\ disk[s].current_epoch <= current_epoch[s]
  BY <1>1 DEF CInv, Local, Fresh, Durable, Pending
<1>5. /\ failover_state'[s] = "RECONF_SLAVES"
      /\ config_epoch'[s] = failover_epoch[s]
      /\ disk'[s].config_epoch = failover_epoch[s]
      /\ disk'[s].addr = promoted[s]
      /\ disk'[s].current_epoch = current_epoch[s]
      /\ CurrentAddr(s)' = promoted[s]
  BY <1>1, <1>2 DEF Flushed, CurrentAddr
<1>9. Local(s)'
  <2>1. Durable(s)'
    <3>1. /\ disk'[s].config_epoch = config_epoch'[s]
          /\ disk'[s].addr = CurrentAddr(s)'
      BY <1>5
    <3>2. current_epoch'[s] = current_epoch[s]
      BY <1>1
    <3>3. /\ config_epoch'[s] <= disk'[s].current_epoch
          /\ disk'[s].current_epoch <= current_epoch'[s]
      BY <1>2, <1>4, <1>5, <3>2
    <3> QED
      BY <3>1, <3>3 DEF Durable
  <2>2. \E d \in configs' : d.epoch = config_epoch'[s] /\ d.addr = CurrentAddr(s)'
    <3>1. c \in configs' /\ c.epoch = failover_epoch[s] /\ c.addr = promoted[s]
      BY <1>1
    <3> HIDE DEF c
    <3> QED
      BY <1>5, <3>1
  <2>4. ASSUME NEW d \in configs', d.by = s
        PROVE  d.epoch <= disk'[s].current_epoch
    <3>1. CASE d \in configs
      <4>1. d.epoch \in Nat /\ d.epoch < failover_epoch[s]
        BY <1>3, <1>4, <2>4, <3>1
      <4>2. failover_epoch[s] \in Nat /\ current_epoch[s] \in Nat
        BY <1>2
      <4>3. d.epoch <= current_epoch[s]
        BY <1>4, <4>1, <4>2
      <4> QED
        BY <1>5, <4>3
    <3>2. CASE d = c
      BY <1>4, <1>5, <3>2
    <3> QED
      BY <1>1, <3>1, <3>2
  <2>5. Created(s)'
    BY <2>2, <2>4 DEF Created
  <2>6. Fresh(s)'
    BY <1>5 DEF Fresh, Pending
  <2> QED
    BY <2>1, <2>5, <2>6 DEF Local
<1>10. ASSUME NEW r \in Sentinels \ {s} PROVE Local(r)'
  <2>1. Same(r)
    BY <1>1, <1>2 DEF Same
  <2>2. \A d \in configs' \ configs : d.by = s
    BY <1>1
  <2>3. Local(r) /\ configs \subseteq configs'
    BY <1>1 DEF CInv, Local
  <2> QED
    BY <2>1, <2>2, <2>3, OthersKept
<1> QED
  BY <1>9, <1>10 DEF CInv

\* What a vote does to the files.
LEMMA VoteFile ==
    ASSUME TInv, NEW s \in Sentinels, NEW cur \in Nat, NEW epoch \in Nat,
           NEW runid, sentinelVoteLeader(s, cur, epoch, runid)
    PROVE  /\ \A r \in Sentinels \ {s} : disk'[r] = disk[r]
           /\ \/ disk'[s] = disk[s]
              \/ \E vote : disk'[s] = Flushed(MaxOf(cur, epoch), vote, config_epoch[s],
                                              CurrentAddr(s))
<1>1. DOMAIN disk = Sentinels
  BY DEF TInv, TypeOK
<1>2. \/ disk' = disk
      \/ \E vote : disk' = [disk EXCEPT ![s] = Flushed(MaxOf(cur, epoch), vote,
                                                  config_epoch[s], CurrentAddr(s))]
  BY DEF sentinelVoteLeader, VoteSaved, Grants, MaxOf
<1> QED
  BY <1>1, <1>2

\* A tick in WAIT_START keeps the configuration.
LEMMA WaitStartConfig ==
    ASSUME TInv, NEW s \in Sentinels, NEW cur \in Nat, NEW epoch \in Nat,
           epoch <= cur, NEW forced,
           NEW otherwise \in SUBSET {"WAIT_START", "NONE"},
           WaitStart(s, cur, epoch, forced, otherwise)
    PROVE  /\ \A r \in Sentinels \ {s} : /\ disk'[r] = disk[r]
                                         /\ failover_state'[r] = failover_state[r]
           /\ \/ disk'[s] = disk[s]
              \/ \E vote : disk'[s] = Flushed(cur, vote, config_epoch[s],
                                              CurrentAddr(s))
           /\ failover_state'[s] # "RECONF_SLAVES"
<1>1. PICK winner \in Sentinels : sentinelVoteLeader(s, cur, epoch, winner)
  BY WaitStartVote
<1>2. PICK state \in {"SELECT_SLAVE", "WAIT_START", "NONE"} :
         failover_state' = [failover_state EXCEPT ![s] = state]
  BY DEF WaitStart
<1>3. DOMAIN failover_state = Sentinels
  BY DEF TInv, TypeOK
<1>4. /\ failover_state'[s] # "RECONF_SLAVES"
      /\ \A r \in Sentinels \ {s} : failover_state'[r] = failover_state[r]
  BY <1>2, <1>3
<1>5. MaxOf(cur, epoch) = cur
  BY DEF MaxOf
<1> QED
  BY <1>1, <1>4, <1>5, VoteFile

\* Every step keeps the configurations right.
LEMMA ConfigStep ==
    ASSUME TInv, TInv', CInv, ~Failback, [Next]_vars
    PROVE  CInv'
<1>0. TInv /\ TInv' /\ CInv
  OBVIOUS
<1>t. /\ current_epoch \in [Sentinels -> Nat]
      /\ failover_state \in [Sentinels -> States]
      /\ failover_epoch \in [Sentinels -> Nat]
      /\ promoted \in [Sentinels -> Instances \cup {None}]
      /\ addr \in [Sentinels -> Instances]
      /\ config_epoch \in [Sentinels -> Nat]
      /\ leader_epoch \in [Sentinels -> Nat]
      /\ disk \in [Sentinels -> [current_epoch: Nat, leader_epoch: Nat,
                                 config_epoch: Nat, addr: Instances]]
      /\ requests \in SUBSET Request
  BY <1>0 DEF TInv, TypeOK
<1>1. CASE UNCHANGED vars
  <2>2. /\ UNCHANGED <<current_epoch, failover_state, failover_epoch, promoted>>
        /\ UNCHANGED <<addr, config_epoch, disk, configs>>
    BY <1>1 DEF vars, ballotVars, failoverVars, configVars, histVars
  <2>3. \A r \in Sentinels : CurrentAddr(r)' = CurrentAddr(r)
    BY <2>2 DEF CurrentAddr
  <2>4. \A r \in Sentinels : Durable(r)' /\ Created(r)' /\ Fresh(r)'
    BY <1>0, <2>2, <2>3 DEF CInv, Local, Durable, Created, Fresh
  <2> QED
    BY <2>4 DEF CInv, Local
<1>2. ASSUME NEW s \in Sentinels, NEW req \in requests,
             IsMasterDownByAddr(s, req)
      PROVE  CInv'
  <2>1. /\ current_epoch' = [current_epoch EXCEPT ![s] = req.epoch]
        /\ req.epoch >= current_epoch[s] /\ req.epoch \in Nat
        /\ UNCHANGED <<failover_state, failover_epoch, promoted, addr,
                       config_epoch, configs>>
    BY <1>t, <1>2 DEF IsMasterDownByAddr, Request, failoverVars, configVars
  <2>2. sentinelVoteLeader(s, current_epoch[s], req.epoch, req.from)
    BY <1>2 DEF IsMasterDownByAddr
  <2>3. /\ \A r \in Sentinels \ {s} : disk'[r] = disk[r]
        /\ \/ disk'[s] = disk[s]
           \/ \E vote : disk'[s] = Flushed(req.epoch, vote, config_epoch[s],
                                           CurrentAddr(s))
    <3>1. MaxOf(current_epoch[s], req.epoch) = req.epoch
      <4>1. current_epoch[s] \in Nat
        BY <1>t
      <4> QED
        BY <2>1, <4>1 DEF MaxOf
    <3> QED
      BY <1>0, <1>t, <2>1, <2>2, <3>1, VoteFile
  <2>4. \A r \in Sentinels \ {s} : Same(r)
    BY <1>t, <2>1, <2>3 DEF Same
  <2>5. current_epoch'[s] = req.epoch /\ CurrentAddr(s)' = CurrentAddr(s)
    BY <1>t, <2>1 DEF CurrentAddr
  <2>6. current_epoch[s] <= current_epoch'[s]
    BY <1>t, <2>1, <2>5
  <2>7. Local(s)'
    BY <1>0, <2>1, <2>3, <2>5, <2>6, EpochTaken
  <2> QED
    BY <1>0, <2>1, <2>3, <2>4, <2>7, NoConfigCreated
<1>3. ASSUME NEW s \in Sentinels, sentinelStartFailover(s)
      PROVE  CInv'
  <2>1. PICK epoch \in Nat : epoch = current_epoch[s] + 1
    BY <1>t
  <2>2. /\ WaitStart(s, epoch, epoch, FALSE, {"WAIT_START"})
        /\ current_epoch' = [current_epoch EXCEPT ![s] = epoch]
        /\ failover_epoch' = [failover_epoch EXCEPT ![s] = epoch]
        /\ failover_state[s] = "NONE"
        /\ UNCHANGED <<promoted, addr, config_epoch, configs>>
    BY <1>3, <2>1 DEF sentinelStartFailover, configVars
  <2>3. /\ \A r \in Sentinels \ {s} : /\ disk'[r] = disk[r]
                                      /\ failover_state'[r] = failover_state[r]
        /\ \/ disk'[s] = disk[s]
           \/ \E vote : disk'[s] = Flushed(epoch, vote, config_epoch[s],
                                           CurrentAddr(s))
        /\ failover_state'[s] # "RECONF_SLAVES"
    <3>1. epoch <= epoch /\ {"WAIT_START"} \in SUBSET {"WAIT_START", "NONE"}
      BY <2>1
    <3> QED
      BY <1>0, <2>2, <3>1, WaitStartConfig
  <2>4. \A r \in Sentinels \ {s} : Same(r)
    BY <1>t, <2>2, <2>3 DEF Same
  <2>5. /\ current_epoch'[s] = epoch /\ failover_epoch'[s] = epoch
        /\ CurrentAddr(s)' = CurrentAddr(s)
    BY <1>t, <2>2, <2>3 DEF CurrentAddr
  <2>6. current_epoch[s] <= current_epoch'[s]
    BY <1>t, <2>1, <2>5
  <2>7. Local(s)'
    BY <1>0, <2>1, <2>2, <2>3, <2>5, <2>6, EpochTaken
  <2> QED
    BY <1>0, <2>2, <2>3, <2>4, <2>7, NoConfigCreated
<1>4. ASSUME NEW s \in Sentinels, sentinelFailoverWaitStart(s)
      PROVE  CInv'
  <2>1. PICK epoch \in Nat, cur \in Nat :
           epoch = failover_epoch[s] /\ cur = current_epoch[s]
    BY <1>t
  <2>2. epoch <= cur
    BY <1>0, <1>4, <2>1 DEF CInv, Local, Fresh, Pending, sentinelFailoverWaitStart
  <2>3. /\ WaitStart(s, cur, epoch, force[s], {"WAIT_START", "NONE"})
        /\ failover_state[s] = "WAIT_START"
        /\ UNCHANGED <<current_epoch, failover_epoch, promoted, addr,
                       config_epoch, configs>>
    BY <1>4, <2>1 DEF sentinelFailoverWaitStart, configVars
  <2>4. /\ \A r \in Sentinels \ {s} : /\ disk'[r] = disk[r]
                                      /\ failover_state'[r] = failover_state[r]
        /\ \/ disk'[s] = disk[s]
           \/ \E vote : disk'[s] = Flushed(cur, vote, config_epoch[s],
                                           CurrentAddr(s))
        /\ failover_state'[s] # "RECONF_SLAVES"
    BY <1>0, <2>1, <2>2, <2>3, WaitStartConfig
  <2>5. \A r \in Sentinels \ {s} : Same(r)
    BY <2>3, <2>4 DEF Same
  <2>6. CurrentAddr(s)' = CurrentAddr(s)
    BY <2>3, <2>4 DEF CurrentAddr
  <2>7. current_epoch[s] <= current_epoch'[s] /\ current_epoch'[s] = cur
    BY <2>1, <2>3
  <2>8. failover_state[s] \in Pending
    BY <2>3 DEF Pending
  <2>9. Local(s)'
    BY <1>0, <2>3, <2>4, <2>6, <2>7, <2>8, EpochTaken
  <2> QED
    BY <1>0, <2>3, <2>4, <2>5, <2>9, NoConfigCreated
<1>5. ASSUME NEW s \in Sentinels,
             \/ sentinelFailoverSelectSlave(s)
             \/ sentinelFailoverSendSlaveOfNoOne(s)
             \/ sentinelFailoverWaitPromotion(s)
             \/ sentinelAskMasterState(s)
      PROVE  CInv'
  <2>1. /\ \/ UNCHANGED <<failover_state, promoted>>
           \/ /\ failover_state[s] \in Pending
              /\ \E next \in Pending \cup {"NONE"} :
                    failover_state' = [failover_state EXCEPT ![s] = next]
              /\ \/ promoted' = promoted
                 \/ \E p : promoted' = [promoted EXCEPT ![s] = p]
        /\ UNCHANGED <<current_epoch, failover_epoch, addr, config_epoch, disk,
                       votes, configs>>
    BY <1>5 DEF sentinelFailoverSelectSlave, sentinelFailoverSendSlaveOfNoOne,
       sentinelFailoverWaitPromotion, sentinelAskMasterState, Pending,
       sentinelAbortFailover, ballotVars, failoverVars, configVars, histVars
  <2>2. \A r \in Sentinels \ {s} : Same(r)
    BY <1>t, <2>1 DEF Same
  <2>3. CurrentAddr(s)' = CurrentAddr(s)
    BY <1>t, <2>1 DEF CurrentAddr, Pending
  <2>4. failover_state'[s] \in Pending => failover_state[s] \in Pending
    BY <2>1
  <2>5. current_epoch[s] <= current_epoch'[s]
    BY <1>t, <2>1
  <2>6. Local(s)'
    BY <1>0, <2>1, <2>3, <2>4, <2>5, EpochTaken
  <2> QED
    BY <1>0, <2>1, <2>2, <2>6, NoConfigCreated
<1>6. ASSUME NEW s \in Sentinels, sentinelFailoverSwitchToPromotedSlave(s)
      PROVE  CInv'
  <2>1. /\ failover_state[s] = "RECONF_SLAVES"
        /\ Reset(s, promoted[s])
        /\ disk' = [disk EXCEPT ![s] =
                       Flushed(current_epoch[s], leader_epoch[s],
                               config_epoch[s], promoted[s])]
        /\ UNCHANGED <<current_epoch, failover_epoch, config_epoch, votes, configs>>
    BY <1>6 DEF sentinelFailoverSwitchToPromotedSlave, histVars
  <2>2. promoted[s] = CurrentAddr(s) /\ promoted[s] \in Instances
    BY <1>0, <2>1 DEF TInv, Promoted, Acting, CurrentAddr
  <2>3. \A r \in Sentinels \ {s} : Same(r)
    BY <1>t, <2>1 DEF Same, Reset
  <2>4. /\ disk'[s].config_epoch = config_epoch'[s]
        /\ disk'[s].addr = promoted[s]
        /\ disk'[s].current_epoch = current_epoch[s]
    BY <1>t, <2>1 DEF Flushed
  <2>5. Durable(s) /\ Created(s)
    BY <1>0 DEF CInv, Local
  <2>6. /\ config_epoch'[s] <= disk'[s].current_epoch
        /\ disk'[s].current_epoch <= current_epoch'[s]
        /\ disk[s].current_epoch <= disk'[s].current_epoch
    BY <1>t, <2>1, <2>4, <2>5 DEF Durable
  <2>7. \E c \in configs : c.epoch = config_epoch'[s] /\ c.addr = promoted[s]
    BY <2>1, <2>2, <2>5 DEF Created
  <2>8. Local(s)'
    BY <1>0, <2>1, <2>2, <2>4, <2>6, <2>7, ConfigTaken
  <2> QED
    BY <1>0, <2>1, <2>3, <2>8, NoConfigCreated
<1>7. ASSUME NEW s \in Sentinels, sentinelFailoverCommand(s)
      PROVE  CInv'
  <2>1. /\ current_epoch' = [current_epoch EXCEPT ![s] = current_epoch[s] + 1]
        /\ failover_epoch' = [failover_epoch EXCEPT ![s] = current_epoch[s] + 1]
        /\ failover_state[s] = "NONE"
        /\ failover_state' = [failover_state EXCEPT ![s] = "WAIT_START"]
        /\ UNCHANGED <<promoted, addr, config_epoch, disk, votes, configs>>
    BY <1>7 DEF sentinelFailoverCommand, configVars, histVars
  <2>2. \A r \in Sentinels \ {s} : Same(r)
    BY <1>t, <2>1 DEF Same
  <2>3. /\ CurrentAddr(s)' = CurrentAddr(s)
        /\ current_epoch'[s] = current_epoch[s] + 1
        /\ failover_epoch'[s] = current_epoch[s] + 1
    BY <1>t, <2>1 DEF CurrentAddr
  <2>4. current_epoch[s] <= current_epoch'[s]
    <3>1. current_epoch[s] \in Nat
      BY <1>t
    <3> QED
      BY <2>3, <3>1
  <2>5. Local(s)'
    BY <1>0, <2>1, <2>3, <2>4, EpochTaken
  <2> QED
    BY <1>0, <2>1, <2>2, <2>5, NoConfigCreated
<1>8. ASSUME NEW s \in Sentinels, OtherFailover(s)
      PROVE  CInv'
  <2>1. /\ current_epoch' = [current_epoch EXCEPT ![s] = current_epoch[s] + 1]
        /\ disk' = [disk EXCEPT ![s] =
                       Flushed(current_epoch[s] + 1, leader_epoch[s],
                               config_epoch[s], CurrentAddr(s))]
        /\ UNCHANGED <<failover_state, failover_epoch, promoted, addr,
                       config_epoch, votes, configs>>
    BY <1>8 DEF OtherFailover, failoverVars, configVars, histVars
  <2>2. \A r \in Sentinels \ {s} : Same(r)
    BY <1>t, <2>1 DEF Same
  <2>3. /\ CurrentAddr(s)' = CurrentAddr(s)
        /\ current_epoch'[s] = current_epoch[s] + 1
        /\ disk'[s] = Flushed(current_epoch'[s], leader_epoch[s],
                              config_epoch[s], CurrentAddr(s))
    BY <1>t, <2>1 DEF CurrentAddr
  <2>4. current_epoch[s] <= current_epoch'[s]
    <3>1. current_epoch[s] \in Nat
      BY <1>t
    <3> QED
      BY <2>3, <3>1
  <2>5. Local(s)'
    BY <1>0, <2>1, <2>3, <2>4, EpochTaken
  <2> QED
    BY <1>0, <2>1, <2>2, <2>5, NoConfigCreated
<1>9. ASSUME NEW s \in Sentinels, PromotionSeen(s)
      PROVE  CInv'
  BY <1>0, <1>9, ConfigCreated
<1>10. ASSUME NEW s \in Sentinels, NEW t \in Sentinels, NEW h \in HelloFrom(t),
              sentinelProcessHelloMessage(s, h)
       PROVE  CInv'
  <2>1. h.current_epoch \in Nat /\ h.config_epoch \in Nat /\ h.addr \in Instances
    BY <1>0, HelloType
  <2>2. /\ h.config_epoch <= h.current_epoch
        /\ \E c \in configs : c.epoch = h.config_epoch /\ c.addr = h.addr
    BY <1>0, HelloSound
  <2>3. PICK cur \in Nat : /\ cur = MaxOf(current_epoch[s], h.current_epoch)
                           /\ cur >= current_epoch[s] /\ cur >= h.current_epoch
    <3>1. current_epoch[s] \in Nat
      BY <1>t
    <3> QED
      BY <2>1, <3>1, MaxOfBounds
  <2>4. /\ current_epoch' = [current_epoch EXCEPT ![s] = cur]
        /\ UNCHANGED <<failover_epoch, votes, configs>>
    BY <1>10, <2>3 DEF sentinelProcessHelloMessage, histVars
  <2>5. current_epoch'[s] = cur
    BY <1>t, <2>4
  <2>6. CASE Newer(s, h)
    <3>1. h.addr # addr[s]
      BY <1>10, <2>6 DEF sentinelProcessHelloMessage, MayReturn
    <3>2. /\ config_epoch' = [config_epoch EXCEPT ![s] = h.config_epoch]
          /\ Reset(s, h.addr)
          /\ disk' = [disk EXCEPT ![s] = Flushed(cur, leader_epoch[s],
                                                 h.config_epoch, h.addr)]
      BY <1>10, <2>3, <2>6, <3>1 DEF sentinelProcessHelloMessage
    <3>3. \A r \in Sentinels \ {s} : Same(r)
      BY <1>t, <2>4, <3>2 DEF Same, Reset
    <3>4. /\ config_epoch'[s] = h.config_epoch
          /\ disk'[s].config_epoch = h.config_epoch
          /\ disk'[s].addr = h.addr
          /\ disk'[s].current_epoch = cur
      BY <1>t, <3>2 DEF Flushed
    <3>5. disk[s].current_epoch <= current_epoch[s]
      BY <1>0 DEF CInv, Local, Durable
    <3>6. /\ config_epoch'[s] <= disk'[s].current_epoch
          /\ disk'[s].current_epoch <= current_epoch'[s]
          /\ disk[s].current_epoch <= disk'[s].current_epoch
      <4>1. /\ disk[s].current_epoch \in Nat /\ current_epoch[s] \in Nat
        BY <1>t
      <4>a. h.config_epoch <= h.current_epoch /\ h.current_epoch <= cur /\ cur \in Nat
        BY <2>2, <2>3
      <4>2. h.config_epoch <= cur
        BY <2>1, <4>a
      <4>3. current_epoch[s] <= cur /\ cur \in Nat
        BY <2>1, <2>2, <2>3, <4>1
      <4>4. disk[s].current_epoch <= cur /\ cur <= cur
        BY <3>5, <4>1, <4>3
      <4> QED
        BY <2>5, <3>4, <4>2, <4>4
    <3>7. Local(s)'
      BY <1>0, <2>1, <2>2, <2>4, <3>2, <3>4, <3>6, ConfigTaken
    <3> QED
      BY <1>0, <2>4, <3>3, <3>7, NoConfigCreated
  <2>7. CASE ~Newer(s, h)
    <3>1. /\ UNCHANGED <<failover_state, promoted, addr, config_epoch>>
          /\ \/ disk' = disk
             \/ disk' = [disk EXCEPT ![s] = Flushed(cur, leader_epoch[s],
                                                config_epoch[s], CurrentAddr(s))]
      BY <1>10, <2>3, <2>7 DEF sentinelProcessHelloMessage
    <3>2. \A r \in Sentinels \ {s} : Same(r)
      BY <1>t, <2>4, <3>1 DEF Same
    <3>3. CurrentAddr(s)' = CurrentAddr(s)
      BY <3>1 DEF CurrentAddr
    <3>4. \/ disk'[s] = disk[s]
          \/ disk'[s] = Flushed(current_epoch'[s], leader_epoch[s],
                                config_epoch[s], CurrentAddr(s))
      BY <1>t, <2>5, <3>1
    <3>5. current_epoch[s] <= current_epoch'[s]
      BY <1>t, <2>3, <2>5
    <3>6. Local(s)'
      BY <1>0, <2>4, <3>1, <3>3, <3>4, <3>5, EpochTaken
    <3> QED
      BY <1>0, <2>4, <3>2, <3>6, NoConfigCreated
  <2> QED
    BY <2>6, <2>7
<1>11. ASSUME NEW s \in Sentinels, CrashRestart(s)
       PROVE  CInv'
  <2>1. /\ current_epoch' = [current_epoch EXCEPT ![s] = disk[s].current_epoch]
        /\ config_epoch' = [config_epoch EXCEPT ![s] = disk[s].config_epoch]
        /\ failover_epoch' = [failover_epoch EXCEPT ![s] = 0]
        /\ Reset(s, disk[s].addr)
        /\ UNCHANGED <<disk, votes, configs>>
    BY <1>11 DEF CrashRestart, histVars
  <2>2. Durable(s) /\ Created(s)
    BY <1>0 DEF CInv, Local
  <2>3. /\ disk[s].addr \in Instances /\ disk[s].current_epoch \in Nat
        /\ current_epoch'[s] = disk[s].current_epoch
        /\ config_epoch'[s] = disk[s].config_epoch
    BY <1>t, <2>1
  <2>4. \A r \in Sentinels \ {s} : Same(r)
    BY <1>t, <2>1 DEF Same, Reset
  <2>5. \E c \in configs : c.epoch = config_epoch'[s] /\ c.addr = disk[s].addr
    BY <2>2, <2>3 DEF Durable, Created
  <2>6. /\ config_epoch'[s] <= disk'[s].current_epoch
        /\ disk'[s].current_epoch <= current_epoch'[s]
        /\ disk[s].current_epoch <= disk'[s].current_epoch
        /\ disk'[s].config_epoch = config_epoch'[s]
        /\ disk'[s].addr = disk[s].addr
    <3>1. disk'[s] = disk[s]
      BY <2>1
    <3>2. /\ disk[s].config_epoch = config_epoch[s]
          /\ config_epoch[s] <= disk[s].current_epoch
      BY <2>2 DEF Durable
    <3>3. disk[s].current_epoch <= disk[s].current_epoch
      BY <2>3
    <3> QED
      BY <2>3, <3>1, <3>2, <3>3
  <2>7. Local(s)'
    BY <1>0, <2>1, <2>3, <2>5, <2>6, ConfigTaken
  <2> QED
    BY <1>0, <2>1, <2>4, <2>7, NoConfigCreated
<1> QED
  BY <1>1, <1>2, <1>3, <1>4, <1>5, <1>6, <1>7, <1>8, <1>9, <1>10, <1>11 DEF Next

\* A step that creates no configuration, and may add votes.
LEMMA AgreementKept ==
    ASSUME AInv, configs' = configs, votes \subseteq votes'
    PROVE  AInv'
<1>1. History'
  <2>1. ASSUME NEW c \in configs, c.by # None
        PROVE  /\ c.epoch > 0
               /\ ~c.forced => 2 * Cardinality(VotersFor(c.by, c.epoch)')
                                  > Cardinality(Sentinels)
    <3>1. PICK b, e : b = c.by /\ e = c.epoch
      OBVIOUS
    <3>2. /\ e > 0
          /\ ~c.forced => 2 * Cardinality(VotersFor(b, e)) > Cardinality(Sentinels)
      BY <2>1, <3>1 DEF AInv, History
    <3>3. /\ Cardinality(VotersFor(b, e)) \in Nat
          /\ Cardinality(VotersFor(b, e)') \in Nat
          /\ Cardinality(VotersFor(b, e)) <= Cardinality(VotersFor(b, e)')
      BY VotersGrow
    <3>4. Cardinality(Sentinels) \in Nat
      BY SentinelsAssumption, FS_CardinalityType
    <3>5. ~c.forced => 2 * Cardinality(VotersFor(b, e)') > Cardinality(Sentinels)
      BY <3>2, <3>3, <3>4
    <3> QED
      BY <3>1, <3>2, <3>5
  <2> QED
    BY <2>1 DEF AInv, History
<1>2. Agreement'
  BY DEF AInv, Agreement
<1> QED
  BY <1>1, <1>2 DEF AInv

\* No other Sentinel has a majority in the epoch of the configuration a leader
\* creates.
LEMMA AgreementCreated ==
    ASSUME TInv, VInv, LInv, CInv, AInv, NEW s \in Sentinels, PromotionSeen(s)
    PROVE  AInv'
<1> DEFINE c == [epoch |-> failover_epoch[s], addr |-> promoted[s], by |-> s,
                 forced |-> force[s]]
<1>1. /\ failover_state[s] = "WAIT_PROMOTION"
      /\ configs' = configs \cup {c} /\ votes' = votes
  BY DEF PromotionSeen
<1>2. /\ config_epoch[s] \in Nat /\ failover_epoch[s] \in Nat
      /\ configs \in SUBSET Config /\ force[s] \in BOOLEAN
  BY DEF TInv, TypeOK
<1>3. \A d \in configs : d.epoch \in Nat /\ d.by \in Sentinels \cup {None}
  BY <1>2 DEF Config
<1>4. /\ config_epoch[s] < failover_epoch[s]
      /\ \A d \in configs : d.by = s => d.epoch < failover_epoch[s]
  BY <1>1 DEF CInv, Local, Fresh, Pending
<1>5. s # None
  BY NoneAssumption
<1>6. ~force[s] => 2 * Cardinality(VotersFor(s, failover_epoch[s]))
                     > Cardinality(Sentinels)
  BY <1>1 DEF LInv, LeaderHasMajority, Acting
<1>7. \A b, e : VotersFor(b, e)' = VotersFor(b, e)
  BY <1>1 DEF VotersFor
<1>8. History'
  <2>1. ASSUME NEW d \in configs'
        PROVE  IF d.by = None THEN d.epoch = 0 /\ d.addr = M0
               ELSE /\ d.epoch > 0
                    /\ ~d.forced => 2 * Cardinality(VotersFor(d.by, d.epoch))
                                       > Cardinality(Sentinels)
    <3>1. CASE d \in configs
      BY <3>1 DEF AInv, History
    <3>2. CASE d = c
      <4>1. /\ d.by = s /\ d.epoch = failover_epoch[s] /\ d.forced = force[s]
        BY <3>2
      <4>2. failover_epoch[s] > 0
        <5>1. config_epoch[s] \in Nat /\ failover_epoch[s] \in Nat
          BY <1>2
        <5> QED
          BY <1>4, <5>1
      <4> QED
        BY <1>5, <1>6, <4>1, <4>2
    <3> QED
      BY <1>1, <3>1, <3>2
  <2> QED
    BY <1>7, <2>1 DEF History
<1>9. Agreement'
  <2>1. ASSUME NEW d \in configs, d.epoch = failover_epoch[s], ~d.forced,
               ~force[s]
        PROVE  FALSE
    <3>1. d.epoch > 0
      BY <1>2, <1>4, <2>1
    <3>2. /\ d.by # None
          /\ 2 * Cardinality(VotersFor(d.by, d.epoch)) > Cardinality(Sentinels)
      BY <2>1, <3>1 DEF AInv, History
    <3>3. PICK t \in VotersFor(d.by, d.epoch) \cap VotersFor(s, d.epoch) : TRUE
      <4>1. /\ VotersFor(d.by, d.epoch) \in SUBSET Sentinels
            /\ VotersFor(s, d.epoch) \in SUBSET Sentinels
        BY DEF VotersFor
      <4> QED
        BY <1>6, <2>1, <3>2, <4>1, MajoritiesIntersect
    <3>4. d.by = s
      BY <3>3 DEF VotersFor, VInv, OneVotePerEpoch
    <3> QED
      BY <1>2, <1>3, <1>4, <2>1, <3>4
  <2> SUFFICES ASSUME NEW d \in configs', NEW f \in configs',
                      d.epoch = f.epoch, ~d.forced, ~f.forced
               PROVE  d.addr = f.addr
    BY DEF Agreement
  <2>2. CASE d \in configs /\ f \in configs
    BY <2>2 DEF AInv, Agreement
  <2>3. CASE d = c /\ f \in configs
    BY <2>1, <2>3
  <2>4. CASE d \in configs /\ f = c
    BY <2>1, <2>4
  <2> QED
    BY <1>1, <2>2, <2>3, <2>4
<1> QED
  BY <1>8, <1>9 DEF AInv

\* Every step keeps the configurations in agreement.
LEMMA AgreementStep ==
    ASSUME TInv, VInv, LInv, CInv, AInv, [Next]_vars
    PROVE  AInv'
<1>1. ASSUME NEW s \in Sentinels, NEW cur, NEW epoch, NEW runid,
             sentinelVoteLeader(s, cur, epoch, runid)
      PROVE  votes \subseteq votes'
  BY <1>1 DEF sentinelVoteLeader
<1>2. ASSUME NEW s \in Sentinels, NEW req, IsMasterDownByAddr(s, req)
      PROVE  configs' = configs /\ votes \subseteq votes'
  BY <1>1, <1>2 DEF IsMasterDownByAddr
<1>3. ASSUME NEW s \in Sentinels,
             sentinelStartFailover(s) \/ sentinelFailoverWaitStart(s)
      PROVE  configs' = configs /\ votes \subseteq votes'
  <2>1. configs' = configs
    BY <1>3 DEF sentinelStartFailover, sentinelFailoverWaitStart
  <2>2. \E cur, epoch, forced, otherwise : WaitStart(s, cur, epoch, forced, otherwise)
    BY <1>3, Zenon DEF sentinelStartFailover, sentinelFailoverWaitStart
  <2> QED
    BY <1>1, <2>1, <2>2, WaitStartVote
<1>4. \/ UNCHANGED <<configs, votes>>
      \/ \E s \in Sentinels :
            \/ \E req \in requests : IsMasterDownByAddr(s, req)
            \/ sentinelStartFailover(s) \/ sentinelFailoverWaitStart(s)
            \/ PromotionSeen(s)
  <2>1. CASE UNCHANGED vars
    BY <2>1 DEF vars, histVars
  <2>2. ASSUME NEW s \in Sentinels,
               \/ sentinelFailoverSelectSlave(s)
               \/ sentinelFailoverSendSlaveOfNoOne(s)
               \/ sentinelFailoverWaitPromotion(s) \/ sentinelAskMasterState(s)
               \/ sentinelFailoverSwitchToPromotedSlave(s)
               \/ sentinelFailoverCommand(s) \/ OtherFailover(s)
               \/ CrashRestart(s)
        PROVE  UNCHANGED <<configs, votes>>
    BY <2>2 DEF sentinelFailoverSelectSlave, sentinelFailoverSendSlaveOfNoOne,
       sentinelFailoverWaitPromotion, sentinelAskMasterState,
       sentinelFailoverSwitchToPromotedSlave, sentinelFailoverCommand,
       OtherFailover, CrashRestart, histVars
  <2>3. ASSUME NEW s, NEW h, sentinelProcessHelloMessage(s, h)
        PROVE  UNCHANGED <<configs, votes>>
    BY <2>3 DEF sentinelProcessHelloMessage, histVars
  <2> QED
    BY <2>1, <2>2, <2>3 DEF Next
<1> QED
  BY <1>2, <1>3, <1>4, AgreementKept, AgreementCreated

\* The configuration of every Sentinel is durable, was created by a failover,
\* and is older than the failover under way, even when epochs overlap.
THEOREM Configurations == ~Failback => (Spec => [](TInv /\ CInv))
<1> SUFFICES ASSUME ~Failback PROVE Spec => [](TInv /\ CInv)
  OBVIOUS
<1>1. Init => TInv /\ CInv
  BY TypeInit, ConfigInit
<1>2. TInv /\ CInv /\ [Next]_vars => (TInv /\ CInv)'
  BY TypeStep, ConfigStep
<1> QED
  BY <1>1, <1>2, PTL DEF Spec

\* The inductive invariant: what is true of votes, leaders, files and
\* configurations in every reachable state.
THEOREM Inductive == ~Overlap /\ ~Failback => (Spec => []IInv)
<1> SUFFICES ASSUME ~Overlap, ~Failback PROVE Spec => []IInv
  OBVIOUS
<1>1. Init => IInv
  BY TypeInit, VoteInit, LeaderInit, ConfigInit DEF IInv
<1>2. IInv /\ [Next]_vars => IInv'
  BY TypeStep, VoteStep, LeaderStep, ConfigStep, AgreementStep DEF IInv
<1> QED
  BY <1>1, <1>2, PTL DEF Spec

\* Two Sentinels that have the same config epoch advertise the same master,
\* when no command forced a failover in that epoch, in a system where no
\* Sentinel that waits for votes learns of a newer epoch (~Overlap) and none
\* hears of a newer configuration that has the address of its own master->addr
\* (~Failback).  An instance may be promoted any number of times.
THEOREM ConfigSafety == ~Overlap /\ ~Failback => (Spec => []SameEpochSameMaster)
<1>1. IInv => SameEpochSameMaster
  <2> SUFFICES ASSUME IInv, NEW s \in Sentinels, NEW t \in Sentinels,
                      config_epoch[s] = config_epoch[t],
                      \A c \in configs : c.epoch = config_epoch[s] => ~c.forced
               PROVE  CurrentAddr(s) = CurrentAddr(t)
    BY DEF SameEpochSameMaster
  <2>1. PICK c \in configs : c.epoch = config_epoch[s] /\ c.addr = CurrentAddr(s)
    BY DEF IInv, CInv, Local, Created
  <2>2. PICK d \in configs : d.epoch = config_epoch[t] /\ d.addr = CurrentAddr(t)
    BY DEF IInv, CInv, Local, Created
  <2> QED
    BY <2>1, <2>2 DEF IInv, AInv, Agreement
<1> QED
  BY <1>1, Inductive, PTL

\* No step, a restart included, leaves a Sentinel with an older configuration,
\* however epochs overlap, when none hears of a newer configuration that has
\* the address of its own master->addr (~Failback): that one is not flushed.
THEOREM ConfigMonotonic == ~Failback => (Spec => ConfigNeverGoesBack)
<1> SUFFICES ASSUME ~Failback PROVE Spec => ConfigNeverGoesBack
  OBVIOUS
<1> DEFINE Up == \A s \in Sentinels : config_epoch'[s] >= config_epoch[s]
<1>1. TInv /\ CInv /\ [Next]_vars => [Up]_vars
  <2> SUFFICES ASSUME TInv, CInv, Next PROVE Up
    OBVIOUS
  <2>1. /\ config_epoch \in [Sentinels -> Nat] /\ failover_epoch \in [Sentinels -> Nat]
        /\ \A s \in Sentinels : disk[s].config_epoch = config_epoch[s]
    BY DEF TInv, TypeOK, CInv, Local, Durable
  <2>2. ASSUME NEW s \in Sentinels, PromotionSeen(s) PROVE Up
    <3>1. config_epoch[s] < failover_epoch[s]
      BY <2>2 DEF PromotionSeen, CInv, Local, Fresh, Pending
    <3>2. config_epoch' = [config_epoch EXCEPT ![s] = failover_epoch[s]]
      BY <2>2 DEF PromotionSeen
    <3> QED
      BY <2>1, <3>1, <3>2
  <2>3. ASSUME NEW s \in Sentinels, NEW t \in Sentinels, NEW h \in HelloFrom(t),
               sentinelProcessHelloMessage(s, h)
        PROVE  Up
    <3>1. h.config_epoch \in Nat
      BY HelloType
    <3>2. \/ config_epoch' = config_epoch
          \/ /\ config_epoch[s] < h.config_epoch
             /\ config_epoch' = [config_epoch EXCEPT ![s] = h.config_epoch]
      BY <2>3 DEF sentinelProcessHelloMessage, Newer
    <3>3. ASSUME NEW r \in Sentinels PROVE config_epoch'[r] >= config_epoch[r]
      <4>1. config_epoch[r] \in Nat
        BY <2>1
      <4>2. \/ config_epoch'[r] = config_epoch[r]
            \/ config_epoch[r] < h.config_epoch /\ config_epoch'[r] = h.config_epoch
        BY <2>1, <3>2
      <4> QED
        BY <3>1, <4>1, <4>2
    <3> QED
      BY <3>3
  <2>4. ASSUME NEW s \in Sentinels, CrashRestart(s) PROVE Up
    <3>1. config_epoch' = [config_epoch EXCEPT ![s] = disk[s].config_epoch]
      BY <2>4 DEF CrashRestart
    <3>2. ASSUME NEW r \in Sentinels PROVE config_epoch'[r] >= config_epoch[r]
      <4>1. config_epoch[r] \in Nat /\ config_epoch'[r] = config_epoch[r]
        BY <2>1, <3>1
      <4> QED
        BY <4>1
    <3> QED
      BY <3>2
  <2>5. CASE config_epoch' = config_epoch
    BY <2>1, <2>5
  <2>6. \/ config_epoch' = config_epoch
        \/ \E s \in Sentinels :
              \/ PromotionSeen(s)
              \/ CrashRestart(s)
              \/ \E t \in Sentinels \ {s} : \E h \in HelloFrom(t) :
                    sentinelProcessHelloMessage(s, h)
    BY DEF Next, IsMasterDownByAddr, sentinelStartFailover,
       sentinelFailoverWaitStart, sentinelFailoverSelectSlave,
       sentinelFailoverSendSlaveOfNoOne, sentinelFailoverWaitPromotion,
       sentinelAskMasterState, sentinelFailoverSwitchToPromotedSlave,
       sentinelFailoverCommand, OtherFailover, configVars
  <2> QED
    BY <2>2, <2>3, <2>4, <2>5, <2>6
<1>2. Spec => [](TInv /\ CInv)
  BY Configurations
<1> QED
  BY <1>1, <1>2, PTL DEF Spec, ConfigNeverGoesBack
=============================================================================
