# A verification project for Redis 5

TLA+ models of the parts of Redis 5 (`src/redis5/src`) whose correctness depends
on the order in which events happen: votes, crashes, lost messages, files written
and synced, replies sent.  Each module is written from the C source; the models are
checked with TLC on small instances, and the most important properties are proved
with TLAPS for every value of the constants.

`PROJECT.json` lists the components, the runs, the source lines behind every
definition, the findings, the hazards and the theorems.

## 1. The system and its hard behaviours

A Redis server is one process with one event loop (`ae.c`).  An iteration reads the
readable sockets, executes the commands found there, and, before it sleeps again,
runs `beforeSleep()`: cluster flags, expirations, unblocked clients, the append only
file and at last the replies.  Around this loop there are forked children (RDB, AOF
rewrite), background threads (`bio.c`), other servers (replicas, cluster nodes,
Sentinels), and crashes.

| Part | State | Operations | What is hard |
|---|---|---|---|
| Cluster election (`cluster.c`) | `currentEpoch`, `lastVoteEpoch`, `failover_auth_*`, `nodes.conf` | request, vote, count, win, expire, save | votes of two attempts, a crash around the vote, two candidates |
| Cluster manual failover | `mf_end`, `mf_master_offset`, `mf_can_start`, client pause | `CLUSTER FAILOVER [FORCE, TAKEOVER]`, MFSTART, timeout | both sides time out independently; state of an earlier election survives |
| Cluster slots configuration | `slots[]`, `configEpoch` of every node, in every node's view | claims in headers, UPDATE, epoch collision, bump, SETSLOT | claims arrive out of order after partitions; must converge |
| Cluster failure detection | PFAIL, FAIL flags, failure reports | gossip, report expiry, FAIL broadcast, clear | agreement over a time window only |
| Resharding | migrating and importing slots, keys | SETSLOT, MIGRATE, ASK, MOVED, ASKING | a key that moves while a client is redirected |
| Sentinel (`sentinel.c`) | `current_epoch`, `leader`, `leader_epoch`, `failover_state`, `config_epoch` | S_DOWN, O_DOWN, votes, failover state machine, hello | epochs shared by all monitored masters; equal config epochs |
| Replication (`replication.c`) | `replid`, `replid2`, offsets, backlog, cached master | PSYNC, full sync, feed, promotion, demotion, WAIT | one (id, offset) must name one history |
| AOF (`aof.c`, `bio.c`) | `aof_buf`, file, rewrite buffer, pipes, fsync jobs | feed, flush, rewrite, done handler | hand-off between parent and child; reply before fsync; crash after rename |
| RDB and children (`rdb.c`) | child pids, scheduled flags, `dirty` | SAVE, BGSAVE, done handlers | one child at a time, requests that must not starve |
| Keyspace (`db.c`, `expire.c`, `multi.c`) | dict, expires, watched keys | commands, expiry, MULTI, WATCH, EXEC | writes that bypass WATCH; replica reads of expired keys |
| Blocking (`blocked.c`) | `blocking_keys`, `ready_keys`, unblocked clients | block, signal, serve, time out, disconnect | order and fairness, chains of served commands |
| Streams (`t_stream.c`) | entries, `last_id`, groups, pending lists | XADD, XREADGROUP, XACK, XCLAIM, XGROUP | two indexes of pending entries that must agree; ID wrap-around |
| Hash table (`dict.c`) | two tables, `rehashidx`, cursors | add, delete, rehash step, resize, scan | SCAN across resizes |
| Threads (`bio.c`, `lazyfree.c`) | job queues, pending counters | create, process, wait | main thread reads counters of the workers |

The other parts (value encodings, Lua, modules API, publish/subscribe, configuration,
tools) are listed in `PROJECT.json` with the reason they are left out: they are
byte-level encodings, pure I/O, an interpreter, or sequential code with no state that
two actors share.

## 2. Modules

### ClusterElection: the failover election of Redis Cluster

A slave whose master failed increments `currentEpoch`, asks every master for its vote
and takes its master's place when a majority acknowledged.  The safety of the whole
slot configuration rests on it: two winners of the same epoch would both claim slots
with the same `configEpoch`.

State: the two epochs in memory and in `nodes.conf` (`disk`), the flags of
`todo_before_sleep`, the candidate's `failover_auth_*` variables, the send buffers of
the links, the messages on the wire.  Two history variables record what the code does
not keep: every vote that left a node (`acksSent`) and whose votes are in the
candidate's counter (`counted`).

| Action | Code |
|---|---|
| `ReceivePing` | any header raises the receiver's `currentEpoch` |
| `clusterSendFailoverAuthIfNeeded` | a master reads a request and votes or refuses |
| `ReceiveAck` | a candidate reads a vote |
| `ScheduleElection`, `RequestVotes`, `WinElection`, `NothingToDo`, `ElectionExpires` | the ways out of `clusterHandleSlaveFailover()` and the passing of `auth_timeout` |
| `clusterBeforeSleep` | saves `nodes.conf` when a handler asked for it |
| `clusterWriteHandler` | writes a send buffer to the socket, after the save unless `WriteBeforeSave` |
| `freeClusterLink` | a link breaks and what it buffered is lost |
| `CrashRestart` | a process dies and restarts from `nodes.conf` |

Abstractions.  Time is the boolean `authValid` (the attempt is not older than
`auth_timeout`).  Conditions that depend on other components (the FAIL flag of the
master, the age of the slave's data, the slots claimed by the requester, a recent vote
for the same master) are nondeterministic choices, so the properties hold whatever
they are.  The set of voters is fixed: it is the state between two changes of the slot
configuration.

Two constants switch environment behaviour that the code meets but does not handle:
`LateVotes` (a vote of an earlier attempt arrives after the next was scheduled) and
`WriteBeforeSave` (the vote leaves before `nodes.conf` is saved).  Without them the
properties below hold and are proved; with either of them TLC shows the property that
breaks (section 4).

Properties: `TypeOK`; `WinnersHaveDistinctEpochs`; `WinnerHasMajority` (the majority
voted for exactly the winner's epoch); `OneVotePerEpoch` (across crashes);
`VoteIsDurable` (a vote on the wire is on the voter's disk).

### SentinelFailover: electing the leader, failing over, spreading the configuration

Sentinels that find a master objectively down take a new `current_epoch`, ask each other
for votes, and the one elected promotes a slave and gives the new configuration the epoch
of its failover.  The others learn it from hello messages: the configuration with the
larger `config_epoch` wins, so two masters under one epoch would never be reconciled.

State: per Sentinel its epochs, its vote, the failover state machine of the master
(`failover_state` and what goes with it), the address in `master->addr`, and its
configuration file (`disk`); the requests on the wire.  Two history variables: every vote
given (`votes`) and every configuration created (`configs`).

| Action | Code |
|---|---|
| `IsMasterDownByAddr` | SENTINEL IS-MASTER-DOWN-BY-ADDR with a runid: vote, or report the old vote |
| `sentinelStartFailover`, `sentinelFailoverWaitStart` | a tick that starts a failover, or counts votes (`sentinelGetLeader()`) and goes on, waits or aborts |
| `sentinelFailoverSelectSlave`, `sentinelFailoverSendSlaveOfNoOne`, `sentinelFailoverWaitPromotion` | the next states of the leader, with their aborts |
| `PromotionSeen` | INFO shows the slave as a master: the configuration is created and flushed |
| `sentinelFailoverSwitchToPromotedSlave` | the end of the failover, in the tick that finds all slaves reconfigured or the time over |
| `sentinelAskMasterState` | a tick that changes no state but asks again |
| `sentinelFailoverCommand` | SENTINEL FAILOVER: a failover without votes |
| `OtherFailover` | the failover of another master takes an epoch of the same counter |
| `sentinelProcessHelloMessage` | a hello message, new or late |
| `CrashRestart` | a Sentinel dies and restarts from its file |

Abstractions.  When a master looks down, which slave is best, what INFO reports and when a
timeout passes are free choices.  Replies are not stored: a Sentinel that counts votes has
heard any part of the votes given in its current epoch.  Late hello messages are derived
from the configurations created, not kept.  `UPDATE_CONFIG` is not a state of the model: it
lasts for the rest of one tick.  The set of Sentinels is fixed.

An instance that was the master before may be promoted again.  Two constants switch what the
code meets but does not handle: `Overlap` lets a Sentinel that waits for votes learn a newer
epoch; `Failback` lets a Sentinel hear of a newer configuration that has the address it still
has in `master->addr`, because it missed the configurations between, or because it promoted
another instance and still moves the slaves to it.  Both happen in practice; the properties
that need their absence are the ones section 4 shows broken.

Properties: `TypeOK`; `OneVotePerEpoch`; `LeaderHasMajority` (in the epoch of its own
failover); `SameEpochSameMaster`; `ConfigNeverGoesBack` (an action property).  Failovers
forced by SENTINEL FAILOVER ask nobody, and their epochs are excluded from the third and
the fourth.

### AppendOnlyFile and DurableLog: the append only file

`DurableLog` says what the append only file promises: the server has a log of executed
commands; a prefix is *stable* (survives the death of the process) and a prefix of that is
*promised* (acknowledged under `appendfsync always`, survives a power failure).
`AppendOnlyFile` models how the code does it: the buffer, the policies, the fsync thread,
failed and short writes, the rewrite by a child that keeps receiving what the parent
executes, the exchange of files, switching off and on, loading, crashes.  The refinement
`DL == INSTANCE DurableLog WITH log <- hist, stable <- Stable(file.data), ...` is the
property `DurableLogSpec`.

A file is a sequence of tokens; a command or a SELECT is two tokens, so a short write or a
power failure can tear it.  `promised`, `since` and `file.damaged` are history variables.
`Preamble` is the setting `aof-use-rdb-preamble`, on as in the default configuration.

Two paths of the code damage the file, and both are in the model.  A flush that fails in
`CONFIG SET appendonly no` leaves a buffer (`aof.stale`) that is written to a later file, or
truncates one to a size of before; and loading a file torn right after its RDB preamble empties
it.  `file.damaged` records this until a rewrite replaces the file.  `FileReplaysHistory`
speaks of files that are not damaged, and `DurableLog` promises nothing while `damaged`, but
demands the whole log when it is repaired.  What is left of the two properties is that nothing
else damages the file.

A reply is an acknowledgment when the code orders it after the flush of `beforeSleep()`: those
`beforeSleep()` writes itself, and those left to a write handler with AE_BARRIER, which makes
the loop serve that descriptor for writing before it reads from it (`ae.c:436`).  The model
has the other ones too: `processEventsWhileBlocked()`, a handler installed without the barrier
because the file was off, and the reply of a blocked client that another client's command
served in this iteration.  They count only if the constant `AllReplies` is TRUE, and then TLC
finds a behaviour of three states that violates `DurableLogSpec`.

| Action | Code |
|---|---|
| `Command`, `beforeSleep`, `FlushFails`, `sendReplyToClient`, `processEventsWhileBlocked` | execution, `flushAppendOnlyFile()` with its error paths, the replies |
| `BioFsyncStarts`, `BioFsyncReturns` | the fsync thread of `bio.c` |
| `bgrewriteaofCommand`, `CronStartsRewrite`, `aofChildWriteDiffData`, `aofReadDiffFromParent`, `ChildAsks`, `aofChildPipeReadable`, `ChildFinishes`, `ChildFails`, `backgroundRewriteDoneHandler` | the rewrite and its hand-off |
| `stopAppendOnly`, `startAppendOnly`, `prepareForShutdown` | switching off and on, shutdown |
| `BgsaveStarts`, `BgsaveEnds`, `Tick`, `Crash`, `PowerFailure`, `Restart`, `RefusesToStart` | the competing child, time, faults, loading with truncation, or a file of bad format |

Fairness: `beforeSleep`, the passing of time, and progress of the children, each weak: the
event loop runs as long as the process does, and serverCron() runs in it.  An fsync need
not return, and no failure or command is owed.

### Replication: partial and full resynchronisation

Servers in any chain of replicas, `REPLICAOF` in any direction at any time, broken
connections, failed transfers, restarts from an RDB file with the replication ID.  A write
is a number used once, so equal data sets mean equal histories.  Per server: `replid`,
`replid2` and its limit, offset, circular backlog (`backlog_idx`, `histlen`, `off`), cached
master, data; per replica one connection with the state of both sides.

| Action | Code |
|---|---|
| `Write`, `ReadCommand` | `replicationFeedSlaves()`, `replicationFeedSlavesFromMasterStream()` |
| `syncCommand` | connect, PSYNC, `masterTryPartialResynchronization()`, or attach to or start a BGSAVE |
| `backgroundSaveDoneHandler`, `ChildFails`, `bgsaveCommand` | `updateSlavesWaitingBgsave()`, failed and user children |
| `rewriteAppendOnlyFileBackground`, `backgroundRewriteDoneHandler`, `replicationCron` | an AOF rewrite, during which no BGSAVE is started; the cron starts one for the replicas that wait |
| `ReadFullResync`, `ReadContinue`, `readSyncBulkPayload`, `LoadFails`, `ReadEOF` | the replica's side |
| `replicationSetMaster`, `replicationUnsetMaster`, `FreeIdleBacklog`, `LinkBreaks`, `CrashRestart` | role changes, the cron, faults |

Abstractions: a write is one unit of the stream, of which PING and SELECT are instances;
the handshake, PSYNC and its answer are one step; when a replica closes its connection the
master's client goes at the same time; a restart keeps the configured role.  A server is
not made a replica of itself, nor, unless `Circles`, part of a circle.  Fairness: while a
server can take a step of `Step`, one does; commands and faults are never owed.

### Streams: consumer groups and their propagation

One stream with one group on a master, the clients blocked in XREADGROUP, and a copy (a
replica or the log) that executes the propagated commands one at a time and may take over
at any point (`Failover`) or be loaded afresh (`FullResync`).  An entry is its ID; IDs are
`0 .. MaxID`, and `MaxID` stands for the last possible ID, so increments at the end of the
range are reached.  Times and delivery counters are left out: an XCLAIM names the entries
that are too young.  `~` trimming is any exact length; commands that change nothing are
stuttering steps.  While the key is ready and not served yet, the commands are those of one
EXEC or script.  `settled` is a history variable: the IDs acknowledged or skipped at a
client's request.

### Keyspace: blocked clients, watched keys, propagation

One database of lists and strings: pushes, pops, RPOPLPUSH, SET, SORT STORE, DEL, RENAME,
EXPIRE, FLUSHDB, MOVE, SWAPDB, expiration and eviction; clients in BLPOP, BRPOP and
BRPOPLPUSH on several keys with the queue of ready keys and its rounds; WATCH, MULTI, EXEC;
and the copy of the database that the propagated commands maintain.  `seen` (what a
watching client saw), `overwritten` and `pushed` are history variables.

Abstractions: other databases are the environment of MOVE and SWAPDB; the commands of
clients that neither block nor watch need no client; the commands of an EXEC are chosen
when they run, and an error while queueing is a DISCARD; any key may have an expire and may
expire between two commands, also inside of an EXEC and between two ready keys; EXPIRE in
the past is a DEL; BLPOP on an existing list is a pop; `copy` is the state after all
propagated commands.

### ClusterConfig: who serves a slot, in the view of every node

The headers of PING and PONG packets carry the sender's epochs, role and slots; UPDATE
packets carry what a third node knows.  A claim wins a slot if its config epoch is greater
than that of the node the slot is bound to.

| Action | Code |
|---|---|
| `Ping`, `ReceiveOnAccepted`, `ReceiveOnOwn` | `clusterCron()`, and `clusterProcessPacket()` as a whole: epochs, answer, role switch, slots, UPDATE to an outdated sender, epoch collision |
| `Takeover`, `BumpEpoch`, `Elected` | new epochs by command and by election |
| `SetImporting`, `SetStable`, `SetSlotMyself`, `SetSlotNode`, `AddSlot`, `DelSlot`, `Replicate` | commands of the administrator, at any node, with the checks of the code only |
| `Abort` (in the steps that call `clusterSetMaster()`), `Restart`, `freeClusterLink` | faults |

A link is a FIFO connection of its owner; answers come back on it, and UPDATE and
unsolicited PONG packets use the sender's own link, so packets of one node on two links
overtake each other.  Abstractions: all nodes know each other and gossip carries nothing
about slots; an election is one step (its messages are in ClusterElection); changes are
saved when they are made; keys are left out, so commands that need an empty slot find it
empty.

ADDSLOTS does not check the role.  A slave with slots of its own runs into the assertion of
`clusterSetMaster()` when it is told to follow another master; the node is then `aborted`: it
does nothing, and what it has not read is lost, until a `Restart`.  `OnlySlavesAbort` says that
the assertion fails for no other reason.  SETSLOT NODE may bind a slot to any node, a slave
included; `NewestClaimWins` excepts a slot while a node has it bound to a slave, whose epoch may
be that of the claim.

Fairness: every node pings every other one again and again.  `clusterCron()` does so when the
last PING was answered, or after it freed the link because no PONG came for half the node
timeout; so the packets on a link are read or lost in the end.  Nothing else is owed.

## 3. Runs

| Run | Instance | Result |
|---|---|---|
| `election` | 2 masters, 2 slaves, 2 epochs, 1 crash or broken link, symmetric | all five invariants hold, 565 thousand states |
| `election_late_votes` | the same without faults, `LateVotes` | violates `WinnerHasMajority` |
| `election_early_write` | 3 masters, 2 slaves, 1 epoch, 1 crash, `WriteBeforeSave` | violates `OneVotePerEpoch` |
| `sentinel` | 3 Sentinels (2 start failovers), 2 slaves, 2 epochs, 1 crash, command or foreign failover, symmetric | all five properties hold, 236 thousand states |
| `sentinel_overlap` | the same with `Overlap` | violates `LeaderHasMajority` |
| `sentinel_failback` | the same with `Failback` | violates `SameEpochSameMaster` |
| `append_only_file` | 1 database, policies always and everysec, both values of no-appendfsync-on-rewrite, RDB preamble, 2 commands, 1 failure, pipe of 2 tokens | two invariants, the refinement and three liveness properties hold, 292 thousand states |
| `replication` | 3 servers that start as a chain, backlog of 2, 3 writes, 2 events | four invariants and one liveness property hold, 632 thousand states |
| `streams` | 2 consumers, IDs 0 to 2, 2 blocked clients, the copy catches up after every command | five invariants and two action properties hold, 318 thousand states |
| `keyspace` | 2 clients of which 1 watches, 2 keys, 2 elements | three invariants hold, 282 thousand states |
| `cluster_config` | 3 nodes (2 masters, 1 slave) of a new cluster, 3 slots of which 1 is free, 2 events, 1 packet when a PING is sent | two invariants and two liveness properties hold, 353 thousand states |
| `cluster_reshard` | 3 masters, 2 slots of one of them, SETSLOT only | violates `NewVersionPropagates` |

Bounds.  Two masters make the quorum two, so the two candidates compete for both
votes; two epochs give every candidate a second attempt after a failed one; crashes and
broken links share one bound (`MaxFaults`), and the one fault can hit any node at any point,
which includes the windows before and after the save.
For Sentinel, three
voters make the majority two, so both starters can compete for the third vote; the quorum
is 1, so that the majority and not the quorum decides; two epochs allow a failover after a
completed one; and the one event hits every window.  The proofs cover every larger
instance.  Deadlock is not checked: when the epochs are
used up the model stops, while the program would go on with larger ones.

For the append only file, two commands and a pipe of two tokens make every hand-off of the
rewrite happen with the pipe empty and full, and the one failure is any of an I/O error, a
torn write, a crash or a power failure at any point.  For replication, three writes wrap a
backlog of two, so that its index and the place of an offset in it differ, and two events
suffice for a promotion with a demotion and for a restart in the middle of a transfer; for
streams, the IDs reach the last possible one, and two
consumers can own the same entry in turn; for the keyspace, two clients and two keys make
BRPOPLPUSH chains and circles, and two elements make one of them left over.  In
ClusterConfig the broadcasts of an event fill several links at once, and two events give the
collision of the new epochs with the ones of the young cluster.

Larger instances were checked as well, with the same results, but take too long to keep as
runs: an earlier form of replication, without AOF rewrites and with a backlog of 1 and 2
writes, with 3 events (3.4 million states, safety), with circles (3.0 million, safety) and as
a star (2.7 million, safety); the keyspace with 3 clients (3.1 million) and with 3 elements
(3.8 million).

The runs of the two elections, of the streams and of the keyspace assume no fairness:
neither election makes a promise of progress (votes may be split, or lost, in every
attempt), and the promises of the other two are about the moment a command or a round is
over.  Section 2 gives the fairness of the other three.

## 4. What the code does differently from what it says

* **A late vote counts for the next attempt.**  `failover_auth_count` is reset when an
  attempt is scheduled (`cluster.c:3062`), but `failover_auth_epoch` keeps the previous
  value until the votes are requested, up to a second later (longer for a low-ranked
  slave).  A vote for the previous epoch that arrives in between passes the test
  `senderCurrentEpoch >= failover_auth_epoch` and is counted for the new epoch.  The
  comment at `cluster.c:1061` rules out what follows from it.
* **A vote can leave before it is saved.**  AE_BARRIER orders the write after the save
  for events on the same descriptor.  A vote is read from the requester's inbound
  connection and written to the voter's own outbound link; when both are ready in one
  batch, or when the batch is processed by `processEventsWhileBlocked()`, nothing is
  saved in between.  A crash there lets the master vote twice in one epoch.

* **Votes are counted in another epoch than the failover's.**  `sentinelGetLeader()` counts
  the others' votes whose epoch is `sentinel.current_epoch` (`sentinel.c:3859`), although it
  was called for `failover_epoch`.  If the counter advanced since (a failover of another
  master, a hello message), votes of the newer epoch elect the Sentinel for the older one,
  in which another one may have been elected.  The comment at `sentinel.c:3837` asks for a
  majority "for the same epoch".
* **A newer configuration is half applied.**  The hello handler takes the newer epoch, and
  then compares the address received with `master->addr` (`sentinel.c:2491`).  In
  RECONF_SLAVES that is still the old master, while the Sentinel advertises the promoted
  slave.  When the newer configuration returned to the old master, only the epoch is taken,
  and two masters are advertised under it.

* **A migrated slot may never be known to all nodes.**  A header raises the config epoch that
  the receiver knows of the sender (`cluster.c:1749`) also when the sender has lost slots that
  the receiver still binds to it, and slots missing in a header are never unbound.  When the
  previous owner of a slot gets a new epoch, here from the resolution of an epoch collision,
  before a third node hears the claim of the new owner, the third node refuses that claim, until
  an epoch changes again.  The comment at `cluster.c:4448` says the epoch is set "so that the
  new version can be
  propagated by the cluster", and that the collision resolution "will fix it".
  `NewestClaimWins` is what remains true.

The following were met while modelling.  No run is spent on them; where a module has the
behaviour, its properties name it as an exception.

* Append only file.  A torn first command after an RDB preamble truncates the file at offset 0
  (`aof.c:704`), where `redis.conf` promises to "load as much data as possible".  A failing
  flush in `CONFIG SET appendonly no` leaves a buffer that is appended to a later file
  (`aof.c:282`).  Both set `file.damaged`; without that exception TLC refutes
  `FileReplaysHistory`.  Replies written by `processEventsWhileBlocked()`
  (`networking.c:2240`), or by a write handler installed without AE_BARRIER, leave
  before the fsync of `always` (`AllReplies`).  After a failed write, a
  successful rewrite replaces file and buffer but `aof_last_write_status` stays C_ERR, so
  writes stay refused: the flush that would clear it finds an empty buffer (`server.c:1313`).  A shutdown while
  the append only file waits for a rewrite that has no child yet does not save it
  (`server.c:2840`).
* Streams.  A stream made by XGROUP CREATE MKSTREAM whose last ID is still 0-0 is lost by a
  rewrite and a restart: its `XADD MAXLEN 0` is refused (`aof.c:1199`; the property is
  stated for the other streams).  A rewrite drops pending entries of deleted messages.
  XGROUP SETID to a smaller ID wakes no blocked client until the next XADD.
* Keyspace.  MOVE, SWAPDB and eviction do not touch watched keys, although the comment at
  `db.c:388` says that `signalModifiedKey()` is called "every time a key in the database is
  modified"; `WatchedKeysUnchanged` excludes them, and expired keys, which a test
  of `multi.tcl` asks for.  SORT STORE over a string calls `dbOverwrite()`, which
  does not signal the key as ready: a client blocked on it waits although the list has data.
  When BRPOPLPUSH k k is served, the propagated RPOP and LPUSH may drop the expire of k on the
  copy.  `c->woff` is not updated when a blocked client is served (`server.c:2794`).
* Cluster configuration.  ADDSLOTS is accepted by a slave, which then dies of the assertion of
  `clusterSetMaster()` when its master changes.  SETSLOT NODE carries no epoch and may name a
  slave: a node that has a slot bound to a slave under the epoch of the claim refuses the claim.
  A slave whose master announces its own demotion before the new owner's claim arrives stays
  the slave of a slave, because the slots were unbound in between.

## 5. Proofs

`ClusterElectionProofs` proves for any finite non-empty set of masters, any set of slaves
and any bounds:

| Theorem | Statement | Switches assumed off |
|---|---|---|
| `TypeCorrect` | `Spec => []TypeOK` | none |
| `VotesSafety` | `Spec => [](OneVotePerEpoch /\ VoteIsDurable)` | `WriteBeforeSave` |
| `VotesDurable` | `Spec => []VoteIsDurable` | `WriteBeforeSave` |
| `Inductive` | `Spec => []IInv` | both |
| `ElectionSafety` | `Spec => []WinnersHaveDistinctEpochs` | both |
| `MajorityBehindWinner` | `Spec => []WinnerHasMajority` | both |

The argument.  None of the properties is inductive: what makes a vote unique is not in
the history of votes but in the voter's memory, its disk and its send buffers.  `IInv`
adds, in named parts:

* *epochs* (`EpochsOrdered`): on disk and in memory a node's last vote is not ahead of
  its current epoch, and the disk's last vote is not ahead of the memory's;
* *routing* (`Routing`): requests come from slaves, votes go from masters to slaves, and
  every vote on the wire is in the history;
* *votes* (`BufferedVotes`, `SingleVotes`, `VoteIsDurable`): a buffered vote is not newer
  than the last vote and is saved or about to be; there is one slave per master and epoch
  among the buffered and the sent votes; a vote that left is on disk;
* *attempts* (`Attempts`): a scheduled attempt that has not asked yet expects no vote; one
  that has asked expects only votes of its own epoch, and its counter is the number of
  distinct masters whose vote it read (this is the part `LateVotes` breaks);
* *winners* (`WinnerHasMajority`, `Candidates`): behind every winner stands a quorum of
  votes for its epoch.

Two quorums of one finite set intersect (lemma `QuorumSize`, from the cardinality
theorems of the library); the common master voted once per epoch; so two winners of
one epoch are the same slave.

`SentinelFailoverProofs` (types, votes, leaders) and `SentinelConfigProofs`, which extends it
(configurations: the last four rows), prove for any finite non-empty set of Sentinels, any
instances, quorum and bounds:

| Theorem | Statement | Switches assumed off |
|---|---|---|
| `TypeCorrect` | `Spec => []TypeOK` | none |
| `VotesSafety` | `Spec => []OneVotePerEpoch` | none |
| `MajorityBehindLeader` | `Spec => []LeaderHasMajority` | `Overlap` |
| `Configurations` | `Spec => [](TInv /\ CInv)` | `Failback` |
| `ConfigMonotonic` | `Spec => ConfigNeverGoesBack` | `Failback` |
| `Inductive` | `Spec => []IInv` | both |
| `ConfigSafety` | `Spec => []SameEpochSameMaster` | both |

The switches are conditions on the environment that the code does not enforce: a theorem with
one says what holds of a system in which no Sentinel that waits for votes learns of a newer
epoch (`Overlap`), or none hears of a newer configuration that has the address of its own
`master->addr` (`Failback`).  The argument has five layers:

* `TInv`: types, and a leader beyond SELECT_SLAVE has its slave;
* `VInv`: the file has the epoch of the last vote and no vote is newer, so a new vote is in
  an epoch the voter never voted in;
* `LInv`: a Sentinel that waits has `failover_epoch = current_epoch` (what `Overlap`
  breaks), so the votes it counts are of its failover's epoch; its own vote is in the
  history;
* `CInv`, without `Failback`: the file has the advertised configuration (`Durable`); what is
  advertised was created (`Created`); the epoch of a pending failover is newer than any
  configuration the Sentinel has or made (`Fresh`);
* `AInv`: an unforced configuration has a majority behind it (`History`), and unforced
  configurations of one epoch agree (`Agreement`).

When a leader creates a configuration, an unforced one of the same epoch would have a
majority too; the common voter voted once, so the same Sentinel made both, and `Fresh`
excludes that.  `Failback` matters where a hello message is read: a newer configuration with
another address than `master->addr` is applied and flushed as a whole; one with the same
address changes the epoch in memory only.  `CInv` needs nothing of the votes, so
`ConfigMonotonic` holds although epochs overlap.

These inductive invariants were checked with TLC on the instances of section 3 before they
were proved.

`StreamsProofs` proves, for any consumers, any last ID and any bounds:

| Theorem | Statement |
|---|---|
| `RdbKeepsGroup` | loading the RDB form of a group whose pending lists agree gives the same group |
| `PelsAlwaysAgree` | `Spec => []PelsAgree` |
| `IdsAlwaysMonotone` | `Spec => []IdsMonotone` |
| `AlwaysDeliversOnlyNew` | `Spec => DeliversOnlyNew` |

The invariant `Inv` is the type invariant with `StreamOK` of the master and of the copy: the
group's pending list is the disjoint union of the consumers', and no entry is above the last
ID.  It is inductive because every command is executed on either stream by the same
operators (`Execute`): one lemma per command, `ExecuteOK` over the propagated ones, and the
copy may be at any point of the link.

`KeyspaceWritesProofs` (sequences, the commands that write) and `KeyspaceProofs`, which
extends it (transactions, blocked clients, the results), prove for any clients, any finite
set of keys and any number of elements:

| Theorem | Statement |
|---|---|
| `Invariant` | `Spec => []IInv` |
| `Served` | `Spec => []NobodyWaitsForData` |
| `Watching` | `Spec => []WatchedKeysUnchanged` |
| `Propagation` | `Spec => []CopyAgrees` |

`NobodyWaitsForData` and `CopyAgrees` speak of the moment the server is idle, and each command
ends with rounds of service, so the invariant says what holds in the middle of a round:

* `BlockedOK`: a list somebody is blocked on is in the queue of ready keys or is the key being
  served (or was written by SORT STORE over a string);
* `ServingOK`: the key being served holds a list, and the clients still to be looked at are
  those blocked on it, so the round ends with nobody blocked or no data left;
* `CopyOK`: the copy is the database, but for a list that was served until it is empty: the
  propagated pop deleted it, the server deletes it at the end of the round (`Formed`);
* `WatchedOK`: a list that may be popped for blocked clients was signalled to the clients that
  watch it.  This is why the pops need not be signalled;
* `TargetsOK`, `ExecutingOK`: BRPOPLPUSH pops from the tail, and a client in EXEC watches
  nothing.

`ClusterNodeProofs` (what packets and commands do to one node) and `ClusterConfigProofs`,
which extends it (the steps of the cluster, the results), prove for any finite set of nodes,
any slots, any initial owners and roles, and any bounds:

| Theorem | Statement |
|---|---|
| `Inductive` | `Spec => []IInv` |
| `KnowsBest` | `Spec => []MasterKnowsBest` |
| `AbortsAreSlaves` | `Spec => []OnlySlavesAbort` |

`MasterKnowsBest` is not inductive, because a slave announces the epoch of its master as its
own and may become a master later.  The invariant replaces "at most the node's own epoch" by
`Covers(st, me, e)`: at most the own epoch of a master, and at most some epoch a slave knows.
A slave that is promoted takes an epoch above all it knows (`PromotedCovers`), so what was
covered stays covered.  `EpochsOK` says that what is known of a node is covered by it, and
`PacketsOK` says the same of every header and every UPDATE under way, so that packets may come
late, overtake each other or get lost.  `NodesOK` has `Bounded` (no known epoch above the
current one, so a new epoch is new to the node) and `Sound` (`OnlySlavesAbort` of one node).
The proof goes by node first: each handler turns a state into one that `Evolves` from
it; then a step of the cluster is one evolving node and the queues it changes (`StepOK`,
`OneNodeOK`).  The fairness of the specification is not used.

Both invariants were checked with TLC on the instances of section 3 before they were proved.

Only model-checked:

* every liveness property: TLAPS does not handle liveness under fairness here, nor `ENABLED`;
* the append only file with its refinement of `DurableLog`: what a file replays to is an
  induction over the file (`loadAppendOnlyFile`, `SelectSeq`), and the theorems of induction
  take an operator as a parameter, which the provers cannot instantiate;
* replication, whose invariants relate prefixes of the streams of all servers;
* `CopyAgrees`, `NothingLost`, `RewriteKeepsUsedStream` and `RoundServesReaders` of the
  streams: the first two speak of the commands still on the link, executed one after the other
  (again an induction over a sequence).

## 6. Not modelled

`PROJECT.json` gives the status of every component.  Within the modelled ones, the text
of messages, the wall clock, the rank of slaves (which only delays an attempt) and
failures of the disk itself are left out: `clusterSaveConfigOrDie()` ends the process
when the save fails, which is a crash.  A Sentinel only logs a failed flush and goes on;
the model assumes that flushes succeed.  SENTINEL RESET, REMOVE and MONITOR (which change
the set of voters), TILT mode (in which the timer does not act), down detection, scripts
and the reconfiguration of single slaves are not modelled.

Append only file: failing forks, a failing final save at shutdown, changes of `appendfsync`
at run time.  Replication: diskless transfers, WAIT and acknowledged offsets, the selected
database, `min-replicas`, the script cache, writable replicas.  Streams: plain XREAD,
several groups, times and delivery counters.  Keyspace: times to live, expired keys on a
replica, sorted sets and streams as blocked keys, Lua.  Cluster configuration:
FLUSHSLOTS, SET-CONFIG-EPOCH, RESET, MEET and FORGET, migrating slots, and the deletion of
keys in lost slots.

Most of the source outside of these modules is not a matter for a model checker: the value
types and their encodings (`t_*.c`, `ziplist.c`, `quicklist.c`, `rax.c`, `listpack.c`), the
RDB format, Lua, the modules API, configuration, tools and the libraries are sequential
code over unbounded byte strings, or pure I/O.  `PROJECT.json` gives the reason for each.

## 7. Roadmap

1. `ClusterManualFailover`: client pause and offset agreement; no write accepted by the
   old master after the offset was fixed is lost; the state of a won election.
2. `ReplicationWait`: WAIT, acknowledged offsets, and the offset of a served blocked client.
3. `ChildProcesses`: a single child slot, scheduled saves eventually run, the dirty counter.
4. `DictScan`: an element present during the whole iteration is returned; the cursor as a
   pure function checked for all table sizes up to 16.
5. `Keyspace` with times to live and a replica that must hide expired keys.
6. `ClusterFailDetect`, `ClusterResharding` (ASK, MOVED and the transfer of keys).
7. Proofs for `Replication` (one replication ID and offset name one history) and for the
   refinement of `DurableLog`.
