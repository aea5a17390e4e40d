---------------------------- MODULE Replication ----------------------------
(***************************************************************************)
(* Asynchronous replication between Redis servers (replication.c): the     *)
(* replication IDs and offsets, the circular backlog, partial and full     *)
(* resynchronisation, chains of replicas, REPLICAOF in any direction at    *)
(* any time, broken connections, failed transfers, and restarts from an    *)
(* RDB file that holds the replication ID and offset of its data set.      *)
(*                                                                         *)
(* A write is a number that is used once, so that two data sets are equal  *)
(* only if they result from the same writes; it takes one unit of the      *)
(* replication stream.  (PING and SELECT take room in the stream too: they *)
(* are writes here.)  A replica has at most one connection, conn[s]; what  *)
(* the master's side of it knows of the replica is part of conn[s].  The   *)
(* handshake before PSYNC only negotiates capabilities and is one step.    *)
(***************************************************************************)
EXTENDS Integers, Sequences, SequencesExt, FiniteSets

CONSTANTS
    Nodes,        \* the servers
    None,         \* no server, no connection, no child
    Configured,   \* the master each server is configured with, or None
    Circles,      \* whether servers may be made replicas in a circle
    BacklogSize,  \* repl-backlog-size, in units of the stream
    MaxWrites,    \* bound on the number of writes
    MaxUnread,    \* bound on the writes that a replica has not read yet when one is made
    MaxEvents,    \* bound on the number of administrative commands and faults
    MaxFaults     \* bound on the number of faults

ASSUME NodesAssumption == IsFiniteSet(Nodes) /\ Configured \in [Nodes -> Nodes \union {None}]
ASSUME BoundAssumption ==
    /\ Circles \in BOOLEAN /\ BacklogSize \in Nat \ {0}
    /\ {MaxWrites, MaxUnread, MaxEvents, MaxFaults} \subseteq Nat

VARIABLES
    node,     \* the state of each server
    conn,     \* the connection of each replica to its master
    child,    \* the child process of each server: the snapshot it saves, or a rewrite
    disk,     \* the RDB file of each server
    writes,   \* the number of writes so far
    events    \* the number of administrative commands and faults, and of faults, so far

vars == <<node, conn, child, disk, writes, events>>

(* A replication ID is random: it is the server that drew it and how often  *)
(* that server had drawn one.                                               *)
NoId == <<None, 0>>      \* replid2 when it is cleared
Ask == <<None, 1>>       \* the "?" of a replica that wants a full resync

-----------------------------------------------------------------------------
(* The circular backlog *)

NoBacklog == [size |-> 0]

createReplicationBacklog(offset) ==
    [size |-> BacklogSize, buf |-> [i \in 0 .. BacklogSize - 1 |-> None],
     idx |-> 0, histlen |-> 0, off |-> offset + 1]

HasBacklog(N) == N.bl.size > 0

(* Mutant: histlen is not capped at the size of the buffer. *)
feedReplicationBacklog_Uncapped(N, w) ==
    LET b      == N.bl
        offset == N.offset + 1
    IN [N EXCEPT
          !.offset = offset,
          !.bl = [b EXCEPT !.buf[b.idx] = w,
                           !.idx = IF b.idx + 1 = b.size THEN 0 ELSE b.idx + 1,
                           !.histlen = b.histlen + 1,
                           !.off = offset - b.histlen]]

(* One unit is written at idx, which rewinds at the end of the buffer. *)
feedReplicationBacklog(N, w) ==
    LET b       == N.bl
        histlen == IF b.histlen + 1 > b.size THEN b.size ELSE b.histlen + 1
        offset  == N.offset + 1
    IN [N EXCEPT
          !.offset = offset,
          !.bl = [b EXCEPT !.buf[b.idx] = w,
                           !.idx = IF b.idx + 1 = b.size THEN 0 ELSE b.idx + 1,
                           !.histlen = histlen,
                           !.off = offset - histlen + 1]]

(* The units from offset to the end of the backlog. *)
addReplyReplicationBacklog(b, offset) ==
    LET skip  == offset - b.off
        first == (b.idx + (b.size - b.histlen)) % b.size
    IN [i \in 1 .. b.histlen - skip |-> b.buf[(first + skip + i - 1) % b.size]]

-----------------------------------------------------------------------------
(* Servers and connections *)

(* A connection: where to, the state of the replica on the master's side,   *)
(* the output accumulated there and the messages under way to the replica.  *)
NoConn == [to |-> None, st |-> "none", out |-> <<>>, down |-> <<>>]

(* A data set as an RDB file holds it, with the replication ID and offset   *)
(* it was saved under, if any.                                              *)
NoSnapshot == [data |-> <<>>, replid |-> NoId, offset |-> 0]

Server(host, st, data, id, offset) ==
    [host |-> host, st |-> st, data |-> data, replid |-> id, ids |-> id[2],
     replid2 |-> NoId, second |-> -1, offset |-> offset, bl |-> NoBacklog,
     master |-> None, cached |-> None, xfer |-> None]

(* The servers start with the masters their configuration files name. *)
Init ==
    /\ node = [n \in Nodes |->
          Server(Configured[n], IF Configured[n] = None THEN "none" ELSE "connect",
                 <<>>, <<n, 1>>, 0)]
    /\ conn = [s \in Nodes |-> NoConn]
    /\ child = [n \in Nodes |-> None]
    /\ disk = [n \in Nodes |-> NoSnapshot]
    /\ writes = 0
    /\ events = [all |-> 0, faults |-> 0]

(* The child that rewrites the append only file saves no snapshot. *)
Rewrite == [rdb |-> None, killed |-> FALSE]

(* n has a child that saves an RDB file (rdb_child_pid). *)
Saves(n) == child[n] \notin {None, Rewrite}

IsSlaveClient(s, n) == conn[s].to = n /\ conn[s].st \in {"start", "end", "online"}

Slaves(n) == {s \in Nodes : IsSlaveClient(s, n)}

(* A command of the administrator. *)
Event ==
    /\ events.all < MaxEvents
    /\ events' = [events EXCEPT !.all = @ + 1]

(* Something fails. *)
Fault ==
    /\ events.all < MaxEvents /\ events.faults < MaxFaults
    /\ events' = [all |-> events.all + 1, faults |-> events.faults + 1]

Commands(ws) == [i \in DOMAIN ws |-> [type |-> "cmd", w |-> ws[i]]]

Commanded(ms) == LET cs == SelectSeq(ms, LAMBDA m : m.type = "cmd")
                 IN [i \in DOMAIN cs |-> cs[i].w]

(* The writes under way to s or accumulated for it. *)
Unread(s) == Commanded(conn[s].down) \o conn[s].out

(* The connections once every replica of n was given w. *)
replicationFeedSlaves(n, w) ==
    [s \in Nodes |->
        IF ~IsSlaveClient(s, n) \/ conn[s].st = "start" THEN conn[s]
        ELSE IF conn[s].st = "end" THEN [conn[s] EXCEPT !.out = Append(@, w)]
        ELSE [conn[s] EXCEPT !.down = @ \o Commands(<<w>>)]]

(* n closes a connection; what it wrote to it before may still be read. *)
freeSlave(c) == [c EXCEPT !.st = "closed", !.out = <<>>]

disconnectSlaves(n) ==
    [s \in Nodes |-> IF IsSlaveClient(s, n) THEN freeSlave(conn[s]) ELSE conn[s]]

-----------------------------------------------------------------------------
(* Replication IDs *)

changeReplicationId(n, N) ==
    [N EXCEPT !.replid = <<n, N.ids + 1>>, !.ids = @ + 1]

clearReplicationId2(N) == [N EXCEPT !.replid2 = NoId, !.second = -1]

(* Mutant: the promoted replica goes on under the ID of its master. *)
shiftReplicationId_Keeps(n, N) ==
    [N EXCEPT !.replid2 = N.replid, !.second = N.offset + 1]

shiftReplicationId(n, N) ==
    changeReplicationId(n, [N EXCEPT !.replid2 = N.replid, !.second = N.offset + 1])

(* Mutant: the offset asked for is taken for the offset reached. *)
replicationCacheMasterUsingMyself_AddsOne(N) ==
    [N EXCEPT !.cached = [replid |-> N.replid, reploff |-> N.offset + 1]]

(* A master becomes a replica: it may continue from its own history. *)
replicationCacheMasterUsingMyself(N) ==
    [N EXCEPT !.cached = [replid |-> N.replid, reploff |-> N.offset]]

(* The connection with the master is gone.  A working one is cached         *)
(* (replicationCacheMaster), a handshake or a transfer is cancelled.        *)
LostMaster(N) ==
    [N EXCEPT !.cached = IF N.master # None THEN N.master ELSE @,
              !.master = None, !.xfer = None, !.st = "connect"]

-----------------------------------------------------------------------------
(* The master's side *)

(* A client's write command on a master. *)
Write(n) ==
    /\ node[n].host = None
    /\ writes < MaxWrites
    /\ \A s \in Nodes : Len(Unread(s)) < MaxUnread
    /\ writes' = writes + 1
    /\ LET N == [node[n] EXCEPT !.data = Append(@, writes')]
       IN IF HasBacklog(N)
          THEN /\ node' = [node EXCEPT ![n] = feedReplicationBacklog(N, writes')]
               /\ conn' = replicationFeedSlaves(n, writes')
          ELSE /\ node' = [node EXCEPT ![n] = N]
               /\ UNCHANGED conn
    /\ UNCHANGED <<child, disk, events>>

(* The stream from req.offset on is in the backlog and continues the data   *)
(* set of the replica that asks.                                            *)
CanContinue(N, req) ==
    /\ \/ req.replid = N.replid
       \/ req.replid = N.replid2 /\ req.offset <= N.second
    /\ HasBacklog(N)
    /\ req.offset >= N.bl.off
    /\ req.offset <= N.bl.off + N.bl.histlen

masterTryPartialResynchronization(s, m, req) ==
    /\ CanContinue(node[m], req)
    /\ conn' = [conn EXCEPT ![s] =
          [to |-> m, st |-> "online", out |-> <<>>,
           down |-> <<[type |-> "continue", replid |-> node[m].replid]>> \o
                    Commands(addReplyReplicationBacklog(node[m].bl, req.offset))]]
    /\ node' = [node EXCEPT ![s].st = "receive_psync"]
    /\ UNCHANGED <<child, events>>

(* The replication ID and offset are saved if there is a stream that the    *)
(* data set is the result of.                                               *)
HasSaveInfo(N) ==
    \/ N.host = None /\ HasBacklog(N)
    \/ N.master # None
    \/ N.cached # None

rdbSaveBackground(N) ==
    [rdb |-> [data |-> N.data,
              replid |-> IF HasSaveInfo(N) THEN N.replid ELSE NoId,
              offset |-> IF HasSaveInfo(N) THEN N.offset ELSE 0],
     killed |-> FALSE]

(* Mutant: the output accumulated for the other replica is not copied. *)
replicationSetupSlaveForFullResync_NoCopy(c, N, offset, out) ==
    [c EXCEPT !.st = "end",
              !.down = Append(@, [type |-> "full", replid |-> N.replid, offset |-> offset])]

(* FULLRESYNC announces the ID and offset of the snapshot; from here on the *)
(* stream is accumulated, after what another replica was to get already.    *)
replicationSetupSlaveForFullResync(c, N, offset, out) ==
    [c EXCEPT !.st = "end", !.out = out,
              !.down = Append(@, [type |-> "full", replid |-> N.replid, offset |-> offset])]

(* A BGSAVE for all the replicas that wait for one, given the connections C;*)
(* without a child they are dropped.                                        *)
startBgsaveForReplication(m, N, C) ==
    LET waiting == {s \in Nodes : C[s].to = m /\ C[s].st = "start"}
    IN \/ /\ HasSaveInfo(N)
          /\ child' = [child EXCEPT ![m] = rdbSaveBackground(N)]
          /\ conn' = [s \in Nodes |->
                IF s \in waiting
                THEN replicationSetupSlaveForFullResync(C[s], N, N.offset, <<>>)
                ELSE C[s]]
          /\ UNCHANGED events
       \/ /\ IF HasSaveInfo(N) THEN Fault ELSE UNCHANGED events
          /\ child' = [child EXCEPT ![m] = None]
          /\ conn' = [s \in Nodes |-> IF s \in waiting THEN freeSlave(C[s]) ELSE C[s]]

FullResync(s, m, req) ==
    LET N == IF HasBacklog(node[m]) \/ Slaves(m) # {} THEN node[m]
             ELSE [clearReplicationId2(changeReplicationId(m, node[m])) EXCEPT
                       !.bl = createReplicationBacklog(node[m].offset)]
        C == [conn EXCEPT ![s] = [NoConn EXCEPT !.to = m, !.st = "start"]]
        saving == {r \in Slaves(m) : conn[r].st = "end"}
    IN /\ ~CanContinue(node[m], req)
       /\ node' = [node EXCEPT ![m] = N, ![s].st = "receive_psync"]
       /\ \/ /\ child[m] = None
             /\ startBgsaveForReplication(m, N, C)
          \/ /\ child[m] # None
             /\ saving = {}
             /\ conn' = C
             /\ UNCHANGED <<child, events>>
          \/ /\ child[m] # None
             /\ \E r \in saving :
                  conn' = [C EXCEPT ![s] = replicationSetupSlaveForFullResync(
                                               C[s], N, child[m].rdb.offset, conn[r].out)]
             /\ UNCHANGED <<child, events>>

(* A replica connects and asks to continue where its data set ends          *)
(* (slaveTryPartialResynchronization, the writing half), and the request is *)
(* served.  A server whose own master link is down answers -NOMASTERLINK,   *)
(* and the replica is where it was.                                         *)
syncCommand(s) ==
    LET m   == node[s].host
        c   == node[s].cached
        req == IF c = None THEN [replid |-> Ask, offset |-> -1]
               ELSE [replid |-> c.replid, offset |-> c.reploff + 1]
    IN /\ node[s].st = "connect"
       /\ node[m].host = None \/ node[m].st = "connected"
       /\ masterTryPartialResynchronization(s, m, req) \/ FullResync(s, m, req)
       /\ UNCHANGED <<disk, writes>>

(* The BGSAVE ended.  The replicas that waited for it are sent the file and *)
(* what was accumulated since, or are dropped; a new BGSAVE starts for the  *)
(* replicas that came too late for this one.                                *)
updateSlavesWaitingBgsave(n, ok) ==
    LET served(c) == [c EXCEPT !.st = "online", !.out = <<>>,
                               !.down = Append(@, [type |-> "rdb", rdb |-> child[n].rdb])
                                        \o Commands(c.out)]
        C == [s \in Nodes |->
                IF ~(IsSlaveClient(s, n) /\ conn[s].st = "end") THEN conn[s]
                ELSE IF ok THEN served(conn[s]) ELSE freeSlave(conn[s])]
    IN IF \E s \in Slaves(n) : conn[s].st = "start"
       THEN startBgsaveForReplication(n, node[n], C)
       ELSE /\ child' = [child EXCEPT ![n] = None]
            /\ conn' = C
            /\ UNCHANGED events

backgroundSaveDoneHandler(n) ==
    /\ Saves(n)
    /\ disk' = IF child[n].killed THEN disk ELSE [disk EXCEPT ![n] = child[n].rdb]
    /\ updateSlavesWaitingBgsave(n, ~child[n].killed)
    /\ UNCHANGED <<node, writes>>

(* The child that saves fails. *)
ChildFails(n) ==
    /\ Saves(n) /\ ~child[n].killed
    /\ Fault
    /\ child' = [child EXCEPT ![n].killed = TRUE]
    /\ UNCHANGED <<node, conn, disk, writes>>

(* A BGSAVE that no replica asked for. *)
bgsaveCommand(n) ==
    /\ child[n] = None
    /\ Event
    /\ child' = [child EXCEPT ![n] = rdbSaveBackground(node[n])]
    /\ UNCHANGED <<node, conn, disk, writes>>

(* The append only file, which is off, is rewritten all the same: at most   *)
(* one child runs, and a BGREWRITEAOF during a BGSAVE starts when that is   *)
(* over.                                                                    *)
rewriteAppendOnlyFileBackground(n) ==
    /\ child[n] = None
    /\ Event
    /\ child' = [child EXCEPT ![n] = Rewrite]
    /\ UNCHANGED <<node, conn, disk, writes>>

(* The end of a rewrite starts no BGSAVE for the replicas that came then. *)
backgroundRewriteDoneHandler(n) ==
    /\ child[n] = Rewrite
    /\ child' = [child EXCEPT ![n] = None]
    /\ UNCHANGED <<node, conn, disk, writes, events>>

(* Mutant: only masters look for replicas that wait. *)
replicationCron_MastersOnly(n) ==
    /\ child[n] = None /\ node[n].host = None
    /\ \E s \in Slaves(n) : conn[s].st = "start"
    /\ startBgsaveForReplication(n, node[n], conn)
    /\ UNCHANGED <<node, disk, writes>>

(* Every second a BGSAVE is started if replicas wait for one and no child   *)
(* runs.                                                                    *)
replicationCron(n) ==
    /\ child[n] = None
    /\ \E s \in Slaves(n) : conn[s].st = "start"
    /\ startBgsaveForReplication(n, node[n], conn)
    /\ UNCHANGED <<node, disk, writes>>

(* A master that has had no replicas for a while frees its backlog: its     *)
(* offset no longer counts its writes, so its history needs a new ID.       *)
FreeIdleBacklog(n) ==
    /\ node[n].host = None /\ HasBacklog(node[n]) /\ Slaves(n) = {}
    /\ Event
    /\ node' = [node EXCEPT ![n] =
          [clearReplicationId2(changeReplicationId(n, @)) EXCEPT !.bl = NoBacklog]]
    /\ UNCHANGED <<conn, child, disk, writes>>

-----------------------------------------------------------------------------
(* The replica's side *)

Receives(s, type) == conn[s].down # <<>> /\ Head(conn[s].down).type = type

(* The connections once s read the first message. *)
Read(s, C) == [C EXCEPT ![s].down = Tail(@)]

(* +FULLRESYNC: what s has is of no use any more, to its replicas neither. *)
ReadFullResync(s) ==
    /\ Receives(s, "full")
    /\ node' = [node EXCEPT ![s] =
          [@ EXCEPT !.st = "transfer", !.cached = None, !.bl = NoBacklog,
                    !.xfer = [replid |-> Head(conn[s].down).replid,
                              reploff |-> Head(conn[s].down).offset]]]
    /\ conn' = Read(s, disconnectSlaves(s))
    /\ UNCHANGED <<child, disk, writes, events>>

(* Mutant: only the cached master gets the new ID. *)
ReadContinue_OldId(s) ==
    LET N   == node[s]
        new == Head(conn[s].down).replid
        M   == IF new = N.cached.replid THEN N
               ELSE [N EXCEPT !.replid2 = N.cached.replid, !.second = N.offset + 1,
                              !.cached.replid = new]
    IN /\ Receives(s, "continue")
       /\ node' = [node EXCEPT ![s] =
             [M EXCEPT !.st = "connected", !.master = M.cached, !.cached = None,
                       !.bl = IF HasBacklog(M) THEN @ ELSE createReplicationBacklog(M.offset)]]
       /\ conn' = Read(s, IF new = N.cached.replid THEN conn ELSE disconnectSlaves(s))
       /\ UNCHANGED <<child, disk, writes, events>>

(* +CONTINUE, perhaps under a new ID: the replicas of s must learn it. *)
ReadContinue(s) ==
    LET N   == node[s]
        new == Head(conn[s].down).replid
        M   == IF new = N.cached.replid THEN N
               ELSE [N EXCEPT !.replid2 = N.cached.replid, !.second = N.offset + 1,
                              !.replid = new, !.cached.replid = new]
    IN /\ Receives(s, "continue")
       /\ node' = [node EXCEPT ![s] =
             [M EXCEPT !.st = "connected", !.master = M.cached, !.cached = None,
                       !.bl = IF HasBacklog(M) THEN @ ELSE createReplicationBacklog(M.offset)]]
       /\ conn' = Read(s, IF new = N.cached.replid THEN conn ELSE disconnectSlaves(s))
       /\ UNCHANGED <<child, disk, writes, events>>

(* The RDB file has arrived: it replaces the file and then the data set.    *)
(* What a child of s saves is out of date, so it is killed.                 *)
readSyncBulkPayload(s) ==
    LET rdb == Head(conn[s].down).rdb
    IN /\ Receives(s, "rdb")
       /\ node' = [node EXCEPT ![s] =
             [clearReplicationId2(@) EXCEPT
                 !.data = rdb.data, !.st = "connected", !.master = node[s].xfer, !.xfer = None,
                 !.replid = node[s].xfer.replid, !.offset = node[s].xfer.reploff,
                 !.bl = IF HasBacklog(node[s]) THEN @
                        ELSE createReplicationBacklog(node[s].xfer.reploff)]]
       /\ disk' = [disk EXCEPT ![s] = rdb]
       /\ child' = [child EXCEPT ![s] = IF Saves(s) THEN [@ EXCEPT !.killed = TRUE] ELSE @]
       /\ conn' = Read(s, conn)
       /\ UNCHANGED <<writes, events>>

(* The file is damaged: the data set is gone, and so is the old file. *)
LoadFails(s) ==
    /\ Receives(s, "rdb")
    /\ Fault
    /\ node' = [node EXCEPT ![s] = [LostMaster(@) EXCEPT !.data = <<>>]]
    /\ disk' = [disk EXCEPT ![s] = None]
    /\ child' = [child EXCEPT ![s] = IF Saves(s) THEN [@ EXCEPT !.killed = TRUE] ELSE @]
    /\ conn' = [conn EXCEPT ![s] = NoConn]
    /\ UNCHANGED <<writes>>

(* A command from the master: it is applied, and passed on as it came. *)
ReadCommand(s) ==
    LET w == Head(conn[s].down).w
    IN /\ Receives(s, "cmd")
       /\ node' = [node EXCEPT ![s] = feedReplicationBacklog(
                      [@ EXCEPT !.data = Append(@, w), !.master.reploff = @ + 1], w)]
       /\ conn' = Read(s, replicationFeedSlaves(s, w))
       /\ UNCHANGED <<child, disk, writes, events>>

(* The connection was closed by the master.                                 *)
(* What the master had not written to the socket yet is lost.               *)
ReadEOF(s) ==
    /\ conn[s].st = "closed"
    /\ node' = [node EXCEPT ![s] = LostMaster(@)]
    /\ conn' = [conn EXCEPT ![s] = NoConn]
    /\ UNCHANGED <<child, disk, writes, events>>

(* The network drops the connection, or one side times out. *)
LinkBreaks(s) ==
    /\ conn[s].to # None
    /\ Fault
    /\ node' = [node EXCEPT ![s] = LostMaster(@)]
    /\ conn' = [conn EXCEPT ![s] = NoConn]
    /\ UNCHANGED <<child, disk, writes>>

-----------------------------------------------------------------------------
(* The administrator, crashes *)

(* No servers are replicas of each other in a circle. *)
LoopFree ==
    \A S \in SUBSET Nodes \ {{}} : \E n \in S : node[n].host \notin S

(* REPLICAOF h *)
replicationSetMaster(n, h) ==
    LET N == LostMaster(node[n])
    IN /\ h # n /\ h # node[n].host
       /\ Event
       /\ node' = [node EXCEPT ![n] =
             [(IF node[n].host = None THEN replicationCacheMasterUsingMyself(N) ELSE N)
              EXCEPT !.host = h]]
       /\ Circles \/ LoopFree'
       /\ conn' = [disconnectSlaves(n) EXCEPT ![n] = NoConn]
       /\ UNCHANGED <<child, disk, writes>>

(* REPLICAOF NO ONE *)
replicationUnsetMaster(n) ==
    /\ node[n].host # None
    /\ Event
    /\ node' = [node EXCEPT ![n] =
          [shiftReplicationId(n, LostMaster(@)) EXCEPT
              !.host = None, !.cached = None, !.st = "none"]]
    /\ conn' = [disconnectSlaves(n) EXCEPT ![n] = NoConn]
    /\ UNCHANGED <<child, disk, writes>>

(* n crashes and starts again from its RDB file, in the role it had; a      *)
(* replica takes over the replication ID and offset in the file.            *)
CrashRestart(n) ==
    LET rdb     == disk[n]
        N       == Server(node[n].host, IF node[n].host = None THEN "none" ELSE "connect",
                          rdb.data, <<n, node[n].ids + 1>>, 0)
        resumes == node[n].host # None /\ rdb.replid # NoId
    IN /\ rdb # None
       /\ Fault
       /\ node' = [node EXCEPT ![n] =
             IF resumes THEN replicationCacheMasterUsingMyself(
                                 [N EXCEPT !.replid = rdb.replid, !.offset = rdb.offset])
                        ELSE N]
       /\ child' = [child EXCEPT ![n] = None]
       /\ conn' = [s \in Nodes |->
             IF s = n THEN NoConn
             ELSE IF conn[s].to = n /\ conn[s].st # "closed"
             THEN freeSlave(conn[s]) ELSE conn[s]]
       /\ UNCHANGED <<disk, writes>>

-----------------------------------------------------------------------------
Step(n) ==
    \/ syncCommand(n)
    \/ backgroundSaveDoneHandler(n)
    \/ backgroundRewriteDoneHandler(n)
    \/ replicationCron(n)
    \/ ReadFullResync(n)
    \/ ReadContinue(n)
    \/ readSyncBulkPayload(n)
    \/ ReadCommand(n)
    \/ ReadEOF(n)

Next ==
    \E n \in Nodes :
        \/ Step(n)
        \/ Write(n)
        \/ ChildFails(n)
        \/ bgsaveCommand(n)
        \/ rewriteAppendOnlyFileBackground(n)
        \/ FreeIdleBacklog(n)
        \/ LoadFails(n)
        \/ LinkBreaks(n)
        \/ \E h \in Nodes : replicationSetMaster(n, h)
        \/ replicationUnsetMaster(n)
        \/ CrashRestart(n)

(* The event loops serve the sockets, the crons run every second and the    *)
(* children end: while a server can take a step, one does.  Commands of     *)
(* users, and faults, need never come.                                      *)
Spec == Init /\ [][Next]_vars /\ WF_vars(\E n \in Nodes : Step(n))

-----------------------------------------------------------------------------
(* Properties *)

Ids == (Nodes \X Nat) \union {NoId}
Offsets == 0 .. MaxWrites

Links == [replid : Ids, reploff : Offsets] \union {None}
Rdbs == [data : Seq(1 .. MaxWrites), replid : Ids, offset : Offsets]

(* Every variable has its type: offsets count writes, IDs are the cleared   *)
(* one or drawn by a server, an RDB file has an ID and offset.              *)
TypeOK ==
    /\ \A n \in Nodes :
         LET N == node[n]
         IN /\ N.host \in Nodes \union {None}
            /\ N.st \in {"none", "connect", "receive_psync", "transfer", "connected"}
            /\ N.data \in Seq(1 .. MaxWrites)
            /\ {N.replid, N.replid2} \subseteq Ids
            /\ N.offset \in Offsets /\ N.second \in Offsets \union {-1, MaxWrites + 1}
            /\ {N.master, N.cached, N.xfer} \subseteq Links
            /\ Saves(n) => child[n].rdb \in Rdbs /\ child[n].killed \in BOOLEAN
            /\ disk[n] \in Rdbs \union {None}
            /\ conn[n].to \in Nodes \union {None}
            /\ conn[n].st \in {"none", "start", "end", "online", "closed"}
    /\ writes \in 0 .. MaxWrites
    /\ events \in [all : 0 .. MaxEvents, faults : 0 .. MaxFaults]

(* The state of a replica's link and of its server agree: there is a master *)
(* client exactly while connected, never next to a cached one (asserted by  *)
(* replicationCacheMaster), and either has the ID and offset of the server, *)
(* so that the next PSYNC asks for what the data set lacks.  A server with  *)
(* replicas has a backlog (asserted by replicationFeedSlaves).              *)
LinkAgreesWithServer ==
    \A n \in Nodes :
        LET N == node[n]
        IN /\ (N.master # None) <=> (N.st = "connected")
           /\ N.master = None \/ N.cached = None
           /\ \A l \in {N.master, N.cached} :
                l # None => l = [replid |-> N.replid, reploff |-> N.offset]
           /\ Slaves(n) # {} => HasBacklog(N)

(* The last k elements of a sequence. *)
Suffix(s, k) == SubSeq(s, Len(s) - k + 1, Len(s))

(* The circular backlog holds the last histlen units of the stream, in      *)
(* order, and off is the offset of the first of them.                       *)
BacklogHoldsStream ==
    \A n \in Nodes :
        LET N == node[n]
        IN HasBacklog(N) =>
             /\ N.bl.off + N.bl.histlen = N.offset + 1
             /\ N.bl.histlen <= Len(N.data)
             /\ addReplyReplicationBacklog(N.bl, N.bl.off) = Suffix(N.data, N.bl.histlen)

(* What a replica will have once it read everything it was sent. *)
Received(s) ==
    LET ms    == conn[s].down
        files == SelectSeq(ms, LAMBDA m : m.type = "rdb")
    IN (IF files = <<>> THEN node[s].data ELSE files[1].rdb.data) \o Commanded(ms)

(* A replica that its master serves gets the master's data set: what it has *)
(* or will load, followed by what is under way to it or accumulated for it, *)
(* is what the master has, whichever of partial resynchronisation, own or   *)
(* shared BGSAVE brought it there.                                          *)
ReplicaGetsMastersData ==
    \A s \in Nodes :
        LET m == conn[s].to
        IN CASE conn[s].st = "online" -> Received(s) = node[m].data
             [] conn[s].st = "end" -> child[m].rdb.data \o conn[s].out = node[m].data
             [] OTHER -> TRUE

(* The histories a server can continue, as an ID, an offset and the data    *)
(* set of the stream with this ID up to this offset.                        *)
Prefix(s, k) == SubSeq(s, 1, Len(s) - k)

Histories(n) ==
    LET N == node[n]
    IN IF ~HasBacklog(N) /\ N.master = None /\ N.cached = None THEN {}
       ELSE {<<N.replid, N.offset, N.data>>} \union
            IF N.replid2 = NoId \/ ~HasBacklog(N) THEN {}
            ELSE {<<N.replid2, N.second - 1, Prefix(N.data, N.offset - N.second + 1)>>}

(* A replication ID and an offset determine the data set: two servers that  *)
(* could resynchronise by the same ID have data sets that differ by the     *)
(* stream between their offsets, after any sequence of promotions, crashes, *)
(* lost links and failed transfers.                                         *)
HistoryIsUnique ==
    \A m, n \in Nodes : \A g \in Histories(m), h \in Histories(n) :
        g[1] = h[1] /\ g[2] <= h[2] => Prefix(h[3], h[2] - g[2]) = g[3]

Replicated ==
    \A s \in Nodes : node[s].host # None =>
        /\ node[s].st = "connected"
        /\ node[s].data = node[node[s].host].data

(* Unless servers are configured as replicas in a circle for ever, every    *)
(* replica comes to have the data of its master, however often links broke  *)
(* and transfers failed before: none waits for a BGSAVE or a link that      *)
(* never comes.                                                             *)
ReplicasCatchUp == []<>(LoopFree => Replicated)
=============================================================================
