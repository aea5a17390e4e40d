------------------------------ MODULE Streams ------------------------------
(***************************************************************************)
(* One stream key with one consumer group on a master (t_stream.c), the    *)
(* clients blocked in XREADGROUP on it (blocked.c), and a copy fed by the  *)
(* commands the master propagates: a replica, or the append only file.     *)
(*                                                                         *)
(* An entry is its ID.  IDs are 0 .. MaxID, so MaxID stands for the last   *)
(* possible ID and 0 for 0-0.  Times and delivery counters are left out:   *)
(* an XCLAIM names the pending entries whose idle time is too short.       *)
(***************************************************************************)
EXTENDS Integers, Sequences, FiniteSets

CONSTANTS
  Consumers,      \* consumer names
  None,           \* no consumer
  Dollar,         \* the ID argument "$"
  MaxID,          \* the last possible ID
  Options,        \* COUNT (0 when it is not given) and NOACK of the reads
  BlockOptions,   \* those of the reads that block
  MaxBlocked,     \* bound on the clients blocked at the same time
  MaxLag          \* bound on the propagated commands in flight

ASSUME ConsumersAssumption == None \notin Consumers
ASSUME MaxIDAssumption == MaxID \in Nat \ {0}
ASSUME OptionsAssumption ==
  Options \cup BlockOptions \subseteq [count : Nat, noack : BOOLEAN]

VARIABLES
  master,         \* the stream of the master
  copy,           \* the stream rebuilt from the propagated commands
  link,           \* propagated commands that the copy has not executed yet
  blocked,        \* clients blocked in XREADGROUP, in blocking order
  ready,          \* the key is in server.ready_keys
  serving,        \* clients handleClientsBlockedOnKeys has still to look at
  settled         \* IDs acknowledged, or skipped at a client's request

vars == <<master, copy, link, blocked, ready, serving, settled>>

ID == 0 .. MaxID

\* 0-0 is the ID of no entry: commands that name it find nothing.
EntryID == 1 .. MaxID

-----------------------------------------------------------------------------
(***************************************************************************)
(* The stream and its group.  A NACK is shared by the group's PEL, where   *)
(* it is found by ID and names its consumer, and by the PEL of that        *)
(* consumer: pel[id] is the NACK's consumer, pels[c] the IDs in c's PEL.   *)
(***************************************************************************)
Group == [created : BOOLEAN, last_id : ID, pel : [EntryID -> Consumers \cup {None}],
          consumers : SUBSET Consumers, pels : [Consumers -> SUBSET EntryID]]

Stream == [exists : BOOLEAN, ids : SUBSET EntryID, last_id : ID, cg : Group]

streamCreateCG(id) ==
  [created |-> TRUE, last_id |-> id, pel |-> [i \in EntryID |-> None],
   consumers |-> {}, pels |-> [c \in Consumers |-> {}]]

NoGroup == [streamCreateCG(0) EXCEPT !.created = FALSE]

NoStream == [exists |-> FALSE, ids |-> {}, last_id |-> 0, cg |-> NoGroup]

streamNew == [NoStream EXCEPT !.exists = TRUE]

MaxOf(a, b) == IF a > b THEN a ELSE b

\* Mutant: a read starts at the last ID itself.
streamIncrID_Inclusive(id) == id

streamIncrID(id) == (id + 1) % (MaxID + 1)

\* The ID argument of XGROUP CREATE and SETID.
ArgID(s, arg) == IF arg = Dollar THEN s.last_id ELSE arg

\* The first n elements of S, all of them when n is 0.
FirstOf(S, n) == {e \in S : n = 0 \/ Cardinality({x \in S : x < e}) < n}

\* The last n elements of S.
LastOf(S, n) == {e \in S : Cardinality({x \in S : x > e}) < n}

\* The orders in which a command may name or meet the elements of S.
Listings(S) ==
  {q \in [1 .. Cardinality(S) -> S] :
     \A i, j \in 1 .. Cardinality(S) : q[i] = q[j] => i = j}

Ascending(S) ==
  {q \in Listings(S) :
     \A i, j \in 1 .. Cardinality(S) : i < j => q[i] < q[j]}

-----------------------------------------------------------------------------
(***************************************************************************)
(* What a command does to the stream it is executed on, master or copy.    *)
(***************************************************************************)
\* Exact trimming to n entries; a "~" leaves some length and is propagated
\* as the exact trimming to that length (streamRewriteApproxMaxlen).
streamTrimByLength(s, n) == [s EXCEPT !.ids = LastOf(@, n)]

XaddAllowed(s, id) == id > 0 /\ s.last_id # MaxID /\ id > s.last_id

xadd(s, id, maxlen) ==
  IF XaddAllowed(s, id)
  THEN streamTrimByLength([s EXCEPT !.exists = TRUE, !.ids = @ \cup {id},
                                    !.last_id = id], maxlen)
  ELSE s

xdel(s, id) == [s EXCEPT !.ids = @ \ {id}]

\* Mutant: the last ID is set without looking at the top entry.
XsetidAllowed_Any(s, id) == s.exists

XsetidAllowed(s, id) == s.exists /\ \A e \in s.ids : id >= e

xsetid(s, id) == IF XsetidAllowed(s, id) THEN [s EXCEPT !.last_id = id] ELSE s

xgroupCreate(s, arg, mkstream) ==
  IF (s.exists \/ mkstream) /\ ~s.cg.created
  THEN [s EXCEPT !.exists = TRUE, !.cg = streamCreateCG(ArgID(s, arg))]
  ELSE s

xgroupSetid(s, arg) ==
  IF s.cg.created THEN [s EXCEPT !.cg.last_id = ArgID(s, arg)] ELSE s

xgroupDestroy(s) == [s EXCEPT !.cg = NoGroup]

streamLookupConsumer(g, c) == [g EXCEPT !.consumers = @ \cup {c}]

\* Mutant: a reassigned entry stays in the PEL of its old consumer.
Reassign_Keeps(g, c, S) ==
  [streamLookupConsumer(g, c) EXCEPT
     !.pel  = [i \in EntryID |-> IF i \in S THEN c ELSE @[i]],
     !.pels[c] = @ \cup S]

\* The NACKs of S, created where there is none, now belong to c.
Reassign(g, c, S) ==
  [streamLookupConsumer(g, c) EXCEPT
     !.pel  = [i \in EntryID |-> IF i \in S THEN c ELSE @[i]],
     !.pels = [x \in Consumers |->
                 (@[x] \ {i \in S : g.pel[i] = x}) \cup (IF x = c THEN S ELSE {})]]

streamDelConsumer(s, c) ==
  IF s.cg.created /\ c \in s.cg.consumers
  THEN [s EXCEPT !.cg.pel = [i \in EntryID |-> IF i \in s.cg.pels[c] THEN None ELSE @[i]],
                 !.cg.consumers = @ \ {c}, !.cg.pels[c] = {}]
  ELSE s

xack(s, S) ==
  IF s.cg.created
  THEN [s EXCEPT !.cg.pel = [i \in EntryID |-> IF i \in S THEN None ELSE @[i]],
                 !.cg.pels = [c \in Consumers |->
                                @[c] \ {i \in S : s.cg.pel[i] = c}]]
  ELSE s

\* The IDs of S that XCLAIM takes: young are those not idle for long enough.
Claimable(s, S, force, young) ==
  {i \in S : \/ s.cg.pel[i] # None /\ i \notin young
             \/ s.cg.pel[i] = None /\ force /\ i \in s.ids}

xclaim(s, c, S, force, young, lastid) ==
  LET g == [s.cg EXCEPT !.last_id = MaxOf(@, lastid)]
      C == Claimable(s, S, force, young)
  IN  IF ~s.cg.created THEN s
      ELSE [s EXCEPT !.cg = IF C = {} THEN g ELSE Reassign(g, c, C)]

\* The entries that a read from start on takes.
EntriesFrom(s, start, count) == FirstOf({e \in s.ids : e >= start}, count)

\* The entries q, in order, are given to consumer c of the group.
streamReplyWithRange(s, c, q, noack) ==
  LET D == {q[i] : i \in DOMAIN q}
      g == [streamLookupConsumer(s.cg, c) EXCEPT
              !.last_id = IF q = <<>> THEN @ ELSE MaxOf(@, q[Len(q)])]
  IN  [s EXCEPT !.cg = IF noack THEN g ELSE Reassign(g, c, D)]

-----------------------------------------------------------------------------
(***************************************************************************)
(* The commands a server propagates.  XREADGROUP and XCLAIM propagate one  *)
(* XCLAIM 0 <id> ... FORCE JUSTID LASTID for each entry they assign; the   *)
(* others are propagated as they were executed.                            *)
(***************************************************************************)
Command ==
  [op : {"XADD"}, id : EntryID, maxlen : ID]
    \cup [op : {"XDEL"}, id : EntryID]
    \cup [op : {"XSETID"}, id : ID]
    \cup [op : {"XTRIM"}, maxlen : ID]
    \cup [op : {"CREATE"}, id : ID \cup {Dollar}, mkstream : BOOLEAN]
    \cup [op : {"SETID"}, id : ID \cup {Dollar}]
    \cup [op : {"DELCONSUMER"}, consumer : Consumers]
    \cup [op : {"XACK"}, ids : SUBSET EntryID]
    \cup [op : {"XCLAIM"}, consumer : Consumers, id : EntryID, lastid : ID]
    \cup [op : {"DESTROY", "DEL"}]

Execute(s, cmd) ==
  CASE cmd.op = "XADD"        -> xadd(s, cmd.id, cmd.maxlen)
    [] cmd.op = "XDEL"        -> xdel(s, cmd.id)
    [] cmd.op = "XSETID"      -> xsetid(s, cmd.id)
    [] cmd.op = "XTRIM"       -> streamTrimByLength(s, cmd.maxlen)
    [] cmd.op = "CREATE"      -> xgroupCreate(s, cmd.id, cmd.mkstream)
    [] cmd.op = "SETID"       -> xgroupSetid(s, cmd.id)
    [] cmd.op = "DELCONSUMER" -> streamDelConsumer(s, cmd.consumer)
    [] cmd.op = "XACK"        -> xack(s, cmd.ids)
    [] cmd.op = "XCLAIM"      -> xclaim(s, cmd.consumer, {cmd.id}, TRUE, {}, cmd.lastid)
    [] cmd.op = "DESTROY"     -> xgroupDestroy(s)
    [] cmd.op = "DEL"         -> NoStream

\* Mutant: XCLAIM is propagated without LASTID.
streamPropagateXCLAIM_NoLastid(g, c, id) ==
  [op |-> "XCLAIM", consumer |-> c, id |-> id, lastid |-> 0]

streamPropagateXCLAIM(g, c, id) ==
  [op |-> "XCLAIM", consumer |-> c, id |-> id, lastid |-> g.last_id]

streamPropagateGroupID(g) == [op |-> "SETID", id |-> g.last_id]

\* Mutant: every entry is propagated with the last ID of the whole read.
Deliveries_FinalLast(g, c, q, noack) ==
  LET gn == [g EXCEPT !.last_id = MaxOf(@, q[Len(q)])]
  IN  [i \in DOMAIN q |-> IF noack THEN streamPropagateGroupID(gn)
                          ELSE streamPropagateXCLAIM(gn, c, q[i])]

\* What delivering q propagates: the group's last ID as of each entry.
Deliveries(g, c, q, noack) ==
  [i \in DOMAIN q |->
     LET gi == [g EXCEPT !.last_id = MaxOf(@, q[i])]
     IN  IF noack THEN streamPropagateGroupID(gi)
         ELSE streamPropagateXCLAIM(gi, c, q[i])]

-----------------------------------------------------------------------------
(***************************************************************************)
(* Commands of the clients of the master.  Until the key is served, the    *)
(* commands executed are those of one MULTI/EXEC block or script.          *)
(***************************************************************************)
Free == serving = <<>> /\ Len(link) <= MaxLag

Does(cmd) ==
  /\ Free
  /\ Execute(master, cmd) # master
  /\ master' = Execute(master, cmd)
  /\ link' = Append(link, cmd)
  /\ UNCHANGED <<copy, blocked, serving>>

xaddCommand(id, maxlen) ==
  /\ Does([op |-> "XADD", id |-> id, maxlen |-> maxlen])
  /\ ready' = (ready \/ blocked # <<>>)
  /\ UNCHANGED settled

xdelCommand(id) ==
  /\ Does([op |-> "XDEL", id |-> id])
  /\ UNCHANGED <<ready, settled>>

xtrimCommand(maxlen) ==
  /\ Does([op |-> "XTRIM", maxlen |-> maxlen])
  /\ UNCHANGED <<ready, settled>>

\* Moving the stream's last ID back lets entries be added that the group
\* takes for old ones.
xsetidCommand(id) ==
  /\ Does([op |-> "XSETID", id |-> id])
  /\ settled' = IF id < master.last_id
                THEN settled \cup 1 .. master.cg.last_id ELSE settled
  /\ UNCHANGED ready

\* The clients skip the entries up to the ID that they give a group.
xgroupCreateCommand(arg, mkstream) ==
  /\ Does([op |-> "CREATE", id |-> arg, mkstream |-> mkstream])
  /\ settled' = settled \cup 1 .. ArgID(master, arg)
  /\ UNCHANGED ready

xgroupSetidCommand(arg) ==
  /\ Does([op |-> "SETID", id |-> arg])
  /\ settled' = settled \cup 1 .. ArgID(master, arg)
  /\ UNCHANGED ready

xgroupDestroyCommand ==
  /\ Does([op |-> "DESTROY"])
  /\ UNCHANGED <<ready, settled>>

xgroupDelconsumerCommand(c) ==
  /\ Does([op |-> "DELCONSUMER", consumer |-> c])
  /\ settled' = settled \cup master.cg.pels[c]
  /\ UNCHANGED ready

xackCommand(S) ==
  /\ Does([op |-> "XACK", ids |-> S])
  /\ settled' = settled \cup {i \in S : master.cg.pel[i] # None}
  /\ UNCHANGED ready

delCommand ==
  /\ Does([op |-> "DEL"])
  /\ UNCHANGED <<ready, settled>>

\* The client chooses whether to give LASTID; 0 is the value without it.
xclaimCommand(c, S, force, young, lastid) ==
  LET C    == Claimable(master, S, force, young)
      next == xclaim(master, c, S, force, young, lastid)
  IN  /\ Free
      /\ master.cg.created
      /\ C # {} \/ lastid > master.cg.last_id
      /\ master' = next
      /\ \E q \in Listings(C) :
           link' = link \o IF C = {} THEN <<streamPropagateGroupID(next.cg)>>
                           ELSE [i \in DOMAIN q |->
                                   streamPropagateXCLAIM(next.cg, c, q[i])]
      /\ settled' = IF lastid > master.cg.last_id
                    THEN settled \cup 1 .. lastid ELSE settled
      /\ UNCHANGED <<copy, blocked, ready, serving>>

\* Give q to consumer c and propagate it.  Without a NACK nobody has to
\* acknowledge the entries.
Deliver(c, q, noack) ==
  /\ master' = streamReplyWithRange(master, c, q, noack)
  /\ link' = link \o Deliveries(master.cg, c, q, noack)
  /\ settled' = IF noack THEN settled \cup {q[i] : i \in DOMAIN q} ELSE settled

\* XREADGROUP with ">", when the group has not been given the last entry.
xreadgroupCommand(c, count, noack) ==
  LET start == streamIncrID(master.cg.last_id)
  IN  /\ Free
      /\ master.cg.created
      /\ \E e \in master.ids : e > master.cg.last_id
      /\ \E q \in Ascending(EntriesFrom(master, start, count)) : Deliver(c, q, noack)
      /\ UNCHANGED <<copy, blocked, ready, serving>>

\* XREADGROUP with an ID: only the consumer may be new.  The delivery counts
\* it raises are not modelled, and are not propagated.
xreadgroupHistory(c) ==
  /\ Free
  /\ master.cg.created
  /\ master' = [master EXCEPT !.cg = streamLookupConsumer(@, c)]
  /\ UNCHANGED <<copy, link, blocked, ready, serving, settled>>

\* XREADGROUP BLOCK with ">" and nothing to give.
blockForKeys(c, count, noack) ==
  /\ Free /\ ~ready
  /\ master.cg.created
  /\ ~ \E e \in master.ids : e > master.cg.last_id
  /\ Len(blocked) < MaxBlocked
  /\ blocked' = Append(blocked, [consumer |-> c, count |-> count, noack |-> noack])
  /\ UNCHANGED <<master, copy, link, ready, serving, settled>>

-----------------------------------------------------------------------------
\* The i-th client is no longer blocked.
unblockClient(i) ==
  blocked' = SubSeq(blocked, 1, i - 1) \o SubSeq(blocked, i + 1, Len(blocked))

\* A timeout, CLIENT UNBLOCK or a disconnection.
TimesOut(i) ==
  /\ serving = <<>> /\ ~ready
  /\ unblockClient(i)
  /\ UNCHANGED <<master, copy, link, ready, serving, settled>>

\* Mutant: only the client that blocked first is looked at.
handleClientsBlockedOnKeys_First ==
  /\ serving = <<>> /\ ready
  /\ ready' = FALSE
  /\ serving' = IF master.exists THEN SubSeq(blocked, 1, 1) ELSE <<>>
  /\ UNCHANGED <<master, copy, link, blocked, settled>>

\* The block of commands is over: look at the clients blocked on the key.
handleClientsBlockedOnKeys ==
  /\ serving = <<>> /\ ready
  /\ ready' = FALSE
  /\ serving' = IF master.exists THEN blocked ELSE <<>>
  /\ UNCHANGED <<master, copy, link, blocked, settled>>

\* The clients still to look at are the last ones of the blocked clients.
ServePosition == Len(blocked) - Len(serving) + 1

ServeBlocked ==
  LET cl == Head(serving)
      gt == master.cg.last_id
  IN  /\ serving # <<>>
      /\ serving' = Tail(serving)
      /\ \/ /\ ~master.cg.created
            /\ unblockClient(ServePosition)
            /\ UNCHANGED <<master, link, settled>>
         \/ /\ master.cg.created /\ master.last_id > gt
            /\ \E q \in Ascending(EntriesFrom(master, streamIncrID(gt), cl.count)) :
                 Deliver(cl.consumer, q, cl.noack)
            /\ unblockClient(ServePosition)
         \/ /\ master.cg.created /\ master.last_id <= gt
            /\ UNCHANGED <<master, link, blocked, settled>>
      /\ UNCHANGED <<copy, ready>>

-----------------------------------------------------------------------------
\* The copy executes the next command.
CopyExecutes ==
  /\ link # <<>>
  /\ copy' = Execute(copy, Head(link))
  /\ link' = Tail(link)
  /\ UNCHANGED <<master, blocked, ready, serving, settled>>

\* An RDB file: the owner of a NACK is the consumer whose PEL lists it.
LoadableGroup(g) ==
  /\ \A c \in Consumers : \A i \in g.pels[c] : g.pel[i] # None
  /\ \A c \in Consumers \ g.consumers : g.pels[c] = {}

rdbLoadGroup(g) ==
  [g EXCEPT !.pel = [i \in EntryID |->
     IF g.pel[i] # None /\ \E c \in Consumers : i \in g.pels[c]
     THEN CHOOSE c \in Consumers : i \in g.pels[c] ELSE None]]

\* The copy starts again from an RDB file of the master.
FullResync ==
  /\ Free /\ ~ready
  /\ LoadableGroup(master.cg)
  /\ copy' = [master EXCEPT !.cg = rdbLoadGroup(@)]
  /\ link' = <<>>
  /\ UNCHANGED <<master, blocked, ready, serving, settled>>

\* The copy takes over, with the commands it has got.
Failover ==
  /\ serving = <<>> /\ ~ready
  /\ master' = copy
  /\ link' = <<>>
  /\ blocked' = <<>>
  /\ UNCHANGED <<copy, ready, serving, settled>>

\* Mutant: no XSETID after the XADDs.
RewrittenEntries_NoSetid(s) ==
  IF s.ids = {} THEN xadd(NoStream, s.last_id, 0)
  ELSE [streamNew EXCEPT !.ids = s.ids,
          !.last_id = CHOOSE m \in s.ids : \A e \in s.ids : m >= e]

\* The stream that the XADDs of the entries rebuild, or the XADD MAXLEN 0 of
\* the last ID when there is none, followed by XSETID.
RewrittenEntries(s) ==
  xsetid(IF s.ids = {} THEN xadd(NoStream, s.last_id, 0)
         ELSE [streamNew EXCEPT !.ids = s.ids,
                 !.last_id = CHOOSE m \in s.ids : \A e \in s.ids : m >= e],
         s.last_id)

\* What loading the commands of rewriteStreamObject gives: the entries, then
\* XGROUP CREATE and an XCLAIM FORCE for each entry of each consumer's PEL.
rewriteStreamObject(s) ==
  LET t         == IF s.cg.created THEN xgroupCreate(RewrittenEntries(s), s.cg.last_id, FALSE)
                   ELSE RewrittenEntries(s)
      Claims(c) == Claimable(t, s.cg.pels[c], TRUE, {})
      Claimants == {c \in Consumers : Claims(c) # {}}
  IN  IF ~t.cg.created THEN t
      ELSE [t EXCEPT
              !.cg.consumers = Claimants,
              !.cg.pels = [c \in Consumers |-> Claims(c)],
              !.cg.pel  = [i \in EntryID |-> IF \E c \in Claimants : i \in Claims(c)
                                        THEN CHOOSE c \in Claimants : i \in Claims(c)
                                        ELSE None]]

Init ==
  /\ master = NoStream
  /\ copy = NoStream
  /\ link = <<>>
  /\ blocked = <<>>
  /\ ready = FALSE
  /\ serving = <<>>
  /\ settled = {}

Writes ==
  \/ \E id \in EntryID, maxlen \in ID : xaddCommand(id, maxlen)
  \/ \E id \in EntryID : xdelCommand(id)
  \/ \E maxlen \in ID : xtrimCommand(maxlen)
  \/ \E id \in ID : xsetidCommand(id)
  \/ delCommand

GroupCommands ==
  \/ \E arg \in ID \cup {Dollar}, mkstream \in BOOLEAN : xgroupCreateCommand(arg, mkstream)
  \/ \E arg \in ID \cup {Dollar} : xgroupSetidCommand(arg)
  \/ xgroupDestroyCommand
  \/ \E c \in Consumers : xgroupDelconsumerCommand(c)
  \/ \E S \in SUBSET EntryID : xackCommand(S)
  \/ \E c \in Consumers, S \in SUBSET EntryID, force \in BOOLEAN, lastid \in ID :
       \E young \in SUBSET S : xclaimCommand(c, S, force, young, lastid)

Readers ==
  \/ \E c \in Consumers, o \in Options : xreadgroupCommand(c, o.count, o.noack)
  \/ \E c \in Consumers, o \in BlockOptions : blockForKeys(c, o.count, o.noack)
  \/ \E c \in Consumers : xreadgroupHistory(c)
  \/ \E i \in 1 .. Len(blocked) : TimesOut(i)
  \/ handleClientsBlockedOnKeys
  \/ ServeBlocked

Next == Writes \/ GroupCommands \/ Readers \/ CopyExecutes \/ FullResync \/ Failover

Spec == Init /\ [][Next]_vars

-----------------------------------------------------------------------------
Client == [consumer : Consumers, count : Nat, noack : BOOLEAN]

\* The variables have their types; the clients still to be looked at are the
\* last of the blocked ones.
TypeOK ==
  /\ master \in Stream
  /\ copy \in Stream
  /\ link \in Seq(Command)
  /\ blocked \in Seq(Client)
  /\ ready \in BOOLEAN
  /\ serving \in Seq(Client)
  /\ settled \in SUBSET EntryID
  /\ Len(serving) <= Len(blocked)

\* An entry is in the PEL of a consumer exactly when the NACK in the group's
\* PEL names that consumer, and a NACK names a consumer that was not freed.
\* XREADGROUP calls serverPanic, XACK and XCLAIM follow a dangling pointer,
\* and an RDB file cannot be loaded when this fails.
GroupAgrees(g) ==
  /\ \A c \in Consumers, i \in EntryID : i \in g.pels[c] <=> g.pel[i] = c
  /\ \A i \in EntryID : g.pel[i] # None => g.pel[i] \in g.consumers
  /\ g.created \/ g = NoGroup

\* On the master and on the copy, whatever part of the propagated commands
\* the copy has executed, the two kinds of PEL agree.
PelsAgree == GroupAgrees(master.cg) /\ GroupAgrees(copy.cg)

\* The "fundamental ID monotonicity assumption" of xsetidCommand: no entry of
\* the stream is above last_id, so the next XADD is above all of them.
Monotone(s) == (\A e \in s.ids : 0 < e /\ e <= s.last_id) /\ (s.exists \/ s = NoStream)

\* Streams stay monotone through XADD, XDEL, trimming and XSETID, on both.
IdsMonotone == Monotone(master) /\ Monotone(copy)

\* A copy that has executed every propagated command has the entries, the last
\* IDs and the pending entries of the master, with the same owners.  The
\* propagated XCLAIM and XGROUP SETID commands stand for an XREADGROUP or an
\* XCLAIM that is itself never propagated.  (Consumers without pending entries
\* "have no semantical value" and may differ.)
CopyAgrees ==
  link = <<>> =>
    /\ copy.exists = master.exists
    /\ copy.ids = master.ids
    /\ copy.last_id = master.last_id
    /\ copy.cg.created = master.cg.created
    /\ copy.cg.last_id = master.cg.last_id
    /\ copy.cg.pel = master.cg.pel
    /\ copy.cg.pels = master.cg.pels

\* An entry the group will not deliver any more is pending for a consumer,
\* unless it was acknowledged, read with NOACK or skipped by a client: this
\* holds on the copy after any part of the XCLAIMs of one XREADGROUP, so a
\* copy that takes over there loses no entry.
NothingLost ==
  \A s \in {master, copy} :
    s.cg.created => \A e \in s.ids :
      e <= s.cg.last_id => s.cg.pel[e] # None \/ e \in settled

\* A read with ">", at once or when a blocked client is served, gives a
\* consumer only entries above the group's last ID, however many clients
\* are served in the same round.
DeliversOnlyNew ==
  [][\/ \A e \in EntryID : master'.cg.pel[e] # master.cg.pel[e] => e > master.cg.last_id
     \/ ~ (\/ ServeBlocked
           \/ \E c \in Consumers, o \in Options : xreadgroupCommand(c, o.count, o.noack))]_vars

\* When all the blocked clients were looked at, none is still blocked while
\* the group has an entry to deliver.
RoundServesReaders ==
  [][serving # <<>> /\ serving' = <<>> =>
       \/ blocked' = <<>>
       \/ \A e \in master'.ids : e <= master'.cg.last_id]_vars

\* Loading a rewritten log gives the stream, its last ID, the group with its
\* last ID, and the owners of the pending entries that were not deleted.
Kept(s) ==
  LET t == rewriteStreamObject(s)
  IN  /\ t.exists /\ t.ids = s.ids /\ t.last_id = s.last_id
      /\ t.cg.created = s.cg.created
      /\ t.cg.last_id = s.cg.last_id
      /\ \A i \in s.ids : t.cg.pel[i] = s.cg.pel[i]
      /\ GroupAgrees(t.cg)

\* rewriteStreamObject keeps every stream whose last ID is not 0-0.  A stream
\* made by XGROUP CREATE MKSTREAM and never added to has the last ID 0-0: its
\* "XADD MAXLEN 0" is refused when the log is loaded, then its XSETID and its
\* XGROUP CREATE, and the stream is lost with its group.
RewriteKeepsUsedStream == master.exists /\ master.last_id # 0 => Kept(master)

=============================================================================
