--------------------------- MODULE AppendOnlyFile ---------------------------
(***************************************************************************)
(* The append only file: the write commands of the server are appended to  *)
(* a buffer, the buffer is written to the file before the event loop       *)
(* sleeps, the file is synced by the main thread or by a background        *)
(* thread, and a forked child rewrites the file while the parent keeps     *)
(* sending it what it executes.                                            *)
(*                                                                         *)
(* The k-th write command is the number k; hist records the database it    *)
(* ran in.  A file is a sequence of tokens.  A command, or a SELECT, is    *)
(* two tokens, so that a short write or a power failure can tear it (a     *)
(* MULTI ... EXEC block is one command here: loading drops it as a whole). *)
(* What the rewriting child saves at first is one token holding hist.      *)
(* Times are ages in seconds, counted up to the value the code compares    *)
(* them with.                                                              *)
(*                                                                         *)
(* Restarts load the append only file: the configuration file says         *)
(* "appendonly yes", "aof-load-truncated yes".                             *)
(*                                                                         *)
(* Two paths of the code damage the file, and file.damaged records it: a   *)
(* buffer left by a failing stop is written to a file it does not belong   *)
(* to, and loading a file torn right after its RDB preamble empties it.    *)
(* Replies that leave before the file is synced are modelled too; AllReplies *)
(* says if they count as acknowledgments.                                  *)
(***************************************************************************)
EXTENDS Integers, Sequences, SequencesExt

CONSTANTS
    DBs,           \* the databases in use
    Settings,      \* the pairs of appendfsync and no-appendfsync-on-rewrite in use
    Preamble,      \* aof-use-rdb-preamble
    AllReplies,    \* every reply is an acknowledgment: also those that nothing
                   \* orders after the flush of beforeSleep()
    PipeSize,      \* the capacity of the pipe to the child, in tokens
    MaxCommands,   \* bound on the number of commands
    MaxJobs,       \* bound on the fsync jobs pending when a rewrite starts
    MaxFailures    \* bound on the number of I/O errors and crashes

ASSUME DBsAssumption == DBs \subseteq Nat
ASSUME SettingsAssumption == Settings \subseteq {"always", "everysec", "no"} \X BOOLEAN
ASSUME SwitchAssumption ==
    Preamble \in BOOLEAN /\ AllReplies \in BOOLEAN
ASSUME BoundAssumption ==
    /\ PipeSize \in Nat \ {0} /\ MaxCommands \in Nat
    /\ MaxJobs \in Nat /\ MaxFailures \in Nat

VARIABLES
    up,         \* the process runs
    hist,       \* the data set: the databases of the commands executed, in order
    promised,   \* history: how many were acknowledged under "always"
    since,      \* history: how many were executed before that policy was in force
    handler,    \* a client with pending replies and a write handler
    aof,        \* the server.aof_* fields
    file,       \* the file named appendfilename: data, how much is synced, and
                \* (history) whether it was damaged since it was created
    bio,        \* the queue of the fsync thread, and the fsync under way
    child,      \* the rewriting child
    rw,         \* the rewrite buffer and the pipes between parent and child
    rdbChild,   \* a BGSAVE is in progress
    failures    \* the number of I/O errors and crashes so far

vars == <<up, hist, promised, since, handler, aof, file, bio, child, rw,
          rdbChild, failures>>

NoDb == -1
NotPostponed == -1

-----------------------------------------------------------------------------
(* Tokens, and what loading a file does *)

Item(x) == << <<1, x>>, <<2, x>> >>
Base(h) == <<0, h>>

IsBase(t) == t[1] = 0
IsSelect(t) == t[1] = 2 /\ t[2][1] = "select"
IsCommand(t) == t[1] = 2 /\ t[2][1] = "cmd"

(* The file ends in the middle of a command. *)
Torn(data) == data # <<>> /\ Last(data)[1] = 1

(* Apart from a torn end the file is well formed. *)
WellFormed(data) ==
    \A i \in DOMAIN data :
        /\ data[i][1] \in 0 .. 2
        /\ IsBase(data[i]) => i = 1
        /\ data[i][1] = 1 /\ i < Len(data) => data[i + 1] = <<2, data[i][2]>>
        /\ data[i][1] = 2 => i > 1 /\ data[i - 1] = <<1, data[i][2]>>

(* The database selected when the i-th token is executed; the one that the  *)
(* snapshot of a rewrite leaves selected is not specified.                  *)
SelectedDb(data, i) ==
    LET S == {j \in 1 .. i : IsBase(data[j]) \/ IsSelect(data[j])}
        m == CHOOSE j \in S : \A k \in S : k <= j
    IN IF S = {} THEN 0 ELSE IF IsBase(data[m]) THEN NoDb ELSE data[m][2][2]

(* What loadAppendOnlyFile() does with a well formed file: the commands it  *)
(* executes after the snapshot, each as its number and its database.        *)
BaseOf(data) == IF data # <<>> /\ IsBase(data[1]) THEN data[1][2] ELSE <<>>

loadAppendOnlyFile(data) ==
    LET run == SelectSeq([i \in DOMAIN data |-> <<data[i], SelectedDb(data, i)>>],
                         LAMBDA x : IsCommand(x[1]))
    IN [m \in DOMAIN run |-> <<run[m][1][2][2], run[m][2]>>]

(* The resulting data set. *)
Replayed(data) ==
    LET run == loadAppendOnlyFile(data)
    IN BaseOf(data) \o [m \in DOMAIN run |-> run[m][2]]

Stable(data) == Len(BaseOf(data)) + Len(SelectSeq(data, IsCommand))

(* The file is well formed, and its commands follow each other and the      *)
(* snapshot without gap or repetition.                                      *)
Loadable(data) ==
    /\ WellFormed(data)
    /\ LET run == loadAppendOnlyFile(data)
       IN \A m \in DOMAIN run : run[m][1] = Len(BaseOf(data)) + m

(* A torn file is truncated after its last complete command; valid_up_to    *)
(* does not count an RDB preamble.                                          *)
valid_up_to(data) ==
    IF Preamble /\ Len(data) = 2 /\ IsBase(data[1]) THEN 0 ELSE Len(data) - 1

Truncated(data) == IF Torn(data) THEN SubSeq(data, 1, valid_up_to(data)) ELSE data

(* ftruncate(): what is added to a shorter file is zeros. *)
Resized(data, size) == [i \in 1 .. size |-> IF i <= Len(data) THEN data[i] ELSE <<3, 0>>]

-----------------------------------------------------------------------------
(* The state after a start, with the file as it is on disk *)

NoChild == [st |-> "none", base |-> <<>>, diff |-> <<>>]
NoPipes == [buf |-> <<>>, pipe |-> <<>>, stop |-> FALSE]
NoHandler == [kind |-> "none", owes |-> 0, read |-> FALSE]

Started(data, policy, norw) ==
    [state |-> "ON", buf |-> <<>>, stale |-> FALSE,
     current_size |-> Len(data), fsync_offset |-> Len(data), loaded |-> Len(data), selected_db |-> NoDb,
     postponed |-> NotPostponed, fsync_age |-> 0, write_ok |-> TRUE,
     rewrite_scheduled |-> FALSE, fsync |-> policy, no_fsync_on_rewrite |-> norw]

NoFsync == [jobs |-> <<>>, fsyncing |-> -1]

Init ==
    /\ up = TRUE
    /\ hist = <<>>
    /\ promised = 0
    /\ since = 0
    /\ handler = NoHandler
    /\ \E set \in Settings : aof = Started(<<>>, set[1], set[2])
    /\ file = [data |-> <<>>, synced |-> 0, damaged |-> FALSE]
    /\ bio = NoFsync
    /\ child = NoChild
    /\ rw = NoPipes
    /\ rdbChild = FALSE
    /\ failures = 0

-----------------------------------------------------------------------------
(* Writing and syncing the file.  The operators below take and return the   *)
(* part of the state the main thread works on, so that the handlers that    *)
(* call them can be written as the sequences of calls they are.             *)

Srv == [aof |-> aof, file |-> file, bio |-> bio]

HasChild == child.st # "none" \/ rdbChild

aofFsyncInProgress(s) == s.bio.jobs # <<>>

(* A job is TRUE when its descriptor is the one of the file in use. *)
aof_background_fsync(s) ==
    [s EXCEPT !.bio.jobs = Append(@, s.aof.state # "OFF")]

redis_fsync(s) ==
    [s EXCEPT !.file.synced = IF s.aof.state # "OFF" THEN Len(s.file.data) ELSE @]

TryFsync(s, inProgress) ==
    IF s.aof.no_fsync_on_rewrite /\ HasChild THEN s
    ELSE IF s.aof.fsync = "always"
    THEN [redis_fsync(s) EXCEPT !.aof.fsync_offset = s.aof.current_size,
                                !.aof.fsync_age = 0]
    ELSE IF s.aof.fsync = "everysec" /\ s.aof.fsync_age > 0
    THEN IF inProgress
         THEN [s EXCEPT !.aof.fsync_age = 0]
         ELSE [aof_background_fsync(s) EXCEPT
                   !.aof.fsync_offset = s.aof.current_size,
                   !.aof.fsync_age = 0]
    ELSE s

(* aofWrite() wrote the first n tokens of the buffer and then all of it, or *)
(* failed there.  A stale buffer does not continue the file.                *)
Written(s, n) ==
    [s EXCEPT !.file.data = @ \o SubSeq(s.aof.buf, 1, n),
              !.file.damaged = @ \/ (s.aof.stale /\ n > 0),
              !.aof.postponed = NotPostponed]

WriteSucceeds(s) ==
    LET n == Len(s.aof.buf)
    IN [Written(s, n) EXCEPT !.aof.write_ok = TRUE, !.aof.buf = <<>>,
                             !.aof.stale = FALSE,
                             !.aof.current_size = @ + n]

(* Mutant: the buffer is not trimmed after a short write that stays. *)
WriteFails_KeepsAll(s, n, removed) ==
    [Written(s, n) EXCEPT
        !.aof.write_ok = FALSE,
        !.file.data = IF removed THEN Resized(@, s.aof.current_size) ELSE @,
        !.aof.current_size = IF removed THEN @ ELSE @ + n]

(* The write failed after n tokens, and ftruncate() removed them or not. *)
WriteFails(s, n, removed) ==
    IF removed
    THEN [Written(s, n) EXCEPT
              !.aof.write_ok = FALSE,
              !.file.data = Resized(@, s.aof.current_size)]
    ELSE [Written(s, n) EXCEPT
              !.aof.write_ok = FALSE,
              !.aof.buf = SubSeq(@, n + 1, Len(@)),
              !.aof.current_size = @ + n]

(* Mutant: no limit of two seconds. *)
Postpones_ForEver(s, force) ==
    s.aof.fsync = "everysec" /\ ~force /\ aofFsyncInProgress(s)

Postpones(s, force) ==
    /\ s.aof.fsync = "everysec" /\ ~force
    /\ aofFsyncInProgress(s)
    /\ s.aof.postponed < 2

(* Mutant: nothing to do when the buffer is empty. *)
SyncsIdleFile_Never(s) == FALSE

SyncsIdleFile(s) ==
    /\ s.aof.fsync = "everysec"
    /\ s.aof.fsync_offset # s.aof.current_size
    /\ s.aof.fsync_age > 0
    /\ ~aofFsyncInProgress(s)

(* flushAppendOnlyFile(force) without an I/O error. *)
flushAppendOnlyFile(force, s) ==
    IF s.aof.buf = <<>>
    THEN IF SyncsIdleFile(s) THEN TryFsync(s, FALSE) ELSE s
    ELSE IF Postpones(s, force)
    THEN [s EXCEPT !.aof.postponed = IF @ = NotPostponed THEN 0 ELSE @]
    ELSE IF s.aof.state = "OFF" THEN WriteFails(s, 0, FALSE)
    ELSE TryFsync(WriteSucceeds(s), aofFsyncInProgress(s))

(* What it may leave behind when the write fails. *)
FlushErrors(force, s) ==
    { WriteFails(s, n, removed) :
        n \in IF Postpones(s, force) \/ s.aof.state = "OFF" THEN {}
              ELSE 0 .. Len(s.aof.buf) - 1,
        removed \in BOOLEAN }

SetSrv(d) == aof' = d.aof /\ file' = d.file /\ bio' = d.bio

Fail == failures < MaxFailures /\ failures' = failures + 1

(* The process is gone, and what it had in memory. *)
Gone ==
    /\ up' = FALSE
    /\ handler' = NoHandler
    /\ aof' = Started(<<>>, aof.fsync, aof.no_fsync_on_rewrite)
    /\ bio' = NoFsync
    /\ child' = NoChild
    /\ rw' = NoPipes
    /\ rdbChild' = FALSE
    /\ UNCHANGED <<hist, promised>>

-----------------------------------------------------------------------------
(* Commands and replies *)

(* "We have the contract with the user that on acknowledged write data is   *)
(* synced on disk" (flushAppendOnlyFile): the policy is always, and         *)
(* no-appendfsync-on-rewrite does not suspend it.                           *)
Contract ==
    /\ aof.fsync = "always" /\ aof.state = "ON"
    /\ ~(aof.no_fsync_on_rewrite /\ HasChild)

(* Replies are written.  Those to the first flushed commands were ordered   *)
(* after the flush of beforeSleep(), those to the others were not.  They    *)
(* are a promise if the contract was in force when the commands were        *)
(* executed.                                                                *)
Reply(flushed) ==
    LET n == IF AllReplies THEN Len(hist) ELSE flushed
    IN promised' = IF Contract /\ n > since /\ n > promised THEN n ELSE promised

writeCommandsDeniedByDiskError == aof.state # "OFF" /\ ~aof.write_ok

feedAppendOnlyFile(db) ==
    LET select == IF db # aof.selected_db THEN Item(<<"select", db>>) ELSE <<>>
        buf    == select \o Item(<<"cmd", Len(hist) + 1>>)
    IN /\ aof' = [aof EXCEPT !.selected_db = db,
                             !.buf = IF aof.state = "ON" THEN @ \o buf ELSE @]
       /\ rw' = IF child.st # "none"
                THEN [rw EXCEPT !.buf = @ \o buf]
                ELSE rw

(* A client's write command is executed and propagated.  The client may be  *)
(* the one with the handler, whose descriptor is then served for reading.   *)
Command ==
    /\ up
    /\ Len(hist) < MaxCommands
    /\ ~writeCommandsDeniedByDiskError
    /\ \E db \in DBs :
          /\ hist' = Append(hist, db)
          /\ IF aof.state # "OFF" THEN feedAppendOnlyFile(db)
                                  ELSE UNCHANGED <<aof, rw>>
    /\ \/ UNCHANGED handler
       \/ /\ handler.kind # "none"
          /\ handler' = [handler EXCEPT !.owes = Len(hist'), !.read = TRUE]
    /\ UNCHANGED <<up, promised, file, bio, child, rdbChild, failures>>

(* The replies a client does not take at once are left to a write handler;  *)
(* only under "always" it matters when they leave.  The poll of this        *)
(* iteration, if it was made, did not ask if the client is writable.        *)
InstallHandler(polled) ==
    /\ handler.kind = "none" /\ aof.fsync = "always"
    /\ handler' = [kind |-> IF aof.state = "ON" THEN "barrier" ELSE "plain",
                   owes |-> Len(hist), read |-> polled]
    /\ UNCHANGED promised

(* The loop sleeps: its next iteration serves every descriptor anew. *)
handleClientsWithPendingWrites ==
    \/ Reply(Len(hist)) /\ handler' = [handler EXCEPT !.read = FALSE]
    \/ InstallHandler(FALSE)

(* The end of beforeSleep(): the buffer is flushed and the replies are      *)
(* written.  serverCron() calls the same flush and writes no replies.       *)
beforeSleep ==
    /\ up
    /\ UNCHANGED <<up, hist, child, rw, rdbChild, failures>>
    /\ SetSrv(flushAppendOnlyFile(FALSE, Srv))
    /\ handleClientsWithPendingWrites

(* The write fails.  The server exits if the policy is always; otherwise it *)
(* refuses write commands until a later flush succeeds.                     *)
FlushFails ==
    /\ up
    /\ Fail
    /\ \E d \in FlushErrors(FALSE, Srv) :
          IF aof.fsync = "always"
          THEN file' = d.file /\ Gone
          ELSE /\ SetSrv(d)
               /\ handleClientsWithPendingWrites
               /\ UNCHANGED <<up, hist, child, rw, rdbChild>>

(* Mutant: a descriptor is served for writing after it was for reading. *)
sendReplyToClient_NoBarrier ==
    /\ up /\ handler.kind # "none"
    /\ handler' = NoHandler
    /\ Reply(IF handler.kind = "barrier" THEN handler.owes ELSE 0)
    /\ UNCHANGED <<up, hist, aof, file, bio, child, rw, rdbChild, failures>>

(* The poll returned the client as writable.  AE_BARRIER makes the loop     *)
(* write to a descriptor before it reads from it: the client's own commands *)
(* were executed before the last beforeSleep().  One that another client's  *)
(* command executed for it (a blocked pop) was perhaps not, and without the *)
(* barrier nothing is sure.                                                 *)
sendReplyToClient ==
    /\ up /\ handler.kind # "none"
    /\ handler.kind = "barrier" => ~handler.read
    /\ handler' = NoHandler
    /\ Reply(IF handler.kind = "barrier" THEN handler.owes ELSE 0)
    /\ UNCHANGED <<up, hist, aof, file, bio, child, rw, rdbChild, failures>>

(* Events are processed while a script or the loading of a file blocks the  *)
(* loop: replies are written, also by the handler, and no beforeSleep() was *)
(* called since the commands before.                                        *)
processEventsWhileBlocked ==
    /\ up
    /\ \/ Reply(0) /\ handler' \in {handler, NoHandler}
       \/ InstallHandler(TRUE)
    /\ UNCHANGED <<up, hist, aof, file, bio, child, rw, rdbChild, failures>>

-----------------------------------------------------------------------------
(* The fsync thread *)

(* It takes the first job; what is in the file now will be synced. *)
BioFsyncStarts ==
    /\ up /\ bio.jobs # <<>> /\ bio.fsyncing = -1
    /\ bio' = [bio EXCEPT !.fsyncing = IF Head(bio.jobs) THEN Len(file.data) ELSE 0]
    /\ UNCHANGED <<up, hist, promised, handler, aof, file, child, rw,
                   rdbChild, failures>>

(* The fsync returns, and the job is removed from the queue. *)
BioFsyncReturns ==
    /\ up /\ bio.fsyncing # -1
    /\ file' = [file EXCEPT !.synced = IF @ > bio.fsyncing THEN @ ELSE bio.fsyncing]
    /\ bio' = [jobs |-> Tail(bio.jobs), fsyncing |-> -1]
    /\ UNCHANGED <<up, hist, promised, handler, aof, child, rw,
                   rdbChild, failures>>

-----------------------------------------------------------------------------
(* The rewrite: parent and child *)

(* Mutant: the differences do not start with a SELECT. *)
Forked_SameDb(a) == [a EXCEPT !.rewrite_scheduled = FALSE]

(* fork(): the child has the data set of this moment. *)
Forked(a) == [a EXCEPT !.rewrite_scheduled = FALSE, !.selected_db = NoDb]

rewriteAppendOnlyFileBackground ==
    /\ ~HasChild
    /\ child' = [st |-> "saving", base |-> hist, diff |-> <<>>]
    /\ rw' = NoPipes

(* BGREWRITEAOF, or the growth of the file: a rewrite starts, or it is      *)
(* scheduled because a BGSAVE is in progress.                               *)
bgrewriteaofCommand ==
    /\ up
    /\ child.st = "none"
    /\ Len(bio.jobs) < MaxJobs
    /\ IF rdbChild
       THEN /\ aof' = [aof EXCEPT !.rewrite_scheduled = TRUE]
            /\ UNCHANGED <<child, rw>>
       ELSE /\ rewriteAppendOnlyFileBackground
            /\ aof' = Forked(aof)
    /\ UNCHANGED <<up, hist, promised, handler, file, bio, rdbChild, failures>>

(* serverCron() starts a scheduled rewrite. *)
CronStartsRewrite ==
    /\ up
    /\ aof.rewrite_scheduled
    /\ rewriteAppendOnlyFileBackground
    /\ aof' = Forked(aof)
    /\ UNCHANGED <<up, hist, promised, handler, file, bio, rdbChild, failures>>

(* Mutant: a short write is taken for a complete one. *)
aofChildWriteDiffData_Overfills ==
    /\ up /\ child.st # "none"
    /\ rw.buf # <<>> /\ ~rw.stop
    /\ rw' = [rw EXCEPT !.pipe = @ \o rw.buf, !.buf = <<>>]
    /\ UNCHANGED <<up, hist, promised, handler, aof, file, bio, child,
                   rdbChild, failures>>

(* The parent sends what it can of the rewrite buffer: all that fits in the *)
(* pipe.  The handler is installed while the buffer is not empty, until the *)
(* child asked to stop.                                                     *)
aofChildWriteDiffData ==
    /\ up /\ child.st # "none"
    /\ rw.buf # <<>> /\ ~rw.stop
    /\ LET room == PipeSize - Len(rw.pipe)
           n    == IF Len(rw.buf) < room THEN Len(rw.buf) ELSE room
       IN rw' = [rw EXCEPT !.pipe = @ \o SubSeq(rw.buf, 1, n),
                           !.buf = SubSeq(@, n + 1, Len(@))]
    /\ UNCHANGED <<up, hist, promised, handler, aof, file, bio, child,
                   rdbChild, failures>>

(* The parent reads the child's '!', stops sending and acknowledges. *)
aofChildPipeReadable ==
    /\ up /\ child.st = "asked" /\ ~rw.stop
    /\ rw' = [rw EXCEPT !.stop = TRUE]
    /\ UNCHANGED <<up, hist, promised, handler, aof, file, bio, child,
                   rdbChild, failures>>

aofReadDiffFromParent ==
    /\ child.st = "saving" /\ rw.pipe # <<>>
    /\ child' = [child EXCEPT !.diff = @ \o rw.pipe]
    /\ rw' = [rw EXCEPT !.pipe = <<>>]
    /\ UNCHANGED <<up, hist, promised, handler, aof, file, bio,
                   rdbChild, failures>>

(* The snapshot is written: the child asks the parent to stop. *)
ChildAsks ==
    /\ child.st = "saving"
    /\ child' = [child EXCEPT !.st = "asked"]
    /\ UNCHANGED <<up, hist, promised, handler, aof, file, bio, rw,
                   rdbChild, failures>>

(* It was acknowledged: the child reads the rest, writes all it read after  *)
(* the snapshot, syncs the file and exits.                                  *)
ChildFinishes ==
    /\ child.st = "asked" /\ rw.stop
    /\ child' = [child EXCEPT !.st = "ok", !.diff = @ \o rw.pipe]
    /\ rw' = [rw EXCEPT !.pipe = <<>>]
    /\ UNCHANGED <<up, hist, promised, handler, aof, file, bio,
                   rdbChild, failures>>

(* An I/O error, a signal, or no acknowledgment within five seconds. *)
ChildFails ==
    /\ child.st \in {"saving", "asked"}
    /\ Fail
    /\ child' = [child EXCEPT !.st = "err"]
    /\ UNCHANGED <<up, hist, promised, handler, aof, file, bio, rw, rdbChild>>

(* The parent appends the rest of the rewrite buffer, renames the file and  *)
(* takes it into use if the append only file is enabled.  If it is not, a   *)
(* buffer that a failing stop left stays, and belongs to the old file.      *)
Switched(s) ==
    LET old == [s EXCEPT
                  !.file = [data |-> <<Base(child.base)>> \o child.diff \o rw.buf,
                            synced |-> 1 + Len(child.diff), damaged |-> FALSE],
                  !.aof.stale = s.aof.buf # <<>>,
                  !.bio.jobs = [i \in DOMAIN s.bio.jobs |-> FALSE],
                  !.bio.fsyncing = IF @ = -1 THEN -1 ELSE 0]
        new == CASE s.aof.fsync = "always" -> redis_fsync(old)
                 [] s.aof.fsync = "everysec" -> aof_background_fsync(old)
                 [] OTHER -> old
        size == Len(old.file.data)
    IN IF s.aof.state = "OFF" THEN old
       ELSE [new EXCEPT !.aof.selected_db = NoDb, !.aof.current_size = size,
                        !.aof.fsync_offset = size, !.aof.loaded = 0,
                        !.aof.buf = <<>>, !.aof.stale = FALSE,
                        !.aof.state = "ON"]

(* Mutant: a failed rewrite is not tried again. *)
RewriteCleanup_GivesUp(s) ==
    /\ SetSrv(s)
    /\ child' = NoChild
    /\ rw' = NoPipes
    /\ UNCHANGED <<up, hist, promised, handler, rdbChild>>

(* The end of the handler, on every path. *)
RewriteCleanup(s) ==
    /\ SetSrv([s EXCEPT !.aof.rewrite_scheduled = @ \/ s.aof.state = "WAIT_REWRITE"])
    /\ child' = NoChild
    /\ rw' = NoPipes
    /\ UNCHANGED <<up, hist, promised, handler, rdbChild>>

backgroundRewriteDoneHandler ==
    \/ /\ up /\ child.st = "ok"
       /\ RewriteCleanup(Switched(Srv))
       /\ UNCHANGED failures
    \/ /\ up /\ child.st = "ok"       \* open, write or rename failed
       /\ Fail
       /\ RewriteCleanup(Srv)
    \/ /\ up /\ child.st = "err"
       /\ RewriteCleanup(Srv)
       /\ UNCHANGED failures

-----------------------------------------------------------------------------
(* Turning the append only file off and on *)

(* CONFIG SET appendonly no: the buffer is flushed, whether that succeeds   *)
(* or not, the file is synced and the child killed.                         *)
Stopped(flushed) ==
    LET s == redis_fsync(flushed)
    IN /\ SetSrv([s EXCEPT !.aof.state = "OFF", !.aof.selected_db = NoDb,
                           !.bio.jobs = [i \in DOMAIN s.bio.jobs |-> FALSE],
                           !.bio.fsyncing = IF @ = -1 THEN -1 ELSE 0])
       /\ child' = NoChild
       /\ rw' = NoPipes
       /\ UNCHANGED <<up, hist, promised, handler, rdbChild>>

stopAppendOnly ==
    /\ up /\ aof.state # "OFF"
    /\ \/ Stopped(flushAppendOnlyFile(TRUE, Srv)) /\ UNCHANGED failures
       \/ /\ Fail
          /\ \E d \in FlushErrors(TRUE, Srv) :
                IF aof.fsync = "always" THEN file' = d.file /\ Gone
                                        ELSE Stopped(d)

(* CONFIG SET appendonly yes: the commands reach the file only after a      *)
(* rewrite; a rewrite of before cannot serve and is killed.                 *)
startAppendOnly ==
    /\ up /\ aof.state = "OFF"
    /\ Len(bio.jobs) < MaxJobs
    /\ LET a == [aof EXCEPT !.state = "WAIT_REWRITE", !.fsync_age = 0]
       IN IF rdbChild
          THEN /\ aof' = [a EXCEPT !.rewrite_scheduled = TRUE]
               /\ UNCHANGED <<child, rw>>
          ELSE /\ child' = [st |-> "saving", base |-> hist, diff |-> <<>>]
               /\ rw' = NoPipes
               /\ aof' = Forked(a)
    /\ UNCHANGED <<up, hist, promised, handler, file, bio, rdbChild, failures>>

(* SHUTDOWN or SIGTERM: refused while the first rewrite is under way. *)
prepareForShutdown ==
    /\ up
    /\ ~(aof.state = "WAIT_REWRITE" /\ child.st # "none")
    /\ \/ /\ LET s == redis_fsync(flushAppendOnlyFile(TRUE, Srv))
             IN file' = IF aof.state = "OFF" THEN file ELSE s.file
          /\ UNCHANGED failures
       \/ /\ aof.state # "OFF" /\ Fail
          /\ \E d \in FlushErrors(TRUE, Srv) :
                file' = IF aof.fsync = "always" THEN d.file ELSE redis_fsync(d).file
    /\ Gone

-----------------------------------------------------------------------------
(* The environment *)

(* The other child: a BGSAVE takes the only place a child has. *)
BgsaveStarts ==
    /\ up /\ ~HasChild
    /\ rdbChild' = TRUE
    /\ UNCHANGED <<up, hist, promised, handler, aof, file, bio, child,
                   rw, failures>>

BgsaveEnds ==
    /\ up /\ rdbChild
    /\ rdbChild' = FALSE
    /\ UNCHANGED <<up, hist, promised, handler, aof, file, bio, child,
                   rw, failures>>

(* server.unixtime advances by a second; only "everysec" looks at it. *)
Tick ==
    /\ up /\ aof.fsync = "everysec"
    /\ aof' = [aof EXCEPT
                  !.fsync_age = 1,
                  !.postponed = IF @ \in {NotPostponed, 2} THEN @ ELSE @ + 1]
    /\ UNCHANGED <<up, hist, promised, handler, file, bio, child, rw,
                   rdbChild, failures>>

(* The process is killed: what it wrote is in the page cache. *)
Crash ==
    /\ up /\ Fail
    /\ Gone
    /\ UNCHANGED file

(* The machine fails: any part of what was not synced may be lost. *)
PowerFailure ==
    /\ up /\ Fail
    /\ Gone
    /\ \E n \in file.synced .. Len(file.data) :
          file' = [file EXCEPT !.data = SubSeq(@, 1, n), !.synced = n]

(* The server starts and loads the file, after truncating it if it is torn. *)
(* What a damaged file lost is no longer counted as promised.               *)
Restart ==
    /\ ~up /\ up' = TRUE
    /\ WellFormed(file.data)
    /\ LET data == Truncated(file.data)
       IN /\ hist' = Replayed(file.data)
          /\ file' = [data |-> data,
                      synced |-> IF file.synced < Len(data) THEN file.synced
                                                            ELSE Len(data),
                      damaged |-> file.damaged \/ BaseOf(data) # BaseOf(file.data)]
          /\ aof' = Started(data, aof.fsync, aof.no_fsync_on_rewrite)
    /\ promised' = IF file.damaged /\ promised > Len(hist') THEN Len(hist') ELSE promised
    /\ UNCHANGED <<handler, bio, child, rw, rdbChild, failures>>

(* "Bad file format reading the append only file": the server exits. *)
RefusesToStart ==
    /\ ~up /\ ~WellFormed(file.data)
    /\ UNCHANGED <<up, hist, promised, handler, aof, file, bio, child, rw,
                   rdbChild, failures>>

Step ==
    \/ Command \/ beforeSleep \/ FlushFails \/ sendReplyToClient
    \/ processEventsWhileBlocked
    \/ BioFsyncStarts \/ BioFsyncReturns
    \/ bgrewriteaofCommand \/ CronStartsRewrite
    \/ aofChildWriteDiffData \/ aofChildPipeReadable \/ aofReadDiffFromParent
    \/ ChildAsks \/ ChildFinishes \/ ChildFails \/ backgroundRewriteDoneHandler
    \/ stopAppendOnly \/ startAppendOnly \/ prepareForShutdown
    \/ BgsaveStarts \/ BgsaveEnds \/ Tick \/ Crash \/ PowerFailure
    \/ Restart \/ RefusesToStart

History == since' = IF Contract' THEN since ELSE Len(hist')

Next == Step /\ History

(* The event loop runs, time passes, and the children and what the parent   *)
(* does for them make progress.  The disk owes the fsync thread nothing.    *)
Progress ==
    \/ CronStartsRewrite \/ ChildAsks \/ aofChildPipeReadable
    \/ ChildFinishes \/ backgroundRewriteDoneHandler \/ BgsaveEnds

Fairness ==
    /\ WF_vars(beforeSleep /\ History)
    /\ WF_vars(Tick /\ History)
    /\ WF_vars(Progress /\ History)

Spec == Init /\ [][Next]_vars /\ Fairness

-----------------------------------------------------------------------------
(* Properties *)

(* The fields have their types; the bytes synced exist, the pipe holds no   *)
(* more than its capacity.                                                  *)
TypeOK ==
    /\ up \in BOOLEAN /\ rdbChild \in BOOLEAN
    /\ hist \in Seq(DBs)
    /\ since \in Nat /\ promised \in Nat
    /\ handler \in [kind : {"none", "plain", "barrier"}, owes : Nat, read : BOOLEAN]
    /\ aof.state \in {"ON", "OFF", "WAIT_REWRITE"}
    /\ aof.postponed \in -1 .. 2 /\ aof.fsync_age \in 0 .. 1
    /\ aof.fsync_offset \in Nat /\ aof.current_size \in Nat
    /\ file.synced \in 0 .. Len(file.data)
    /\ bio.fsyncing \in -1 .. Len(file.data)
    /\ child.st \in {"none", "saving", "asked", "ok", "err"}
    /\ Len(rw.pipe) <= PipeSize
    /\ failures \in 0 .. MaxFailures

(* At every moment the file on disk, unless it is damaged, can be loaded    *)
(* and holds a prefix of the commands executed, each in its own database;   *)
(* together with the buffer it holds all of them while the append only file *)
(* is on.                                                                   *)
FileReplaysHistory ==
    ~file.damaged =>
        /\ Loadable(file.data)
        /\ IsPrefix(Replayed(file.data), hist)
        /\ up /\ aof.state = "ON" => Replayed(file.data \o aof.buf) = hist

(* What the child has, what is in the pipe and what the parent still holds  *)
(* rebuild the data set exactly: the hand-off loses and repeats nothing.    *)
RewriteReplaysHistory ==
    child.st \in {"saving", "asked", "ok"} /\ aof.state # "OFF" =>
        LET data == <<Base(child.base)>> \o child.diff \o rw.pipe \o rw.buf
        IN Loadable(data) /\ Replayed(data) = hist

(* The file, its buffers, its threads and its children implement a log with *)
(* a stable and a promised prefix: killing the process loses nothing that   *)
(* was written, and a power failure loses nothing that was acknowledged     *)
(* under "always", unless the file is damaged.  The next rewrite repairs a  *)
(* damaged file.                                                            *)
DL == INSTANCE DurableLog WITH
          Entries <- DBs, log <- hist, stable <- Stable(file.data),
          promised <- promised, up <- up, damaged <- file.damaged

DurableLogSpec == DL!Spec

(* A write is not postponed for ever, even if the fsync it waits for never  *)
(* returns: while the server runs the buffer gets empty again and again.    *)
PostponedIsWritten == []<>(up /\ aof.state = "ON" => aof.buf = <<>>)

(* Under "everysec" what was written gets synced, although no further       *)
(* command is executed, if fsync calls return and no child suspends them    *)
(* for ever.                                                                *)
WrittenIsSynced ==
    /\ WF_vars((BioFsyncStarts \/ BioFsyncReturns) /\ History)
    /\ <>[]~(aof.no_fsync_on_rewrite /\ HasChild)
    => []<>(up /\ aof.fsync = "everysec" /\ Len(file.data) > aof.loaded =>
                file.synced = Len(file.data))

(* The server does not stay in the state of waiting for the rewrite that    *)
(* turns the append only file on, whatever rewrites fail on the way, unless *)
(* BGSAVEs keep taking the child's place.                                   *)
RewriteSwitchesOn == <>[]~rdbChild => []<>(up => aof.state # "WAIT_REWRITE")

=============================================================================
