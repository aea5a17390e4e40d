------------------------------ MODULE Keyspace ------------------------------
(***************************************************************************)
(* One database of a master (db.c): lists and strings, the clients that    *)
(* are blocked in BLPOP, BRPOP and BRPOPLPUSH (blocked.c, t_list.c), the   *)
(* clients that WATCH keys and run MULTI/EXEC blocks (multi.c), keys that  *)
(* expire or are evicted, and the copy of the database that is kept by the *)
(* propagated commands, in a replica or in the append only file.           *)
(*                                                                         *)
(* The server executes one command at a time.  A command of a client that  *)
(* neither blocks nor watches needs no name for the client.  The other     *)
(* databases are the environment: MOVE and SWAPDB bring keys in and out.   *)
(***************************************************************************)
EXTENDS Naturals, Sequences, FiniteSets

CONSTANTS
  Clients,        \* the clients that block
  Watchers,       \* those of them that also watch keys and run transactions
  Keys,           \* key names
  None,           \* neither a client nor a key
  MaxElements     \* bound on the elements ever pushed

ASSUME WatchersAssumption == Watchers \subseteq Clients
ASSUME KeysAssumption == IsFiniteSet(Keys)
ASSUME NoneAssumption == None \notin Clients \cup Keys
ASSUME MaxElementsAssumption == MaxElements \in Nat

VARIABLES
  db,             \* the value of each key
  copy,           \* the values after the commands propagated so far
  blocking,       \* db->blocking_keys: the clients blocked on each key
  bpop,           \* what each client is blocked for
  ready,          \* server.ready_keys
  serving,        \* the ready key being served
  watched,        \* the keys each client watches
  dirty,          \* clients with CLIENT_DIRTY_CAS
  multi,          \* clients with CLIENT_MULTI
  executing,      \* the client whose EXEC is running, or None
  pushed,         \* number of elements pushed so far
  seen,           \* the values a watching client may have seen, None for any
  overwritten     \* keys that SORT STORE turned from a string into a list

vars == <<db, copy, blocking, bpop, ready, serving, watched, dirty,
          multi, executing, pushed, seen, overwritten>>

clientVars == <<blocking, bpop>>
transactionVars == <<watched, multi, executing>>

-----------------------------------------------------------------------------
Element == 1 .. MaxElements

Value == [type : {"none", "list", "string"}, list : Seq(Element)]

NoValue == [type |-> "none", list |-> <<>>]
AString == [type |-> "string", list |-> <<>>]
AList(q) == [type |-> "list", list |-> q]

Positions == {"head", "tail"}

NotBlocked == [keys |-> {}, target |-> None, where |-> "head"]
NotServing == [key |-> None, clients |-> 0]

IsList(d, k) == d[k].type = "list"
Exists(d, k) == d[k].type # "none"

\* The element that a pop takes.
Popped(d, k, where) ==
  IF where = "head" THEN Head(d[k].list) ELSE d[k].list[Len(d[k].list)]

\* A pop that leaves an empty list in place.
listTypePop(d, k, where) ==
  [d EXCEPT ![k].list = IF where = "head" THEN Tail(@) ELSE SubSeq(@, 1, Len(@) - 1)]

\* Push on a list that is created if there is none.
listTypePush(d, k, e, where) ==
  [d EXCEPT ![k] = AList(IF where = "head" THEN <<e>> \o @.list ELSE Append(@.list, e))]

\* A list is deleted when it is empty.
DropEmpty(d, k) == IF d[k].list = <<>> THEN [d EXCEPT ![k] = NoValue] ELSE d

\* The LPOP, RPOP, LPUSH and RPOPLPUSH commands, on master and copy.
pop(d, k, where) == DropEmpty(listTypePop(d, k, where), k)

rpoplpush(d, k, dst) ==
  DropEmpty(listTypePush(listTypePop(d, k, "tail"), dst, Popped(d, k, "tail"), "head"), k)

rename(d, k, dst) == [d EXCEPT ![dst] = d[k], ![k] = NoValue]

-----------------------------------------------------------------------------
(***************************************************************************)
(* What every write goes through.                                          *)
(***************************************************************************)
\* Between the commands of an EXEC no blocked client is served.
CanCall == serving = NotServing /\ (executing # None \/ ready = <<>>)

Idle == serving = NotServing /\ executing = None /\ ready = <<>>

\* Mutant: a client that has started its transaction is not made dirty.
signalModifiedKey_BeforeMulti(K) ==
  /\ dirty' = dirty \cup {c \in Watchers \ multi : watched[c] \cap K # {}}
  /\ UNCHANGED seen

\* Every client that watches one of the keys in K is made dirty.
signalModifiedKey(K) ==
  /\ dirty' = dirty \cup {c \in Watchers : watched[c] \cap K # {}}
  /\ UNCHANGED seen

\* The keys in K become v, or anything if v is None, and no watching client is
\* told.
NoSignal(K, v) ==
  /\ seen' = [c \in Watchers |-> [k \in Keys |->
                IF k \in K \cap watched[c] THEN v ELSE seen[c][k]]]
  /\ UNCHANGED dirty

Contains(q, e) == \E i \in 1 .. Len(q) : q[i] = e

\* ready after key k is signalled.
signalKeyAsReady(k) ==
  IF blocking[k] = <<>> \/ Contains(ready, k) THEN ready ELSE Append(ready, k)

\* Mutant: a push on behalf of a served client signals nothing.
dbAdd_NotServing(k, d) ==
  ready' = IF IsList(d, k) /\ ~Exists(db, k) /\ serving = NotServing
           THEN signalKeyAsReady(k) ELSE ready

\* dbAdd signals a key when it becomes a list: those who block on it wait for
\* a key that does not exist.
dbAdd(k, d) ==
  ready' = IF IsList(d, k) /\ ~Exists(db, k) THEN signalKeyAsReady(k) ELSE ready

\* A key that is no list any more has no overwritten list.
Overwrites(d) == overwritten' = {k \in overwritten : IsList(d, k)}

-----------------------------------------------------------------------------
(***************************************************************************)
(* Commands of any client, alone or inside of an EXEC.                     *)
(***************************************************************************)
NewElement == pushed + 1

pushGenericCommand(k, where) ==
  LET d == listTypePush(db, k, NewElement, where)
  IN  /\ CanCall /\ pushed < MaxElements
      /\ db[k].type # "string"
      /\ db' = d
      /\ copy' = listTypePush(copy, k, NewElement, where)
      /\ pushed' = NewElement
      /\ dbAdd(k, d)
      /\ signalModifiedKey({k})
      /\ UNCHANGED <<clientVars, serving, transactionVars, overwritten>>

\* LPOP and RPOP, and the blocking commands when they need not block.
popGenericCommand(k, where) ==
  LET d == pop(db, k, where)
  IN  /\ CanCall
      /\ IsList(db, k)
      /\ db' = d
      /\ copy' = pop(copy, k, where)
      /\ signalModifiedKey({k})
      /\ Overwrites(d)
      /\ UNCHANGED <<clientVars, ready, serving, transactionVars, pushed>>

rpoplpushCommand(k, dst) ==
  LET d == rpoplpush(db, k, dst)
  IN  /\ CanCall
      /\ IsList(db, k) /\ db[dst].type # "string"
      /\ db' = d
      /\ copy' = rpoplpush(copy, k, dst)
      /\ dbAdd(dst, d)
      /\ signalModifiedKey({k, dst})
      /\ Overwrites(d)
      /\ UNCHANGED <<clientVars, serving, transactionVars, pushed>>

\* SET: setKey with a string.
setCommand(k) ==
  LET d == [db EXCEPT ![k] = AString]
  IN  /\ CanCall
      /\ db' = d
      /\ copy' = [copy EXCEPT ![k] = AString]
      /\ signalModifiedKey({k})
      /\ Overwrites(d)
      /\ UNCHANGED <<clientVars, ready, serving, transactionVars, pushed>>

\* SORT STORE of keys elsewhere: setKey with a list.  A key that exists is
\* overwritten, and dbOverwrite does not signal it.
sortCommand(k) ==
  LET d == [db EXCEPT ![k] = AList(<<NewElement>>)]
  IN  /\ CanCall /\ pushed < MaxElements
      /\ db' = d
      /\ copy' = [copy EXCEPT ![k] = AList(<<NewElement>>)]
      /\ pushed' = NewElement
      /\ dbAdd(k, d)
      /\ signalModifiedKey({k})
      /\ overwritten' = IF db[k].type = "string" THEN overwritten \cup {k} ELSE overwritten
      /\ UNCHANGED <<clientVars, serving, transactionVars>>

delCommand(k) ==
  LET d == [db EXCEPT ![k] = NoValue]
  IN  /\ CanCall
      /\ Exists(db, k)
      /\ db' = d
      /\ copy' = [copy EXCEPT ![k] = NoValue]
      /\ signalModifiedKey({k})
      /\ Overwrites(d)
      /\ UNCHANGED <<clientVars, ready, serving, transactionVars, pushed>>

\* RENAME deletes the destination before it adds it, so that it is signalled.
renameCommand(k, dst) ==
  LET d == rename(db, k, dst)
  IN  /\ CanCall
      /\ k # dst /\ Exists(db, k)
      /\ db' = d
      /\ copy' = rename(copy, k, dst)
      /\ ready' = IF IsList(d, dst) THEN signalKeyAsReady(dst) ELSE ready
      /\ signalModifiedKey({k, dst})
      /\ overwritten' = overwritten \ {k, dst}
      /\ UNCHANGED <<clientVars, serving, transactionVars, pushed>>

\* EXPIRE touches the key; any key may have an expire in this model.
expireGenericCommand(k) ==
  /\ CanCall
  /\ Exists(db, k)
  /\ signalModifiedKey({k})
  /\ UNCHANGED <<db, copy, clientVars, ready, serving, transactionVars, pushed, overwritten>>

\* FLUSHDB touches the watched keys that exist.
flushdbCommand ==
  LET d == [k \in Keys |-> NoValue]
  IN  /\ CanCall
      /\ db' = d
      /\ copy' = [k \in Keys |-> NoValue]
      /\ signalModifiedKey({k \in Keys : Exists(db, k)})
      /\ overwritten' = {}
      /\ UNCHANGED <<clientVars, ready, serving, transactionVars, pushed>>

\* MOVE of a key of another database to this one.
MoveIn(k, v) ==
  LET d == [db EXCEPT ![k] = v]
  IN  /\ CanCall
      /\ ~Exists(db, k)
      /\ db' = d
      /\ copy' = [copy EXCEPT ![k] = v]
      /\ dbAdd(k, d)
      /\ NoSignal({k}, None)
      /\ pushed' = pushed + Len(v.list)
      /\ UNCHANGED <<clientVars, serving, transactionVars, overwritten>>

\* k is deleted, on the copy by a DEL, and no watching client is told.
DeletedUnseen(k) ==
  LET d == [db EXCEPT ![k] = NoValue]
  IN  /\ db' = d
      /\ copy' = [copy EXCEPT ![k] = NoValue]
      /\ NoSignal({k}, NoValue)
      /\ overwritten' = overwritten \ {k}
      /\ UNCHANGED <<clientVars, ready, serving, transactionVars, pushed>>

\* MOVE of k to another database.
MoveOut(k) == CanCall /\ Exists(db, k) /\ DeletedUnseen(k)

\* activeExpireCycle, or expireIfNeeded before the key is used.
expireIfNeeded(k) == serving = NotServing /\ Exists(db, k) /\ DeletedUnseen(k)

\* Eviction before a command is executed.
freeMemoryIfNeeded(k) == Idle /\ Exists(db, k) /\ DeletedUnseen(k)

\* SWAPDB: the keys of the other database come in, and those that clients are
\* blocked on are signalled.
swapdbCommand(d) ==
  LET Ready == {k \in Keys : IsList(d, k) /\ blocking[k] # <<>> /\ ~Contains(ready, k)}
  IN  /\ CanCall
      /\ db' = d
      /\ copy' = d
      /\ \E q \in [1 .. Cardinality(Ready) -> Ready] :
           /\ \A k \in Ready : Contains(q, k)
           /\ ready' = ready \o q
      /\ NoSignal(Keys, None)
      /\ pushed' = pushed + Cardinality({k \in Keys : IsList(d, k)})
      /\ overwritten' = {}
      /\ UNCHANGED <<clientVars, serving, transactionVars>>

-----------------------------------------------------------------------------
(***************************************************************************)
(* Transactions.                                                           *)
(***************************************************************************)
IsBlocked(c) == bpop[c].keys # {}

dataVars == <<db, copy, ready, serving, pushed, overwritten>>

watchCommand(c, k) ==
  /\ Idle
  /\ ~IsBlocked(c) /\ c \notin multi /\ k \notin watched[c]
  /\ watched' = [watched EXCEPT ![c] = @ \cup {k}]
  /\ seen' = [seen EXCEPT ![c][k] = db[k]]
  /\ UNCHANGED <<dataVars, clientVars, dirty, multi, executing>>

\* The client watches nothing any more.
unwatchAllKeys(c) ==
  /\ watched' = [watched EXCEPT ![c] = {}]
  /\ seen' = [seen EXCEPT ![c] = [k \in Keys |-> NoValue]]

unwatchCommand(c) ==
  /\ Idle
  /\ ~IsBlocked(c) /\ c \notin multi
  /\ unwatchAllKeys(c)
  /\ dirty' = dirty \ {c}
  /\ UNCHANGED <<dataVars, clientVars, multi, executing>>

multiCommand(c) ==
  /\ Idle
  /\ ~IsBlocked(c) /\ c \notin multi
  /\ multi' = multi \cup {c}
  /\ UNCHANGED <<dataVars, clientVars, watched, dirty, seen, executing>>

\* DISCARD, or an EXEC that fails.
discardTransaction(c) ==
  /\ unwatchAllKeys(c)
  /\ multi' = multi \ {c}
  /\ dirty' = dirty \ {c}
  /\ UNCHANGED <<dataVars, clientVars, executing>>

discardCommand(c) == Idle /\ c \in multi /\ discardTransaction(c)

\* EXEC of a client whose keys were touched.
execAborts(c) == Idle /\ c \in multi /\ c \in dirty /\ discardTransaction(c)

\* EXEC starts; the commands that were queued are chosen as they are executed.
execCommand(c) ==
  /\ Idle
  /\ c \in multi /\ c \notin dirty
  /\ unwatchAllKeys(c)
  /\ executing' = c
  /\ UNCHANGED <<dataVars, clientVars, dirty, multi>>

execDone ==
  /\ executing # None /\ serving = NotServing
  /\ executing' = None
  /\ multi' = multi \ {executing}
  /\ dirty' = dirty \ {executing}
  /\ UNCHANGED <<dataVars, clientVars, watched, seen>>

-----------------------------------------------------------------------------
(***************************************************************************)
(* Blocking.                                                               *)
(***************************************************************************)
\* Client c waits for one of the keys in K, none of which exists.
blockForKeys(c, K, target, where) ==
  /\ Idle
  /\ ~IsBlocked(c) /\ c \notin multi
  /\ \A k \in K : ~Exists(db, k)
  /\ blocking' = [k \in Keys |-> IF k \in K THEN Append(blocking[k], c) ELSE blocking[k]]
  /\ bpop' = [bpop EXCEPT ![c] = [keys |-> K, target |-> target, where |-> where]]
  /\ UNCHANGED <<dataVars, transactionVars, dirty, seen>>

blockingPopGenericCommand(c, K, where) == blockForKeys(c, K, None, where)

\* Mutant: the element is taken from the head of the list.
brpoplpushCommand_Head(c, k, dst) == blockForKeys(c, {k}, dst, "head")

brpoplpushCommand(c, k, dst) == blockForKeys(c, {k}, dst, "tail")

\* q without c, which is in it at most once.
Without(q, c) ==
  LET i == CHOOSE i \in 1 .. Len(q) : q[i] = c
  IN  IF Contains(q, c)
      THEN [j \in 1 .. Len(q) - 1 |-> IF j < i THEN q[j] ELSE q[j + 1]] ELSE q

unblockClient(c) ==
  /\ blocking' = [k \in Keys |-> Without(blocking[k], c)]
  /\ bpop' = [bpop EXCEPT ![c] = NotBlocked]

\* A timeout or CLIENT UNBLOCK.
TimesOut(c) ==
  /\ Idle
  /\ IsBlocked(c)
  /\ unblockClient(c)
  /\ UNCHANGED <<dataVars, transactionVars, dirty, seen>>

\* The connection of c is closed; another one takes its name.
freeClient(c) ==
  /\ Idle
  /\ unblockClient(c)
  /\ unwatchAllKeys(c)
  /\ multi' = multi \ {c}
  /\ dirty' = dirty \ {c}
  /\ UNCHANGED <<dataVars, executing>>

\* The next ready key, with the number of clients to look at.
handleClientsBlockedOnKeys ==
  LET k == Head(ready)
  IN  /\ serving = NotServing /\ executing = None /\ ready # <<>>
      /\ ready' = Tail(ready)
      /\ serving' = IF IsList(db, k) THEN [key |-> k, clients |-> Len(blocking[k])]
                    ELSE NotServing
      /\ UNCHANGED <<db, copy, clientVars, transactionVars, dirty, pushed, seen,
                     overwritten>>

\* The first client blocked on the key gets an element.
ServeClient ==
  LET k == serving.key
      c == Head(blocking[k])
      b == bpop[c]
      e == Popped(db, k, b.where)
      d == listTypePop(db, k, b.where)
  IN  /\ serving.clients > 0
      /\ db[k].list # <<>>
      /\ serving' = [serving EXCEPT !.clients = @ - 1]
      /\ unblockClient(c)
      /\ \/ /\ b.target = None
            /\ db' = d
            /\ copy' = pop(copy, k, b.where)
            /\ UNCHANGED <<ready, dirty, seen>>
         \/ /\ b.target # None /\ d[b.target].type # "string"
            /\ db' = listTypePush(d, b.target, e, "head")
            /\ copy' = listTypePush(pop(copy, k, "tail"), b.target, e, "head")
            /\ dbAdd(b.target, db')
            /\ signalModifiedKey({b.target})
         \/ /\ b.target # None /\ d[b.target].type = "string"
            /\ db' = listTypePush(d, k, e, b.where)
            /\ UNCHANGED <<copy, ready, dirty, seen>>
      /\ UNCHANGED <<transactionVars, pushed, overwritten>>

\* All the clients were looked at, or the list is empty.
ServeDone ==
  LET k == serving.key
      d == DropEmpty(db, k)
  IN  /\ serving # NotServing
      /\ serving.clients = 0 \/ db[k].list = <<>>
      /\ serving' = NotServing
      /\ db' = d
      /\ Overwrites(d)
      /\ UNCHANGED <<copy, clientVars, ready, transactionVars, dirty, pushed, seen>>

-----------------------------------------------------------------------------
Init ==
  /\ db = [k \in Keys |-> NoValue]
  /\ copy = db
  /\ blocking = [k \in Keys |-> <<>>]
  /\ bpop = [c \in Clients |-> NotBlocked]
  /\ ready = <<>>
  /\ serving = NotServing
  /\ watched = [c \in Watchers |-> {}]
  /\ dirty = {}
  /\ multi = {}
  /\ executing = None
  /\ pushed = 0
  /\ seen = [c \in Watchers |-> [k \in Keys |-> NoValue]]
  /\ overwritten = {}

\* What MOVE and SWAPDB may bring in for a key: nothing, a string or a list of
\* one new element.
Incoming == {AString} \cup (IF pushed < MaxElements THEN {AList(<<NewElement>>)} ELSE {})

Swapped ==
  {d \in [Keys -> {NoValue} \cup Incoming] : Cardinality({k \in Keys : IsList(d, k)}) <= 1}

Write ==
  \/ \E k \in Keys, where \in Positions : pushGenericCommand(k, where)
  \/ \E k \in Keys, where \in Positions : popGenericCommand(k, where)
  \/ \E k, dst \in Keys : rpoplpushCommand(k, dst)
  \/ \E k \in Keys : setCommand(k)
  \/ \E k \in Keys : sortCommand(k)
  \/ \E k \in Keys : delCommand(k)
  \/ \E k, dst \in Keys : renameCommand(k, dst)
  \/ \E k \in Keys : expireGenericCommand(k)
  \/ flushdbCommand
  \/ \E k \in Keys, v \in Incoming : MoveIn(k, v)
  \/ \E k \in Keys : MoveOut(k)
  \/ \E d \in Swapped : swapdbCommand(d)
  \/ \E k \in Keys : expireIfNeeded(k)
  \/ \E k \in Keys : freeMemoryIfNeeded(k)

Transaction ==
  \/ \E c \in Watchers, k \in Keys : watchCommand(c, k)
  \/ \E c \in Watchers : unwatchCommand(c)
  \/ \E c \in Watchers : multiCommand(c)
  \/ \E c \in Watchers : discardCommand(c)
  \/ \E c \in Watchers : execAborts(c)
  \/ \E c \in Watchers : execCommand(c)
  \/ execDone

Blocked ==
  \/ \E c \in Clients, K \in SUBSET Keys \ {{}}, where \in Positions :
       blockingPopGenericCommand(c, K, where)
  \/ \E c \in Clients, k, dst \in Keys : brpoplpushCommand(c, k, dst)
  \/ \E c \in Clients : TimesOut(c)
  \/ \E c \in Watchers : freeClient(c)
  \/ handleClientsBlockedOnKeys
  \/ ServeClient
  \/ ServeDone

Next == Write \/ Transaction \/ Blocked

Spec == Init /\ [][Next]_vars

-----------------------------------------------------------------------------
\* The types of the variables; at most MaxElements elements are pushed.
TypeOK ==
  /\ db \in [Keys -> Value] /\ copy \in [Keys -> Value]
  /\ blocking \in [Keys -> Seq(Clients)]
  /\ bpop \in [Clients -> [keys : SUBSET Keys, target : Keys \cup {None}, where : Positions]]
  /\ ready \in Seq(Keys)
  /\ serving \in [key : Keys, clients : Nat] \cup {NotServing}
  /\ watched \in [Watchers -> SUBSET Keys]
  /\ dirty \subseteq Watchers /\ multi \subseteq Watchers
  /\ executing \in Watchers \cup {None}
  /\ pushed \in 0 .. MaxElements
  /\ seen \in [Watchers -> [Keys -> Value \cup {None}]]
  /\ overwritten \subseteq Keys

\* When the server has finished a command, no client is blocked on a key that
\* holds a list, however the list came to be there: by a push, by the push
\* side of another BRPOPLPUSH, by RENAME, MOVE or SWAPDB, inside of an EXEC or
\* after a BRPOPLPUSH that failed and was undone.  The exception is a list
\* that SORT STORE wrote over a string.
NobodyWaitsForData ==
  Idle => \A k \in Keys : IsList(db, k) /\ blocking[k] # <<>> => k \in overwritten

\* A client that is not dirty sees at EXEC the values it saw when it watched
\* the keys, but for keys that were moved, swapped, evicted or that expired
\* since.  The pops for blocked clients are not signalled at all: "it was
\* already called when an element was pushed on the list".
WatchedKeysUnchanged ==
  \A c \in Watchers \ dirty : \A k \in watched[c] : seen[c][k] \in {db[k], None}

\* The propagated commands rebuild the database: a blocking command is
\* propagated as the pops and pushes done for it, when it is served, and not
\* at all when it fails.
CopyAgrees == Idle => copy = db

=============================================================================
