--------------------------- MODULE KeyspaceProofs ---------------------------
(***************************************************************************)
(* For any clients, keys and number of elements: no client waits for data  *)
(* that is there, the watched keys of a client that is not dirty have the  *)
(* values it saw, and the propagated commands rebuild the database.        *)
(***************************************************************************)
EXTENDS KeyspaceWritesProofs

-----------------------------------------------------------------------------
(***************************************************************************)
(* Transactions and blocking.                                              *)
(***************************************************************************)
\* A step that changes what client c watches, and nothing but that.
LEMMA UnwatchOK ==
  ASSUME IInv, NEW c \in Watchers, unwatchAllKeys(c), dirty' \subseteq dirty,
         dirty \ {c} \subseteq dirty',
         UNCHANGED <<db, ready, serving>>
  PROVE  /\ WatchedOK'
         /\ seen' \in [Watchers -> [Keys -> Value \cup {None}]]
         /\ watched' \in [Watchers -> SUBSET Keys]
         /\ watched'[c] = {} /\ \A a \in Watchers \ {c} : watched'[a] = watched[a]
<1>0. TypeOK
  BY DEF IInv
<1>1. /\ watched' \in [Watchers -> SUBSET Keys]
      /\ watched'[c] = {} /\ \A a \in Watchers \ {c} : watched'[a] = watched[a]
  BY <1>0 DEF TypeOK, unwatchAllKeys
<1>2. \A a \in Watchers \ {c} : seen'[a] = seen[a]
  BY <1>0 DEF TypeOK, unwatchAllKeys
<1>3. seen' \in [Watchers -> [Keys -> Value \cup {None}]]
  <2>1. [k \in Keys |-> NoValue] \in [Keys -> Value \cup {None}]
    BY ValuesOK
  <2> QED
    BY <1>0, <2>1 DEF TypeOK, unwatchAllKeys
<1>4. WatchedOK'
  BY <1>1, <1>2 DEF IInv, WatchedOK, IsList
<1> QED
  BY <1>1, <1>3, <1>4

\* Transactions leave the data and the blocked clients alone.
LEMMA TransactionOK ==
  ASSUME IInv, UNCHANGED <<dataVars, clientVars>>,
         WatchedOK', ExecutingOK',
         seen' \in [Watchers -> [Keys -> Value \cup {None}]],
         watched' \in [Watchers -> SUBSET Keys],
         dirty' \subseteq Watchers, multi' \subseteq Watchers,
         executing' \in Watchers \cup {None}
  PROVE  IInv'
<1>0. UNCHANGED <<db, copy, ready, serving, pushed, overwritten, blocking, bpop>>
  BY DEF dataVars, clientVars
<1>1. TypeOK'
  BY <1>0 DEF IInv, TypeOK
<1>2. Formed(db, serving.key)' /\ CopyOK'
  BY <1>0 DEF IInv, Formed, CopyOK
<1>3. ServingOK' /\ TargetsOK' /\ BlockedOK'
  BY <1>0 DEF IInv, ServingOK, TargetsOK, BlockedOK, IsList
<1> QED
  BY <1>1, <1>2, <1>3 DEF IInv

\* Nothing is ready when the server is idle.
LEMMA IdleOK ==
  ASSUME Idle
  PROVE  /\ serving = NotServing /\ serving.key = None /\ executing = None
         /\ \A k : ~Contains(ready, k)
<1>1. Len(ready) = 0
  BY DEF Idle
<1> QED
  BY <1>1 DEF Idle, NotServing, Contains

\* WATCH, UNWATCH, MULTI, DISCARD and EXEC keep the invariant.
LEMMA TransactionStep ==
  ASSUME IInv, Transaction
  PROVE  IInv'
<1>0. TypeOK
  BY DEF IInv
<1>1. ASSUME NEW c \in Watchers, NEW k \in Keys, watchCommand(c, k)
      PROVE  IInv'
  <2>1. /\ watched' = [watched EXCEPT ![c] = @ \cup {k}]
        /\ seen' = [seen EXCEPT ![c][k] = db[k]]
        /\ UNCHANGED <<dataVars, clientVars, dirty, multi, executing>> /\ Idle
    BY <1>1 DEF watchCommand
  <2>2. executing' = None /\ serving'.key = None /\ (\A j : ~Contains(ready', j)) /\ db' = db
    BY <2>1, IdleOK DEF dataVars
  <2>3. watched' \in [Watchers -> SUBSET Keys]
    BY <1>0, <2>1 DEF TypeOK
  <2>4. /\ seen' \in [Watchers -> [Keys -> Value \cup {None}]]
        /\ seen'[c][k] = db[k]
        /\ \A a \in Watchers, j \in Keys : a # c \/ j # k => seen'[a][j] = seen[a][j]
    BY <1>0, <2>1 DEF TypeOK
  <2>5. WatchedOK'
    <3> SUFFICES ASSUME NEW a \in Watchers, a \notin dirty', NEW j \in watched'[a]
                 PROVE  seen'[a][j] \in {db[j], None} /\ serving'.key # j
      BY <2>2 DEF WatchedOK
    <3>1. j \in Keys /\ a \notin dirty
      BY <2>1, <2>3
    <3>2. (a = c /\ j = k) \/ j \in watched[a]
      BY <1>0, <2>1 DEF TypeOK
    <3>3. serving'.key # j
      BY <2>2, <3>1, NoneAssumption
    <3> QED
      BY <2>4, <3>1, <3>2, <3>3 DEF IInv, WatchedOK
  <2>6. ExecutingOK'
    BY <2>2 DEF ExecutingOK
  <2>7. dirty' \subseteq Watchers /\ multi' \subseteq Watchers /\ executing' \in Watchers \cup {None}
    BY <1>0, <2>1, <2>2 DEF TypeOK
  <2> QED
    BY <2>1, <2>3, <2>4, <2>5, <2>6, <2>7, TransactionOK
<1>2. ASSUME NEW c \in Watchers, unwatchAllKeys(c),
             UNCHANGED <<dataVars, clientVars>>, Idle,
             executing' \in {c, None},
             dirty' \subseteq dirty, dirty \ {c} \subseteq dirty', multi' \subseteq multi
      PROVE  IInv'
  <2>1. UNCHANGED <<db, ready, serving>>
    BY <1>2 DEF dataVars
  <2>2. /\ WatchedOK'
        /\ seen' \in [Watchers -> [Keys -> Value \cup {None}]]
        /\ watched' \in [Watchers -> SUBSET Keys]
        /\ watched'[c] = {}
    BY <1>2, <2>1, UnwatchOK
  <2>3. ExecutingOK'
    BY <1>2, <2>2 DEF ExecutingOK
  <2>4. dirty' \subseteq Watchers /\ multi' \subseteq Watchers /\ executing' \in Watchers \cup {None}
    BY <1>0, <1>2 DEF TypeOK
  <2> QED
    BY <1>2, <2>2, <2>3, <2>4, TransactionOK
<1>3. ASSUME NEW c \in Watchers, unwatchCommand(c)
      PROVE  IInv'
  <2>1. /\ unwatchAllKeys(c) /\ Idle /\ UNCHANGED <<dataVars, clientVars>>
        /\ dirty' = dirty \ {c} /\ multi' = multi /\ executing' = executing
    BY <1>3 DEF unwatchCommand
  <2>2. executing = None
    BY <2>1, IdleOK
  <2> QED
    BY <1>2, <2>1, <2>2
<1>4. ASSUME NEW c \in Watchers, multiCommand(c)
      PROVE  IInv'
  <2>1. /\ multi' = multi \cup {c}
        /\ UNCHANGED <<dataVars, clientVars, watched, dirty, seen, executing>>
    BY <1>4 DEF multiCommand
  <2>2. WatchedOK' /\ ExecutingOK'
    BY <2>1 DEF IInv, WatchedOK, ExecutingOK, IsList, dataVars
  <2>3. /\ seen' \in [Watchers -> [Keys -> Value \cup {None}]]
        /\ watched' \in [Watchers -> SUBSET Keys]
        /\ dirty' \subseteq Watchers /\ multi' \subseteq Watchers
        /\ executing' \in Watchers \cup {None}
    BY <1>0, <2>1 DEF TypeOK
  <2> QED
    BY <2>1, <2>2, <2>3, TransactionOK
<1>5. ASSUME NEW c \in Watchers, discardCommand(c) \/ execAborts(c)
      PROVE  IInv'
  <2>1. /\ unwatchAllKeys(c) /\ Idle /\ UNCHANGED <<dataVars, clientVars>>
        /\ dirty' = dirty \ {c} /\ multi' = multi \ {c} /\ executing' = executing
    BY <1>5 DEF discardCommand, execAborts, discardTransaction
  <2>2. executing = None
    BY <2>1, IdleOK
  <2> QED
    BY <1>2, <2>1, <2>2
<1>6. ASSUME NEW c \in Watchers, execCommand(c)
      PROVE  IInv'
  <2>1. /\ unwatchAllKeys(c) /\ Idle /\ UNCHANGED <<dataVars, clientVars>>
        /\ dirty' = dirty /\ multi' = multi /\ executing' = c
    BY <1>6 DEF execCommand
  <2> QED
    BY <1>2, <2>1
<1>7. CASE execDone
  <2>1. /\ executing # None /\ executing' = None
        /\ multi' = multi \ {executing} /\ dirty' = dirty \ {executing}
        /\ UNCHANGED <<dataVars, clientVars, watched, seen>>
    BY <1>7 DEF execDone
  <2>2. executing \in Watchers /\ watched[executing] = {}
    BY <1>0, <2>1 DEF TypeOK, IInv, ExecutingOK
  <2>3. WatchedOK'
    BY <2>1, <2>2 DEF IInv, WatchedOK, IsList, dataVars
  <2>4. ExecutingOK'
    BY <2>1 DEF ExecutingOK
  <2>5. /\ seen' \in [Watchers -> [Keys -> Value \cup {None}]]
        /\ watched' \in [Watchers -> SUBSET Keys]
        /\ dirty' \subseteq Watchers /\ multi' \subseteq Watchers
        /\ executing' \in Watchers \cup {None}
    BY <1>0, <2>1 DEF TypeOK
  <2> QED
    BY <2>1, <2>3, <2>4, <2>5, TransactionOK
<1> QED
  BY <1>1, <1>3, <1>4, <1>5, <1>6, <1>7 DEF Transaction

\* A client blocks on keys that do not exist.
LEMMA BlockOK ==
  ASSUME IInv, NEW c \in Clients, NEW K \in SUBSET Keys, NEW target \in Keys \cup {None},
         NEW where \in Positions, target # None => where = "tail",
         blockForKeys(c, K, target, where)
  PROVE  IInv'
<1>0. TypeOK
  BY DEF IInv
<1>1. /\ blocking' = [k \in Keys |-> IF k \in K THEN Append(blocking[k], c) ELSE blocking[k]]
      /\ bpop' = [bpop EXCEPT ![c] = [keys |-> K, target |-> target, where |-> where]]
      /\ \A k \in K : ~Exists(db, k)
      /\ UNCHANGED <<db, copy, ready, serving, pushed, overwritten>>
      /\ UNCHANGED <<watched, multi, executing, dirty, seen>> /\ Idle
  BY DEF blockForKeys, dataVars, transactionVars
<1>2. serving = NotServing /\ serving' = NotServing
  BY <1>1, IdleOK
<1>3. blocking' \in [Keys -> Seq(Clients)]
  <2>1. \A k \in Keys : blocking[k] \in Seq(Clients) /\ Append(blocking[k], c) \in Seq(Clients)
    BY <1>0 DEF TypeOK
  <2> QED
    BY <1>1, <2>1
<1>4. bpop' \in [Clients -> [keys : SUBSET Keys, target : Keys \cup {None}, where : Positions]]
  BY <1>0, <1>1 DEF TypeOK
<1>5. TypeOK'
  BY <1>0, <1>1, <1>3, <1>4 DEF TypeOK
<1>6. Formed(db, serving.key)' /\ CopyOK' /\ WatchedOK' /\ ExecutingOK'
  BY <1>1 DEF IInv, Formed, CopyOK, WatchedOK, ExecutingOK, IsList
<1>7. ServingOK'
  BY <1>2 DEF ServingOK
<1>8. TargetsOK'
  <2>1. \A a \in Clients : bpop'[a] = IF a = c THEN [keys |-> K, target |-> target, where |-> where]
                                      ELSE bpop[a]
    BY <1>0, <1>1 DEF TypeOK
  <2> SUFFICES ASSUME NEW a \in Clients, bpop'[a].target # None
               PROVE  bpop'[a].where = "tail"
    BY DEF TargetsOK
  <2>2. CASE a = c
    BY <2>1, <2>2
  <2>3. CASE a # c
    BY <2>1, <2>3 DEF IInv, TargetsOK
  <2> QED
    BY <2>2, <2>3
<1>9. BlockedOK'
  <2> SUFFICES ASSUME NEW k \in Keys, IsList(db, k), blocking'[k] # <<>>
               PROVE  k \in overwritten \/ Contains(ready, k) \/ serving.key = k
    BY <1>1 DEF BlockedOK, IsList
  <2>1. k \notin K
    BY <1>1 DEF IsList, Exists
  <2>2. blocking[k] # <<>>
    BY <1>1, <2>1
  <2> QED
    BY <2>2 DEF IInv, BlockedOK
<1> QED
  BY <1>5, <1>6, <1>7, <1>8, <1>9 DEF IInv

\* A client that is unblocked leaves every queue.
LEMMA UnblockOK ==
  ASSUME IInv, NEW c \in Clients, unblockClient(c)
  PROVE  /\ blocking' \in [Keys -> Seq(Clients)]
         /\ bpop' \in [Clients -> [keys : SUBSET Keys, target : Keys \cup {None}, where : Positions]]
         /\ TargetsOK'
         /\ \A k \in Keys : blocking'[k] # <<>> => blocking[k] # <<>>
         /\ \A k \in Keys : blocking[k] # <<>> /\ c = Head(blocking[k])
                              => Len(blocking'[k]) = Len(blocking[k]) - 1
<1>0. TypeOK
  BY DEF IInv
<1>1. \A k \in Keys : blocking[k] \in Seq(Clients)
  BY <1>0 DEF TypeOK
<1>2. \A k \in Keys : blocking'[k] = Without(blocking[k], c)
  BY DEF unblockClient
<1>3. blocking' \in [Keys -> Seq(Clients)]
  <2>1. \A k \in Keys : Without(blocking[k], c) \in Seq(Clients)
    BY <1>1, WithoutOK
  <2> QED
    BY <2>1 DEF unblockClient
<1>4. NotBlocked \in [keys : SUBSET Keys, target : Keys \cup {None}, where : Positions]
  BY DEF NotBlocked, Positions
<1>5. /\ bpop' \in [Clients -> [keys : SUBSET Keys, target : Keys \cup {None}, where : Positions]]
      /\ \A a \in Clients : bpop'[a] = IF a = c THEN NotBlocked ELSE bpop[a]
  BY <1>0, <1>4 DEF TypeOK, unblockClient
<1>6. TargetsOK'
  BY <1>5 DEF IInv, TargetsOK, NotBlocked
<1> QED
  BY <1>1, <1>2, <1>3, <1>5, <1>6, WithoutOK

\* A timeout, or a connection that is closed.
LEMMA LeaveOK ==
  ASSUME IInv, NEW c \in Clients, Idle, unblockClient(c), UNCHANGED <<dataVars, executing>>,
         dirty' \subseteq Watchers, multi' \subseteq Watchers,
         seen' \in [Watchers -> [Keys -> Value \cup {None}]],
         watched' \in [Watchers -> SUBSET Keys],
         WatchedOK'
  PROVE  IInv'
<1>0. TypeOK /\ serving = NotServing /\ executing = None
  BY IdleOK DEF IInv
<1>1. UNCHANGED <<db, copy, ready, serving, pushed, overwritten, executing>>
  BY DEF dataVars
<1>2. /\ blocking' \in [Keys -> Seq(Clients)]
      /\ bpop' \in [Clients -> [keys : SUBSET Keys, target : Keys \cup {None}, where : Positions]]
      /\ TargetsOK'
      /\ \A k \in Keys : blocking'[k] # <<>> => blocking[k] # <<>>
  BY UnblockOK
<1>3. TypeOK'
  BY <1>0, <1>1, <1>2 DEF TypeOK
<1>4. Formed(db, serving.key)' /\ CopyOK'
  BY <1>1 DEF IInv, Formed, CopyOK
<1>5. ServingOK' /\ ExecutingOK'
  BY <1>0, <1>1 DEF ServingOK, ExecutingOK
<1>6. BlockedOK'
  BY <1>1, <1>2 DEF IInv, BlockedOK, IsList
<1> QED
  BY <1>2, <1>3, <1>4, <1>5, <1>6 DEF IInv

\* The next ready key.
LEMMA HandleOK ==
  ASSUME IInv, handleClientsBlockedOnKeys
  PROVE  IInv'
<1> DEFINE k == Head(ready)
<1>0. TypeOK /\ serving = NotServing /\ ready # <<>> /\ ready \in Seq(Keys)
  BY DEF IInv, TypeOK, handleClientsBlockedOnKeys
<1>1. /\ ready' = Tail(ready)
      /\ serving' = IF IsList(db, k) THEN [key |-> k, clients |-> Len(blocking[k])] ELSE NotServing
      /\ UNCHANGED <<db, copy, blocking, bpop, watched, multi, executing, dirty, pushed, seen, overwritten>>
  BY DEF handleClientsBlockedOnKeys, clientVars, transactionVars
<1>2. k \in Keys /\ Contains(ready, k) /\ Tail(ready) \in Seq(Keys)
  <2>1. Head(ready) = ready[1] /\ 1 \in 1 .. Len(ready)
    BY <1>0
  <2> QED
    BY <1>0, <2>1 DEF Contains
<1>3. \A j : /\ Contains(Tail(ready), j) => Contains(ready, j)
             /\ Contains(ready, j) /\ j # k => Contains(Tail(ready), j)
  BY <1>0, ContainsTail
<1> HIDE DEF k
<1>4. serving' \in [key : Keys, clients : Nat] \cup {NotServing}
  <2>1. Len(blocking[k]) \in Nat
    BY <1>0, <1>2 DEF TypeOK
  <2> QED
    BY <1>1, <1>2, <2>1
<1>5. serving.key = None /\ serving'.key \in {k, None} /\ (IsList(db, k) => serving'.key = k)
  BY <1>0, <1>1 DEF NotServing
<1>6. TypeOK'
  BY <1>0, <1>1, <1>2, <1>4 DEF TypeOK
<1>7. Formed(db, serving.key)'
  BY <1>1, <1>5, NoneAssumption DEF IInv, Formed
<1>8. ServingOK'
  BY <1>1 DEF ServingOK, IsList
<1>9. TargetsOK' /\ CopyOK' /\ ExecutingOK'
  BY <1>1 DEF IInv, TargetsOK, CopyOK, ExecutingOK
<1>10. WatchedOK'
  <2> SUFFICES ASSUME NEW c \in Watchers, c \notin dirty, NEW j \in watched[c]
               PROVE  /\ seen[c][j] \in {db[j], None}
                      /\ IsList(db, j) /\ (Contains(ready', j) \/ serving'.key = j)
                           => seen[c][j] = None
    BY <1>1 DEF WatchedOK, IsList
  <2>1. j \in Keys /\ j # None
    BY <1>0, NoneAssumption DEF TypeOK
  <2>2. Contains(ready', j) \/ serving'.key = j => Contains(ready, j)
    BY <1>1, <1>2, <1>3, <1>5, <2>1
  <2> QED
    BY <2>2 DEF IInv, WatchedOK
<1>11. BlockedOK'
  <2> SUFFICES ASSUME NEW j \in Keys, IsList(db, j), blocking[j] # <<>>
               PROVE  j \in overwritten \/ Contains(ready', j) \/ serving'.key = j
    BY <1>1 DEF BlockedOK, IsList
  <2>1. j \in overwritten \/ Contains(ready, j)
    BY <1>0, Waiting
  <2> QED
    BY <1>1, <1>3, <1>5, <2>1
<1> QED
  BY <1>6, <1>7, <1>8, <1>9, <1>10, <1>11 DEF IInv

\* The last client was served.
LEMMA ServeDoneOK ==
  ASSUME IInv, ServeDone
  PROVE  IInv'
<1> DEFINE k == serving.key
           d == DropEmpty(db, k)
<1>0. TypeOK /\ db \in DB /\ k \in Keys /\ serving # NotServing
  BY DEF IInv, TypeOK, DB, ServeDone
<1>1. /\ serving' = NotServing /\ db' = d /\ overwritten' = {j \in overwritten : IsList(d, j)}
      /\ serving.clients = 0 \/ db[k].list = <<>>
      /\ UNCHANGED <<copy, blocking, bpop, ready, watched, multi, executing, dirty, pushed, seen>>
  BY DEF ServeDone, Overwrites, clientVars, transactionVars
<1>2. IsList(db, k) /\ serving.clients = Len(blocking[k])
  BY <1>0 DEF IInv, ServingOK
<1>3. /\ d \in DB /\ \A j \in Keys \ {k} : d[j] = db[j]
      /\ db[k].list = <<>> => d[k] = NoValue
      /\ db[k].list # <<>> => d[k] = db[k]
  BY <1>0, DropOK
<1>4. \A j \in Keys : (j # k => db[j] # AList(<<>>)) /\ (db[k].list = <<>> => db[k] = AList(<<>>))
  BY <1>0, <1>2 DEF IInv, Formed, AList, DB, Value, IsList
<1>5. serving'.key = None
  BY <1>1 DEF NotServing
<1> HIDE DEF d
<1>6. TypeOK'
  BY <1>0, <1>1, <1>3 DEF TypeOK, DB
<1>7. Formed(d, None)
  BY <1>2, <1>3, ValuesOK DEF IInv, Formed
<1>8. Formed(db, serving.key)' /\ ServingOK'
  BY <1>1, <1>5, <1>7 DEF Formed, ServingOK
<1>9. TargetsOK' /\ ExecutingOK'
  BY <1>1 DEF IInv, TargetsOK, ExecutingOK
<1>10. CopyOK'
  <2> SUFFICES ASSUME NEW j \in Keys
               PROVE  copy[j] = IF d[j] = AList(<<>>) THEN NoValue ELSE d[j]
    BY <1>1 DEF CopyOK
  <2>1. copy[j] = IF db[j] = AList(<<>>) THEN NoValue ELSE db[j]
    BY DEF IInv, CopyOK
  <2>2. NoValue # AList(<<>>)
    BY DEF NoValue, AList
  <2>3. CASE j = k /\ db[k].list = <<>>
    BY <1>3, <1>4, <2>1, <2>2, <2>3
  <2>4. CASE j # k \/ db[k].list # <<>>
    <3>1. d[j] = db[j]
      BY <1>3, <2>4
    <3> QED
      BY <2>1, <3>1
  <2> QED
    BY <2>3, <2>4
<1>11. \A j \in Keys : IsList(d, j) => IsList(db, j) /\ d[j] = db[j]
  BY <1>2, <1>3, ValuesOK DEF IsList
<1>12. WatchedOK'
  <2> SUFFICES ASSUME NEW c \in Watchers, c \notin dirty, NEW j \in watched[c]
               PROVE  /\ seen[c][j] \in {d[j], None}
                      /\ IsList(d, j) /\ Contains(ready, j) => seen[c][j] = None
    <3>1. \A c \in Watchers : \A j \in watched[c] : j # None
      BY <1>0, NoneAssumption DEF TypeOK
    <3> QED
      BY <1>1, <1>5, <3>1 DEF WatchedOK, IsList
  <2>0. j \in Keys
    BY <1>0 DEF TypeOK
  <2>1. CASE j = k
    BY <1>2, <2>1 DEF IInv, WatchedOK
  <2>2. CASE j # k
    <3>1. d[j] = db[j]
      BY <1>3, <2>0, <2>2
    <3> QED
      BY <3>1 DEF IInv, WatchedOK, IsList
  <2> QED
    BY <2>1, <2>2
<1>13. BlockedOK'
  <2> SUFFICES ASSUME NEW j \in Keys, IsList(d, j), blocking[j] # <<>>
               PROVE  j \in overwritten' \/ Contains(ready, j)
    BY <1>1 DEF BlockedOK, IsList
  <2>1. j # k
    <3>1. ASSUME j = k
          PROVE  FALSE
      <4>1. db[k].list # <<>>
        BY <1>3, <3>1, ValuesOK DEF IsList
      <4>2. Len(blocking[k]) = 0 /\ blocking[k] \in Seq(Clients)
        BY <1>0, <1>1, <1>2, <4>1 DEF TypeOK
      <4> QED
        BY <3>1, <4>2
    <3> QED
      BY <3>1
  <2>2. j \in overwritten \/ Contains(ready, j)
    BY <1>11, <2>1 DEF IInv, BlockedOK
  <2> QED
    BY <1>1, <2>2
<1> QED
  BY <1>6, <1>8, <1>9, <1>10, <1>12, <1>13 DEF IInv

\* A client was served, with a push to key t if t is a key.
LEMMA ServedOK ==
  ASSUME IInv, serving # NotServing, serving.clients > 0,
         unblockClient(Head(blocking[serving.key])),
         serving' = [serving EXCEPT !.clients = @ - 1],
         NEW d \in DB, db' = d, IsList(d, serving.key), Formed(d, serving.key),
         NEW t \in Keys \cup {None}, \A j \in Keys \ {serving.key, t} : d[j] = db[j],
         copy' \in DB, CopyOK',
         ready' \in Seq(Keys),
         \A j : Contains(ready', j) => Contains(ready, j) \/ j = t,
         \A j : Contains(ready, j) => Contains(ready', j),
         t \in Keys /\ IsList(d, t) /\ blocking[t] # <<>>
           => t \in overwritten \/ Contains(ready', t) \/ t = serving.key,
         dirty' = dirty \cup {a \in Watchers : t \in watched[a]}, seen' = seen,
         UNCHANGED <<transactionVars, pushed, overwritten>>
  PROVE  IInv'
<1> DEFINE k == serving.key
           c == Head(blocking[k])
<1>0. TypeOK /\ k \in Keys /\ serving \in [key : Keys, clients : Nat]
  BY DEF IInv, TypeOK
<1>1. serving.clients = Len(blocking[k]) /\ blocking[k] \in Seq(Clients)
  BY <1>0 DEF IInv, ServingOK, TypeOK
<1>2. blocking[k] # <<>> /\ c \in Clients
  BY <1>1
<1>3. UNCHANGED <<watched, multi, executing, pushed, overwritten, seen>>
  BY DEF transactionVars
<1>4. /\ blocking' \in [Keys -> Seq(Clients)]
      /\ bpop' \in [Clients -> [keys : SUBSET Keys, target : Keys \cup {None}, where : Positions]]
      /\ TargetsOK'
      /\ \A j \in Keys : blocking'[j] # <<>> => blocking[j] # <<>>
      /\ \A j \in Keys : blocking[j] # <<>> /\ c = Head(blocking[j])
                           => Len(blocking'[j]) = Len(blocking[j]) - 1
  BY <1>2, UnblockOK
<1>5. Len(blocking'[k]) = Len(blocking[k]) - 1
  BY <1>0, <1>2, <1>4
<1>6. /\ serving' \in [key : Keys, clients : Nat]
      /\ serving'.key = k /\ serving'.clients = Len(blocking'[k])
  BY <1>0, <1>1, <1>5
<1> HIDE DEF k, c
<1>7. TypeOK'
  <2>1. dirty' \subseteq Watchers
    BY <1>0 DEF TypeOK
  <2> QED
    BY <1>0, <1>3, <1>4, <1>6, <2>1 DEF TypeOK, DB
<1>8. Formed(db, serving.key)'
  BY <1>6 DEF Formed, k
<1>9. ServingOK'
  BY <1>6 DEF ServingOK, IsList, k
<1>10. ExecutingOK'
  BY <1>3 DEF IInv, ExecutingOK
<1>11. WatchedOK'
  <2> SUFFICES ASSUME NEW a \in Watchers, a \notin dirty', NEW j \in watched[a]
               PROVE  /\ seen[a][j] \in {d[j], None}
                      /\ IsList(d, j) /\ (Contains(ready', j) \/ k = j) => seen[a][j] = None
    BY <1>3, <1>6 DEF WatchedOK, IsList
  <2>1. j \in Keys /\ a \notin dirty /\ j # t
    BY <1>0 DEF TypeOK
  <2>2. CASE j = k
    <3>1. IsList(db, j) /\ serving.key = j
      BY <2>2 DEF IInv, ServingOK, k
    <3> QED
      BY <2>1, <3>1 DEF IInv, WatchedOK
  <2>3. CASE j # k
    <3>1. d[j] = db[j] /\ (Contains(ready', j) => Contains(ready, j))
      BY <2>1, <2>3 DEF k
    <3> QED
      BY <2>1, <2>3, <3>1 DEF IInv, WatchedOK, IsList
  <2> QED
    BY <2>2, <2>3
<1>12. BlockedOK'
  <2> SUFFICES ASSUME NEW j \in Keys, IsList(d, j), blocking'[j] # <<>>
               PROVE  j \in overwritten \/ Contains(ready', j) \/ k = j
    BY <1>3, <1>6 DEF BlockedOK, IsList
  <2>1. blocking[j] # <<>>
    BY <1>4
  <2>2. CASE j = t
    BY <2>1, <2>2 DEF k
  <2>3. CASE j # t /\ j # k
    <3>1. IsList(db, j)
      BY <2>3 DEF IsList, k
    <3> QED
      BY <2>1, <2>3, <3>1 DEF IInv, BlockedOK, k
  <2> QED
    BY <2>2, <2>3
<1> QED
  BY <1>4, <1>7, <1>8, <1>9, <1>10, <1>11, <1>12 DEF IInv

\* A pop depends on the value of its key only.
LEMMA PopSame ==
  ASSUME NEW d1 \in DB, NEW d2 \in DB, NEW k \in Keys, NEW w, d1[k] = d2[k]
  PROVE  listTypePop(d1, k, w)[k] = listTypePop(d2, k, w)[k]
BY DEF listTypePop, DB

\* An element that was popped from the tail and is pushed there again.
LEMMA UndoOK ==
  ASSUME NEW d \in DB, NEW k \in Keys, IsList(d, k), d[k].list # <<>>
  PROVE  listTypePush(listTypePop(d, k, "tail"), k, Popped(d, k, "tail"), "tail") = d
<1> DEFINE s == d[k].list
           e == s[Len(s)]
           q == SubSeq(s, 1, Len(s) - 1)
           r == listTypePop(d, k, "tail")
<1>1. s \in Seq(Element) /\ Len(s) \in Nat \ {0} /\ d[k] \in Value
  BY DEF DB, Value
<1>2. Popped(d, k, "tail") = e
  BY DEF Popped
<1>3. r = [d EXCEPT ![k].list = q]
  BY DEF listTypePop
<1>4. r[k].list = q
  BY <1>1, <1>3 DEF DB, Value
<1>5. Append(q, e) = s
  <2> HIDE DEF s
  <2>0. s # <<>> /\ Len(s) - 1 \in Nat
    BY <1>1 DEF s
  <2>1. e \in Element /\ q \in Seq(Element) /\ Len(q) = Len(s) - 1
    <3>1. e \in Element /\ q \in Seq(Element)
      BY <1>1, <2>0, ListOK
    <3>2. Len(q) = Len(s) - 1
      BY <1>1, <2>0, FrontOK
    <3> QED
      BY <3>1, <3>2
  <2>2. Append(q, e) \in Seq(Element) /\ Len(Append(q, e)) = Len(s)
    BY <1>1, <2>1
  <2>3. \A i \in 1 .. Len(s) : Append(q, e)[i] = s[i]
    BY <1>1, <2>1
  <2> HIDE DEF q, e
  <2> QED
    BY <1>1, <2>2, <2>3
<1>6. AList(s) = d[k]
  BY <1>1 DEF AList, Value, IsList
<1>7. listTypePush(r, k, e, "tail") = [r EXCEPT ![k] = AList(Append(r[k].list, e))]
  BY DEF listTypePush
<1> HIDE DEF s, e, q
<1>8. [r EXCEPT ![k] = d[k]] = d
  BY <1>3 DEF DB
<1> QED
  BY <1>2, <1>4, <1>5, <1>6, <1>7, <1>8

\* A served client keeps the invariant.
LEMMA ServeClientOK ==
  ASSUME IInv, ServeClient
  PROVE  IInv'
<1> DEFINE k == serving.key
           c == Head(blocking[k])
           b == bpop[c]
           e == Popped(db, k, b.where)
           d == listTypePop(db, k, b.where)
<1>0. /\ TypeOK /\ db \in DB /\ copy \in DB
      /\ serving.clients > 0 /\ db[k].list # <<>>
      /\ unblockClient(c) /\ serving' = [serving EXCEPT !.clients = @ - 1]
      /\ UNCHANGED <<transactionVars, pushed, overwritten>>
  BY DEF ServeClient, IInv, TypeOK, DB
<1>1. serving # NotServing /\ k \in Keys
  <2>1. serving # NotServing
    BY <1>0 DEF NotServing
  <2> QED
    BY <1>0, <2>1 DEF TypeOK
<1>2. IsList(db, k) /\ c \in Clients
  <2>1. IsList(db, k) /\ serving.clients = Len(blocking[k]) /\ blocking[k] \in Seq(Clients)
    BY <1>0, <1>1 DEF IInv, ServingOK, TypeOK
  <2> QED
    BY <1>0, <2>1
<1>3. b.where \in Positions /\ b.target \in Keys \cup {None} /\ (b.target # None => b.where = "tail")
  BY <1>0, <1>2 DEF TypeOK, IInv, TargetsOK
<1>4. /\ d \in DB /\ (\A j \in Keys \ {k} : d[j] = db[j])
      /\ d[k].type = "list" /\ e \in Element
  BY <1>0, <1>1, <1>2, <1>3, PopOK DEF IsList
<1>5. Formed(db, k) /\ Formed(d, k) /\ ready \in Seq(Keys)
  BY <1>0, <1>4 DEF IInv, Formed, TypeOK
<1>6. \A j \in Keys \ {k} : db[j] # AList(<<>>) /\ copy[j] = db[j]
  <2>1. ASSUME NEW j \in Keys, j # k, db[j] = AList(<<>>)
        PROVE  FALSE
    BY <1>5, <2>1, EmptyOK DEF Formed
  <2> QED
    BY <2>1 DEF IInv, CopyOK
<1>7. copy[k] = db[k]
  <2>1. db[k] # AList(<<>>)
    BY <1>0 DEF AList
  <2> QED
    BY <1>1, <2>1 DEF IInv, CopyOK
<1> DEFINE p == pop(copy, k, b.where)
<1>8. /\ p \in DB /\ \A j \in Keys \ {k} : p[j] = d[j]
      /\ p[k] = IF d[k] = AList(<<>>) THEN NoValue ELSE d[k]
      /\ p[k].list = d[k].list
  <2> DEFINE r == listTypePop(copy, k, b.where)
  <2>1. r[k] = d[k]
    BY <1>0, <1>1, <1>7, PopSame
  <2>2. r \in DB /\ \A j \in Keys \ {k} : r[j] = copy[j]
    BY <1>0, <1>1, <1>3, <1>7, PopOK
  <2>3. p = DropEmpty(r, k)
    BY DEF pop
  <2> HIDE DEF r, d
  <2>4. d[k] = AList(<<>>) <=> d[k].list = <<>>
    <3>1. d[k] \in Value
      BY <1>1, <1>4 DEF DB
    <3> QED
      BY <1>4, <3>1, EmptyOK
  <2>5. /\ DropEmpty(r, k) \in DB
        /\ \A j \in Keys \ {k} : DropEmpty(r, k)[j] = r[j]
        /\ r[k].list = <<>> => DropEmpty(r, k)[k] = NoValue
        /\ r[k].list # <<>> => DropEmpty(r, k)[k] = r[k]
    BY <1>1, <2>2, DropOK
  <2>6. p[k] = IF d[k] = AList(<<>>) THEN NoValue ELSE d[k]
    BY <2>1, <2>3, <2>4, <2>5
  <2>7. p[k].list = d[k].list
    BY <2>4, <2>6, ValuesOK
  <2> QED
    BY <1>4, <1>6, <2>2, <2>3, <2>5, <2>6, <2>7
<1> HIDE DEF d, e, p, b
<1>9. CASE b.target = None /\ db' = d /\ copy' = p /\ UNCHANGED <<ready, dirty, seen>>
  <2>1. CopyOK'
    <3> SUFFICES ASSUME NEW j \in Keys
                 PROVE  p[j] = IF d[j] = AList(<<>>) THEN NoValue ELSE d[j]
      BY <1>9 DEF CopyOK
    <3> QED
      BY <1>4, <1>6, <1>8
  <2>2. dirty' = dirty \cup {a \in Watchers : None \in watched[a]}
    BY <1>0, <1>9, NoneAssumption DEF TypeOK
  <2>3. None \in Keys \cup {None} /\ None \notin Keys /\ \A j \in Keys \ {k, None} : d[j] = db[j]
    BY <1>4, NoneAssumption
  <2>4. IsList(d, k)
    BY <1>4 DEF IsList
  <2> QED
    BY <1>0, <1>1, <1>4, <1>5, <1>8, <1>9, <2>1, <2>2, <2>3, <2>4, ServedOK
<1>10. CASE /\ b.target # None /\ d[b.target].type # "string"
            /\ db' = listTypePush(d, b.target, e, "head")
            /\ copy' = listTypePush(pop(copy, k, "tail"), b.target, e, "head")
            /\ dbAdd(b.target, db')
            /\ signalModifiedKey({b.target})
  <2> DEFINE t == b.target
             u == listTypePush(d, t, e, "head")
             v == listTypePush(p, t, e, "head")
  <2>0. t \in Keys /\ "head" \in Positions /\ pop(copy, k, "tail") = p
    BY <1>3, <1>10 DEF Positions, p
  <2>1. u \in DB /\ (\A j \in Keys \ {t} : u[j] = d[j]) /\ u[t].type = "list" /\ u[t].list # <<>>
    BY <1>4, <2>0, PushOK
  <2>2. v \in DB /\ \A j \in Keys \ {t} : v[j] = p[j]
    BY <1>4, <1>8, <2>0, PushOK
  <2>3. u[t] = v[t]
    <3>1. p[t].list = d[t].list
      BY <1>8, <2>0
    <3>2. u[t] = AList(<<e>> \o d[t].list) /\ v[t] = AList(<<e>> \o p[t].list)
      BY <1>4, <1>8, <2>0 DEF listTypePush, DB
    <3> QED
      BY <3>1, <3>2
  <2>4. db' = u /\ copy' = v
    BY <1>10, <2>0
  <2>5. CopyOK'
    <3> SUFFICES ASSUME NEW j \in Keys
                 PROVE  v[j] = IF u[j] = AList(<<>>) THEN NoValue ELSE u[j]
      BY <2>4 DEF CopyOK
    <3>1. CASE j = t
      <4>1. u[t] # AList(<<>>)
        BY <2>1 DEF AList
      <4> QED
        BY <2>3, <3>1, <4>1
    <3>2. CASE j # t
      <4>1. u[j] = d[j] /\ v[j] = p[j]
        BY <2>1, <2>2, <3>2
      <4> QED
        BY <1>4, <1>6, <1>8, <4>1
    <3> QED
      BY <3>1, <3>2
  <2> HIDE DEF u, v
  <2>6. IsList(u, k) /\ Formed(u, k)
    <3>1. ASSUME NEW j \in Keys
          PROVE  /\ u[j].type # "list" => u[j].list = <<>>
                 /\ u[j].type = "list" /\ u[j].list = <<>> => j = k
      <4>1. CASE j = t
        BY <2>1, <4>1
      <4>2. CASE j # t
        <5>1. u[j] = d[j]
          BY <2>1, <4>2
        <5> QED
          BY <1>5, <5>1 DEF Formed
      <4> QED
        BY <4>1, <4>2
    <3>2. u[k].type = "list"
      BY <1>1, <1>4, <2>1
    <3> QED
      BY <3>1, <3>2 DEF IsList, Formed
  <2>7. \A j \in Keys \ {k, t} : u[j] = db[j]
    BY <1>4, <2>1
  <2>8. ready' = IF IsList(u, t) /\ ~Exists(db, t) THEN signalKeyAsReady(t) ELSE ready
    BY <1>10, <2>4 DEF dbAdd
  <2>9. /\ ready' \in Seq(Keys)
        /\ \A j : Contains(ready', j) => Contains(ready, j) \/ j = t
        /\ \A j : Contains(ready, j) => Contains(ready', j)
    BY <1>0, <1>5, <2>0, <2>8, SignalOK
  <2>10. IsList(u, t) /\ blocking[t] # <<>>
           => t \in overwritten \/ Contains(ready', t) \/ t = serving.key
    <3> SUFFICES ASSUME IsList(u, t), blocking[t] # <<>>, t # k
                 PROVE  t \in overwritten \/ Contains(ready', t)
      OBVIOUS
    <3>1. CASE ~Exists(db, t)
      BY <1>0, <2>0, <2>8, <3>1, SignalOK
    <3>2. CASE Exists(db, t)
      <4>1. IsList(db, t)
        <5>1. db[t].type \in {"none", "list", "string"} /\ db[t].type # "string"
          BY <1>0, <1>4, <1>10, <2>0 DEF DB, Value
        <5> QED
          BY <3>2, <5>1 DEF Exists, IsList
      <4>2. t \in overwritten \/ Contains(ready, t)
        BY <2>0, <4>1 DEF IInv, BlockedOK
      <4> QED
        BY <2>9, <4>2
    <3> QED
      BY <3>1, <3>2
  <2>11. dirty' = dirty \cup {a \in Watchers : t \in watched[a]} /\ seen' = seen
    BY <1>10 DEF signalModifiedKey
  <2> QED
    BY <1>0, <1>1, <2>0, <2>1, <2>2, <2>4, <2>5, <2>6, <2>7, <2>9, <2>10, <2>11, ServedOK
<1>11. CASE /\ b.target # None /\ d[b.target].type = "string"
            /\ db' = listTypePush(d, k, e, b.where)
            /\ UNCHANGED <<copy, ready, dirty, seen>>
  <2>1. db' = db
    BY <1>0, <1>1, <1>2, <1>3, <1>11, UndoOK DEF d, e
  <2>2. CopyOK'
    BY <1>11, <2>1 DEF IInv, CopyOK
  <2>3. dirty' = dirty \cup {a \in Watchers : None \in watched[a]}
    BY <1>0, <1>11, NoneAssumption DEF TypeOK
  <2>4. None \in Keys \cup {None} /\ None \notin Keys /\ copy' \in DB
    BY <1>0, <1>11, NoneAssumption
  <2> QED
    BY <1>0, <1>1, <1>2, <1>5, <1>11, <2>1, <2>2, <2>3, <2>4, ServedOK
<1> QED
  BY <1>9, <1>10, <1>11 DEF ServeClient, b, d, e, p

\* Blocking, timeouts and the clients that are served keep the invariant.
LEMMA BlockedStep ==
  ASSUME IInv, Blocked
  PROVE  IInv'
<1>0. TypeOK
  BY DEF IInv
<1>1. ASSUME NEW c \in Clients, NEW K \in SUBSET Keys \ {{}}, NEW where \in Positions,
             blockingPopGenericCommand(c, K, where)
      PROVE  IInv'
  BY <1>1, BlockOK DEF blockingPopGenericCommand
<1>2. ASSUME NEW c \in Clients, NEW k \in Keys, NEW dst \in Keys, brpoplpushCommand(c, k, dst)
      PROVE  IInv'
  <2>1. blockForKeys(c, {k}, dst, "tail") /\ {k} \in SUBSET Keys /\ "tail" \in Positions
    BY <1>2 DEF brpoplpushCommand, Positions
  <2> QED
    BY <2>1, BlockOK
<1>3. ASSUME NEW c \in Clients, TimesOut(c)
      PROVE  IInv'
  <2>1. /\ Idle /\ unblockClient(c)
        /\ UNCHANGED <<dataVars, watched, multi, executing, dirty, seen>>
    BY <1>3 DEF TimesOut, transactionVars
  <2>2. WatchedOK'
    BY <2>1 DEF IInv, WatchedOK, IsList, dataVars
  <2>3. /\ dirty' \subseteq Watchers /\ multi' \subseteq Watchers
        /\ seen' \in [Watchers -> [Keys -> Value \cup {None}]]
        /\ watched' \in [Watchers -> SUBSET Keys]
    BY <1>0, <2>1 DEF TypeOK
  <2> QED
    BY <2>1, <2>2, <2>3, LeaveOK
<1>4. ASSUME NEW c \in Watchers, freeClient(c)
      PROVE  IInv'
  <2>1. /\ Idle /\ unblockClient(c) /\ unwatchAllKeys(c)
        /\ multi' = multi \ {c} /\ dirty' = dirty \ {c}
        /\ UNCHANGED <<dataVars, executing>>
    BY <1>4 DEF freeClient
  <2>2. UNCHANGED <<db, ready, serving>> /\ c \in Clients
    BY <2>1, WatchersAssumption DEF dataVars
  <2>3. /\ WatchedOK'
        /\ seen' \in [Watchers -> [Keys -> Value \cup {None}]]
        /\ watched' \in [Watchers -> SUBSET Keys]
    BY <2>1, <2>2, UnwatchOK
  <2>4. dirty' \subseteq Watchers /\ multi' \subseteq Watchers
    BY <1>0, <2>1 DEF TypeOK
  <2> QED
    BY <2>1, <2>2, <2>3, <2>4, LeaveOK
<1> QED
  BY <1>1, <1>2, <1>3, <1>4, HandleOK, ServeClientOK, ServeDoneOK DEF Blocked

-----------------------------------------------------------------------------
(***************************************************************************)
(* Results.                                                                *)
(***************************************************************************)
\* The invariant holds of an empty database without clients.
LEMMA InitOK == Init => IInv
<1> SUFFICES ASSUME Init
             PROVE  IInv
  OBVIOUS
<1>0. NoValue \in Value /\ NoValue.type = "none" /\ NoValue.list = <<>> /\ serving.key = None
  BY ValuesOK DEF Init, NotServing
<1>1. NotBlocked \in [keys : SUBSET Keys, target : Keys \cup {None}, where : Positions]
  BY DEF NotBlocked, Positions
<1>2. TypeOK
  <2>1. [k \in Keys |-> NoValue] \in [Keys -> Value \cup {None}]
    BY <1>0
  <2>2. 0 \in 0 .. MaxElements
    BY MaxElementsAssumption
  <2> QED
    BY <1>0, <1>1, <2>1, <2>2 DEF Init, TypeOK
<1>3. \A k \in Keys : db[k] = NoValue /\ copy[k] = NoValue
  BY DEF Init
<1>4. Formed(db, serving.key) /\ CopyOK
  BY <1>0, <1>3 DEF Formed, CopyOK
<1>5. ServingOK /\ ExecutingOK
  BY DEF Init, ServingOK, ExecutingOK
<1>6. TargetsOK
  BY DEF Init, TargetsOK, NotBlocked
<1>7. WatchedOK /\ BlockedOK
  BY DEF Init, WatchedOK, BlockedOK
<1> QED
  BY <1>2, <1>4, <1>5, <1>6, <1>7 DEF IInv

\* A step that changes nothing keeps the invariant.
LEMMA StutterOK == IInv /\ UNCHANGED vars => IInv'
<1> SUFFICES ASSUME IInv, UNCHANGED vars
             PROVE  IInv'
  OBVIOUS
<1>1. TypeOK'
  BY DEF IInv, vars, TypeOK
<1>2. Formed(db, serving.key)' /\ CopyOK'
  BY DEF IInv, vars, Formed, CopyOK
<1>3. ServingOK' /\ TargetsOK' /\ ExecutingOK'
  BY DEF IInv, vars, ServingOK, TargetsOK, ExecutingOK, IsList
<1>4. WatchedOK' /\ BlockedOK'
  BY DEF IInv, vars, WatchedOK, BlockedOK, IsList
<1> QED
  BY <1>1, <1>2, <1>3, <1>4 DEF IInv

\* Every command, timeout and served client keeps the inductive invariant, so
\* that it holds of every state of the server.
THEOREM Invariant == Spec => []IInv
<1>1. IInv /\ [Next]_vars => IInv'
  BY WriteStep, TransactionStep, BlockedStep, StutterOK DEF Next
<1> QED
  BY InitOK, <1>1, PTL DEF Spec

\* For any number of clients, keys and elements: no client is left blocked on
\* a key that holds a list when the server has executed its commands, but for
\* a list that SORT STORE wrote over a string (blocked.c, db.c).
THEOREM Served == Spec => []NobodyWaitsForData
<1>1. IInv => NobodyWaitsForData
  <2> SUFFICES ASSUME IInv, Idle, NEW k \in Keys, IsList(db, k), blocking[k] # <<>>
               PROVE  k \in overwritten
    BY DEF NobodyWaitsForData
  <2>1. serving = NotServing /\ ~Contains(ready, k)
    BY IdleOK
  <2> QED
    BY <2>1, Waiting
<1> QED
  BY <1>1, Invariant, PTL

\* For any number of clients, keys and elements: a client that EXEC does not
\* find dirty has seen the values of the keys it watches, but for keys that
\* were moved, swapped, evicted or that expired since (multi.c).
THEOREM Watching == Spec => []WatchedKeysUnchanged
<1>1. IInv => WatchedKeysUnchanged
  BY DEF IInv, WatchedOK, WatchedKeysUnchanged
<1> QED
  BY <1>1, Invariant, PTL

\* For any number of clients, keys and elements: the propagated commands
\* rebuild the database, those that serve blocked clients and the deletions of
\* expired and evicted keys included (t_list.c, blocked.c, db.c).
THEOREM Propagation == Spec => []CopyAgrees
<1>1. IInv => CopyAgrees
  BY CopyIsDb DEF CopyAgrees, Idle
<1> QED
  BY <1>1, Invariant, PTL

=============================================================================
