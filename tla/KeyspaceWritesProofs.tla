------------------------ MODULE KeyspaceWritesProofs ------------------------
(***************************************************************************)
(* The inductive invariant of the keyspace, and that every command that    *)
(* writes keeps it.  KeyspaceProofs has the other steps and the results.   *)
(***************************************************************************)
EXTENDS Keyspace, FiniteSetTheorems, TLAPS

DB == [Keys -> Value]

\* Only the key being served may hold an empty list.
Formed(d, key) ==
  \A k \in Keys : /\ d[k].type # "list" => d[k].list = <<>>
                  /\ d[k].type = "list" /\ d[k].list = <<>> => k = key

\* The key being served is a list, with as many clients to look at as are
\* blocked on it.
ServingOK ==
  serving # NotServing => /\ IsList(db, serving.key)
                          /\ serving.clients = Len(blocking[serving.key])

\* BRPOPLPUSH pops from the tail.
TargetsOK == \A c \in Clients : bpop[c].target # None => bpop[c].where = "tail"

\* In the copy, a list that was served until it is empty is deleted already.
CopyOK ==
  \A k \in Keys : copy[k] = IF db[k] = AList(<<>>) THEN NoValue ELSE db[k]

\* A list that may be popped for blocked clients was signalled to those who
\* watch it.
WatchedOK ==
  \A c \in Watchers \ dirty : \A k \in watched[c] :
    /\ seen[c][k] \in {db[k], None}
    /\ IsList(db, k) /\ (Contains(ready, k) \/ serving.key = k) => seen[c][k] = None

\* A list with blocked clients is ready or being served.
BlockedOK ==
  \A k \in Keys : IsList(db, k) /\ blocking[k] # <<>>
                    => k \in overwritten \/ Contains(ready, k) \/ serving.key = k

\* The client whose EXEC is running watches nothing.
ExecutingOK == executing # None => watched[executing] = {}

IInv ==
  /\ TypeOK
  /\ Formed(db, serving.key)
  /\ ServingOK
  /\ TargetsOK
  /\ CopyOK
  /\ WatchedOK
  /\ BlockedOK
  /\ ExecutingOK

-----------------------------------------------------------------------------
(***************************************************************************)
(* Sequences.                                                              *)
(***************************************************************************)
\* What is in a queue after a key was appended.
LEMMA ContainsAppend ==
  ASSUME NEW S, NEW q \in Seq(S), NEW x \in S, NEW e
  PROVE  Contains(Append(q, x), e) <=> Contains(q, e) \/ e = x
<1>1. Len(Append(q, x)) = Len(q) + 1 /\ Len(q) \in Nat
  OBVIOUS
<1>2. \A i \in 1 .. Len(q) : Append(q, x)[i] = q[i]
  OBVIOUS
<1>3. Append(q, x)[Len(q) + 1] = x
  OBVIOUS
<1> QED
  BY <1>1, <1>2, <1>3 DEF Contains

\* What is in a queue after its head was taken.
LEMMA ContainsTail ==
  ASSUME NEW S, NEW q \in Seq(S), q # <<>>, NEW e
  PROVE  /\ Contains(Tail(q), e) => Contains(q, e)
         /\ Contains(q, e) /\ e # Head(q) => Contains(Tail(q), e)
<1>1. Len(Tail(q)) = Len(q) - 1 /\ Len(q) \in Nat \ {0}
  OBVIOUS
<1>2. \A i \in 1 .. Len(q) - 1 : Tail(q)[i] = q[i + 1]
  OBVIOUS
<1>3. Head(q) = q[1]
  OBVIOUS
<1>4. Contains(Tail(q), e) => Contains(q, e)
  <2> SUFFICES ASSUME NEW i \in 1 .. Len(Tail(q)), Tail(q)[i] = e
               PROVE  Contains(q, e)
    BY DEF Contains
  <2>1. i + 1 \in 1 .. Len(q) /\ q[i + 1] = e
    BY <1>1, <1>2
  <2> QED
    BY <2>1 DEF Contains
<1>5. Contains(q, e) /\ e # Head(q) => Contains(Tail(q), e)
  <2> SUFFICES ASSUME NEW i \in 1 .. Len(q), q[i] = e, e # Head(q)
               PROVE  Contains(Tail(q), e)
    BY DEF Contains
  <2>1. i # 1
    BY <1>3
  <2>2. i - 1 \in 1 .. Len(Tail(q)) /\ Tail(q)[i - 1] = q[i - 1 + 1]
    BY <2>1, <1>1, <1>2
  <2>3. Tail(q)[i - 1] = e
    BY <2>2
  <2> QED
    BY <2>2, <2>3 DEF Contains
<1> QED
  BY <1>4, <1>5

\* What is in a queue after another one was appended.
LEMMA ContainsConcat ==
  ASSUME NEW S, NEW q \in Seq(S), NEW r \in Seq(S), NEW e
  PROVE  Contains(q \o r, e) <=> Contains(q, e) \/ Contains(r, e)
<1>1. Len(q \o r) = Len(q) + Len(r) /\ Len(q) \in Nat /\ Len(r) \in Nat
  OBVIOUS
<1>2. \A i \in 1 .. Len(q) : (q \o r)[i] = q[i]
  OBVIOUS
<1>3. \A i \in 1 .. Len(r) : (q \o r)[Len(q) + i] = r[i]
  OBVIOUS
<1>4. ASSUME NEW i \in 1 .. Len(q \o r), (q \o r)[i] = e
      PROVE  Contains(q, e) \/ Contains(r, e)
  <2>1. CASE i <= Len(q)
    BY <2>1, <1>1, <1>2, <1>4 DEF Contains
  <2>2. CASE i > Len(q)
    <3>1. i - Len(q) \in 1 .. Len(r) /\ Len(q) + (i - Len(q)) = i
      BY <2>2, <1>1
    <3>2. r[i - Len(q)] = e
      BY <3>1, <1>3, <1>4
    <3> QED
      BY <3>1, <3>2 DEF Contains
  <2> QED
    BY <2>1, <2>2, <1>1
<1>5. ASSUME NEW i \in 1 .. Len(r), r[i] = e
      PROVE  Contains(q \o r, e)
  <2>1. Len(q) + i \in 1 .. Len(q \o r) /\ (q \o r)[Len(q) + i] = e
    BY <1>1, <1>3, <1>5
  <2> QED
    BY <2>1 DEF Contains
<1>6. ASSUME NEW i \in 1 .. Len(q), q[i] = e
      PROVE  Contains(q \o r, e)
  <2>1. i \in 1 .. Len(q \o r) /\ (q \o r)[i] = e
    BY <1>1, <1>2, <1>6
  <2> QED
    BY <2>1 DEF Contains
<1> QED
  BY <1>4, <1>5, <1>6 DEF Contains

\* Taking a client out of a queue.
LEMMA WithoutOK ==
  ASSUME NEW q \in Seq(Clients), NEW c
  PROVE  /\ Without(q, c) \in Seq(Clients)
         /\ Without(q, c) # <<>> => q # <<>>
         /\ q # <<>> /\ c = Head(q) => Len(Without(q, c)) = Len(q) - 1
<1>1. CASE ~Contains(q, c)
  <2>1. Without(q, c) = q
    BY <1>1 DEF Without
  <2>2. ~(q # <<>> /\ c = Head(q))
    BY <1>1 DEF Contains
  <2> QED
    BY <2>1, <2>2
<1>2. CASE Contains(q, c)
  <2> DEFINE i == CHOOSE i \in 1 .. Len(q) : q[i] = c
             r == [j \in 1 .. Len(q) - 1 |-> IF j < i THEN q[j] ELSE q[j + 1]]
  <2>1. Without(q, c) = r
    BY <1>2 DEF Without
  <2>2. Len(q) \in Nat \ {0} /\ q # <<>>
    BY <1>2 DEF Contains
  <2>3. \A j \in 1 .. Len(q) - 1 : q[j] \in Clients /\ q[j + 1] \in Clients
    BY <2>2
  <2>4. r \in [1 .. Len(q) - 1 -> Clients]
    BY <2>3
  <2>5. r \in Seq(Clients) /\ Len(r) = Len(q) - 1
    BY <2>2, <2>4
  <2> QED
    BY <2>1, <2>2, <2>5
<1> QED
  BY <1>1, <1>2

-----------------------------------------------------------------------------
(***************************************************************************)
(* Values.                                                                 *)
(***************************************************************************)
\* A key that does not exist has one value only.
LEMMA NoValueOK ==
  ASSUME NEW d \in DB, NEW key, Formed(d, key), NEW k \in Keys, ~Exists(d, k)
  PROVE  d[k] = NoValue
<1>1. d[k] \in Value
  BY DEF DB
<1>2. d[k].type = "none" /\ d[k].list = <<>>
  BY DEF Formed, Exists
<1> QED
  BY <1>1, <1>2 DEF Value, NoValue

\* Values are values.
LEMMA ValuesOK ==
  /\ NoValue \in Value /\ AString \in Value
  /\ \A q \in Seq(Element) : AList(q) \in Value /\ AList(q).type = "list" /\ AList(q).list = q
  /\ NoValue.type = "none" /\ NoValue.list = <<>>
  /\ AString.type = "string" /\ AString.list = <<>>
BY DEF NoValue, AString, AList, Value

\* Elements stay elements when a list is pushed and popped.
LEMMA ListOK ==
  ASSUME NEW q \in Seq(Element)
  PROVE  /\ \A e \in Element : /\ <<e>> \o q \in Seq(Element) /\ <<e>> \o q # <<>>
                               /\ Append(q, e) \in Seq(Element) /\ Append(q, e) # <<>>
         /\ q # <<>> => /\ Tail(q) \in Seq(Element) /\ Head(q) \in Element
                        /\ SubSeq(q, 1, Len(q) - 1) \in Seq(Element)
                        /\ q[Len(q)] \in Element
<1>1. ASSUME NEW e \in Element
      PROVE  /\ <<e>> \o q \in Seq(Element) /\ <<e>> \o q # <<>>
             /\ Append(q, e) \in Seq(Element) /\ Append(q, e) # <<>>
  <2>1. <<e>> \in Seq(Element) /\ Len(<<e>>) = 1
    OBVIOUS
  <2>2. <<e>> \o q \in Seq(Element) /\ Len(<<e>> \o q) = 1 + Len(q) /\ Len(q) \in Nat
    BY <2>1
  <2>3. Append(q, e) \in Seq(Element) /\ Len(Append(q, e)) = Len(q) + 1
    OBVIOUS
  <2> QED
    BY <2>2, <2>3
<1>2. ASSUME q # <<>>
      PROVE  /\ Tail(q) \in Seq(Element) /\ Head(q) \in Element
             /\ SubSeq(q, 1, Len(q) - 1) \in Seq(Element)
             /\ q[Len(q)] \in Element
  <2>1. Len(q) \in Nat \ {0}
    BY <1>2
  <2>2. Tail(q) \in Seq(Element) /\ Head(q) \in Element
    BY <1>2
  <2>3. \A i \in 1 .. Len(q) : q[i] \in Element
    OBVIOUS
  <2>4. SubSeq(q, 1, Len(q) - 1) \in Seq(Element)
    BY <2>1, <2>3
  <2> QED
    BY <2>1, <2>2, <2>3, <2>4
<1> QED
  BY <1>1, <1>2

\* All but the last element.
LEMMA FrontOK ==
  ASSUME NEW q \in Seq(Element), q # <<>>
  PROVE  /\ Len(SubSeq(q, 1, Len(q) - 1)) = Len(q) - 1
         /\ \A i \in 1 .. Len(q) - 1 : SubSeq(q, 1, Len(q) - 1)[i] = q[i]
<1>1. Len(q) \in Nat \ {0}
  OBVIOUS
<1>2. PICK n \in Nat : n = Len(q) - 1
  BY <1>1
<1>3. Len(SubSeq(q, 1, n)) = n
  BY <1>1, <1>2
<1>4. \A i \in 1 .. n : SubSeq(q, 1, n)[i] = q[i]
  BY <1>1, <1>2
<1> QED
  BY <1>2, <1>3, <1>4

\* The empty list.
LEMMA EmptyOK ==
  /\ AList(<<>>).type = "list" /\ AList(<<>>).list = <<>>
  /\ \A v \in Value : v = AList(<<>>) <=> v.type = "list" /\ v.list = <<>>
BY DEF AList, Value

\* A push leaves a list that is not empty, and the other keys.
LEMMA PushOK ==
  ASSUME NEW d \in DB, NEW k \in Keys, NEW e \in Element, NEW w \in Positions
  PROVE  LET p == listTypePush(d, k, e, w)
         IN  /\ p \in DB
             /\ \A j \in Keys \ {k} : p[j] = d[j]
             /\ p[k].type = "list" /\ p[k].list # <<>>
<1> DEFINE q == IF w = "head" THEN <<e>> \o d[k].list ELSE Append(d[k].list, e)
           p == [d EXCEPT ![k] = AList(q)]
<1>1. d[k].list \in Seq(Element)
  BY DEF DB, Value
<1>2. q \in Seq(Element) /\ q # <<>>
  BY <1>1, ListOK
<1>3. AList(q) \in Value /\ AList(q).type = "list" /\ AList(q).list = q
  BY <1>2, ValuesOK
<1>4. listTypePush(d, k, e, w) = p
  BY DEF listTypePush
<1> HIDE DEF q
<1>5. p \in DB /\ p[k] = AList(q) /\ \A j \in Keys \ {k} : p[j] = d[j]
  BY <1>3 DEF DB
<1> QED
  BY <1>2, <1>3, <1>4, <1>5

\* A pop changes the list of one key.
LEMMA PopOK ==
  ASSUME NEW d \in DB, NEW k \in Keys, NEW w \in Positions, d[k].list # <<>>
  PROVE  LET p == listTypePop(d, k, w)
         IN  /\ p \in DB
             /\ \A j \in Keys \ {k} : p[j] = d[j]
             /\ p[k].type = d[k].type
             /\ Popped(d, k, w) \in Element
<1> DEFINE q == IF w = "head" THEN Tail(d[k].list) ELSE SubSeq(d[k].list, 1, Len(d[k].list) - 1)
           p == [d EXCEPT ![k].list = q]
<1>1. d[k] \in Value /\ d[k].list \in Seq(Element)
  BY DEF DB, Value
<1>2. q \in Seq(Element) /\ Popped(d, k, w) \in Element
  BY <1>1, ListOK DEF Popped
<1>3. listTypePop(d, k, w) = p
  BY DEF listTypePop
<1> HIDE DEF q
<1>4. [d[k] EXCEPT !.list = q] \in Value /\ [d[k] EXCEPT !.list = q].type = d[k].type
  BY <1>1, <1>2 DEF Value
<1>5. p \in DB /\ p[k] = [d[k] EXCEPT !.list = q] /\ \A j \in Keys \ {k} : p[j] = d[j]
  BY <1>4 DEF DB
<1> QED
  BY <1>2, <1>3, <1>4, <1>5

\* Deleting a list that is empty.
LEMMA DropOK ==
  ASSUME NEW d \in DB, NEW k \in Keys
  PROVE  LET p == DropEmpty(d, k)
         IN  /\ p \in DB
             /\ \A j \in Keys \ {k} : p[j] = d[j]
             /\ d[k].list = <<>> => p[k] = NoValue
             /\ d[k].list # <<>> => p[k] = d[k]
BY ValuesOK DEF DB, DropEmpty

\* LPOP and RPOP leave a list that is not empty, or nothing.
LEMMA PopCommandOK ==
  ASSUME NEW d \in DB, NEW k \in Keys, NEW w \in Positions, IsList(d, k), d[k].list # <<>>
  PROVE  LET p == pop(d, k, w)
         IN  /\ p \in DB
             /\ \A j \in Keys \ {k} : p[j] = d[j]
             /\ p[k] = NoValue \/ (p[k].type = "list" /\ p[k].list # <<>>)
<1> DEFINE r == listTypePop(d, k, w)
<1>1. r \in DB /\ r[k].type = "list" /\ \A j \in Keys \ {k} : r[j] = d[j]
  BY PopOK DEF IsList
<1> HIDE DEF r
<1>2. DropEmpty(r, k) \in DB /\ \A j \in Keys \ {k} : DropEmpty(r, k)[j] = r[j]
  BY <1>1, DropOK
<1>3. IF r[k].list = <<>> THEN DropEmpty(r, k)[k] = NoValue ELSE DropEmpty(r, k)[k] = r[k]
  BY <1>1, DropOK
<1>4. pop(d, k, w) = DropEmpty(r, k)
  BY DEF pop, r
<1> QED
  BY <1>1, <1>2, <1>3, <1>4

\* RPOPLPUSH does the same, and leaves a list at the destination.
LEMMA RpoplpushOK ==
  ASSUME NEW d \in DB, NEW k \in Keys, NEW dst \in Keys, IsList(d, k), d[k].list # <<>>
  PROVE  LET p == rpoplpush(d, k, dst)
         IN  /\ p \in DB
             /\ \A j \in Keys \ {k, dst} : p[j] = d[j]
             /\ p[k] = NoValue \/ (p[k].type = "list" /\ p[k].list # <<>>)
             /\ p[dst].type = "list" /\ p[dst].list # <<>>
<1> DEFINE r == listTypePop(d, k, "tail")
           e == Popped(d, k, "tail")
           s == listTypePush(r, dst, e, "head")
<1>0. "tail" \in Positions /\ "head" \in Positions
  BY DEF Positions
<1>1. r \in DB /\ r[k].type = "list" /\ (\A j \in Keys \ {k} : r[j] = d[j]) /\ e \in Element
  BY <1>0, PopOK DEF IsList
<1> HIDE DEF r, e
<1>2. s \in DB /\ (\A j \in Keys \ {dst} : s[j] = r[j]) /\ s[dst].type = "list" /\ s[dst].list # <<>>
  BY <1>0, <1>1, PushOK
<1> HIDE DEF s
<1>3. DropEmpty(s, k) \in DB /\ \A j \in Keys \ {k} : DropEmpty(s, k)[j] = s[j]
  BY <1>2, DropOK
<1>4. IF s[k].list = <<>> THEN DropEmpty(s, k)[k] = NoValue ELSE DropEmpty(s, k)[k] = s[k]
  BY <1>2, DropOK
<1>5. rpoplpush(d, k, dst) = DropEmpty(s, k)
  BY DEF rpoplpush, r, s, e
<1>6. s[k].type = "list"
  BY <1>1, <1>2
<1>7. DropEmpty(s, k)[dst] = s[dst]
  BY <1>2, <1>3, <1>4
<1> QED
  BY <1>1, <1>2, <1>3, <1>4, <1>5, <1>6, <1>7

-----------------------------------------------------------------------------
(***************************************************************************)
(* Writes, while no key is being served.                                   *)
(***************************************************************************)
\* While no key is being served, the copy is the database.
LEMMA CopyIsDb ==
  ASSUME IInv, serving = NotServing
  PROVE  copy = db /\ db \in DB /\ Formed(db, None)
<1>1. db \in DB /\ copy \in DB
  BY DEF IInv, TypeOK, DB
<1>2. serving.key = None /\ Formed(db, None)
  BY DEF IInv, NotServing
<1>3. \A k \in Keys : db[k] # AList(<<>>)
  BY <1>2, NoneAssumption DEF Formed, AList
<1>4. \A k \in Keys : copy[k] = db[k]
  BY <1>3 DEF IInv, CopyOK
<1> QED
  BY <1>1, <1>2, <1>4 DEF DB

\* What signalKeyAsReady and dbAdd leave in the queue.
LEMMA SignalOK ==
  ASSUME TypeOK, NEW k \in Keys
  PROVE  /\ signalKeyAsReady(k) \in Seq(Keys)
         /\ \A j : Contains(signalKeyAsReady(k), j) => Contains(ready, j) \/ j = k
         /\ \A j : Contains(ready, j) => Contains(signalKeyAsReady(k), j)
         /\ blocking[k] # <<>> => Contains(signalKeyAsReady(k), k)
<1>1. ready \in Seq(Keys)
  BY DEF TypeOK
<1>2. CASE blocking[k] = <<>> \/ Contains(ready, k)
  BY <1>1, <1>2 DEF signalKeyAsReady
<1>3. CASE ~(blocking[k] = <<>> \/ Contains(ready, k))
  <2>1. signalKeyAsReady(k) = Append(ready, k)
    BY <1>3 DEF signalKeyAsReady
  <2>2. Append(ready, k) \in Seq(Keys)
    BY <1>1
  <2>3. \A j : Contains(Append(ready, k), j) <=> Contains(ready, j) \/ j = k
    BY <1>1, ContainsAppend
  <2> QED
    BY <2>1, <2>2, <2>3
<1> QED
  BY <1>2, <1>3

\* A write to the keys in K, with what it must do for those who watch or wait
\* for them.
LEMMA WriteOK ==
  ASSUME IInv, serving = NotServing,
         NEW d \in DB, Formed(d, None),
         NEW K \in SUBSET Keys, \A k \in Keys \ K : d[k] = db[k],
         db' = d, copy' = d,
         ready' \in Seq(Keys),
         \A k \in Keys : Contains(ready', k) => Contains(ready, k) \/ k \in K,
         \A k \in Keys : IsList(d, k) /\ blocking[k] # <<>>
                           => k \in overwritten' \/ Contains(ready', k),
         pushed' \in 0 .. MaxElements, overwritten' \subseteq Keys,
         \/ signalModifiedKey(K)
         \/ NoSignal(K, None)
         \/ NoSignal(K, NoValue) /\ \A k \in K : d[k] = NoValue,
         UNCHANGED <<clientVars, serving, transactionVars>>
  PROVE  IInv'
<1>0. UNCHANGED <<blocking, bpop, serving, watched, multi, executing>>
  BY DEF clientVars, transactionVars
<1>1. serving'.key = None /\ serving.key = None /\ serving' = NotServing
  BY <1>0 DEF NotServing
<1>2. seen' \in [Watchers -> [Keys -> Value \cup {None}]] /\ dirty' \subseteq Watchers
  <2>1. CASE signalModifiedKey(K)
    BY <2>1 DEF IInv, TypeOK, signalModifiedKey
  <2>2. ASSUME NEW v \in {None, NoValue}, NoSignal(K, v)
        PROVE  seen' \in [Watchers -> [Keys -> Value \cup {None}]] /\ dirty' \subseteq Watchers
    <3>1. v \in Value \cup {None}
      BY ValuesOK
    <3>2. \A c \in Watchers, k \in Keys : seen[c][k] \in Value \cup {None}
      BY DEF IInv, TypeOK
    <3> QED
      BY <2>2, <3>1, <3>2 DEF IInv, TypeOK, NoSignal
  <2> QED
    BY <2>1, <2>2
<1>3. TypeOK'
  BY <1>0, <1>2 DEF IInv, TypeOK, DB
<1>4. Formed(db, serving.key)'
  BY <1>1 DEF Formed
<1>5. ServingOK'
  BY <1>1 DEF ServingOK
<1>6. TargetsOK'
  BY <1>0 DEF IInv, TargetsOK
<1>7. CopyOK'
  <2>1. \A k \in Keys : d[k] # AList(<<>>)
    BY NoneAssumption DEF Formed, AList
  <2> QED
    BY <2>1 DEF CopyOK
<1>8. WatchedOK'
  <2> SUFFICES ASSUME NEW c \in Watchers, c \notin dirty', NEW k \in watched[c]
               PROVE  /\ seen'[c][k] \in {d[k], None}
                      /\ IsList(d, k) /\ Contains(ready', k) => seen'[c][k] = None
    <3>1. \A c \in Watchers : \A k \in watched[c] : k # None
      BY NoneAssumption DEF IInv, TypeOK
    <3> QED
      BY <1>0, <1>1, <3>1 DEF WatchedOK, IsList
  <2>0. k \in Keys
    BY DEF IInv, TypeOK
  <2>1. CASE signalModifiedKey(K)
    <3>1. c \notin dirty /\ k \notin K /\ seen'[c][k] = seen[c][k]
      BY <2>1 DEF signalModifiedKey
    <3>2. d[k] = db[k] /\ (Contains(ready', k) => Contains(ready, k))
      BY <2>0, <3>1
    <3> QED
      BY <3>1, <3>2 DEF IInv, WatchedOK, IsList
  <2>2. ASSUME NEW v, NoSignal(K, v), v = None \/ (v = NoValue /\ \A j \in K : d[j] = NoValue)
        PROVE  /\ seen'[c][k] \in {d[k], None}
               /\ IsList(d, k) /\ Contains(ready', k) => seen'[c][k] = None
    <3>1. c \notin dirty
      BY <2>2 DEF NoSignal
    <3>2. CASE k \in K
      <4>1. seen'[c][k] = v
        BY <2>0, <2>2, <3>2 DEF NoSignal
      <4> QED
        BY <2>2, <3>2, <4>1, ValuesOK DEF IsList
    <3>3. CASE k \notin K
      <4>1. seen'[c][k] = seen[c][k]
        BY <2>0, <2>2, <3>3 DEF NoSignal
      <4>2. d[k] = db[k] /\ (Contains(ready', k) => Contains(ready, k))
        BY <2>0, <3>3
      <4> QED
        BY <3>1, <4>1, <4>2 DEF IInv, WatchedOK, IsList
    <3> QED
      BY <3>2, <3>3
  <2> QED
    BY <2>1, <2>2
<1>9. BlockedOK'
  BY <1>0 DEF BlockedOK, IsList
<1>10. ExecutingOK'
  BY <1>0 DEF IInv, ExecutingOK
<1> QED
  BY <1>3, <1>4, <1>5, <1>6, <1>7, <1>8, <1>9, <1>10 DEF IInv

\* What BlockedOK says of the keys that a write leaves alone.
LEMMA Waiting ==
  ASSUME IInv, serving = NotServing, NEW k \in Keys, IsList(db, k), blocking[k] # <<>>
  PROVE  k \in overwritten \/ Contains(ready, k)
<1>1. serving.key # k
  BY NoneAssumption DEF NotServing
<1> QED
  BY <1>1 DEF IInv, BlockedOK

\* A write to one key through dbAdd.
LEMMA AddOK ==
  ASSUME IInv, serving = NotServing,
         NEW k \in Keys, NEW d \in DB, NEW K \in SUBSET Keys, k \in K,
         \A j \in Keys \ {k} : IsList(d, j) => IsList(db, j),
         dbAdd(k, d),
         \A j \in overwritten : IsList(d, j) => j \in overwritten',
         IsList(d, k) /\ Exists(db, k) /\ ~IsList(db, k) => k \in overwritten'
  PROVE  /\ ready' \in Seq(Keys)
         /\ \A j \in Keys : Contains(ready', j) => Contains(ready, j) \/ j \in K
         /\ \A j \in Keys : IsList(d, j) /\ blocking[j] # <<>>
                              => j \in overwritten' \/ Contains(ready', j)
<1>0. TypeOK /\ ready \in Seq(Keys)
  BY DEF IInv, TypeOK
<1>1. ready' = ready \/ ready' = signalKeyAsReady(k)
  BY DEF dbAdd
<1>2. /\ ready' \in Seq(Keys)
      /\ \A j : Contains(ready', j) => Contains(ready, j) \/ j = k
      /\ \A j : Contains(ready, j) => Contains(ready', j)
  BY <1>0, <1>1, SignalOK
<1>3. ASSUME NEW j \in Keys, IsList(d, j), blocking[j] # <<>>
      PROVE  j \in overwritten' \/ Contains(ready', j)
  <2>1. CASE IsList(db, j)
    <3>1. j \in overwritten \/ Contains(ready, j)
      BY <1>3, <2>1, Waiting
    <3> QED
      BY <1>2, <1>3, <3>1
  <2>2. CASE ~IsList(db, j) /\ Exists(db, j)
    BY <1>3, <2>2
  <2>3. CASE ~Exists(db, j)
    <3>1. j = k
      BY <1>3, <2>3 DEF IsList, Exists
    <3>2. ready' = signalKeyAsReady(k)
      BY <1>3, <2>3, <3>1 DEF dbAdd
    <3> QED
      BY <1>0, <1>3, <3>1, <3>2, SignalOK
  <2> QED
    BY <2>1, <2>2, <2>3
<1> QED
  BY <1>2, <1>3

\* A write that creates no list.
LEMMA LessOK ==
  ASSUME IInv, serving = NotServing, NEW d \in DB, NEW K,
         \A j \in Keys : IsList(d, j) => IsList(db, j),
         ready' = ready,
         \A j \in overwritten : IsList(d, j) => j \in overwritten'
  PROVE  /\ ready' \in Seq(Keys)
         /\ \A j \in Keys : Contains(ready', j) => Contains(ready, j) \/ j \in K
         /\ \A j \in Keys : IsList(d, j) /\ blocking[j] # <<>>
                              => j \in overwritten' \/ Contains(ready', j)
<1>1. ready' \in Seq(Keys)
  BY DEF IInv, TypeOK
<1> QED
  BY <1>1, Waiting

\* The element that a push adds.
LEMMA NewElementOK ==
  ASSUME TypeOK, pushed < MaxElements
  PROVE  NewElement \in Element /\ NewElement \in 0 .. MaxElements
BY MaxElementsAssumption DEF TypeOK, NewElement, Element

\* A key that is deleted without a signal: MOVE, expire and eviction.
LEMMA DeletedUnseenOK ==
  ASSUME IInv, serving = NotServing, NEW k \in Keys, DeletedUnseen(k)
  PROVE  IInv'
<1> DEFINE d == [db EXCEPT ![k] = NoValue]
<1>0. copy = db /\ db \in DB /\ Formed(db, None)
  BY CopyIsDb
<1>1. d \in DB /\ d[k] = NoValue /\ \A j \in Keys \ {k} : d[j] = db[j]
  BY <1>0, ValuesOK DEF DB
<1>2. db' = d /\ copy' = d /\ NoSignal({k}, NoValue) /\ overwritten' = overwritten \ {k}
  BY <1>0 DEF DeletedUnseen
<1>3. UNCHANGED <<clientVars, ready, serving, transactionVars, pushed>>
  BY DEF DeletedUnseen
<1> HIDE DEF d
<1>4. Formed(d, None)
  BY <1>0, <1>1, ValuesOK DEF Formed
<1>5. \A j \in Keys : IsList(d, j) => j # k /\ IsList(db, j)
  BY <1>1, ValuesOK DEF IsList
<1>6. /\ ready' \in Seq(Keys)
      /\ \A j \in Keys : Contains(ready', j) => Contains(ready, j) \/ j \in {k}
      /\ \A j \in Keys : IsList(d, j) /\ blocking[j] # <<>>
                           => j \in overwritten' \/ Contains(ready', j)
  <2>1. \A j \in overwritten : IsList(d, j) => j \in overwritten'
    BY <1>2, <1>5 DEF IInv, TypeOK
  <2> QED
    BY <1>1, <1>3, <1>5, <2>1, LessOK
<1>7. pushed' \in 0 .. MaxElements /\ overwritten' \subseteq Keys
  BY <1>2, <1>3 DEF IInv, TypeOK
<1> QED
  BY <1>1, <1>2, <1>3, <1>4, <1>6, <1>7, WriteOK

\* A write that turns the keys in K into something that is no new list, and
\* signals them.
LEMMA ShrinkOK ==
  ASSUME IInv, serving = NotServing, NEW K \in SUBSET Keys, NEW d \in DB,
         db' = d, copy' = d,
         \A j \in Keys \ K : d[j] = db[j],
         \A j \in K : \/ d[j] = NoValue
                      \/ d[j] = AString
                      \/ IsList(db, j) /\ IsList(d, j) /\ d[j].list # <<>>,
         signalModifiedKey(K), overwritten' = {j \in overwritten : IsList(d, j)},
         UNCHANGED <<clientVars, ready, serving, transactionVars, pushed>>
  PROVE  IInv'
<1>0. Formed(db, None)
  BY CopyIsDb
<1>1. \A j \in Keys : IsList(d, j) => IsList(db, j)
  BY ValuesOK DEF IsList
<1>2. Formed(d, None)
  BY <1>0, ValuesOK DEF Formed, IsList
<1>3. pushed' \in 0 .. MaxElements /\ overwritten' \subseteq Keys
  BY DEF IInv, TypeOK
<1>4. /\ ready' \in Seq(Keys)
      /\ \A j \in Keys : Contains(ready', j) => Contains(ready, j) \/ j \in K
      /\ \A j \in Keys : IsList(d, j) /\ blocking[j] # <<>>
                           => j \in overwritten' \/ Contains(ready', j)
  BY <1>1, LessOK
<1> QED
  BY <1>2, <1>3, <1>4, WriteOK

\* LPUSH and RPUSH, and SORT STORE, which overwrites what was there.
LEMMA PushesOK ==
  ASSUME IInv, serving = NotServing, NEW k \in Keys, NEW d \in DB,
         db' = d, copy' = d,
         \A j \in Keys \ {k} : d[j] = db[j],
         IsList(d, k), d[k].list # <<>>,
         dbAdd(k, d), signalModifiedKey({k}),
         pushed' \in 0 .. MaxElements,
         overwritten' = IF db[k].type = "string" THEN overwritten \cup {k} ELSE overwritten,
         UNCHANGED <<clientVars, serving, transactionVars>>
  PROVE  IInv'
<1>0. Formed(db, None) /\ db \in DB
  BY CopyIsDb
<1>1. \A j \in Keys \ {k} : IsList(d, j) => IsList(db, j)
  BY DEF IsList
<1>2. Formed(d, None)
  BY <1>0 DEF Formed, IsList
<1>3. overwritten' \subseteq Keys /\ \A j \in overwritten : j \in overwritten'
  BY DEF IInv, TypeOK
<1>4. IsList(d, k) /\ Exists(db, k) /\ ~IsList(db, k) => k \in overwritten'
  <2>1. db[k].type \in {"none", "list", "string"}
    BY <1>0 DEF DB, Value
  <2> QED
    BY <2>1 DEF Exists, IsList
<1>5. /\ ready' \in Seq(Keys)
      /\ \A j \in Keys : Contains(ready', j) => Contains(ready, j) \/ j \in {k}
      /\ \A j \in Keys : IsList(d, j) /\ blocking[j] # <<>>
                           => j \in overwritten' \/ Contains(ready', j)
  <2>1. {k} \in SUBSET Keys /\ k \in {k}
    OBVIOUS
  <2> QED
    BY <1>1, <1>3, <1>4, <2>1, AddOK
<1> QED
  BY <1>2, <1>3, <1>5, WriteOK

\* MOVE of a key into the database.
LEMMA MoveInOK ==
  ASSUME IInv, NEW k \in Keys, NEW v \in Incoming, MoveIn(k, v)
  PROVE  IInv'
<1> DEFINE d == [db EXCEPT ![k] = v]
<1>0. serving = NotServing /\ TypeOK
  BY DEF MoveIn, CanCall, IInv
<1>1. copy = db /\ db \in DB /\ Formed(db, None)
  BY <1>0, CopyIsDb
<1>2. \/ v = AString /\ Len(v.list) = 0
      \/ pushed < MaxElements /\ v = AList(<<NewElement>>) /\ Len(v.list) = 1
  BY DEF Incoming, AString, AList
<1>3. /\ v \in Value
      /\ v.type # "list" => v.list = <<>>
      /\ v.type = "list" => v.list # <<>>
  <2>1. CASE v = AString
    BY <2>1, ValuesOK
  <2>2. CASE pushed < MaxElements /\ v = AList(<<NewElement>>)
    <3>1. <<NewElement>> \in Seq(Element) /\ <<NewElement>> # <<>>
      BY <1>0, <2>2, NewElementOK
    <3> QED
      BY <2>2, <3>1, ValuesOK
  <2> QED
    BY <1>2, <2>1, <2>2
<1>4. d \in DB /\ d[k] = v /\ \A j \in Keys \ {k} : d[j] = db[j]
  BY <1>1, <1>3 DEF DB
<1>5. /\ db' = d /\ copy' = d /\ dbAdd(k, d) /\ NoSignal({k}, None) /\ ~Exists(db, k)
      /\ overwritten' = overwritten
      /\ UNCHANGED <<clientVars, serving, transactionVars>>
  BY <1>1 DEF MoveIn
<1> HIDE DEF d
<1>6. pushed' \in 0 .. MaxElements
  <2>1. pushed \in 0 .. MaxElements /\ pushed' = pushed + Len(v.list)
    BY <1>0 DEF TypeOK, MoveIn
  <2>2. CASE Len(v.list) = 0
    BY <2>1, <2>2, MaxElementsAssumption
  <2>3. CASE Len(v.list) = 1 /\ pushed < MaxElements
    BY <2>1, <2>3, MaxElementsAssumption
  <2> QED
    BY <1>2, <2>2, <2>3
<1>7. Formed(d, None)
  BY <1>1, <1>3, <1>4 DEF Formed
<1>8. overwritten' \subseteq Keys
  BY <1>0, <1>5 DEF TypeOK
<1>9. /\ ready' \in Seq(Keys)
      /\ \A j \in Keys : Contains(ready', j) => Contains(ready, j) \/ j \in {k}
      /\ \A j \in Keys : IsList(d, j) /\ blocking[j] # <<>>
                           => j \in overwritten' \/ Contains(ready', j)
  <2>1. {k} \in SUBSET Keys /\ k \in {k}
    OBVIOUS
  <2>2. \A j \in Keys \ {k} : IsList(d, j) => IsList(db, j)
    BY <1>4 DEF IsList
  <2> QED
    BY <1>0, <1>4, <1>5, <2>1, <2>2, AddOK
<1> QED
  BY <1>0, <1>4, <1>5, <1>6, <1>7, <1>8, <1>9, WriteOK

\* RPOPLPUSH.
LEMMA RpoplpushCommandOK ==
  ASSUME IInv, NEW k \in Keys, NEW dst \in Keys, rpoplpushCommand(k, dst)
  PROVE  IInv'
<1> DEFINE d == rpoplpush(db, k, dst)
<1>0. serving = NotServing
  BY DEF rpoplpushCommand, CanCall
<1>1. copy = db /\ db \in DB /\ Formed(db, None)
  BY <1>0, CopyIsDb
<1>2. IsList(db, k) /\ db[dst].type # "string" /\ db[k].list # <<>>
  BY <1>1, NoneAssumption DEF rpoplpushCommand, Formed, IsList
<1>3. /\ d \in DB
      /\ \A j \in Keys \ {k, dst} : d[j] = db[j]
      /\ d[k] = NoValue \/ (d[k].type = "list" /\ d[k].list # <<>>)
      /\ d[dst].type = "list" /\ d[dst].list # <<>>
  BY <1>1, <1>2, RpoplpushOK
<1>4. /\ db' = d /\ copy' = d /\ dbAdd(dst, d) /\ signalModifiedKey({k, dst})
      /\ overwritten' = {j \in overwritten : IsList(d, j)}
      /\ UNCHANGED <<clientVars, serving, transactionVars, pushed>>
  BY <1>1 DEF rpoplpushCommand, Overwrites
<1> HIDE DEF d
<1>5. Formed(d, None)
  BY <1>1, <1>3, ValuesOK DEF Formed
<1>6. overwritten' \subseteq Keys /\ pushed' \in 0 .. MaxElements
  BY <1>4 DEF IInv, TypeOK
<1>7. \A j \in Keys \ {dst} : IsList(d, j) => IsList(db, j)
  BY <1>2, <1>3 DEF IsList
<1>8. Exists(db, dst) => IsList(db, dst)
  BY <1>1, <1>2 DEF DB, Value, Exists, IsList
<1>9. /\ ready' \in Seq(Keys)
      /\ \A j \in Keys : Contains(ready', j) => Contains(ready, j) \/ j \in {k, dst}
      /\ \A j \in Keys : IsList(d, j) /\ blocking[j] # <<>>
                           => j \in overwritten' \/ Contains(ready', j)
  <2>1. {k, dst} \in SUBSET Keys /\ dst \in {k, dst}
    OBVIOUS
  <2>2. \A j \in overwritten : IsList(d, j) => j \in overwritten'
    BY <1>4
  <2> QED
    BY <1>0, <1>3, <1>4, <1>7, <1>8, <2>1, <2>2, AddOK
<1> QED
  BY <1>0, <1>3, <1>4, <1>5, <1>6, <1>9, WriteOK

\* RENAME.
LEMMA RenameOK ==
  ASSUME IInv, NEW k \in Keys, NEW dst \in Keys, renameCommand(k, dst)
  PROVE  IInv'
<1> DEFINE d == rename(db, k, dst)
<1>0. serving = NotServing /\ k # dst /\ TypeOK
  BY DEF renameCommand, CanCall, IInv
<1>1. copy = db /\ db \in DB /\ Formed(db, None)
  BY <1>0, CopyIsDb
<1>2. d \in DB /\ d[dst] = db[k] /\ d[k] = NoValue /\ \A j \in Keys \ {k, dst} : d[j] = db[j]
  BY <1>0, <1>1, ValuesOK DEF rename, DB
<1>3. /\ db' = d /\ copy' = d
      /\ ready' = IF IsList(d, dst) THEN signalKeyAsReady(dst) ELSE ready
      /\ signalModifiedKey({k, dst})
      /\ overwritten' = overwritten \ {k, dst}
      /\ UNCHANGED <<clientVars, serving, transactionVars, pushed>>
  BY <1>1 DEF renameCommand
<1> HIDE DEF d
<1>4. Formed(d, None)
  <2>1. \A j \in Keys : db[j].type = "list" => db[j].list # <<>>
    BY <1>1, NoneAssumption DEF Formed
  <2>2. \A j \in Keys : db[j].type # "list" => db[j].list = <<>>
    BY <1>1 DEF Formed
  <2>3. ASSUME NEW j \in Keys
        PROVE  d[j] \in {NoValue, db[j], db[k]}
    BY <1>2
  <2> QED
    BY <2>1, <2>2, <2>3, ValuesOK DEF Formed
<1>5. overwritten' \subseteq Keys /\ pushed' \in 0 .. MaxElements
  BY <1>0, <1>3 DEF TypeOK
<1>6. /\ ready' \in Seq(Keys)
      /\ \A j : Contains(ready', j) => Contains(ready, j) \/ j = dst
      /\ \A j : Contains(ready, j) => Contains(ready', j)
  <2>1. ready \in Seq(Keys)
    BY <1>0 DEF TypeOK
  <2>2. ready' = ready \/ ready' = signalKeyAsReady(dst)
    BY <1>3
  <2> QED
    BY <1>0, <2>1, <2>2, SignalOK
<1>7. ASSUME NEW j \in Keys, IsList(d, j), blocking[j] # <<>>
      PROVE  j \in overwritten' \/ Contains(ready', j)
  <2>1. j # k
    BY <1>2, <1>7, ValuesOK DEF IsList
  <2>2. CASE j = dst
    BY <1>0, <1>3, <1>7, <2>2, SignalOK
  <2>3. CASE j # dst
    <3>1. IsList(db, j)
      BY <1>2, <1>7, <2>1, <2>3 DEF IsList
    <3>2. j \in overwritten \/ Contains(ready, j)
      BY <1>0, <1>7, <3>1, Waiting
    <3> QED
      BY <1>3, <1>6, <2>1, <2>3, <3>2
  <2> QED
    BY <2>2, <2>3
<1>8. \A j \in Keys : Contains(ready', j) => Contains(ready, j) \/ j \in {k, dst}
  BY <1>6
<1>9. {k, dst} \in SUBSET Keys
  OBVIOUS
<1> QED
  BY <1>0, <1>2, <1>3, <1>4, <1>5, <1>6, <1>7, <1>8, <1>9, WriteOK

\* SWAPDB.
LEMMA SwapdbOK ==
  ASSUME IInv, NEW d \in Swapped, swapdbCommand(d)
  PROVE  IInv'
<1> DEFINE Ready == {k \in Keys : IsList(d, k) /\ blocking[k] # <<>> /\ ~Contains(ready, k)}
           Lists == {k \in Keys : IsList(d, k)}
<1>0. serving = NotServing /\ TypeOK /\ ready \in Seq(Keys)
  BY DEF swapdbCommand, CanCall, IInv, TypeOK
<1>1. ASSUME NEW k \in Keys
      PROVE  /\ d[k] \in Value
             /\ d[k].type # "list" => d[k].list = <<>>
             /\ d[k].type = "list" => d[k].list # <<>> /\ pushed < MaxElements
  <2>1. \/ d[k] \in {NoValue, AString}
        \/ pushed < MaxElements /\ d[k] = AList(<<NewElement>>)
    BY DEF Swapped, Incoming
  <2>2. CASE d[k] \in {NoValue, AString}
    BY <2>2, ValuesOK
  <2>3. CASE pushed < MaxElements /\ d[k] = AList(<<NewElement>>)
    <3>1. <<NewElement>> \in Seq(Element) /\ <<NewElement>> # <<>>
      BY <1>0, <2>3, NewElementOK
    <3> QED
      BY <2>3, <3>1, ValuesOK
  <2> QED
    BY <2>1, <2>2, <2>3
<1>2. d \in DB /\ Formed(d, None)
  BY <1>1 DEF Swapped, DB, Formed
<1>3. /\ db' = d /\ copy' = d /\ NoSignal(Keys, None) /\ overwritten' = {}
      /\ pushed' = pushed + Cardinality(Lists)
      /\ UNCHANGED <<clientVars, serving, transactionVars>>
  BY DEF swapdbCommand
<1>4. pushed' \in 0 .. MaxElements
  <2>1. IsFiniteSet(Lists)
    BY KeysAssumption, FS_Subset
  <2>2. Cardinality(Lists) \in Nat /\ Cardinality(Lists) <= 1
    BY <2>1, FS_CardinalityType DEF Swapped
  <2>3. pushed \in 0 .. MaxElements
    BY <1>0 DEF TypeOK
  <2>4. CASE Lists = {}
    <3>1. Cardinality(Lists) = 0
      BY <2>4, FS_EmptySet
    <3> QED
      BY <1>3, <2>3, <3>1, MaxElementsAssumption
  <2>5. CASE Lists # {}
    <3>1. pushed < MaxElements
      BY <1>1, <2>5 DEF IsList
    <3> HIDE DEF Lists
    <3> QED
      BY <1>3, <2>2, <2>3, <3>1, MaxElementsAssumption
  <2> QED
    BY <2>4, <2>5
<1>5. PICK q \in [1 .. Cardinality(Ready) -> Ready] :
              (\A k \in Ready : Contains(q, k)) /\ ready' = ready \o q
  BY DEF swapdbCommand
<1>6. q \in Seq(Keys)
  <2>1. IsFiniteSet(Ready)
    BY KeysAssumption, FS_Subset
  <2>2. Cardinality(Ready) \in Nat
    BY <2>1, FS_CardinalityType
  <2>3. Ready \subseteq Keys
    OBVIOUS
  <2> HIDE DEF Ready
  <2>4. q \in [1 .. Cardinality(Ready) -> Keys]
    BY <2>3
  <2> QED
    BY <2>2, <2>4
<1>7. ready' \in Seq(Keys) /\ \A k : Contains(ready', k) <=> Contains(ready, k) \/ Contains(q, k)
  <2>1. ready \o q \in Seq(Keys)
    BY <1>0, <1>6
  <2> QED
    BY <1>0, <1>5, <1>6, <2>1, ContainsConcat
<1>8. \A k \in Keys : IsList(d, k) /\ blocking[k] # <<>>
                        => k \in overwritten' \/ Contains(ready', k)
  BY <1>5, <1>7
<1>9. Keys \in SUBSET Keys /\ overwritten' \subseteq Keys /\ \A k \in Keys \ Keys : d[k] = db[k]
  BY <1>3
<1>10. \A k \in Keys : Contains(ready', k) => Contains(ready, k) \/ k \in Keys
  OBVIOUS
<1> HIDE DEF Ready, Lists
<1> QED
  BY <1>0, <1>2, <1>3, <1>4, <1>7, <1>8, <1>9, <1>10, WriteOK

\* The commands that write keep the invariant.
LEMMA WriteStep ==
  ASSUME IInv, Write
  PROVE  IInv'
<1>1. ASSUME NEW k \in Keys, NEW where \in Positions, pushGenericCommand(k, where)
      PROVE  IInv'
  <2> DEFINE d == listTypePush(db, k, NewElement, where)
  <2>0. serving = NotServing /\ TypeOK /\ pushed < MaxElements
    BY <1>1 DEF pushGenericCommand, CanCall, IInv
  <2>1. copy = db /\ db \in DB
    BY <2>0, CopyIsDb
  <2>2. NewElement \in Element /\ NewElement \in 0 .. MaxElements
    BY <2>0, NewElementOK
  <2>3. d \in DB /\ (\A j \in Keys \ {k} : d[j] = db[j]) /\ IsList(d, k) /\ d[k].list # <<>>
    BY <2>1, <2>2, PushOK DEF IsList
  <2>4. /\ db' = d /\ copy' = d /\ dbAdd(k, d) /\ signalModifiedKey({k})
        /\ pushed' \in 0 .. MaxElements
        /\ overwritten' = IF db[k].type = "string" THEN overwritten \cup {k} ELSE overwritten
        /\ UNCHANGED <<clientVars, serving, transactionVars>>
    BY <1>1, <2>1, <2>2 DEF pushGenericCommand
  <2> HIDE DEF d
  <2> QED
    BY <2>0, <2>3, <2>4, PushesOK
<1>2. ASSUME NEW k \in Keys, NEW where \in Positions, popGenericCommand(k, where)
      PROVE  IInv'
  <2> DEFINE d == pop(db, k, where)
  <2>0. serving = NotServing /\ IsList(db, k)
    BY <1>2 DEF popGenericCommand, CanCall
  <2>1. copy = db /\ db \in DB /\ db[k].list # <<>>
    BY <2>0, CopyIsDb, NoneAssumption DEF Formed, IsList
  <2>2. d \in DB /\ (\A j \in Keys \ {k} : d[j] = db[j])
    BY <2>0, <2>1, PopCommandOK
  <2>3. d[k] = NoValue \/ (IsList(d, k) /\ d[k].list # <<>>)
    BY <2>0, <2>1, PopCommandOK DEF IsList
  <2>4. /\ db' = d /\ copy' = d /\ signalModifiedKey({k})
        /\ overwritten' = {j \in overwritten : IsList(d, j)}
        /\ UNCHANGED <<clientVars, ready, serving, transactionVars, pushed>>
    BY <1>2, <2>1 DEF popGenericCommand, Overwrites
  <2> HIDE DEF d
  <2>5. {k} \in SUBSET Keys
    OBVIOUS
  <2> QED
    BY <2>0, <2>2, <2>3, <2>4, <2>5, ShrinkOK
<1>3. ASSUME NEW k \in Keys, setCommand(k)
      PROVE  IInv'
  <2> DEFINE d == [db EXCEPT ![k] = AString]
  <2>0. serving = NotServing
    BY <1>3 DEF setCommand, CanCall
  <2>1. copy = db /\ db \in DB
    BY <2>0, CopyIsDb
  <2>2. d \in DB /\ d[k] = AString /\ (\A j \in Keys \ {k} : d[j] = db[j])
    BY <2>1, ValuesOK DEF DB
  <2>3. /\ db' = d /\ copy' = d /\ signalModifiedKey({k})
        /\ overwritten' = {j \in overwritten : IsList(d, j)}
        /\ UNCHANGED <<clientVars, ready, serving, transactionVars, pushed>>
    BY <1>3, <2>1 DEF setCommand, Overwrites
  <2> HIDE DEF d
  <2>4. {k} \in SUBSET Keys
    OBVIOUS
  <2> QED
    BY <2>0, <2>2, <2>3, <2>4, ShrinkOK
<1>4. ASSUME NEW k \in Keys, sortCommand(k)
      PROVE  IInv'
  <2> DEFINE d == [db EXCEPT ![k] = AList(<<NewElement>>)]
  <2>0. serving = NotServing /\ TypeOK /\ pushed < MaxElements
    BY <1>4 DEF sortCommand, CanCall, IInv
  <2>1. copy = db /\ db \in DB
    BY <2>0, CopyIsDb
  <2>2. NewElement \in Element /\ NewElement \in 0 .. MaxElements
    BY <2>0, NewElementOK
  <2>3. <<NewElement>> \in Seq(Element) /\ <<NewElement>> # <<>>
    BY <2>2
  <2>4. d \in DB /\ (\A j \in Keys \ {k} : d[j] = db[j]) /\ IsList(d, k) /\ d[k].list # <<>>
    BY <2>1, <2>3, ValuesOK DEF IsList, DB
  <2>5. /\ db' = d /\ copy' = d /\ dbAdd(k, d) /\ signalModifiedKey({k})
        /\ pushed' \in 0 .. MaxElements
        /\ overwritten' = IF db[k].type = "string" THEN overwritten \cup {k} ELSE overwritten
        /\ UNCHANGED <<clientVars, serving, transactionVars>>
    BY <1>4, <2>1, <2>2 DEF sortCommand
  <2> HIDE DEF d
  <2> QED
    BY <2>0, <2>4, <2>5, PushesOK
<1>5. ASSUME NEW k \in Keys, delCommand(k)
      PROVE  IInv'
  <2> DEFINE d == [db EXCEPT ![k] = NoValue]
  <2>0. serving = NotServing
    BY <1>5 DEF delCommand, CanCall
  <2>1. copy = db /\ db \in DB
    BY <2>0, CopyIsDb
  <2>2. d \in DB /\ d[k] = NoValue /\ (\A j \in Keys \ {k} : d[j] = db[j])
    BY <2>1, ValuesOK DEF DB
  <2>3. /\ db' = d /\ copy' = d /\ signalModifiedKey({k})
        /\ overwritten' = {j \in overwritten : IsList(d, j)}
        /\ UNCHANGED <<clientVars, ready, serving, transactionVars, pushed>>
    BY <1>5, <2>1 DEF delCommand, Overwrites
  <2> HIDE DEF d
  <2>4. {k} \in SUBSET Keys
    OBVIOUS
  <2> QED
    BY <2>0, <2>2, <2>3, <2>4, ShrinkOK
<1>6. ASSUME NEW k \in Keys, expireGenericCommand(k)
      PROVE  IInv'
  <2>0. serving = NotServing
    BY <1>6 DEF expireGenericCommand, CanCall
  <2>1. copy = db /\ db \in DB /\ Formed(db, None)
    BY <2>0, CopyIsDb
  <2>2. /\ db' = db /\ copy' = db /\ signalModifiedKey({k}) /\ {k} \in SUBSET Keys
        /\ ready' = ready /\ pushed' = pushed /\ overwritten' = overwritten
        /\ UNCHANGED <<clientVars, serving, transactionVars>>
    BY <1>6, <2>1 DEF expireGenericCommand
  <2>3. ready' \in Seq(Keys) /\ pushed' \in 0 .. MaxElements /\ overwritten' \subseteq Keys
    BY <2>2 DEF IInv, TypeOK
  <2>4. \A j \in Keys : IsList(db, j) /\ blocking[j] # <<>>
                          => j \in overwritten' \/ Contains(ready', j)
    BY <2>0, <2>2, Waiting
  <2>5. \A j \in Keys : Contains(ready', j) => Contains(ready, j) \/ j \in {k}
    BY <2>2
  <2> QED
    BY <2>0, <2>1, <2>2, <2>3, <2>4, <2>5, WriteOK
<1>7. CASE flushdbCommand
  <2> DEFINE d == [k \in Keys |-> NoValue]
             K == {k \in Keys : Exists(db, k)}
  <2>0. serving = NotServing
    BY <1>7 DEF flushdbCommand, CanCall
  <2>1. copy = db /\ db \in DB /\ Formed(db, None)
    BY <2>0, CopyIsDb
  <2>2. d \in DB /\ K \in SUBSET Keys /\ (\A j \in K : d[j] = NoValue) /\ \A j \in Keys : ~IsList(d, j)
    BY ValuesOK DEF DB, IsList
  <2>3. \A j \in Keys \ K : d[j] = db[j]
    BY <2>1, NoValueOK
  <2>4. /\ db' = d /\ copy' = d /\ signalModifiedKey(K) /\ overwritten' = {}
        /\ UNCHANGED <<clientVars, ready, serving, transactionVars, pushed>>
    BY <1>7 DEF flushdbCommand
  <2> HIDE DEF d, K
  <2>5. overwritten' = {j \in overwritten : IsList(d, j)}
    BY <2>2, <2>4 DEF IInv, TypeOK
  <2> QED
    BY <2>0, <2>2, <2>3, <2>4, <2>5, ShrinkOK
<1>8. ASSUME NEW k \in Keys, MoveOut(k) \/ expireIfNeeded(k) \/ freeMemoryIfNeeded(k)
      PROVE  IInv'
  <2>1. serving = NotServing /\ DeletedUnseen(k)
    BY <1>8 DEF MoveOut, expireIfNeeded, freeMemoryIfNeeded, CanCall, Idle
  <2> QED
    BY <2>1, DeletedUnseenOK
<1> QED
  BY <1>1, <1>2, <1>3, <1>4, <1>5, <1>6, <1>7, <1>8,
     MoveInOK, RpoplpushCommandOK, RenameOK, SwapdbOK DEF Write

=============================================================================
