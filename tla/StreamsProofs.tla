--------------------------- MODULE StreamsProofs ---------------------------
(***************************************************************************)
(* For any set of consumers, any last possible ID and any bounds: the      *)
(* PELs of a group and of its consumers agree on the master and on the     *)
(* copy, IDs stay monotone, and a read with ">" gives only new entries.    *)
(***************************************************************************)
EXTENDS Streams, FiniteSetTheorems, TLAPS

\* What every command preserves on the stream it is executed on.
StreamOK(s) == s \in Stream /\ GroupAgrees(s.cg) /\ Monotone(s)

-----------------------------------------------------------------------------
\* The greater of two IDs is an ID.
LEMMA MaxOfType ==
  ASSUME NEW a \in ID, NEW b \in ID
  PROVE  MaxOf(a, b) \in ID
BY DEF MaxOf

\* A group that was just created has empty PELs.
LEMMA NewGroupOK ==
  ASSUME NEW id \in ID
  PROVE  streamCreateCG(id) \in Group /\ GroupAgrees(streamCreateCG(id))
BY ConsumersAssumption DEF streamCreateCG, Group, GroupAgrees

\* The absent group and the absent stream are well formed.
LEMMA NoneOK == NoGroup \in Group /\ GroupAgrees(NoGroup) /\ StreamOK(NoStream)
<1>1. 0 \in ID
  BY MaxIDAssumption DEF ID
<1>2. NoGroup \in Group
  BY <1>1, NewGroupOK DEF NoGroup, Group, streamCreateCG
<1>3. GroupAgrees(NoGroup)
  BY ConsumersAssumption DEF GroupAgrees, NoGroup, streamCreateCG
<1>4. NoStream \in Stream
  BY <1>1, <1>2 DEF NoStream, Stream
<1> QED
  BY <1>2, <1>3, <1>4 DEF StreamOK, Monotone, NoStream

\* Looking a consumer up may create it, and changes no PEL.
LEMMA LookupOK ==
  ASSUME NEW g \in Group, GroupAgrees(g), g.created, NEW c \in Consumers
  PROVE  LET h == streamLookupConsumer(g, c)
         IN  /\ h \in Group /\ GroupAgrees(h) /\ h.created
             /\ h.last_id = g.last_id /\ h.pel = g.pel /\ h.pels = g.pels
BY DEF streamLookupConsumer, Group, GroupAgrees

\* Giving entries to a consumer, from another one or from none, moves them
\* in both kinds of PEL.
LEMMA ReassignOK ==
  ASSUME NEW g \in Group, GroupAgrees(g), g.created, NEW c \in Consumers,
         NEW S \in SUBSET EntryID
  PROVE  LET h == Reassign(g, c, S)
         IN  /\ h \in Group /\ GroupAgrees(h) /\ h.created
             /\ h.last_id = g.last_id
             /\ h.pel = [i \in EntryID |-> IF i \in S THEN c ELSE g.pel[i]]
<1> DEFINE h == Reassign(g, c, S)
           P == [i \in EntryID |-> IF i \in S THEN c ELSE g.pel[i]]
           Q == [x \in Consumers |->
                   (g.pels[x] \ {i \in S : g.pel[i] = x}) \cup (IF x = c THEN S ELSE {})]
<1>1. h = [g EXCEPT !.consumers = g.consumers \cup {c}, !.pel = P, !.pels = Q]
  BY DEF Reassign, streamLookupConsumer, Group
<1>2. P \in [EntryID -> Consumers \cup {None}] /\ Q \in [Consumers -> SUBSET EntryID]
  BY DEF Group
<1>3. h \in Group /\ h.created /\ h.last_id = g.last_id /\ h.pel = P /\ h.pels = Q
        /\ h.consumers = g.consumers \cup {c}
  <2> HIDE DEF P, Q, h
  <2> QED BY <1>1, <1>2 DEF Group
<1>4. \A x \in Consumers, i \in EntryID : i \in Q[x] <=> P[i] = x
  BY DEF GroupAgrees, Group
<1>5. \A i \in EntryID : P[i] # None => P[i] \in g.consumers \cup {c}
  BY DEF GroupAgrees, Group
<1> QED
  <2> HIDE DEF P, Q, h
  <2>1. GroupAgrees(h)
    BY <1>3, <1>4, <1>5 DEF GroupAgrees
  <2> QED BY <2>1, <1>3 DEF P, h

-----------------------------------------------------------------------------
\* A command that only changes entries and the last ID.
LEMMA EntriesOK ==
  ASSUME NEW s, StreamOK(s), s.exists, NEW E \in SUBSET EntryID, NEW id \in ID,
         \A e \in E : e <= id
  PROVE  StreamOK([s EXCEPT !.ids = E, !.last_id = id])
<1> DEFINE t == [s EXCEPT !.ids = E, !.last_id = id]
<1>1. t \in Stream /\ t.ids = E /\ t.last_id = id /\ t.cg = s.cg /\ t.exists
  BY DEF StreamOK, Stream
<1>2. \A e \in E : 0 < e
  BY MaxIDAssumption DEF EntryID
<1> QED
  <2>1. StreamOK(t)
    <3> HIDE DEF t
    <3> QED BY <1>1, <1>2 DEF StreamOK, Monotone
  <2> QED BY <2>1

\* A command that only changes the group, of a stream that exists.
LEMMA GroupOK ==
  ASSUME NEW s, StreamOK(s), NEW g \in Group, GroupAgrees(g),
         s.cg.created \/ s.exists
  PROVE  StreamOK([s EXCEPT !.cg = g])
<1> DEFINE t == [s EXCEPT !.cg = g]
<1>1. t \in Stream /\ t.ids = s.ids /\ t.last_id = s.last_id /\ t.cg = g
        /\ t.exists = s.exists
  BY DEF StreamOK, Stream
<1>2. s.exists
  <2>1. s = NoStream => s.cg.created = FALSE
    BY DEF NoStream, NoGroup, streamCreateCG
  <2> QED BY <2>1 DEF StreamOK, Monotone, Stream, Group
<1> QED
  <2>1. StreamOK(t)
    <3> HIDE DEF t
    <3> QED BY <1>1, <1>2 DEF StreamOK, Monotone
  <2> QED BY <2>1

\* Trimming and XDEL remove entries.
LEMMA RemoveOK ==
  ASSUME NEW s, StreamOK(s), NEW E \in SUBSET s.ids
  PROVE  StreamOK([s EXCEPT !.ids = E])
<1> DEFINE t == [s EXCEPT !.ids = E]
<1>1. s \in Stream
  BY DEF StreamOK
<1>2. t \in Stream /\ t.ids = E /\ t.last_id = s.last_id /\ t.cg = s.cg
        /\ t.exists = s.exists
  BY <1>1 DEF Stream
<1>3. s = NoStream => t = NoStream
  <2> SUFFICES ASSUME s = NoStream PROVE t = NoStream
    OBVIOUS
  <2>1. t.ids = {} /\ t.exists = FALSE /\ t.last_id = 0 /\ t.cg = NoGroup
    BY <1>2 DEF NoStream
  <2> HIDE DEF t
  <2> QED BY <1>2, <2>1 DEF NoStream, Stream
<1> QED
  <2>1. StreamOK(t)
    <3> HIDE DEF t
    <3> QED BY <1>2, <1>3 DEF StreamOK, Monotone
  <2> QED BY <2>1

\* XADD: the new entry is above all the others.
LEMMA XaddOK ==
  ASSUME NEW s, StreamOK(s), NEW id \in EntryID, NEW n
  PROVE  StreamOK(xadd(s, id, n))
<1>1. CASE ~XaddAllowed(s, id)
  BY <1>1 DEF xadd
<1>2. CASE XaddAllowed(s, id)
  <2> DEFINE t == [s EXCEPT !.exists = TRUE]
             u == [t EXCEPT !.ids = s.ids \cup {id}, !.last_id = id]
  <2>1. s \in Stream /\ GroupAgrees(s.cg) /\ Monotone(s) /\ id \in ID
    BY DEF StreamOK, ID, EntryID
  <2>2. t \in Stream /\ t.exists /\ t.cg = s.cg /\ t.ids = s.ids /\ t.last_id = s.last_id
    BY <2>1 DEF Stream
  <2>3. StreamOK(t)
    <3> HIDE DEF t
    <3>1. \A e \in t.ids : 0 < e /\ e <= t.last_id
      BY <2>1, <2>2 DEF Monotone, NoStream
    <3> QED BY <2>1, <2>2, <3>1 DEF StreamOK, Monotone
  <2>4. \A e \in s.ids \cup {id} : e <= id
    BY <1>2, <2>1 DEF XaddAllowed, Monotone, Stream, ID, EntryID
  <2>5. StreamOK(u)
    <3> HIDE DEF t
    <3>1. s.ids \cup {id} \in SUBSET EntryID
      BY <2>1 DEF Stream
    <3> QED BY <2>1, <2>2, <2>3, <2>4, <3>1, EntriesOK
  <2>6. xadd(s, id, n) = [u EXCEPT !.ids = LastOf(u.ids, n)]
    BY <1>2, <2>1 DEF xadd, streamTrimByLength, Stream
  <2>7. LastOf(u.ids, n) \in SUBSET u.ids
    BY DEF LastOf
  <2> QED
    <3> HIDE DEF u
    <3> QED BY <2>5, <2>6, <2>7, RemoveOK
<1> QED BY <1>1, <1>2

\* XSETID: the last ID is never set below an entry.
LEMMA XsetidOK ==
  ASSUME NEW s, StreamOK(s), NEW id \in ID
  PROVE  StreamOK(xsetid(s, id))
<1>1. CASE ~XsetidAllowed(s, id)
  BY <1>1 DEF xsetid
<1>2. CASE XsetidAllowed(s, id)
  <2>1. s \in Stream
    BY DEF StreamOK
  <2> DEFINE E == s.ids
  <2>2. xsetid(s, id) = [s EXCEPT !.ids = E, !.last_id = id]
    BY <1>2, <2>1 DEF xsetid, Stream
  <2>3. \A e \in E : e <= id
    BY <1>2, <2>1 DEF XsetidAllowed, Stream, EntryID, ID
  <2>4. s.exists /\ E \in SUBSET EntryID
    BY <1>2, <2>1 DEF XsetidAllowed, Stream
  <2> HIDE DEF E
  <2>5. StreamOK([s EXCEPT !.ids = E, !.last_id = id])
    BY <2>3, <2>4, EntriesOK
  <2> QED BY <2>2, <2>5
<1> QED BY <1>1, <1>2

\* XGROUP CREATE, with or without MKSTREAM.
LEMMA XgroupCreateOK ==
  ASSUME NEW s, StreamOK(s), NEW arg \in ID \cup {Dollar}, NEW mkstream \in BOOLEAN
  PROVE  StreamOK(xgroupCreate(s, arg, mkstream))
<1>1. s \in Stream /\ Monotone(s)
  BY DEF StreamOK
<1>2. ArgID(s, arg) \in ID
  BY <1>1 DEF ArgID, Stream
<1> DEFINE g == streamCreateCG(ArgID(s, arg))
           t == [s EXCEPT !.exists = TRUE, !.cg = g]
<1>3. g \in Group /\ GroupAgrees(g)
  BY <1>2, NewGroupOK
<1>4. t \in Stream /\ t.exists /\ t.cg = g /\ t.ids = s.ids /\ t.last_id = s.last_id
  <2> HIDE DEF g
  <2> QED BY <1>1, <1>3 DEF Stream
<1>5. StreamOK(t)
  <2> HIDE DEF g, t
  <2>1. \A e \in t.ids : 0 < e /\ e <= t.last_id
    BY <1>1, <1>4 DEF Monotone, NoStream
  <2> QED BY <1>3, <1>4, <2>1 DEF StreamOK, Monotone
<1> QED
  BY <1>5 DEF xgroupCreate

\* XGROUP SETID.
LEMMA XgroupSetidOK ==
  ASSUME NEW s, StreamOK(s), NEW arg \in ID \cup {Dollar}
  PROVE  StreamOK(xgroupSetid(s, arg))
<1>1. CASE ~s.cg.created
  BY <1>1 DEF xgroupSetid
<1>2. CASE s.cg.created
  <2> DEFINE g == [s.cg EXCEPT !.last_id = ArgID(s, arg)]
  <2>1. s \in Stream /\ s.cg \in Group /\ GroupAgrees(s.cg)
    BY DEF StreamOK, Stream
  <2>2. ArgID(s, arg) \in ID
    BY <2>1 DEF ArgID, Stream
  <2>3. g \in Group /\ GroupAgrees(g)
    BY <1>2, <2>1, <2>2 DEF Group, GroupAgrees
  <2>4. xgroupSetid(s, arg) = [s EXCEPT !.cg = g]
    BY <1>2, <2>1 DEF xgroupSetid, Stream
  <2> QED
    <3> HIDE DEF g
    <3> QED BY <1>2, <2>3, <2>4, GroupOK
<1> QED BY <1>1, <1>2

\* XGROUP DESTROY frees both kinds of PEL.
LEMMA XgroupDestroyOK ==
  ASSUME NEW s, StreamOK(s)
  PROVE  StreamOK(xgroupDestroy(s))
<1> DEFINE t == [s EXCEPT !.cg = NoGroup]
<1>1. s \in Stream /\ Monotone(s)
  BY DEF StreamOK
<1>2. t \in Stream /\ t.ids = s.ids /\ t.last_id = s.last_id /\ t.cg = NoGroup
        /\ t.exists = s.exists
  BY <1>1, NoneOK DEF Stream
<1>3. s = NoStream => t = NoStream
  <2> SUFFICES ASSUME s = NoStream PROVE t = NoStream
    OBVIOUS
  <2>1. t.ids = {} /\ t.exists = FALSE /\ t.last_id = 0
    BY <1>2 DEF NoStream
  <2> HIDE DEF t
  <2> QED BY <1>2, <2>1 DEF NoStream, Stream
<1>4. StreamOK(t)
  <2> HIDE DEF t
  <2> QED BY <1>1, <1>2, <1>3, NoneOK DEF StreamOK, Monotone
<1> QED BY <1>4 DEF xgroupDestroy

\* XGROUP DELCONSUMER removes the entries of the consumer's PEL from the
\* group's PEL, so no NACK names the freed consumer.
LEMMA DelConsumerOK ==
  ASSUME NEW s, StreamOK(s), NEW c \in Consumers
  PROVE  StreamOK(streamDelConsumer(s, c))
<1>1. CASE ~(s.cg.created /\ c \in s.cg.consumers)
  BY <1>1 DEF streamDelConsumer
<1>2. CASE s.cg.created /\ c \in s.cg.consumers
  <2> DEFINE P == [i \in EntryID |-> IF i \in s.cg.pels[c] THEN None ELSE s.cg.pel[i]]
             Q == [s.cg.pels EXCEPT ![c] = {}]
             g == [s.cg EXCEPT !.pel = P, !.consumers = s.cg.consumers \ {c}, !.pels = Q]
  <2>1. s \in Stream /\ s.cg \in Group /\ GroupAgrees(s.cg)
    BY DEF StreamOK, Stream
  <2>2. P \in [EntryID -> Consumers \cup {None}] /\ Q \in [Consumers -> SUBSET EntryID]
    BY <2>1 DEF Group
  <2>3. g \in Group /\ g.created /\ g.pel = P /\ g.pels = Q
          /\ g.consumers = s.cg.consumers \ {c}
    <3> HIDE DEF P, Q
    <3> QED BY <1>2, <2>1, <2>2 DEF Group
  <2>4. \A x \in Consumers, i \in EntryID : i \in Q[x] <=> P[i] = x
    BY <2>1, ConsumersAssumption DEF GroupAgrees, Group
  <2>5. \A i \in EntryID : P[i] # None => P[i] \in s.cg.consumers \ {c}
    BY <2>1 DEF GroupAgrees, Group
  <2>6. GroupAgrees(g)
    <3> HIDE DEF P, Q, g
    <3> QED BY <2>3, <2>4, <2>5 DEF GroupAgrees
  <2>7. streamDelConsumer(s, c) = [s EXCEPT !.cg = g]
    BY <1>2, <2>1 DEF streamDelConsumer, Stream, Group
  <2> QED
    <3> HIDE DEF g
    <3> QED BY <1>2, <2>3, <2>6, <2>7, GroupOK
<1> QED BY <1>1, <1>2

\* XACK removes an entry from the group's PEL and from its owner's.
LEMMA XackOK ==
  ASSUME NEW s, StreamOK(s), NEW S \in SUBSET EntryID
  PROVE  StreamOK(xack(s, S))
<1>1. CASE ~s.cg.created
  BY <1>1 DEF xack
<1>2. CASE s.cg.created
  <2> DEFINE P == [i \in EntryID |-> IF i \in S THEN None ELSE s.cg.pel[i]]
             Q == [c \in Consumers |-> s.cg.pels[c] \ {i \in S : s.cg.pel[i] = c}]
             g == [s.cg EXCEPT !.pel = P, !.pels = Q]
  <2>1. s \in Stream /\ s.cg \in Group /\ GroupAgrees(s.cg)
    BY DEF StreamOK, Stream
  <2>2. P \in [EntryID -> Consumers \cup {None}] /\ Q \in [Consumers -> SUBSET EntryID]
    BY <2>1 DEF Group
  <2>3. g \in Group /\ g.created /\ g.pel = P /\ g.pels = Q /\ g.consumers = s.cg.consumers
    <3> HIDE DEF P, Q
    <3> QED BY <1>2, <2>1, <2>2 DEF Group
  <2>4. \A x \in Consumers, i \in EntryID : i \in Q[x] <=> P[i] = x
    BY <2>1, ConsumersAssumption DEF GroupAgrees, Group
  <2>5. \A i \in EntryID : P[i] # None => P[i] \in s.cg.consumers
    BY <2>1 DEF GroupAgrees, Group
  <2>6. GroupAgrees(g)
    <3> HIDE DEF P, Q, g
    <3> QED BY <2>3, <2>4, <2>5 DEF GroupAgrees
  <2>7. xack(s, S) = [s EXCEPT !.cg = g]
    BY <1>2, <2>1 DEF xack, Stream, Group
  <2> QED
    <3> HIDE DEF g
    <3> QED BY <1>2, <2>3, <2>6, <2>7, GroupOK
<1> QED BY <1>1, <1>2

\* Raising the last ID of a group.
LEMMA LastIdOK ==
  ASSUME NEW g \in Group, GroupAgrees(g), g.created, NEW id \in ID
  PROVE  LET h == [g EXCEPT !.last_id = id]
         IN  h \in Group /\ GroupAgrees(h) /\ h.created /\ h.last_id = id /\ h.pel = g.pel
BY DEF Group, GroupAgrees

\* XCLAIM, from a client or propagated.
LEMMA XclaimOK ==
  ASSUME NEW s, StreamOK(s), NEW c \in Consumers, NEW S \in SUBSET EntryID,
         NEW force, NEW young, NEW lastid \in ID
  PROVE  StreamOK(xclaim(s, c, S, force, young, lastid))
<1>1. CASE ~s.cg.created
  BY <1>1 DEF xclaim
<1>2. CASE s.cg.created
  <2> DEFINE id == MaxOf(s.cg.last_id, lastid)
             g == [s.cg EXCEPT !.last_id = id]
             C == Claimable(s, S, force, young)
             h == IF C = {} THEN g ELSE Reassign(g, c, C)
  <2>1. s \in Stream /\ s.cg \in Group /\ GroupAgrees(s.cg)
    BY DEF StreamOK, Stream
  <2>2. id \in ID
    BY <2>1, MaxOfType DEF Group
  <2>3. C \in SUBSET EntryID
    BY DEF Claimable
  <2>4. g \in Group /\ GroupAgrees(g) /\ g.created
    <3> HIDE DEF id
    <3> QED BY <1>2, <2>1, <2>2, LastIdOK
  <2>5. h \in Group /\ GroupAgrees(h)
    <3> HIDE DEF g, C
    <3> QED BY <2>3, <2>4, ReassignOK
  <2>6. xclaim(s, c, S, force, young, lastid) = [s EXCEPT !.cg = h]
    BY <1>2 DEF xclaim
  <2> QED
    <3> HIDE DEF h
    <3> QED BY <1>2, <2>5, <2>6, GroupOK
<1> QED BY <1>1, <1>2

-----------------------------------------------------------------------------
\* A listing of entries is a sequence of them.
LEMMA ListingsType ==
  ASSUME NEW S \in SUBSET EntryID, NEW q \in Listings(S)
  PROVE  q \in Seq(EntryID) /\ \A i \in DOMAIN q : q[i] \in S
<1>1. IsFiniteSet(EntryID)
  BY MaxIDAssumption, FS_Interval DEF EntryID
<1>2. Cardinality(S) \in Nat
  BY <1>1, FS_Subset, FS_CardinalityType
<1>3. q \in [1 .. Cardinality(S) -> S]
  BY DEF Listings
<1> QED BY <1>2, <1>3

\* Delivering entries to a consumer of the group.
LEMMA ReplyOK ==
  ASSUME NEW s, StreamOK(s), s.cg.created, NEW c \in Consumers,
         NEW q \in Seq(EntryID), NEW noack \in BOOLEAN
  PROVE  LET t == streamReplyWithRange(s, c, q, noack)
         IN  /\ StreamOK(t)
             /\ \A e \in EntryID : t.cg.pel[e] # s.cg.pel[e] =>
                  \E i \in DOMAIN q : e = q[i]
<1> DEFINE D  == {q[i] : i \in DOMAIN q}
           k  == streamLookupConsumer(s.cg, c)
           id == IF q = <<>> THEN k.last_id ELSE MaxOf(k.last_id, q[Len(q)])
           g  == [k EXCEPT !.last_id = id]
           h  == IF noack THEN g ELSE Reassign(g, c, D)
           t  == [s EXCEPT !.cg = h]
<1>1. s \in Stream /\ s.cg \in Group /\ GroupAgrees(s.cg)
  BY DEF StreamOK, Stream
<1>2. k \in Group /\ GroupAgrees(k) /\ k.created /\ k.pel = s.cg.pel
  BY <1>1, LookupOK
<1>3. id \in ID
  <2> HIDE DEF k
  <2>1. ASSUME q # <<>> PROVE q[Len(q)] \in ID
    <3>1. Len(q) \in 1 .. Len(q)
      BY <2>1
    <3>2. q[Len(q)] \in EntryID
      BY <3>1
    <3> QED BY <3>2 DEF EntryID, ID
  <2>2. k.last_id \in ID
    BY <1>2 DEF Group
  <2> QED BY <2>1, <2>2, MaxOfType
<1>4. g \in Group /\ GroupAgrees(g) /\ g.created /\ g.pel = s.cg.pel
  <2> HIDE DEF k, id
  <2> QED BY <1>2, <1>3, LastIdOK
<1>5. D \in SUBSET EntryID
  OBVIOUS
<1>6. h \in Group /\ GroupAgrees(h)
        /\ \A e \in EntryID : h.pel[e] # s.cg.pel[e] => e \in D
  <2> HIDE DEF g, D
  <2>1. CASE noack
    BY <2>1, <1>4
  <2>2. CASE ~noack
    <3>1. h = Reassign(g, c, D)
      BY <2>2
    <3> HIDE DEF h
    <3>2. h \in Group /\ GroupAgrees(h)
            /\ h.pel = [i \in EntryID |-> IF i \in D THEN c ELSE g.pel[i]]
      BY <3>1, <1>4, <1>5, ReassignOK
    <3> QED BY <3>2, <1>4
  <2> QED BY <2>1, <2>2
<1>7. streamReplyWithRange(s, c, q, noack) = t
  BY DEF streamReplyWithRange
<1>8. StreamOK(t) /\ t.cg = h
  <2> HIDE DEF h
  <2>1. t.cg = h
    BY <1>1 DEF Stream
  <2> QED BY <2>1, <1>6, GroupOK
<1> QED
  <2> HIDE DEF h, t
  <2> QED BY <1>6, <1>7, <1>8

\* Executing a propagated command.
LEMMA ExecuteOK ==
  ASSUME NEW s, StreamOK(s), NEW cmd \in Command
  PROVE  StreamOK(Execute(s, cmd))
<1>1. CASE cmd.op = "XADD"
  <2>1. cmd.id \in EntryID
    BY <1>1 DEF Command
  <2> QED BY <1>1, <2>1, XaddOK DEF Execute
<1>2. CASE cmd.op = "XDEL"
  <2>1. s.ids \ {cmd.id} \in SUBSET s.ids
    OBVIOUS
  <2>2. xdel(s, cmd.id) = [s EXCEPT !.ids = s.ids \ {cmd.id}]
    BY DEF xdel
  <2> QED BY <1>2, <2>1, <2>2, RemoveOK DEF Execute
<1>3. CASE cmd.op = "XSETID"
  <2>1. cmd.id \in ID
    BY <1>3 DEF Command
  <2> QED BY <1>3, <2>1, XsetidOK DEF Execute
<1>4. CASE cmd.op = "XTRIM"
  <2> DEFINE E == LastOf(s.ids, cmd.maxlen)
  <2>1. E \in SUBSET s.ids
    BY DEF LastOf
  <2>2. streamTrimByLength(s, cmd.maxlen) = [s EXCEPT !.ids = E]
    BY DEF streamTrimByLength
  <2> HIDE DEF E
  <2> QED BY <1>4, <2>1, <2>2, RemoveOK DEF Execute
<1>5. CASE cmd.op = "CREATE"
  <2>1. cmd.id \in ID \cup {Dollar} /\ cmd.mkstream \in BOOLEAN
    BY <1>5 DEF Command
  <2> QED BY <1>5, <2>1, XgroupCreateOK DEF Execute
<1>6. CASE cmd.op = "SETID"
  <2>1. cmd.id \in ID \cup {Dollar}
    BY <1>6 DEF Command
  <2> QED BY <1>6, <2>1, XgroupSetidOK DEF Execute
<1>7. CASE cmd.op = "DELCONSUMER"
  <2>1. cmd.consumer \in Consumers
    BY <1>7 DEF Command
  <2> QED BY <1>7, <2>1, DelConsumerOK DEF Execute
<1>8. CASE cmd.op = "XACK"
  <2>1. cmd.ids \in SUBSET EntryID
    BY <1>8 DEF Command
  <2> QED BY <1>8, <2>1, XackOK DEF Execute
<1>9. CASE cmd.op = "XCLAIM"
  <2>1. cmd.consumer \in Consumers /\ {cmd.id} \in SUBSET EntryID /\ cmd.lastid \in ID
    BY <1>9 DEF Command
  <2>2. Execute(s, cmd) = xclaim(s, cmd.consumer, {cmd.id}, TRUE, {}, cmd.lastid)
    BY <1>9 DEF Execute
  <2>3. StreamOK(xclaim(s, cmd.consumer, {cmd.id}, TRUE, {}, cmd.lastid))
    BY <2>1, XclaimOK
  <2> QED BY <2>2, <2>3
<1>10. CASE cmd.op = "DESTROY"
  BY <1>10, XgroupDestroyOK DEF Execute
<1>11. CASE cmd.op = "DEL"
  BY <1>11, NoneOK DEF Execute
<1>12. cmd.op \in {"XADD", "XDEL", "XSETID", "XTRIM", "CREATE", "SETID",
                   "DELCONSUMER", "XACK", "XCLAIM", "DESTROY", "DEL"}
  BY DEF Command
<1> QED
  BY <1>1, <1>2, <1>3, <1>4, <1>5, <1>6, <1>7, <1>8, <1>9, <1>10, <1>11, <1>12

-----------------------------------------------------------------------------
\* Appending the commands that a delivery or an XCLAIM propagates.
LEMMA PropagatedType ==
  ASSUME NEW g \in Group, NEW c \in Consumers, NEW id \in EntryID
  PROVE  streamPropagateXCLAIM(g, c, id) \in Command
           /\ streamPropagateGroupID(g) \in Command
BY DEF streamPropagateXCLAIM, streamPropagateGroupID, Command, Group

\* A delivery propagates commands the copy can execute.
LEMMA DeliveriesType ==
  ASSUME NEW g \in Group, NEW c \in Consumers, NEW q \in Seq(EntryID),
         NEW noack \in BOOLEAN
  PROVE  Deliveries(g, c, q, noack) \in Seq(Command)
<1>1. ASSUME NEW i \in DOMAIN q
      PROVE  [g EXCEPT !.last_id = MaxOf(g.last_id, q[i])] \in Group
  <2>1. MaxOf(g.last_id, q[i]) \in ID
    <3>1. q[i] \in EntryID
      OBVIOUS
    <3>2. q[i] \in ID
      BY <3>1 DEF ID, EntryID
    <3> QED BY <3>2, MaxOfType DEF Group
  <2> QED BY <2>1 DEF Group
<1> DEFINE F(i) == LET gi == [g EXCEPT !.last_id = MaxOf(g.last_id, q[i])]
                   IN  IF noack THEN streamPropagateGroupID(gi)
                       ELSE streamPropagateXCLAIM(gi, c, q[i])
<1>2. \A i \in DOMAIN q : F(i) \in Command
  <2> TAKE i \in DOMAIN q
  <2> DEFINE gi == [g EXCEPT !.last_id = MaxOf(g.last_id, q[i])]
  <2>1. gi \in Group /\ q[i] \in EntryID
    BY <1>1
  <2> HIDE DEF gi
  <2>2. streamPropagateXCLAIM(gi, c, q[i]) \in Command /\ streamPropagateGroupID(gi) \in Command
    BY <2>1, PropagatedType
  <2> QED BY <2>2 DEF gi
<1>3. Deliveries(g, c, q, noack) = [i \in 1 .. Len(q) |-> F(i)]
  BY DEF Deliveries
<1> QED
  <2> HIDE DEF F
  <2> QED BY <1>2, <1>3

-----------------------------------------------------------------------------
\* The inductive invariant: the three invariants need each other.
Inv == TypeOK /\ PelsAgree /\ IdsMonotone

\* The invariant speaks of the two streams separately.
LEMMA InvStreams == Inv <=> TypeOK /\ StreamOK(master) /\ StreamOK(copy)
BY DEF Inv, TypeOK, StreamOK, PelsAgree, IdsMonotone

\* The IDs up to an ID are entries' IDs.
LEMMA UpToType ==
  ASSUME NEW id \in ID
  PROVE  1 .. id \in SUBSET EntryID
BY MaxIDAssumption DEF ID, EntryID

\* The ID argument of a group command is an ID.
LEMMA ArgType ==
  ASSUME NEW s \in Stream, NEW arg \in ID \cup {Dollar}
  PROVE  ArgID(s, arg) \in ID
BY DEF ArgID, Stream

\* A command that is propagated as it was executed.
LEMMA DoesOK ==
  ASSUME Inv, NEW cmd \in Command, Does(cmd), ready' \in BOOLEAN,
         settled' \in SUBSET EntryID
  PROVE  Inv'
<1>1. TypeOK /\ StreamOK(master) /\ StreamOK(copy)
  BY InvStreams
<1>2. StreamOK(master')
  BY <1>1, ExecuteOK DEF Does
<1>3. StreamOK(copy')
  BY <1>1 DEF Does
<1>4. TypeOK'
  BY <1>1, <1>2, <1>3 DEF TypeOK, Does, StreamOK
<1> QED
  BY <1>2, <1>3, <1>4 DEF Inv, StreamOK, PelsAgree, IdsMonotone

\* A step that changes neither the master's clients nor the copy.
LEMMA MasterOK ==
  ASSUME Inv, StreamOK(master'), link' \in Seq(Command), settled' \in SUBSET EntryID,
         UNCHANGED <<copy, blocked, ready, serving>>
  PROVE  Inv'
<1>1. StreamOK(copy')
  BY InvStreams
<1>2. TypeOK'
  BY DEF Inv, TypeOK, StreamOK
<1> QED
  BY <1>1, <1>2 DEF Inv, StreamOK, PelsAgree, IdsMonotone

\* Removing a client from the blocked ones.
LEMMA UnblockOK ==
  ASSUME blocked \in Seq(Client), NEW i \in 1 .. Len(blocked), unblockClient(i)
  PROVE  blocked' \in Seq(Client) /\ Len(blocked') = Len(blocked) - 1
<1> DEFINE u == SubSeq(blocked, 1, i - 1)
           v == SubSeq(blocked, i + 1, Len(blocked))
<1>1. u \in Seq(Client) /\ Len(u) = i - 1
  OBVIOUS
<1>2. v \in Seq(Client) /\ Len(v) = Len(blocked) - i
  OBVIOUS
<1>3. blocked' = u \o v
  BY DEF unblockClient
<1> HIDE DEF u, v
<1>4. u \o v \in Seq(Client) /\ Len(u \o v) = Len(u) + Len(v)
  BY <1>1, <1>2
<1> QED
  BY <1>1, <1>2, <1>3, <1>4

\* Delivering entries of the master's stream.
LEMMA DeliverOK ==
  ASSUME Inv, master.cg.created, NEW c \in Consumers, NEW noack \in BOOLEAN,
         NEW S \in SUBSET EntryID, NEW q \in Listings(S), Deliver(c, q, noack)
  PROVE  /\ StreamOK(master') /\ link' \in Seq(Command) /\ settled' \in SUBSET EntryID
         /\ \A e \in EntryID : master'.cg.pel[e] # master.cg.pel[e] => e \in S
<1>1. q \in Seq(EntryID) /\ \A i \in DOMAIN q : q[i] \in S
  BY ListingsType
<1>2. TypeOK /\ StreamOK(master)
  BY InvStreams
<1>3. StreamOK(master') /\ \A e \in EntryID : master'.cg.pel[e] # master.cg.pel[e] =>
                             \E i \in DOMAIN q : e = q[i]
  BY <1>1, <1>2, ReplyOK DEF Deliver
<1>4. Deliveries(master.cg, c, q, noack) \in Seq(Command)
  BY <1>1, <1>2, DeliveriesType DEF StreamOK, Stream
<1>5. link' \in Seq(Command)
  BY <1>2, <1>4 DEF Deliver, TypeOK
<1>6. settled' \in SUBSET EntryID
  BY <1>1, <1>2 DEF Deliver, TypeOK
<1> QED BY <1>1, <1>3, <1>5, <1>6

\* The entries a read takes.
LEMMA EntriesFromType ==
  ASSUME NEW s \in Stream, NEW start, NEW n
  PROVE  EntriesFrom(s, start, n) \in SUBSET EntryID
           /\ \A e \in EntriesFrom(s, start, n) : e \in s.ids /\ e >= start
BY DEF EntriesFrom, FirstOf, Stream

-----------------------------------------------------------------------------
\* Commands on the entries.
LEMMA WritesOK == Inv /\ Writes => Inv'
<1> SUFFICES ASSUME Inv, Writes PROVE Inv'
  OBVIOUS
<1> USE DEF Inv, TypeOK
<1>1. ASSUME NEW id \in EntryID, NEW maxlen \in ID, xaddCommand(id, maxlen) PROVE Inv'
  <2>1. [op |-> "XADD", id |-> id, maxlen |-> maxlen] \in Command
    BY DEF Command
  <2> QED BY <1>1, <2>1, DoesOK DEF xaddCommand
<1>2. ASSUME NEW id \in EntryID, xdelCommand(id) PROVE Inv'
  <2>1. [op |-> "XDEL", id |-> id] \in Command
    BY DEF Command
  <2> QED BY <1>2, <2>1, DoesOK DEF xdelCommand
<1>3. ASSUME NEW maxlen \in ID, xtrimCommand(maxlen) PROVE Inv'
  <2>1. [op |-> "XTRIM", maxlen |-> maxlen] \in Command
    BY DEF Command
  <2> QED BY <1>3, <2>1, DoesOK DEF xtrimCommand
<1>4. ASSUME NEW id \in ID, xsetidCommand(id) PROVE Inv'
  <2>1. [op |-> "XSETID", id |-> id] \in Command
    BY DEF Command
  <2>2. master.cg.last_id \in ID
    BY DEF Stream, Group
  <2>3. settled' \in SUBSET EntryID
    BY <1>4, <2>2, UpToType DEF xsetidCommand
  <2> QED BY <1>4, <2>1, <2>3, DoesOK DEF xsetidCommand
<1>5. ASSUME delCommand PROVE Inv'
  <2>1. [op |-> "DEL"] \in Command
    BY DEF Command
  <2> QED BY <1>5, <2>1, DoesOK DEF delCommand
<1> QED
  BY <1>1, <1>2, <1>3, <1>4, <1>5 DEF Writes

\* XCLAIM from a client of the master.
LEMMA XclaimCommandOK ==
  ASSUME Inv, NEW c \in Consumers, NEW S \in SUBSET EntryID, NEW force, NEW young,
         NEW lastid \in ID, xclaimCommand(c, S, force, young, lastid)
  PROVE  Inv'
<1> DEFINE C    == Claimable(master, S, force, young)
           next == xclaim(master, c, S, force, young, lastid)
<1>1. TypeOK /\ StreamOK(master)
  BY InvStreams
<1>2. StreamOK(next)
  BY <1>1, XclaimOK
<1>3. next.cg \in Group
  BY <1>2 DEF StreamOK, Stream
<1>4. C \in SUBSET EntryID
  BY DEF Claimable
<1>5. master' = next
  BY DEF xclaimCommand
<1>6. settled' \in SUBSET EntryID
  BY <1>1, UpToType DEF xclaimCommand, TypeOK
<1>7. PICK q \in Listings(C) :
        link' = link \o IF C = {} THEN <<streamPropagateGroupID(next.cg)>>
                        ELSE [i \in DOMAIN q |-> streamPropagateXCLAIM(next.cg, c, q[i])]
  BY DEF xclaimCommand
<1>8. UNCHANGED <<copy, blocked, ready, serving>>
  BY DEF xclaimCommand
<1>9. link' \in Seq(Command)
  <2> HIDE DEF C, next
  <2>1. q \in Seq(EntryID)
    BY <1>4, <1>7, ListingsType
  <2> DEFINE F(i) == streamPropagateXCLAIM(next.cg, c, q[i])
  <2>2. \A i \in DOMAIN q : F(i) \in Command
    <3> TAKE i \in DOMAIN q
    <3>1. q[i] \in EntryID
      BY <2>1
    <3> QED BY <1>3, <3>1, PropagatedType
  <2>3. [i \in 1 .. Len(q) |-> F(i)] \in Seq(Command)
    <3> HIDE DEF F
    <3> QED BY <2>1, <2>2
  <2>4. streamPropagateGroupID(next.cg) \in Command
    BY <1>3 DEF streamPropagateGroupID, Command, Group
  <2>5. link \in Seq(Command)
    BY <1>1 DEF TypeOK
  <2>6. DOMAIN q = 1 .. Len(q)
    BY <2>1
  <2>7. CASE C = {}
    BY <1>7, <2>4, <2>5, <2>7
  <2>8. CASE C # {}
    <3> DEFINE w == [i \in 1 .. Len(q) |-> F(i)]
    <3>1. link' = link \o w
      BY <1>7, <2>6, <2>8
    <3> HIDE DEF w
    <3> QED BY <2>3, <2>5, <3>1 DEF w
  <2> QED BY <2>7, <2>8
<1> QED
  <2> HIDE DEF next, C
  <2> QED BY <1>2, <1>5, <1>6, <1>8, <1>9, MasterOK

\* Commands on the group.
LEMMA GroupCommandsOK == Inv /\ GroupCommands => Inv'
<1> SUFFICES ASSUME Inv, GroupCommands PROVE Inv'
  OBVIOUS
<1>0. TypeOK /\ master \in Stream
  BY DEF Inv, TypeOK
<1>1. ASSUME NEW arg \in ID \cup {Dollar}, NEW mk \in BOOLEAN, xgroupCreateCommand(arg, mk)
      PROVE  Inv'
  <2>1. [op |-> "CREATE", id |-> arg, mkstream |-> mk] \in Command
    BY DEF Command
  <2>2. settled' \in SUBSET EntryID /\ ready' \in BOOLEAN
    BY <1>0, <1>1, ArgType, UpToType DEF xgroupCreateCommand, TypeOK
  <2> QED BY <1>1, <2>1, <2>2, DoesOK DEF xgroupCreateCommand
<1>2. ASSUME NEW arg \in ID \cup {Dollar}, xgroupSetidCommand(arg) PROVE Inv'
  <2>1. [op |-> "SETID", id |-> arg] \in Command
    BY DEF Command
  <2>2. settled' \in SUBSET EntryID /\ ready' \in BOOLEAN
    BY <1>0, <1>2, ArgType, UpToType DEF xgroupSetidCommand, TypeOK
  <2> QED BY <1>2, <2>1, <2>2, DoesOK DEF xgroupSetidCommand
<1>3. ASSUME xgroupDestroyCommand PROVE Inv'
  <2>1. [op |-> "DESTROY"] \in Command
    BY DEF Command
  <2> QED BY <1>0, <1>3, <2>1, DoesOK DEF xgroupDestroyCommand, TypeOK
<1>4. ASSUME NEW c \in Consumers, xgroupDelconsumerCommand(c) PROVE Inv'
  <2>1. [op |-> "DELCONSUMER", consumer |-> c] \in Command
    BY DEF Command
  <2>2. settled' \in SUBSET EntryID /\ ready' \in BOOLEAN
    BY <1>0, <1>4 DEF xgroupDelconsumerCommand, TypeOK, Stream, Group
  <2> QED BY <1>4, <2>1, <2>2, DoesOK DEF xgroupDelconsumerCommand
<1>5. ASSUME NEW S \in SUBSET EntryID, xackCommand(S) PROVE Inv'
  <2>1. [op |-> "XACK", ids |-> S] \in Command
    BY DEF Command
  <2>2. settled' \in SUBSET EntryID /\ ready' \in BOOLEAN
    BY <1>0, <1>5 DEF xackCommand, TypeOK
  <2> QED BY <1>5, <2>1, <2>2, DoesOK DEF xackCommand
<1> QED
  BY <1>1, <1>2, <1>3, <1>4, <1>5, XclaimCommandOK DEF GroupCommands

\* A read with ">" at once takes only entries above the group's last ID.
LEMMA ReadOK ==
  ASSUME Inv, NEW c \in Consumers, NEW o \in Options,
         xreadgroupCommand(c, o.count, o.noack)
  PROVE  /\ Inv'
         /\ \A e \in EntryID : master'.cg.pel[e] # master.cg.pel[e] => e > master.cg.last_id
<1> DEFINE last == master.cg.last_id
           S == EntriesFrom(master, streamIncrID(last), o.count)
<1>1. TypeOK /\ master \in Stream /\ o.noack \in BOOLEAN /\ master.cg.created
  BY OptionsAssumption DEF Inv, TypeOK, xreadgroupCommand
<1>2. last \in ID /\ \E e \in master.ids : e > last /\ e \in EntryID
  BY <1>1 DEF Stream, Group, xreadgroupCommand
<1>3. streamIncrID(last) = last + 1
  <2> HIDE DEF last
  <2>1. last + 1 \in 0 .. MaxID
    BY <1>2, MaxIDAssumption DEF ID, EntryID
  <2> QED BY <2>1, MaxIDAssumption DEF streamIncrID
<1>4. S \in SUBSET EntryID /\ \A e \in S : e >= last + 1
  BY <1>1, <1>3, EntriesFromType
<1>5. PICK q \in Ascending(S) : Deliver(c, q, o.noack)
  BY DEF xreadgroupCommand
<1>6. q \in Listings(S)
  BY <1>5 DEF Ascending
<1>7. /\ StreamOK(master') /\ link' \in Seq(Command) /\ settled' \in SUBSET EntryID
      /\ \A e \in EntryID : master'.cg.pel[e] # master.cg.pel[e] => e \in S
  <2> HIDE DEF S
  <2> QED BY <1>1, <1>4, <1>5, <1>6, DeliverOK
<1>8. Inv'
  BY <1>7, MasterOK DEF xreadgroupCommand
<1>9. \A e \in S : e > last
  <2>1. last \in ID
    BY <1>2
  <2> HIDE DEF S, last
  <2> QED BY <2>1, <1>4 DEF EntryID, ID
<1> QED BY <1>7, <1>8, <1>9

\* So does a read served when the key is ready.
LEMMA ServeOK ==
  ASSUME Inv, ServeBlocked
  PROVE  /\ Inv'
         /\ \A e \in EntryID : master'.cg.pel[e] # master.cg.pel[e] => e > master.cg.last_id
<1> DEFINE cl == Head(serving)
           gt == master.cg.last_id
           S  == EntriesFrom(master, streamIncrID(gt), cl.count)
<1>1. TypeOK /\ master \in Stream /\ StreamOK(master) /\ StreamOK(copy)
  BY InvStreams DEF Inv, TypeOK
<1>2. serving # <<>> /\ serving' = Tail(serving) /\ UNCHANGED <<copy, ready>>
  BY DEF ServeBlocked
<1>3. cl \in Client /\ serving' \in Seq(Client) /\ Len(serving') = Len(serving) - 1
  BY <1>1, <1>2 DEF TypeOK
<1>4. ServePosition \in 1 .. Len(blocked)
  BY <1>1, <1>2 DEF TypeOK, ServePosition
<1>5. ASSUME StreamOK(master'), link' \in Seq(Command), settled' \in SUBSET EntryID,
             blocked' \in Seq(Client), Len(blocked') >= Len(blocked) - 1
      PROVE  Inv'
  <2>1. StreamOK(copy')
    BY <1>1, <1>2
  <2>2. Len(serving') <= Len(blocked')
    BY <1>1, <1>3, <1>5 DEF TypeOK
  <2>3. TypeOK'
    BY <1>1, <1>2, <1>3, <1>5, <2>1, <2>2 DEF TypeOK, StreamOK
  <2> QED BY <1>5, <2>1, <2>3 DEF Inv, StreamOK, PelsAgree, IdsMonotone
<1>6. ASSUME unblockClient(ServePosition)
      PROVE  blocked' \in Seq(Client) /\ Len(blocked') >= Len(blocked) - 1
  <2>1. blocked' \in Seq(Client) /\ Len(blocked') = Len(blocked) - 1
    BY <1>1, <1>4, <1>6, UnblockOK DEF TypeOK
  <2> QED BY <1>1, <2>1 DEF TypeOK
<1>7. CASE ~master.cg.created
  <2>1. unblockClient(ServePosition) /\ UNCHANGED <<master, link, settled>>
    BY <1>7 DEF ServeBlocked
  <2> QED BY <1>1, <1>5, <1>6, <2>1 DEF TypeOK
<1>8. CASE master.cg.created /\ master.last_id > gt
  <2>1. unblockClient(ServePosition)
    BY <1>1, <1>8 DEF ServeBlocked, Stream, Group, ID
  <2>2. PICK q \in Ascending(S) : Deliver(cl.consumer, q, cl.noack)
    BY <1>1, <1>8 DEF ServeBlocked, Stream, Group, ID
  <2>3. gt \in ID /\ master.last_id \in ID
    BY <1>1 DEF Stream, Group
  <2>4. streamIncrID(gt) = gt + 1
    <3>0. master.last_id > gt
      BY <1>8
    <3> HIDE DEF gt
    <3>1. gt + 1 \in 0 .. MaxID
      BY <3>0, <2>3, MaxIDAssumption DEF ID
    <3> QED BY <3>1, MaxIDAssumption DEF streamIncrID
  <2>5. S \in SUBSET EntryID /\ \A e \in S : e >= gt + 1
    BY <1>1, <2>4, EntriesFromType
  <2>6. q \in Listings(S) /\ cl.consumer \in Consumers /\ cl.noack \in BOOLEAN
    BY <1>3, <2>2 DEF Ascending, Client
  <2>7. /\ StreamOK(master') /\ link' \in Seq(Command) /\ settled' \in SUBSET EntryID
        /\ \A e \in EntryID : master'.cg.pel[e] # master.cg.pel[e] => e \in S
    <3> HIDE DEF S, cl
    <3> QED BY <1>8, <2>2, <2>5, <2>6, DeliverOK
  <2>8. \A e \in S : e > gt
    <3> HIDE DEF S, gt
    <3> QED BY <2>3, <2>5 DEF EntryID, ID
  <2> QED BY <1>5, <1>6, <2>1, <2>7, <2>8
<1>9. CASE master.cg.created /\ ~(master.last_id > gt)
  <2>1. UNCHANGED <<master, link, blocked, settled>>
    BY <1>9 DEF ServeBlocked
  <2> QED BY <1>1, <1>5, <2>1 DEF TypeOK
<1> QED BY <1>7, <1>8, <1>9

\* Reads, and clients that block and are unblocked.
LEMMA ReadersOK == Inv /\ Readers => Inv'
<1> SUFFICES ASSUME Inv, Readers PROVE Inv'
  OBVIOUS
<1>0. TypeOK /\ StreamOK(master)
  BY InvStreams
<1>1. ASSUME NEW c \in Consumers, NEW o \in BlockOptions, blockForKeys(c, o.count, o.noack)
      PROVE  Inv'
  <2>1. [consumer |-> c, count |-> o.count, noack |-> o.noack] \in Client
    BY OptionsAssumption DEF Client
  <2> QED
    BY <1>1, <2>1 DEF blockForKeys, Free, Inv, TypeOK, PelsAgree, IdsMonotone
<1>2. ASSUME NEW c \in Consumers, xreadgroupHistory(c) PROVE Inv'
  <2>1. streamLookupConsumer(master.cg, c) \in Group
          /\ GroupAgrees(streamLookupConsumer(master.cg, c))
    BY <1>0, <1>2, LookupOK DEF xreadgroupHistory, StreamOK, Stream
  <2>2. StreamOK(master')
    BY <1>0, <1>2, <2>1, GroupOK DEF xreadgroupHistory
  <2> QED BY <1>0, <1>2, <2>2, MasterOK DEF xreadgroupHistory, TypeOK
<1>3. ASSUME NEW i \in 1 .. Len(blocked), TimesOut(i) PROVE Inv'
  <2>1. blocked' \in Seq(Client)
    BY <1>0, <1>3, UnblockOK DEF TimesOut, TypeOK
  <2>2. serving' = <<>> /\ Len(blocked') \in Nat
    BY <1>3, <2>1 DEF TimesOut
  <2>3. TypeOK'
    BY <1>0, <1>3, <2>1, <2>2 DEF TimesOut, TypeOK
  <2> QED BY <1>3, <2>3 DEF TimesOut, Inv, PelsAgree, IdsMonotone
<1>4. ASSUME handleClientsBlockedOnKeys PROVE Inv'
  <2>1. serving' \in Seq(Client) /\ Len(serving') <= Len(blocked)
    <3>1. serving' = blocked \/ serving' = <<>>
      BY <1>4 DEF handleClientsBlockedOnKeys
    <3>2. blocked \in Seq(Client) /\ Len(blocked) \in Nat
      BY <1>0 DEF TypeOK
    <3>3. CASE serving' = blocked
      BY <3>2, <3>3
    <3>4. CASE serving' = <<>>
      BY <3>2, <3>4
    <3> QED BY <3>1, <3>3, <3>4
  <2>2. ready' \in BOOLEAN /\ UNCHANGED <<master, copy, link, blocked, settled>>
    BY <1>4 DEF handleClientsBlockedOnKeys
  <2>3. TypeOK'
    BY <1>0, <2>1, <2>2 DEF TypeOK
  <2> QED BY <2>2, <2>3 DEF Inv, PelsAgree, IdsMonotone
<1> QED
  BY <1>1, <1>2, <1>3, <1>4, ReadOK, ServeOK DEF Readers

-----------------------------------------------------------------------------
\* An RDB file of a group whose PELs agree can be loaded, and gives the NACKs
\* back to their owners.
THEOREM RdbKeepsGroup ==
  ASSUME NEW g \in Group, GroupAgrees(g)
  PROVE  LoadableGroup(g) /\ rdbLoadGroup(g) = g
<1>1. LoadableGroup(g)
  BY ConsumersAssumption DEF LoadableGroup, GroupAgrees, Group
<1> DEFINE P == [i \in EntryID |->
                   IF g.pel[i] # None /\ \E c \in Consumers : i \in g.pels[c]
                   THEN CHOOSE c \in Consumers : i \in g.pels[c] ELSE None]
<1>2. ASSUME NEW i \in EntryID PROVE P[i] = g.pel[i]
  <2>1. CASE g.pel[i] = None
    BY <2>1
  <2>2. CASE g.pel[i] # None
    <3>1. g.pel[i] \in Consumers /\ i \in g.pels[g.pel[i]]
      BY <2>2 DEF GroupAgrees, Group
    <3>2. \A c \in Consumers : i \in g.pels[c] => c = g.pel[i]
      BY DEF GroupAgrees
    <3> QED BY <2>2, <3>1, <3>2
  <2> QED BY <2>1, <2>2
<1>3. P = g.pel
  BY <1>2 DEF Group
<1>4. rdbLoadGroup(g) = [g EXCEPT !.pel = P]
  BY DEF rdbLoadGroup
<1>5. [g EXCEPT !.pel = g.pel] = g
  BY DEF Group
<1> QED BY <1>1, <1>3, <1>4, <1>5

\* Every step preserves the invariant.
LEMMA StepOK == Inv /\ [Next]_vars => Inv'
<1> SUFFICES ASSUME Inv, [Next]_vars PROVE Inv'
  OBVIOUS
<1>0. TypeOK /\ StreamOK(master) /\ StreamOK(copy)
  BY InvStreams
<1>1. CASE CopyExecutes
  <2>1. Head(link) \in Command /\ link' \in Seq(Command)
    BY <1>0, <1>1 DEF CopyExecutes, TypeOK
  <2>2. StreamOK(copy')
    BY <1>0, <1>1, <2>1, ExecuteOK DEF CopyExecutes
  <2>3. TypeOK'
    BY <1>0, <1>1, <2>1, <2>2 DEF CopyExecutes, TypeOK, StreamOK
  <2> QED BY <1>0, <1>1, <2>2, <2>3 DEF CopyExecutes, Inv, StreamOK, PelsAgree, IdsMonotone
<1>2. CASE FullResync
  <2>1. rdbLoadGroup(master.cg) = master.cg
    BY <1>0, RdbKeepsGroup DEF StreamOK, Stream
  <2>2. copy' = master
    BY <1>0, <1>2, <2>1 DEF FullResync, StreamOK, Stream
  <2>3. link' \in Seq(Command) /\ UNCHANGED <<master, blocked, ready, serving, settled>>
    BY <1>2 DEF FullResync
  <2>4. TypeOK'
    BY <1>0, <2>2, <2>3 DEF TypeOK
  <2> QED BY <1>0, <2>2, <2>3, <2>4 DEF Inv, PelsAgree, IdsMonotone, StreamOK
<1>3. CASE Failover
  BY <1>0, <1>3 DEF Failover, Inv, TypeOK, PelsAgree, IdsMonotone, StreamOK
<1>4. CASE UNCHANGED vars
  BY <1>4 DEF vars, Inv, TypeOK, PelsAgree, IdsMonotone
<1> QED
  BY <1>1, <1>2, <1>3, <1>4, WritesOK, GroupCommandsOK, ReadersOK DEF Next

\* The initial state satisfies it.
LEMMA InitOK == Init => Inv
<1>1. Init => TypeOK
  <2> SUFFICES ASSUME Init PROVE TypeOK
    OBVIOUS
  <2>1. link \in Seq(Command) /\ blocked \in Seq(Client) /\ serving \in Seq(Client)
          /\ Len(serving) <= Len(blocked)
    BY DEF Init
  <2>2. master \in Stream /\ copy \in Stream
    BY NoneOK DEF Init, StreamOK
  <2>3. ready \in BOOLEAN /\ settled \in SUBSET EntryID
    BY DEF Init
  <2> QED BY <2>1, <2>2, <2>3 DEF TypeOK
<1> QED
  BY <1>1, NoneOK DEF Init, Inv, PelsAgree, IdsMonotone, StreamOK

\* The invariant holds in every reachable state.
LEMMA Invariance == Spec => []Inv
BY InitOK, StepOK, PTL DEF Spec

\* The PEL of the group and those of the consumers agree, on the master and on
\* the copy, for every set of consumers and every last possible ID.
THEOREM PelsAlwaysAgree == Spec => []PelsAgree
<1>1. Inv => PelsAgree
  BY DEF Inv
<1> QED BY <1>1, Invariance, PTL

\* No entry is ever above its stream's last ID.
THEOREM IdsAlwaysMonotone == Spec => []IdsMonotone
<1>1. Inv => IdsMonotone
  BY DEF Inv
<1> QED BY <1>1, Invariance, PTL

\* A read with ">" gives only entries above the group's last ID.
THEOREM AlwaysDeliversOnlyNew == Spec => DeliversOnlyNew
<1>1. Inv => [\/ \A e \in EntryID :
                  master'.cg.pel[e] # master.cg.pel[e] => e > master.cg.last_id
             \/ ~ (\/ ServeBlocked
                   \/ \E c \in Consumers, o \in Options :
                        xreadgroupCommand(c, o.count, o.noack))]_vars
  BY ReadOK, ServeOK
<1> QED BY <1>1, Invariance, PTL DEF DeliversOnlyNew

=============================================================================
