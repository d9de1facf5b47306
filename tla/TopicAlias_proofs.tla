------------------------- MODULE TopicAlias_proofs --------------------------
(***************************************************************************)
(* Topic aliases, for every value of the constants: the broker takes each  *)
(* message for its topic, and a topic left out of a packet can be put back *)
(* as long as the packet is stored.                                        *)
(***************************************************************************)
EXTENDS TopicAlias, Maps_proofs, WellFoundedInduction

-----------------------------------------------------------------------------
(* The broker's table while it reads. *)

LEMMA LastDefiner ==
  ASSUME NEW S, NEW q \in Seq(S), NEW k, Definers(q, k) # {}
  PROVE  \E i \in Definers(q, k) : \A j \in Definers(q, k) : j <= i
  <1> DEFINE T == {Len(q) - j : j \in Definers(q, k)}
  <1>1. Len(q) \in Nat /\ DOMAIN q = 1 .. Len(q) /\ Definers(q, k) \subseteq 1 .. Len(q)
    BY DEF Definers
  <1>2. T \subseteq Nat /\ T # {}
    BY <1>1
  <1>3. \E x \in T : \A y \in T : ~(<<y, x>> \in OpToRel(<, Nat))
    <2> HIDE DEF T
    <2>1. QED BY <1>2, NatLessThanWellFounded, WFMin
  <1>4. PICK x \in T : \A y \in T : ~(<<y, x>> \in OpToRel(<, Nat))
    BY <1>3
  <1>5. \A y \in T : ~(y < x)
    <2> HIDE DEF T
    <2>1. QED BY <1>2, <1>4 DEF OpToRel
  <1>6. PICK i \in Definers(q, k) : x = Len(q) - i
    OBVIOUS
  <1>7. ASSUME NEW j \in Definers(q, k) PROVE j <= i
    <2>1. ~(Len(q) - j < Len(q) - i)
      BY <1>5, <1>6
    <2>2. QED BY <1>1, <2>1
  <1>8. QED BY <1>7

LEMMA MeaningLast ==
  ASSUME NEW S, NEW q \in Seq(S), NEW k, NEW table, NEW i \in Definers(q, k),
         \A j \in Definers(q, k) : j <= i
  PROVE  Meaning(table, q, k) = q[i].name
  <1> DEFINE c == CHOOSE c \in Definers(q, k) : \A j \in Definers(q, k) : j <= c
  <1>1. Definers(q, k) \subseteq Int
    BY DEF Definers
  <1>2. c \in Definers(q, k) /\ \A j \in Definers(q, k) : j <= c
    OBVIOUS
  <1>3. Meaning(table, q, k) = q[c].name
    BY DEF Meaning
  <1> HIDE DEF c
  <1>4. c = i
    BY <1>1, <1>2
  <1>5. QED BY <1>3, <1>4

LEMMA MeaningNone ==
  ASSUME NEW q, NEW k, NEW table, Definers(q, k) = {}
  PROVE  Meaning(table, q, k) = IF k \in DOMAIN table THEN table[k] ELSE NoTopic
  BY DEF Meaning

LEMMA MeaningAppend ==
  ASSUME NEW S, NEW q \in Seq(S), NEW p \in S, NEW k, NEW table
  PROVE  Meaning(table, Append(q, p), k) =
           IF p.alias = k /\ p.name # NoTopic THEN p.name ELSE Meaning(table, q, k)
  <1> DEFINE r == Append(q, p)
             n == Len(q) + 1
  <1>1. /\ Len(q) \in Nat /\ DOMAIN q = 1 .. Len(q)
        /\ r \in Seq(S) /\ DOMAIN r = DOMAIN q \cup {n} /\ r[n] = p
        /\ n \notin DOMAIN q /\ n \in Nat
        /\ \A i \in DOMAIN q : r[i] = q[i] /\ i <= n
    OBVIOUS
  <1> HIDE DEF r, n
  <1>2. CASE p.alias = k /\ p.name # NoTopic
    <2>1. n \in Definers(r, k) /\ \A j \in Definers(r, k) : j <= n
      BY <1>1, <1>2 DEF Definers
    <2>2. r \in Seq(S)
      BY <1>1
    <2>3. Meaning(table, r, k) = r[n].name
      BY <2>1, <2>2, MeaningLast
    <2>4. QED BY <1>1, <1>2, <2>3 DEF r
  <1>3. CASE ~(p.alias = k /\ p.name # NoTopic)
    <2>1. Definers(r, k) = Definers(q, k)
      BY <1>1, <1>3 DEF Definers
    <2>2. CASE Definers(q, k) = {}
      <3>1. Meaning(table, r, k) = Meaning(table, q, k)
        BY <2>1, <2>2, MeaningNone
      <3>2. QED BY <1>3, <3>1 DEF r
    <2>3. CASE Definers(q, k) # {}
      <3>1. PICK i \in Definers(q, k) : \A j \in Definers(q, k) : j <= i
        BY <2>3, LastDefiner
      <3>2. Meaning(table, q, k) = q[i].name
        BY <3>1, MeaningLast
      <3>3. Meaning(table, r, k) = r[i].name
        BY <1>1, <2>1, <3>1, MeaningLast
      <3>4. r[i] = q[i]
        BY <1>1, <3>1 DEF Definers
      <3>5. QED BY <1>3, <3>2, <3>3, <3>4 DEF r
    <2>4. QED BY <2>2, <2>3
  <1>4. QED BY <1>2, <1>3

LEMMA MeaningEmpty ==
  ASSUME NEW k, NEW table
  PROVE  Meaning(table, <<>>, k) = IF k \in DOMAIN table THEN table[k] ELSE NoTopic
  <1>1. Definers(<<>>, k) = {}
    BY DEF Definers
  <1>2. QED BY <1>1, MeaningNone

(* The first packet is read: what table it leaves is a matter of the aliases. *)
LEMMA MeaningTail ==
  ASSUME NEW S, NEW q \in Seq(S), q # <<>>, NEW table, NEW t, NEW k,
         Meaning(t, <<>>, k) = Meaning(table, <<Head(q)>>, k)
  PROVE  Meaning(t, Tail(q), k) = Meaning(table, q, k)
  <1>1. PICK r : r = Tail(q)
    OBVIOUS
  <1>2. PICK h : h = Head(q)
    OBVIOUS
  <1>3. /\ Len(q) \in Nat \ {0} /\ DOMAIN q = 1 .. Len(q)
        /\ r \in Seq(S) /\ h \in S /\ h = q[1] /\ <<h>> \in Seq(S)
        /\ DOMAIN r \subseteq Nat
        /\ \A i \in DOMAIN r : i + 1 \in DOMAIN q /\ r[i] = q[i + 1]
        /\ \A i \in DOMAIN q : i = 1 \/ (i - 1 \in DOMAIN r /\ r[i - 1] = q[i])
    BY <1>1, <1>2
  <1>4. Meaning(t, <<>>, k) = Meaning(table, <<h>>, k)
    BY <1>2
  <1>5. SUFFICES Meaning(t, r, k) = Meaning(table, q, k)
    BY <1>1
  <1>6. CASE Definers(r, k) # {}
    <2>1. PICK i \in Definers(r, k) : \A j \in Definers(r, k) : j <= i
      BY <1>3, <1>6, LastDefiner
    <2>2. Meaning(t, r, k) = r[i].name
      BY <1>3, <2>1, MeaningLast
    <2>3. i \in DOMAIN r /\ i \in Nat /\ i + 1 \in Definers(q, k) /\ r[i] = q[i + 1]
      BY <1>3, <2>1 DEF Definers
    <2>4. ASSUME NEW j \in Definers(q, k) PROVE j <= i + 1
      <3>1. j \in DOMAIN q /\ j \in Nat
        BY <1>3 DEF Definers
      <3>2. CASE j = 1
        BY <2>3, <3>2
      <3>3. CASE j # 1
        <4>1. j - 1 \in Definers(r, k)
          BY <1>3, <3>1, <3>3 DEF Definers
        <4>2. j - 1 <= i
          BY <2>1, <4>1
        <4>3. QED BY <2>3, <3>1, <4>2
      <3>4. QED BY <3>2, <3>3
    <2>5. Meaning(table, q, k) = q[i + 1].name
      BY <2>3, <2>4, MeaningLast
    <2>6. QED BY <2>2, <2>3, <2>5
  <1>7. CASE Definers(r, k) = {}
    <2>1. Meaning(t, r, k) = Meaning(table, <<h>>, k)
      BY <1>4, <1>7, MeaningNone, MeaningEmpty
    <2>2. \A j \in DOMAIN q : j # 1 => j \notin Definers(q, k)
      BY <1>3, <1>7 DEF Definers
    <2>3. CASE 1 \in Definers(q, k)
      <3>1. Meaning(table, q, k) = q[1].name
        <4>1. \A j \in Definers(q, k) : j <= 1
          BY <2>2 DEF Definers
        <4>2. QED BY <2>3, <4>1, MeaningLast
      <3>2. h.alias = k /\ h.name # NoTopic
        BY <1>3, <2>3 DEF Definers
      <3>3. 1 \in Definers(<<h>>, k) /\ \A j \in Definers(<<h>>, k) : j <= 1
        BY <3>2 DEF Definers
      <3>4. Meaning(table, <<h>>, k) = h.name
        <4>1. PICK one : one = <<h>>
          OBVIOUS
        <4>2. one \in Seq(S) /\ one[1] = h
          BY <1>3, <4>1
        <4>3. Meaning(table, one, k) = one[1].name
          BY <3>3, <4>1, <4>2, MeaningLast
        <4>4. QED BY <4>1, <4>2, <4>3
      <3>5. QED BY <1>3, <2>1, <3>1, <3>4
    <2>4. CASE 1 \notin Definers(q, k)
      <3>1. Definers(q, k) = {}
        BY <2>2, <2>4 DEF Definers
      <3>2. ~(h.alias = k /\ h.name # NoTopic)
        BY <1>3, <2>4 DEF Definers
      <3>3. Definers(<<h>>, k) = {}
        BY <3>2 DEF Definers
      <3>4. QED BY <2>1, <3>1, <3>3, MeaningNone
    <2>5. QED BY <2>3, <2>4
  <1>8. QED BY <1>6, <1>7

(* A table the client or the broker keeps. *)
Table(map) == DOMAIN map \subseteq Nat /\ \A k \in DOMAIN map : map[k] \in Topic

LEMMA MeaningType ==
  ASSUME NEW q \in Seq(Packet), NEW k, NEW table, Table(table)
  PROVE  Meaning(table, q, k) \in Topic \cup {NoTopic}
  <1>1. CASE Definers(q, k) = {}
    BY <1>1, MeaningNone DEF Table
  <1>2. CASE Definers(q, k) # {}
    <2>1. PICK i \in Definers(q, k) : \A j \in Definers(q, k) : j <= i
      BY <1>2, LastDefiner
    <2>2. i \in DOMAIN q
      BY DEF Definers
    <2>3. q[i] \in Packet
      BY <2>2
    <2>4. q[i].name \in Topic \cup {NoTopic}
      BY <2>3 DEF Packet
    <2>5. Meaning(table, q, k) = q[i].name
      BY <2>1, MeaningLast
    <2>6. QED BY <2>4, <2>5
  <1>3. QED BY <1>1, <1>2

LEMMA ResolvedAppend ==
  ASSUME NEW S, NEW q \in Seq(S), NEW p \in S, NEW table
  PROVE  /\ DOMAIN Append(q, p) = DOMAIN q \cup {Len(q) + 1} /\ Append(q, p) \in Seq(S)
         /\ \A i \in DOMAIN q : /\ Append(q, p)[i] = q[i]
                                /\ Resolved(table, Append(q, p), i) = Resolved(table, q, i)
         /\ Append(q, p)[Len(q) + 1] = p
         /\ Resolved(table, Append(q, p), Len(q) + 1) =
              IF p.name # NoTopic THEN p.name ELSE Meaning(table, q, p.alias)
  <1>1. PICK r : r = Append(q, p)
    OBVIOUS
  <1>2. /\ Len(q) \in Nat /\ DOMAIN q = 1 .. Len(q)
        /\ r \in Seq(S) /\ DOMAIN r = DOMAIN q \cup {Len(q) + 1} /\ r[Len(q) + 1] = p
        /\ \A i \in DOMAIN q : r[i] = q[i]
    BY <1>1
  <1>3. \A i \in DOMAIN q : SubSeq(r, 1, i - 1) = SubSeq(q, 1, i - 1)
    BY <1>1
  <1>4. PICK n : n = Len(q) + 1 /\ SubSeq(r, 1, n - 1) = q
    BY <1>1
  <1>5. ASSUME NEW i \in DOMAIN q PROVE Resolved(table, r, i) = Resolved(table, q, i)
    BY <1>2, <1>3 DEF Resolved
  <1>6. Resolved(table, r, n) = IF p.name # NoTopic THEN p.name ELSE Meaning(table, q, p.alias)
    <2>1. r[n] = p
      BY <1>2, <1>4
    <2>2. QED BY <1>4, <2>1 DEF Resolved
  <1>7. QED BY <1>1, <1>2, <1>4, <1>5, <1>6

LEMMA ResolvedTail ==
  ASSUME NEW S, NEW q \in Seq(S), q # <<>>, NEW table, NEW t, NEW i \in DOMAIN Tail(q),
         Tail(q)[i].name = NoTopic =>
           Meaning(t, <<>>, Tail(q)[i].alias) = Meaning(table, <<Head(q)>>, Tail(q)[i].alias)
  PROVE  /\ i + 1 \in DOMAIN q /\ Tail(q)[i] = q[i + 1]
         /\ Resolved(t, Tail(q), i) = Resolved(table, q, i + 1)
  <1>1. PICK r : r = Tail(q)
    OBVIOUS
  <1>2. PICK u : u = SubSeq(q, 1, i)
    OBVIOUS
  <1>4. i + 1 \in DOMAIN q /\ r[i] = q[i + 1] /\ i \in Nat \ {0} /\ i + 1 - 1 = i
    BY <1>1
  <1>5. u \in Seq(S) /\ u # <<>> /\ Head(u) = Head(q)
    <2>1. i \in 1 .. Len(q) /\ Len(q) \in Nat
      BY <1>1
    <2>2. Len(u) = i /\ u[1] = q[1] /\ u \in Seq(S)
      BY <1>2, <2>1
    <2>3. QED BY <2>1, <2>2
  <1>6. SubSeq(r, 1, i - 1) = Tail(u)
    <2>1. /\ Len(q) \in Nat /\ i + 1 \in 1 .. Len(q) /\ i \in Nat \ {0}
          /\ r \in Seq(S) /\ Len(r) = Len(q) - 1
          /\ \A j \in 1 .. Len(r) : r[j] = q[j + 1]
      BY <1>1
    <2>2. Len(u) = i /\ \A j \in 1 .. i : u[j] = q[j]
      BY <1>2, <2>1
    <2>3. Tail(u) = [j \in 1 .. i - 1 |-> u[j + 1]]
      BY <1>5, <2>2, TailIndexed
    <2>4. SubSeq(r, 1, i - 1) = [j \in 1 .. i - 1 |-> r[j]]
      BY <2>1
    <2>5. ASSUME NEW j \in 1 .. i - 1 PROVE r[j] = u[j + 1]
      <3>1. j \in 1 .. Len(r) /\ j + 1 \in 1 .. i
        BY <2>1
      <3>2. QED BY <2>1, <2>2, <3>1
    <2>6. QED BY <2>3, <2>4, <2>5
  <1>7. CASE r[i].name # NoTopic
    BY <1>1, <1>4, <1>7 DEF Resolved
  <1>8. CASE r[i].name = NoTopic
    <2>1. Meaning(t, <<>>, r[i].alias) = Meaning(table, <<Head(u)>>, r[i].alias)
      BY <1>1, <1>5, <1>8
    <2>2. Meaning(t, Tail(u), r[i].alias) = Meaning(table, u, r[i].alias)
      BY <1>5, <2>1, MeaningTail
    <2>3. Resolved(t, r, i) = Meaning(t, Tail(u), r[i].alias)
      BY <1>6, <1>8 DEF Resolved
    <2>4. Resolved(table, q, i + 1) = Meaning(table, u, q[i + 1].alias)
      BY <1>2, <1>4, <1>8 DEF Resolved
    <2>5. QED BY <1>1, <1>4, <2>2, <2>3, <2>4
  <1>9. QED BY <1>7, <1>8

(* The broker's table after it has read the packets. *)
TableAfter(table, packets) ==
  [k \in {j \in Aliases : Meaning(table, packets, j) # NoTopic} |-> Meaning(table, packets, k)]

LEMMA ReadType ==
  ASSUME NEW q \in Seq(Packet), NEW table, Table(table), BrokerReads(table, q),
         misrouted \cup unresolved \subseteq Message
  PROVE  /\ known' = TableAfter(table, q) /\ Table(known')
         /\ DOMAIN known' \subseteq Aliases
         /\ misrouted' \cup unresolved' \subseteq Message
  <1>1. known' = TableAfter(table, q)
    BY DEF BrokerReads, TableAfter
  <1>2. /\ DOMAIN known' = {j \in Aliases : Meaning(table, q, j) # NoTopic}
        /\ \A k \in DOMAIN known' : known'[k] = Meaning(table, q, k)
    BY <1>1 DEF TableAfter
  <1>3. Table(known')
    BY <1>2, MeaningType DEF Table, Aliases
  <1>4. \A i \in DOMAIN q : q[i].msg \in Message
    <2>1. \A i \in DOMAIN q : q[i] \in Packet
      OBVIOUS
    <2>2. QED BY <2>1 DEF Packet
  <1>5. misrouted' \cup unresolved' \subseteq Message
    BY <1>4 DEF BrokerReads
  <1>6. QED BY <1>1, <1>2, <1>3, <1>5

LEMMA ReadRight ==
  ASSUME TopicAliasAssumption, NEW q \in Seq(Packet), NEW table, BrokerReads(table, q),
         \A i \in DOMAIN q : Resolved(table, q, i) = q[i].topic
  PROVE  misrouted' = misrouted /\ unresolved' = unresolved
  <1>1. \A i \in DOMAIN q : q[i] \in Packet
    OBVIOUS
  <1>2. \A i \in DOMAIN q : q[i].topic # NoTopic
    BY <1>1 DEF Packet, TopicAliasAssumption
  <1>3. QED BY <1>2 DEF BrokerReads

-----------------------------------------------------------------------------
(* The state between two steps. *)

Context == TypeOK /\ FlowAgrees /\ StoredTopic

(* An application that publishes to more topics needs more aliases, but no more
   than there are topics. *)
LEMMA NamesFit ==
  ASSUME TopicAliasAssumption, NEW names \in Seq(Topic), IsInjective(names)
  PROVE  DOMAIN names = 1 .. Len(names) /\ Len(names) \in Nat /\ DOMAIN names \subseteq Aliases
  <1>1. Len(names) \in Nat /\ DOMAIN names = 1 .. Len(names)
    OBVIOUS
  <1>2. names \in Injection(1 .. Len(names), Topic)
    BY <1>1 DEF Injection
  <1>3. Cardinality(1 .. Len(names)) <= Cardinality(Topic) /\ IsFiniteSet(Topic)
    BY <1>2, FS_Injection DEF TopicAliasAssumption
  <1>4. Cardinality(1 .. Len(names)) = Len(names)
    <2>1. \A n \in Nat : Cardinality(1 .. n) = n
      BY FS_Interval
    <2>2. QED BY <1>1, <2>1
  <1>5. Cardinality(Topic) \in Nat
    BY <1>3, FS_CardinalityType
  <1>6. QED BY <1>1, <1>3, <1>4, <1>5 DEF Aliases

LEMMA TxFits ==
  ASSUME TopicAliasAssumption, Context
  PROVE  DOMAIN tx = 1 .. Len(tx) /\ Len(tx) \in Nat /\ DOMAIN tx \subseteq Aliases
  BY NamesFit DEF Context, TypeOK, StoredTopic

LEMMA WaitingPackets ==
  ASSUME Context
  PROVE  /\ Waiting \in Seq(Packet) /\ Len(Waiting) = Len(pending)
         /\ DOMAIN Waiting = DOMAIN pending /\ Len(pending) \in Nat
         /\ \A i \in DOMAIN pending : Waiting[i] = stored[pending[i]]
         /\ \A i \in DOMAIN Waiting : TopicKept(Waiting[i])
         /\ Waiting = <<>> <=> pending = <<>>
  <1>1. pending \in Seq(Message) /\ Len(pending) \in Nat /\ DOMAIN pending = 1 .. Len(pending)
    BY DEF Context, TypeOK
  <1>2. \A i \in DOMAIN pending : pending[i] \in DOMAIN stored
    BY DEF Context, FlowAgrees, Range
  <1>3. \A i \in 1 .. Len(pending) : stored[pending[i]] \in Packet
    BY <1>1, <1>2 DEF Context, TypeOK
  <1>4. Waiting = [i \in 1 .. Len(pending) |-> stored[pending[i]]]
    BY <1>1 DEF Waiting
  <1>5. Waiting \in Seq(Packet) /\ Len(Waiting) = Len(pending) /\ DOMAIN Waiting = 1 .. Len(pending)
    BY <1>1, <1>3, <1>4
  <1>6. \A i \in DOMAIN pending : Waiting[i] = stored[pending[i]]
    BY DEF Waiting
  <1>7. \A i \in DOMAIN Waiting : TopicKept(Waiting[i])
    BY <1>1, <1>2, <1>5, <1>6 DEF Context, StoredTopic
  <1>8. Waiting = <<>> <=> pending = <<>>
    BY <1>1, <1>5
  <1>9. QED BY <1>1, <1>5, <1>6, <1>7, <1>8

-----------------------------------------------------------------------------
(* Publishing. *)

(* A packet defines its alias only if the table gets it now, and the table has
   the topic it leaves out. *)
LEMMA BuiltRight ==
  ASSUME TopicAliasAssumption, Context, NEW topic \in Topic, published < MaxPublish,
         AssignAlias(topic), NEW p, p = Built(topic)
  PROVE  /\ p \in Packet /\ p.topic = topic /\ p.msg = published + 1
         /\ tx' \in Seq(Topic) /\ IsInjective(tx') /\ DOMAIN tx \subseteq DOMAIN tx'
         /\ \A k \in DOMAIN tx : tx'[k] = tx[k] /\ ~(p.alias = k /\ p.name # NoTopic)
         /\ \A k \in DOMAIN tx' \ DOMAIN tx : p.alias = k /\ p.name # NoTopic /\ tx'[k] = topic
         /\ p.name = NoTopic => p.alias \in DOMAIN tx /\ tx[p.alias] = topic /\ p.bare
         /\ p.name # NoTopic => p.name = topic /\ ~p.bare
         /\ p.retries = MaxRetries
         /\ p.alias <= Len(tx) \/ (AliasSpace /\ p.alias = Len(tx) + 1)
         /\ Len(tx') <= Len(tx) \/ (AliasSpace /\ Len(tx') = Len(tx) + 1)
  <1>1. /\ tx \in Seq(Topic) /\ Len(tx) \in Nat /\ DOMAIN tx = 1 .. Len(tx) /\ IsInjective(tx)
        /\ published \in Nat /\ published + 1 \in Message
    BY DEF Context, TypeOK, StoredTopic, TopicAliasAssumption, Message
  <1>2. NoTopic \notin Topic /\ MaxRetries = 2 /\ topic # NoTopic
    BY DEF TopicAliasAssumption
  <1>3. CASE topic \in Range(tx)
    <2>1. \E k \in DOMAIN tx : tx[k] = topic
      BY <1>3 DEF Range
    <2>2. AliasOf(topic) \in DOMAIN tx /\ tx[AliasOf(topic)] = topic
      BY <2>1 DEF AliasOf
    <2>3. /\ p.topic = topic /\ p.msg = published + 1 /\ p.name = NoTopic /\ p.bare
          /\ p.alias = AliasOf(topic) /\ p.retries = MaxRetries
      BY <1>3 DEF Built
    <2>4. p \in Packet
      BY <1>1, <1>2, <1>3, <2>2 DEF Built, Packet
    <2>5. tx' = tx
      BY <1>3 DEF AssignAlias
    <2>6. p.alias <= Len(tx)
      BY <1>1, <2>2, <2>3
    <2>7. QED BY <1>1, <2>2, <2>3, <2>4, <2>5, <2>6
  <1>4. CASE topic \notin Range(tx)
    <2>1. /\ p.topic = topic /\ p.msg = published + 1 /\ p.name = topic /\ ~p.bare
          /\ p.alias = (IF AliasSpace THEN Len(tx) + 1 ELSE 0) /\ p.retries = MaxRetries
      BY <1>4 DEF Built
    <2>2. p \in Packet
      <3>1. (IF AliasSpace THEN Len(tx) + 1 ELSE 0) \in Nat
        BY <1>1
      <3>2. QED BY <1>1, <1>2, <1>4, <3>1 DEF Built, Packet
    <2>3. CASE AliasSpace
      <3>1. tx' = Append(tx, topic)
        BY <1>4, <2>3 DEF AssignAlias
      <3>2. IsInjective(tx')
        BY <1>1, <1>4, <3>1, QueueAppend
      <3>3. /\ tx' \in Seq(Topic) /\ DOMAIN tx' = DOMAIN tx \cup {Len(tx) + 1}
            /\ \A k \in DOMAIN tx : tx'[k] = tx[k] /\ k # Len(tx) + 1
            /\ tx'[Len(tx) + 1] = topic
            /\ Len(tx') = Len(tx) + 1
        BY <1>1, <3>1
      <3>4. QED BY <1>2, <2>1, <2>2, <2>3, <3>2, <3>3
    <2>4. CASE ~AliasSpace
      <3>1. tx' = tx
        BY <2>4 DEF AssignAlias
      <3>2. \A k \in DOMAIN tx : k # 0
        BY <1>1
      <3>3. p.alias <= Len(tx)
        BY <1>1, <2>1, <2>4
      <3>4. QED BY <1>1, <1>2, <2>1, <2>2, <2>4, <3>1, <3>2, <3>3
    <2>5. QED BY <2>3, <2>4
  <1>5. QED BY <1>3, <1>4

(* What is stored keeps its topic, and so does the new packet. *)
LEMMA PublishedKept ==
  ASSUME TopicAliasAssumption, Context, NEW topic \in Topic, published < MaxPublish,
         AssignAlias(topic),
         \/ stored' = stored
         \/ stored' = Put(stored, published + 1, Built(topic))
  PROVE  StoredTopic'
  <1>1. PICK p : p = Built(topic)
    OBVIOUS
  <1>2. PICK t : t = tx'
    OBVIOUS
  <1>3. /\ IsInjective(tx') /\ DOMAIN tx \subseteq DOMAIN tx'
        /\ \A k \in DOMAIN tx : tx'[k] = tx[k]
        /\ p.name = NoTopic => p.alias \in DOMAIN tx /\ tx[p.alias] = topic /\ p.bare
        /\ p.name # NoTopic => p.name = topic /\ ~p.bare
        /\ p.retries = MaxRetries /\ p.topic = topic
    BY <1>1, BuiltRight
  <1>4. \A m \in DOMAIN stored' : stored'[m] = p \/ (m \in DOMAIN stored /\ stored'[m] = stored[m])
    BY <1>1 DEF Put
  <1>5. ASSUME NEW m \in DOMAIN stored' PROVE TopicKept(stored[m])' 
    <2>1. CASE stored'[m] = p
      BY <1>3, <2>1 DEF TopicKept
    <2>2. CASE m \in DOMAIN stored /\ stored'[m] = stored[m]
      BY <1>3, <2>2 DEF TopicKept, Context, StoredTopic
    <2>3. QED BY <1>4, <2>1, <2>2
  <1>6. QED BY <1>3, <1>5 DEF StoredTopic

-----------------------------------------------------------------------------
(* What the broker has read and will read. *)

LEMMA AgreesAppend ==
  ASSUME TopicAliasAssumption, Context, NEW topic \in Topic, published < MaxPublish,
         AssignAlias(topic), NEW p, p = Built(topic),
         NEW q \in Seq(Packet), NEW table, Agrees(table, tx, q)
  PROVE  Agrees(table, tx', Append(q, p))
  <1>1. /\ p \in Packet /\ p.topic = topic
        /\ \A k \in DOMAIN tx : tx'[k] = tx[k] /\ ~(p.alias = k /\ p.name # NoTopic)
        /\ \A k \in DOMAIN tx' \ DOMAIN tx : p.alias = k /\ p.name # NoTopic /\ tx'[k] = topic
        /\ p.name = NoTopic => p.alias \in DOMAIN tx /\ tx[p.alias] = topic
        /\ p.name # NoTopic => p.name = topic
    BY BuiltRight
  <1>2. ASSUME NEW k \in DOMAIN tx' PROVE Meaning(table, Append(q, p), k) = tx'[k]
    <2>1. Meaning(table, Append(q, p), k) =
            IF p.alias = k /\ p.name # NoTopic THEN p.name ELSE Meaning(table, q, k)
      BY <1>1, MeaningAppend
    <2>2. QED BY <1>1, <2>1 DEF Agrees
  <1>3. PICK r : r = Append(q, p)
    OBVIOUS
  <1>4. ASSUME NEW i \in DOMAIN r PROVE Resolved(table, r, i) = r[i].topic
    <2>1. /\ DOMAIN r = DOMAIN q \cup {Len(q) + 1} /\ r[Len(q) + 1] = p
          /\ \A j \in DOMAIN q : r[j] = q[j] /\ Resolved(table, r, j) = Resolved(table, q, j)
          /\ Resolved(table, r, Len(q) + 1) =
               IF p.name # NoTopic THEN p.name ELSE Meaning(table, q, p.alias)
      BY <1>1, <1>3, ResolvedAppend
    <2>2. CASE i \in DOMAIN q
      BY <2>1, <2>2 DEF Agrees
    <2>3. CASE i = Len(q) + 1
      <3>1. p.name = NoTopic => Meaning(table, q, p.alias) = topic
        BY <1>1 DEF Agrees
      <3>2. QED BY <1>1, <2>1, <2>3, <3>1
    <2>4. QED BY <2>1, <2>2, <2>3
  <1>5. QED BY <1>2, <1>3, <1>4 DEF Agrees

(* Whoever reads the first packet, and keeps the table it leaves, goes on to
   agree. *)
LEMMA AgreesAfter ==
  ASSUME NEW S, NEW q \in Seq(S), q # <<>>, NEW table, NEW t, NEW names, NEW Keys,
         DOMAIN names \subseteq Keys, Agrees(table, names, q),
         \A i \in DOMAIN q : q[i].name = NoTopic => q[i].alias \in Keys,
         \A k \in Keys : Meaning(t, <<>>, k) = Meaning(table, <<Head(q)>>, k)
  PROVE  Agrees(t, names, Tail(q))
  <1>1. \A k \in DOMAIN names : Meaning(t, Tail(q), k) = names[k]
    BY MeaningTail DEF Agrees
  <1>2. ASSUME NEW i \in DOMAIN Tail(q) PROVE Resolved(t, Tail(q), i) = Tail(q)[i].topic
    <2>1. i + 1 \in DOMAIN q /\ Tail(q)[i] = q[i + 1]
      OBVIOUS
    <2>2. PICK k : k = Tail(q)[i].alias
      OBVIOUS
    <2>3. Tail(q)[i].name = NoTopic => k \in Keys
      BY <2>1, <2>2
    <2>4. Tail(q)[i].name = NoTopic =>
            Meaning(t, <<>>, Tail(q)[i].alias) = Meaning(table, <<Head(q)>>, Tail(q)[i].alias)
      BY <2>2, <2>3
    <2>5. Resolved(t, Tail(q), i) = Resolved(table, q, i + 1)
      BY <2>4, ResolvedTail
    <2>6. QED BY <2>1, <2>5 DEF Agrees
  <1>3. QED BY <1>1, <1>2 DEF Agrees

LEMMA AgreesFirst ==
  ASSUME NEW S, NEW q \in Seq(S), q # <<>>, NEW table, NEW names, Agrees(table, names, q)
  PROVE  /\ <<Head(q)>> \in Seq(S)
         /\ \A i \in DOMAIN <<Head(q)>> : Resolved(table, <<Head(q)>>, i) = <<Head(q)>>[i].topic
         /\ Head(q).name = NoTopic => Meaning(table, <<>>, Head(q).alias) = Head(q).topic
  <1>1. PICK h : h = <<Head(q)>>
    OBVIOUS
  <1>2. h \in Seq(S) /\ DOMAIN h = {1} /\ h[1] = q[1] /\ 1 \in DOMAIN q /\ Head(q) = q[1]
    BY <1>1
  <1>3. SubSeq(h, 1, 1 - 1) = <<>> /\ SubSeq(q, 1, 1 - 1) = <<>>
    BY <1>1
  <1>4. Resolved(table, h, 1) = Resolved(table, q, 1)
    BY <1>2, <1>3 DEF Resolved
  <1>5. Resolved(table, q, 1) = q[1].topic
    BY <1>2 DEF Agrees
  <1>6. q[1].name = NoTopic => Meaning(table, <<>>, q[1].alias) = q[1].topic
    BY <1>3, <1>5 DEF Resolved
  <1>7. QED BY <1>1, <1>2, <1>4, <1>5, <1>6

LEMMA AgreesTail ==
  ASSUME NEW q \in Seq(Packet), q # <<>>, NEW table, NEW names, DOMAIN names \subseteq Aliases,
         Agrees(table, names, q),
         \A i \in DOMAIN q : q[i].name = NoTopic => q[i].alias \in Aliases
  PROVE  /\ Agrees(TableAfter(table, <<Head(q)>>), names, Tail(q))
         /\ <<Head(q)>> \in Seq(Packet)
         /\ \A i \in DOMAIN <<Head(q)>> : Resolved(table, <<Head(q)>>, i) = <<Head(q)>>[i].topic
  <1>1. PICK t : t = TableAfter(table, <<Head(q)>>)
    OBVIOUS
  <1>2. \A k \in Aliases : Meaning(t, <<>>, k) = Meaning(table, <<Head(q)>>, k)
    BY <1>1, MeaningEmpty DEF TableAfter
  <1>3. Agrees(t, names, Tail(q))
    BY <1>2, AgreesAfter
  <1>4. QED BY <1>1, <1>3, AgreesFirst

(* A packet is sent at once only while none waits. *)
LEMMA SentAtOnce ==
  ASSUME TopicAliasAssumption, Context, BrokerAgrees, running, pending = <<>>,
         NEW topic \in Topic, published < MaxPublish,
         AssignAlias(topic), BrokerReads(known, <<Built(topic)>>)
  PROVE  /\ Agrees(known', tx', <<>>)
         /\ misrouted' = misrouted /\ unresolved' = unresolved
  <1>1. PICK p : p = Built(topic)
    OBVIOUS
  <1>2. PICK q : q = <<p>>
    OBVIOUS
  <1>3. /\ p \in Packet /\ q = Append(<<>>, p) /\ q \in Seq(Packet) /\ q # <<>> /\ DOMAIN q = {1}
        /\ q[1] = p /\ <<Head(q)>> = q /\ Tail(q) = <<>> /\ <<>> \in Seq(Packet)
    BY <1>1, <1>2, BuiltRight
  <1>4. Agrees(known, tx, <<>>)
    BY WaitingPackets DEF BrokerAgrees
  <1>5. Agrees(known, tx', q)
    BY <1>1, <1>3, <1>4, AgreesAppend
  <1>6. DOMAIN tx' \subseteq Aliases
    BY BuiltRight, NamesFit
  <1>7. \A i \in DOMAIN q : q[i].name = NoTopic => q[i].alias \in Aliases
    <2>1. p.name = NoTopic => p.alias \in DOMAIN tx
      BY <1>1, BuiltRight
    <2>2. QED BY <1>3, <2>1, TxFits
  <1>8. /\ Agrees(TableAfter(known, q), tx', <<>>)
        /\ \A i \in DOMAIN q : Resolved(known, q, i) = q[i].topic
    <2>1. q \in Seq(Packet) /\ q # <<>>
      BY <1>3
    <2>2. /\ Agrees(TableAfter(known, <<Head(q)>>), tx', Tail(q))
          /\ \A i \in DOMAIN <<Head(q)>> :
               Resolved(known, <<Head(q)>>, i) = <<Head(q)>>[i].topic
      BY <1>5, <1>6, <1>7, <2>1, AgreesTail
    <2>3. <<Head(q)>> = q /\ Tail(q) = <<>>
      BY <1>3
    <2>4. QED BY <2>2, <2>3
  <1>9. BrokerReads(known, q)
    BY <1>1, <1>2
  <1>10. known' = TableAfter(known, q)
    BY <1>9 DEF BrokerReads, TableAfter
  <1>11. QED BY <1>3, <1>8, <1>9, <1>10, ReadRight

-----------------------------------------------------------------------------
(* Flow control. *)

(* The packets sent on this connection and not acknowledged. *)
InFlight == DOMAIN stored \ Range(pending)

LEMMA FlightFinite ==
  ASSUME TopicAliasAssumption, TypeOK
  PROVE  IsFiniteSet(DOMAIN stored) /\ IsFiniteSet(InFlight) /\ Cardinality(InFlight) \in Nat
  <1>1. DOMAIN stored \in SUBSET (1 .. MaxPublish) /\ IsFiniteSet(1 .. MaxPublish)
    BY FS_Interval DEF TypeOK, TopicAliasAssumption, Message
  <1>2. IsFiniteSet(DOMAIN stored)
    BY <1>1, FS_Subset
  <1>3. IsFiniteSet(InFlight)
    BY <1>2, FS_Subset DEF InFlight
  <1>4. QED BY <1>2, <1>3, FS_CardinalityType

LEMMA SameFlow ==
  ASSUME TypeOK, FlowAgrees, UNCHANGED <<running, stored, pending, inflight>>,
         published' = published \/ published' = published + 1
  PROVE  FlowAgrees'
  <1>1. /\ published \in Nat
        /\ \A m \in DOMAIN stored : m \in Nat /\ m <= published
    BY DEF TypeOK, FlowAgrees, Message
  <1>2. \A m \in DOMAIN stored' : m <= published'
    BY <1>1
  <1>3. QED BY <1>2 DEF FlowAgrees

LEMMA PublishFlow ==
  ASSUME TopicAliasAssumption, TypeOK, FlowAgrees, NEW topic \in Topic, PublishQoS1(topic)
  PROVE  /\ FlowAgrees'
         /\ pending' \in Seq(Message) /\ inflight' \in 0 .. ReceiveMax
         /\ inflight < ReceiveMax => pending = <<>>
  <1>1. PICK n : n = published + 1
    OBVIOUS
  <1>2. /\ running /\ running' /\ published' = n /\ n \in Message
        /\ DOMAIN stored' = DOMAIN stored \cup {n}
    BY <1>1 DEF PublishQoS1, Publishing, TypeOK, TopicAliasAssumption, Message, Put
  <1>3. /\ published \in Nat /\ n \in Nat /\ n > published
        /\ \A m \in DOMAIN stored : m \in Nat /\ m <= published
    BY <1>1 DEF TypeOK, FlowAgrees, Message
  <1>4. n \notin DOMAIN stored /\ \A m \in DOMAIN stored' : m <= published'
    BY <1>2, <1>3
  <1>5. n \notin Range(pending) /\ Range(pending) \subseteq DOMAIN stored /\ IsInjective(pending)
    BY <1>4 DEF FlowAgrees
  <1>6. pending \in Seq(Message) /\ inflight \in 0 .. ReceiveMax /\ ReceiveMax \in Nat \ {0}
    BY DEF TypeOK, TopicAliasAssumption
  <1>7. inflight < ReceiveMax => pending = <<>>
    BY <1>6 DEF FlowAgrees
  <1>8. CASE inflight >= ReceiveMax
    <2>1. pending' = Append(pending, n) /\ inflight' = inflight /\ inflight = ReceiveMax
      BY <1>1, <1>6, <1>8 DEF PublishQoS1
    <2>2. /\ pending' \in Seq(Message) /\ IsInjective(pending')
          /\ Range(pending') = Range(pending) \cup {n}
      BY <1>2, <1>5, <1>6, <2>1, QueueAppend
    <2>3. DOMAIN stored' \ Range(pending') = DOMAIN stored \ Range(pending)
      BY <1>2, <1>4, <2>2
    <2>4. inflight' = Cardinality(DOMAIN stored' \ Range(pending'))
      BY <1>2, <2>1, <2>3 DEF FlowAgrees
    <2>5. inflight' = ReceiveMax /\ inflight' \in 0 .. ReceiveMax
      BY <1>6, <2>1
    <2>6. Range(pending') \subseteq DOMAIN stored'
      BY <1>2, <1>5, <2>2
    <2>7. QED BY <1>2, <1>4, <1>7, <1>8, <2>2, <2>4, <2>5, <2>6 DEF FlowAgrees
  <1>9. CASE ~(inflight >= ReceiveMax)
    <2>1. pending' = pending /\ inflight' = inflight + 1 /\ pending = <<>>
      BY <1>6, <1>7, <1>9 DEF PublishQoS1
    <2>2. DOMAIN stored' \ Range(pending') = InFlight \cup {n} /\ n \notin InFlight
      BY <1>2, <1>4, <1>5, <2>1 DEF InFlight
    <2>3. Cardinality(InFlight \cup {n}) = Cardinality(InFlight) + 1
      BY <2>2, FlightFinite, FS_AddElement
    <2>4. inflight = Cardinality(InFlight)
      BY <1>2 DEF FlowAgrees, InFlight
    <2>5. inflight' = Cardinality(DOMAIN stored' \ Range(pending'))
      BY <2>1, <2>2, <2>3, <2>4
    <2>6. inflight' \in 0 .. ReceiveMax
      BY <1>6, <1>9, <2>1
    <2>7. pending' \in Seq(Message) /\ IsInjective(pending') /\ Range(pending') \subseteq DOMAIN stored'
      BY <1>2, <1>5, <1>6, <2>1
    <2>8. QED BY <1>2, <1>4, <1>7, <2>1, <2>5, <2>6, <2>7 DEF FlowAgrees
  <1>10. QED BY <1>7, <1>8, <1>9

LEMMA AcknowledgedFlow ==
  ASSUME TopicAliasAssumption, TypeOK, FlowAgrees, NEW m \in Message, Acknowledged(m)
  PROVE  /\ FlowAgrees'
         /\ pending' \in Seq(Message) /\ inflight' \in 0 .. ReceiveMax
         /\ pending' = IF pending = <<>> THEN <<>> ELSE Tail(pending)
         /\ DOMAIN stored' = DOMAIN stored \ {m}
         /\ \A i \in DOMAIN stored' : stored'[i] = stored[i]
  <1>1. /\ running /\ running' /\ published' = published
        /\ m \in InFlight
        /\ DOMAIN stored' = DOMAIN stored \ {m}
        /\ \A i \in DOMAIN stored' : stored'[i] = stored[i]
    BY DEF Acknowledged, InFlight, Drop, Restrict
  <1>2. pending \in Seq(Message) /\ inflight \in 0 .. ReceiveMax /\ ReceiveMax \in Nat \ {0}
    BY DEF TypeOK, TopicAliasAssumption
  <1>3. inflight = Cardinality(InFlight) /\ IsFiniteSet(InFlight) /\ inflight \in Nat
    BY <1>1, <1>2, FlightFinite DEF FlowAgrees, InFlight
  <1>4. IsFiniteSet(InFlight \ {m}) /\ Cardinality(InFlight \ {m}) = inflight - 1
    BY <1>1, <1>3, FS_RemoveElement
  <1>5. \A i \in DOMAIN stored' : i <= published'
    BY <1>1 DEF FlowAgrees
  <1>6. CASE pending # <<>>
    <2>1. pending' = Tail(pending) /\ inflight' = inflight
      BY <1>6 DEF Acknowledged, PublishEnd, RunFlow
    <2>2. /\ pending' \in Seq(Message) /\ IsInjective(pending')
          /\ Head(pending) \in Range(pending)
          /\ Range(pending') = Range(pending) \ {Head(pending)}
      BY <1>2, <1>6, <2>1, QueueTail DEF FlowAgrees
    <2>3. /\ DOMAIN stored' \ Range(pending') = (InFlight \ {m}) \cup {Head(pending)}
          /\ Head(pending) \notin InFlight /\ Range(pending') \subseteq DOMAIN stored'
      BY <1>1, <2>2 DEF InFlight, FlowAgrees
    <2>4. Cardinality((InFlight \ {m}) \cup {Head(pending)}) = (inflight - 1) + 1
      BY <1>4, <2>3, FS_AddElement
    <2>5. Cardinality(DOMAIN stored' \ Range(pending')) = inflight'
      <3>1. (inflight - 1) + 1 = inflight
        BY <1>3
      <3>2. QED BY <2>1, <2>3, <2>4, <3>1
    <2>6. inflight' = ReceiveMax
      BY <1>6, <2>1 DEF FlowAgrees
    <2>7. QED BY <1>1, <1>2, <1>5, <1>6, <2>1, <2>2, <2>3, <2>5, <2>6 DEF FlowAgrees
  <1>7. CASE pending = <<>>
    <2>1. pending' = <<>> /\ inflight' = inflight - 1
      BY <1>7 DEF Acknowledged, PublishEnd
    <2>2. Range(pending) = {} /\ Range(pending') = {} /\ IsInjective(pending')
      BY <1>7, <2>1 DEF Range, IsInjective
    <2>3. DOMAIN stored' \ Range(pending') = InFlight \ {m}
      BY <1>1, <2>2 DEF InFlight
    <2>4. inflight - 1 \in Nat
      <3>1. Cardinality(InFlight \ {m}) \in Nat
        BY <1>4, FS_CardinalityType
      <3>2. QED BY <1>4, <3>1
    <2>5. inflight' \in 0 .. ReceiveMax
      BY <1>2, <2>1, <2>4
    <2>6. inflight' = Cardinality(DOMAIN stored' \ Range(pending'))
      BY <1>4, <2>1, <2>3
    <2>7. pending' \in Seq(Message)
      BY <2>1
    <2>8. QED BY <1>1, <1>5, <1>7, <2>1, <2>2, <2>5, <2>6, <2>7 DEF FlowAgrees
  <1>8. QED BY <1>6, <1>7

-----------------------------------------------------------------------------
(* Each step keeps the tables. *)

IInv == TypeOK /\ AliasTables

LEMMA IInvContext ==
  ASSUME IInv
  PROVE  /\ Context /\ RightTopic
         /\ ~overtaken => BrokerAgrees
         /\ Table(known) /\ Table(rx) /\ Table(announced)
         /\ misrouted \cup unresolved \subseteq Message
  BY DEF IInv, AliasTables, Context, TypeOK, Table

LEMMA AgreesNext ==
  ASSUME Agrees(known', tx', Waiting') PROVE BrokerAgrees'
  BY DEF BrokerAgrees, Agrees, Resolved, Meaning, Definers

LEMMA PublishingType ==
  ASSUME TopicAliasAssumption, IInv, NEW topic \in Topic, Publishing(topic)
  PROVE  /\ tx' \in Seq(Topic) /\ published' \in 0 .. MaxPublish /\ published' = published + 1
         /\ running /\ running' /\ published < MaxPublish /\ AssignAlias(topic)
         /\ Built(topic) \in Packet /\ <<Built(topic)>> \in Seq(Packet)
         /\ published + 1 \in Message
         /\ aliasMax' = aliasMax /\ rx' = rx /\ announced' = announced
         /\ UNCHANGED <<discarded, misdirected, sent, incoming, rearranged>>
  <1>1. /\ running /\ published < MaxPublish /\ AssignAlias(topic) /\ published' = published + 1
        /\ UNCHANGED <<running, aliasMax, rx, announced, sent, incoming, discarded,
                       rearranged, misdirected>>
    <2>1. published < MaxPublish
      BY DEF Publishing, IInv, TypeOK, TopicAliasAssumption
    <2>2. QED BY <2>1 DEF Publishing
  <1>2. tx' \in Seq(Topic) /\ Built(topic) \in Packet
    BY <1>1, IInvContext, BuiltRight
  <1>3. published \in 0 .. MaxPublish /\ MaxPublish \in Nat
    BY DEF IInv, TypeOK, TopicAliasAssumption
  <1>4. published' \in 0 .. MaxPublish /\ published + 1 \in Message
    BY <1>1, <1>3 DEF Message
  <1>5. QED BY <1>1, <1>2, <1>4

LEMMA PublishQoS0Tables ==
  ASSUME TopicAliasAssumption, IInv, NEW topic \in Topic, PublishQoS0(topic)
  PROVE  IInv'
  <1>1. /\ Publishing(topic) /\ BrokerReads(known, <<Built(topic)>>)
        /\ overtaken' = (overtaken \/ pending # <<>>)
        /\ UNCHANGED <<stored, pending, inflight>>
    BY DEF PublishQoS0
  <1>2. /\ tx' \in Seq(Topic) /\ published' \in 0 .. MaxPublish /\ published' = published + 1
        /\ running /\ running' /\ published < MaxPublish /\ AssignAlias(topic)
        /\ Built(topic) \in Packet /\ <<Built(topic)>> \in Seq(Packet)
        /\ aliasMax' = aliasMax /\ rx' = rx /\ announced' = announced
        /\ UNCHANGED <<discarded, misdirected, sent, incoming, rearranged>>
    BY <1>1, PublishingType
  <1>3. Table(known') /\ misrouted' \cup unresolved' \subseteq Message
    BY <1>1, <1>2, IInvContext, ReadType
  <1>4. TypeOK'
    <2>1. {running', overtaken', rearranged', misdirected'} \subseteq BOOLEAN
      BY <1>1, <1>2 DEF IInv, TypeOK
    <2>2. QED BY <1>1, <1>2, <1>3, <2>1 DEF IInv, TypeOK, Table
  <1>5. FlowAgrees'
    BY <1>1, <1>2, SameFlow DEF IInv, AliasTables
  <1>6. StoredTopic'
    BY <1>1, <1>2, IInvContext, PublishedKept
  <1>7. ASSUME ~overtaken' PROVE BrokerAgrees' /\ misrouted' = {} /\ unresolved' = {}
    <2>1. ~overtaken /\ pending = <<>>
      BY <1>1, <1>7
    <2>2. /\ Agrees(known', tx', <<>>)
          /\ misrouted' = misrouted /\ unresolved' = unresolved
      BY <1>1, <1>2, <2>1, IInvContext, SentAtOnce
    <2>3. Waiting' = <<>>
      BY <1>1, <2>1 DEF Waiting
    <2>4. QED BY <2>1, <2>2, <2>3, IInvContext, AgreesNext DEF RightTopic
  <1>8. QED BY <1>4, <1>5, <1>6, <1>7 DEF IInv, AliasTables, RightTopic

LEMMA PublishQoS1Tables ==
  ASSUME TopicAliasAssumption, IInv, NEW topic \in Topic, PublishQoS1(topic)
  PROVE  IInv'
  <1>1. PICK p : p = Built(topic)
    OBVIOUS
  <1>2. /\ Publishing(topic) /\ stored' = Put(stored, published + 1, p) /\ overtaken' = overtaken
    BY <1>1 DEF PublishQoS1
  <1>3. /\ tx' \in Seq(Topic) /\ published' \in 0 .. MaxPublish /\ published' = published + 1
        /\ running /\ running' /\ published < MaxPublish /\ AssignAlias(topic)
        /\ p \in Packet /\ <<p>> \in Seq(Packet) /\ published + 1 \in Message
        /\ aliasMax' = aliasMax /\ rx' = rx /\ announced' = announced
        /\ UNCHANGED <<discarded, misdirected, sent, incoming, rearranged>>
    BY <1>1, <1>2, PublishingType
  <1>4. /\ FlowAgrees' /\ pending' \in Seq(Message) /\ inflight' \in 0 .. ReceiveMax
        /\ inflight < ReceiveMax => pending = <<>>
    BY PublishFlow DEF IInv, AliasTables
  <1>5. Table(known') /\ misrouted' \cup unresolved' \subseteq Message
    <2>1. CASE inflight >= ReceiveMax
      BY <2>1, IInvContext DEF PublishQoS1, NothingRead
    <2>2. CASE ~(inflight >= ReceiveMax)
      <3>1. BrokerReads(known, <<p>>)
        BY <1>1, <2>2 DEF PublishQoS1
      <3>2. QED BY <1>3, <3>1, IInvContext, ReadType
    <2>3. QED BY <2>1, <2>2
  <1>6. DOMAIN stored' \subseteq Message /\ \A m \in DOMAIN stored' : stored'[m] \in Packet
    <2>1. DOMAIN stored \subseteq Message /\ \A m \in DOMAIN stored : stored[m] \in Packet
      BY DEF IInv, TypeOK
    <2>2. stored' = Put(stored, published + 1, p) /\ published + 1 \in Message /\ p \in Packet
      BY <1>2, <1>3
    <2>3. QED BY <2>1, <2>2, PutType
  <1>7. TypeOK'
    <2>1. {running', overtaken', rearranged', misdirected'} \subseteq BOOLEAN
      BY <1>2, <1>3 DEF IInv, TypeOK
    <2>2. QED BY <1>3, <1>4, <1>5, <1>6, <2>1 DEF IInv, TypeOK, Table
  <1>8. StoredTopic'
    BY <1>1, <1>2, <1>3, IInvContext, PublishedKept
  <1>9. ASSUME ~overtaken' PROVE BrokerAgrees' /\ misrouted' = {} /\ unresolved' = {}
    <2>1. ~overtaken /\ BrokerAgrees /\ misrouted = {} /\ unresolved = {}
      BY <1>2, <1>9, IInvContext DEF RightTopic
    <2>2. CASE inflight >= ReceiveMax
      <3>1. pending' = Append(pending, published + 1) /\ UNCHANGED <<known, unresolved, misrouted>>
        BY <2>2 DEF PublishQoS1, NothingRead
      <3>2. Waiting' = Append(Waiting, p)
        <4>1. /\ pending \in Seq(Message) /\ Len(pending) \in Nat
              /\ DOMAIN pending = 1 .. Len(pending)
              /\ DOMAIN pending' = 1 .. Len(pending) + 1
              /\ \A i \in 1 .. Len(pending) : pending'[i] = pending[i]
              /\ pending'[Len(pending) + 1] = published + 1
          BY <3>1 DEF IInv, TypeOK
        <4>2. \A i \in DOMAIN pending : pending[i] \in DOMAIN stored /\ pending[i] # published + 1
          <5>1. \A i \in DOMAIN pending : pending[i] \in DOMAIN stored
            BY DEF IInv, AliasTables, FlowAgrees, Range
          <5>2. \A m \in DOMAIN stored : m \in Nat /\ m <= published /\ published \in Nat
            BY DEF IInv, AliasTables, FlowAgrees, TypeOK, Message
          <5>3. QED BY <5>1, <5>2
        <4>3. /\ \A i \in 1 .. Len(pending) : stored'[pending'[i]] = stored[pending[i]]
              /\ stored'[pending'[Len(pending) + 1]] = p
          BY <1>2, <4>1, <4>2 DEF Put
        <4>4. Waiting' = [i \in 1 .. Len(pending) + 1 |-> stored'[pending'[i]]]
          BY <4>1 DEF Waiting
        <4>5. /\ Waiting \in Seq(Packet) /\ Len(Waiting) = Len(pending)
              /\ \A i \in 1 .. Len(pending) : Waiting[i] = stored[pending[i]]
          BY <4>1, IInvContext, WaitingPackets
        <4>6. Append(Waiting, p) = [i \in 1 .. Len(pending) + 1 |->
                                     IF i = Len(pending) + 1 THEN p ELSE Waiting[i]]
          BY <1>3, <4>5, AppendIndexed
        <4>7. \A i \in 1 .. Len(pending) + 1 :
                stored'[pending'[i]] = IF i = Len(pending) + 1 THEN p ELSE Waiting[i]
          BY <4>1, <4>3, <4>5
        <4>8. QED BY <4>4, <4>6, <4>7
      <3>3. Agrees(known, tx', Append(Waiting, p))
        BY <1>1, <1>3, <2>1, IInvContext, WaitingPackets, AgreesAppend DEF BrokerAgrees
      <3>4. Agrees(known', tx', Waiting')
        BY <3>1, <3>2, <3>3
      <3>5. QED BY <2>1, <3>1, <3>4, AgreesNext
    <2>3. CASE ~(inflight >= ReceiveMax)
      <3>1. BrokerReads(known, <<Built(topic)>>) /\ pending' = pending
        BY <2>3 DEF PublishQoS1
      <3>2. pending = <<>>
        BY <1>4, <2>3 DEF IInv, TypeOK, TopicAliasAssumption
      <3>3. /\ Agrees(known', tx', <<>>)
            /\ misrouted' = misrouted /\ unresolved' = unresolved
        BY <1>3, <2>1, <3>1, <3>2, IInvContext, SentAtOnce
      <3>4. Waiting' = <<>>
        BY <3>1, <3>2 DEF Waiting
      <3>5. QED BY <2>1, <3>3, <3>4, AgreesNext
    <2>4. QED BY <2>2, <2>3
  <1>10. QED BY <1>4, <1>7, <1>8, <1>9 DEF IInv, AliasTables, RightTopic

LEMMA PublishTooBigTables ==
  ASSUME TopicAliasAssumption, IInv, NEW topic \in Topic, PublishTooBig(topic)
  PROVE  IInv'
  <1>1. /\ Publishing(topic) /\ overtaken' = TRUE
        /\ UNCHANGED <<known, unresolved, misrouted, stored, pending, inflight>>
    BY DEF PublishTooBig, NothingRead
  <1>2. /\ tx' \in Seq(Topic) /\ published' \in 0 .. MaxPublish /\ published' = published + 1
        /\ running /\ running' /\ published < MaxPublish /\ AssignAlias(topic)
        /\ aliasMax' = aliasMax /\ rx' = rx /\ announced' = announced
        /\ UNCHANGED <<discarded, misdirected, sent, incoming, rearranged>>
    BY <1>1, PublishingType
  <1>3. TypeOK'
    BY <1>1, <1>2 DEF IInv, TypeOK
  <1>4. FlowAgrees'
    BY <1>1, <1>2, SameFlow DEF IInv, AliasTables
  <1>5. StoredTopic'
    BY <1>1, <1>2, IInvContext, PublishedKept
  <1>6. QED BY <1>1, <1>3, <1>4, <1>5 DEF IInv, AliasTables, RightTopic

LEMMA AcknowledgedTables ==
  ASSUME TopicAliasAssumption, IInv, NEW m \in Message, Acknowledged(m)
  PROVE  IInv'
  <1>1. /\ UNCHANGED <<running, aliasMax, tx, rx, published, announced, sent, incoming,
                       discarded, overtaken, rearranged, misdirected>>
        /\ running /\ PublishEnd
    BY DEF Acknowledged
  <1>2. /\ FlowAgrees' /\ pending' \in Seq(Message) /\ inflight' \in 0 .. ReceiveMax
        /\ pending' = (IF pending = <<>> THEN <<>> ELSE Tail(pending))
        /\ DOMAIN stored' = DOMAIN stored \ {m}
        /\ \A i \in DOMAIN stored' : stored'[i] = stored[i]
    BY AcknowledgedFlow DEF IInv, AliasTables
  <1>3. /\ Waiting \in Seq(Packet) /\ (Waiting = <<>> <=> pending = <<>>)
        /\ pending \in Seq(Message) /\ DOMAIN pending = 1 .. Len(pending) /\ Len(pending) \in Nat
        /\ DOMAIN Waiting = DOMAIN pending /\ Len(Waiting) = Len(pending)
        /\ \A i \in DOMAIN pending : Waiting[i] = stored[pending[i]]
        /\ \A i \in DOMAIN Waiting : TopicKept(Waiting[i])
    BY IInvContext, WaitingPackets DEF IInv, TypeOK
  <1>4. ASSUME pending # <<>>
        PROVE  /\ BrokerReads(known, <<Head(Waiting)>>) /\ <<Head(Waiting)>> \in Seq(Packet)
               /\ Waiting' = Tail(Waiting)
    <2>1. 1 \in DOMAIN pending /\ Head(pending) = pending[1] /\ Head(Waiting) = Waiting[1]
      BY <1>3, <1>4
    <2>2. stored[Head(pending)] = Head(Waiting)
      BY <1>3, <2>1
    <2>3. BrokerReads(known, <<stored[Head(pending)]>>)
      BY <1>1, <1>4 DEF PublishEnd, RunFlow
    <2>4. Head(Waiting) \in Packet /\ <<Head(Waiting)>> \in Seq(Packet)
      BY <1>3, <1>4
    <2>5. \A i \in 1 .. Len(pending) : pending[i] \in DOMAIN stored'
      <3>1. \A i \in DOMAIN pending : pending[i] \in Range(pending)
        BY DEF Range
      <3>2. m \notin Range(pending) /\ Range(pending) \subseteq DOMAIN stored
        BY DEF Acknowledged, IInv, AliasTables, FlowAgrees
      <3>3. QED BY <1>2, <1>3, <3>1, <3>2
    <2>6. /\ DOMAIN pending' = 1 .. Len(pending) - 1
          /\ \A i \in 1 .. Len(pending) - 1 : pending'[i] = pending[i + 1] /\ i + 1 \in 1 .. Len(pending)
      BY <1>2, <1>3, <1>4
    <2>7. ASSUME NEW i \in 1 .. Len(pending) - 1
          PROVE  stored'[pending'[i]] = Waiting[i + 1]
      <3>1. pending'[i] = pending[i + 1] /\ i + 1 \in DOMAIN pending
        BY <1>3, <2>6
      <3>2. stored'[pending[i + 1]] = stored[pending[i + 1]]
        BY <1>2, <1>3, <2>5, <3>1
      <3>3. QED BY <1>3, <3>1, <3>2
    <2>8. Waiting' = [i \in 1 .. Len(pending) - 1 |-> stored'[pending'[i]]]
      BY <2>6 DEF Waiting
    <2>9. Tail(Waiting) = [i \in 1 .. Len(pending) - 1 |-> Waiting[i + 1]]
      <3>1. Waiting \in Seq(Packet) /\ Waiting # <<>> /\ Len(Waiting) = Len(pending)
        BY <1>3, <1>4
      <3>2. QED BY <3>1, TailIndexed
    <2>10. QED BY <2>2, <2>3, <2>4, <2>7, <2>8, <2>9
  <1>5. Table(known') /\ misrouted' \cup unresolved' \subseteq Message
    <2>1. CASE pending = <<>>
      BY <1>1, <2>1, IInvContext DEF PublishEnd, NothingRead
    <2>2. CASE pending # <<>>
      BY <1>4, <2>2, IInvContext, ReadType
    <2>3. QED BY <2>1, <2>2
  <1>6. TypeOK'
    <2>1. DOMAIN stored' \subseteq Message /\ \A i \in DOMAIN stored' : stored'[i] \in Packet
      BY <1>2 DEF IInv, TypeOK
    <2>2. QED BY <1>1, <1>2, <1>5, <2>1 DEF IInv, TypeOK, Table
  <1>7. StoredTopic'
    <2>1. ASSUME NEW i \in DOMAIN stored' PROVE TopicKept(stored[i])'
      BY <1>1, <1>2 DEF IInv, AliasTables, StoredTopic, TopicKept
    <2>2. QED BY <1>1, <2>1 DEF IInv, AliasTables, StoredTopic
  <1>8. ASSUME ~overtaken' PROVE BrokerAgrees' /\ misrouted' = {} /\ unresolved' = {}
    <2>1. Agrees(known, tx, Waiting) /\ misrouted = {} /\ unresolved = {}
      BY <1>1, <1>8, IInvContext DEF BrokerAgrees, RightTopic
    <2>2. CASE pending = <<>>
      <3>1. pending' = <<>> /\ UNCHANGED <<known, unresolved, misrouted>>
        BY <1>1, <1>2, <2>2 DEF PublishEnd, NothingRead
      <3>2. Waiting' = <<>> /\ Waiting = <<>>
        BY <2>2, <3>1 DEF Waiting
      <3>3. Agrees(known', tx', Waiting')
        BY <1>1, <2>1, <3>1, <3>2
      <3>4. QED BY <2>1, <3>1, <3>3, AgreesNext
    <2>3. CASE pending # <<>>
      <3>1. \A i \in DOMAIN Waiting : Waiting[i].name = NoTopic => Waiting[i].alias \in Aliases
        BY <1>3, IInvContext, TxFits DEF TopicKept
      <3>2. DOMAIN tx \subseteq Aliases
        BY IInvContext, TxFits
      <3>3. /\ Agrees(TableAfter(known, <<Head(Waiting)>>), tx, Tail(Waiting))
            /\ \A i \in DOMAIN <<Head(Waiting)>> :
                 Resolved(known, <<Head(Waiting)>>, i) = <<Head(Waiting)>>[i].topic
        BY <1>3, <2>1, <2>3, <3>1, <3>2, AgreesTail
      <3>4. known' = TableAfter(known, <<Head(Waiting)>>)
        BY <1>4, <2>3 DEF BrokerReads, TableAfter
      <3>5. Agrees(known', tx', Waiting')
        BY <1>1, <1>4, <2>3, <3>3, <3>4
      <3>6. misrouted' = misrouted /\ unresolved' = unresolved
        BY <1>4, <2>3, <3>3, ReadRight
      <3>7. QED BY <2>1, <3>5, <3>6, AgreesNext
    <2>4. QED BY <2>2, <2>3
  <1>9. QED BY <1>2, <1>6, <1>7, <1>8 DEF IInv, AliasTables, RightTopic

LEMMA ReceivedType ==
  ASSUME NEW q \in Seq(Incoming), Received(q)
  PROVE  incoming' \in Seq(Incoming)
  BY DEF Received

(* Neither the end of a connection nor a message from the broker touches what
   AliasTables is about. *)
LEMMA OverTables ==
  ASSUME TopicAliasAssumption, IInv, Lost \/ ReceiveRejected
  PROVE  IInv'
  <1>1. /\ running' = FALSE /\ pending' = <<>> /\ inflight' = 0
        /\ UNCHANGED <<aliasMax, tx, rx, stored, published, announced, sent, discarded, overtaken,
                       rearranged, known, unresolved, misrouted>>
    BY DEF Lost, ReceiveRejected, Disconnected, NothingRead
  <1>2. pending' \in Seq(Message) /\ inflight' \in 0 .. ReceiveMax
        /\ IsInjective(pending') /\ Range(pending') = {}
    BY <1>1 DEF IsInjective, Range, TopicAliasAssumption
  <1>3. misdirected' \in BOOLEAN /\ incoming' \in Seq(Incoming)
    <2>1. misdirected \in BOOLEAN /\ incoming \in Seq(Incoming)
      BY DEF IInv, TypeOK
    <2>2. CASE Lost
      BY <2>1, <2>2, ReceivedType DEF Lost
    <2>3. CASE ReceiveRejected
      <3>1. Tail(incoming) \in Seq(Incoming)
        BY <2>1, <2>3 DEF ReceiveRejected
      <3>2. QED BY <2>1, <2>3, <3>1, ReceivedType DEF ReceiveRejected
    <2>4. QED BY <2>2, <2>3
  <1>4. TypeOK'
    BY <1>1, <1>2, <1>3 DEF IInv, TypeOK
  <1>5. FlowAgrees'
    BY <1>1, <1>2 DEF IInv, AliasTables, FlowAgrees
  <1>6. StoredTopic'
    BY <1>1 DEF IInv, AliasTables, StoredTopic, TopicKept
  <1>7. BrokerAgrees'
    BY <1>1 DEF BrokerAgrees
  <1>8. RightTopic'
    BY <1>1 DEF IInv, AliasTables, RightTopic
  <1>9. QED BY <1>4, <1>5, <1>6, <1>7, <1>8 DEF IInv, AliasTables

LEMMA NothingKnown == Table(EmptyMap) /\ IsInjective(<<>>) /\ Range(<<>>) = {}
  BY EmptyMapType DEF Table, IsInjective, Range

(* With every topic in place, the broker needs no alias. *)
LEMMA NamedAgrees ==
  ASSUME NEW q, NEW table, \A i \in DOMAIN q : q[i].name # NoTopic /\ q[i].name = q[i].topic
  PROVE  Agrees(table, <<>>, q)
  BY DEF Agrees, Resolved

LEMMA ConnackNewSessionTables ==
  ASSUME TopicAliasAssumption, IInv, ConnackNewSession
  PROVE  IInv'
  <1>1. /\ ~running /\ running' = TRUE /\ aliasMax' \in AliasMaxima /\ tx' = <<>>
        /\ rx' = EmptyMap /\ announced' = EmptyMap /\ stored' = EmptyMap
        /\ UNCHANGED <<published, sent, incoming, overtaken, misdirected, pending, inflight, discarded>>
        /\ rearranged' = (rearranged \/ incoming # <<>>)
        /\ BrokerReads(EmptyMap, <<>>)
    BY DEF ConnackNewSession, Connack
  <1>2. pending' = <<>> /\ inflight' = 0
    BY <1>1 DEF IInv, AliasTables, FlowAgrees
  <1>3. Table(known') /\ misrouted' \cup unresolved' \subseteq Message
    <2>1. <<>> \in Seq(Packet)
      OBVIOUS
    <2>2. QED BY <1>1, <2>1, NothingKnown, IInvContext, ReadType
  <1>4. misrouted' = misrouted /\ unresolved' = unresolved
    BY <1>1 DEF BrokerReads
  <1>5. TypeOK'
    <2>1. /\ tx' \in Seq(Topic) /\ pending' \in Seq(Message) /\ inflight' \in 0 .. ReceiveMax
      BY <1>1, <1>2 DEF TopicAliasAssumption
    <2>2. QED BY <1>1, <1>3, <2>1, NothingKnown, EmptyMapType DEF IInv, TypeOK, Table
  <1>6. FlowAgrees'
    <2>1. DOMAIN stored' \ Range(pending') = {}
      BY <1>1, EmptyMapType
    <2>2. QED BY <1>1, <1>2, <2>1, NothingKnown, EmptyMapType, FS_EmptySet DEF FlowAgrees
  <1>7. StoredTopic'
    BY <1>1, NothingKnown, EmptyMapType DEF StoredTopic
  <1>8. BrokerAgrees'
    <2>1. Waiting' = <<>>
      BY <1>2 DEF Waiting
    <2>2. QED BY <1>1, <2>1, NamedAgrees, AgreesNext
  <1>9. RightTopic'
    BY <1>1, <1>4 DEF IInv, AliasTables, RightTopic
  <1>10. QED BY <1>5, <1>6, <1>7, <1>8, <1>9 DEF IInv, AliasTables

(* A packet that is kept has its topic again, and a retry less if it lacked it. *)
LEMMA ResentNamed ==
  ASSUME TopicAliasAssumption, Context, NEW m \in DOMAIN stored,
         stored[m].retries > 1, Insertable(stored[m]),
         NEW p, p = Resent(stored[m])
  PROVE  /\ p \in Packet /\ p.name = p.topic /\ p.name # NoTopic
         /\ p.bare => p.retries < MaxRetries
  <1>1. PICK o : o = stored[m]
    OBVIOUS
  <1>2. o \in Packet /\ TopicKept(o) /\ o.retries > 1 /\ MaxRetries = 2 /\ NoTopic \notin Topic
        /\ o.retries \in 0 .. 2
    BY <1>1 DEF Context, TypeOK, StoredTopic, TopicAliasAssumption, Packet
  <1>3. CASE o.name = NoTopic
    <2>1. /\ o.bare /\ o.retries = 2 /\ o.alias \in DOMAIN tx /\ tx[o.alias] = o.topic
      BY <1>2, <1>3 DEF TopicKept
    <2>2. p = [o EXCEPT !.name = o.topic, !.retries = 1]
      BY <1>1, <2>1 DEF Resent
    <2>3. p = [msg |-> o.msg, topic |-> o.topic, name |-> o.topic, alias |-> o.alias,
               bare |-> o.bare, retries |-> 1]
      BY <1>2, <2>2 DEF Packet
    <2>4. /\ o.msg \in Message /\ o.topic \in Topic /\ o.alias \in Nat /\ o.bare \in BOOLEAN
          /\ 1 \in 0 .. MaxRetries /\ 1 < MaxRetries
      BY <1>2 DEF Packet
    <2>5. QED BY <1>2, <2>3, <2>4 DEF Packet
  <1>4. CASE o.name # NoTopic
    <2>1. o.name = o.topic /\ ~o.bare
      BY <1>2, <1>4 DEF TopicKept
    <2>2. p = o
      BY <1>1, <2>1 DEF Resent
    <2>3. QED BY <1>2, <1>4, <2>1, <2>2
  <1>5. QED BY <1>3, <1>4

BrokerSent ==
  \/ \E topic \in Topic, k \in 0 .. RxAliasMax : BrokerSendsNamed(topic, k)
  \/ \E k \in DOMAIN announced : BrokerSendsBare(k)

LEMMA SentType ==
  ASSUME TopicAliasAssumption, IInv, BrokerSent
  PROVE  /\ sent' \in 0 .. MaxPublish /\ incoming' \in Seq(Incoming) /\ Table(announced')
         /\ UNCHANGED <<rx, rearranged, misdirected>>
  <1>1. /\ published \in 0 .. MaxPublish /\ sent \in 0 .. MaxPublish /\ incoming \in Seq(Incoming)
        /\ Table(announced)
    BY IInvContext DEF IInv, TypeOK
  <1>2. ASSUME NEW m \in Incoming, BrokerSends(m)
        PROVE  /\ sent' \in 0 .. MaxPublish /\ incoming' \in Seq(Incoming)
               /\ UNCHANGED <<rx, rearranged, misdirected>>
    <2>1. sent' \in 0 .. MaxPublish
      BY <1>1, <1>2 DEF BrokerSends, TopicAliasAssumption
    <2>2. incoming' \in Seq(Incoming)
      BY <1>1, <1>2 DEF BrokerSends
    <2>3. QED BY <1>2, <2>1, <2>2 DEF BrokerSends
  <1>3. ASSUME NEW topic \in Topic, NEW k \in 0 .. RxAliasMax, BrokerSendsNamed(topic, k)
        PROVE  /\ sent' \in 0 .. MaxPublish /\ incoming' \in Seq(Incoming) /\ Table(announced')
               /\ UNCHANGED <<rx, rearranged, misdirected>>
    <2>1. k \in Nat
      BY DEF TopicAliasAssumption
    <2>2. [topic |-> topic, name |-> topic, alias |-> k] \in Incoming
      BY <2>1 DEF Incoming
    <2>3. announced' = Put(announced, k, topic) \/ announced' = announced
      BY <1>3 DEF BrokerSendsNamed
    <2>4. Table(announced')
      BY <1>1, <2>1, <2>3, PutType DEF Table
    <2>5. QED BY <1>2, <1>3, <2>2, <2>4 DEF BrokerSendsNamed
  <1>4. ASSUME NEW k \in DOMAIN announced, BrokerSendsBare(k)
        PROVE  /\ sent' \in 0 .. MaxPublish /\ incoming' \in Seq(Incoming) /\ Table(announced')
               /\ UNCHANGED <<rx, rearranged, misdirected>>
    <2>1. [topic |-> announced[k], name |-> NoTopic, alias |-> k] \in Incoming
      BY <1>1 DEF Incoming, Table
    <2>2. QED BY <1>1, <1>2, <1>4, <2>1 DEF BrokerSendsBare
  <1>5. QED BY <1>3, <1>4 DEF BrokerSent

LEMMA OvertakenType ==
  ASSUME IInv, Overtaken
  PROVE  incoming' \in Seq(Incoming) /\ rearranged' = TRUE /\ UNCHANGED <<sent, rx, announced, misdirected>>
  <1>1. PICK i \in 1 .. Len(incoming) - 1 :
          incoming' = [incoming EXCEPT ![i] = incoming[i + 1], ![i + 1] = incoming[i]]
    BY DEF Overtaken
  <1>2. incoming \in Seq(Incoming)
    BY DEF IInv, TypeOK
  <1>3. incoming[i] \in Incoming /\ incoming[i + 1] \in Incoming
    BY <1>2
  <1>4. incoming' \in Seq(Incoming)
    BY <1>1, <1>2, <1>3
  <1>5. QED BY <1>4 DEF Overtaken

LEMMA DispatchedType ==
  ASSUME IInv, ReceiveNamed \/ ReceiveBare
  PROVE  /\ incoming' \in Seq(Incoming) /\ Table(rx') /\ misdirected' \in BOOLEAN
         /\ UNCHANGED <<sent, announced, rearranged>>
  <1>1. incoming # <<>> /\ incoming' = Tail(incoming) /\ UNCHANGED <<sent, announced, rearranged>>
    BY DEF ReceiveNamed, ReceiveBare, Dispatched
  <1>2. incoming \in Seq(Incoming) /\ Table(rx) /\ misdirected \in BOOLEAN
    BY IInvContext DEF IInv, TypeOK
  <1>3. Head(incoming) \in Incoming /\ incoming' \in Seq(Incoming)
    BY <1>1, <1>2
  <1>4. Table(rx') /\ misdirected' \in BOOLEAN
    <2>1. CASE ReceiveNamed
      <3>1. /\ Head(incoming).alias \in Nat
            /\ Head(incoming).name # NoTopic => Head(incoming).name \in Topic
        BY <1>3 DEF Incoming
      <3>2. /\ Head(incoming).name # NoTopic /\ misdirected' = misdirected
            /\ rx' = rx \/ rx' = Put(rx, Head(incoming).alias, Head(incoming).name)
        BY <2>1 DEF ReceiveNamed, RegisterAlias
      <3>3. QED BY <1>2, <3>1, <3>2, PutType DEF Table
    <2>2. CASE ReceiveBare
      BY <1>2, <2>2 DEF ReceiveBare
    <2>3. QED BY <2>1, <2>2
  <1>5. QED BY <1>1, <1>3, <1>4

LEMMA ReceiveTables ==
  ASSUME TopicAliasAssumption, IInv,
         BrokerSent \/ Overtaken \/ ReceiveNamed \/ ReceiveBare
  PROVE  IInv'
  <1>1. UNCHANGED <<running, aliasMax, tx, stored, pending, inflight, published,
                    discarded, overtaken, known, unresolved, misrouted>>
    BY DEF BrokerSent, BrokerSendsNamed, BrokerSendsBare, BrokerSends, Overtaken, ReceiveNamed,
           ReceiveBare, Dispatched, NothingRead
  <1>2. /\ Table(rx') /\ Table(announced') /\ {rearranged', misdirected'} \subseteq BOOLEAN
        /\ sent' \in 0 .. MaxPublish /\ incoming' \in Seq(Incoming)
    <2>1. /\ Table(rx) /\ Table(announced) /\ {rearranged, misdirected} \subseteq BOOLEAN
          /\ sent \in 0 .. MaxPublish
      BY IInvContext DEF IInv, TypeOK
    <2>2. CASE BrokerSent
      BY <2>1, <2>2, SentType
    <2>3. CASE Overtaken
      BY <2>1, <2>3, OvertakenType
    <2>4. CASE ReceiveNamed \/ ReceiveBare
      BY <2>1, <2>4, DispatchedType
    <2>5. QED BY <2>2, <2>3, <2>4
  <1>3. TypeOK'
    BY <1>1, <1>2 DEF IInv, TypeOK, Table
  <1>4. FlowAgrees'
    BY <1>1, SameFlow DEF IInv, AliasTables
  <1>5. StoredTopic'
    BY <1>1 DEF IInv, AliasTables, StoredTopic, TopicKept
  <1>6. ~overtaken' => BrokerAgrees'
    <2>1. Waiting' = Waiting
      BY <1>1 DEF Waiting
    <2>2. ~overtaken /\ running => Agrees(known, tx, Waiting)
      BY IInvContext DEF BrokerAgrees
    <2>3. CASE running
      <3>1. ~overtaken' => Agrees(known', tx', Waiting')
        BY <1>1, <2>1, <2>2, <2>3
      <3>2. QED BY <3>1, AgreesNext
    <2>4. CASE ~running
      BY <1>1, <2>4 DEF BrokerAgrees
    <2>5. QED BY <2>3, <2>4
  <1>7. RightTopic'
    BY <1>1 DEF IInv, AliasTables, RightTopic
  <1>8. QED BY <1>3, <1>4, <1>5, <1>6, <1>7 DEF IInv, AliasTables

(* What _resendPartialTxns sends and what it holds back. *)
LEMMA ResendTables ==
  ASSUME TopicAliasAssumption, IInv, ConnackResend
  PROVE  IInv'
  <1>1. PICK kept : kept = {m \in DOMAIN stored : stored[m].retries > 1 /\ Insertable(stored[m])}
    OBVIOUS
  <1>2. PICK fit : fit = IF Cardinality(kept) < ReceiveMax THEN Cardinality(kept) ELSE ReceiveMax
    OBVIOUS
  <1>3. /\ ~running /\ running' = TRUE /\ aliasMax' \in AliasMaxima /\ tx' = <<>>
        /\ rx' = EmptyMap /\ announced' = EmptyMap
        /\ UNCHANGED <<published, sent, incoming, overtaken, misdirected>>
        /\ rearranged' = (rearranged \/ incoming # <<>>)
        /\ stored' = [m \in kept |-> Resent(stored[m])]
        /\ discarded' = discarded \cup (DOMAIN stored \ kept)
        /\ inflight' = fit
    BY <1>1, <1>2 DEF ConnackResend, Connack
  <1>4. PICK order \in Ascending(kept) :
          /\ BrokerReads(EmptyMap, [i \in 1 .. fit |-> Resent(stored[order[i]])])
          /\ pending' = SubSeq(order, fit + 1, Len(order))
    BY <1>1, <1>2 DEF ConnackResend
  <1>5. /\ kept \subseteq DOMAIN stored /\ kept \subseteq Message /\ IsFiniteSet(kept)
        /\ kept \subseteq Nat /\ Cardinality(kept) \in Nat
    BY <1>1, FlightFinite, FS_Subset, FS_CardinalityType DEF IInv, TypeOK, Message
  <1>6. /\ order \in Seq(kept) /\ Len(order) = Cardinality(kept) /\ DOMAIN order = 1 .. Len(order)
        /\ IsInjective(order) /\ Range(order) = kept
        /\ \A k \in 0 .. Len(order) : Cardinality({order[i] : i \in 1 .. k}) = k
    BY <1>5, AscendingType, AscendingOnce, AscendingAll
  <1>7. /\ fit \in 0 .. Len(order) /\ fit \in 0 .. ReceiveMax
        /\ fit < Len(order) => fit = ReceiveMax
    BY <1>2, <1>5, <1>6 DEF TopicAliasAssumption
  <1>8. \A m \in kept : /\ stored'[m] \in Packet /\ stored'[m].name = stored'[m].topic
                        /\ stored'[m].name # NoTopic
                        /\ stored'[m].bare => stored'[m].retries < MaxRetries
    BY <1>1, <1>3, IInvContext, ResentNamed
  <1>9. PICK q : q = [i \in 1 .. fit |-> Resent(stored[order[i]])]
    OBVIOUS
  <1>10. /\ q \in Seq(Packet) /\ DOMAIN q = 1 .. fit
         /\ \A i \in DOMAIN q : q[i].name = q[i].topic /\ q[i].name # NoTopic
    <2>1. \A i \in 1 .. fit : order[i] \in kept
      BY <1>6, <1>7
    <2>2. \A i \in 1 .. fit : q[i] = stored'[order[i]]
      BY <1>3, <1>9, <2>1
    <2>3. fit \in Nat /\ q = [i \in 1 .. fit |-> q[i]] /\ \A i \in 1 .. fit : q[i] \in Packet
      BY <1>7, <1>8, <1>9, <2>1, <2>2
    <2>4. q \in Seq(Packet) /\ DOMAIN q = 1 .. fit
      BY <2>3
    <2>5. QED BY <1>8, <2>1, <2>2, <2>4
  <1>11. BrokerReads(EmptyMap, q)
    BY <1>4, <1>9
  <1>12. Table(known') /\ misrouted' \cup unresolved' \subseteq Message
    BY <1>10, <1>11, NothingKnown, IInvContext, ReadType
  <1>13. misrouted' = misrouted /\ unresolved' = unresolved
    BY <1>10, <1>11, NamedAgrees, ReadRight DEF Agrees
  <1>14. /\ pending' \in Seq(kept) /\ IsInjective(pending') /\ Range(pending') \subseteq kept
         /\ kept \ Range(pending') = {order[i] : i \in 1 .. fit}
         /\ pending' # <<>> => fit = ReceiveMax
    <2>1. PICK r : r = SubSeq(order, fit + 1, Len(order))
      OBVIOUS
    <2>2. /\ r \in Seq(kept) /\ IsInjective(r)
          /\ Range(r) \subseteq Range(order) \ {order[i] : i \in 1 .. fit}
      BY <1>6, <1>7, <2>1, RestOfSequence
    <2>3. /\ \A i \in DOMAIN order : i > fit => i - fit \in DOMAIN r /\ r[i - fit] = order[i]
          /\ Len(order) = fit => r = <<>>
      <3>1. order \in Seq(kept) /\ fit \in 0 .. Len(order)
        BY <1>6, <1>7
      <3>2. QED BY <2>1, <3>1, RestIndexed
    <2>4. ASSUME NEW m \in kept, m \notin Range(r) PROVE m \in {order[i] : i \in 1 .. fit}
      <3>1. PICK i \in DOMAIN order : order[i] = m
        BY <1>6 DEF Range
      <3>2. ~(i > fit)
        BY <2>3, <2>4, <3>1 DEF Range
      <3>3. i \in 1 .. fit
        BY <1>6, <1>7, <3>1, <3>2
      <3>4. QED BY <3>1, <3>3
    <2>5. \A i \in 1 .. fit : order[i] \in kept
      BY <1>6, <1>7
    <2>6. kept \ Range(r) = {order[i] : i \in 1 .. fit}
      BY <2>2, <2>4, <2>5
    <2>7. r # <<>> => fit = ReceiveMax
      BY <1>6, <1>7, <2>3
    <2>8. QED BY <1>4, <1>6, <2>1, <2>2, <2>6, <2>7
  <1>15. TypeOK'
    <2>1. pending' \in Seq(Message) /\ tx' \in Seq(Topic) /\ inflight' \in 0 .. ReceiveMax
      BY <1>3, <1>5, <1>7, <1>14
    <2>2. DOMAIN stored' \subseteq Message /\ \A m \in DOMAIN stored' : stored'[m] \in Packet
      BY <1>3, <1>5, <1>8
    <2>3. discarded' \subseteq Message
      BY <1>3 DEF IInv, TypeOK
    <2>4. QED BY <1>3, <1>12, <2>1, <2>2, <2>3, NothingKnown DEF IInv, TypeOK, Table
  <1>16. FlowAgrees'
    <2>1. DOMAIN stored' = kept
      BY <1>3
    <2>2. Cardinality({order[i] : i \in 1 .. fit}) = fit
      BY <1>6, <1>7
    <2>3. inflight' = Cardinality(DOMAIN stored' \ Range(pending'))
      BY <1>3, <1>14, <2>1, <2>2
    <2>4. \A m \in DOMAIN stored' : m <= published'
      BY <1>3, <1>5, <2>1 DEF IInv, AliasTables, FlowAgrees
    <2>5. QED BY <1>3, <1>14, <2>1, <2>3, <2>4 DEF FlowAgrees
  <1>17. StoredTopic'
    <2>1. ASSUME NEW m \in DOMAIN stored' PROVE TopicKept(stored[m])'
      BY <1>3, <1>8 DEF TopicKept
    <2>2. QED BY <1>3, <2>1, NothingKnown DEF StoredTopic
  <1>18. BrokerAgrees'
    <2>1. ASSUME NEW i \in DOMAIN Waiting'
          PROVE  Waiting'[i].name # NoTopic /\ Waiting'[i].name = Waiting'[i].topic
      <3>1. i \in DOMAIN pending' /\ Waiting'[i] = stored'[pending'[i]]
        BY DEF Waiting
      <3>2. pending'[i] \in kept
        BY <1>14, <3>1 DEF Range
      <3>3. QED BY <1>8, <3>1, <3>2
    <2>2. PICK w : w = Waiting'
      OBVIOUS
    <2>3. Agrees(known', <<>>, w)
      BY <2>1, <2>2, NamedAgrees
    <2>4. QED BY <1>3, <2>2, <2>3, AgreesNext
  <1>19. RightTopic'
    BY <1>3, <1>13 DEF IInv, AliasTables, RightTopic
  <1>20. QED BY <1>15, <1>16, <1>17, <1>18, <1>19 DEF IInv, AliasTables

-----------------------------------------------------------------------------
(* The invariant and what it gives. *)

LEMMA InitIInv == TopicAliasAssumption /\ Init => IInv
  <1> SUFFICES ASSUME TopicAliasAssumption, Init PROVE IInv
    OBVIOUS
  <1>1. TypeOK
    <2>1. <<>> \in Seq(Topic) /\ <<>> \in Seq(Message)
      OBVIOUS
    <2>2. <<>> \in Seq(Incoming) /\ DOMAIN stored = {} /\ Table(rx) /\ Table(known) /\ Table(announced)
      BY NothingKnown, EmptyMapType DEF Init
    <2>3. 0 \in 0 .. ReceiveMax /\ 0 \in 0 .. MaxPublish
      BY DEF TopicAliasAssumption
    <2>4. QED BY <2>1, <2>2, <2>3 DEF Init, TypeOK, Table
  <1>2. FlowAgrees /\ StoredTopic
    BY NothingKnown, EmptyMapType DEF Init, FlowAgrees, StoredTopic
  <1>3. BrokerAgrees /\ RightTopic
    BY DEF Init, BrokerAgrees, RightTopic
  <1>4. QED BY <1>1, <1>2, <1>3 DEF IInv, AliasTables

LEMMA UnchangedIInv == IInv /\ UNCHANGED vars => IInv'
  <1> SUFFICES ASSUME IInv, UNCHANGED vars PROVE IInv'
    OBVIOUS
  <1> USE DEF vars
  <1>1. TypeOK'
    BY DEF IInv, TypeOK
  <1>2. FlowAgrees'
    BY DEF IInv, AliasTables, FlowAgrees
  <1>3. StoredTopic'
    BY DEF IInv, AliasTables, StoredTopic, TopicKept
  <1>4. ~overtaken' => BrokerAgrees'
    <2>1. Waiting' = Waiting
      BY DEF Waiting
    <2>2. ~overtaken /\ running => Agrees(known, tx, Waiting)
      BY DEF IInv, AliasTables, BrokerAgrees
    <2>3. CASE running
      <3>1. ~overtaken' => Agrees(known', tx', Waiting')
        BY <2>1, <2>2, <2>3
      <3>2. QED BY <3>1, AgreesNext
    <2>4. CASE ~running
      BY <2>4 DEF BrokerAgrees
    <2>5. QED BY <2>3, <2>4
  <1>5. RightTopic'
    BY DEF IInv, AliasTables, RightTopic
  <1>6. QED BY <1>1, <1>2, <1>3, <1>4, <1>5 DEF IInv, AliasTables

LEMMA NextIInv == TopicAliasAssumption /\ IInv /\ [Next]_vars => IInv'
  <1> SUFFICES ASSUME TopicAliasAssumption, IInv, [Next]_vars PROVE IInv'
    OBVIOUS
  <1>1. ASSUME NEW topic \in Topic, PublishQoS0(topic) PROVE IInv'
    BY <1>1, PublishQoS0Tables
  <1>2. ASSUME NEW topic \in Topic, PublishQoS1(topic) PROVE IInv'
    BY <1>2, PublishQoS1Tables
  <1>3. ASSUME NEW topic \in Topic, PublishTooBig(topic) PROVE IInv'
    BY <1>3, PublishTooBigTables
  <1>4. ASSUME NEW m \in Message, Acknowledged(m) PROVE IInv'
    BY <1>4, AcknowledgedTables
  <1>5. CASE Lost \/ ReceiveRejected
    BY <1>5, OverTables
  <1>6. CASE ConnackNewSession
    BY <1>6, ConnackNewSessionTables
  <1>7. CASE ConnackResend
    BY <1>7, ResendTables
  <1>8. CASE BrokerSent \/ Overtaken \/ ReceiveNamed \/ ReceiveBare
    BY <1>8, ReceiveTables
  <1>9. CASE UNCHANGED vars
    BY <1>9, UnchangedIInv
  <1>10. QED BY <1>1, <1>2, <1>3, <1>4, <1>5, <1>6, <1>7, <1>8, <1>9
      DEF Next, BrokerSent

LEMMA Invariant == Spec => []IInv
  <1>1. Init => IInv
    BY InitIInv, TopicAliasAssumption
  <1>2. IInv /\ [Next]_vars => IInv'
    BY NextIInv, TopicAliasAssumption
  <1>3. QED BY <1>1, <1>2, PTL DEF Spec

(* The state keeps its types; above all, _inflight never counts below zero. *)
THEOREM TypeCorrect == Spec => []TypeOK
  <1>1. IInv => TypeOK
    BY DEF IInv
  <1>2. QED BY <1>1, Invariant, PTL

(* The client's table, its stored packets and the broker's table agree. *)
THEOREM TablesAgree == Spec => []AliasTables
  <1>1. IInv => AliasTables
    BY DEF IInv
  <1>2. QED BY <1>1, Invariant, PTL

(* As long as packets are sent in the order they are built, the broker takes
   each message for its topic: however many are held back, acknowledged, resent
   with their topic put back, or discarded on the way. *)
THEOREM TopicAlwaysRight == Spec => []RightTopic
  <1>1. IInv => RightTopic
    BY DEF IInv, AliasTables
  <1>2. QED BY <1>1, Invariant, PTL

(* A reconnection discards no packet whose topic was left out: the table still
   has it (_insertTopicAlias never fails).  What is discarded has used its
   retries. *)
THEOREM TopicAlwaysRecovered == Spec => TopicRecovered
  <1>1. ASSUME TopicAliasAssumption, IInv, [Next]_vars
        PROVE  [\A m \in discarded' \ discarded : stored[m].name # NoTopic]_vars
    <2>1. CASE ConnackResend
      <3>1. ASSUME NEW m \in discarded' \ discarded PROVE stored[m].name # NoTopic
        <4>1. /\ m \in DOMAIN stored
              /\ ~(stored[m].retries > 1 /\ Insertable(stored[m]))
          BY <2>1 DEF ConnackResend
        <4>2. TopicKept(stored[m])
          BY <1>1, <4>1 DEF IInv, AliasTables, StoredTopic
        <4>3. MaxRetries = 2
          BY <1>1 DEF TopicAliasAssumption
        <4>4. SUFFICES ASSUME stored[m].name = NoTopic PROVE FALSE
          OBVIOUS
        <4>5. stored[m].retries = 2 /\ stored[m].alias \in DOMAIN tx
          BY <4>2, <4>3, <4>4 DEF TopicKept
        <4>6. QED BY <4>1, <4>5 DEF Insertable
      <3>2. QED BY <3>1
    <2>2. CASE ~ConnackResend
      <3>1. discarded' = discarded
        BY <1>1, <2>2 DEF Next, PublishQoS0, PublishQoS1, PublishTooBig, Publishing, Acknowledged,
             Lost, ConnackNewSession, BrokerSendsNamed, BrokerSendsBare, BrokerSends, Overtaken,
             ReceiveNamed, ReceiveBare, Dispatched, ReceiveRejected, vars
      <3>2. QED BY <3>1
    <2>3. QED BY <2>1, <2>2
  <1>2. IInv /\ [Next]_vars => [\A m \in discarded' \ discarded : stored[m].name # NoTopic]_vars
    BY <1>1, TopicAliasAssumption
  <1>3. QED BY <1>2, Invariant, PTL DEF Spec, TopicRecovered

-----------------------------------------------------------------------------
(* Messages from the broker. *)

LEMMA AgreesPrefix ==
  ASSUME NEW S, NEW q \in Seq(S), NEW n \in 0 .. Len(q), NEW table, NEW names,
         Agrees(table, names, q)
  PROVE  Agrees(table, EmptyMap, SubSeq(q, 1, n))
  <1>1. PICK r : r = SubSeq(q, 1, n)
    OBVIOUS
  <1>2. /\ Len(q) \in Nat /\ DOMAIN q = 1 .. Len(q) /\ n \in Nat /\ n <= Len(q)
        /\ r \in Seq(S) /\ DOMAIN r = 1 .. n
        /\ \A i \in 1 .. n : r[i] = q[i] /\ i \in DOMAIN q
    BY <1>1
  <1>3. ASSUME NEW i \in DOMAIN r PROVE Resolved(table, r, i) = r[i].topic
    <2>1. SubSeq(r, 1, i - 1) = SubSeq(q, 1, i - 1)
      BY <1>1, <1>2
    <2>2. r[i] = q[i] /\ i \in DOMAIN q
      BY <1>2
    <2>3. Resolved(table, r, i) = Resolved(table, q, i)
      BY <2>1, <2>2 DEF Resolved
    <2>4. QED BY <2>2, <2>3 DEF Agrees
  <1>4. QED BY <1>1, <1>3, EmptyMapType DEF Agrees

LEMMA ClientAgreesNext ==
  ASSUME Agrees(rx', IF running' THEN announced' ELSE EmptyMap, incoming') PROVE ClientAgrees'
  BY DEF ClientAgrees, Agrees, Resolved, Meaning, Definers, EmptyMap

(* The broker sends m: the alias of a message that names its topic stands for
   that topic from then on. *)
Said(m) ==
  /\ running /\ running' /\ incoming' = Append(incoming, m)
  /\ UNCHANGED <<rx, rearranged, misdirected>>
  /\ DOMAIN announced' \subseteq RxAliases
  /\ m.name = NoTopic => m.alias \in DOMAIN announced /\ announced[m.alias] = m.topic
  /\ m.name # NoTopic => m.name = m.topic
  /\ \A k \in DOMAIN announced' :
       announced'[k] = IF m.alias = k /\ m.name # NoTopic THEN m.name ELSE announced[k]
  /\ \A k \in DOMAIN announced' :
       (m.alias = k /\ m.name # NoTopic) \/ k \in DOMAIN announced

LEMMA SentInbound ==
  ASSUME TopicAliasAssumption, IInv, InboundTables, BrokerSent
  PROVE  InboundTables'
  <1>1. PICK m \in Incoming : Said(m)
    <2>1. ASSUME NEW topic \in Topic, NEW k \in 0 .. RxAliasMax, BrokerSendsNamed(topic, k)
          PROVE  \E m \in Incoming : Said(m)
      <3>1. PICK m : m = [topic |-> topic, name |-> topic, alias |-> k]
        OBVIOUS
      <3>2. k \in Nat /\ topic # NoTopic
        BY DEF TopicAliasAssumption
      <3>3. m \in Incoming /\ m.name = topic /\ m.topic = topic /\ m.alias = k
        BY <3>1, <3>2 DEF Incoming
      <3>4. /\ BrokerSends(m)
            /\ announced' = IF k \in RxAliases THEN Put(announced, k, topic) ELSE announced
        BY <2>1, <3>1 DEF BrokerSendsNamed
      <3>5. DOMAIN announced \subseteq RxAliases
        BY DEF InboundTables
      <3>6. /\ DOMAIN announced' \subseteq RxAliases
            /\ \A j \in DOMAIN announced' :
                 /\ announced'[j] = IF j = k THEN topic ELSE announced[j]
                 /\ j = k \/ j \in DOMAIN announced
        BY <3>4, <3>5 DEF Put
      <3>7. QED BY <3>2, <3>3, <3>4, <3>6 DEF BrokerSends, Said
    <2>2. ASSUME NEW k \in DOMAIN announced, BrokerSendsBare(k)
          PROVE  \E m \in Incoming : Said(m)
      <3>1. PICK m : m = [topic |-> announced[k], name |-> NoTopic, alias |-> k]
        OBVIOUS
      <3>2. m \in Incoming /\ m.name = NoTopic /\ m.topic = announced[k] /\ m.alias = k
        BY <3>1, IInvContext DEF Incoming, Table
      <3>3. BrokerSends(m) /\ announced' = announced
        BY <2>2, <3>1 DEF BrokerSendsBare
      <3>4. QED BY <3>2, <3>3 DEF BrokerSends, InboundTables, Said
    <2>3. QED BY <2>1, <2>2 DEF BrokerSent
  <1>2. incoming \in Seq(Incoming)
    BY DEF IInv, TypeOK
  <1>3. PICK r : r = Append(incoming, m)
    OBVIOUS
  <1>4. /\ DOMAIN r = DOMAIN incoming \cup {Len(incoming) + 1} /\ r[Len(incoming) + 1] = m
        /\ \A i \in DOMAIN incoming :
             r[i] = incoming[i] /\ Resolved(rx, r, i) = Resolved(rx, incoming, i)
        /\ Resolved(rx, r, Len(incoming) + 1) =
             IF m.name # NoTopic THEN m.name ELSE Meaning(rx, incoming, m.alias)
    BY <1>2, <1>3, ResolvedAppend
  <1>5. ASSUME NEW i \in DOMAIN incoming', incoming'[i].name = NoTopic
        PROVE  incoming'[i].alias \in RxAliases
    BY <1>1, <1>3, <1>4, <1>5 DEF InboundTables, Said
  <1>6. ASSUME ~rearranged' PROVE ClientAgrees' /\ ~misdirected'
    <2>1. Agrees(rx, announced, incoming) /\ ~misdirected
      BY <1>1, <1>6 DEF InboundTables, ClientAgrees, Said
    <2>2. ASSUME NEW k \in DOMAIN announced' PROVE Meaning(rx, r, k) = announced'[k]
      <3>1. Meaning(rx, r, k) = IF m.alias = k /\ m.name # NoTopic THEN m.name
                                ELSE Meaning(rx, incoming, k)
        BY <1>2, <1>3, MeaningAppend
      <3>2. k \in DOMAIN announced => Meaning(rx, incoming, k) = announced[k]
        BY <2>1 DEF Agrees
      <3>3. QED BY <1>1, <3>1, <3>2 DEF Said
    <2>3. ASSUME NEW i \in DOMAIN r PROVE Resolved(rx, r, i) = r[i].topic
      <3>1. CASE i \in DOMAIN incoming
        BY <1>4, <2>1, <3>1 DEF Agrees
      <3>2. CASE i = Len(incoming) + 1
        BY <1>1, <1>4, <2>1, <3>2 DEF Agrees, Said
      <3>3. QED BY <1>4, <3>1, <3>2
    <2>4. Agrees(rx, announced', r)
      BY <2>2, <2>3 DEF Agrees
    <2>5. Agrees(rx', announced', incoming')
      BY <1>1, <1>3, <2>4 DEF Said
    <2>6. QED BY <1>1, <2>1, <2>5, ClientAgreesNext DEF Said
  <1>7. QED BY <1>1, <1>5, <1>6 DEF InboundTables, Said

(* A message is overtaken: the rest is as before. *)
LEMMA OvertakenInbound ==
  ASSUME IInv, InboundTables, Overtaken
  PROVE  InboundTables'
  <1>1. PICK i \in 1 .. Len(incoming) - 1 :
          incoming' = [incoming EXCEPT ![i] = incoming[i + 1], ![i + 1] = incoming[i]]
    BY DEF Overtaken
  <1>2. /\ i \in DOMAIN incoming /\ i + 1 \in DOMAIN incoming
        /\ DOMAIN incoming' = DOMAIN incoming
    BY <1>1 DEF IInv, TypeOK
  <1>3. \A j \in DOMAIN incoming' : \E l \in DOMAIN incoming : incoming'[j] = incoming[l]
    BY <1>1, <1>2
  <1>4. rearranged' = TRUE /\ announced' = announced
    BY DEF Overtaken
  <1>5. QED BY <1>3, <1>4 DEF InboundTables

(* The first message is handled: nothing changes but the client's table. *)
LEMMA HandledInbound ==
  ASSUME IInv, InboundTables, incoming # <<>>, ~rearranged, NEW t,
         \A k \in RxAliases : Meaning(t, <<>>, k) = Meaning(rx, <<Head(incoming)>>, k)
  PROVE  /\ Agrees(t, IF running THEN announced ELSE EmptyMap, Tail(incoming))
         /\ Head(incoming).name = NoTopic =>
              /\ Head(incoming).alias \in DOMAIN rx
              /\ rx[Head(incoming).alias] = Head(incoming).topic
  <1>1. PICK names : names = IF running THEN announced ELSE EmptyMap
    OBVIOUS
  <1>2. incoming \in Seq(Incoming) /\ Agrees(rx, names, incoming) /\ DOMAIN names \subseteq RxAliases
    BY <1>1, EmptyMapType DEF IInv, TypeOK, InboundTables, ClientAgrees
  <1>3. Agrees(t, names, Tail(incoming))
    BY <1>2, AgreesAfter DEF InboundTables
  <1>4. Head(incoming).name = NoTopic =>
          Meaning(rx, <<>>, Head(incoming).alias) = Head(incoming).topic
    BY <1>2, AgreesFirst
  <1>5. Head(incoming).topic # NoTopic
    <2>1. Head(incoming) \in Incoming
      BY <1>2
    <2>2. QED BY <2>1, TopicAliasAssumption DEF Incoming, TopicAliasAssumption
  <1>6. QED BY <1>1, <1>3, <1>4, <1>5, MeaningEmpty

LEMMA MeaningFirst ==
  ASSUME NEW S, NEW h \in S, NEW table, NEW k
  PROVE  Meaning(table, <<h>>, k) =
           IF h.alias = k /\ h.name # NoTopic THEN h.name ELSE Meaning(table, <<>>, k)
  <1>1. <<h>> = Append(<<>>, h)
    OBVIOUS
  <1>2. <<>> \in Seq(S)
    OBVIOUS
  <1>3. Meaning(table, Append(<<>>, h), k) =
           IF h.alias = k /\ h.name # NoTopic THEN h.name ELSE Meaning(table, <<>>, k)
    BY <1>2, MeaningAppend
  <1>4. QED BY <1>1, <1>3, Zenon

LEMMA DispatchedInbound ==
  ASSUME IInv, InboundTables, ReceiveNamed \/ ReceiveBare
  PROVE  InboundTables'
  <1>1. PICK h : h = Head(incoming)
    OBVIOUS
  <1>2. /\ incoming # <<>> /\ incoming' = Tail(incoming)
        /\ UNCHANGED <<running, announced, rearranged>>
    BY DEF ReceiveNamed, ReceiveBare, Dispatched
  <1>3. incoming \in Seq(Incoming) /\ h \in Incoming /\ Table(rx)
    BY <1>1, <1>2, IInvContext DEF IInv, TypeOK
  <1>4. \A i \in DOMAIN incoming' : i + 1 \in DOMAIN incoming /\ incoming'[i] = incoming[i + 1]
    BY <1>2, <1>3
  <1>5. \/ /\ h.name # NoTopic /\ misdirected' = misdirected
           /\ rx' = rx /\ h.alias = 0
        \/ /\ h.name # NoTopic /\ misdirected' = misdirected
           /\ rx' = Put(rx, h.alias, h.name)
        \/ /\ h.name = NoTopic /\ rx' = rx
           /\ misdirected' = (misdirected \/ rx[h.alias] # h.topic)
    BY <1>1 DEF ReceiveNamed, ReceiveBare, RegisterAlias
  <1>6. ASSUME NEW k \in RxAliases PROVE Meaning(rx', <<>>, k) = Meaning(rx, <<h>>, k)
    <2>1. Meaning(rx, <<h>>, k) =
            IF h.alias = k /\ h.name # NoTopic THEN h.name ELSE Meaning(rx, <<>>, k)
      BY <1>3, MeaningFirst
    <2>2. k # 0
      BY DEF RxAliases
    <2>3. QED BY <1>5, <2>1, <2>2, MeaningEmpty DEF Put
  <1>7. ASSUME ~rearranged' PROVE ClientAgrees' /\ ~misdirected'
    <2>1. PICK t : t = rx'
      OBVIOUS
    <2>2. /\ Agrees(t, IF running THEN announced ELSE EmptyMap, Tail(incoming))
          /\ h.name = NoTopic => rx[h.alias] = h.topic
      BY <1>1, <1>2, <1>6, <1>7, <2>1, HandledInbound
    <2>3. Agrees(rx', IF running' THEN announced' ELSE EmptyMap, incoming')
      BY <1>2, <2>1, <2>2
    <2>4. ~misdirected
      BY <1>2, <1>7 DEF InboundTables
    <2>5. ~misdirected'
      BY <1>5, <2>2, <2>4
    <2>6. QED BY <2>3, <2>5, ClientAgreesNext
  <1>8. QED BY <1>2, <1>4, <1>7 DEF InboundTables

(* The connection ends, and some of these messages are still handled. *)
LEMMA EndInbound ==
  ASSUME NEW q \in Seq(Incoming), Received(q), ~running',
         UNCHANGED <<rx, announced, rearranged>>,
         DOMAIN announced \subseteq RxAliases,
         \A i \in DOMAIN q : q[i].name = NoTopic => q[i].alias \in RxAliases,
         NEW names, ~rearranged => Agrees(rx, names, q) /\ ~misdirected'
  PROVE  InboundTables'
  <1>1. PICK n \in 0 .. Len(q) : incoming' = SubSeq(q, 1, n)
    BY DEF Received
  <1>2. \A i \in DOMAIN incoming' : i \in DOMAIN q /\ incoming'[i] = q[i]
    BY <1>1
  <1>3. ASSUME ~rearranged PROVE ClientAgrees'
    <2>1. Agrees(rx, EmptyMap, SubSeq(q, 1, n))
      BY <1>3, AgreesPrefix
    <2>2. Agrees(rx', IF running' THEN announced' ELSE EmptyMap, incoming')
      BY <1>1, <2>1
    <2>3. QED BY <2>2, ClientAgreesNext
  <1>4. QED BY <1>2, <1>3 DEF InboundTables

LEMMA LostInbound ==
  ASSUME IInv, InboundTables, Lost \/ ReceiveRejected
  PROVE  InboundTables'
  <1>1. ~running' /\ UNCHANGED <<rx, announced, rearranged>>
    BY DEF Lost, ReceiveRejected, Disconnected
  <1>2. incoming \in Seq(Incoming)
    BY DEF IInv, TypeOK
  <1>3. CASE Lost
    <2>1. Received(incoming) /\ misdirected' = misdirected
      BY <1>3 DEF Lost
    <2>2. PICK names : names = IF running THEN announced ELSE EmptyMap
      OBVIOUS
    <2>3. ~rearranged => Agrees(rx, names, incoming) /\ ~misdirected'
      BY <2>1, <2>2 DEF InboundTables, ClientAgrees
    <2>4. QED BY <1>1, <1>2, <2>1, <2>3, EndInbound DEF InboundTables
  <1>4. CASE ReceiveRejected
    <2>1. PICK h : h = Head(incoming)
      OBVIOUS
    <2>2. /\ incoming # <<>> /\ Received(Tail(incoming))
          /\ IF h.name = NoTopic THEN h.alias \notin DOMAIN rx ELSE h.alias \notin {0} \cup RxAliases
          /\ misdirected' = (misdirected \/ h.name = NoTopic)
      BY <1>4, <2>1 DEF ReceiveRejected
    <2>3. Tail(incoming) \in Seq(Incoming) /\ h \in Incoming
      BY <1>2, <2>1, <2>2
    <2>4. \A i \in DOMAIN Tail(incoming) :
            i + 1 \in DOMAIN incoming /\ Tail(incoming)[i] = incoming[i + 1]
      BY <1>2, <2>2
    <2>5. PICK names : names = IF running THEN announced ELSE EmptyMap
      OBVIOUS
    <2>6. ASSUME ~rearranged PROVE Agrees(rx, names, Tail(incoming)) /\ ~misdirected'
      <3>1. ASSUME NEW k \in RxAliases PROVE Meaning(rx, <<>>, k) = Meaning(rx, <<h>>, k)
        <4>1. Meaning(rx, <<h>>, k) =
                IF h.alias = k /\ h.name # NoTopic THEN h.name ELSE Meaning(rx, <<>>, k)
          BY <2>3, MeaningFirst
        <4>2. QED BY <2>2, <4>1
      <3>2. /\ Agrees(rx, IF running THEN announced ELSE EmptyMap, Tail(incoming))
            /\ h.name = NoTopic => h.alias \in DOMAIN rx
        BY <2>1, <2>2, <2>6, <3>1, HandledInbound
      <3>3. ~misdirected
        BY <2>6 DEF InboundTables
      <3>4. QED BY <2>2, <2>5, <3>2, <3>3
    <2>7. \A i \in DOMAIN Tail(incoming) :
            Tail(incoming)[i].name = NoTopic => Tail(incoming)[i].alias \in RxAliases
      BY <2>4 DEF InboundTables
    <2>8. QED BY <1>1, <2>2, <2>3, <2>6, <2>7, EndInbound DEF InboundTables
  <1>5. QED BY <1>3, <1>4

LEMMA ConnackInbound ==
  ASSUME InboundTables, NEW max, Connack(max)
  PROVE  InboundTables'
  <1>1. /\ rx' = EmptyMap /\ announced' = EmptyMap /\ running' = TRUE /\ incoming' = incoming
        /\ rearranged' = (rearranged \/ incoming # <<>>) /\ misdirected' = misdirected
    BY DEF Connack
  <1>2. ASSUME ~rearranged' PROVE ClientAgrees' /\ ~misdirected'
    <2>1. incoming = <<>> /\ ~misdirected
      BY <1>1, <1>2 DEF InboundTables
    <2>2. Agrees(EmptyMap, EmptyMap, <<>>)
      BY EmptyMapType DEF Agrees
    <2>3. Agrees(rx', IF running' THEN announced' ELSE EmptyMap, incoming')
      BY <1>1, <2>1, <2>2
    <2>4. QED BY <1>1, <2>1, <2>3, ClientAgreesNext
  <1>3. QED BY <1>1, <1>2, EmptyMapType DEF InboundTables

LEMMA UnchangedInbound ==
  ASSUME InboundTables, UNCHANGED <<running, rx, announced, incoming, rearranged, misdirected>>
  PROVE  InboundTables'
  <1>1. ~rearranged => Agrees(rx, IF running THEN announced ELSE EmptyMap, incoming)
    BY DEF InboundTables, ClientAgrees
  <1>2. ~rearranged => Agrees(rx', IF running' THEN announced' ELSE EmptyMap, incoming')
    BY <1>1
  <1>3. ~rearranged => ClientAgrees'
    BY <1>2, ClientAgreesNext
  <1>4. QED BY <1>3 DEF InboundTables

LEMMA NextInbound ==
  TopicAliasAssumption /\ IInv /\ InboundTables /\ [Next]_vars => InboundTables'
  <1> SUFFICES ASSUME TopicAliasAssumption, IInv, InboundTables, [Next]_vars
               PROVE  InboundTables'
    OBVIOUS
  <1>1. CASE BrokerSent
    BY <1>1, SentInbound
  <1>2. CASE Overtaken
    BY <1>2, OvertakenInbound
  <1>3. CASE ReceiveNamed \/ ReceiveBare
    BY <1>3, DispatchedInbound
  <1>4. CASE Lost \/ ReceiveRejected
    BY <1>4, LostInbound
  <1>5. CASE ConnackNewSession \/ ConnackResend
    BY <1>5, ConnackInbound DEF ConnackNewSession, ConnackResend
  <1>6. ASSUME NEW topic \in Topic, Publishing(topic) PROVE InboundTables'
    BY <1>6, UnchangedInbound DEF Publishing
  <1>7. ASSUME NEW m \in Message, Acknowledged(m) PROVE InboundTables'
    BY <1>7, UnchangedInbound DEF Acknowledged
  <1>8. CASE UNCHANGED vars
    BY <1>8, UnchangedInbound DEF vars
  <1>9. QED BY <1>1, <1>2, <1>3, <1>4, <1>5, <1>6, <1>7, <1>8
      DEF Next, BrokerSent, PublishQoS0, PublishQoS1, PublishTooBig

(* As long as no message from the broker is overtaken, and none outlives its
   connection into the next, the client dispatches each under its topic and
   refuses none for an alias it does not know: however many aliases are
   redefined, messages refused and connections lost on the way. *)
THEOREM InboundTopicAlwaysRight == Spec => []InboundTopicRight
  <1>1. Init => InboundTables
    <2> SUFFICES ASSUME Init PROVE InboundTables
      OBVIOUS
    <2>1. rx = EmptyMap /\ announced = EmptyMap /\ incoming = <<>> /\ ~running /\ ~misdirected
      BY DEF Init
    <2>2. Agrees(EmptyMap, EmptyMap, <<>>)
      BY EmptyMapType DEF Agrees
    <2>3. QED BY <2>1, <2>2, EmptyMapType DEF InboundTables, ClientAgrees
  <1>2. InboundTables => InboundTopicRight
    BY DEF InboundTables, InboundTopicRight
  <1>3. IInv /\ InboundTables /\ [Next]_vars => InboundTables'
    BY NextInbound, TopicAliasAssumption
  <1>4. QED BY <1>1, <1>2, <1>3, Invariant, PTL DEF Spec

-----------------------------------------------------------------------------
(* A broker that announces the same maximum on every connection.  With a smaller
   one than before, a resent packet keeps an alias that is above it. *)
OneMaximum == \A a, b \in AliasMaxima : a = b

(* No alias, in the table, stored or read, is above the maximum: behind
   AliasWithinMaximum. *)
AliasesAllowed ==
  /\ running \/ DOMAIN stored # {} => aliasMax \in AliasMaxima
  /\ AliasWithinMaximum
  /\ Len(tx) <= aliasMax
  /\ \A m \in DOMAIN stored : stored[m].alias <= aliasMax

LEMMA ReadAllowed ==
  ASSUME NEW q, NEW table, BrokerReads(table, q), NEW max,
         \A i \in DOMAIN q : q[i].alias <= max,
         \A k \in DOMAIN table : k <= max
  PROVE  \A k \in DOMAIN known' : k <= max
  <1>1. ASSUME NEW k \in DOMAIN known' PROVE k <= max
    <2>1. Meaning(table, q, k) # NoTopic
      BY DEF BrokerReads
    <2>2. CASE Definers(q, k) # {}
      BY <2>2 DEF Definers
    <2>3. CASE Definers(q, k) = {}
      BY <2>1, <2>3, MeaningNone
    <2>4. QED BY <2>2, <2>3
  <1>2. QED BY <1>1

LEMMA PublishAllowed ==
  ASSUME TopicAliasAssumption, IInv, AliasesAllowed, NEW topic \in Topic, Publishing(topic),
         \/ UNCHANGED known
         \/ BrokerReads(known, <<Built(topic)>>),
         \/ UNCHANGED stored
         \/ stored' = Put(stored, published + 1, Built(topic))
  PROVE  AliasesAllowed'
  <1>1. PICK p : p = Built(topic)
    OBVIOUS
  <1>2. /\ running /\ published < MaxPublish /\ AssignAlias(topic) /\ aliasMax' = aliasMax
    BY PublishingType DEF Publishing
  <1>3. /\ p.alias <= Len(tx) \/ (AliasSpace /\ p.alias = Len(tx) + 1)
        /\ Len(tx') <= Len(tx) \/ (AliasSpace /\ Len(tx') = Len(tx) + 1)
        /\ p.alias \in Nat /\ tx' \in Seq(Topic)
    BY <1>1, <1>2, IInvContext, BuiltRight DEF Packet
  <1>4. Len(tx) \in Nat /\ Len(tx') \in Nat /\ aliasMax \in Nat /\ Len(tx) <= aliasMax
    <2>1. tx \in Seq(Topic) /\ aliasMax \in {0} \cup AliasMaxima
      BY DEF IInv, TypeOK
    <2>2. QED BY <1>3, <2>1 DEF AliasesAllowed, TopicAliasAssumption
  <1>5. p.alias <= aliasMax /\ Len(tx') <= aliasMax
    BY <1>3, <1>4 DEF AliasSpace
  <1>6. \A k \in DOMAIN known' : k <= aliasMax
    <2>1. CASE UNCHANGED known
      BY <2>1 DEF AliasesAllowed, AliasWithinMaximum
    <2>2. CASE BrokerReads(known, <<p>>)
      <3>1. \A i \in DOMAIN <<p>> : <<p>>[i].alias <= aliasMax
        BY <1>5
      <3>2. QED BY <2>2, <3>1, ReadAllowed DEF AliasesAllowed, AliasWithinMaximum
    <2>3. QED BY <1>1, <2>1, <2>2
  <1>7. \A m \in DOMAIN stored' : stored'[m].alias <= aliasMax
    BY <1>1, <1>5 DEF AliasesAllowed, Put
  <1>8. QED BY <1>2, <1>5, <1>6, <1>7 DEF AliasesAllowed, AliasWithinMaximum

LEMMA ConnackAllowed ==
  ASSUME TopicAliasAssumption, OneMaximum, IInv, AliasesAllowed,
         ConnackNewSession \/ ConnackResend
  PROVE  AliasesAllowed'
  <1>1. aliasMax' \in AliasMaxima /\ aliasMax' \in Nat /\ tx' = <<>>
    BY DEF ConnackNewSession, ConnackResend, Connack, TopicAliasAssumption
  <1>2. Len(tx') <= aliasMax'
    BY <1>1
  <1>3. CASE ConnackNewSession
    <2>1. BrokerReads(EmptyMap, <<>>) /\ stored' = EmptyMap
      BY <1>3 DEF ConnackNewSession
    <2>2. \A k \in DOMAIN known' : k <= aliasMax'
      BY <2>1, EmptyMapType, ReadAllowed
    <2>3. QED BY <1>1, <1>2, <2>1, <2>2, EmptyMapType DEF AliasesAllowed, AliasWithinMaximum
  <1>4. CASE ConnackResend
    <2>1. PICK kept : kept = {m \in DOMAIN stored : stored[m].retries > 1 /\ Insertable(stored[m])}
      OBVIOUS
    <2>2. PICK fit : fit = IF Cardinality(kept) < ReceiveMax THEN Cardinality(kept) ELSE ReceiveMax
      OBVIOUS
    <2>3. /\ DOMAIN stored # {} /\ stored' = [m \in kept |-> Resent(stored[m])]
          /\ \E order \in Ascending(kept) :
               BrokerReads(EmptyMap, [i \in 1 .. fit |-> Resent(stored[order[i]])])
      BY <1>4, <2>1, <2>2 DEF ConnackResend
    <2>4. aliasMax' = aliasMax
      BY <1>1, <2>3 DEF AliasesAllowed, OneMaximum
    <2>5. \A m \in kept : stored'[m].alias <= aliasMax'
      <3>1. \A m \in kept : m \in DOMAIN stored /\ stored[m] \in Packet
        BY <2>1 DEF IInv, TypeOK
      <3>2. \A m \in kept : Resent(stored[m]).alias = stored[m].alias
        BY <3>1 DEF Resent, Packet
      <3>3. QED BY <2>3, <2>4, <3>1, <3>2 DEF AliasesAllowed
    <2>6. PICK order \in Ascending(kept) :
            BrokerReads(EmptyMap, [i \in 1 .. fit |-> Resent(stored[order[i]])])
      BY <2>3
    <2>7. \A i \in 1 .. fit : order[i] \in kept
      <3>1. kept \in SUBSET DOMAIN stored /\ IsFiniteSet(kept) /\ Cardinality(kept) \in Nat
        BY <2>1, FlightFinite, FS_Subset, FS_CardinalityType DEF IInv
      <3>2. \A i \in 1 .. fit : i \in 1 .. Cardinality(kept)
        BY <2>2, <3>1 DEF TopicAliasAssumption
      <3>3. QED BY <3>2 DEF Ascending
    <2>8. \A k \in DOMAIN known' : k <= aliasMax'
      <3>1. PICK q : q = [i \in 1 .. fit |-> Resent(stored[order[i]])]
        OBVIOUS
      <3>2. \A i \in DOMAIN q : q[i].alias <= aliasMax'
        BY <2>3, <2>5, <2>7, <3>1
      <3>3. QED BY <2>6, <3>1, <3>2, EmptyMapType, ReadAllowed
    <2>9. QED BY <1>1, <1>2, <2>3, <2>5, <2>8 DEF AliasesAllowed, AliasWithinMaximum
  <1>5. QED BY <1>3, <1>4

LEMMA NextAllowed ==
  ASSUME TopicAliasAssumption, OneMaximum, IInv, AliasesAllowed, [Next]_vars
  PROVE  AliasesAllowed'
  <1>1. ASSUME NEW topic \in Topic,
               PublishQoS0(topic) \/ PublishQoS1(topic) \/ PublishTooBig(topic)
        PROVE  AliasesAllowed'
    BY <1>1, PublishAllowed DEF PublishQoS0, PublishQoS1, PublishTooBig, NothingRead
  <1>2. ASSUME NEW m \in Message, Acknowledged(m) PROVE AliasesAllowed'
    <2>1. /\ aliasMax' = aliasMax /\ tx' = tx /\ running' = running /\ running /\ PublishEnd
          /\ DOMAIN stored' \subseteq DOMAIN stored
          /\ \A i \in DOMAIN stored' : stored'[i] = stored[i]
      BY <1>2 DEF Acknowledged, Drop, Restrict
    <2>2. \A k \in DOMAIN known' : k <= aliasMax
      <3>1. CASE pending = <<>>
        BY <2>1, <3>1 DEF PublishEnd, NothingRead, AliasesAllowed, AliasWithinMaximum
      <3>2. CASE pending # <<>>
        <4>1. PICK p : p = stored[Head(pending)]
          OBVIOUS
        <4>2. Head(pending) \in Range(pending)
          BY <3>2, QueueTail DEF IInv, AliasTables, FlowAgrees, TypeOK
        <4>3. p.alias <= aliasMax
          BY <4>1, <4>2 DEF AliasesAllowed, IInv, AliasTables, FlowAgrees
        <4>4. BrokerReads(known, <<p>>)
          BY <2>1, <3>2, <4>1 DEF PublishEnd, RunFlow
        <4>5. \A i \in DOMAIN <<p>> : <<p>>[i].alias <= aliasMax
          BY <4>3
        <4>6. QED BY <4>4, <4>5, ReadAllowed DEF AliasesAllowed, AliasWithinMaximum
      <3>3. QED BY <3>1, <3>2
    <2>3. QED BY <2>1, <2>2 DEF AliasesAllowed, AliasWithinMaximum
  <1>3. CASE ConnackNewSession \/ ConnackResend
    BY <1>3, ConnackAllowed
  <1>4. ASSUME UNCHANGED <<aliasMax, tx, stored, known>>, running' => running
        PROVE  AliasesAllowed'
    BY <1>4 DEF AliasesAllowed, AliasWithinMaximum
  <1>5. CASE \/ Lost \/ ReceiveRejected \/ UNCHANGED vars
             \/ BrokerSent \/ Overtaken \/ ReceiveNamed \/ ReceiveBare
    <2>1. CASE Lost \/ ReceiveRejected
      BY <1>4, <2>1 DEF Lost, ReceiveRejected, Disconnected, NothingRead
    <2>2. CASE BrokerSent
      BY <1>4, <2>2 DEF BrokerSent, BrokerSendsNamed, BrokerSendsBare, BrokerSends, NothingRead
    <2>3. CASE Overtaken
      BY <1>4, <2>3 DEF Overtaken, NothingRead
    <2>4. CASE ReceiveNamed \/ ReceiveBare
      BY <1>4, <2>4 DEF ReceiveNamed, ReceiveBare, Dispatched, NothingRead
    <2>5. CASE UNCHANGED vars
      BY <1>4, <2>5 DEF vars
    <2>6. QED BY <1>5, <2>1, <2>2, <2>3, <2>4, <2>5
  <1>6. QED BY <1>1, <1>2, <1>3, <1>5 DEF Next, BrokerSent

(* The broker never reads an alias above the maximum it announced. *)
THEOREM AliasAlwaysWithinMaximum ==
  ASSUME OneMaximum PROVE Spec => []AliasWithinMaximum
  <1>1. Init => AliasesAllowed
    <2> SUFFICES ASSUME Init PROVE AliasesAllowed
      OBVIOUS
    <2>1. DOMAIN stored = {} /\ DOMAIN known = {} /\ ~running /\ Len(tx) = 0 /\ aliasMax = 0
      BY EmptyMapType DEF Init
    <2>2. QED BY <2>1 DEF AliasesAllowed, AliasWithinMaximum
  <1>2. IInv /\ AliasesAllowed /\ [Next]_vars => AliasesAllowed'
    BY NextAllowed, TopicAliasAssumption, OneMaximum
  <1>3. AliasesAllowed => AliasWithinMaximum
    BY DEF AliasesAllowed
  <1>4. QED BY <1>1, <1>2, <1>3, Invariant, PTL DEF Spec
=============================================================================
