---------------------------- MODULE Maps_proofs ------------------------------
(***************************************************************************)
(* Maps, queues and counters: what Put, Drop, Ascending, Tail, Append and  *)
(* SubSeq preserve, for every value.                                       *)
(***************************************************************************)
EXTENDS Maps, FiniteSetTheorems, TLAPS

-----------------------------------------------------------------------------
(* Maps. *)

LEMMA PutType ==
  ASSUME NEW K, NEW V, NEW map, NEW k \in K, NEW v \in V,
         DOMAIN map \subseteq K, \A i \in DOMAIN map : map[i] \in V
  PROVE  /\ DOMAIN Put(map, k, v) \subseteq K
         /\ \A i \in DOMAIN Put(map, k, v) : Put(map, k, v)[i] \in V
  BY DEF Put

LEMMA RestrictType ==
  ASSUME NEW K, NEW V, NEW map, NEW S, S \subseteq DOMAIN map,
         DOMAIN map \subseteq K, \A i \in DOMAIN map : map[i] \in V
  PROVE  /\ DOMAIN Restrict(map, S) \subseteq K
         /\ \A i \in DOMAIN Restrict(map, S) : Restrict(map, S)[i] \in V
  BY DEF Restrict

LEMMA DropType ==
  ASSUME NEW K, NEW V, NEW map, NEW k,
         DOMAIN map \subseteq K, \A i \in DOMAIN map : map[i] \in V
  PROVE  /\ DOMAIN Drop(map, k) \subseteq DOMAIN map \cap K
         /\ \A i \in DOMAIN Drop(map, k) : Drop(map, k)[i] \in V
  BY DEF Drop, Restrict

LEMMA EmptyMapType == DOMAIN EmptyMap = {}
  BY DEF EmptyMap

-----------------------------------------------------------------------------
(* The keys of a map in order. *)

LEMMA AscendingType ==
  ASSUME NEW S, IsFiniteSet(S), NEW q \in Ascending(S)
  PROVE  q \in Seq(S) /\ Len(q) = Cardinality(S) /\ Len(q) \in Nat
  <1>1. Cardinality(S) \in Nat
    BY FS_CardinalityType
  <1>2. q \in [1 .. Cardinality(S) -> S]
    BY DEF Ascending
  <1>3. QED BY <1>1, <1>2

LEMMA AscendingOnce ==
  ASSUME NEW S, S \subseteq Nat, IsFiniteSet(S), NEW q \in Ascending(S)
  PROVE  /\ q \in Seq(S) /\ Len(q) \in Nat /\ DOMAIN q = 1 .. Len(q)
         /\ IsInjective(q) /\ Range(q) \subseteq S
  <1>1. q \in Seq(S) /\ Len(q) \in Nat /\ DOMAIN q = 1 .. Len(q)
    BY AscendingType
  <1>2. \A i, j \in DOMAIN q : i < j => q[i] < q[j]
    BY DEF Ascending
  <1>3. \A i \in DOMAIN q : q[i] \in Nat
    <2>1. \A i \in 1 .. Len(q) : q[i] \in S
      BY <1>1
    <2>2. QED BY <1>1, <2>1
  <1>4. ASSUME NEW i \in DOMAIN q, NEW j \in DOMAIN q, q[i] = q[j] PROVE i = j
    <2>1. ~(q[i] < q[j]) /\ ~(q[j] < q[i])
      BY <1>3, <1>4
    <2>2. i \in Nat /\ j \in Nat
      BY <1>1
    <2>3. QED BY <1>2, <2>1, <2>2
  <1>5. QED BY <1>1, <1>4 DEF IsInjective, Range

LEMMA AscendingAll ==
  ASSUME NEW S, S \subseteq Nat, IsFiniteSet(S), NEW q \in Ascending(S)
  PROVE  /\ Range(q) = S
         /\ \A i, j \in DOMAIN q : i < j => q[i] < q[j]
         /\ \A k \in 0 .. Len(q) : Cardinality({q[i] : i \in 1 .. k}) = k
  <1>1. q \in Seq(S) /\ Len(q) \in Nat /\ DOMAIN q = 1 .. Len(q) /\ IsInjective(q)
        /\ Range(q) \subseteq S
    BY AscendingOnce
  <1>2. Len(q) = Cardinality(S)
    BY <1>1, AscendingType, FS_CardinalityType DEF Ascending
  <1>3. ASSUME NEW k \in 0 .. Len(q)
        PROVE  LET T == {q[i] : i \in 1 .. k} IN IsFiniteSet(T) /\ Cardinality(T) = k
    <2> DEFINE T == {q[i] : i \in 1 .. k}
               f == [i \in 1 .. k |-> q[i]]
    <2>1. \A i, j \in 1 .. k : q[i] = q[j] => i = j
      BY <1>1 DEF IsInjective
    <2>2. f \in Bijection(1 .. k, T)
      BY <2>1 DEF Bijection, Injection, Surjection, IsInjective
    <2>3. ExistsBijection(1 .. k, T)
      BY <2>2 DEF ExistsBijection
    <2>4. IsFiniteSet(1 .. k) /\ Cardinality(1 .. k) = k
      BY <1>1, FS_Interval
    <2> HIDE DEF T
    <2>5. IsFiniteSet(T) /\ Cardinality(T) = k
      BY <2>3, <2>4, FS_Bijection
    <2>6. QED BY <2>5 DEF T
  <1>4. Range(q) = {q[i] : i \in 1 .. Len(q)}
    BY <1>1 DEF Range
  <1>5. Cardinality(Range(q)) = Cardinality(S)
    <2>1. Len(q) \in 0 .. Len(q)
      BY <1>1
    <2>2. Cardinality({q[i] : i \in 1 .. Len(q)}) = Len(q)
      BY <1>3, <2>1
    <2>3. QED BY <1>2, <1>4, <2>2
  <1>6. Range(q) = S
    BY <1>1, <1>5, FS_Subset
  <1>7. \A i, j \in DOMAIN q : i < j => q[i] < q[j]
    BY <1>1, <1>2 DEF Ascending
  <1>8. QED BY <1>3, <1>6, <1>7

-----------------------------------------------------------------------------
(* Queues. *)

LEMMA EmptySeqType ==
  ASSUME NEW S PROVE <<>> \in Seq(S)
  OBVIOUS

LEMMA SingletonSeqType ==
  ASSUME NEW S, NEW x \in S PROVE <<x>> \in Seq(S)
  OBVIOUS

LEMMA ConcatType ==
  ASSUME NEW S, NEW s \in Seq(S), NEW t \in Seq(S) PROVE s \o t \in Seq(S)
  OBVIOUS

LEMMA AppendConcat ==
  ASSUME NEW S, NEW q \in Seq(S), NEW p \in S
  PROVE  Append(q, p) = q \o <<p>> /\ <<p>> \in Seq(S)
  OBVIOUS

LEMMA AppendIndexed ==
  ASSUME NEW S, NEW q \in Seq(S), NEW p \in S
  PROVE  Append(q, p) = [i \in 1 .. Len(q) + 1 |-> IF i = Len(q) + 1 THEN p ELSE q[i]]
  <1>1. PICK r : r = Append(q, p)
    OBVIOUS
  <1>2. r \in Seq(S) /\ Len(r) = Len(q) + 1 /\ Len(q) \in Nat
    BY <1>1
  <1>3. \A i \in 1 .. Len(q) + 1 : r[i] = IF i = Len(q) + 1 THEN p ELSE q[i]
    BY <1>1
  <1>4. r = [i \in 1 .. Len(q) + 1 |-> r[i]]
    BY <1>2
  <1>5. QED BY <1>1, <1>3, <1>4

LEMMA TailIndexed ==
  ASSUME NEW S, NEW q \in Seq(S), q # <<>>
  PROVE  Tail(q) = [i \in 1 .. Len(q) - 1 |-> q[i + 1]]
  <1>1. PICK r : r = Tail(q)
    OBVIOUS
  <1>2. r \in Seq(S) /\ DOMAIN r = 1 .. Len(q) - 1
    BY <1>1
  <1>3. \A i \in 1 .. Len(q) - 1 : r[i] = q[i + 1]
    BY <1>1
  <1>4. r = [i \in 1 .. Len(q) - 1 |-> r[i]]
    BY <1>2
  <1>5. QED BY <1>1, <1>3, <1>4

LEMMA RestIndexed ==
  ASSUME NEW S, NEW q \in Seq(S), NEW k \in 0 .. Len(q)
  PROVE  LET r == SubSeq(q, k + 1, Len(q))
         IN /\ r \in Seq(S) /\ DOMAIN r = 1 .. Len(q) - k
            /\ \A i \in DOMAIN r : r[i] = q[i + k] /\ i + k \in DOMAIN q /\ i + k > k
            /\ \A i \in DOMAIN q : i > k => i - k \in DOMAIN r /\ r[i - k] = q[i]
            /\ Len(q) = k => r = <<>>
  <1> DEFINE r == SubSeq(q, k + 1, Len(q))
  <1>1. /\ Len(q) \in Nat /\ DOMAIN q = 1 .. Len(q) /\ k \in Nat
        /\ DOMAIN r = 1 .. Len(q) - k /\ r \in Seq(S)
        /\ \A i \in DOMAIN r : i + k \in DOMAIN q /\ i + k > k /\ r[i] = q[i + k]
    OBVIOUS
  <1>2. Len(q) = k => r = <<>>
    BY <1>1
  <1> HIDE DEF r
  <1>3. ASSUME NEW i \in DOMAIN q, i > k PROVE i - k \in DOMAIN r /\ r[i - k] = q[i]
    <2>1. i - k \in DOMAIN r /\ (i - k) + k = i
      BY <1>1, <1>3
    <2>2. QED BY <1>1, <2>1
  <1>4. QED BY <1>1, <1>2, <1>3 DEF r

(* What is left of a sequence without repetitions. *)
LEMMA RestOfSequence ==
  ASSUME NEW S, NEW q \in Seq(S), IsInjective(q), NEW k \in 0 .. Len(q)
  PROVE  LET r == SubSeq(q, k + 1, Len(q))
         IN /\ IsInjective(r) /\ r \in Seq(S)
            /\ Range(r) \subseteq Range(q) \ {q[i] : i \in 1 .. k}
            /\ Len(r) = Len(q) - k
  <1> DEFINE r == SubSeq(q, k + 1, Len(q))
  <1>1. /\ Len(q) \in Nat /\ DOMAIN q = 1 .. Len(q) /\ k \in Nat
        /\ DOMAIN r = 1 .. Len(q) - k /\ r \in Seq(S) /\ Len(r) = Len(q) - k
        /\ \A i \in DOMAIN r : i + k \in DOMAIN q /\ i + k > k /\ r[i] = q[i + k]
    OBVIOUS
  <1> HIDE DEF r
  <1>2. IsInjective(r)
    <2> SUFFICES ASSUME NEW i \in DOMAIN r, NEW j \in DOMAIN r, r[i] = r[j] PROVE i = j
      BY DEF IsInjective
    <2>1. i + k = j + k
      BY <1>1 DEF IsInjective
    <2>2. QED BY <1>1, <2>1
  <1>3. ASSUME NEW x \in Range(r) PROVE x \in Range(q) /\ x \notin {q[i] : i \in 1 .. k}
    <2>1. PICK i \in DOMAIN r : x = r[i]
      BY <1>3 DEF Range
    <2>2. i + k \in DOMAIN q /\ i + k > k /\ x = q[i + k]
      BY <1>1, <2>1
    <2>3. \A j \in 1 .. k : j \in DOMAIN q /\ j # i + k
      BY <1>1, <2>2
    <2>4. QED BY <2>2, <2>3 DEF IsInjective, Range
  <1>4. QED BY <1>1, <1>2, <1>3 DEF r

LEMMA QueueTail ==
  ASSUME NEW S, NEW q \in Seq(S), q # <<>>, IsInjective(q)
  PROVE  /\ Tail(q) \in Seq(S) /\ IsInjective(Tail(q))
         /\ Head(q) \in Range(q)
         /\ Range(Tail(q)) = Range(q) \ {Head(q)}
  <1>1. /\ Len(q) \in Nat \ {0} /\ DOMAIN q = 1 .. Len(q) /\ Head(q) = q[1]
        /\ DOMAIN Tail(q) = 1 .. Len(q) - 1 /\ Tail(q) \in Seq(S)
        /\ \A i \in DOMAIN Tail(q) : i + 1 \in DOMAIN q /\ Tail(q)[i] = q[i + 1] /\ i + 1 # 1
    OBVIOUS
  <1>2. IsInjective(Tail(q))
    <2> SUFFICES ASSUME NEW i \in DOMAIN Tail(q), NEW j \in DOMAIN Tail(q), q[i + 1] = q[j + 1]
                 PROVE  i = j
      BY <1>1 DEF IsInjective
    <2>1. i + 1 = j + 1
      BY <1>1 DEF IsInjective
    <2>2. QED BY <1>1, <2>1
  <1>3. \A i \in DOMAIN q : i # 1 => i - 1 \in DOMAIN Tail(q) /\ Tail(q)[i - 1] = q[i]
    BY <1>1
  <1>4. \A i \in DOMAIN q : i # 1 => q[i] # q[1]
    BY <1>1 DEF IsInjective
  <1>5. ASSUME NEW x \in Range(Tail(q)) PROVE x \in Range(q) \ {Head(q)}
    <2>1. PICK i \in DOMAIN Tail(q) : x = Tail(q)[i]
      BY <1>5 DEF Range
    <2>2. i + 1 \in DOMAIN q /\ x = q[i + 1] /\ i + 1 # 1
      BY <1>1, <2>1
    <2>3. QED BY <1>1, <1>4, <2>2 DEF Range
  <1>6. ASSUME NEW x \in Range(q) \ {Head(q)} PROVE x \in Range(Tail(q))
    <2>1. PICK i \in DOMAIN q : x = q[i] /\ i # 1
      BY <1>1, <1>6 DEF Range
    <2>2. QED BY <1>3, <2>1 DEF Range
  <1>7. QED BY <1>1, <1>2, <1>5, <1>6 DEF Range

LEMMA QueueAppend ==
  ASSUME NEW S, NEW q \in Seq(S), NEW x \in S
  PROVE  /\ Range(Append(q, x)) = Range(q) \cup {x}
         /\ IsInjective(q) /\ x \notin Range(q) => IsInjective(Append(q, x))
  <1>1. /\ Len(q) \in Nat /\ DOMAIN q = 1 .. Len(q)
        /\ DOMAIN Append(q, x) = DOMAIN q \cup {Len(q) + 1} /\ Len(q) + 1 \notin DOMAIN q
        /\ \A i \in DOMAIN q : Append(q, x)[i] = q[i]
        /\ Append(q, x)[Len(q) + 1] = x
    OBVIOUS
  <1> DEFINE r == Append(q, x)
             n == Len(q) + 1
  <1>2. /\ DOMAIN r = DOMAIN q \cup {n} /\ n \notin DOMAIN q
        /\ \A i \in DOMAIN q : r[i] = q[i]
        /\ r[n] = x
    BY <1>1
  <1> HIDE DEF r, n
  <1>3. Range(r) = Range(q) \cup {x}
    BY <1>2 DEF Range
  <1>4. ASSUME IsInjective(q), x \notin Range(q) PROVE IsInjective(r)
    BY <1>2, <1>4 DEF Range, IsInjective
  <1>5. QED BY <1>3, <1>4 DEF r

-----------------------------------------------------------------------------
(* Counters and identifiers. *)

LEMMA ModType ==
  ASSUME NEW a \in Nat, NEW n \in Nat \ {0} PROVE a % n \in 0 .. n - 1
  OBVIOUS

LEMMA CountType ==
  ASSUME NEW S, NEW f \in [S -> Nat], NEW x
  PROVE  [f EXCEPT ![x] = @ + 1] \in [S -> Nat]
  <1> DEFINE g == [f EXCEPT ![x] = @ + 1]
  <1>1. ASSUME NEW y \in S PROVE g[y] \in Nat
    <2>1. CASE y = x
      BY <2>1
    <2>2. CASE y # x
      BY <2>2
    <2>3. QED BY <2>1, <2>2
  <1>2. g = [y \in S |-> g[y]]
    OBVIOUS
  <1> HIDE DEF g
  <1>3. g \in [S -> Nat]
    BY <1>1, <1>2
  <1>4. QED BY <1>3 DEF g

LEMMA CountOne ==
  ASSUME NEW S, NEW f \in [S -> Nat], NEW x \in S
  PROVE  /\ [f EXCEPT ![x] = @ + 1][x] > 0
         /\ [f EXCEPT ![x] = @ + 1][x] = f[x] + 1
         /\ \A y \in S : [f EXCEPT ![x] = @ + 1][y] >= f[y]
         /\ \A y \in S : y # x => [f EXCEPT ![x] = @ + 1][y] = f[y]
  OBVIOUS
=============================================================================
