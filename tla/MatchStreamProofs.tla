------------------------- MODULE MatchStreamProofs -------------------------
(***************************************************************************)
(* Proofs about MatchStream: what is matched is handed on once, whole and  *)
(* in order, and the cache is counted and bounded.                         *)
(***************************************************************************)
EXTENDS MatchStream, FiniteSetTheorems, SequenceTheorems, TLAPS

Buffer == [key : Streams, own : Nat, orig : Indices, end : BOOLEAN]

(* Up to the index by which a port caches it, a buffer says what it is. *)
Sound(p, buf) ==
    /\ buf.orig <= EndIndex(buf.key)
    /\ buf.end = (buf.orig = EndIndex(buf.key))
    /\ CacheIndex(p, buf) = buf.orig

Routes ==
    /\ mode \in [order : BOOLEAN, gather : BOOLEAN]
    /\ route \in [Streams -> [Ports -> [Indices -> Nat \ {0}]]]
    /\ \A s \in Streams, p \in Ports, i \in Indices :
         i < EndIndex(s) => route[s][p][i] <= Branches[p]

Senders ==
    /\ at \in [Streams -> [Ports -> UNION {[1 .. Branches[p] -> Nat] : p \in Ports}]]
    /\ \A s \in Streams, p \in Ports : at[s][p] \in [1 .. Branches[p] -> Nat]

Queues ==
    /\ queue \in [Ports -> Seq(Buffer)]
    /\ \A p \in Ports : \A k \in 1 .. Len(queue[p]) : Sound(p, queue[p][k])

Running ==
    /\ run \in [pc : {"idle", "level", "load", "cache", "gen"}, i : Nat \ {0},
                valid : SUBSET Ports, batch : Seq(Buffer), read : BOOLEAN]
    /\ run.pc = "cache" =>
         /\ run.i <= Len(PortOrder)
         /\ run.batch # <<>>
         /\ \A k \in 1 .. Len(run.batch) : Sound(Port, run.batch[k])

Cell == [got : [Ports -> Nat], end : BOOLEAN]

Caches ==
    /\ cache \in [Streams -> [cells : [Indices -> Cell], ready : SUBSET Indices,
                              next : Nat, cur : Nat, total : Nat]]
    /\ \A s \in Streams, i \in Indices, p \in Ports :
         cache[s].cells[i].got[p] > 0 =>
             i <= EndIndex(s) /\ cache[s].cells[i].end = (i = EndIndex(s))

(* The indices of a stream that were handed on. *)
Handed(s) == {out[s][k] : k \in 1 .. Len(out[s])}
Matched(s) == Handed(s) \cup cache[s].ready
Complete(s) == Len(out[s]) = Length[s]

(* How the cache of a stream and what was handed on fit together. *)
Progress(s) ==
    /\ Matched(s) \subseteq 0 .. EndIndex(s)
    /\ Handed(s) \cap cache[s].ready = {}
    /\ \A j, k \in 1 .. Len(out[s]) : out[s][j] = out[s][k] => j = k
    /\ Complete(s) => /\ cache[s].ready = {}
                      /\ cache[s].next = 0 /\ cache[s].cur = 0 /\ cache[s].total = 0
    /\ ~ Complete(s) => /\ cache[s].next = Len(out[s])
                        /\ cache[s].cur = Len(out[s]) + Cardinality(cache[s].ready)
                        /\ cache[s].total = IF EndIndex(s) \in Matched(s) THEN Length[s] ELSE 0
    /\ mode.order => \A k \in 1 .. Len(out[s]) : out[s][k] = k - 1
    /\ mode.gather => Len(out[s]) \in {0, Length[s]}

Streaming == out \in [Streams -> Seq(Indices)] /\ \A s \in Streams : Progress(s)

Full(s, p, i) == IF i = EndIndex(s) THEN Branches[p] ELSE 1

Copies(s, p, i) ==
    IF i \in Matched(s) THEN Held(s, p, i) = 0 /\ SentTo(s, p, i) = Full(s, p, i)
    ELSE Held(s, p, i) = SentTo(s, p, i)

CopiesInv == \A s \in Streams, p \in Ports : \A i \in 0 .. EndIndex(s) : Copies(s, p, i)

Reading(p) == IF run.pc = "cache" /\ Port = p THEN Len(run.batch) ELSE 0

Window == count \in [Ports -> Nat] /\ \A p \in Ports : count[p] + Reading(p) <= MaxCache

MatchInv ==
    /\ Routes /\ Senders /\ Queues /\ Running /\ Caches /\ Streaming
    /\ CopiesInv /\ CountIsCache /\ Window

-----------------------------------------------------------------------------
(* Facts about the constants, and about numbers and sequences.             *)

LEMMA Bounds ==
    /\ \A s \in Streams : /\ Length[s] \in Nat \ {0} /\ EndIndex(s) \in Nat
                          /\ EndIndex(s) = Length[s] - 1
                          /\ 0 .. EndIndex(s) \subseteq Indices
    /\ \A p \in Ports : Branches[p] \in Nat \ {0}
    /\ Indices \subseteq Nat
    /\ IsFiniteSet(Indices)
    /\ IsFiniteSet(Streams \X Indices)
    /\ MaxCache \in Nat /\ QueueSize \in Nat
    /\ Len(PortOrder) \in Nat
    /\ \A n \in Nat \ {0} : n <= Len(PortOrder) => PortOrder[n] \in Ports
<1>1. \A s \in Streams : Length[s] \in Nat \ {0} /\ EndIndex(s) \in Nat /\ EndIndex(s) = Length[s] - 1
    BY ConstantsAssumption DEF EndIndex
<1>2. \A s \in Streams : 0 .. EndIndex(s) \subseteq Indices
    BY Zenon DEF Indices
<1>3. \A s \in Streams : 0 .. EndIndex(s) \subseteq Nat
    BY <1>1
<1>4. Indices \subseteq Nat
    BY <1>3, Zenon DEF Indices
<1>5. IsFiniteSet(Indices)
  <2> DEFINE T == {0 .. EndIndex(s) : s \in Streams}
             f == [s \in Streams |-> 0 .. EndIndex(s)]
  <2>1. f \in Surjection(Streams, T)
      BY Zenon DEF Surjection
  <2>2. IsFiniteSet(Streams)
      BY ConstantsAssumption, Zenon
  <2>3. IsFiniteSet(T)
      BY <2>1, <2>2, FS_Surjection, Zenon
  <2>4. \A s \in Streams : IsFiniteSet(0 .. EndIndex(s))
    <3> SUFFICES ASSUME NEW s \in Streams PROVE IsFiniteSet(0 .. EndIndex(s))
        OBVIOUS
    <3>1. 0 \in Int /\ EndIndex(s) \in Int
        BY <1>1
    <3> QED
        BY <3>1, FS_Interval, Zenon
  <2>5. \A S \in T : IsFiniteSet(S)
      BY <2>4, Zenon
  <2>6. IsFiniteSet(UNION T)
    <3> HIDE DEF T
    <3> QED
        BY <2>3, <2>5, FS_UNION, Zenon
  <2> QED
      BY <2>6, Zenon DEF Indices
<1>6. IsFiniteSet(Streams \X Indices)
    BY <1>5, ConstantsAssumption, FS_Product, Zenon
<1>7. \A n \in Nat \ {0} : n <= Len(PortOrder) => PortOrder[n] \in Ports
    BY ConstantsAssumption
<1>8. Len(PortOrder) \in Nat
    BY ConstantsAssumption
<1> QED
    BY <1>1, <1>2, <1>4, <1>5, <1>6, <1>7, <1>8, ConstantsAssumption

LEMMA LeastNatural ==
    ASSUME NEW S \in SUBSET Nat, S # {}
    PROVE  \E m \in S : \A k \in S : m <= k
<1>1. PICK m \in S : \A k \in S : ~ (<<k, m>> \in OpToRel(<, Nat))
    BY NatLessThanWellFounded, WFMin, Zenon
<1>2. m \in Nat /\ \A k \in S : k \in Nat
    OBVIOUS
<1>3. \A k \in S : ~ (k < m)
    BY <1>1, <1>2, Zenon DEF OpToRel
<1> QED
    BY <1>2, <1>3

LEMMA MinIsLeast ==
    ASSUME NEW S \in SUBSET Nat, S # {}
    PROVE  Min(S) \in S /\ \A k \in S : Min(S) <= k
BY LeastNatural, Zenon DEF Min

LEMMA MinOfTwo ==
    ASSUME NEW a \in Nat, NEW b \in Nat
    PROVE  Min({a, b}) = IF a <= b THEN a ELSE b
<1>1. {a, b} \in SUBSET Nat /\ {a, b} # {}
    OBVIOUS
<1>2. Min({a, b}) \in {a, b} /\ \A k \in {a, b} : Min({a, b}) <= k
    BY <1>1, MinIsLeast, Zenon
<1> QED
    BY <1>2

LEMMA Interval ==
    ASSUME NEW a \in Nat, NEW b \in Int, b >= a - 1
    PROVE  IsFiniteSet(a .. b) /\ Cardinality(a .. b) = b - a + 1
<1>1. a \in Int
    OBVIOUS
<1>2. IsFiniteSet(a .. b) /\ Cardinality(a .. b) = IF a > b THEN 0 ELSE b - a + 1
    BY <1>1, FS_Interval, Zenon
<1> QED
    BY <1>2

(* A part of a..b that holds with a number all the smaller ones consists of
   the first ones. *)
LEMMA FirstOnes ==
    ASSUME NEW a \in Nat, NEW b \in Nat, NEW D \in SUBSET (a .. b),
           \A x \in D : \A y \in a .. b : y < x => y \in D
    PROVE  D = a .. a + Cardinality(D) - 1
<1> DEFINE E == {y \in Nat : y >= a /\ y \notin D}
<1>1. E \in SUBSET Nat /\ a + b + 1 \in E
    OBVIOUS
<1>2. PICK m \in E : \A k \in E : m <= k
  <2> HIDE DEF E
  <2> QED
      BY <1>1, LeastNatural
<1>3. D = a .. m - 1
  <2>1. ASSUME NEW x \in D PROVE x \in a .. m - 1
    <3>1. x \in Nat /\ x >= a /\ x <= b /\ m \in Nat /\ m >= a /\ m \notin D
        OBVIOUS
    <3>2. ~ (m < x)
        BY <3>1
    <3> QED
        BY <3>1, <3>2
  <2>2. ASSUME NEW x \in a .. m - 1 PROVE x \in D
    <3>1. x \in Nat /\ x >= a /\ ~ (m <= x)
        OBVIOUS
    <3> QED
        BY <1>2, <3>1
  <2> QED
      BY <2>1, <2>2, Zenon
<1>4. m - 1 \in Int /\ m - 1 >= a - 1 /\ m \in Nat
    OBVIOUS
<1> HIDE DEF E
<1>5. Cardinality(D) = m - 1 - a + 1
    BY <1>3, <1>4, Interval, Zenon
<1>6. m - 1 = a + Cardinality(D) - 1
    BY <1>4, <1>5
<1> QED
    BY <1>3, <1>6, Zenon

(* Ascending lists the elements of a finite set of numbers, each once, with
   all the smaller ones before it. *)
LEMMA AscendingLists ==
    ASSUME NEW S \in SUBSET Nat, IsFiniteSet(S)
    PROVE  /\ Ascending(S) \in Seq(S)
           /\ Len(Ascending(S)) = Cardinality(S)
           /\ \A k \in 1 .. Cardinality(S) :
                 Cardinality({j \in S : j < Ascending(S)[k]}) = k - 1
           /\ \A i \in S : \E k \in 1 .. Cardinality(S) : Ascending(S)[k] = i
           /\ \A j, k \in 1 .. Cardinality(S) : Ascending(S)[j] = Ascending(S)[k] => j = k
<1> DEFINE n == Cardinality(S)
           Below(i) == {j \in S : j < i}
           rank == [i \in S |-> Cardinality(Below(i)) + 1]
<1>1. n \in Nat
    BY FS_CardinalityType, Zenon
<1>2. ASSUME NEW i \in S
      PROVE  IsFiniteSet(Below(i)) /\ Cardinality(Below(i)) \in Nat /\ Cardinality(Below(i)) < n
  <2>1. Below(i) \in SUBSET S /\ Below(i) # S
      OBVIOUS
  <2> HIDE DEF Below, n
  <2>2. /\ IsFiniteSet(Below(i)) /\ Cardinality(Below(i)) <= Cardinality(S)
        /\ Cardinality(S) = Cardinality(Below(i)) => S = Below(i)
      BY <2>1, FS_Subset, Zenon
  <2>3. Cardinality(Below(i)) \in Nat
      BY <2>2, FS_CardinalityType, Zenon
  <2> QED
      BY <1>1, <2>1, <2>2, <2>3 DEF n
<1>3. ASSUME NEW x \in S, NEW y \in S, x < y
      PROVE  Cardinality(Below(x)) < Cardinality(Below(y))
  <2>1. Below(x) \cup {x} \in SUBSET Below(y) /\ x \notin Below(x)
    <3>1. \A j \in S : j < x => j < y
        BY <1>3
    <3>2. ~ (x < x)
        OBVIOUS
    <3> QED
        BY <1>3, <3>1, <3>2, Zenon
  <2> HIDE DEF Below
  <2>2. /\ IsFiniteSet(Below(x) \cup {x})
        /\ Cardinality(Below(x) \cup {x}) = Cardinality(Below(x)) + 1
      BY <1>2, <2>1, FS_AddElement, Zenon
  <2>3. Cardinality(Below(x) \cup {x}) <= Cardinality(Below(y))
      BY <1>2, <2>1, FS_Subset, Zenon
  <2>4. Cardinality(Below(x)) \in Nat /\ Cardinality(Below(y)) \in Nat
      BY <1>2
  <2> QED
      BY <2>2, <2>3, <2>4
<1>4. rank \in [S -> 1 .. n]
  <2> HIDE DEF Below, n
  <2> QED
      BY <1>1, <1>2
<1>5. \A x, y \in S : rank[x] = rank[y] => x = y
  <2> SUFFICES ASSUME NEW x \in S, NEW y \in S, rank[x] = rank[y] PROVE x = y
      OBVIOUS
  <2> HIDE DEF Below
  <2>1. Cardinality(Below(x)) = Cardinality(Below(y))
      BY <1>2
  <2>2. ~ (x < y) /\ ~ (y < x)
      BY <1>2, <1>3, <2>1
  <2> QED
      BY <2>2
<1>6. rank \in Injection(S, 1 .. n)
  <2> HIDE DEF n, rank
  <2>1. DOMAIN rank = S
      BY <1>4
  <2> QED
      BY <1>4, <1>5, <2>1, Zenon DEF Injection, IsInjective
<1>7. IsFiniteSet(1 .. n) /\ Cardinality(1 .. n) = Cardinality(S)
  <2>1. 1 \in Nat /\ n \in Int /\ n >= 1 - 1
      BY <1>1
  <2> HIDE DEF n
  <2>2. IsFiniteSet(1 .. n) /\ Cardinality(1 .. n) = n - 1 + 1
      BY <2>1, Interval, Zenon
  <2> QED
      BY <2>2, <1>1 DEF n
<1>8. rank \in Surjection(S, 1 .. n)
  <2> HIDE DEF rank, n
  <2> QED
      BY <1>6, <1>7, FS_Injection, Zenon
<1>9. ASSUME NEW k \in 1 .. n PROVE Ascending(S)[k] \in S /\ Cardinality(Below(Ascending(S)[k])) = k - 1
  <2>1. PICK i \in S : rank[i] = k
    <3> HIDE DEF rank
    <3> QED
        BY <1>8, Zenon DEF Surjection
  <2>2. Cardinality(Below(i)) = k - 1
    <3> HIDE DEF Below
    <3> QED
        BY <1>2, <2>1
  <2>3. Ascending(S)[k] = CHOOSE x \in S : Cardinality(Below(x)) = k - 1
      BY Zenon DEF Ascending
  <2> HIDE DEF Below
  <2> QED
      BY <2>2, <2>3, Zenon
<1>10. Ascending(S) \in [1 .. n -> S]
  <2> DEFINE e(k) == CHOOSE x \in S : Cardinality(Below(x)) = k - 1
  <2>1. Ascending(S) = [k \in 1 .. n |-> e(k)]
      BY Zenon DEF Ascending
  <2> HIDE DEF n, e
  <2>2. \A k \in 1 .. n : e(k) \in S
      BY <1>9, <2>1, Zenon
  <2> QED
      BY <2>1, <2>2
<1>11. Ascending(S) \in Seq(S) /\ Len(Ascending(S)) = n
  <2> HIDE DEF n
  <2> QED
      BY <1>1, <1>10
<1>12. ASSUME NEW i \in S PROVE \E k \in 1 .. n : Ascending(S)[k] = i
  <2>1. rank[i] \in 1 .. n
      BY <1>4
  <2>2. rank[Ascending(S)[rank[i]]] = rank[i] /\ Ascending(S)[rank[i]] \in S
    <3> HIDE DEF n, Below
    <3> QED
        BY <1>9, <2>1
  <2> HIDE DEF rank, n
  <2> QED
      BY <1>5, <2>1, <2>2, Zenon
<1>13. ASSUME NEW j \in 1 .. n, NEW k \in 1 .. n, Ascending(S)[j] = Ascending(S)[k] PROVE j = k
  <2>1. k - 1 = j - 1
    <3> HIDE DEF n, Below
    <3> QED
        BY <1>9, <1>13
  <2> QED
      BY <2>1
<1> QED
    BY <1>9, <1>11, <1>12, <1>13

(* The places of a sequence where a buffer stands. *)
Places(q, s, i) == {k \in DOMAIN q : q[k].key = s /\ q[k].orig = i}
Is(buf, s, i) == IF buf.key = s /\ buf.orig = i THEN 1 ELSE 0

LEMMA OccursIsPlaces ==
    ASSUME NEW q \in Seq(Buffer), NEW s, NEW i
    PROVE  /\ Occurs(q, s, i) = Cardinality(Places(q, s, i))
           /\ Places(q, s, i) \in SUBSET (1 .. Len(q))
           /\ IsFiniteSet(Places(q, s, i))
           /\ Occurs(q, s, i) \in Nat
<1>1. Occurs(q, s, i) = Cardinality(Places(q, s, i))
    BY Zenon DEF Occurs, Places
<1>2. Places(q, s, i) \in SUBSET (1 .. Len(q)) /\ Len(q) \in Nat
    BY DEF Places
<1>3. IsFiniteSet(1 .. Len(q))
  <2>1. 1 \in Int /\ Len(q) \in Int
      BY <1>2
  <2> QED
      BY <2>1, FS_Interval, Zenon
<1>4. IsFiniteSet(Places(q, s, i))
    BY <1>2, <1>3, FS_Subset, Zenon
<1> QED
    BY <1>1, <1>2, <1>4, FS_CardinalityType, Zenon

LEMMA OccursEmpty ==
    ASSUME NEW s, NEW i
    PROVE  Occurs(<<>>, s, i) = 0
<1>1. {k \in DOMAIN <<>> : <<>>[k].key = s /\ <<>>[k].orig = i} = {}
    OBVIOUS
<1> QED
    BY <1>1, FS_EmptySet, Zenon DEF Occurs

LEMMA OccursAppend ==
    ASSUME NEW q \in Seq(Buffer), NEW buf \in Buffer, NEW s, NEW i
    PROVE  Occurs(Append(q, buf), s, i) = Occurs(q, s, i) + Is(buf, s, i)
<1>1. /\ Append(q, buf) \in Seq(Buffer) /\ Len(Append(q, buf)) = Len(q) + 1 /\ Len(q) \in Nat
      /\ \A k \in 1 .. Len(q) : Append(q, buf)[k] = q[k]
      /\ Append(q, buf)[Len(q) + 1] = buf
    BY AppendProperties
<1> DEFINE P == Places(q, s, i)
           R == Places(Append(q, buf), s, i)
<1>2. /\ IsFiniteSet(P) /\ P \in SUBSET (1 .. Len(q)) /\ Occurs(q, s, i) = Cardinality(P)
      /\ Occurs(Append(q, buf), s, i) = Cardinality(R) /\ Cardinality(P) \in Nat
    BY <1>1, OccursIsPlaces, Zenon
<1>3. \A k : k \in 1 .. Len(q) + 1 <=> (k \in 1 .. Len(q) \/ k = Len(q) + 1)
    BY <1>1
<1>4. Len(q) + 1 \notin P
    BY <1>1, <1>2
<1>5. DOMAIN q = 1 .. Len(q) /\ DOMAIN Append(q, buf) = 1 .. Len(q) + 1
    BY <1>1
<1>6. CASE buf.key = s /\ buf.orig = i
  <2>1. R = P \cup {Len(q) + 1}
      BY <1>1, <1>3, <1>5, <1>6, Zenon DEF Places
  <2>2. Cardinality(P \cup {Len(q) + 1}) = Cardinality(P) + 1
      BY <1>2, <1>4, FS_AddElement, Zenon
  <2> QED
      BY <1>2, <1>6, <2>1, <2>2, Zenon DEF Is
<1>7. CASE ~ (buf.key = s /\ buf.orig = i)
  <2>1. R = P
      BY <1>1, <1>3, <1>5, <1>7, Zenon DEF Places
  <2>2. Is(buf, s, i) = 0
      BY <1>7 DEF Is
  <2> QED
      BY <1>2, <2>1, <2>2
<1> QED
    BY <1>6, <1>7

(* Taking the first n buffers of a queue splits the copies in it. *)
LEMMA Split ==
    ASSUME NEW q \in Seq(Buffer), NEW n \in 0 .. Len(q)
    PROVE  /\ SubSeq(q, 1, n) \in Seq(Buffer) /\ Len(SubSeq(q, 1, n)) = n
           /\ \A k \in 1 .. n : SubSeq(q, 1, n)[k] = q[k]
           /\ SubSeq(q, n + 1, Len(q)) \in Seq(Buffer)
           /\ Len(SubSeq(q, n + 1, Len(q))) = Len(q) - n
           /\ \A k \in 1 .. Len(q) - n : SubSeq(q, n + 1, Len(q))[k] = q[k + n]
OBVIOUS

LEMMA OccursSplit ==
    ASSUME NEW q \in Seq(Buffer), NEW n \in 0 .. Len(q), NEW s, NEW i
    PROVE  Occurs(q, s, i) = Occurs(SubSeq(q, 1, n), s, i)
                             + Occurs(SubSeq(q, n + 1, Len(q)), s, i)
<1> DEFINE a == SubSeq(q, 1, n)
           b == SubSeq(q, n + 1, Len(q))
<1>1. n \in Nat /\ Len(q) \in Nat /\ n <= Len(q)
    OBVIOUS
<1>2. a \in Seq(Buffer) /\ Len(a) = n
    BY Split, Zenon
<1>3. \A k \in 1 .. n : a[k] = q[k]
    BY Split, Zenon
<1>4. b \in Seq(Buffer) /\ Len(b) = Len(q) - n
    BY Split, Zenon
<1>5. \A k \in 1 .. Len(q) - n : b[k] = q[k + n]
    BY Split, Zenon
<1> HIDE DEF a, b
<1> DEFINE P == Places(q, s, i)
           A == Places(a, s, i)
           B == Places(b, s, i)
           f == [k \in B |-> k + n]
           C == {k \in P : k > n}
<1>6. /\ A \in SUBSET (1 .. n) /\ IsFiniteSet(A) /\ Occurs(a, s, i) = Cardinality(A)
      /\ B \in SUBSET (1 .. Len(q) - n) /\ IsFiniteSet(B) /\ Occurs(b, s, i) = Cardinality(B)
      /\ Occurs(q, s, i) = Cardinality(P) /\ P \in SUBSET (1 .. Len(q))
      /\ Cardinality(A) \in Nat /\ Cardinality(B) \in Nat
    BY <1>2, <1>4, OccursIsPlaces, Zenon
<1>7. DOMAIN q = 1 .. Len(q) /\ DOMAIN a = 1 .. n /\ DOMAIN b = 1 .. Len(q) - n
    BY <1>2, <1>4
<1>8. ASSUME NEW k PROVE k \in A <=> k \in P /\ k <= n
  <2>1. CASE k \in 1 .. n
    <3>1. k \in 1 .. Len(q) /\ k <= n
        BY <1>1, <2>1
    <3> QED
        BY <1>3, <1>7, <2>1, <3>1, Zenon DEF Places
  <2>2. CASE k \notin 1 .. n
      BY <1>6, <2>2
  <2> QED
      BY <2>1, <2>2
<1>9. f \in [B -> C]
  <2>1. ASSUME NEW k \in B PROVE k + n \in C
    <3>1. k \in 1 .. Len(q) - n /\ k + n \in 1 .. Len(q) /\ k + n > n
        BY <1>1, <1>6
    <3>2. q[k + n].key = s /\ q[k + n].orig = i
        BY <1>5, <3>1, Zenon DEF Places
    <3> QED
        BY <1>7, <3>1, <3>2, Zenon DEF Places
  <2> HIDE DEF C, B
  <2> QED
      BY <2>1
<1>10. ASSUME NEW k \in C PROVE k - n \in B /\ f[k - n] = k
  <2>1. k \in 1 .. Len(q) /\ k > n /\ k - n \in 1 .. Len(q) - n /\ k - n + n = k
      BY <1>1, <1>6
  <2>2. q[k].key = s /\ q[k].orig = i
      BY Zenon DEF Places
  <2>3. b[k - n] = q[k]
      BY <1>5, <2>1, Zenon
  <2>4. k - n \in B
      BY <1>7, <2>1, <2>2, <2>3, Zenon DEF Places
  <2> HIDE DEF B
  <2> QED
      BY <2>1, <2>4
<1>11. \A j, k \in B : f[j] = f[k] => j = k
    BY <1>1, <1>6
<1>12. f \in Bijection(B, C)
  <2> HIDE DEF f, B, C
  <2>1. DOMAIN f = B
      BY <1>9
  <2> QED
      BY <1>9, <1>10, <1>11, <2>1, Zenon DEF Bijection, Injection, Surjection, IsInjective
<1>13. IsFiniteSet(C) /\ Cardinality(C) = Cardinality(B)
  <2> HIDE DEF f, B, C
  <2> QED
      BY <1>6, <1>12, FS_Bijection, Zenon DEF ExistsBijection
<1>14. P = A \cup C /\ A \cap C = {}
    BY <1>6, <1>8
<1>15. Cardinality(P) = Cardinality(A) + Cardinality(B)
  <2> HIDE DEF A, B, C, P
  <2>1. Cardinality(A \cup C) = Cardinality(A) + Cardinality(C) - Cardinality(A \cap C)
      BY <1>6, <1>13, FS_Union, Zenon
  <2>2. Cardinality(A \cap C) = 0
      BY <1>14, FS_EmptySet, Zenon
  <2> QED
      BY <1>6, <1>13, <1>14, <2>1, <2>2
<1> QED
    BY <1>6, <1>15 DEF a, b

LEMMA Tails ==
    ASSUME NEW q \in Seq(Buffer), q # <<>>
    PROVE  /\ Head(q) \in Buffer /\ Head(q) = q[1] /\ Len(q) \in Nat /\ Len(q) >= 1
           /\ Tail(q) \in Seq(Buffer) /\ Len(Tail(q)) = Len(q) - 1
           /\ \A k \in 1 .. Len(q) - 1 : Tail(q)[k] = q[k + 1]
OBVIOUS

LEMMA OccursTail ==
    ASSUME NEW q \in Seq(Buffer), q # <<>>, NEW s, NEW i
    PROVE  Occurs(q, s, i) = Is(Head(q), s, i) + Occurs(Tail(q), s, i)
<1>1. Len(q) \in Nat /\ Len(q) >= 1 /\ 1 \in 0 .. Len(q) /\ 1 + 1 = 2
    OBVIOUS
<1>2. Tail(q) = SubSeq(q, 2, Len(q))
    BY TailIsSubSeq, Zenon
<1>3. /\ Len(SubSeq(q, 1, 1)) = 1 /\ SubSeq(q, 1, 1)[1] = q[1]
      /\ SubSeq(q, 1, 1) \in Seq(Buffer)
      /\ Occurs(q, s, i) = Occurs(SubSeq(q, 1, 1), s, i) + Occurs(Tail(q), s, i)
  <2>1. PICK n \in 0 .. Len(q) : n = 1
      BY <1>1
  <2>2. /\ SubSeq(q, 1, n) \in Seq(Buffer) /\ Len(SubSeq(q, 1, n)) = n
        /\ \A k \in 1 .. n : SubSeq(q, 1, n)[k] = q[k]
      BY Split, Zenon
  <2>3. Occurs(q, s, i) = Occurs(SubSeq(q, 1, n), s, i) + Occurs(SubSeq(q, n + 1, Len(q)), s, i)
      BY OccursSplit, Zenon
  <2>4. n + 1 = 2 /\ 1 \in 1 .. n
      BY <2>1
  <2>5. SubSeq(q, n + 1, Len(q)) = Tail(q) /\ SubSeq(q, 1, n) = SubSeq(q, 1, 1)
      BY <1>2, <2>1, <2>4, Zenon
  <2> QED
      BY <2>1, <2>2, <2>3, <2>4, <2>5, Zenon
<1>4. Head(q) \in Buffer /\ Head(q) = q[1]
    BY <1>1
<1>5. Occurs(SubSeq(q, 1, 1), s, i) = Is(Head(q), s, i)
  <2> DEFINE h == SubSeq(q, 1, 1)
  <2>1. DOMAIN h = {1} /\ h[1] = Head(q)
      BY <1>3, <1>4
  <2> HIDE DEF h
  <2>2. CASE Head(q).key = s /\ Head(q).orig = i
    <3>1. {k \in DOMAIN h : h[k].key = s /\ h[k].orig = i} = {1}
        BY <2>1, <2>2, Zenon
    <3>2. Cardinality({1}) = 1
        BY FS_Singleton, Zenon
    <3> QED
        BY <2>2, <3>1, <3>2, Zenon DEF Occurs, Is, h
  <2>3. CASE ~ (Head(q).key = s /\ Head(q).orig = i)
    <3>1. {k \in DOMAIN h : h[k].key = s /\ h[k].orig = i} = {}
        BY <2>1, <2>3, Zenon
    <3>2. Cardinality({}) = 0
        BY FS_EmptySet, Zenon
    <3> QED
        BY <2>3, <3>1, <3>2, Zenon DEF Occurs, Is, h
  <2> QED
      BY <2>2, <2>3
<1> QED
    BY <1>3, <1>5

-----------------------------------------------------------------------------
(* The copies of a buffer: how many branches send it, and what a port holds. *)

(* The branches that have sent buffer i of stream s to port p. *)
Sent(s, p, i) == {b \in 1 .. Branches[p] : i \in OnBranch(s, p, b) /\ at[s][p][b] > i}

(* The copies of a buffer among those CacheBuffer has yet to look at. *)
Read(s, p, i) == IF run.pc = "cache" /\ Port = p THEN Occurs(run.batch, s, i) ELSE 0

(* One branch sends a buffer, and all of them send the end flag. *)
LEMMA BranchesBound ==
    ASSUME Routes, NEW s \in Streams, NEW p \in Ports, NEW i \in 0 .. EndIndex(s),
           NEW X \in SUBSET {b \in 1 .. Branches[p] : i \in OnBranch(s, p, b)}
    PROVE  IsFiniteSet(X) /\ Cardinality(X) \in Nat /\ Cardinality(X) <= Full(s, p, i)
<1>1. /\ Branches[p] \in Nat \ {0} /\ EndIndex(s) \in Nat /\ 0 .. EndIndex(s) \subseteq Indices
    BY Bounds, Zenon
<1>2. X \in SUBSET (1 .. Branches[p])
    OBVIOUS
<1>3. IsFiniteSet(1 .. Branches[p]) /\ Cardinality(1 .. Branches[p]) = Branches[p]
  <2>1. 1 \in Nat /\ Branches[p] \in Int /\ Branches[p] >= 1 - 1
      BY <1>1
  <2>2. IsFiniteSet(1 .. Branches[p]) /\ Cardinality(1 .. Branches[p]) = Branches[p] - 1 + 1
      BY <2>1, Interval, Zenon
  <2> QED
      BY <2>2, <1>1
<1>4. IsFiniteSet(X) /\ Cardinality(X) <= Branches[p]
    BY <1>2, <1>3, FS_Subset, Zenon
<1>5. Cardinality(X) \in Nat
    BY <1>4, FS_CardinalityType, Zenon
<1>6. CASE i = EndIndex(s)
    BY <1>4, <1>5, <1>6 DEF Full
<1>7. CASE i # EndIndex(s)
  <2>1. X \in SUBSET {route[s][p][i]}
      BY <1>7 DEF OnBranch
  <2>2. IsFiniteSet({route[s][p][i]}) /\ Cardinality({route[s][p][i]}) = 1
      BY FS_Singleton, Zenon
  <2>3. Cardinality(X) <= 1
      BY <2>1, <2>2, FS_Subset, Zenon
  <2> QED
      BY <1>4, <1>5, <1>7, <2>3 DEF Full
<1> QED
    BY <1>6, <1>7

LEMMA SentBound ==
    ASSUME Routes, NEW s \in Streams, NEW p \in Ports, NEW i \in 0 .. EndIndex(s)
    PROVE  /\ SentTo(s, p, i) = Cardinality(Sent(s, p, i)) /\ IsFiniteSet(Sent(s, p, i))
           /\ SentTo(s, p, i) \in Nat /\ SentTo(s, p, i) <= Full(s, p, i)
<1>1. Sent(s, p, i) \in SUBSET {b \in 1 .. Branches[p] : i \in OnBranch(s, p, b)}
    BY Zenon DEF Sent
<1>2. /\ IsFiniteSet(Sent(s, p, i)) /\ Cardinality(Sent(s, p, i)) \in Nat
      /\ Cardinality(Sent(s, p, i)) <= Full(s, p, i)
    BY <1>1, BranchesBound, Zenon
<1>3. SentTo(s, p, i) = Cardinality(Sent(s, p, i))
    BY Zenon DEF SentTo, Sent
<1> QED
    BY <1>2, <1>3, Zenon

LEMMA HeldIs ==
    ASSUME Queues, Running, Caches, NEW s \in Streams, NEW p \in Ports, NEW i \in Indices
    PROVE  /\ Held(s, p, i) = Occurs(queue[p], s, i) + cache[s].cells[i].got[p] + Read(s, p, i)
           /\ Occurs(queue[p], s, i) \in Nat
           /\ cache[s].cells[i].got[p] \in Nat
           /\ Read(s, p, i) \in Nat
<1>1. Held(s, p, i) = Occurs(queue[p], s, i) + cache[s].cells[i].got[p] + Read(s, p, i)
    BY Zenon DEF Held, Read
<1>2. queue[p] \in Seq(Buffer) /\ run.batch \in Seq(Buffer)
    BY DEF Queues, Running
<1>3. Occurs(queue[p], s, i) \in Nat /\ Occurs(run.batch, s, i) \in Nat
    BY <1>2, OccursIsPlaces, Zenon
<1>4. cache[s].cells[i].got[p] \in Nat
    BY DEF Caches, Cell
<1> QED
    BY <1>1, <1>3, <1>4 DEF Read

-----------------------------------------------------------------------------
(* Steps that leave the buffers where they are. *)

LEMMA StreamsKept ==
    ASSUME Caches, Streaming, UNCHANGED <<mode, cache, out>>
    PROVE  Caches' /\ Streaming' /\ \A s \in Streams : Matched(s)' = Matched(s)
<1>1. mode' = mode /\ cache' = cache /\ out' = out
    OBVIOUS
<1>2. Caches'
    BY <1>1 DEF Caches
<1>3. \A s \in Streams : Matched(s)' = Matched(s) /\ Handed(s)' = Handed(s)
    BY <1>1, Zenon DEF Matched, Handed
<1>4. \A s \in Streams : Progress(s)'
    BY <1>1, <1>3 DEF Streaming, Progress, Complete
<1> QED
    BY <1>1, <1>2, <1>3, <1>4, Zenon DEF Streaming

LEMMA CountKept ==
    ASSUME CountIsCache, UNCHANGED <<cache, count>>
    PROVE  CountIsCache'
BY Zenon DEF CountIsCache

LEMMA SentKept ==
    ASSUME UNCHANGED <<route, at>>, NEW s, NEW p, NEW i
    PROVE  SentTo(s, p, i)' = SentTo(s, p, i)
BY Zenon DEF SentTo, OnBranch

LEMMA ControlStep ==
    ASSUME MatchInv, UNCHANGED <<mode, route, at, queue, cache, count, out>>,
           run.pc # "cache", run'.pc # "cache",
           run' \in [pc : {"idle", "level", "load", "cache", "gen"}, i : Nat \ {0},
                     valid : SUBSET Ports, batch : Seq(Buffer), read : BOOLEAN]
    PROVE  MatchInv'
<1>1. Routes' /\ Senders' /\ Queues'
    BY Zenon DEF MatchInv, Routes, Senders, Queues
<1>2. Running'
    BY Zenon DEF Running
<1>3. Caches' /\ Streaming' /\ \A s \in Streams : Matched(s)' = Matched(s)
    BY StreamsKept, Zenon DEF MatchInv
<1>4. CountIsCache'
    BY CountKept, Zenon DEF MatchInv
<1>5. Window'
    BY Zenon DEF MatchInv, Window, Reading
<1>6. CopiesInv'
  <2> SUFFICES ASSUME NEW s \in Streams, NEW p \in Ports, NEW i \in 0 .. EndIndex(s)
               PROVE  Copies(s, p, i)'
      BY Zenon DEF CopiesInv
  <2>1. Copies(s, p, i)
      BY Zenon DEF MatchInv, CopiesInv
  <2>2. SentTo(s, p, i)' = SentTo(s, p, i)
      BY SentKept, Zenon
  <2>3. Held(s, p, i)' = Held(s, p, i)
      BY Zenon DEF Held, Occurs
  <2> QED
      BY <1>3, <2>1, <2>2, <2>3, Zenon DEF Copies, Full
<1> QED
    BY <1>1, <1>2, <1>3, <1>4, <1>5, <1>6, Zenon DEF MatchInv

-----------------------------------------------------------------------------
(* A branch sends a buffer. *)

Following(s, p, b) == Min({j \in OnBranch(s, p, b) : j >= at[s][p][b]})

(* The buffer Push sends is the next one of its branch, and its place in the
   branch is its place in the stream where no branches merge. *)
LEMMA NextOfBranch ==
    ASSUME Routes, Senders, NEW s \in Streams, NEW p \in Ports, NEW b \in 1 .. Branches[p],
           at[s][p][b] <= EndIndex(s)
    PROVE  LET i == Following(s, p, b)
           IN  /\ i \in 0 .. EndIndex(s) /\ i \in Indices
               /\ i \in OnBranch(s, p, b) /\ at[s][p][b] <= i
               /\ \A j \in OnBranch(s, p, b) : j >= at[s][p][b] => i <= j
               /\ OwnIndex(s, p, b, i) \in Nat
               /\ Branches[p] <= 1 => OwnIndex(s, p, b, i) = i
<1> DEFINE i == Following(s, p, b)
<1> DEFINE A == {j \in OnBranch(s, p, b) : j >= at[s][p][b]}
<1>1. /\ EndIndex(s) \in Nat /\ 0 .. EndIndex(s) \subseteq Indices /\ Indices \subseteq Nat
      /\ Branches[p] \in Nat \ {0}
    BY Bounds, Zenon
<1>2. at[s][p][b] \in Nat
    BY Zenon DEF Senders
<1>3. OnBranch(s, p, b) \in SUBSET (0 .. EndIndex(s)) /\ EndIndex(s) \in OnBranch(s, p, b)
    BY <1>1 DEF OnBranch
<1>4. A \in SUBSET Nat /\ A # {}
    BY <1>1, <1>2, <1>3
<1>5. Min(A) \in A /\ \A j \in A : Min(A) <= j
  <2> HIDE DEF A
  <2> QED
      BY <1>4, MinIsLeast, Zenon
<1>6. i = Min(A)
    BY Zenon DEF Following
<1> HIDE DEF i
<1>7. i \in A /\ \A j \in A : i <= j
  <2> HIDE DEF A
  <2> QED
      BY <1>5, <1>6, Zenon
<1>8. i \in 0 .. EndIndex(s) /\ i \in Indices /\ i \in OnBranch(s, p, b) /\ at[s][p][b] <= i
  <2>1. i \in OnBranch(s, p, b) /\ i >= at[s][p][b]
      BY <1>7, Zenon
  <2>2. i \in 0 .. EndIndex(s) /\ i \in Indices
      BY <1>1, <1>3, <2>1, Zenon
  <2> QED
      BY <1>2, <2>1, <2>2
<1> DEFINE B == {j \in OnBranch(s, p, b) : j < i}
<1>9. IsFiniteSet(0 .. EndIndex(s))
  <2>1. 0 \in Int /\ EndIndex(s) \in Int
      BY <1>1
  <2> QED
      BY <2>1, FS_Interval, Zenon
<1>10. IsFiniteSet(B)
  <2>1. B \in SUBSET (0 .. EndIndex(s))
      BY <1>3
  <2> QED
      BY <1>9, <2>1, FS_Subset, Zenon
<1>11. OwnIndex(s, p, b, i) = Cardinality(B)
    BY Zenon DEF OwnIndex
<1>12. OwnIndex(s, p, b, i) \in Nat
    BY <1>10, <1>11, FS_CardinalityType, Zenon
<1>13. ASSUME Branches[p] <= 1 PROVE OwnIndex(s, p, b, i) = i
  <2>1. b = 1 /\ Branches[p] = 1
      BY <1>1, <1>13
  <2>2. ASSUME NEW j \in 0 .. i - 1 PROVE j \in OnBranch(s, p, b)
    <3>1. j \in 0 .. EndIndex(s) /\ j \in Indices /\ j < EndIndex(s)
        BY <1>1, <1>8
    <3>2. route[s][p][j] \in Nat \ {0}
        BY <3>1 DEF Routes
    <3>3. route[s][p][j] <= Branches[p]
        BY <3>1 DEF Routes
    <3>4. route[s][p][j] = b
        BY <2>1, <3>2, <3>3
    <3> QED
        BY <3>1, <3>4 DEF OnBranch
  <2>3. B = 0 .. i - 1
    <3>1. \A j \in 0 .. EndIndex(s) : j < i => j \in 0 .. i - 1
        BY <1>1, <1>8
    <3>2. \A j \in 0 .. i - 1 : j < i
        BY <1>8
    <3> QED
        BY <1>3, <2>2, <3>1, <3>2, Zenon
  <2>4. 0 \in Nat /\ i - 1 \in Int /\ i - 1 >= 0 - 1 /\ i - 1 - 0 + 1 = i
      BY <1>8
  <2>5. Cardinality(0 .. i - 1) = i - 1 - 0 + 1
      BY <2>4, Interval, Zenon
  <2> QED
      BY <1>11, <2>3, <2>4, <2>5, Zenon
<1> QED
    BY <1>7, <1>8, <1>12, <1>13, Zenon DEF i

LEMMA PushStep ==
    ASSUME MatchInv, NEW s \in Streams, NEW p \in Ports, NEW b \in 1 .. Branches[p], Push(s, p, b)
    PROVE  MatchInv'
<1> DEFINE i == Following(s, p, b)
           buf == [key |-> s, own |-> OwnIndex(s, p, b, i), orig |-> i, end |-> i = EndIndex(s)]
<1>1. /\ at[s][p][b] <= EndIndex(s)
      /\ queue' = [queue EXCEPT ![p] = Append(queue[p], buf)]
      /\ at' = [at EXCEPT ![s][p][b] = i + 1]
      /\ UNCHANGED <<mode, route, run, cache, count, out>>
    BY DEF Push, Following
<1>2. Routes /\ Senders /\ Queues /\ Running /\ Caches /\ Streaming /\ CopiesInv /\ CountIsCache /\ Window
    BY Zenon DEF MatchInv
<1>3. /\ i \in 0 .. EndIndex(s) /\ i \in Indices
      /\ i \in OnBranch(s, p, b) /\ at[s][p][b] <= i
      /\ \A j \in OnBranch(s, p, b) : j >= at[s][p][b] => i <= j
      /\ OwnIndex(s, p, b, i) \in Nat
      /\ Branches[p] <= 1 => OwnIndex(s, p, b, i) = i
    BY <1>1, <1>2, NextOfBranch, Zenon
<1>4. /\ EndIndex(s) \in Nat /\ Branches[p] \in Nat
    BY Bounds, Zenon
<1>5. /\ buf \in Buffer /\ buf.key = s /\ buf.orig = i /\ buf.own = OwnIndex(s, p, b, i)
      /\ buf.end = (i = EndIndex(s))
  <2> HIDE DEF i
  <2> QED
      BY <1>3 DEF Buffer
<1> HIDE DEF i, buf
<1>6. Sound(p, buf)
  <2>1. CacheIndex(p, buf) = i
      BY <1>3, <1>4, <1>5 DEF CacheIndex
  <2> QED
      BY <1>3, <1>4, <1>5, <2>1 DEF Sound
<1>7. Routes' /\ Running' /\ Window'
    BY <1>1, <1>2, Zenon DEF Routes, Running, Window, Reading, Port
<1>8. Caches' /\ Streaming' /\ \A t \in Streams : Matched(t)' = Matched(t)
    BY <1>1, <1>2, StreamsKept, Zenon
<1>9. CountIsCache'
    BY <1>1, <1>2, CountKept, Zenon
<1>10. queue \in [Ports -> Seq(Buffer)]
    BY <1>2 DEF Queues
<1>11. /\ queue' \in [Ports -> Seq(Buffer)] /\ queue'[p] = Append(queue[p], buf)
       /\ \A q \in Ports \ {p} : queue'[q] = queue[q]
    BY <1>1, <1>5, <1>10
<1>12. Queues'
  <2>1. ASSUME NEW k \in 1 .. Len(queue'[p]) PROVE Sound(p, queue'[p][k])
    <3>1. queue[p] \in Seq(Buffer) /\ buf \in Buffer
        BY <1>5, <1>10
    <3>2. CASE k \in 1 .. Len(queue[p])
      <4>1. queue'[p][k] = queue[p][k]
          BY <1>11, <3>1, <3>2
      <4> QED
          BY <1>2, <3>2, <4>1, Zenon DEF Queues
    <3>3. CASE k \notin 1 .. Len(queue[p])
      <4>1. queue'[p][k] = buf
          BY <1>11, <3>1, <3>3
      <4> QED
          BY <1>6, <4>1, Zenon
    <3> QED
        BY <3>2, <3>3
  <2>2. ASSUME NEW q \in Ports, NEW k \in 1 .. Len(queue'[q]), q # p PROVE Sound(q, queue'[q][k])
    <3>1. queue'[q] = queue[q]
        BY <1>11, <2>2
    <3> QED
        BY <1>2, <3>1, Zenon DEF Queues
  <2>3. \A q \in Ports : \A k \in 1 .. Len(queue'[q]) : Sound(q, queue'[q][k])
      BY <2>1, <2>2, Zenon
  <2> QED
      BY <1>11, <2>3, Zenon DEF Queues, Sound, CacheIndex, EndIndex
<1>13. /\ \A t \in Streams, q \in Ports : at[t][q] \in [1 .. Branches[q] -> Nat]
       /\ at \in [Streams -> [Ports -> UNION {[1 .. Branches[q] -> Nat] : q \in Ports}]]
    BY <1>2, Zenon DEF Senders
<1>14. i + 1 \in Nat
    BY <1>3, <1>4
<1>15. [at[s][p] EXCEPT ![b] = i + 1] \in [1 .. Branches[p] -> Nat]
    BY <1>13, <1>14
<1>16. at' = [at EXCEPT ![s] = [at[s] EXCEPT ![p] = [at[s][p] EXCEPT ![b] = i + 1]]]
    BY <1>1
<1>17. /\ at'[s][p] = [at[s][p] EXCEPT ![b] = i + 1]
       /\ \A t \in Streams, q \in Ports : (t # s \/ q # p) => at'[t][q] = at[t][q]
  <2>1. at \in [Streams -> [Ports -> UNION {[1 .. Branches[q] -> Nat] : q \in Ports}]]
      BY <1>13
  <2> HIDE DEF Senders
  <2> QED
      BY <1>16, <2>1, Zenon
<1>18. \A c \in 1 .. Branches[p] : /\ at'[s][p][c] = IF c = b THEN i + 1 ELSE at[s][p][c]
                                   /\ at[s][p][c] \in Nat
  <2>1. at[s][p] \in [1 .. Branches[p] -> Nat]
      BY <1>13, Zenon
  <2> QED
      BY <1>17, <2>1, Zenon
<1>19. Senders'
  <2>1. \A t \in Streams, q \in Ports : at'[t][q] \in [1 .. Branches[q] -> Nat]
    <3> SUFFICES ASSUME NEW t \in Streams, NEW q \in Ports
                 PROVE  at'[t][q] \in [1 .. Branches[q] -> Nat]
        OBVIOUS
    <3>1. CASE t = s /\ q = p
        BY <1>15, <1>17, <3>1, Zenon
    <3>2. CASE t # s \/ q # p
        BY <1>13, <1>17, <3>2, Zenon
    <3> QED
        BY <3>1, <3>2, Zenon
  <2>2. at' \in [Streams -> [Ports -> UNION {[1 .. Branches[q] -> Nat] : q \in Ports}]]
    <3> DEFINE U == UNION {[1 .. Branches[q] -> Nat] : q \in Ports}
    <3>1. [at[s][p] EXCEPT ![b] = i + 1] \in U
        BY <1>15, Zenon
    <3>2. at \in [Streams -> [Ports -> U]]
        BY <1>13, Zenon
    <3> HIDE DEF U
    <3>3. at' \in [Streams -> [Ports -> U]]
        BY <1>16, <3>1, <3>2
    <3> QED
        BY <3>3 DEF U
  <2> QED
      BY <2>1, <2>2, Zenon DEF Senders
<1>20. ASSUME NEW t \in Streams, NEW q \in Ports, NEW c PROVE OnBranch(t, q, c)' = OnBranch(t, q, c)
    BY <1>1, Zenon DEF OnBranch
<1>21. CopiesInv'
  <2> SUFFICES ASSUME NEW t \in Streams, NEW q \in Ports, NEW j \in 0 .. EndIndex(t)
               PROVE  Copies(t, q, j)'
      BY Zenon DEF CopiesInv
  <2>1. Copies(t, q, j) /\ j \in Indices /\ queue[q] \in Seq(Buffer)
      BY <1>2, <1>10, Bounds, Zenon DEF CopiesInv
  <2>2. /\ Held(t, q, j) = Occurs(queue[q], t, j) + cache[t].cells[j].got[q] + Read(t, q, j)
        /\ Occurs(queue[q], t, j) \in Nat /\ cache[t].cells[j].got[q] \in Nat
        /\ Read(t, q, j) \in Nat
      BY <1>2, <2>1, HeldIs, Zenon
  <2>3. Read(t, q, j)' = Read(t, q, j) /\ cache'[t].cells[j].got[q] = cache[t].cells[j].got[q]
      BY <1>1, Zenon DEF Read, Port
  <2>4. Held(t, q, j)' = Occurs(queue'[q], t, j) + cache[t].cells[j].got[q] + Read(t, q, j)
      BY <2>3, Zenon DEF Held, Read, Occurs
  <2>5. /\ SentTo(t, q, j) = Cardinality(Sent(t, q, j)) /\ IsFiniteSet(Sent(t, q, j))
        /\ SentTo(t, q, j) \in Nat
      BY <1>2, SentBound, Zenon
  <2>6. Matched(t)' = Matched(t)
      BY <1>8
  <2>7. SentTo(t, q, j)' = Cardinality(Sent(t, q, j)')
      BY Zenon DEF SentTo, Sent
  <2>8. Sent(t, q, j)' = {c \in 1 .. Branches[q] : j \in OnBranch(t, q, c) /\ at'[t][q][c] > j}
      BY <1>20, Zenon DEF Sent
  <2>9. CASE t = s /\ q = p /\ j = i
    <3>1. Sent(t, q, j)' = Sent(t, q, j) \cup {b}
      <4>1. at'[s][p][b] = i + 1 /\ i + 1 > i
        <5>1. i + 1 > i
            BY <1>3, <1>4
        <5> QED
            BY <1>18, <5>1, Zenon
      <4>2. \A c \in 1 .. Branches[p] : c # b => at'[s][p][c] = at[s][p][c]
          BY <1>18, Zenon
      <4> QED
          BY <1>3, <2>8, <2>9, <4>1, <4>2, Zenon DEF Sent
    <3>2. b \notin Sent(t, q, j)
      <4>1. ~ (at[s][p][b] > i)
        <5>1. at[s][p][b] \in Nat
            BY <1>18, Zenon
        <5> QED
            BY <1>3, <1>4, <5>1
      <4> QED
          BY <2>9, <4>1, Zenon DEF Sent
    <3>3. Cardinality(Sent(t, q, j) \cup {b}) = Cardinality(Sent(t, q, j)) + 1
        BY <2>5, <3>2, FS_AddElement, Zenon
    <3>4. Cardinality(Sent(t, q, j) \cup {b}) <= Full(t, q, j)
      <4>1. Sent(t, q, j) \cup {b} \in SUBSET {c \in 1 .. Branches[q] : j \in OnBranch(t, q, c)}
          BY <1>3, <2>9, Zenon DEF Sent
      <4> QED
          BY <1>2, <4>1, BranchesBound, Zenon
    <3>5. j \notin Matched(t)
      <4>1. SentTo(t, q, j) # Full(t, q, j)
        <5>1. Full(t, q, j) \in Nat
            BY Bounds DEF Full
        <5> QED
            BY <2>5, <3>3, <3>4, <5>1
      <4> QED
          BY <2>1, <4>1, Zenon DEF Copies
    <3>6. Occurs(queue'[q], t, j) = Occurs(queue[q], t, j) + 1
      <4>1. Occurs(Append(queue[q], buf), t, j) = Occurs(queue[q], t, j) + Is(buf, t, j)
          BY <1>5, <2>1, OccursAppend, Zenon
      <4>2. Is(buf, t, j) = 1
          BY <1>5, <2>9, Zenon DEF Is
      <4> QED
          BY <1>11, <2>9, <4>1, <4>2, Zenon
    <3>7. Held(t, q, j) = SentTo(t, q, j)
        BY <2>1, <3>5, Zenon DEF Copies
    <3>8. Held(t, q, j)' = SentTo(t, q, j)'
        BY <2>2, <2>4, <2>5, <2>7, <3>1, <3>3, <3>6, <3>7
    <3> QED
        BY <2>6, <3>5, <3>8, Zenon DEF Copies
  <2>10. CASE ~ (t = s /\ q = p /\ j = i)
    <3>1. Sent(t, q, j)' = Sent(t, q, j)
      <4>1. ASSUME NEW c \in 1 .. Branches[q], j \in OnBranch(t, q, c)
            PROVE  at'[t][q][c] > j <=> at[t][q][c] > j
        <5>1. CASE t = s /\ q = p /\ c = b
          <6>1. at'[s][p][b] = i + 1 /\ at[s][p][b] \in Nat /\ j # i
              BY <1>18, <2>10, <5>1, Zenon
          <6>2. j >= at[s][p][b] => i <= j
              BY <1>3, <4>1, <5>1, Zenon
          <6> QED
              BY <1>3, <1>4, <5>1, <6>1, <6>2
        <5>2. CASE ~ (t = s /\ q = p /\ c = b)
          <6>1. at'[t][q][c] = at[t][q][c]
            <7>1. CASE t = s /\ q = p
                BY <1>18, <5>2, <7>1, Zenon
            <7>2. CASE t # s \/ q # p
                BY <1>17, <7>2, Zenon
            <7> QED
                BY <7>1, <7>2, Zenon
          <6> QED
              BY <6>1
        <5> QED
            BY <5>1, <5>2
      <4> QED
          BY <2>8, <4>1, Zenon DEF Sent
    <3>2. Occurs(queue'[q], t, j) = Occurs(queue[q], t, j)
      <4>1. CASE q = p
        <5>1. Occurs(Append(queue[q], buf), t, j) = Occurs(queue[q], t, j) + Is(buf, t, j)
            BY <1>5, <2>1, OccursAppend, Zenon
        <5>2. Is(buf, t, j) = 0
            BY <1>5, <2>10, <4>1, Zenon DEF Is
        <5>3. Occurs(queue[q], t, j) + 0 = Occurs(queue[q], t, j)
            BY <2>2
        <5> QED
            BY <1>11, <4>1, <5>1, <5>2, <5>3, Zenon
      <4>2. CASE q # p
          BY <1>11, <4>2
      <4> QED
          BY <4>1, <4>2
    <3>3. Held(t, q, j)' = Held(t, q, j) /\ SentTo(t, q, j)' = SentTo(t, q, j)
        BY <2>2, <2>4, <2>5, <2>7, <3>1, <3>2, Zenon
    <3> QED
        BY <2>1, <2>6, <3>3, Zenon DEF Copies, Full
  <2> QED
      BY <2>9, <2>10
<1> QED
    BY <1>7, <1>8, <1>9, <1>12, <1>19, <1>21, Zenon DEF MatchInv

-----------------------------------------------------------------------------
(* A run looks at the ports and reads from one. *)

RunType == [pc : {"idle", "level", "load", "cache", "gen"}, i : Nat \ {0},
            valid : SUBSET Ports, batch : Seq(Buffer), read : BOOLEAN]

LEMMA IdleType ==
    /\ \A c \in {"idle", "level", "load", "gen"} : [Idle EXCEPT !.pc = c] \in RunType
    /\ Idle.pc = "idle" /\ Idle \in RunType
    /\ \A c \in {"idle", "level", "load", "gen"} : [Idle EXCEPT !.pc = c].pc = c
<1>1. 1 \in Nat \ {0} /\ {} \in SUBSET Ports /\ <<>> \in Seq(Buffer)
    BY EmptySeq
<1>2. Idle \in RunType
    BY <1>1, Zenon DEF Idle, RunType
<1>3. \A c \in {"idle", "level", "load", "gen"} : [Idle EXCEPT !.pc = c] \in RunType
    BY <1>2, Zenon DEF RunType
<1>4. \A c \in {"idle", "level", "load", "gen"} : [Idle EXCEPT !.pc = c].pc = c
    BY <1>2, Zenon DEF RunType
<1>5. Idle.pc = "idle"
    BY DEF Idle
<1> QED
    BY <1>2, <1>3, <1>4, <1>5

LEMMA NextPort ==
    ASSUME NEW r \in RunType
    PROVE  /\ [r EXCEPT !.i = r.i + 1, !.batch = <<>>] \in RunType
           /\ [r EXCEPT !.i = r.i + 1, !.batch = <<>>].pc = r.pc
<1>1. r.i + 1 \in Nat \ {0} /\ <<>> \in Seq(Buffer)
    BY EmptySeq DEF RunType
<1>2. [r EXCEPT !.i = r.i + 1, !.batch = <<>>] \in RunType
    BY <1>1, Zenon DEF RunType
<1> QED
    BY <1>2 DEF RunType

LEMMA StartStep ==
    ASSUME MatchInv, Start
    PROVE  MatchInv'
<1>1. run \in RunType
    BY DEF MatchInv, Running, RunType
<1>2. run' \in RunType /\ run'.pc \in {"load", "level"}
    BY <1>1 DEF Start, RunType
<1> QED
    BY <1>2, ControlStep, Zenon DEF Start, upstream, RunType

LEMMA LevelStep ==
    ASSUME MatchInv, TestLevel
    PROVE  MatchInv'
<1>1. run \in RunType /\ run.i <= Len(PortOrder)
    BY DEF MatchInv, Running, RunType, TestLevel
<1>2. Port \in Ports
    BY <1>1, Bounds DEF Port, RunType
<1>3. run' = [[run EXCEPT !.i = run.i + 1, !.batch = <<>>]
                 EXCEPT !.valid = IF queue[Port] = <<>> THEN run.valid ELSE run.valid \cup {Port}]
    BY <1>1 DEF TestLevel, AfterPort, RunType
<1>4. run' \in RunType /\ run'.pc = run.pc
  <2> DEFINE r == [run EXCEPT !.i = run.i + 1, !.batch = <<>>]
             v == IF queue[Port] = <<>> THEN run.valid ELSE run.valid \cup {Port}
  <2>1. r \in RunType /\ r.pc = run.pc
      BY <1>1, NextPort, Zenon
  <2>2. v \in SUBSET Ports
      BY <1>1, <1>2 DEF RunType
  <2>3. run' = [r EXCEPT !.valid = v]
      BY <1>3
  <2> HIDE DEF r, v
  <2>4. run' \in RunType
      BY <2>1, <2>2, <2>3, Zenon DEF RunType
  <2> QED
      BY <2>1, <2>3, <2>4 DEF RunType
<1> QED
    BY <1>4, ControlStep, Zenon DEF TestLevel, upstream, RunType

LEMMA FixStep ==
    ASSUME MatchInv, FixLevel
    PROVE  MatchInv'
<1>1. run' = [Idle EXCEPT !.pc = IF levelled' THEN "load" ELSE "gen"]
    BY Zenon DEF FixLevel
<1>2. run' \in RunType /\ run'.pc # "cache"
    BY <1>1, IdleType
<1> QED
    BY <1>2, ControlStep, Zenon DEF FixLevel, upstream, RunType

LEMMA EndStep ==
    ASSUME MatchInv, EndLoad
    PROVE  MatchInv'
<1>1. run' = [Idle EXCEPT !.pc = "gen"]
    BY Zenon DEF EndLoad
<1>2. run' \in RunType /\ run'.pc # "cache"
    BY <1>1, IdleType
<1> QED
    BY <1>2, ControlStep, Zenon DEF EndLoad, upstream, RunType

(* What GetReadCount allows a port keeps it within max_cache_count_. *)
LEMMA ReadCountBound ==
    ASSUME NEW p \in Ports, count[p] \in Nat, count[p] <= MaxCache
    PROVE  GetReadCount(p) \in Nat /\ count[p] + GetReadCount(p) <= MaxCache
<1>1. MaxCache \in Nat /\ QueueSize \in Nat
    BY Bounds, Zenon
<1> DEFINE d == MaxCache - count[p]
<1>2. d \in Nat
    BY <1>1
<1>3. Min({d, QueueSize}) = IF d <= QueueSize THEN d ELSE QueueSize
  <2> HIDE DEF d
  <2> QED
      BY <1>1, <1>2, MinOfTwo, Zenon
<1>4. GetReadCount(p) = 0 \/ GetReadCount(p) = Min({d, QueueSize})
    BY Zenon DEF GetReadCount
<1> QED
    BY <1>1, <1>2, <1>3, <1>4

LEMMA RecvStep ==
    ASSUME MatchInv, Recv
    PROVE  MatchInv'
<1> DEFINE p == Port
           n == Min({GetReadCount(p), Len(queue[p])})
           left == SubSeq(queue[p], n + 1, Len(queue[p]))
           taken == SubSeq(queue[p], 1, n)
<1>1. Routes /\ Senders /\ Queues /\ Running /\ Caches /\ Streaming /\ CopiesInv /\ CountIsCache /\ Window
    BY Zenon DEF MatchInv
<1>2. /\ run.pc = "load" /\ run.i <= Len(PortOrder)
      /\ queue' = [queue EXCEPT ![p] = left]
      /\ run' = IF n = 0 THEN AfterPort
                ELSE [run EXCEPT !.pc = "cache", !.read = TRUE, !.batch = taken]
      /\ UNCHANGED <<mode, route, at, cache, count, out>>
    BY DEF Recv, upstream
<1>3. run \in RunType
    BY <1>1 DEF Running, RunType
<1>4. p \in Ports
    BY <1>2, <1>3, Bounds DEF Port, RunType
<1>5. queue \in [Ports -> Seq(Buffer)]
    BY <1>1 DEF Queues
<1> HIDE DEF p
<1>6. queue[p] \in Seq(Buffer) /\ Len(queue[p]) \in Nat
    BY <1>4, <1>5
<1>7. /\ count[p] \in Nat /\ count[p] <= MaxCache /\ GetReadCount(p) \in Nat
      /\ count[p] + GetReadCount(p) <= MaxCache
  <2>1. count[p] \in Nat /\ count[p] + Reading(p) <= MaxCache
      BY <1>1, <1>4 DEF Window
  <2>2. Reading(p) = 0
      BY <1>2 DEF Reading
  <2>3. count[p] <= MaxCache
      BY <2>1, <2>2
  <2> QED
      BY <1>4, <2>1, <2>3, ReadCountBound, Zenon
<1>8. n = IF GetReadCount(p) <= Len(queue[p]) THEN GetReadCount(p) ELSE Len(queue[p])
    BY <1>6, <1>7, MinOfTwo, Zenon
<1> HIDE DEF n
<1>9. n \in Nat /\ n \in 0 .. Len(queue[p]) /\ count[p] + n <= MaxCache
    BY <1>6, <1>7, <1>8, Bounds
<1>10. /\ taken \in Seq(Buffer) /\ Len(taken) = n /\ \A k \in 1 .. n : taken[k] = queue[p][k]
       /\ left \in Seq(Buffer) /\ Len(left) = Len(queue[p]) - n
       /\ \A k \in 1 .. Len(queue[p]) - n : left[k] = queue[p][k + n]
    BY <1>6, <1>9, Split, Zenon
<1>11. CASE n = 0
  <2>1. left = queue[p]
    <3>1. SubSeq(queue[p], 1, Len(queue[p])) = queue[p]
        BY <1>6, SubSeqFull, Zenon
    <3>2. n + 1 = 1
        BY <1>11
    <3> QED
        BY <3>1, <3>2, Zenon
  <2> HIDE DEF left, taken
  <2>2. queue' = queue
      BY <1>2, <1>4, <1>5, <2>1
  <2>3. run' = [run EXCEPT !.i = run.i + 1, !.batch = <<>>]
      BY <1>2, <1>3, <1>11 DEF AfterPort, RunType
  <2>4. run' \in RunType /\ run'.pc = run.pc
      BY <1>3, <2>3, NextPort, Zenon
  <2> QED
      BY <1>2, <2>2, <2>4, ControlStep, Zenon DEF RunType
<1>12. CASE n # 0
  <2> DEFINE Taken(s, i) == Occurs(taken, s, i)
  <2>1. run' = [run EXCEPT !.pc = "cache", !.read = TRUE, !.batch = taken]
      BY <1>2, <1>12, Zenon
  <2>2. \A s, i : Occurs(queue[p], s, i) = Occurs(taken, s, i) + Occurs(left, s, i)
      BY <1>6, <1>9, OccursSplit, Zenon
  <2> HIDE DEF left, taken
  <2>3. run' \in RunType /\ run'.pc = "cache" /\ run'.i = run.i /\ run'.batch = taken
      BY <1>3, <1>10, <2>1, Zenon DEF RunType
  <2>4. Port' = p
      BY <2>3, Zenon DEF Port, p
  <2>5. queue' \in [Ports -> Seq(Buffer)] /\ queue'[p] = left /\ \A q \in Ports \ {p} : queue'[q] = queue[q]
      BY <1>2, <1>4, <1>5, <1>10
  <2>6. \A k \in 1 .. Len(queue[p]) : Sound(p, queue[p][k])
      BY <1>1, <1>4, Zenon DEF Queues
  <2>7. Queues'
    <3>1. ASSUME NEW k \in 1 .. Len(left) PROVE Sound(p, left[k])
      <4>1. k + n \in 1 .. Len(queue[p]) /\ k \in 1 .. Len(queue[p]) - n
          BY <1>6, <1>9, <1>10
      <4> QED
          BY <1>10, <2>6, <4>1, Zenon
    <3>2. \A q \in Ports : \A k \in 1 .. Len(queue'[q]) : Sound(q, queue'[q][k])
      <4> SUFFICES ASSUME NEW q \in Ports, NEW k \in 1 .. Len(queue'[q]) PROVE Sound(q, queue'[q][k])
          BY Zenon
      <4>1. CASE q = p
          BY <2>5, <3>1, <4>1, Zenon
      <4>2. CASE q # p
          BY <1>1, <2>5, <4>2, Zenon DEF Queues
      <4> QED
          BY <4>1, <4>2, Zenon
    <3> QED
        BY <2>5, <3>2, Zenon DEF Queues, Sound, CacheIndex, EndIndex
  <2>8. Running'
    <3>1. taken # <<>>
        BY <1>9, <1>10, <1>12
    <3>2. \A k \in 1 .. Len(taken) : Sound(p, taken[k])
      <4>1. \A k \in 1 .. n : k \in 1 .. Len(queue[p])
          BY <1>6, <1>9
      <4> QED
          BY <1>10, <2>6, <4>1, Zenon
    <3>3. /\ run'.i <= Len(PortOrder) /\ run'.batch # <<>>
          /\ \A k \in 1 .. Len(run'.batch) : Sound(Port', run'.batch[k])
        BY <1>2, <2>3, <2>4, <3>1, <3>2, Zenon
    <3> QED
        BY <2>3, <3>3, Zenon DEF Running, Sound, CacheIndex, EndIndex, RunType
  <2>9. Routes' /\ Senders'
      BY <1>1, <1>2, Zenon DEF Routes, Senders
  <2>10. Caches' /\ Streaming' /\ \A s \in Streams : Matched(s)' = Matched(s)
      BY <1>1, <1>2, StreamsKept, Zenon
  <2>11. CountIsCache'
      BY <1>1, <1>2, CountKept, Zenon
  <2>12. Window'
    <3>1. count \in [Ports -> Nat] /\ count' = count
        BY <1>1, <1>2 DEF Window
    <3>2. ASSUME NEW q \in Ports PROVE count[q] + Reading(q)' <= MaxCache
      <4>1. CASE q = p
        <5>1. Reading(q)' = n
            BY <1>10, <2>3, <2>4, <4>1, Zenon DEF Reading
        <5> QED
            BY <1>9, <4>1, <5>1
      <4>2. CASE q # p
        <5>1. Reading(q)' = 0
            BY <2>4, <4>2, Zenon DEF Reading
        <5>2. Reading(q) = 0
            BY <1>2 DEF Reading
        <5> QED
            BY <1>1, <5>1, <5>2, Zenon DEF Window
      <4> QED
          BY <4>1, <4>2
    <3> QED
        BY <3>1, <3>2, Zenon DEF Window
  <2>13. CopiesInv'
    <3> SUFFICES ASSUME NEW s \in Streams, NEW q \in Ports, NEW i \in 0 .. EndIndex(s)
                 PROVE  Copies(s, q, i)'
        BY Zenon DEF CopiesInv
    <3>1. Copies(s, q, i) /\ i \in Indices
        BY <1>1, Bounds, Zenon DEF CopiesInv
    <3>2. /\ Held(s, q, i) = Occurs(queue[q], s, i) + cache[s].cells[i].got[q] + Read(s, q, i)
          /\ Occurs(queue[q], s, i) \in Nat /\ cache[s].cells[i].got[q] \in Nat
        BY <1>1, <3>1, HeldIs, Zenon
    <3>3. Read(s, q, i) = 0
        BY <1>2 DEF Read
    <3>4. SentTo(s, q, i)' = SentTo(s, q, i)
        BY <1>2, SentKept, Zenon
    <3>5. /\ Occurs(taken, s, i) \in Nat /\ Occurs(left, s, i) \in Nat
        BY <1>10, OccursIsPlaces, Zenon
    <3>6. Held(s, q, i)' = Occurs(queue'[q], s, i) + cache[s].cells[i].got[q]
                           + (IF q = p THEN Occurs(taken, s, i) ELSE 0)
      <4>1. Held(s, q, i)' = Occurs(queue'[q], s, i) + cache'[s].cells[i].got[q]
                + (IF run'.pc = "cache" /\ Port' = q THEN Occurs(run'.batch, s, i) ELSE 0)
          BY Zenon DEF Held, Occurs
      <4>2. cache' = cache
          BY <1>2
      <4> QED
          BY <2>3, <2>4, <4>1, <4>2, Zenon
    <3>7. Held(s, q, i)' = Held(s, q, i)
      <4>1. CASE q = p
          BY <2>2, <2>5, <3>2, <3>3, <3>5, <3>6, <4>1
      <4>2. CASE q # p
        <5>1. queue'[q] = queue[q]
            BY <2>5, <4>2
        <5> QED
            BY <3>2, <3>3, <3>6, <4>2, <5>1
      <4> QED
          BY <4>1, <4>2
    <3> QED
        BY <2>10, <3>1, <3>4, <3>7, Zenon DEF Copies, Full
  <2> QED
      BY <2>7, <2>8, <2>9, <2>10, <2>11, <2>12, <2>13, Zenon DEF MatchInv
<1> QED
    BY <1>11, <1>12

-----------------------------------------------------------------------------
(* CacheBuffer stores one buffer, or completes what it belongs to. *)

CacheType == [cells : [Indices -> Cell], ready : SUBSET Indices, next : Nat, cur : Nat, total : Nat]

One(b) == IF b THEN 1 ELSE 0

(* The cell of buffer i of stream s gets the copy that came on port p. *)
Stored(s, i, p, done) ==
    /\ s \in Streams /\ i \in 0 .. EndIndex(s) /\ i \in Indices /\ p \in Ports /\ done \in BOOLEAN
    /\ cache' \in [Streams -> CacheType]
    /\ \A t \in Streams \ {s} : cache'[t] = cache[t]
    /\ \A j \in Indices \ {i} : cache'[s].cells[j] = cache[s].cells[j]
    /\ \A q \in Ports : cache'[s].cells[i].got[q] =
          IF done THEN 0 ELSE cache[s].cells[i].got[q] + One(q = p)
    /\ ~ done => cache'[s].cells[i].end = (i = EndIndex(s))
    /\ cache'[s].ready = cache[s].ready \cup IF done THEN {i} ELSE {}
    /\ cache'[s].next = cache[s].next
    /\ cache'[s].cur = cache[s].cur + One(done)
    /\ cache'[s].total = IF done /\ i = EndIndex(s) THEN i + 1 ELSE cache[s].total
    /\ done = (\A q \in Ports : cache[s].cells[i].got[q] + One(q = p) >= Full(s, q, i))
    /\ count' = [count EXCEPT ![p] = count[p] + One(cache[s].cells[i].got[p] = 0)]

(* What a run that took one buffer from its batch has left. *)
Looked(s, i, p) ==
    /\ \A t \in Streams, q \in Ports, j \in Indices :
          Read(t, q, j) = Read(t, q, j)' + One(t = s /\ q = p /\ j = i)
    /\ \A t \in Streams, q \in Ports, j \in Indices : Read(t, q, j)' \in Nat
    /\ \A q \in Ports : Reading(q) = Reading(q)' + One(q = p)
    /\ \A q \in Ports : Reading(q)' \in Nat

(* A buffer of one stream always agrees with the cell of its index. *)
LEMMA NoMissMatch ==
    ASSUME Caches, NEW s \in Streams, NEW i \in Indices, NEW buf, buf.end = (i = EndIndex(s))
    PROVE  ~ MissMatch(cache[s].cells[i], buf)
<1> SUFFICES ASSUME cache[s].cells[i].got # NoCell.got PROVE cache[s].cells[i].end = buf.end
    BY DEF MissMatch
<1>1. cache[s].cells[i].got \in [Ports -> Nat]
    BY DEF Caches, Cell
<1>2. NoCell.got = [q \in Ports |-> 0]
    BY DEF NoCell
<1>3. PICK q \in Ports : cache[s].cells[i].got[q] # 0
    BY <1>1, <1>2
<1>4. cache[s].cells[i].got[q] > 0
    BY <1>1, <1>3
<1> QED
    BY <1>4, Zenon DEF Caches

LEMMA HeadOfBatch ==
    ASSUME MatchInv, run.pc = "cache"
    PROVE  LET buf == Head(run.batch)
           IN  /\ buf \in Buffer /\ buf.key \in Streams /\ buf.orig \in Indices
               /\ buf.orig \in 0 .. EndIndex(buf.key)
               /\ buf.end = (buf.orig = EndIndex(buf.key))
               /\ CacheIndex(Port, buf) = buf.orig
               /\ Port \in Ports
<1>1. /\ run.batch \in Seq(Buffer) /\ run.batch # <<>> /\ run.i \in Nat \ {0}
      /\ run.i <= Len(PortOrder)
    BY DEF MatchInv, Running
<1>2. \A k \in 1 .. Len(run.batch) : Sound(Port, run.batch[k])
    BY DEF MatchInv, Running
<1>3. /\ Head(run.batch) \in Buffer /\ Head(run.batch) = run.batch[1]
      /\ Len(run.batch) \in Nat /\ Len(run.batch) >= 1
    BY <1>1, Tails, Zenon
<1>4. Sound(Port, Head(run.batch))
    BY <1>2, <1>3
<1>5. Head(run.batch).key \in Streams /\ Head(run.batch).orig \in Indices
    BY <1>3 DEF Buffer
<1>6. Head(run.batch).orig \in 0 .. EndIndex(Head(run.batch).key)
  <2>1. Head(run.batch).orig <= EndIndex(Head(run.batch).key)
      BY <1>4, Zenon DEF Sound
  <2>2. Head(run.batch).orig \in Nat /\ EndIndex(Head(run.batch).key) \in Nat
      BY <1>5, Bounds, Zenon
  <2> QED
      BY <2>1, <2>2
<1>7. Port \in Ports
    BY <1>1, Bounds DEF Port
<1> QED
    BY <1>3, <1>4, <1>5, <1>6, <1>7, Zenon DEF Sound

LEMMA CacheStores ==
    ASSUME MatchInv, CacheBuffer
    PROVE  LET buf == Head(run.batch)
           IN  \E done \in BOOLEAN : Stored(buf.key, buf.orig, Port, done)
<1> DEFINE buf == Head(run.batch)
           s == buf.key
           i == buf.orig
           p == Port
           c == cache[s]
<1>1. /\ buf \in Buffer /\ s \in Streams /\ i \in Indices /\ i \in 0 .. EndIndex(s)
      /\ buf.end = (i = EndIndex(s)) /\ CacheIndex(p, buf) = i /\ p \in Ports
    BY HeadOfBatch, Zenon DEF CacheBuffer
<1>2. ~ MissMatch(c.cells[i], buf)
    BY <1>1, NoMissMatch, Zenon DEF MatchInv
<1>3. /\ cache' = [cache EXCEPT ![s] = Cached(c, p, i, buf)]
      /\ count' = [count EXCEPT ![p] = count[p] + Counted(c.cells[i], p)]
    BY <1>1, <1>2 DEF CacheBuffer
<1>4. cache \in [Streams -> CacheType]
    BY DEF MatchInv, Caches, CacheType
<1> HIDE DEF buf, s, i, p
<1>5. c \in CacheType
    BY <1>1, <1>4
<1> DEFINE g == [c.cells[i].got EXCEPT ![p] = c.cells[i].got[p] + 1]
           cell == [got |-> g, end |-> buf.end]
           done == IsMatched(cell)
<1>6. c.cells \in [Indices -> Cell] /\ c.cells[i].got \in [Ports -> Nat]
    BY <1>1, <1>5 DEF CacheType, Cell
<1>7. g \in [Ports -> Nat] /\ \A q \in Ports : g[q] = c.cells[i].got[q] + One(q = p)
    BY <1>1, <1>6 DEF One
<1> HIDE DEF g
<1>8. cell \in Cell /\ cell.got = g /\ cell.end = (i = EndIndex(s))
    BY <1>1, <1>7 DEF Cell
<1>9. NoCell \in Cell /\ \A q \in Ports : NoCell.got[q] = 0
    BY DEF NoCell, Cell
<1>10. done = (\A q \in Ports : c.cells[i].got[q] + One(q = p) >= Full(s, q, i))
  <2> HIDE DEF cell
  <2>1. \A q \in Ports : (IF cell.end THEN Branches[q] ELSE 1) = Full(s, q, i)
      BY <1>8, Zenon DEF Full
  <2>2. \A q \in Ports : cell.got[q] = c.cells[i].got[q] + One(q = p)
      BY <1>7, <1>8, Zenon
  <2> QED
      BY <2>1, <2>2, Zenon DEF IsMatched
<1>11. c.ready \in SUBSET Indices /\ c.next \in Nat /\ c.cur \in Nat /\ c.total \in Nat
    BY <1>5 DEF CacheType
<1>12. i + 1 \in Nat
    BY <1>1, Bounds
<1> DEFINE d == Cached(c, p, i, buf)
<1>13. d = IF done
           THEN [c EXCEPT !.cells = [c.cells EXCEPT ![i] = NoCell], !.ready = c.ready \cup {i},
                          !.cur = c.cur + 1, !.total = IF buf.end THEN i + 1 ELSE c.total]
           ELSE [c EXCEPT !.cells = [c.cells EXCEPT ![i] = cell]]
    BY Zenon DEF Cached, g
<1> HIDE DEF cell, done, c, d
<1>14. /\ d \in CacheType
       /\ \A j \in Indices \ {i} : d.cells[j] = c.cells[j]
       /\ d.cells[i] = IF done THEN NoCell ELSE cell
       /\ d.ready = c.ready \cup (IF done THEN {i} ELSE {})
       /\ d.next = c.next
       /\ d.cur = c.cur + One(done)
       /\ d.total = IF done /\ i = EndIndex(s) THEN i + 1 ELSE c.total
  <2>1. CASE done
    <3> DEFINE m == [c.cells EXCEPT ![i] = NoCell]
               r == c.ready \cup {i}
               u == c.cur + 1
               w == IF buf.end THEN i + 1 ELSE c.total
    <3>1. /\ m \in [Indices -> Cell] /\ m[i] = NoCell /\ \A j \in Indices \ {i} : m[j] = c.cells[j]
        BY <1>1, <1>6, <1>9, Zenon
    <3>2. r \in SUBSET Indices /\ u \in Nat /\ w \in Nat
        BY <1>1, <1>11, <1>12
    <3>3. d = [c EXCEPT !.cells = m, !.ready = r, !.cur = u, !.total = w]
        BY <1>13, <2>1, Zenon
    <3>4. w = IF i = EndIndex(s) THEN i + 1 ELSE c.total
        BY <1>1, Zenon
    <3> HIDE DEF m, r, u, w
    <3>5. /\ d \in CacheType /\ d.cells = m /\ d.ready = r /\ d.cur = u /\ d.total = w
          /\ d.next = c.next
        BY <1>5, <3>1, <3>2, <3>3, Zenon DEF CacheType
    <3> QED
        BY <2>1, <3>1, <3>4, <3>5, Zenon DEF r, u, One
  <2>2. CASE ~ done
    <3> DEFINE m == [c.cells EXCEPT ![i] = cell]
    <3>1. /\ m \in [Indices -> Cell] /\ m[i] = cell /\ \A j \in Indices \ {i} : m[j] = c.cells[j]
        BY <1>1, <1>6, <1>8, Zenon
    <3>2. d = [c EXCEPT !.cells = m]
        BY <1>13, <2>2, Zenon
    <3> HIDE DEF m
    <3>3. /\ d \in CacheType /\ d.cells = m /\ d.ready = c.ready /\ d.cur = c.cur
          /\ d.total = c.total /\ d.next = c.next
        BY <1>5, <3>1, <3>2, Zenon DEF CacheType
    <3>4. c.cur = c.cur + 0 /\ c.ready = c.ready \cup {}
        BY <1>11
    <3> QED
        BY <2>2, <3>1, <3>3, <3>4, Zenon DEF One
  <2> QED
      BY <2>1, <2>2
<1>15. /\ cache' \in [Streams -> CacheType] /\ cache'[s] = d
       /\ \A t \in Streams \ {s} : cache'[t] = cache[t]
    BY <1>1, <1>3, <1>4, <1>14, Zenon DEF d, c
<1>16. count' = [count EXCEPT ![p] = count[p] + One(c.cells[i].got[p] = 0)]
    BY <1>3, Zenon DEF Counted, One, c
<1>17. \A q \in Ports : d.cells[i].got[q] = IF done THEN 0 ELSE c.cells[i].got[q] + One(q = p)
    BY <1>7, <1>8, <1>9, <1>14, Zenon
<1>18. ~ done => d.cells[i].end = (i = EndIndex(s))
    BY <1>8, <1>14, Zenon
<1>19. done \in BOOLEAN
    BY <1>10, Zenon
<1>20. Stored(s, i, p, done)
  <2>1. cache[s] = c
      BY Zenon DEF c
  <2> HIDE DEF Full, One
  <2> QED
      BY <1>1, <1>10, <1>14, <1>15, <1>16, <1>17, <1>18, <1>19, <2>1, Zenon DEF Stored
<1> QED
    BY <1>19, <1>20, Zenon DEF s, i, p, buf

LEMMA CacheLooks ==
    ASSUME MatchInv, CacheBuffer
    PROVE  /\ Looked(Head(run.batch).key, Head(run.batch).orig, Port)
           /\ Running' /\ UNCHANGED <<mode, route, at, queue, out>>
           /\ run.pc = "cache"
<1> DEFINE buf == Head(run.batch)
           s == buf.key
           i == buf.orig
           p == Port
<1>1. /\ buf \in Buffer /\ s \in Streams /\ i \in Indices /\ i \in 0 .. EndIndex(s)
      /\ buf.end = (i = EndIndex(s)) /\ CacheIndex(p, buf) = i /\ p \in Ports
    BY HeadOfBatch, Zenon DEF CacheBuffer
<1>2. ~ MissMatch(cache[s].cells[i], buf)
    BY <1>1, NoMissMatch, Zenon DEF MatchInv
<1>3. /\ run.pc = "cache"
      /\ run' = IF Len(run.batch) = 1 THEN [AfterPort EXCEPT !.pc = "load"]
                ELSE [run EXCEPT !.batch = Tail(run.batch)]
      /\ UNCHANGED <<mode, route, at, queue, out>>
    BY <1>1, <1>2 DEF CacheBuffer, upstream
<1>4. run \in RunType /\ run.batch # <<>> /\ run.i <= Len(PortOrder) /\ run.batch \in Seq(Buffer)
    BY <1>3 DEF MatchInv, Running, RunType
<1>5. \A k \in 1 .. Len(run.batch) : Sound(p, run.batch[k])
    BY <1>3, Zenon DEF MatchInv, Running
<1> DEFINE rest == Tail(run.batch)
<1>6. /\ Len(run.batch) \in Nat /\ Len(run.batch) >= 1
      /\ rest \in Seq(Buffer) /\ Len(rest) = Len(run.batch) - 1
      /\ \A k \in 1 .. Len(run.batch) - 1 : rest[k] = run.batch[k + 1]
    BY <1>4, Tails, Zenon
<1>7. \A t, j : Occurs(run.batch, t, j) = Is(buf, t, j) + Occurs(rest, t, j)
    BY <1>4, OccursTail, Zenon
<1>8. \A t, j : Occurs(rest, t, j) \in Nat
    BY <1>6, OccursIsPlaces, Zenon
<1> HIDE DEF rest
<1>9. \A t \in Streams, q \in Ports, j \in Indices :
         Read(t, q, j) = IF q = p THEN One(t = s /\ j = i) + Occurs(rest, t, j) ELSE 0
  <2> SUFFICES ASSUME NEW t \in Streams, NEW q \in Ports, NEW j \in Indices
               PROVE  Read(t, q, j) = IF q = p THEN One(t = s /\ j = i) + Occurs(rest, t, j) ELSE 0
      BY Zenon
  <2>1. Is(buf, t, j) = One(t = s /\ j = i)
      BY DEF Is, One
  <2> QED
      BY <1>3, <1>7, <2>1, Zenon DEF Read
<1>10. \A q \in Ports : Reading(q) = IF q = p THEN Len(run.batch) ELSE 0
    BY <1>3, Zenon DEF Reading
<1> HIDE DEF buf, s, i, p
<1>11. CASE Len(run.batch) = 1
  <2>1. run' = [[run EXCEPT !.i = run.i + 1, !.batch = <<>>] EXCEPT !.pc = "load"]
      BY <1>3, <1>11, Zenon DEF AfterPort
  <2>2. [run EXCEPT !.i = run.i + 1, !.batch = <<>>] \in RunType
      BY <1>4, NextPort, Zenon
  <2>3. run' \in RunType /\ run'.pc = "load"
      BY <2>1, <2>2, Zenon DEF RunType
  <2>4. Running'
      BY <2>3, Zenon DEF Running, RunType
  <2>5. rest = <<>>
      BY <1>6, <1>11
  <2>6. \A t, j : Occurs(rest, t, j) = 0
      BY <2>5, OccursEmpty, Zenon
  <2>7. \A t, q, j : Read(t, q, j)' = 0 /\ Reading(q)' = 0
      BY <2>3, Zenon DEF Read, Reading
  <2>8. Looked(s, i, p)
      BY <1>9, <1>10, <1>11, <2>6, <2>7 DEF Looked, One
  <2> QED
      BY <1>3, <2>4, <2>8, Zenon DEF s, i, p, buf
<1>12. CASE Len(run.batch) # 1
  <2>1. run' = [run EXCEPT !.batch = rest]
      BY <1>3, <1>12, Zenon DEF rest
  <2>2. run' \in RunType /\ run'.pc = "cache" /\ run'.i = run.i /\ run'.batch = rest
      BY <1>3, <1>4, <1>6, <2>1, Zenon DEF RunType
  <2>3. Port' = p
      BY <2>2, Zenon DEF Port, p
  <2>4. rest # <<>> /\ Len(rest) \in Nat
    <3>1. Len(rest) \in Nat /\ Len(rest) # 0
        BY <1>6, <1>12
    <3>2. Len(<<>>) = 0
        BY EmptySeq
    <3> QED
        BY <3>1, <3>2, Zenon
  <2>5. \A k \in 1 .. Len(rest) : Sound(p, rest[k])
    <3>1. \A k \in 1 .. Len(rest) : k \in 1 .. Len(run.batch) - 1 /\ k + 1 \in 1 .. Len(run.batch)
        BY <1>6
    <3> QED
        BY <1>5, <1>6, <3>1, Zenon DEF p
  <2>6. Running'
    <3>1. /\ run'.i <= Len(PortOrder) /\ run'.batch # <<>>
          /\ \A k \in 1 .. Len(run'.batch) : Sound(Port', run'.batch[k])
        BY <1>4, <2>2, <2>3, <2>4, <2>5, Zenon
    <3> QED
        BY <2>2, <3>1, Zenon DEF Running, Sound, CacheIndex, EndIndex, RunType
  <2>7. \A t, q, j : Read(t, q, j)' = IF q = p THEN Occurs(rest, t, j) ELSE 0
    <3>1. \A t, q, j : Read(t, q, j)' = IF run'.pc = "cache" /\ Port' = q THEN Occurs(run'.batch, t, j) ELSE 0
        BY Zenon DEF Read, Occurs
    <3> QED
        BY <2>2, <2>3, <3>1, Zenon
  <2>8. \A q : Reading(q)' = IF q = p THEN Len(rest) ELSE 0
      BY <2>2, <2>3, Zenon DEF Reading
  <2>9. \A t \in Streams, q \in Ports, j \in Indices :
           /\ Read(t, q, j) = Read(t, q, j)' + One(t = s /\ q = p /\ j = i)
           /\ Read(t, q, j)' \in Nat
      BY <1>8, <1>9, <2>7 DEF One
  <2>10. \A q \in Ports : Reading(q) = Reading(q)' + One(q = p) /\ Reading(q)' \in Nat
      BY <1>6, <1>10, <2>4, <2>8 DEF One
  <2>11. Looked(s, i, p)
      BY <2>9, <2>10, Zenon DEF Looked
  <2> QED
      BY <1>3, <2>6, <2>11, Zenon DEF s, i, p, buf
<1> QED
    BY <1>11, <1>12

(* As many indices were handed on as out is long: all of them, in the end. *)
LEMMA HandedOnce ==
    ASSUME Streaming, NEW s \in Streams
    PROVE  /\ out[s] \in Seq(Indices) /\ Len(out[s]) \in Nat
           /\ IsFiniteSet(Handed(s)) /\ Cardinality(Handed(s)) = Len(out[s])
           /\ Handed(s) \in SUBSET (0 .. EndIndex(s))
           /\ IsFiniteSet(0 .. EndIndex(s)) /\ Cardinality(0 .. EndIndex(s)) = Length[s]
           /\ Complete(s) => Handed(s) = 0 .. EndIndex(s)
<1>1. out[s] \in Seq(Indices) /\ Len(out[s]) \in Nat
    BY DEF Streaming
<1>2. /\ \A j, k \in 1 .. Len(out[s]) : out[s][j] = out[s][k] => j = k
      /\ Handed(s) \in SUBSET (0 .. EndIndex(s))
    BY Zenon DEF Streaming, Progress, Matched
<1> DEFINE n == Len(out[s])
           f == [k \in 1 .. n |-> out[s][k]]
<1>3. f \in Bijection(1 .. n, Handed(s))
  <2>1. f \in [1 .. n -> Handed(s)] /\ \A x \in Handed(s) : \E k \in 1 .. n : f[k] = x
      BY DEF Handed
  <2>2. \A j, k \in 1 .. n : f[j] = f[k] => j = k
      BY <1>2, Zenon
  <2>3. DOMAIN f = 1 .. n
      BY Zenon
  <2> HIDE DEF f, n
  <2> QED
      BY <2>1, <2>2, <2>3, Zenon DEF Bijection, Injection, Surjection, IsInjective
<1>4. IsFiniteSet(1 .. n) /\ Cardinality(1 .. n) = n
  <2>1. 1 \in Nat /\ n \in Int /\ n >= 1 - 1 /\ n - 1 + 1 = n
      BY <1>1
  <2> HIDE DEF n
  <2>2. IsFiniteSet(1 .. n) /\ Cardinality(1 .. n) = n - 1 + 1
      BY <2>1, Interval, Zenon
  <2> QED
      BY <2>1, <2>2, Zenon
<1>5. IsFiniteSet(Handed(s)) /\ Cardinality(Handed(s)) = n
  <2> HIDE DEF f, n
  <2> QED
      BY <1>3, <1>4, FS_Bijection, Zenon DEF ExistsBijection
<1>6. IsFiniteSet(0 .. EndIndex(s)) /\ Cardinality(0 .. EndIndex(s)) = Length[s]
  <2>1. /\ 0 \in Nat /\ EndIndex(s) \in Int /\ EndIndex(s) >= 0 - 1
        /\ EndIndex(s) - 0 + 1 = Length[s]
      BY Bounds
  <2>2. IsFiniteSet(0 .. EndIndex(s)) /\ Cardinality(0 .. EndIndex(s)) = EndIndex(s) - 0 + 1
      BY <2>1, Interval, Zenon
  <2> QED
      BY <2>1, <2>2, Zenon
<1>7. Complete(s) => Handed(s) = 0 .. EndIndex(s)
  <2>1. Cardinality(0 .. EndIndex(s)) = Cardinality(Handed(s)) => 0 .. EndIndex(s) = Handed(s)
      BY <1>2, <1>6, FS_Subset, Zenon
  <2> QED
      BY <1>5, <1>6, <2>1, Zenon DEF Complete
<1> QED
    BY <1>1, <1>2, <1>5, <1>6, <1>7, Zenon

(* A copy that is still to be looked at belongs to no buffer that matched. *)
LEMMA StoredFresh ==
    ASSUME MatchInv, NEW s, NEW i, NEW p, NEW done, Stored(s, i, p, done), Looked(s, i, p)
    PROVE  /\ i \notin Matched(s) /\ Read(s, p, i) \in Nat /\ Read(s, p, i) >= 1
           /\ \A q \in Ports : Held(s, q, i) = SentTo(s, q, i)
<1>1. s \in Streams /\ i \in 0 .. EndIndex(s) /\ i \in Indices /\ p \in Ports
    BY Zenon DEF Stored
<1>2. Read(s, p, i) = Read(s, p, i)' + One(TRUE) /\ Read(s, p, i)' \in Nat
    BY <1>1, Zenon DEF Looked
<1>3. Read(s, p, i) \in Nat /\ Read(s, p, i) >= 1
    BY <1>2 DEF One
<1>4. /\ Held(s, p, i) = Occurs(queue[p], s, i) + cache[s].cells[i].got[p] + Read(s, p, i)
      /\ Occurs(queue[p], s, i) \in Nat /\ cache[s].cells[i].got[p] \in Nat
    BY <1>1, HeldIs, Zenon DEF MatchInv
<1>5. Held(s, p, i) # 0
    BY <1>3, <1>4
<1>6. \A q \in Ports : Copies(s, q, i)
    BY <1>1, Zenon DEF MatchInv, CopiesInv
<1>7. i \notin Matched(s)
    BY <1>1, <1>5, <1>6, Zenon DEF Copies
<1> QED
    BY <1>3, <1>6, <1>7, Zenon DEF Copies

LEMMA StoredCaches ==
    ASSUME MatchInv, NEW s, NEW i, NEW p, NEW done, Stored(s, i, p, done)
    PROVE  Caches'
<1>1. /\ s \in Streams /\ i \in Indices /\ i \in 0 .. EndIndex(s)
      /\ cache' \in [Streams -> CacheType]
      /\ \A t \in Streams \ {s} : cache'[t] = cache[t]
      /\ \A j \in Indices \ {i} : cache'[s].cells[j] = cache[s].cells[j]
      /\ \A q \in Ports : cache'[s].cells[i].got[q] =
            IF done THEN 0 ELSE cache[s].cells[i].got[q] + One(q = p)
      /\ ~ done => cache'[s].cells[i].end = (i = EndIndex(s))
    BY Zenon DEF Stored
<1>2. \A t \in Streams, j \in Indices, q \in Ports :
         cache[t].cells[j].got[q] > 0 => /\ j <= EndIndex(t)
                                         /\ cache[t].cells[j].end = (j = EndIndex(t))
    BY Zenon DEF MatchInv, Caches
<1>3. ASSUME NEW t \in Streams, NEW j \in Indices, NEW q \in Ports, cache'[t].cells[j].got[q] > 0
      PROVE  j <= EndIndex(t) /\ cache'[t].cells[j].end = (j = EndIndex(t))
  <2>1. CASE t = s /\ j = i
    <3>1. i <= EndIndex(s)
        BY <1>1, Bounds
    <3>2. ~ done
        BY <1>1, <1>3, <2>1
    <3> QED
        BY <1>1, <2>1, <3>1, <3>2, Zenon
  <2>2. CASE ~ (t = s /\ j = i)
    <3>1. cache'[t].cells[j] = cache[t].cells[j]
        BY <1>1, <2>2, Zenon
    <3>2. cache[t].cells[j].got[q] > 0
        BY <1>3, <3>1, Zenon
    <3>3. j <= EndIndex(t) /\ cache[t].cells[j].end = (j = EndIndex(t))
        BY <1>2, <3>2
    <3> QED
        BY <3>1, <3>3
  <2> QED
      BY <2>1, <2>2
<1> QED
    BY <1>1, <1>3, Zenon DEF Caches, CacheType, EndIndex

LEMMA StoredStreams ==
    ASSUME MatchInv, NEW s, NEW i, NEW p, NEW done, Stored(s, i, p, done), Looked(s, i, p),
           UNCHANGED <<mode, out>>
    PROVE  /\ Streaming'
           /\ Matched(s)' = Matched(s) \cup (IF done THEN {i} ELSE {})
           /\ \A t \in Streams \ {s} : Matched(t)' = Matched(t)
<1>1. /\ s \in Streams /\ i \in Indices /\ i \in 0 .. EndIndex(s) /\ done \in BOOLEAN
      /\ \A t \in Streams \ {s} : cache'[t] = cache[t]
      /\ cache'[s].ready = cache[s].ready \cup (IF done THEN {i} ELSE {})
      /\ cache'[s].next = cache[s].next
      /\ cache'[s].cur = cache[s].cur + One(done)
      /\ cache'[s].total = IF done /\ i = EndIndex(s) THEN i + 1 ELSE cache[s].total
    BY Zenon DEF Stored
<1>2. mode' = mode /\ out' = out
    OBVIOUS
<1>3. Streaming /\ Caches
    BY Zenon DEF MatchInv
<1>4. \A t : Handed(t)' = Handed(t) /\ Complete(t)' = Complete(t)
    BY <1>2, Zenon DEF Handed, Complete
<1>5. Matched(s)' = Matched(s) \cup (IF done THEN {i} ELSE {})
    BY <1>1, <1>4, Zenon DEF Matched
<1>6. \A t \in Streams \ {s} : Matched(t)' = Matched(t)
    BY <1>1, <1>4, Zenon DEF Matched
<1>7. ASSUME NEW t \in Streams \ {s} PROVE Progress(t)'
  <2>1. Progress(t) /\ cache'[t] = cache[t] /\ Matched(t)' = Matched(t)
      BY <1>1, <1>3, <1>6, Zenon DEF Streaming
  <2> QED
      BY <1>2, <1>4, <2>1, Zenon DEF Progress, Complete, EndIndex
<1>8. Progress(s)'
  <2>1. Progress(s)
      BY <1>1, <1>3, Zenon DEF Streaming
  <2>2. cache[s].ready \in SUBSET Indices /\ cache[s].cur \in Nat /\ IsFiniteSet(cache[s].ready)
    <3>1. cache[s].ready \in SUBSET Indices /\ cache[s].cur \in Nat
        BY <1>1, <1>3 DEF Caches
    <3> QED
        BY <3>1, Bounds, FS_Subset, Zenon
  <2>3. CASE ~ done
    <3>1. /\ cache'[s].ready = cache[s].ready /\ cache'[s].cur = cache[s].cur
          /\ cache'[s].total = cache[s].total /\ Matched(s)' = Matched(s)
        BY <1>1, <1>5, <2>2, <2>3 DEF One
    <3> QED
        BY <1>1, <1>2, <1>4, <2>1, <3>1, Zenon DEF Progress, Complete, EndIndex
  <2>4. CASE done
    <3>1. i \notin Matched(s)
        BY StoredFresh, Zenon
    <3>2. /\ cache'[s].ready = cache[s].ready \cup {i} /\ cache'[s].cur = cache[s].cur + 1
          /\ Matched(s)' = Matched(s) \cup {i}
          /\ cache'[s].total = IF i = EndIndex(s) THEN i + 1 ELSE cache[s].total
        BY <1>1, <1>5, <2>4, Zenon DEF One
    <3>3. ~ Complete(s)
        BY <1>1, <1>3, <3>1, HandedOnce, Zenon DEF Matched
    <3>4. Cardinality(cache[s].ready \cup {i}) = Cardinality(cache[s].ready) + 1
      <4>1. i \notin cache[s].ready
          BY <3>1, Zenon DEF Matched
      <4> QED
          BY <2>2, <4>1, FS_AddElement, Zenon
    <3>5. Cardinality(cache[s].ready) \in Nat /\ Len(out[s]) \in Nat
        BY <1>1, <1>3, <2>2, FS_CardinalityType, HandedOnce, Zenon
    <3>6. cache[s].cur = Len(out[s]) + Cardinality(cache[s].ready)
        BY <2>1, <3>3, Zenon DEF Progress
    <3>7. cache'[s].cur = Len(out[s]) + Cardinality(cache'[s].ready)
        BY <3>2, <3>4, <3>5, <3>6
    <3>8. cache'[s].total = IF EndIndex(s) \in Matched(s)' THEN Length[s] ELSE 0
      <4>1. cache[s].total = IF EndIndex(s) \in Matched(s) THEN Length[s] ELSE 0
          BY <2>1, <3>3, Zenon DEF Progress
      <4>2. EndIndex(s) + 1 = Length[s]
          BY <1>1, Bounds
      <4> QED
          BY <3>2, <4>1, <4>2, Zenon
    <3>9. Matched(s)' \subseteq 0 .. EndIndex(s) /\ Handed(s)' \cap cache'[s].ready = {}
      <4>1. Matched(s) \subseteq 0 .. EndIndex(s) /\ Handed(s) \cap cache[s].ready = {}
          BY <2>1, Zenon DEF Progress
      <4> QED
          BY <1>1, <1>4, <3>1, <3>2, <4>1, Zenon DEF Matched
    <3>10. cache'[s].next = Len(out[s])
        BY <1>1, <2>1, <3>3, Zenon DEF Progress
    <3>11. /\ \A j, k \in 1 .. Len(out[s]) : out[s][j] = out[s][k] => j = k
           /\ mode.order => \A k \in 1 .. Len(out[s]) : out[s][k] = k - 1
           /\ mode.gather => Len(out[s]) \in {0, Length[s]}
        BY <2>1, Zenon DEF Progress
    <3> QED
        BY <1>2, <1>4, <3>3, <3>7, <3>8, <3>9, <3>10, <3>11, Zenon DEF Progress, Complete, EndIndex
  <2> QED
      BY <1>1, <2>3, <2>4
<1>9. \A t \in Streams : Progress(t)'
    BY <1>7, <1>8, Zenon
<1>10. out' \in [Streams -> Seq(Indices)]
    BY <1>2, <1>3, Zenon DEF Streaming
<1> QED
    BY <1>5, <1>6, <1>9, <1>10, Zenon DEF Streaming

LEMMA StoredCopies ==
    ASSUME MatchInv, NEW s, NEW i, NEW p, NEW done, Stored(s, i, p, done), Looked(s, i, p),
           UNCHANGED <<mode, route, at, queue, out>>
    PROVE  CopiesInv'
<1>1. /\ s \in Streams /\ i \in Indices /\ i \in 0 .. EndIndex(s) /\ p \in Ports
      /\ \A t \in Streams \ {s} : cache'[t] = cache[t]
      /\ \A j \in Indices \ {i} : cache'[s].cells[j] = cache[s].cells[j]
      /\ \A q \in Ports : cache'[s].cells[i].got[q] =
            IF done THEN 0 ELSE cache[s].cells[i].got[q] + One(q = p)
      /\ done = (\A q \in Ports : cache[s].cells[i].got[q] + One(q = p) >= Full(s, q, i))
    BY Zenon DEF Stored
<1>2. /\ Matched(s)' = Matched(s) \cup (IF done THEN {i} ELSE {})
      /\ \A t \in Streams \ {s} : Matched(t)' = Matched(t)
    BY StoredStreams, Zenon
<1>3. i \notin Matched(s) /\ \A q \in Ports : Held(s, q, i) = SentTo(s, q, i)
    BY StoredFresh, Zenon
<1> SUFFICES ASSUME NEW t \in Streams, NEW q \in Ports, NEW j \in 0 .. EndIndex(t)
             PROVE  Copies(t, q, j)'
    BY Zenon DEF CopiesInv
<1>4. j \in Indices /\ Copies(t, q, j)
    BY Bounds, Zenon DEF MatchInv, CopiesInv
<1>5. /\ Held(t, q, j) = Occurs(queue[q], t, j) + cache[t].cells[j].got[q] + Read(t, q, j)
      /\ Occurs(queue[q], t, j) \in Nat /\ cache[t].cells[j].got[q] \in Nat
      /\ Read(t, q, j) \in Nat
    BY <1>4, HeldIs, Zenon DEF MatchInv
<1>6. /\ Read(t, q, j) = Read(t, q, j)' + One(t = s /\ q = p /\ j = i)
      /\ Read(t, q, j)' \in Nat
    BY <1>4, Zenon DEF Looked
<1>7. Held(t, q, j)' = Occurs(queue[q], t, j) + cache'[t].cells[j].got[q] + Read(t, q, j)'
  <2>1. queue' = queue
      OBVIOUS
  <2> QED
      BY <2>1, Zenon DEF Held, Read, Occurs
<1>8. SentTo(t, q, j)' = SentTo(t, q, j)
    BY SentKept, Zenon
<1>9. CASE t = s /\ j = i
  <2>1. SentTo(s, q, i) \in Nat /\ SentTo(s, q, i) <= Full(s, q, i)
      BY <1>1, SentBound, Zenon DEF MatchInv
  <2>2. Held(s, q, i) = SentTo(s, q, i)
      BY <1>3
  <2>3. Read(s, q, i) = Read(s, q, i)' + One(q = p)
      BY <1>6, <1>9, Zenon
  <2>4. Full(s, q, i) \in Nat
      BY Bounds DEF Full
  <2> DEFINE o == Occurs(queue[q], s, i)
             g == cache[s].cells[i].got[q]
             r == Read(s, q, i)'
             e == One(q = p)
  <2>5. /\ o \in Nat /\ g \in Nat /\ r \in Nat
        /\ Held(s, q, i) = o + g + (r + e)
      BY <1>5, <1>6, <1>9, <2>3, Zenon
  <2>6. Held(s, q, i)' = o + cache'[s].cells[i].got[q] + r
      BY <1>7, <1>9, Zenon
  <2>7. e \in {0, 1}
      BY DEF One, e
  <2> HIDE DEF o, g, r, e
  <2>8. CASE done
    <3>1. cache'[s].cells[i].got[q] = 0
        BY <1>1, <2>8, Zenon
    <3>2. g + e >= Full(s, q, i)
        BY <1>1, <2>8, Zenon DEF g, e
    <3>3. o = 0 /\ r = 0 /\ SentTo(s, q, i) = Full(s, q, i)
      <4>1. o + g + (r + e) <= Full(s, q, i)
          BY <2>1, <2>2, <2>5, Zenon
      <4>2. o + g + (r + e) <= g + e
          BY <2>4, <2>5, <2>7, <3>2, <4>1
      <4>3. o = 0 /\ r = 0
          BY <2>5, <2>7, <4>2
      <4>4. o + g + (r + e) = Full(s, q, i)
          BY <2>4, <2>5, <2>7, <3>2, <4>1, <4>3
      <4> QED
          BY <2>2, <2>5, <4>3, <4>4, Zenon
    <3>4. Held(s, q, i)' = 0
        BY <2>6, <3>1, <3>3
    <3>5. i \in Matched(s)'
        BY <1>2, <2>8
    <3> QED
        BY <1>8, <1>9, <3>3, <3>4, <3>5, Zenon DEF Copies, Full, EndIndex
  <2>9. CASE ~ done
    <3>1. cache'[s].cells[i].got[q] = g + e
        BY <1>1, <2>9, Zenon DEF g, e
    <3>2. Held(s, q, i)' = SentTo(s, q, i)
        BY <2>2, <2>5, <2>6, <2>7, <3>1
    <3>3. i \notin Matched(s)'
        BY <1>2, <1>3, <2>9
    <3> QED
        BY <1>8, <1>9, <3>2, <3>3, Zenon DEF Copies
  <2> QED
      BY <2>8, <2>9
<1>10. CASE ~ (t = s /\ j = i)
  <2>1. cache'[t].cells[j] = cache[t].cells[j]
      BY <1>1, <1>4, <1>10, Zenon
  <2>2. Read(t, q, j)' = Read(t, q, j)
    <3>1. One(t = s /\ q = p /\ j = i) = 0
        BY <1>10, Zenon DEF One
    <3> QED
        BY <1>6, <3>1
  <2>3. j \in Matched(t)' <=> j \in Matched(t)
      BY <1>2, <1>10, Zenon
  <2>4. Held(t, q, j)' = Held(t, q, j)
      BY <1>5, <1>7, <2>1, <2>2, Zenon
  <2> QED
      BY <1>4, <1>8, <2>3, <2>4, Zenon DEF Copies, Full, EndIndex
<1> QED
    BY <1>9, <1>10

(* The buffers a port has in cells, and those that are ready. *)
Partial(q) == {b \in Streams \X Indices : cache[b[1]].cells[b[2]].got[q] > 0}
Ready == {b \in Streams \X Indices : b[2] \in cache[b[1]].ready}

LEMMA CountIs ==
    /\ CountIsCache <=> \A q \in Ports : count[q] = Cardinality(Partial(q)) + Cardinality(Ready)
    /\ \A q : /\ Partial(q) \in SUBSET (Streams \X Indices) /\ IsFiniteSet(Partial(q))
              /\ Cardinality(Partial(q)) \in Nat
    /\ Ready \in SUBSET (Streams \X Indices) /\ IsFiniteSet(Ready) /\ Cardinality(Ready) \in Nat
<1>1. CountIsCache <=> \A q \in Ports : count[q] = Cardinality(Partial(q)) + Cardinality(Ready)
    BY Zenon DEF CountIsCache, Partial, Ready
<1>2. ASSUME NEW q
      PROVE  /\ Partial(q) \in SUBSET (Streams \X Indices) /\ IsFiniteSet(Partial(q))
             /\ Cardinality(Partial(q)) \in Nat
  <2>1. Partial(q) \in SUBSET (Streams \X Indices)
      BY Zenon DEF Partial
  <2>2. IsFiniteSet(Partial(q))
      BY <2>1, Bounds, FS_Subset, Zenon
  <2> QED
      BY <2>1, <2>2, FS_CardinalityType, Zenon
<1>3. Ready \in SUBSET (Streams \X Indices)
    BY Zenon DEF Ready
<1>4. IsFiniteSet(Ready)
    BY <1>3, Bounds, FS_Subset, Zenon
<1> QED
    BY <1>1, <1>2, <1>3, <1>4, FS_CardinalityType, Zenon

LEMMA StoredCount ==
    ASSUME MatchInv, NEW s, NEW i, NEW p, NEW done, Stored(s, i, p, done), Looked(s, i, p)
    PROVE  CountIsCache' /\ Window'
<1> DEFINE e == <<s, i>>
           g(q) == cache[s].cells[i].got[q]
<1>1. /\ s \in Streams /\ i \in Indices /\ i \in 0 .. EndIndex(s) /\ p \in Ports /\ done \in BOOLEAN
      /\ \A t \in Streams \ {s} : cache'[t] = cache[t]
      /\ \A j \in Indices \ {i} : cache'[s].cells[j] = cache[s].cells[j]
      /\ \A q \in Ports : cache'[s].cells[i].got[q] = IF done THEN 0 ELSE g(q) + One(q = p)
      /\ cache'[s].ready = cache[s].ready \cup (IF done THEN {i} ELSE {})
      /\ done = (\A q \in Ports : g(q) + One(q = p) >= Full(s, q, i))
      /\ count' = [count EXCEPT ![p] = count[p] + One(g(p) = 0)]
    BY Zenon DEF Stored
<1>2. i \notin cache[s].ready
    BY StoredFresh, Zenon DEF Matched
<1>3. \A q \in Ports : g(q) \in Nat
    BY <1>1, SMTT(30) DEF MatchInv, Caches, Cell
<1>4. /\ e \in Streams \X Indices /\ e[1] = s /\ e[2] = i
      /\ \A b \in Streams \X Indices : /\ b[1] \in Streams /\ b[2] \in Indices
                                       /\ b # e => ~ (b[1] = s /\ b[2] = i)
    BY <1>1
<1> HIDE DEF e, g
<1>5. \A q : Partial(q)' = {b \in Streams \X Indices : cache'[b[1]].cells[b[2]].got[q] > 0}
    BY Zenon DEF Partial
<1>6. Ready' = {b \in Streams \X Indices : b[2] \in cache'[b[1]].ready}
    BY Zenon DEF Ready
<1>7. \A q : e \in Partial(q) <=> g(q) > 0
    BY <1>4, Zenon DEF Partial, g
<1>8. e \notin Ready
    BY <1>2, <1>4, Zenon DEF Ready
<1>9. ASSUME NEW b \in Streams \X Indices, b # e
      PROVE  /\ \A q : b \in Partial(q)' <=> b \in Partial(q)
             /\ b \in Ready' <=> b \in Ready
  <2>1. b[1] \in Streams /\ b[2] \in Indices /\ ~ (b[1] = s /\ b[2] = i)
      BY <1>4, <1>9, Zenon
  <2>2. cache'[b[1]].cells[b[2]] = cache[b[1]].cells[b[2]]
      BY <1>1, <2>1, Zenon
  <2>3. b[2] \in cache'[b[1]].ready <=> b[2] \in cache[b[1]].ready
      BY <1>1, <2>1, Zenon
  <2>4. \A q : b \in Partial(q)' <=> b \in Partial(q)
      BY <1>5, <2>2, Zenon DEF Partial
  <2>5. b \in Ready' <=> b \in Ready
      BY <1>6, <2>3, Zenon DEF Ready
  <2> QED
      BY <2>4, <2>5, Zenon
<1>10. \A q \in Ports : e \in Partial(q)' <=> (~ done /\ g(q) + One(q = p) > 0)
  <2> SUFFICES ASSUME NEW q \in Ports
               PROVE  e \in Partial(q)' <=> (~ done /\ g(q) + One(q = p) > 0)
      BY Zenon
  <2>1. e \in Partial(q)' <=> cache'[s].cells[i].got[q] > 0
      BY <1>4, <1>5, Zenon
  <2>2. CASE done
      BY <1>1, <2>1, <2>2
  <2>3. CASE ~ done
      BY <1>1, <2>1, <2>3, Zenon
  <2> QED
      BY <2>2, <2>3
<1>11. e \in Ready' <=> done
    BY <1>1, <1>2, <1>4, <1>6, Zenon
<1>12. \A q : Partial(q)' \in SUBSET (Streams \X Indices)
    BY <1>5, Zenon
<1>13. Ready' \in SUBSET (Streams \X Indices)
    BY <1>6, Zenon
<1>14. /\ \A q \in Ports : count[q] = Cardinality(Partial(q)) + Cardinality(Ready)
       /\ \A q : /\ Partial(q) \in SUBSET (Streams \X Indices) /\ IsFiniteSet(Partial(q))
                 /\ Cardinality(Partial(q)) \in Nat
       /\ Ready \in SUBSET (Streams \X Indices) /\ IsFiniteSet(Ready) /\ Cardinality(Ready) \in Nat
    BY CountIs, Zenon DEF MatchInv
<1>15. count \in [Ports -> Nat] /\ \A q \in Ports : count[q] + Reading(q) <= MaxCache
    BY Zenon DEF MatchInv, Window
<1>16. \A q \in Ports : count'[q] = count[q] + (IF q = p /\ g(p) = 0 THEN 1 ELSE 0)
    BY <1>1, <1>15 DEF One
<1>17. ASSUME NEW q \in Ports PROVE count'[q] = Cardinality(Partial(q)') + Cardinality(Ready')
  <2>1. CASE done
    <3>1. Partial(q)' = Partial(q) \ {e}
        BY <1>9, <1>10, <1>12, <1>14, <2>1, Zenon
    <3>2. Ready' = Ready \cup {e}
        BY <1>4, <1>9, <1>11, <1>13, <1>14, <2>1, Zenon
    <3>3. Cardinality(Ready') = Cardinality(Ready) + 1
        BY <1>8, <1>14, <3>2, FS_AddElement, Zenon
    <3>4. Cardinality(Partial(q)') = IF e \in Partial(q) THEN Cardinality(Partial(q)) - 1
                                     ELSE Cardinality(Partial(q))
        BY <1>14, <3>1, FS_RemoveElement, Zenon
    <3>5. e \in Partial(q) <=> ~ (q = p /\ g(p) = 0)
      <4>1. CASE q = p
        <5>1. g(p) \in Nat /\ (e \in Partial(q) <=> g(p) > 0)
            BY <1>1, <1>3, <1>7, <4>1, Zenon
        <5> QED
            BY <4>1, <5>1
      <4>2. CASE q # p
        <5>1. g(q) + One(q = p) >= Full(s, q, i)
            BY <1>1, <2>1, Zenon
        <5>2. One(q = p) = 0
            BY <4>2 DEF One
        <5>3. Full(s, q, i) \in Nat \ {0}
            BY Bounds DEF Full
        <5>4. g(q) > 0
            BY <1>3, <5>1, <5>2, <5>3
        <5> QED
            BY <1>7, <4>2, <5>4, Zenon
      <4> QED
          BY <4>1, <4>2
    <3> QED
        BY <1>14, <1>16, <3>3, <3>4, <3>5
  <2>2. CASE ~ done
    <3>1. Ready' = Ready
      <4>1. \A b \in Streams \X Indices : b \in Ready' <=> b \in Ready
          BY <1>8, <1>9, <1>11, <2>2, Zenon
      <4> QED
          BY <1>13, <1>14, <4>1, Zenon
    <3>2. CASE q = p
      <4>1. g(q) + One(q = p) > 0
          BY <1>3, <3>2 DEF One
      <4>2. Partial(q)' = Partial(q) \cup {e}
          BY <1>4, <1>9, <1>10, <1>12, <1>14, <2>2, <4>1, Zenon
      <4>3. Cardinality(Partial(q)') = IF e \in Partial(q) THEN Cardinality(Partial(q))
                                       ELSE Cardinality(Partial(q)) + 1
          BY <1>14, <4>2, FS_AddElement, Zenon
      <4>4. g(p) \in Nat /\ (e \in Partial(q) <=> g(p) > 0)
          BY <1>1, <1>3, <1>7, <3>2, Zenon
      <4> QED
          BY <1>14, <1>16, <3>1, <3>2, <4>3, <4>4
    <3>3. CASE q # p
      <4>1. One(q = p) = 0 /\ g(q) \in Nat
          BY <1>3, <3>3 DEF One
      <4>2. g(q) + One(q = p) > 0 <=> g(q) > 0
          BY <4>1
      <4>3. Partial(q)' = Partial(q)
        <5>1. \A b \in Streams \X Indices : b \in Partial(q)' <=> b \in Partial(q)
            BY <1>7, <1>9, <1>10, <2>2, <4>2, Zenon
        <5>2. Partial(q)' \in SUBSET (Streams \X Indices) /\ Partial(q) \in SUBSET (Streams \X Indices)
            BY <1>12, <1>14
        <5> QED
            BY <5>1, <5>2, Zenon
      <4> QED
          BY <1>14, <1>15, <1>16, <3>1, <3>3, <4>3
    <3> QED
        BY <3>2, <3>3
  <2> QED
      BY <1>1, <2>1, <2>2
<1>18. CountIsCache'
    BY <1>17, Zenon DEF CountIsCache, Partial, Ready
<1>19. Window'
  <2>1. count' \in [Ports -> Nat]
      BY <1>1, <1>15 DEF One
  <2>2. ASSUME NEW q \in Ports PROVE count'[q] + Reading(q)' <= MaxCache
    <3>1. Reading(q) = Reading(q)' + One(q = p) /\ Reading(q)' \in Nat
        BY Zenon DEF Looked
    <3>2. count[q] \in Nat /\ count[q] + Reading(q) <= MaxCache /\ MaxCache \in Nat
        BY <1>15, Bounds
    <3>3. count'[q] <= count[q] + One(q = p)
        BY <1>15, <1>16 DEF One
    <3>4. One(q = p) \in {0, 1} /\ count'[q] \in Nat
        BY <2>1 DEF One
    <3> QED
        BY <3>1, <3>2, <3>3, <3>4
  <2> QED
      BY <2>1, <2>2, Zenon DEF Window
<1> QED
    BY <1>18, <1>19

LEMMA CacheStep ==
    ASSUME MatchInv, CacheBuffer
    PROVE  MatchInv'
<1> DEFINE s == Head(run.batch).key
           i == Head(run.batch).orig
           p == Port
<1>1. PICK done \in BOOLEAN : Stored(s, i, p, done)
    BY CacheStores, Zenon
<1>2. Looked(s, i, p) /\ Running' /\ UNCHANGED <<mode, route, at, queue, out>>
    BY CacheLooks, Zenon
<1> HIDE DEF s, i, p
<1>3. mode' = mode /\ route' = route /\ at' = at /\ queue' = queue /\ out' = out
    BY <1>2
<1>4. Routes' /\ Senders' /\ Queues'
    BY <1>3, Zenon DEF MatchInv, Routes, Senders, Queues
<1>5. Caches'
    BY <1>1, StoredCaches, Zenon
<1>6. Streaming'
    BY <1>1, <1>2, <1>3, StoredStreams, Zenon
<1>7. CopiesInv'
    BY <1>1, <1>2, StoredCopies, Zenon
<1>8. CountIsCache' /\ Window'
    BY <1>1, <1>2, StoredCount, Zenon
<1> QED
    BY <1>2, <1>4, <1>5, <1>6, <1>7, <1>8, Zenon DEF MatchInv

-----------------------------------------------------------------------------
(* GenMatchStreamData hands on what is ready. *)

LEMMA MatchedCount ==
    ASSUME MatchInv, NEW s \in Streams
    PROVE  /\ cache[s].ready \in SUBSET Indices /\ IsFiniteSet(cache[s].ready)
           /\ Cardinality(cache[s].ready) \in Nat
           /\ Len(out[s]) + Cardinality(cache[s].ready) <= Length[s]
           /\ Len(out[s]) + Cardinality(cache[s].ready) = Length[s] => Matched(s) = 0 .. EndIndex(s)
<1>1. /\ IsFiniteSet(Handed(s)) /\ Cardinality(Handed(s)) = Len(out[s]) /\ Len(out[s]) \in Nat
      /\ IsFiniteSet(0 .. EndIndex(s)) /\ Cardinality(0 .. EndIndex(s)) = Length[s]
    BY HandedOnce, Zenon DEF MatchInv
<1>2. cache[s].ready \in SUBSET Indices
    BY DEF MatchInv, Caches
<1>3. IsFiniteSet(cache[s].ready) /\ Cardinality(cache[s].ready) \in Nat
    BY <1>2, Bounds, FS_Subset, FS_CardinalityType, Zenon
<1>4. Matched(s) \in SUBSET (0 .. EndIndex(s)) /\ Handed(s) \cap cache[s].ready = {}
    BY Zenon DEF MatchInv, Streaming, Progress
<1>5. Cardinality(Matched(s)) = Len(out[s]) + Cardinality(cache[s].ready)
  <2>1. Cardinality(Handed(s) \cup cache[s].ready)
          = Cardinality(Handed(s)) + Cardinality(cache[s].ready) - Cardinality(Handed(s) \cap cache[s].ready)
      BY <1>1, <1>3, FS_Union, Zenon
  <2>2. Cardinality(Handed(s) \cap cache[s].ready) = 0
      BY <1>4, FS_EmptySet, Zenon
  <2> QED
      BY <1>1, <1>3, <2>1, <2>2 DEF Matched
<1>6. /\ Cardinality(Matched(s)) <= Cardinality(0 .. EndIndex(s))
      /\ Cardinality(0 .. EndIndex(s)) = Cardinality(Matched(s)) => 0 .. EndIndex(s) = Matched(s)
    BY <1>1, <1>4, FS_Subset, Zenon
<1> QED
    BY <1>1, <1>2, <1>3, <1>5, <1>6, Zenon

LEMMA EndOfStream ==
    ASSUME MatchInv, NEW s \in Streams
    PROVE  /\ IsStreamEnd(cache[s]) <=>
                ~ Complete(s) /\ Len(out[s]) + Cardinality(cache[s].ready) = Length[s]
           /\ ~ Complete(s) => cache[s].next = Len(out[s])
           /\ Complete(s) => cache[s].ready = {} /\ cache[s].total = 0
           /\ ~ Complete(s) /\ cache[s].total # 0 => cache[s].total = Length[s]
<1>1. Progress(s) /\ Length[s] \in Nat \ {0} /\ EndIndex(s) \in 0 .. EndIndex(s)
    BY Bounds DEF MatchInv, Streaming
<1>2. Complete(s) => cache[s].ready = {} /\ cache[s].total = 0
    BY <1>1, Zenon DEF Progress
<1>3. ~ Complete(s) => /\ cache[s].next = Len(out[s])
                       /\ cache[s].cur = Len(out[s]) + Cardinality(cache[s].ready)
                       /\ cache[s].total = IF EndIndex(s) \in Matched(s) THEN Length[s] ELSE 0
    BY <1>1, Zenon DEF Progress
<1>4. Len(out[s]) + Cardinality(cache[s].ready) = Length[s] => Matched(s) = 0 .. EndIndex(s)
    BY MatchedCount, Zenon
<1>5. IsStreamEnd(cache[s]) <=> cache[s].total # 0 /\ cache[s].cur = cache[s].total
    BY Zenon DEF IsStreamEnd
<1>6. CASE Complete(s)
    BY <1>2, <1>5, <1>6, Zenon
<1>7. CASE ~ Complete(s)
  <2>1. Length[s] # 0
      BY <1>1
  <2>2. CASE EndIndex(s) \in Matched(s)
      BY <1>3, <1>5, <1>7, <2>1, <2>2, Zenon
  <2>3. CASE EndIndex(s) \notin Matched(s)
      BY <1>1, <1>3, <1>4, <1>5, <1>7, <2>3, Zenon
  <2> QED
      BY <2>2, <2>3
<1> QED
    BY <1>6, <1>7

Popped(s) == PopReadyMatchBuffers(cache[s])

(* What PopReadyMatchBuffers lets go: the rest of a stream that ends, and
   the next ones of a stream that is kept in order. *)
LEMMA PoppedIs ==
    ASSUME MatchInv, NEW s \in Streams
    PROVE  /\ Popped(s) \in SUBSET cache[s].ready
           /\ IsFiniteSet(Popped(s)) /\ Cardinality(Popped(s)) \in Nat
           /\ IsStreamEnd(cache[s]) => Popped(s) = cache[s].ready
           /\ ~ Complete(s) /\ ~ IsStreamEnd(cache[s]) =>
                  Len(out[s]) + Cardinality(Popped(s)) < Length[s]
           /\ mode.order =>
                  Popped(s) = Len(out[s]) .. Len(out[s]) + Cardinality(Popped(s)) - 1
           /\ mode.gather => \/ Popped(s) = {}
                             \/ Len(out[s]) = 0 /\ Cardinality(Popped(s)) = Length[s]
<1> DEFINE R == cache[s].ready
           D == Popped(s)
           n == Len(out[s])
           E == EndIndex(s)
<1>1. /\ R \in SUBSET Indices /\ IsFiniteSet(R) /\ Cardinality(R) \in Nat
      /\ n + Cardinality(R) <= Length[s]
      /\ n + Cardinality(R) = Length[s] => Matched(s) = 0 .. E
    BY MatchedCount, Zenon
<1>2. /\ IsStreamEnd(cache[s]) <=> ~ Complete(s) /\ n + Cardinality(R) = Length[s]
      /\ ~ Complete(s) => cache[s].next = n
      /\ Complete(s) => R = {} /\ cache[s].total = 0
      /\ ~ Complete(s) /\ cache[s].total # 0 => cache[s].total = Length[s]
    BY EndOfStream, Zenon
<1>3. n \in Nat /\ Length[s] \in Nat \ {0} /\ E \in Nat /\ Indices \subseteq Nat
    BY HandedOnce, Bounds, Zenon DEF MatchInv
<1>4. D \in SUBSET R
    BY Zenon DEF Popped, PopReadyMatchBuffers
<1>5. D = IF mode.gather /\ (cache[s].total = 0 \/ Cardinality(R) # cache[s].total) THEN {}
          ELSE {i \in R : mode.order => cache[s].next .. i \subseteq R}
    BY Zenon DEF Popped, PopReadyMatchBuffers
<1>6. IsFiniteSet(D) /\ Cardinality(D) <= Cardinality(R)
    BY <1>1, <1>4, FS_Subset, Zenon
<1>7. Cardinality(D) \in Nat
    BY <1>6, FS_CardinalityType, Zenon
<1>8. ASSUME mode.order
      PROVE  \A x : x \in Handed(s) <=> x \in 0 .. n - 1
  <2>1. \A k \in 1 .. n : out[s][k] = k - 1
      BY <1>8, Zenon DEF MatchInv, Streaming, Progress
  <2>2. \A k \in 1 .. n : k - 1 \in 0 .. n - 1
      BY <1>3
  <2>3. \A x \in 0 .. n - 1 : x + 1 \in 1 .. n /\ x + 1 - 1 = x
      BY <1>3
  <2>4. Handed(s) = {out[s][k] : k \in 1 .. n}
      BY Zenon DEF Handed
  <2> HIDE DEF n
  <2>5. \A x \in Handed(s) : x \in 0 .. n - 1
      BY <2>1, <2>2, <2>4, Zenon
  <2>6. ASSUME NEW x \in 0 .. n - 1 PROVE x \in Handed(s)
    <3>1. x + 1 \in 1 .. n /\ out[s][x + 1] = x
        BY <2>1, <2>3
    <3> QED
        BY <2>4, <3>1, Zenon
  <2> QED
      BY <2>5, <2>6, Zenon
<1>9. R \in SUBSET (0 .. E) /\ Handed(s) \cap R = {}
    BY Zenon DEF MatchInv, Streaming, Progress, Matched
<1>10. \A x : x \in Matched(s) <=> x \in Handed(s) \/ x \in R
    BY Zenon DEF Matched
<1>11. mode.gather => n \in {0, Length[s]}
    BY Zenon DEF MatchInv, Streaming, Progress
<1>12. Complete(s) <=> n = Length[s]
    BY Zenon DEF Complete
<1> HIDE DEF D, R, n, E
<1>13. ASSUME IsStreamEnd(cache[s]) PROVE D = R
  <2>1. ~ Complete(s) /\ n + Cardinality(R) = Length[s] /\ Matched(s) = 0 .. E /\ cache[s].next = n
      BY <1>1, <1>2, <1>13, Zenon
  <2>2. cache[s].total = Length[s]
      BY <1>2, <1>13, <2>1, Zenon DEF IsStreamEnd
  <2>3. ~ (mode.gather /\ (cache[s].total = 0 \/ Cardinality(R) # cache[s].total))
      BY <1>1, <1>3, <1>11, <1>12, <2>1, <2>2
  <2>4. ASSUME NEW i \in R, mode.order PROVE n .. i \subseteq R
    <3>1. ASSUME NEW x \in n .. i PROVE x \in 0 .. E /\ x \notin 0 .. n - 1
        BY <1>3, <1>9
    <3> QED
        BY <1>8, <1>10, <2>1, <2>4, <3>1, Zenon
  <2> QED
      BY <1>5, <2>1, <2>3, <2>4, Zenon
<1>14. ASSUME ~ Complete(s), ~ IsStreamEnd(cache[s]) PROVE n + Cardinality(D) < Length[s]
    BY <1>1, <1>2, <1>3, <1>6, <1>7, <1>14
<1>15. ASSUME mode.order PROVE D = n .. n + Cardinality(D) - 1
  <2>1. ASSUME D = {} PROVE D = n .. n + Cardinality(D) - 1
    <3>1. Cardinality(D) = 0
        BY <2>1, FS_EmptySet, Zenon
    <3> QED
        BY <1>3, <2>1, <3>1
  <2>2. CASE Complete(s)
      BY <1>2, <1>4, <2>1, <2>2, Zenon
  <2>3. CASE ~ Complete(s)
    <3>1. CASE mode.gather /\ (cache[s].total = 0 \/ Cardinality(R) # cache[s].total)
        BY <1>5, <2>1, <3>1, Zenon
    <3>2. CASE ~ (mode.gather /\ (cache[s].total = 0 \/ Cardinality(R) # cache[s].total))
      <4>1. \A i : i \in D <=> i \in R /\ n .. i \subseteq R
          BY <1>2, <1>5, <1>15, <2>3, <3>2, Zenon
      <4>2. D \in SUBSET (n .. E)
        <5>1. ASSUME NEW i \in D PROVE i \in n .. E
          <6>1. i \in 0 .. E /\ i \notin 0 .. n - 1
              BY <1>4, <1>8, <1>9, <1>15, Zenon
          <6> QED
              BY <1>3, <6>1
        <5> QED
            BY <5>1, Zenon
      <4>3. ASSUME NEW x \in D, NEW y \in n .. E, y < x PROVE y \in D
        <5>1. x \in n .. E
            BY <4>2
        <5>2. y \in n .. x /\ n .. y \subseteq n .. x
            BY <1>3, <4>3, <5>1
        <5> QED
            BY <4>1, <5>2, Zenon
      <4> QED
          BY <1>3, <4>2, <4>3, FirstOnes, Zenon
    <3> QED
        BY <3>1, <3>2
  <2> QED
      BY <2>2, <2>3
<1>16. ASSUME mode.gather PROVE D = {} \/ (n = 0 /\ Cardinality(D) = Length[s])
  <2>1. CASE Complete(s)
      BY <1>2, <1>4, <2>1, Zenon
  <2>2. CASE cache[s].total = 0 \/ Cardinality(R) # cache[s].total
      BY <1>5, <1>16, <2>2, Zenon
  <2>3. CASE ~ Complete(s) /\ cache[s].total # 0 /\ Cardinality(R) = cache[s].total
    <3>1. Cardinality(R) = Length[s]
        BY <1>2, <2>3, Zenon
    <3>2. n = 0 /\ n + Cardinality(R) = Length[s]
        BY <1>1, <1>3, <3>1
    <3>3. D = R
        BY <1>2, <1>13, <2>3, <3>2, Zenon
    <3> QED
        BY <3>1, <3>2, <3>3, Zenon
  <2> QED
      BY <2>1, <2>2, <2>3
<1> QED
    BY <1>4, <1>6, <1>7, <1>13, <1>14, <1>15, <1>16, Zenon DEF D, R, n

(* The sequence of a stream grows by what is popped, in ascending order. *)
LEMMA HandOn ==
    ASSUME MatchInv, NEW s \in Streams
    PROVE  LET o == out[s] \o Ascending(Popped(s))
               n == Len(out[s])
           IN  /\ o \in Seq(Indices) /\ Len(o) = n + Cardinality(Popped(s))
               /\ {o[k] : k \in 1 .. Len(o)} = Handed(s) \cup Popped(s)
               /\ \A j, k \in 1 .. Len(o) : o[j] = o[k] => j = k
               /\ mode.order => \A k \in 1 .. Len(o) : o[k] = k - 1
<1> DEFINE D == Popped(s)
           q == Ascending(D)
           o == out[s] \o q
           n == Len(out[s])
           m == Cardinality(D)
<1>1. /\ D \in SUBSET cache[s].ready /\ IsFiniteSet(D) /\ m \in Nat
      /\ mode.order => D = n .. n + m - 1
    BY PoppedIs, Zenon
<1>2. cache[s].ready \in SUBSET Indices /\ Indices \subseteq Nat
    BY MatchedCount, Bounds, Zenon
<1>3. out[s] \in Seq(Indices) /\ n \in Nat
    BY HandedOnce, Zenon DEF MatchInv
<1>4. D \in SUBSET Nat /\ D \in SUBSET Indices
    BY <1>1, <1>2, Zenon
<1>5. \A j, k \in 1 .. n : out[s][j] = out[s][k] => j = k
    BY Zenon DEF MatchInv, Streaming, Progress
<1>6. Handed(s) \cap cache[s].ready = {}
    BY Zenon DEF MatchInv, Streaming, Progress
<1>7. Handed(s) = {out[s][k] : k \in 1 .. n}
    BY Zenon DEF Handed
<1>8. mode.order => \A k \in 1 .. n : out[s][k] = k - 1
    BY Zenon DEF MatchInv, Streaming, Progress
<1> HIDE DEF D
<1>9. /\ q \in Seq(D) /\ Len(q) = m
      /\ \A k \in 1 .. m : Cardinality({j \in D : j < q[k]}) = k - 1
      /\ \A i \in D : \E k \in 1 .. m : q[k] = i
      /\ \A j, k \in 1 .. m : q[j] = q[k] => j = k
    BY <1>1, <1>4, AscendingLists, Zenon
<1> HIDE DEF q, m, n
<1>10. \A k \in 1 .. m : q[k] \in D
    BY <1>9
<1>11. q \in Seq(Indices)
    BY <1>4, <1>9, SeqMonotonic, Zenon
<1>12. o \in Seq(Indices) /\ Len(o) = n + m
    BY <1>3, <1>9, <1>11 DEF n
<1>13. /\ \A k \in 1 .. n : o[k] = out[s][k]
       /\ \A k \in 1 .. m : o[n + k] = q[k]
    BY <1>1, <1>3, <1>9, <1>11 DEF n
<1> HIDE DEF o
<1>14. ASSUME NEW k \in 1 .. n + m, k \notin 1 .. n
       PROVE  k - n \in 1 .. m /\ o[k] = q[k - n]
  <2>1. k - n \in 1 .. m /\ n + (k - n) = k
      BY <1>1, <1>3, <1>14
  <2> QED
      BY <1>13, <2>1
<1>15. \A k \in 1 .. n : k \in 1 .. n + m
    BY <1>1, <1>3
<1>16. \A k \in 1 .. m : n + k \in 1 .. n + m
    BY <1>1, <1>3
<1>17. {o[k] : k \in 1 .. n + m} = Handed(s) \cup D
  <2>1. ASSUME NEW k \in 1 .. n + m PROVE o[k] \in Handed(s) \cup D
    <3>1. CASE k \in 1 .. n
        BY <1>7, <1>13, <3>1, Zenon
    <3>2. CASE k \notin 1 .. n
        BY <1>10, <1>14, <3>2, Zenon
    <3> QED
        BY <3>1, <3>2
  <2>2. ASSUME NEW x \in Handed(s) PROVE \E k \in 1 .. n + m : o[k] = x
      BY <1>7, <1>13, <1>15, Zenon
  <2>3. ASSUME NEW x \in D PROVE \E k \in 1 .. n + m : o[k] = x
    <3>1. PICK k \in 1 .. m : q[k] = x
        BY <1>9, Zenon
    <3>2. o[n + k] = x /\ n + k \in 1 .. n + m
        BY <1>13, <1>16, <3>1, Zenon
    <3> QED
        BY <3>2, Zenon
  <2> QED
      BY <2>1, <2>2, <2>3, Zenon
<1>18. ASSUME NEW j \in 1 .. n + m, NEW k \in 1 .. n + m, o[j] = o[k] PROVE j = k
  <2>1. ASSUME NEW x \in 1 .. n, NEW y \in 1 .. n + m, y \notin 1 .. n PROVE o[x] # o[y]
    <3>1. o[x] \in Handed(s)
        BY <1>7, <1>13, Zenon
    <3>2. o[y] \in cache[s].ready
        BY <1>1, <1>10, <1>14, <2>1, Zenon
    <3> QED
        BY <1>6, <3>1, <3>2, Zenon
  <2>2. CASE j \in 1 .. n /\ k \in 1 .. n
      BY <1>5, <1>13, <1>18, <2>2, Zenon
  <2>3. CASE j \notin 1 .. n /\ k \notin 1 .. n
    <3>1. j - n = k - n
      <4>1. j - n \in 1 .. m /\ k - n \in 1 .. m /\ q[j - n] = q[k - n]
          BY <1>14, <1>18, <2>3, Zenon
      <4>2. \A x, y \in 1 .. m : q[x] = q[y] => x = y
          BY <1>9
      <4> QED
          BY <4>1, <4>2, Zenon
    <3> QED
        BY <1>1, <1>3, <3>1
  <2>4. CASE j \in 1 .. n /\ k \notin 1 .. n
      BY <1>18, <2>1, <2>4, Zenon
  <2>5. CASE j \notin 1 .. n /\ k \in 1 .. n
      BY <1>18, <2>1, <2>5, Zenon
  <2> QED
      BY <2>2, <2>3, <2>4, <2>5
<1>19. ASSUME mode.order, NEW k \in 1 .. n + m PROVE o[k] = k - 1
  <2>1. CASE k \in 1 .. n
      BY <1>8, <1>13, <1>19, <2>1, Zenon
  <2>2. CASE k \notin 1 .. n
    <3> DEFINE x == q[k - n]
    <3>1. k - n \in 1 .. m /\ o[k] = x
        BY <1>14, <2>2, Zenon
    <3>2. x \in D /\ D = n .. n + m - 1 /\ Cardinality({j \in D : j < x}) = k - n - 1
        BY <1>1, <1>9, <1>10, <1>19, <3>1, Zenon
    <3> HIDE DEF x
    <3>3. {j \in D : j < x} = n .. x - 1
        BY <1>1, <1>3, <3>2
    <3>4. x - 1 \in Int /\ x - 1 >= n - 1 /\ x - 1 - n + 1 = x - n
        BY <1>1, <1>3, <3>2
    <3>5. Cardinality(n .. x - 1) = x - 1 - n + 1
        BY <1>3, <3>4, Interval, Zenon
    <3>6. k - n - 1 = x - n
        BY <3>2, <3>3, <3>4, <3>5, Zenon
    <3>7. x \in Int /\ k \in Int
        BY <1>1, <1>3, <3>2
    <3> QED
        BY <1>3, <3>1, <3>6, <3>7
  <2> QED
      BY <2>1, <2>2
<1> QED
    BY <1>12, <1>17, <1>18, <1>19, Zenon DEF o, q, D, n, m

(* A cell that is left when its stream ends is an empty one. *)
LEMMA NoCellLeft ==
    ASSUME MatchInv, NEW s \in Streams, Matched(s) = 0 .. EndIndex(s),
           NEW i \in Indices, NEW p \in Ports
    PROVE  cache[s].cells[i].got[p] = 0
<1>1. /\ Held(s, p, i) = Occurs(queue[p], s, i) + cache[s].cells[i].got[p] + Read(s, p, i)
      /\ Occurs(queue[p], s, i) \in Nat /\ cache[s].cells[i].got[p] \in Nat /\ Read(s, p, i) \in Nat
    BY HeldIs, Zenon DEF MatchInv
<1>2. CASE i <= EndIndex(s)
  <2>1. i \in 0 .. EndIndex(s)
    <3>1. i \in Nat /\ EndIndex(s) \in Nat
        BY Bounds, Zenon
    <3> QED
        BY <1>2, <3>1
  <2>2. Held(s, p, i) = 0
      BY <2>1, Zenon DEF MatchInv, CopiesInv, Copies
  <2> DEFINE o == Occurs(queue[p], s, i)
             g == cache[s].cells[i].got[p]
             r == Read(s, p, i)
  <2>3. o \in Nat /\ g \in Nat /\ r \in Nat /\ 0 = o + g + r
      BY <1>1, <2>2, Zenon
  <2> HIDE DEF o, g, r
  <2>4. g = 0
      BY <2>3
  <2> QED
      BY <2>4 DEF g
<1>3. CASE ~ (i <= EndIndex(s))
  <2>1. ~ (cache[s].cells[i].got[p] > 0)
      BY <1>3, Zenon DEF MatchInv, Caches
  <2> QED
      BY <1>1, <2>1
<1> QED
    BY <1>2, <1>3

LEMMA FreshType ==
    /\ Fresh \in CacheType /\ Fresh.ready = {} /\ Fresh.next = 0 /\ Fresh.cur = 0 /\ Fresh.total = 0
    /\ \A i \in Indices, p \in Ports : Fresh.cells[i].got[p] = 0
<1>1. NoCell \in Cell /\ \A p \in Ports : NoCell.got[p] = 0
    BY DEF NoCell, Cell
<1>2. Fresh.cells = [i \in Indices |-> NoCell] /\ Fresh.ready = {} /\ Fresh.next = 0
    BY DEF Fresh
<1>3. Fresh.cur = 0 /\ Fresh.total = 0
    BY DEF Fresh
<1>4. [i \in Indices |-> NoCell] \in [Indices -> Cell]
    BY <1>1
<1>5. 0 \in Nat /\ {} \in SUBSET Indices
    OBVIOUS
<1>6. Fresh \in CacheType
    BY <1>4, <1>5, Zenon DEF Fresh, CacheType
<1>7. \A i \in Indices, p \in Ports : Fresh.cells[i].got[p] = 0
    BY <1>1, <1>2
<1> QED
    BY <1>2, <1>3, <1>6, <1>7

(* What a step of GenMatchStreamData leaves in the cache of a stream. *)
Emptied(s) ==
    /\ cache'[s] \in CacheType
    /\ out'[s] = out[s] \o Ascending(Popped(s))
    /\ cache'[s].ready = cache[s].ready \ Popped(s)
    /\ \A i \in Indices, p \in Ports : cache'[s].cells[i].got[p] = cache[s].cells[i].got[p]
    /\ IsStreamEnd(cache[s]) =>
          cache'[s].next = 0 /\ cache'[s].cur = 0 /\ cache'[s].total = 0 /\ cache'[s].ready = {}
    /\ ~ IsStreamEnd(cache[s]) =>
          /\ cache'[s].next = cache[s].next + Cardinality(Popped(s))
          /\ cache'[s].cur = cache[s].cur /\ cache'[s].total = cache[s].total
          /\ cache'[s].cells = cache[s].cells

LEMMA GenEmpties ==
    ASSUME MatchInv, GenMatchStreamData, NEW s \in Streams
    PROVE  Emptied(s)
<1> DEFINE D == Popped(s)
           c == cache[s]
<1>1. out'[s] = out[s] \o Ascending(D)
    BY Zenon DEF GenMatchStreamData, Popped
<1>2. cache'[s] = IF IsStreamEnd(c) THEN Fresh
                  ELSE [c EXCEPT !.ready = c.ready \ D, !.next = c.next + Cardinality(D)]
    BY Zenon DEF GenMatchStreamData, Popped
<1>3. c \in CacheType
    BY DEF MatchInv, Caches, CacheType
<1>4. D \in SUBSET c.ready /\ Cardinality(D) \in Nat /\ (IsStreamEnd(c) => D = c.ready)
    BY PoppedIs, Zenon
<1>5. CASE IsStreamEnd(c)
  <2>1. Matched(s) = 0 .. EndIndex(s)
      BY <1>5, EndOfStream, MatchedCount, Zenon
  <2>2. \A i \in Indices, p \in Ports : c.cells[i].got[p] = 0
      BY <2>1, NoCellLeft, Zenon
  <2>3. cache'[s] = Fresh
      BY <1>2, <1>5, Zenon
  <2>4. c.ready \ D = {}
      BY <1>4, <1>5
  <2> HIDE DEF c, D
  <2>5. /\ cache'[s] \in CacheType /\ cache'[s].ready = c.ready \ D
        /\ \A i \in Indices, p \in Ports : cache'[s].cells[i].got[p] = c.cells[i].got[p]
        /\ cache'[s].next = 0 /\ cache'[s].cur = 0 /\ cache'[s].total = 0 /\ cache'[s].ready = {}
      BY <2>2, <2>3, <2>4, FreshType, Zenon
  <2> QED
      BY <1>1, <1>5, <2>5, Zenon DEF Emptied, c, D
<1>6. CASE ~ IsStreamEnd(c)
  <2>1. c.ready \ D \in SUBSET Indices /\ c.next + Cardinality(D) \in Nat
    <3> HIDE DEF c, D
    <3>1. c.ready \in SUBSET Indices /\ c.next \in Nat
        BY <1>3 DEF CacheType
    <3> QED
        BY <1>4, <3>1
  <2>2. cache'[s] = [c EXCEPT !.ready = c.ready \ D, !.next = c.next + Cardinality(D)]
      BY <1>2, <1>6, Zenon
  <2> HIDE DEF c, D
  <2>3. /\ cache'[s] \in CacheType /\ cache'[s].ready = c.ready \ D
        /\ cache'[s].next = c.next + Cardinality(D)
        /\ cache'[s].cur = c.cur /\ cache'[s].total = c.total /\ cache'[s].cells = c.cells
      BY <1>3, <2>1, <2>2, Zenon DEF CacheType
  <2> QED
      BY <1>1, <1>6, <2>3, Zenon DEF Emptied, c, D
<1> QED
    BY <1>5, <1>6

LEMMA GenProgress ==
    ASSUME MatchInv, NEW s \in Streams, Emptied(s), mode' = mode
    PROVE  Progress(s)' /\ Matched(s)' = Matched(s) /\ out'[s] \in Seq(Indices)
<1> DEFINE D == Popped(s)
           R == cache[s].ready
           n == Len(out[s])
           m == Cardinality(D)
           o == out'[s]
<1>1. /\ o \in Seq(Indices) /\ Len(o) = n + m
      /\ {o[k] : k \in 1 .. Len(o)} = Handed(s) \cup D
      /\ \A j, k \in 1 .. Len(o) : o[j] = o[k] => j = k
      /\ mode.order => \A k \in 1 .. Len(o) : o[k] = k - 1
  <2>1. o = out[s] \o Ascending(Popped(s))
      BY Zenon DEF Emptied
  <2> QED
      BY <2>1, HandOn, ZenonT(40)
<1>2. /\ D \in SUBSET R /\ IsFiniteSet(D) /\ m \in Nat
      /\ IsStreamEnd(cache[s]) => D = R
      /\ ~ Complete(s) /\ ~ IsStreamEnd(cache[s]) => n + m < Length[s]
      /\ mode.gather => D = {} \/ (n = 0 /\ m = Length[s])
    BY PoppedIs, Zenon
<1>3. /\ IsStreamEnd(cache[s]) <=> ~ Complete(s) /\ n + Cardinality(R) = Length[s]
      /\ Complete(s) => R = {}
    BY EndOfStream, Zenon
<1>4. Progress(s) /\ IsFiniteSet(R) /\ Cardinality(R) \in Nat
    BY MatchedCount, Zenon DEF MatchInv, Streaming
<1>5. n \in Nat /\ Length[s] \in Nat \ {0}
    BY HandedOnce, Bounds, Zenon DEF MatchInv
<1>6. cache'[s].ready = R \ D
    BY Zenon DEF Emptied
<1>7. Handed(s)' = Handed(s) \cup D
    BY <1>1, Zenon DEF Handed
<1>8. Matched(s)' = Matched(s)
    BY <1>2, <1>6, <1>7, Zenon DEF Matched
<1>9. Complete(s) <=> n = Length[s]
    BY Zenon DEF Complete
<1>10. Complete(s)' <=> n + m = Length[s]
    BY <1>1, Zenon DEF Complete
<1>11. Matched(s) \subseteq 0 .. EndIndex(s) /\ Handed(s) \cap R = {}
    BY <1>4, Zenon DEF Progress
<1>12. Handed(s)' \cap cache'[s].ready = {}
    BY <1>6, <1>7, <1>11, Zenon
<1>13. mode.gather => Len(o) \in {0, Length[s]}
  <2>1. D = {} => m = 0
      BY FS_EmptySet, Zenon
  <2>2. mode.gather => n \in {0, Length[s]}
      BY <1>4, Zenon DEF Progress
  <2> HIDE DEF D, m, n, o
  <2> QED
      BY <1>1, <1>2, <1>5, <2>1, <2>2
<1> HIDE DEF D, R, n, m, o
<1>14. CASE IsStreamEnd(cache[s])
  <2>1. D = R /\ n + Cardinality(R) = Length[s]
      BY <1>2, <1>3, <1>14, Zenon
  <2>2. Complete(s)'
      BY <1>10, <2>1, Zenon DEF m
  <2>3. cache'[s].ready = {} /\ cache'[s].next = 0 /\ cache'[s].cur = 0 /\ cache'[s].total = 0
      BY <1>14, Zenon DEF Emptied
  <2>4. Progress(s)'
      BY <1>1, <1>8, <1>11, <1>12, <1>13, <2>2, <2>3, Zenon DEF Progress, EndIndex, o
  <2> QED
      BY <1>1, <1>8, <2>4, Zenon DEF o
<1>15. CASE ~ IsStreamEnd(cache[s]) /\ Complete(s)
  <2>1. R = {} /\ D = {}
      BY <1>2, <1>3, <1>15, Zenon
  <2>2. m = 0
      BY <2>1, FS_EmptySet, Zenon DEF m
  <2>3. Complete(s)'
      BY <1>5, <1>9, <1>10, <1>15, <2>2
  <2>4. cache[s].next = 0 /\ cache[s].cur = 0 /\ cache[s].total = 0
      BY <1>4, <1>15, Zenon DEF Progress
  <2>5. cache'[s].ready = {} /\ cache'[s].cur = 0 /\ cache'[s].total = 0
      BY <1>6, <1>15, <2>1, <2>4, Zenon DEF Emptied
  <2>6. cache'[s].next = 0
    <3>1. cache'[s].next = cache[s].next + m
        BY <1>15, Zenon DEF Emptied, m, D
    <3> QED
        BY <2>2, <2>4, <3>1
  <2>7. Progress(s)'
      BY <1>1, <1>8, <1>11, <1>12, <1>13, <2>3, <2>5, <2>6, Zenon DEF Progress, EndIndex, o
  <2> QED
      BY <1>1, <1>8, <2>7, Zenon DEF o
<1>16. CASE ~ IsStreamEnd(cache[s]) /\ ~ Complete(s)
  <2>1. n + m < Length[s]
      BY <1>2, <1>16, Zenon
  <2>2. ~ Complete(s)'
    <3>1. n + m # Length[s]
        BY <1>2, <1>5, <2>1
    <3> QED
        BY <1>10, <3>1, Zenon
  <2>3. /\ cache[s].next = n /\ cache[s].cur = n + Cardinality(R)
        /\ cache[s].total = IF EndIndex(s) \in Matched(s) THEN Length[s] ELSE 0
      BY <1>4, <1>16, Zenon DEF Progress, n, R
  <2>4. cache'[s].next = n + m /\ cache'[s].cur = n + Cardinality(R) /\ cache'[s].total = cache[s].total
      BY <1>16, <2>3, Zenon DEF Emptied, D, m
  <2>5. Cardinality(R \ D) = Cardinality(R) - m
    <3>1. Cardinality(R \ D) = Cardinality(R) - Cardinality(R \cap D)
        BY <1>4, FS_Difference, Zenon
    <3>2. R \cap D = D
        BY <1>2
    <3> QED
        BY <3>1, <3>2, Zenon DEF m
  <2>6. cache'[s].cur = n + m + Cardinality(cache'[s].ready)
      BY <1>2, <1>4, <1>5, <1>6, <2>4, <2>5
  <2>7. cache'[s].total = IF EndIndex(s) \in Matched(s)' THEN Length[s] ELSE 0
      BY <1>8, <2>3, <2>4, Zenon
  <2>8. cache'[s].next = Len(o) /\ cache'[s].cur = Len(o) + Cardinality(cache'[s].ready)
      BY <1>1, <2>4, <2>6, Zenon
  <2>9. Progress(s)'
      BY <1>1, <1>8, <1>11, <1>12, <1>13, <2>2, <2>7, <2>8, Zenon DEF Progress, EndIndex, o
  <2> QED
      BY <1>1, <1>8, <2>9, Zenon DEF o
<1> QED
    BY <1>14, <1>15, <1>16

LEMMA GenCount ==
    ASSUME MatchInv, GenMatchStreamData
    PROVE  CountIsCache' /\ Window'
<1>1. \A s \in Streams : Emptied(s)
    BY GenEmpties, Zenon
<1> DEFINE Q == {b \in Streams \X Indices : b[2] \in Popped(b[1])}
<1>2. count' = [p \in Ports |-> count[p] - Cardinality(Q)] /\ run' = Idle
  <2> DEFINE popped == [s \in Streams |-> PopReadyMatchBuffers(cache[s])]
  <2>1. count' = [p \in Ports |-> count[p] - Cardinality({b \in Streams \X Indices : b[2] \in popped[b[1]]})]
      BY Zenon DEF GenMatchStreamData
  <2>2. \A b \in Streams \X Indices : popped[b[1]] = Popped(b[1])
      BY DEF Popped
  <2>3. {b \in Streams \X Indices : b[2] \in popped[b[1]]} = Q
    <3> HIDE DEF popped
    <3> QED
        BY <2>2, Zenon
  <2> QED
      BY <2>1, <2>3, Zenon DEF GenMatchStreamData
<1>3. \A b \in Streams \X Indices : b[1] \in Streams /\ b[2] \in Indices
    OBVIOUS
<1>4. Q \in SUBSET Ready
  <2>1. \A s \in Streams : Popped(s) \in SUBSET cache[s].ready
      BY PoppedIs, Zenon
  <2> QED
      BY <1>3, <2>1, Zenon DEF Ready
<1>5. Ready' = Ready \ Q
  <2>1. Ready' = {b \in Streams \X Indices : b[2] \in cache'[b[1]].ready}
      BY Zenon DEF Ready
  <2>2. \A s \in Streams : cache'[s].ready = cache[s].ready \ Popped(s)
      BY <1>1, Zenon DEF Emptied
  <2> QED
      BY <1>3, <2>1, <2>2, Zenon DEF Ready
<1>6. ASSUME NEW q \in Ports PROVE Partial(q)' = Partial(q)
  <2>1. Partial(q)' = {b \in Streams \X Indices : cache'[b[1]].cells[b[2]].got[q] > 0}
      BY Zenon DEF Partial
  <2>2. \A s \in Streams, i \in Indices : cache'[s].cells[i].got[q] = cache[s].cells[i].got[q]
      BY <1>1, Zenon DEF Emptied
  <2>3. \A b \in Streams \X Indices : cache'[b[1]].cells[b[2]].got[q] = cache[b[1]].cells[b[2]].got[q]
      BY <1>3, <2>2, Zenon
  <2> QED
      BY <2>1, <2>3, Zenon DEF Partial
<1>7. /\ \A q \in Ports : count[q] = Cardinality(Partial(q)) + Cardinality(Ready)
      /\ \A q : IsFiniteSet(Partial(q)) /\ Cardinality(Partial(q)) \in Nat
      /\ IsFiniteSet(Ready) /\ Cardinality(Ready) \in Nat
    BY CountIs, Zenon DEF MatchInv
<1> HIDE DEF Q
<1>8. IsFiniteSet(Q) /\ Cardinality(Q) \in Nat /\ Cardinality(Q) <= Cardinality(Ready)
    BY <1>4, <1>7, FS_Subset, FS_CardinalityType, Zenon
<1>9. Cardinality(Ready') = Cardinality(Ready) - Cardinality(Q)
  <2>1. Cardinality(Ready \ Q) = Cardinality(Ready) - Cardinality(Ready \cap Q)
      BY <1>7, FS_Difference, Zenon
  <2>2. Ready \cap Q = Q
      BY <1>4
  <2> QED
      BY <1>5, <2>1, <2>2, Zenon
<1>10. ASSUME NEW q \in Ports
       PROVE  /\ count'[q] = Cardinality(Partial(q)') + Cardinality(Ready')
              /\ count'[q] \in Nat /\ count'[q] <= count[q]
  <2>1. count'[q] = count[q] - Cardinality(Q)
      BY <1>2
  <2>2. count[q] = Cardinality(Partial(q)) + Cardinality(Ready) /\ Cardinality(Partial(q)) \in Nat
      BY <1>7, Zenon
  <2>3. Cardinality(Partial(q)') = Cardinality(Partial(q))
      BY <1>6, Zenon
  <2> QED
      BY <1>7, <1>8, <1>9, <2>1, <2>2, <2>3
<1>11. CountIsCache'
    BY <1>10, Zenon DEF CountIsCache, Partial, Ready
<1>12. Window'
  <2>1. count' \in [Ports -> Nat]
      BY <1>2, <1>10
  <2>2. ASSUME NEW q \in Ports PROVE count'[q] + Reading(q)' <= MaxCache
    <3>1. Reading(q)' = 0
      <4>1. run'.pc # "cache"
          BY <1>2, IdleType, Zenon
      <4> QED
          BY <4>1, Zenon DEF Reading
    <3>2. Reading(q) = 0
        BY Zenon DEF GenMatchStreamData, Reading
    <3>3. count[q] + Reading(q) <= MaxCache /\ count[q] \in Nat /\ MaxCache \in Nat
        BY Bounds DEF MatchInv, Window
    <3> QED
        BY <1>10, <3>1, <3>2, <3>3
  <2> QED
      BY <2>1, <2>2, Zenon DEF Window
<1> QED
    BY <1>11, <1>12

LEMMA GenStep ==
    ASSUME MatchInv, GenMatchStreamData
    PROVE  MatchInv'
<1>1. /\ mode' = mode /\ route' = route /\ at' = at /\ queue' = queue
      /\ run.pc = "gen" /\ run' = Idle
    BY Zenon DEF GenMatchStreamData, upstream
<1>2. \A s \in Streams : Emptied(s)
    BY GenEmpties, Zenon
<1>3. Routes' /\ Senders' /\ Queues'
    BY <1>1, Zenon DEF MatchInv, Routes, Senders, Queues
<1>4. Running'
    BY <1>1, IdleType, Zenon DEF Running, RunType
<1>5. \A s \in Streams : Progress(s)' /\ Matched(s)' = Matched(s) /\ out'[s] \in Seq(Indices)
    BY <1>1, <1>2, GenProgress, Zenon
<1>6. Streaming'
  <2>1. out' = [s \in Streams |-> out[s] \o Ascending(PopReadyMatchBuffers(cache[s]))]
      BY Zenon DEF GenMatchStreamData
  <2>2. out' = [s \in Streams |-> out'[s]]
      BY <2>1, Zenon
  <2>3. out' \in [Streams -> Seq(Indices)]
      BY <1>5, <2>2
  <2> QED
      BY <1>5, <2>3, Zenon DEF Streaming
<1>7. Caches'
  <2>1. cache' = [s \in Streams |-> cache'[s]]
      BY Zenon DEF GenMatchStreamData
  <2>2. \A s \in Streams : cache'[s] \in CacheType
      BY <1>2, Zenon DEF Emptied
  <2>3. cache' \in [Streams -> CacheType]
      BY <2>1, <2>2
  <2>4. ASSUME NEW s \in Streams, NEW i \in Indices, NEW p \in Ports, cache'[s].cells[i].got[p] > 0
        PROVE  i <= EndIndex(s) /\ cache'[s].cells[i].end = (i = EndIndex(s))
    <3>1. cache'[s].cells[i].got[p] = cache[s].cells[i].got[p]
        BY <1>2, Zenon DEF Emptied
    <3>2. cache[s].cells[i].got[p] > 0
        BY <2>4, <3>1, Zenon
    <3>3. i <= EndIndex(s) /\ cache[s].cells[i].end = (i = EndIndex(s))
        BY <3>2 DEF MatchInv, Caches
    <3>4. ~ IsStreamEnd(cache[s])
      <4>1. ASSUME IsStreamEnd(cache[s]) PROVE FALSE
        <5>1. Matched(s) = 0 .. EndIndex(s)
            BY <4>1, EndOfStream, MatchedCount, Zenon
        <5>2. cache[s].cells[i].got[p] = 0
            BY <5>1, NoCellLeft, Zenon
        <5> QED
            BY <3>2, <5>2
      <4> QED
          BY <4>1
    <3>5. cache'[s].cells = cache[s].cells
        BY <1>2, <3>4, Zenon DEF Emptied
    <3> QED
        BY <3>3, <3>5
  <2> QED
      BY <2>3, <2>4, Zenon DEF Caches, CacheType, EndIndex
<1>8. CopiesInv'
  <2> SUFFICES ASSUME NEW s \in Streams, NEW p \in Ports, NEW i \in 0 .. EndIndex(s)
               PROVE  Copies(s, p, i)'
      BY Zenon DEF CopiesInv
  <2>1. Copies(s, p, i) /\ i \in Indices
      BY Bounds, Zenon DEF MatchInv, CopiesInv
  <2>2. SentTo(s, p, i)' = SentTo(s, p, i)
      BY <1>1, SentKept, Zenon
  <2>3. cache'[s].cells[i].got[p] = cache[s].cells[i].got[p]
      BY <1>2, <2>1, Zenon DEF Emptied
  <2>4. run.pc # "cache" /\ run'.pc # "cache"
      BY <1>1, IdleType
  <2>5. Held(s, p, i)' = Held(s, p, i)
      BY <1>1, <2>3, <2>4, Zenon DEF Held, Occurs
  <2> QED
      BY <1>5, <2>1, <2>2, <2>5, Zenon DEF Copies, Full, EndIndex
<1>9. CountIsCache' /\ Window'
    BY GenCount, Zenon
<1> QED
    BY <1>3, <1>4, <1>6, <1>7, <1>8, <1>9, ZenonT(40) DEF MatchInv

-----------------------------------------------------------------------------
(* The invariant and what it gives. *)

LEMMA StutterStep ==
    ASSUME MatchInv, UNCHANGED vars
    PROVE  MatchInv'
<1>1. UNCHANGED <<mode, route, at, queue, run, cache, count, out>>
    BY Zenon DEF vars
<1>2. Routes' /\ Senders' /\ Queues'
    BY <1>1, Zenon DEF MatchInv, Routes, Senders, Queues
<1>3. Running'
    BY <1>1, Zenon DEF MatchInv, Running, Port
<1>4. Caches' /\ Streaming' /\ \A s \in Streams : Matched(s)' = Matched(s)
    BY <1>1, StreamsKept, Zenon DEF MatchInv
<1>5. CountIsCache'
    BY <1>1, CountKept, Zenon DEF MatchInv
<1>6. Window'
    BY <1>1, Zenon DEF MatchInv, Window, Reading, Port
<1>7. CopiesInv'
  <2> SUFFICES ASSUME NEW s \in Streams, NEW p \in Ports, NEW i \in 0 .. EndIndex(s)
               PROVE  Copies(s, p, i)'
      BY Zenon DEF CopiesInv
  <2>1. Copies(s, p, i)
      BY Zenon DEF MatchInv, CopiesInv
  <2>2. SentTo(s, p, i)' = SentTo(s, p, i)
      BY <1>1, SentKept, Zenon
  <2>3. Held(s, p, i)' = Held(s, p, i)
      BY <1>1, Zenon DEF Held, Occurs, Port
  <2> QED
      BY <1>4, <2>1, <2>2, <2>3, Zenon DEF Copies, Full, EndIndex
<1> QED
    BY <1>2, <1>3, <1>4, <1>5, <1>6, <1>7, ZenonT(40) DEF MatchInv

LEMMA InitInv == Init => MatchInv
<1> SUFFICES ASSUME Init PROVE MatchInv
    OBVIOUS
<1>1. Routes
  <2>1. mode \in [order : BOOLEAN, gather : BOOLEAN]
      BY ConstantsAssumption DEF Init
  <2>2. UNION {1 .. Branches[p] : p \in Ports} \subseteq Nat \ {0}
      BY Bounds
  <2>3. route \in [Streams -> [Ports -> [Indices -> UNION {1 .. Branches[p] : p \in Ports}]]]
      BY Zenon DEF Init
  <2>4. route \in [Streams -> [Ports -> [Indices -> Nat \ {0}]]]
    <3> DEFINE B == UNION {1 .. Branches[p] : p \in Ports}
    <3>1. B \subseteq Nat \ {0} /\ route \in [Streams -> [Ports -> [Indices -> B]]]
        BY <2>2, <2>3, Zenon
    <3> HIDE DEF B
    <3>2. [Indices -> B] \subseteq [Indices -> Nat \ {0}]
        BY <3>1, Zenon
    <3>3. [Ports -> [Indices -> B]] \subseteq [Ports -> [Indices -> Nat \ {0}]]
        BY <3>2, Zenon
    <3> QED
        BY <3>1, <3>3, Zenon
  <2>5. \A s \in Streams, p \in Ports, i \in Indices :
           i < EndIndex(s) => route[s][p][i] <= Branches[p]
      BY Zenon DEF Init
  <2> QED
      BY <2>1, <2>4, <2>5, Zenon DEF Routes
<1>2. Senders
  <2>1. \A p \in Ports : [b \in 1 .. Branches[p] |-> 0] \in [1 .. Branches[p] -> Nat]
      OBVIOUS
  <2>2. at = [s \in Streams |-> [p \in Ports |-> [b \in 1 .. Branches[p] |-> 0]]]
      BY Zenon DEF Init
  <2>3. \A s \in Streams, p \in Ports : at[s][p] = [b \in 1 .. Branches[p] |-> 0]
      BY <2>2, Zenon
  <2>4. \A s \in Streams : at[s] = [p \in Ports |-> [b \in 1 .. Branches[p] |-> 0]]
      BY <2>2, Zenon
  <2>5. \A p \in Ports : [b \in 1 .. Branches[p] |-> 0] \in UNION {[1 .. Branches[q] -> Nat] : q \in Ports}
      BY <2>1, Zenon
  <2>6. [p \in Ports |-> [b \in 1 .. Branches[p] |-> 0]]
            \in [Ports -> UNION {[1 .. Branches[q] -> Nat] : q \in Ports}]
      BY <2>5, Zenon
  <2>7. at \in [Streams -> [Ports -> UNION {[1 .. Branches[p] -> Nat] : p \in Ports}]]
      BY <2>2, <2>6, Zenon
  <2> QED
      BY <2>1, <2>3, <2>7, Zenon DEF Senders
<1>3. \A p \in Ports : queue[p] = <<>>
    BY Zenon DEF Init
<1>4. Queues
  <2>1. <<>> \in Seq(Buffer) /\ Len(<<>>) = 0 /\ 1 .. 0 = {}
      BY EmptySeq
  <2>2. queue = [p \in Ports |-> <<>>]
      BY Zenon DEF Init
  <2>3. queue \in [Ports -> Seq(Buffer)]
      BY <2>1, <2>2, Zenon
  <2>4. \A p \in Ports : 1 .. Len(queue[p]) = {}
      BY <1>3, <2>1, Zenon
  <2> QED
      BY <2>3, <2>4, Zenon DEF Queues
<1>5. run = Idle /\ run.pc # "cache"
    BY IdleType DEF Init
<1>6. Running
    BY <1>5, IdleType, Zenon DEF Running, RunType
<1>7. \A s \in Streams : cache[s] = Fresh
    BY Zenon DEF Init
<1>8. Caches
  <2>1. cache = [s \in Streams |-> Fresh]
      BY Zenon DEF Init
  <2>2. cache \in [Streams -> CacheType]
      BY <2>1, FreshType, Zenon
  <2>3. \A s \in Streams, i \in Indices, p \in Ports : cache[s].cells[i].got[p] = 0
      BY <1>7, FreshType, Zenon
  <2>4. ~ (0 > 0)
      OBVIOUS
  <2> QED
      BY <2>2, <2>3, <2>4, Zenon DEF Caches, CacheType
<1>9. Streaming /\ \A s \in Streams : Matched(s) = {}
  <2>1. out = [s \in Streams |-> <<>>]
      BY Zenon DEF Init
  <2>2. <<>> \in Seq(Indices) /\ Len(<<>>) = 0 /\ 1 .. 0 = {}
      BY EmptySeq
  <2>3. out \in [Streams -> Seq(Indices)]
      BY <2>1, <2>2, Zenon
  <2>4. ASSUME NEW s \in Streams PROVE Progress(s) /\ Matched(s) = {}
    <3>1. out[s] = <<>> /\ Len(out[s]) = 0 /\ 1 .. Len(out[s]) = {}
        BY <2>1, <2>2, Zenon
    <3>2. Handed(s) = {}
        BY <3>1, Zenon DEF Handed
    <3>3. cache[s].ready = {} /\ cache[s].next = 0 /\ cache[s].cur = 0 /\ cache[s].total = 0
        BY <1>7, FreshType, Zenon
    <3>4. Matched(s) = {}
        BY <3>2, <3>3, Zenon DEF Matched
    <3>5. cache[s].next = Len(out[s])
        BY <3>1, <3>3, Zenon
    <3>6. cache[s].cur = Len(out[s]) + Cardinality(cache[s].ready)
      <4>1. Cardinality(cache[s].ready) = 0
          BY <3>3, FS_EmptySet, Zenon
      <4> QED
          BY <3>1, <3>3, <4>1
    <3>7. cache[s].total = IF EndIndex(s) \in Matched(s) THEN Length[s] ELSE 0
        BY <3>3, <3>4, Zenon
    <3>8. Matched(s) \subseteq 0 .. EndIndex(s) /\ Handed(s) \cap cache[s].ready = {}
        BY <3>2, <3>4, Zenon
    <3> QED
        BY <3>1, <3>3, <3>4, <3>5, <3>6, <3>7, <3>8, Zenon DEF Progress
  <2> QED
      BY <2>3, <2>4, Zenon DEF Streaming
<1>10. CopiesInv
  <2> SUFFICES ASSUME NEW s \in Streams, NEW p \in Ports, NEW i \in 0 .. EndIndex(s)
               PROVE  Copies(s, p, i)
      BY Zenon DEF CopiesInv
  <2>1. i \in Indices /\ ~ (0 > i)
      BY Bounds
  <2>2. SentTo(s, p, i) = 0
    <3>1. \A b \in 1 .. Branches[p] : at[s][p][b] = 0
        BY DEF Init
    <3>2. {b \in 1 .. Branches[p] : i \in OnBranch(s, p, b) /\ at[s][p][b] > i} = {}
        BY <2>1, <3>1, Zenon
    <3> QED
        BY <3>2, FS_EmptySet, Zenon DEF SentTo
  <2>3. Held(s, p, i) = 0
    <3>1. Occurs(queue[p], s, i) = 0
        BY <1>3, OccursEmpty, Zenon
    <3>2. cache[s].cells[i].got[p] = 0
        BY <1>7, <2>1, FreshType, Zenon
    <3>3. Read(s, p, i) = 0
        BY <1>5, Zenon DEF Read
    <3>4. Held(s, p, i) = Occurs(queue[p], s, i) + cache[s].cells[i].got[p] + Read(s, p, i)
        BY <1>4, <1>6, <1>8, <2>1, HeldIs, Zenon
    <3> QED
        BY <3>1, <3>2, <3>3, <3>4
  <2> QED
      BY <1>9, <2>2, <2>3, Zenon DEF Copies
<1>11. count = [p \in Ports |-> 0]
    BY Zenon DEF Init
<1>12. CountIsCache
  <2>1. \A b \in Streams \X Indices : b[1] \in Streams /\ b[2] \in Indices
      OBVIOUS
  <2>2. ASSUME NEW p \in Ports PROVE Cardinality(Partial(p)) = 0
    <3>1. \A b \in Streams \X Indices : cache[b[1]].cells[b[2]].got[p] = 0
        BY <1>7, <2>1, FreshType, Zenon
    <3>2. Partial(p) = {}
        BY <3>1 DEF Partial
    <3> QED
        BY <3>2, FS_EmptySet, Zenon
  <2>3. Cardinality(Ready) = 0
    <3>1. Ready = {}
        BY <1>7, <2>1, FreshType, Zenon DEF Ready
    <3> QED
        BY <3>1, FS_EmptySet, Zenon
  <2>4. \A p \in Ports : count[p] = 0
      BY <1>11, Zenon
  <2>5. \A p \in Ports : count[p] = Cardinality(Partial(p)) + Cardinality(Ready)
      BY <2>2, <2>3, <2>4
  <2> QED
      BY <2>5, CountIs, Zenon
<1>13. Window
  <2>1. \A p \in Ports : count[p] + Reading(p) = 0
      BY <1>5, <1>11 DEF Reading
  <2>2. count \in [Ports -> Nat]
      BY <1>11
  <2>3. 0 <= MaxCache
      BY Bounds
  <2> QED
      BY <2>1, <2>2, <2>3, Zenon DEF Window
<1> QED
    BY <1>1, <1>2, <1>4, <1>6, <1>8, <1>9, <1>10, <1>12, <1>13, ZenonT(40) DEF MatchInv

(* The inductive invariant: every copy of a buffer is where it belongs,    *)
(* the fields of each stream's cache agree with what was handed on, and a  *)
(* port that reads stays in its window.  In particular the run never       *)
(* reaches the fault of a miss match in CacheBuffer.                       *)
THEOREM MatchInvariant == Spec => []MatchInv
<1>1. Init => MatchInv
    BY InitInv
<1>2. MatchInv /\ [Next]_vars => MatchInv'
  <2> SUFFICES ASSUME MatchInv, [Next]_vars PROVE MatchInv'
      OBVIOUS
  <2>1. CASE Send
      BY <2>1, PushStep, Zenon DEF Send
  <2>2. CASE Start
      BY <2>2, StartStep, Zenon
  <2>3. CASE TestLevel
      BY <2>3, LevelStep, Zenon
  <2>4. CASE FixLevel
      BY <2>4, FixStep, Zenon
  <2>5. CASE Recv
      BY <2>5, RecvStep, Zenon
  <2>6. CASE CacheBuffer
      BY <2>6, CacheStep, Zenon
  <2>7. CASE EndLoad
      BY <2>7, EndStep, Zenon
  <2>8. CASE GenMatchStreamData
      BY <2>8, GenStep, Zenon
  <2>9. CASE UNCHANGED vars
      BY <2>9, StutterStep, Zenon
  <2> QED
      BY <2>1, <2>2, <2>3, <2>4, <2>5, <2>6, <2>7, <2>8, <2>9, Zenon DEF Next, NodeRun
<1> QED
    BY <1>1, <1>2, PTL DEF Spec

(* What HandedOn counts is whether the index is among those handed on. *)
LEMMA HandedOnIs ==
    ASSUME Streaming, NEW s \in Streams, NEW i
    PROVE  HandedOn(s, i) = IF i \in Handed(s) THEN 1 ELSE 0
<1>1. /\ DOMAIN out[s] = 1 .. Len(out[s])
      /\ \A j, k \in 1 .. Len(out[s]) : out[s][j] = out[s][k] => j = k
  <2>1. out[s] \in Seq(Indices)
      BY Zenon DEF Streaming
  <2> QED
      BY <2>1 DEF Streaming, Progress
<1> DEFINE K == {k \in 1 .. Len(out[s]) : out[s][k] = i}
<1>2. HandedOn(s, i) = Cardinality(K)
    BY <1>1, Zenon DEF HandedOn
<1>3. CASE i \in Handed(s)
  <2>1. PICK k \in 1 .. Len(out[s]) : out[s][k] = i
      BY <1>3, Zenon DEF Handed
  <2>2. K = {k}
      BY <1>1, <2>1, Zenon
  <2> QED
      BY <1>2, <1>3, <2>2, FS_Singleton, Zenon
<1>4. CASE i \notin Handed(s)
  <2>1. K = {}
      BY <1>4, Zenon DEF Handed
  <2> QED
      BY <1>2, <1>4, <2>1, FS_EmptySet, Zenon
<1> QED
    BY <1>3, <1>4

(* However the senders interleave with the runs, every copy of a buffer    *)
(* that a port received is still held by it until the buffer is matched,   *)
(* and then it is ready or went to a data context exactly once.            *)
THEOREM MatchLosesNothing == Spec => []NothingLost
<1>1. MatchInv => NothingLost
  <2> SUFFICES ASSUME MatchInv, NEW s \in Streams, NEW i \in Indices, i <= EndIndex(s)
               PROVE  LET matched == HandedOn(s, i) + IF i \in cache[s].ready THEN 1 ELSE 0
                      IN  \/ matched = 0 /\ \A p \in Ports : Held(s, p, i) = SentTo(s, p, i)
                          \/ /\ matched = 1
                             /\ \A p \in Ports :
                                  /\ Held(s, p, i) = 0
                                  /\ SentTo(s, p, i) = IF i = EndIndex(s) THEN Branches[p] ELSE 1
      BY Zenon DEF NothingLost
  <2> DEFINE h == HandedOn(s, i)
             r == IF i \in cache[s].ready THEN 1 ELSE 0
  <2>1. h = IF i \in Handed(s) THEN 1 ELSE 0
      BY HandedOnIs, Zenon DEF MatchInv
  <2>2. ~ (i \in Handed(s) /\ i \in cache[s].ready)
      BY Zenon DEF MatchInv, Streaming, Progress
  <2>3. i \in 0 .. EndIndex(s)
      BY Bounds
  <2>4. \A p \in Ports : Copies(s, p, i)
      BY <2>3, Zenon DEF MatchInv, CopiesInv
  <2>5. CASE i \in Matched(s)
    <3>1. h + r = 1
      <4>1. i \in Handed(s) \/ i \in cache[s].ready
          BY <2>5, Zenon DEF Matched
      <4>2. (h = 1 /\ r = 0) \/ (h = 0 /\ r = 1)
          BY <2>1, <2>2, <4>1, Zenon
      <4> HIDE DEF h, r
      <4> QED
          BY <4>2
    <3>2. \A p \in Ports : Held(s, p, i) = 0 /\ SentTo(s, p, i) = IF i = EndIndex(s) THEN Branches[p] ELSE 1
        BY <2>4, <2>5, Zenon DEF Copies, Full
    <3> QED
        BY <3>1, <3>2, Zenon
  <2>6. CASE i \notin Matched(s)
    <3>1. h + r = 0
      <4>1. i \notin Handed(s) /\ i \notin cache[s].ready
          BY <2>6, Zenon DEF Matched
      <4>2. h = 0 /\ r = 0
          BY <2>1, <4>1, Zenon
      <4> HIDE DEF h, r
      <4> QED
          BY <4>2
    <3>2. \A p \in Ports : Held(s, p, i) = SentTo(s, p, i)
        BY <2>4, <2>6, Zenon DEF Copies
    <3> QED
        BY <3>1, <3>2, Zenon
  <2> QED
      BY <2>5, <2>6
<1> QED
    BY <1>1, MatchInvariant, PTL

(* With is_input_in_order_ the indices of a stream are handed on as they   *)
(* were before the branches, with no gap.                                  *)
THEOREM MatchKeepsOrder == Spec => []InOrder
<1>1. MatchInv => InOrder
  <2> SUFFICES ASSUME MatchInv, mode.order, NEW s \in Streams
               PROVE  \A k \in DOMAIN out[s] : out[s][k] = k - 1
      BY Zenon DEF InOrder
  <2>1. Progress(s) /\ out[s] \in Seq(Indices)
      BY Zenon DEF MatchInv, Streaming
  <2>2. DOMAIN out[s] = 1 .. Len(out[s])
      BY <2>1
  <2> QED
      BY <2>1, <2>2, Zenon DEF Progress
<1> QED
    BY <1>1, MatchInvariant, PTL

(* With need_gather_all_ a stream is handed on whole or not at all. *)
THEOREM MatchGathersAll == Spec => []AllOrNothing
<1>1. MatchInv => AllOrNothing
    BY Zenon DEF MatchInv, Streaming, Progress, AllOrNothing
<1> QED
    BY <1>1, MatchInvariant, PTL

(* The counters that GetReadCount reads are the buffers cached for a port, *)
(* second end flags and erased streams included.                           *)
THEOREM MatchCountsCache == Spec => []CountIsCache
<1>1. MatchInv => CountIsCache
    BY Zenon DEF MatchInv
<1> QED
    BY <1>1, MatchInvariant, PTL

(* No port caches more than max_cache_count_, while it reads a batch too. *)
THEOREM MatchCacheBounded == Spec => []BoundedCache
<1>1. MatchInv => BoundedCache
  <2> SUFFICES ASSUME MatchInv, NEW p \in Ports PROVE count[p] <= MaxCache
      BY Zenon DEF BoundedCache
  <2>1. count[p] \in Nat /\ count[p] + Reading(p) <= MaxCache
      BY DEF MatchInv, Window
  <2>2. Reading(p) \in Nat
    <3>1. run.batch \in Seq(Buffer)
        BY DEF MatchInv, Running
    <3>2. Len(run.batch) \in Nat
        BY <3>1
    <3> QED
        BY <3>2 DEF Reading
  <2>3. MaxCache \in Nat
      BY Bounds
  <2> QED
      BY <2>1, <2>2, <2>3
<1> QED
    BY <1>1, MatchInvariant, PTL

=============================================================================
