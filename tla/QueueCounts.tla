----------------------------- MODULE QueueCounts -----------------------------
(***************************************************************************)
(* How often a signal waits in a queue, and what sending and taking one do *)
(* to that number.  What the composed modules promise about locks and      *)
(* absences is a balance between signals that were sent, that wait and     *)
(* that were taken.                                                        *)
(***************************************************************************)
EXTENDS Integers, Sequences, FiniteSets, FiniteSetTheorems, SequenceTheorems, TLAPS

Places(q, m) == {i \in 1..Len(q) : q[i] = m}

\* How often m waits in q.
Waiting(q, m) == Cardinality(Places(q, m))

\* A queue has finitely many places.
LEMMA PlacesAreFinite ==
  ASSUME NEW S, NEW q \in Seq(S), NEW m
  PROVE  IsFiniteSet(Places(q, m)) /\ Waiting(q, m) \in Nat
<1>1. Len(q) \in Nat /\ IsFiniteSet(1..Len(q))
  BY FS_Interval
<1>2. IsFiniteSet(Places(q, m))
  BY <1>1, FS_Subset DEF Places
<1> QED
  BY <1>2, FS_CardinalityType DEF Waiting

\* Nothing waits in an empty queue.
LEMMA NothingWaits == ASSUME NEW m PROVE Waiting(<<>>, m) = 0
<1>1. Places(<<>>, m) = {}
  BY DEF Places
<1> QED
  BY <1>1, FS_EmptySet DEF Waiting

\* What is sent waits once more, and nothing else does.
LEMMA WaitingAfterAppend ==
  ASSUME NEW S, NEW q \in Seq(S), NEW x \in S, NEW m
  PROVE  Waiting(Append(q, x), m) = Waiting(q, m) + (IF x = m THEN 1 ELSE 0)
<1>1. /\ Len(q) \in Nat /\ Len(Append(q, x)) = Len(q) + 1
      /\ Append(q, x)[Len(q) + 1] = x
      /\ \A i \in 1..Len(q) : Append(q, x)[i] = q[i]
  OBVIOUS
<1>2. IsFiniteSet(Places(q, m)) /\ Waiting(q, m) \in Nat
  BY PlacesAreFinite
<1>3. CASE x = m
  <2>1. Places(Append(q, x), m) = Places(q, m) \union {Len(q) + 1}
    BY <1>1, <1>3 DEF Places
  <2>2. Len(q) + 1 \notin Places(q, m)
    BY <1>1 DEF Places
  <2>3. Cardinality(Places(q, m) \union {Len(q) + 1}) = Cardinality(Places(q, m)) + 1
    BY <1>2, <2>2, FS_AddElement
  <2> QED
    BY <1>3, <2>1, <2>3 DEF Waiting
<1>4. CASE x # m
  <2>1. Places(Append(q, x), m) = Places(q, m)
    BY <1>1, <1>4 DEF Places
  <2> QED
    BY <1>2, <1>4, <2>1 DEF Waiting
<1> QED
  BY <1>3, <1>4

\* What is taken waits once less, and nothing else does.
LEMMA WaitingAfterTail ==
  ASSUME NEW S, NEW q \in Seq(S), q # <<>>, NEW m
  PROVE  Waiting(q, m) = Waiting(Tail(q), m) + (IF Head(q) = m THEN 1 ELSE 0)
<1> DEFINE later == {i \in 2..Len(q) : q[i] = m}
           moved == [i \in Places(Tail(q), m) |-> i + 1]
<1>1. /\ Len(q) \in Nat \ {0} /\ Tail(q) \in Seq(S) /\ Len(Tail(q)) = Len(q) - 1
      /\ \A i \in 1..Len(Tail(q)) : Tail(q)[i] = q[i + 1]
      /\ Head(q) = q[1]
  BY HeadTailProperties, EmptySeq
<1>2. IsFiniteSet(Places(Tail(q), m)) /\ Waiting(Tail(q), m) \in Nat
  BY <1>1, PlacesAreFinite
<1>3. moved \in Bijection(Places(Tail(q), m), later)
  <2>1. moved \in [Places(Tail(q), m) -> later]
    BY <1>1 DEF Places
  <2>2. \A i, j \in Places(Tail(q), m) : moved[i] = moved[j] => i = j
    BY <1>1 DEF Places
  <2>3. ASSUME NEW k \in later PROVE \E i \in Places(Tail(q), m) : moved[i] = k
    <3>1. k \in 2..Len(q) /\ q[k] = m
      OBVIOUS
    <3>2. k - 1 \in 1..Len(Tail(q)) /\ Tail(q)[k - 1] = m /\ (k - 1) + 1 = k
      BY <1>1, <3>1
    <3>3. k - 1 \in Places(Tail(q), m)
      BY <3>2 DEF Places
    <3> QED
      BY <3>2, <3>3
  <2> HIDE DEF moved, later
  <2> QED
    BY <2>1, <2>2, <2>3 DEF Bijection, Injection, Surjection, IsInjective
<1>4. IsFiniteSet(later) /\ Cardinality(later) = Waiting(Tail(q), m)
  <2> HIDE DEF moved, later
  <2> QED
    BY <1>2, <1>3, FS_Bijection DEF Waiting, ExistsBijection
<1>5. CASE Head(q) = m
  <2>1. Places(q, m) = later \union {1} /\ 1 \notin later
    BY <1>1, <1>5 DEF Places
  <2> HIDE DEF later
  <2> QED
    BY <1>2, <1>4, <1>5, <2>1, FS_AddElement DEF Waiting
<1>6. CASE Head(q) # m
  <2>1. Places(q, m) = later
    BY <1>1, <1>6 DEF Places
  <2> HIDE DEF later
  <2> QED
    BY <1>2, <1>4, <1>6, <2>1 DEF Waiting
<1> QED
  BY <1>5, <1>6

\* Whatever waits is in the queue, and what is not in it does not wait.
LEMMA WaitingMeansThere ==
  ASSUME NEW S, NEW q \in Seq(S), NEW m
  PROVE  Waiting(q, m) = 0 <=> \A i \in 1..Len(q) : q[i] # m
<1>1. IsFiniteSet(Places(q, m))
  BY PlacesAreFinite
<1>2. Waiting(q, m) = 0 <=> Places(q, m) = {}
  BY <1>1, FS_EmptySet DEF Waiting
<1> QED
  BY <1>2 DEF Places

\* A queue of two, built from its ends.
LEMMA PairIsAppend ==
  ASSUME NEW S, NEW a \in S, NEW b \in S
  PROVE  Append(<<a>>, b) = <<a, b>> /\ <<a>> \o <<b>> = <<a, b>>
<1>1. /\ <<a>> \in Seq(S) /\ <<b>> \in Seq(S) /\ <<a, b>> \in Seq(S)
      /\ Len(<<a>>) = 1 /\ Len(<<b>>) = 1 /\ Len(<<a, b>>) = 2
  OBVIOUS
<1>2. <<a, b>>[1] = a /\ <<a, b>>[2] = b /\ <<a>>[1] = a /\ <<b>>[1] = b
  OBVIOUS
<1>3. Append(<<a>>, b) = <<a, b>>
  <2>1. /\ Append(<<a>>, b) \in Seq(S) /\ Len(Append(<<a>>, b)) = 2
        /\ Append(<<a>>, b)[1] = a /\ Append(<<a>>, b)[2] = b
    BY <1>1, <1>2, AppendProperties
  <2>2. \A i \in 1..2 : Append(<<a>>, b)[i] = <<a, b>>[i]
    BY <1>2, <2>1
  <2> QED
    BY <1>1, <2>1, <2>2, SeqEqual
<1>4. <<a>> \o <<b>> = <<a, b>>
  <2>1. /\ <<a>> \o <<b>> \in Seq(S) /\ Len(<<a>> \o <<b>>) = 2
        /\ (<<a>> \o <<b>>)[1] = a /\ (<<a>> \o <<b>>)[2] = b
    BY <1>1, <1>2, ConcatProperties
  <2>2. \A i \in 1..2 : (<<a>> \o <<b>>)[i] = <<a, b>>[i]
    BY <1>2, <2>1
  <2> QED
    BY <1>1, <2>1, <2>2, SeqEqual
<1> QED
  BY <1>3, <1>4

\* Its ends and what is left when the first is taken.
LEMMA ShortQueueEnds ==
  ASSUME NEW a, NEW b
  PROVE  /\ <<a>> # <<>> /\ Head(<<a>>) = a /\ Tail(<<a>>) = <<>> /\ <<a>>[Len(<<a>>)] = a
         /\ <<a, b>> # <<>> /\ Head(<<a, b>>) = a /\ Tail(<<a, b>>) = <<b>>
         /\ <<a, b>>[Len(<<a, b>>)] = b
<1>1. <<a>> # <<>> /\ Head(<<a>>) = a /\ Tail(<<a>>) = <<>> /\ <<a>>[Len(<<a>>)] = a
  OBVIOUS
<1>2. Head(<<a, b>>) = a /\ Tail(<<a, b>>) = <<b>>
  OBVIOUS
<1>3. Len(<<a, b>>) = 2 /\ <<a, b>>[2] = b
  OBVIOUS
<1> QED
  BY <1>1, <1>2, <1>3

\* What waits in a queue of one or two.
LEMMA WaitingInShortQueue ==
  ASSUME NEW S, NEW a \in S, NEW b \in S, NEW m
  PROVE  /\ Waiting(<<a>>, m) = (IF a = m THEN 1 ELSE 0)
         /\ Waiting(<<a, b>>, m) = (IF a = m THEN 1 ELSE 0) + (IF b = m THEN 1 ELSE 0)
<1>1. \A q \in Seq(S) : \A x \in S :
        Waiting(Append(q, x), m) = Waiting(q, m) + (IF x = m THEN 1 ELSE 0)
  BY WaitingAfterAppend
<1>2. <<>> \in Seq(S) /\ <<a>> \in Seq(S)
  OBVIOUS
<1>3. Append(<<>>, a) = <<a>>
  OBVIOUS
<1>4. Waiting(Append(<<>>, a), m) = Waiting(<<>>, m) + (IF a = m THEN 1 ELSE 0)
  BY <1>1, <1>2, Zenon
<1>5. Waiting(Append(<<a>>, b), m) = Waiting(<<a>>, m) + (IF b = m THEN 1 ELSE 0)
  BY <1>1, <1>2, Zenon
<1>6. Waiting(<<a>>, m) = (IF a = m THEN 1 ELSE 0)
  BY <1>3, <1>4, NothingWaits
<1>7. Append(<<a>>, b) = <<a, b>>
  BY PairIsAppend, Zenon
<1> QED
  BY <1>5, <1>6, <1>7
=============================================================================
