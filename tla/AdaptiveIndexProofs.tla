------------------------- MODULE AdaptiveIndexProofs -------------------------
(***************************************************************************)
(* Proofs about AdaptiveIndex for every capacity, stride and width: the    *)
(* index never outgrows its reservation, its entries stay in order and a   *)
(* stride apart through every compaction.                                  *)
(***************************************************************************)
EXTENDS AdaptiveIndex, FiniteSetTheorems, WellFoundedInduction, TLAPS

\* The vector compact leaves behind: a subsequence that keeps the first entry
\* and about half of the others.
LEMMA CompactedShape ==
    ASSUME NEW S, NEW s \in Seq(S), Len(s) >= 2
    PROVE  /\ Compacted(s) \in Seq(S)
           /\ Len(Compacted(s)) = (Len(s) + 1) \div 2
           /\ Len(Compacted(s)) \in 1 .. Len(s) - 1
           /\ \A i \in 1 .. Len(Compacted(s)) :
                 /\ 2 * i - 1 \in 1 .. Len(s)
                 /\ Compacted(s)[i] = s[2 * i - 1]
<1> DEFINE n == (Len(s) + 1) \div 2
<1>1. n \in 1 .. Len(s) - 1
  OBVIOUS
<1>2. \A i \in 1 .. n : 2 * i - 1 \in 1 .. Len(s)
  OBVIOUS
<1>3. \A i \in 1 .. n : s[2 * i - 1] \in S
  BY <1>2
<1>4. Compacted(s) \in [1 .. n -> S]
  BY <1>3 DEF Compacted
<1>5. Compacted(s) \in Seq(S) /\ Len(Compacted(s)) = n
  BY <1>1, <1>4
<1> QED
  BY <1>1, <1>2, <1>5 DEF Compacted

\* Doubling a stride gives a stride, at most twice the old one.
LEMMA DoubledShape ==
    ASSUME NEW d \in 1 .. MaxU64
    PROVE  /\ Doubled(d) \in 1 .. MaxU64
           /\ Doubled(d) <= 2 * d
BY IndexAssumption DEF Doubled

\* What Sample does to a vector with room for one more entry.
LEMMA SampleType ==
    ASSUME NEW s \in Seq(Checkpoint), Len(s) \in 1 .. Capacity - 1,
           NEW d \in 1 .. MaxU64, NEW c \in Checkpoint, Sample(s, d, c)
    PROVE  /\ entries' \in Seq(Checkpoint)
           /\ Len(entries') \in 1 .. Capacity
           /\ stride' \in 1 .. MaxU64
BY IndexAssumption DEF Sample

\* The index keeps its types and its capacity (observe, compact).
THEOREM IndexTypeCorrect == Spec => []TypeOK
<1>1. IndexInit => TypeOK
  BY IndexAssumption
  DEF IndexInit, TypeOK, Checkpoint, Origin, U64, Cadence
<1>2. TypeOK /\ [Next]_indexVars => TypeOK'
  <2> SUFFICES ASSUME TypeOK, [Next]_indexVars PROVE TypeOK'
    OBVIOUS
  <2>1. CASE UNCHANGED indexVars
    BY <2>1 DEF indexVars, TypeOK
  <2>2. ASSUME NEW c \in Checkpoint, Refuse(c) PROVE TypeOK'
    BY <2>2 DEF Refuse, indexVars, TypeOK
  <2>3. ASSUME NEW c \in Checkpoint, Observe(c) PROVE TypeOK'
    <3>1. CASE Len(entries) = Capacity
      <4>1. /\ Compacted(entries) \in Seq(Checkpoint)
            /\ Len(Compacted(entries)) \in 1 .. Capacity - 1
        BY <3>1, CompactedShape, IndexAssumption DEF TypeOK
      <4>2. Doubled(stride) \in 1 .. MaxU64
        BY DoubledShape DEF TypeOK
      <4>3. Sample(Compacted(entries), Doubled(stride), c)
        BY <2>3, <3>1 DEF Observe
      <4> QED
        BY <2>3, <4>1, <4>2, <4>3, SampleType DEF Observe, TypeOK
    <3>2. CASE Len(entries) # Capacity
      <4>1. Sample(entries, stride, c)
        BY <2>3, <3>2 DEF Observe
      <4>2. Len(entries) \in 1 .. Capacity - 1
        BY <3>2, IndexAssumption DEF TypeOK
      <4> QED
        BY <2>3, <4>1, <4>2, SampleType DEF Observe, TypeOK
    <3> QED
      BY <3>1, <3>2
  <2> QED
    BY <2>1, <2>2, <2>3 DEF Next
<1> QED
  BY <1>1, <1>2, PTL DEF Spec

-----------------------------------------------------------------------------
\* Ordered and Spaced of a vector that is not yet the index.
OrderedSeq(s, last) ==
    /\ s[1] = Origin
    /\ \A i, j \in 1 .. Len(s) : i < j => Follows(s[j], s[i])
    /\ \A i \in 1 .. Len(s) : s[i] = last \/ Follows(last, s[i])

SpacedSeq(s, d) ==
    \A i \in 1 .. Len(s) - 1 : Distance(s[i], s[i + 1]) >= d

\* Follows is transitive on checkpoints.
LEMMA FollowsTransitive ==
    ASSUME NEW a \in Checkpoint, NEW b \in Checkpoint, NEW c \in Checkpoint,
           Follows(b, a), Follows(c, b)
    PROVE  Follows(c, a)
BY IndexAssumption DEF Follows, Checkpoint, U64

\* Distances are integers and add up.
LEMMA DistanceAdds ==
    ASSUME NEW a \in Checkpoint, NEW b \in Checkpoint, NEW c \in Checkpoint
    PROVE  /\ Distance(a, b) \in Int
           /\ Distance(a, c) = Distance(a, b) + Distance(b, c)
<1>1. /\ a.row \in Int /\ b.row \in Int /\ c.row \in Int
      /\ a.offset \in Int /\ b.offset \in Int /\ c.offset \in Int
  BY IndexAssumption DEF Checkpoint, U64
<1> QED
  BY <1>1 DEF Distance

\* A compaction keeps the order and doubles the spacing.
LEMMA CompactedKeeps ==
    ASSUME TypeOK, Len(entries) >= 2,
           OrderedSeq(entries, lastObserved), SpacedSeq(entries, stride)
    PROVE  /\ OrderedSeq(Compacted(entries), lastObserved)
           /\ SpacedSeq(Compacted(entries), Doubled(stride))
<1> DEFINE k == Compacted(entries)
<1>1. /\ k \in Seq(Checkpoint)
      /\ Len(k) = (Len(entries) + 1) \div 2
      /\ Len(k) \in 1 .. Len(entries) - 1
      /\ \A i \in 1 .. Len(k) :
            /\ 2 * i - 1 \in 1 .. Len(entries)
            /\ k[i] = entries[2 * i - 1]
  BY CompactedShape DEF TypeOK
<1>2. OrderedSeq(k, lastObserved)
  <2>1. k[1] = Origin
    BY <1>1 DEF OrderedSeq
  <2>2. ASSUME NEW i \in 1 .. Len(k), NEW j \in 1 .. Len(k), i < j
        PROVE  Follows(k[j], k[i])
    <3>1. /\ 2 * i - 1 \in 1 .. Len(entries)
          /\ 2 * j - 1 \in 1 .. Len(entries)
          /\ 2 * i - 1 < 2 * j - 1
          /\ k[i] = entries[2 * i - 1]
          /\ k[j] = entries[2 * j - 1]
      BY <1>1, <2>2
    <3> QED
      BY <3>1 DEF OrderedSeq
  <2>3. \A i \in 1 .. Len(k) : k[i] = lastObserved \/ Follows(lastObserved, k[i])
    BY <1>1 DEF OrderedSeq
  <2> QED
    BY <2>1, <2>2, <2>3 DEF OrderedSeq
<1>3. ASSUME NEW i \in 1 .. Len(k) - 1
      PROVE  Distance(k[i], k[i + 1]) >= Doubled(stride)
  <2>1. /\ i \in 1 .. Len(k) /\ i + 1 \in 1 .. Len(k)
        /\ Len(k) \in Nat /\ Len(entries) \in Nat
    BY <1>1, <1>3 DEF TypeOK
  <2>2. 2 * (i + 1) - 1 = 2 * i + 1
    BY <2>1
  <2>3. /\ k[i] = entries[2 * i - 1]
        /\ k[i + 1] = entries[2 * i + 1]
        /\ 2 * i - 1 \in 1 .. Len(entries)
        /\ 2 * i + 1 \in 1 .. Len(entries)
    BY <1>1, <2>1, <2>2
  <2>4. 2 * i - 1 \in 1 .. Len(entries) - 1 /\ 2 * i \in 1 .. Len(entries) - 1
    BY <2>1, <2>3
  <2>5. /\ Distance(entries[2 * i - 1], entries[2 * i]) >= stride
        /\ Distance(entries[2 * i], entries[2 * i + 1]) >= stride
    <3>1. (2 * i - 1) + 1 = 2 * i
      BY <2>1
    <3> QED
      BY <2>4, <3>1 DEF SpacedSeq
  <2>6. /\ entries[2 * i - 1] \in Checkpoint
        /\ entries[2 * i] \in Checkpoint
        /\ entries[2 * i + 1] \in Checkpoint
    BY <2>3, <2>4 DEF TypeOK
  <2>7. /\ Distance(k[i], k[i + 1]) =
              Distance(entries[2 * i - 1], entries[2 * i])
              + Distance(entries[2 * i], entries[2 * i + 1])
        /\ Distance(entries[2 * i - 1], entries[2 * i]) \in Int
        /\ Distance(entries[2 * i], entries[2 * i + 1]) \in Int
    <3>1. k[i] \in Checkpoint /\ k[i + 1] \in Checkpoint
      BY <2>3, <2>6
    <3>2. Distance(k[i], k[i + 1]) =
              Distance(k[i], entries[2 * i]) + Distance(entries[2 * i], k[i + 1])
      BY <2>6, <3>1, DistanceAdds
    <3>3. /\ Distance(entries[2 * i - 1], entries[2 * i]) \in Int
          /\ Distance(entries[2 * i], entries[2 * i + 1]) \in Int
      BY <2>6, DistanceAdds
    <3> HIDE DEF k
    <3> QED
      BY <2>3, <3>2, <3>3
  <2>8. /\ Doubled(stride) <= 2 * stride
        /\ Doubled(stride) \in Int /\ stride \in Int
    BY IndexAssumption, DoubledShape DEF TypeOK
  <2> QED
    BY <2>5, <2>7, <2>8
<1> QED
  BY <1>2, <1>3 DEF SpacedSeq

\* Sampling a boundary that follows everything seen so far keeps both.
LEMMA SampleKeeps ==
    ASSUME NEW s \in Seq(Checkpoint), Len(s) >= 1,
           NEW d \in 1 .. MaxU64, NEW c \in Checkpoint,
           lastObserved \in Checkpoint, Follows(c, lastObserved),
           OrderedSeq(s, lastObserved), SpacedSeq(s, d), Sample(s, d, c)
    PROVE  OrderedSeq(entries', c) /\ SpacedSeq(entries', d)
<1>1. ASSUME NEW i \in 1 .. Len(s) PROVE Follows(c, s[i])
  <2>1. s[i] \in Checkpoint
    OBVIOUS
  <2> QED
    BY <2>1, FollowsTransitive DEF OrderedSeq
<1>2. CASE ~ (Distance(s[Len(s)], c) >= d)
  <2>1. entries' = s
    BY <1>2 DEF Sample
  <2> QED
    BY <1>1, <2>1 DEF OrderedSeq
<1>3. CASE Distance(s[Len(s)], c) >= d
  <2>1. entries' = Append(s, c)
    BY <1>3 DEF Sample
  <2>2. /\ Len(entries') = Len(s) + 1
        /\ entries'[Len(s) + 1] = c
        /\ \A i \in 1 .. Len(s) : entries'[i] = s[i]
    BY <2>1
  <2>3. OrderedSeq(entries', c)
    <3>1. entries'[1] = Origin
      BY <2>2 DEF OrderedSeq
    <3>2. ASSUME NEW i \in 1 .. Len(entries'), NEW j \in 1 .. Len(entries'), i < j
          PROVE  Follows(entries'[j], entries'[i])
      <4>1. i \in 1 .. Len(s)
        BY <2>2, <3>2
      <4>2. CASE j = Len(s) + 1
        BY <1>1, <2>2, <4>1, <4>2
      <4>3. CASE j \in 1 .. Len(s)
        BY <2>2, <3>2, <4>1, <4>3 DEF OrderedSeq
      <4> QED
        BY <2>2, <4>2, <4>3
    <3>3. \A i \in 1 .. Len(entries') : entries'[i] = c \/ Follows(c, entries'[i])
      BY <1>1, <2>2
    <3> QED
      BY <3>1, <3>2, <3>3 DEF OrderedSeq
  <2>4. ASSUME NEW i \in 1 .. Len(entries') - 1
        PROVE  Distance(entries'[i], entries'[i + 1]) >= d
    <3>1. CASE i = Len(s)
      <4>1. entries'[i] = s[Len(s)] /\ entries'[i + 1] = c
        BY <2>2, <3>1
      <4> QED
        BY <1>3, <4>1
    <3>2. CASE i \in 1 .. Len(s) - 1
      <4>1. i \in 1 .. Len(s) /\ i + 1 \in 1 .. Len(s)
        BY <3>2
      <4>2. entries'[i] = s[i] /\ entries'[i + 1] = s[i + 1]
        BY <2>2, <4>1
      <4> QED
        BY <3>2, <4>2 DEF SpacedSeq
    <3> QED
      BY <2>2, <3>1, <3>2
  <2> QED
    BY <2>3, <2>4 DEF SpacedSeq
<1> QED
  BY <1>2, <1>3

-----------------------------------------------------------------------------
\* Ordered and Spaced hold in every state: no number of compactions reorders
\* the checkpoints, loses the origin, or lets two of them come closer than the
\* stride.
THEOREM IndexOrderedAndSpaced == Spec => [](Ordered /\ Spaced)
<1> DEFINE Inv == TypeOK /\ OrderedSeq(entries, lastObserved) /\ SpacedSeq(entries, stride)
<1>1. IndexInit => OrderedSeq(entries, lastObserved) /\ SpacedSeq(entries, stride)
  BY DEF IndexInit, OrderedSeq, SpacedSeq
<1>2. Inv /\ [Next]_indexVars /\ TypeOK' => Inv'
  <2> SUFFICES ASSUME Inv, [Next]_indexVars, TypeOK'
               PROVE  /\ OrderedSeq(entries, lastObserved)'
                      /\ SpacedSeq(entries, stride)'
    OBVIOUS
  <2>1. CASE UNCHANGED indexVars
    BY <2>1 DEF indexVars, OrderedSeq, SpacedSeq, Distance
  <2>2. ASSUME NEW c \in Checkpoint, Refuse(c)
        PROVE  /\ OrderedSeq(entries, lastObserved)'
               /\ SpacedSeq(entries, stride)'
    BY <2>2 DEF Refuse, indexVars, OrderedSeq, SpacedSeq, Distance
  <2>3. ASSUME NEW c \in Checkpoint, Observe(c)
        PROVE  /\ OrderedSeq(entries, lastObserved)'
               /\ SpacedSeq(entries, stride)'
    <3>1. PICK s \in Seq(Checkpoint), d \in 1 .. MaxU64 :
            /\ Len(s) >= 1
            /\ OrderedSeq(s, lastObserved)
            /\ SpacedSeq(s, d)
            /\ Sample(s, d, c)
      <4>1. CASE Len(entries) = Capacity
        <5>1. Len(entries) >= 2
          BY <4>1, IndexAssumption
        <5>2. /\ Compacted(entries) \in Seq(Checkpoint)
              /\ Len(Compacted(entries)) >= 1
          BY <5>1, CompactedShape DEF TypeOK
        <5>3. Doubled(stride) \in 1 .. MaxU64
          BY DoubledShape DEF TypeOK
        <5>4. /\ OrderedSeq(Compacted(entries), lastObserved)
              /\ SpacedSeq(Compacted(entries), Doubled(stride))
          BY <5>1, CompactedKeeps
        <5>5. Sample(Compacted(entries), Doubled(stride), c)
          BY <2>3, <4>1 DEF Observe
        <5> QED
          BY <5>2, <5>3, <5>4, <5>5
      <4>2. CASE Len(entries) # Capacity
        <5>1. Sample(entries, stride, c)
          BY <2>3, <4>2 DEF Observe
        <5> QED
          BY <5>1 DEF TypeOK
      <4> QED
        BY <4>1, <4>2
    <3>2. /\ lastObserved \in Checkpoint
          /\ Follows(c, lastObserved)
          /\ lastObserved' = c
          /\ cadence' = cadence
      BY <2>3 DEF Observe, TypeOK
    <3>3. OrderedSeq(entries', c) /\ SpacedSeq(entries', d)
      BY <3>1, <3>2, SampleKeeps
    <3>4. stride' = d
      BY <3>1 DEF Sample
    <3> QED
      BY <3>2, <3>3, <3>4 DEF OrderedSeq, SpacedSeq, Distance
  <2> QED
    BY <2>1, <2>2, <2>3 DEF Next
<1>3. Inv => Ordered /\ Spaced
  BY DEF TypeOK, Ordered, Spaced, OrderedSeq, SpacedSeq
<1> QED
  BY <1>1, <1>2, <1>3, IndexTypeCorrect, PTL DEF Spec

-----------------------------------------------------------------------------
\* The entries that are not after a row are the first ones of the vector
\* (partition_point of nearest).
LEMMA PartitionPoint ==
    ASSUME TypeOK, Ordered, NEW row \in U64
    PROVE  \E m \in 1 .. Len(entries) :
              {i \in DOMAIN entries : entries[i].row <= row} = 1 .. m
<1> DEFINE n == Len(entries)
           Later == {i \in 1 .. n + 1 : i = n + 1 \/ entries[i].row > row}
<1>1. n \in Nat /\ n >= 1 /\ DOMAIN entries = 1 .. n
  BY DEF TypeOK
<1>2. row \in Int /\ \A i \in 1 .. n : entries[i].row \in Int
  <2>1. \A i \in 1 .. n : entries[i] \in Checkpoint
    BY DEF TypeOK
  <2>2. \A c \in Checkpoint : c.row \in Int
    BY IndexAssumption DEF Checkpoint, U64
  <2> QED
    BY <2>1, <2>2, IndexAssumption DEF U64
<1>3. Later \subseteq Nat /\ n + 1 \in Later
  BY <1>1
<1>4. PICK k \in Later : \A j \in Later : ~ (<<j, k>> \in OpToRel(<, Nat))
  BY <1>3, WFMin, NatLessThanWellFounded, Zenon
<1>5. \A j \in Later : ~ (j < k)
  BY <1>3, <1>4 DEF OpToRel
<1>6. 1 \notin Later
  <2>1. entries[1].row = 0
    BY DEF Ordered, Origin
  <2> QED
    BY <1>1, <2>1, IndexAssumption DEF U64
<1>7. k \in 2 .. n + 1 /\ k - 1 \in 1 .. n
  <2>1. k \in 1 .. n + 1 /\ k # 1
    BY <1>4, <1>6
  <2> QED
    BY <1>1, <2>1
<1>8. ASSUME NEW i \in 1 .. n, i < k PROVE entries[i].row <= row
  BY <1>1, <1>2, <1>5, <1>8
<1>9. ASSUME NEW i \in 1 .. n, i >= k PROVE ~ (entries[i].row <= row)
  <2>0. k \in 1 .. n
    BY <1>1, <1>7, <1>9
  <2>1. k \in 1 .. n /\ entries[k].row > row
    <3>1. k # n + 1
      BY <1>1, <2>0
    <3> QED
      BY <1>4, <2>0, <3>1
  <2>2. i = k \/ Follows(entries[i], entries[k])
    BY <1>1, <1>9, <2>1 DEF Ordered
  <2> QED
    BY <1>2, <2>1, <2>2 DEF Follows
<1>10. {i \in DOMAIN entries : entries[i].row <= row} = 1 .. k - 1
  BY <1>1, <1>3, <1>7, <1>8, <1>9
<1> QED
  BY <1>7, <1>10

\* Nearest returns the last of them.
LEMMA OrderedNearest ==
    ASSUME TypeOK, Ordered PROVE NearestIsFloor
<1> SUFFICES ASSUME NEW row \in U64
             PROVE  /\ Nearest(row).row <= row
                    /\ \A i \in DOMAIN entries :
                          entries[i].row <= row => entries[i].row <= Nearest(row).row
  BY DEF NearestIsFloor
<1> DEFINE S == {i \in DOMAIN entries : entries[i].row <= row}
<1>1. PICK m \in 1 .. Len(entries) : S = 1 .. m
  BY PartitionPoint
<1>2. m \in Nat /\ m # 0 /\ m \in DOMAIN entries /\ m \in S
  BY <1>1 DEF TypeOK
<1>3. Cardinality(S) = m
  <2>1. Cardinality(1 .. m) = IF 1 > m THEN 0 ELSE m - 1 + 1
    <3>1. 1 \in Int /\ m \in Int
      BY <1>2
    <3> QED
      BY <3>1, FS_Interval, Zenon
  <2>2. Cardinality(1 .. m) = m
    BY <1>2, <2>1
  <2> HIDE DEF S
  <2> QED
    BY <1>1, <2>2, Zenon
<1>4. Nearest(row) = entries[m]
  BY <1>2, <1>3 DEF Nearest
<1>5. \A i \in DOMAIN entries : entries[i].row \in Int
  <2>1. \A i \in DOMAIN entries : entries[i] \in Checkpoint
    BY DEF TypeOK
  <2>2. \A c \in Checkpoint : c.row \in Int
    BY IndexAssumption DEF Checkpoint, U64
  <2> QED
    BY <2>1, <2>2
<1>6. ASSUME NEW i \in S PROVE entries[i].row <= entries[m].row
  <2>1. i \in DOMAIN entries /\ i \in 1 .. m
    BY <1>1
  <2>2. i = m \/ Follows(entries[m], entries[i])
    BY <1>2, <2>1 DEF Ordered
  <2> QED
    BY <1>2, <1>5, <2>1, <2>2 DEF Follows
<1> QED
  BY <1>2, <1>4, <1>6

\* A jump to a row starts at the last known boundary that is not after it, at
\* every size of the file and after any number of compactions.
THEOREM NearestBoundaryIsFloor == Spec => []NearestIsFloor
BY OrderedNearest, IndexTypeCorrect, IndexOrderedAndSpaced, PTL
=============================================================================
