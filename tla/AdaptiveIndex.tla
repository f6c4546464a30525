---------------------------- MODULE AdaptiveIndex ----------------------------
(***************************************************************************)
(* The sparse checkpoint index of crates/leanrows-core/src/index.rs: a     *)
(* vector of known record boundaries that never outgrows its capacity.     *)
(* When a boundary is observed while the vector is full, every second      *)
(* entry is dropped and the sampling stride doubles.                       *)
(*                                                                         *)
(* Scroll and search jumps start reading at Nearest(row), so an entry that *)
(* is not a true boundary, or that lies after the wanted row, shows the    *)
(* user the wrong rows.                                                    *)
(***************************************************************************)
EXTENDS Integers, Sequences, FiniteSets

CONSTANTS
    Capacity,       \* capacity_limit, at least two
    InitialStride,  \* initial_stride, not zero
    MaxU64          \* the largest u64; small in a model

ASSUME IndexAssumption ==
    /\ Capacity \in Nat /\ Capacity >= 2
    /\ MaxU64 \in Nat
    /\ InitialStride \in 1 .. MaxU64

VARIABLES
    entries,        \* the stored checkpoints, oldest first
    stride,         \* least distance between stored checkpoints
    cadence,        \* what the stride counts, fixed when the index is made
    lastObserved    \* last_observed: the newest accepted boundary

indexVars == <<entries, stride, cadence, lastObserved>>

Cadence == {"Rows", "Bytes"}

U64 == 0 .. MaxU64

Checkpoint == [row : U64, offset : U64]

Origin == [row |-> 0, offset |-> 0]

\* u64::saturating_mul(2)
Doubled(n) == IF 2 * n > MaxU64 THEN MaxU64 ELSE 2 * n

\* The distance the cadence samples by, between a checkpoint and a later one.
Distance(from, to) ==
    IF cadence = "Rows" THEN to.row - from.row ELSE to.offset - from.offset

\* A boundary the index accepts after c: both coordinates grow.
Follows(d, c) == d.row > c.row /\ d.offset > c.offset

\* Faulty variants, each a slip that one of the properties below rejects.
NothingDropped(s) == s
NewestEntry(row) == entries[Len(entries)]
SampledByOldStride(s, d, c) ==
    /\ stride' = d
    /\ entries' = IF Distance(s[Len(s)], c) >= stride THEN Append(s, c) ELSE s

\* compact: entries 1, 3, 5, ... are kept in place.
Compacted(s) == [i \in 1 .. (Len(s) + 1) \div 2 |-> s[2 * i - 1]]

\* nearest: partition_point over rows that are strictly increasing.
Nearest(row) ==
    LET after == Cardinality({i \in DOMAIN entries : entries[i].row <= row})
    IN  entries[IF after = 0 THEN 1 ELSE after]

-----------------------------------------------------------------------------
IndexInit ==
    /\ entries = <<Origin>>
    /\ stride = InitialStride
    /\ cadence \in Cadence
    /\ lastObserved = Origin

\* The same boundary again, or one that goes back: nothing changes. The second
\* is NonMonotonic, an error to the caller.
Refuse(c) ==
    /\ ~ Follows(c, lastObserved)
    /\ UNCHANGED indexVars

\* Stores c after the entries in s when it is a full stride away.
Sample(s, d, c) ==
    /\ stride' = d
    /\ entries' = IF Distance(s[Len(s)], c) >= d THEN Append(s, c) ELSE s

Observe(c) ==
    /\ Follows(c, lastObserved)
    /\ lastObserved' = c
    /\ UNCHANGED cadence
    /\ IF Len(entries) = Capacity
       THEN Sample(Compacted(entries), Doubled(stride), c)
       ELSE Sample(entries, stride, c)

Next == \E c \in Checkpoint : Observe(c) \/ Refuse(c)

Spec == IndexInit /\ [][Next]_indexVars

-----------------------------------------------------------------------------
\* Type correctness: the vector stays within the reservation made in new(),
\* so push never reallocates.
TypeOK ==
    /\ entries \in Seq(Checkpoint)
    /\ Len(entries) \in 1 .. Capacity
    /\ stride \in 1 .. MaxU64
    /\ cadence \in Cadence
    /\ lastObserved \in Checkpoint

\* partition_point needs ordered rows and the scanner ordered offsets, also
\* after any number of compactions; the origin survives them all, so there is
\* always an entry at or before every row.
Ordered ==
    /\ entries[1] = Origin
    /\ \A i, j \in DOMAIN entries : i < j => Follows(entries[j], entries[i])
    /\ \A i \in DOMAIN entries :
          entries[i] = lastObserved \/ Follows(lastObserved, entries[i])

\* Entries stay at least a stride apart: halving the vector and doubling the
\* stride go together, which is what keeps the capacity enough for any file.
Spaced ==
    \A i \in 1 .. Len(entries) - 1 :
        Distance(entries[i], entries[i + 1]) >= stride

\* nearest_checkpoint never returns a boundary after the wanted row, and
\* returns the last one that is not.
NearestIsFloor ==
    \A row \in U64 :
        /\ Nearest(row).row <= row
        /\ \A i \in DOMAIN entries :
              entries[i].row <= row => entries[i].row <= Nearest(row).row

=============================================================================
