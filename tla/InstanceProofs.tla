---------------------------- MODULE InstanceProofs ----------------------------
(***************************************************************************)
(* Proofs about SingleInstance for any number of launches and files: what   *)
(* a window answered for is opened there or waits there with a message that  *)
(* opens it, however launches start, crash, give up and send again.          *)
(***************************************************************************)
EXTENDS SingleInstance, SequenceTheorems, TLAPS

\* The files in the payloads that a launch has got through so far.
Through(l, count) ==
    {Brought[l][i] : i \in {j \in 1 .. Len(Brought[l]) : j <= count * MaxForwarded}}

\* The window has these files, opened or waiting, unless it dropped some.
Has(w, names) == overflowed[w] \/ names \subseteq dealt[w] \cup Range(waiting[w])

\* Files that wait have a message that opens them.
WakePart == \A w \in Launches : waiting[w] # <<>> => "open" \in Range(box[w])

\* A launch sends to a window that was made, and has a payload left to send;
\* only while it sends has it sent any.
TargetOf(l) ==
    at[l] \in {"sending", "forwarded"} =>
        target[l] \in Launches /\ at[target[l]] \in {"window", "closing", "gone"}

CountOf(l) ==
    sent[l] < Len(Payloads(l)) /\ (at[l] # "sending" => sent[l] = 0)

\* What was accepted so far is there.
SendingOf(l) ==
    at[l] = "sending" /\ at[target[l]] = "window" => Has(target[l], Through(l, sent[l]))

ForwardedOf(l) ==
    at[l] = "forwarded" /\ at[target[l]] = "window" => Has(target[l], Range(Brought[l]))

LaunchPart ==
    \A l \in Launches : TargetOf(l) /\ CountOf(l) /\ SendingOf(l) /\ ForwardedOf(l)

\* The inductive invariant.
InstanceIInv ==
    /\ InstanceTypeOK
    /\ WakePart
    /\ LaunchPart

-----------------------------------------------------------------------------
(* The payloads of a launch.                                                 *)

LEMMA Files ==
    ASSUME NEW l \in Launches
    PROVE  /\ Brought[l] \in Seq(FileNames) /\ Len(Brought[l]) \in Nat
           /\ DOMAIN Brought[l] = 1 .. Len(Brought[l])
           /\ MaxForwarded \in Nat \ {0}
BY InstanceAssumption

LEMMA RoundedUp ==
    ASSUME NEW n \in Nat, NEW m \in Nat \ {0}
    PROVE  LET q == (n + m - 1) \div m
           IN  q \in Nat /\ n <= q * m
<1> DEFINE a == n + m - 1
           q == a \div m
           r == a % m
<1>1. a \in Nat
  OBVIOUS
<1> HIDE DEF a
<1>2. q \in Nat /\ r \in 0 .. m - 1 /\ a = m * q + r
  BY <1>1
<1> HIDE DEF q, r
<1>3. m * q = q * m /\ q * m \in Nat
  BY <1>2
<1>4. n <= q * m
  BY <1>2, <1>3 DEF a
<1> QED
  BY <1>2, <1>4 DEF q, a

\* The first files, then the next ones, then all of them.
LEMMA ThroughNone ==
    ASSUME NEW l \in Launches
    PROVE  Through(l, 0) = {}
<1>1. \A j \in 1 .. Len(Brought[l]) : ~ (j <= 0 * MaxForwarded)
  BY Files
<1> QED
  BY <1>1 DEF Through

LEMMA PayloadCount ==
    ASSUME NEW l \in Launches
    PROVE  /\ Len(Payloads(l)) \in Nat \ {0}
           /\ Range(Brought[l]) \subseteq Through(l, Len(Payloads(l)))
<1> DEFINE n == Len(Brought[l])
           count == (n + MaxForwarded - 1) \div MaxForwarded
<1>1. n \in Nat /\ MaxForwarded \in Nat \ {0} /\ DOMAIN Brought[l] = 1 .. n
  BY Files
<1>2. count \in Nat /\ n <= count * MaxForwarded
  BY <1>1, RoundedUp
<1> HIDE DEF count
<1>3. CASE count = 0
  <2>1. Payloads(l) = << <<>> >>
    BY <1>3 DEF Payloads, count
  <2>2. n = 0
    BY <1>1, <1>2, <1>3
  <2>3. Range(Brought[l]) = {}
    BY <1>1, <2>2 DEF Range
  <2> QED
    BY <2>1, <2>3
<1>4. CASE count # 0
  <2>1. Len(Payloads(l)) = count
    BY <1>2, <1>4 DEF Payloads, count
  <2>2. \A j \in 1 .. n : j <= count * MaxForwarded
    <3>1. count * MaxForwarded \in Nat
      BY <1>1, <1>2
    <3> QED
      BY <1>1, <1>2, <3>1
  <2>3. Range(Brought[l]) \subseteq Through(l, count)
    BY <1>1, <2>2 DEF Range, Through
  <2> QED
    BY <1>2, <1>4, <2>1, <2>3
<1> QED
  BY <1>3, <1>4

LEMMA PayloadFiles ==
    ASSUME NEW l \in Launches, NEW k \in Nat, k < Len(Payloads(l))
    PROVE  LET payload == Payloads(l)[k + 1]
           IN  /\ payload \in Seq(FileNames)
               /\ Through(l, k + 1) \subseteq Through(l, k) \cup Range(payload)
<1> DEFINE files == Brought[l]
           n == Len(files)
           m == MaxForwarded
           count == (n + m - 1) \div m
           payload == Payloads(l)[k + 1]
<1>1. n \in Nat /\ m \in Nat \ {0} /\ DOMAIN files = 1 .. n /\ files \in Seq(FileNames)
  BY Files
<1>2. count \in Nat /\ n <= count * m
  BY <1>1, RoundedUp
<1> HIDE DEF count
<1>3. CASE count = 0
  <2>1. Payloads(l) = << <<>> >>
    BY <1>3 DEF Payloads, count
  <2>2. n = 0
    BY <1>1, <1>2, <1>3
  <2>3. Len(Payloads(l)) = 1
    BY <2>1
  <2>4. k = 0
    BY <2>3
  <2>5. payload = <<>>
    BY <2>1, <2>4
  <2>6. Through(l, k + 1) = {}
    BY <2>2 DEF Through
  <2> QED
    BY <2>5, <2>6
<1>4. CASE count # 0
  <2> DEFINE from == k * m
             to == IF (k + 1) * m < n THEN (k + 1) * m ELSE n
  <2>1. from \in Nat /\ (k + 1) * m = from + m
    BY <1>1
  <2>2. Len(Payloads(l)) = count /\ k + 1 \in 1 .. count
    BY <1>2, <1>4 DEF Payloads, count
  <2> DEFINE first(i) == (i - 1) * m + 1
             last(i) == IF i * m < n THEN i * m ELSE n
  <2>3. Payloads(l) = [i \in 1 .. count |-> SubSeq(files, first(i), last(i))]
    BY <1>4 DEF Payloads, count
  <2>4. payload = SubSeq(files, from + 1, to)
    <3>1. first(k + 1) = from + 1
      <4>1. k + 1 - 1 = k
        OBVIOUS
      <4> QED
        BY <4>1
    <3>2. last(k + 1) = to
      OBVIOUS
    <3> HIDE DEF first, last, from, to
    <3>3. payload = SubSeq(files, first(k + 1), last(k + 1))
      BY <2>2, <2>3
    <3> QED
      BY <3>1, <3>2, <3>3
  <2> HIDE DEF from, payload
  <2>5. to \in Nat /\ to <= n
    BY <1>1, <2>1
  <2>6. \A j \in 1 .. n : j <= (k + 1) * m => j <= to
    BY <1>1, <2>1
  <2> HIDE DEF to
  <2>7. /\ payload \in Seq(FileNames)
        /\ Len(payload) = IF from + 1 <= to THEN to - (from + 1) + 1 ELSE 0
        /\ \A j \in 1 .. to - (from + 1) + 1 : payload[j] = files[from + 1 + j - 1]
    <3>1. \A j \in from + 1 .. to : files[j] \in FileNames
      BY <1>1, <2>1, <2>5
    <3> QED
      BY <2>1, <2>4, <2>5, <3>1, SubSeqProperties
  <2>8. ASSUME NEW j \in 1 .. n, j <= (k + 1) * m, ~ (j <= k * m)
        PROVE  files[j] \in Range(payload)
    <3>1. j <= to /\ from < j
      BY <2>1, <2>6, <2>8 DEF from
    <3>2. /\ j - from \in 1 .. to - (from + 1) + 1
          /\ from + 1 + (j - from) - 1 = j
          /\ Len(payload) = to - (from + 1) + 1
      BY <2>1, <2>5, <2>7, <3>1
    <3>3. payload[j - from] = files[j] /\ j - from \in DOMAIN payload
      BY <2>7, <3>2
    <3> QED
      BY <3>3 DEF Range
  <2>9. Through(l, k + 1) \subseteq Through(l, k) \cup Range(payload)
    BY <2>8 DEF Through
  <2> QED
    BY <2>7, <2>9 DEF payload
<1> QED
  BY <1>3, <1>4

-----------------------------------------------------------------------------
(* What a window receives.                                                   *)

LEMMA RangeConcat ==
    ASSUME NEW S, NEW s \in Seq(S), NEW t \in Seq(S)
    PROVE  Range(s \o t) = Range(s) \cup Range(t)
BY RangeConcatenation

LEMMA ReceiveKeeps ==
    ASSUME InstanceTypeOK, WakePart, NEW w \in Launches, NEW paths \in Seq(FileNames),
           Receive(w, paths)
    PROVE  /\ box' \in [Launches -> Seq({"open", "close"})]
           /\ waiting' \in [Launches -> Seq(FileNames)]
           /\ Len(waiting'[w]) <= MaxForwarded
           /\ \A v \in Launches \ {w} : waiting'[v] = waiting[v] /\ box'[v] = box[v]
           /\ overflowed' \in [Launches -> BOOLEAN]
           /\ \A v \in Launches : overflowed[v] => overflowed'[v]
           /\ \A v \in Launches : Range(waiting[v]) \subseteq Range(waiting'[v])
           /\ overflowed'[w] \/ Range(paths) \subseteq Range(waiting'[w])
           /\ waiting'[w] # <<>> => "open" \in Range(box'[w])
           /\ dealt' = dealt
<1> DEFINE room == MaxForwarded - Len(waiting[w])
           kept == IF Len(paths) <= room THEN paths ELSE SubSeq(paths, 1, room)
           woken == Append(box[w], "open")
<1>1. /\ waiting \in [Launches -> Seq(FileNames)] /\ waiting[w] \in Seq(FileNames)
      /\ box \in [Launches -> Seq({"open", "close"})]
      /\ box[w] \in Seq({"open", "close"})
      /\ overflowed \in [Launches -> BOOLEAN]
      /\ Len(waiting[w]) \in Nat /\ Len(waiting[w]) <= MaxForwarded /\ Len(paths) \in Nat
      /\ MaxForwarded \in Nat
  BY InstanceAssumption DEF InstanceTypeOK
<1>2. room \in Nat
  BY <1>1
<1>3. kept \in Seq(FileNames) /\ Len(kept) \in Nat /\ Len(kept) <= room
  <2>1. CASE Len(paths) <= room
    BY <1>1, <2>1
  <2>2. CASE ~ (Len(paths) <= room)
    <3>1. \A j \in 1 .. room : paths[j] \in FileNames
      BY <1>1, <1>2, <2>2
    <3>2. SubSeq(paths, 1, room) \in Seq(FileNames)
      BY <1>2, <3>1, SubSeqProperties
    <3>3. Len(SubSeq(paths, 1, room)) = IF 1 <= room THEN room - 1 + 1 ELSE 0
      BY <1>2, <3>1, SubSeqProperties
    <3> QED
      BY <1>2, <2>2, <3>2, <3>3
  <2> QED
    BY <2>1, <2>2
<1>4. /\ waiting' = [waiting EXCEPT ![w] = waiting[w] \o kept]
      /\ overflowed' = [overflowed EXCEPT ![w] = overflowed[w] \/ kept # paths]
      /\ box' = [box EXCEPT ![w] = IF Wakes(w, paths) THEN woken ELSE box[w]]
      /\ dealt' = dealt
  BY DEF Receive
<1>5. paths = <<>> => kept = <<>>
  BY <1>2
<1> HIDE DEF kept, room, woken
<1>6. /\ waiting[w] \o kept \in Seq(FileNames)
      /\ Len(waiting[w] \o kept) = Len(waiting[w]) + Len(kept)
      /\ Range(waiting[w] \o kept) = Range(waiting[w]) \cup Range(kept)
      /\ kept = <<>> => waiting[w] \o kept = waiting[w]
  BY <1>1, <1>3, RangeConcat, ConcatProperties, ConcatEmptySeq
<1>7. Len(waiting[w]) + Len(kept) <= MaxForwarded
  BY <1>1, <1>3 DEF room
<1>8. /\ woken \in Seq({"open", "close"}) /\ "open" \in Range(woken)
  <2>1. woken \in Seq({"open", "close"}) /\ woken[Len(box[w]) + 1] = "open"
        /\ Len(box[w]) + 1 \in DOMAIN woken
    BY <1>1 DEF woken
  <2> QED
    BY <2>1 DEF Range
<1>9. /\ waiting' \in [Launches -> Seq(FileNames)]
      /\ waiting'[w] = waiting[w] \o kept
      /\ \A v \in Launches \ {w} : waiting'[v] = waiting[v] /\ box'[v] = box[v]
      /\ box' \in [Launches -> Seq({"open", "close"})]
      /\ box'[w] = IF Wakes(w, paths) THEN woken ELSE box[w]
  BY <1>1, <1>4, <1>6, <1>8
<1>10. Len(waiting'[w]) <= MaxForwarded
  BY <1>6, <1>7, <1>9
<1>11. \A v \in Launches : Range(waiting[v]) \subseteq Range(waiting'[v])
  BY <1>6, <1>9
<1>12. waiting'[w] # <<>> => "open" \in Range(box'[w])
  <2>1. CASE paths = <<>>
    <3>1. waiting'[w] = waiting[w] /\ box'[w] = box[w]
      BY <1>5, <1>6, <1>9, <2>1 DEF Wakes
    <3> QED
      BY <3>1 DEF WakePart
  <2>2. CASE paths # <<>>
    BY <1>8, <1>9, <2>2 DEF Wakes
  <2> QED
    BY <2>1, <2>2
<1> DEFINE dropped == kept # paths
<1>13. overflowed' = [overflowed EXCEPT ![w] = overflowed[w] \/ dropped]
  BY <1>4
<1>14. dropped \/ Range(paths) \subseteq Range(waiting'[w])
  BY <1>6, <1>9
<1>15. dropped \in BOOLEAN
  OBVIOUS
<1> HIDE DEF dropped
<1>16. /\ overflowed' \in [Launches -> BOOLEAN]
       /\ \A v \in Launches : overflowed[v] => overflowed'[v]
       /\ dropped => overflowed'[w]
  BY <1>1, <1>13, <1>15
<1> QED
  BY <1>4, <1>9, <1>10, <1>11, <1>12, <1>14, <1>16

-----------------------------------------------------------------------------
(* What a step leaves to the launches it does not move.                      *)

Made == {"window", "closing", "gone"}

\* Windows that were made stay made, and none but a launch that builds one gets
\* a window.
WindowsLast ==
    \A w \in Launches : (at[w] \in Made => at'[w] \in Made)
                        /\ (at'[w] = "window" => at[w] \in {"window", "building"})

\* An open window loses no file.
FilesStay ==
    \A w \in Launches : at[w] = "window" /\ at'[w] = "window" =>
        /\ overflowed[w] => overflowed'[w]
        /\ dealt[w] \cup Range(waiting[w]) \subseteq dealt'[w] \cup Range(waiting'[w])

LEMMA OthersKeep ==
    ASSUME InstanceIInv, WindowsLast, FilesStay, NEW k \in Launches,
           at'[k] = at[k], target'[k] = target[k], sent'[k] = sent[k]
    PROVE  TargetOf(k)' /\ CountOf(k)' /\ SendingOf(k)' /\ ForwardedOf(k)'
<1>1. TargetOf(k) /\ CountOf(k) /\ SendingOf(k) /\ ForwardedOf(k)
  BY DEF InstanceIInv, LaunchPart
<1>2. CountOf(k)'
  BY <1>1 DEF CountOf
<1>3. TargetOf(k)'
  BY <1>1 DEF TargetOf, WindowsLast, Made
<1>4. ASSUME NEW names, at[k] \in {"sending", "forwarded"}, at'[target[k]] = "window",
             at[target[k]] = "window" => Has(target[k], names)
      PROVE  overflowed'[target[k]]
             \/ names \subseteq dealt'[target[k]] \cup Range(waiting'[target[k]])
  <2>1. target[k] \in Launches /\ at[target[k]] = "window"
    BY <1>1, <1>4 DEF TargetOf, WindowsLast
  <2> QED
    BY <1>4, <2>1 DEF FilesStay, Has
<1>5. SendingOf(k)'
  <2>1. SUFFICES ASSUME at'[k] = "sending", at'[target'[k]] = "window"
                 PROVE  Has(target[k], Through(k, sent[k]))'
    BY DEF SendingOf
  <2>2. at[target[k]] = "window" => Has(target[k], Through(k, sent[k]))
    BY <1>1, <2>1 DEF SendingOf
  <2>3. overflowed'[target[k]]
        \/ Through(k, sent[k]) \subseteq dealt'[target[k]] \cup Range(waiting'[target[k]])
    BY <1>4, <2>1, <2>2
  <2> QED
    BY <2>3 DEF Has, Through
<1>6. ForwardedOf(k)'
  BY <1>1, <1>4 DEF ForwardedOf, Has
<1> QED
  BY <1>2, <1>3, <1>5, <1>6

\* A launch that is not sending, or has begun with its first payload.
LEMMA FreshKeeps ==
    ASSUME NEW k \in Launches, sent'[k] = 0,
           at'[k] \notin {"sending", "forwarded"}
    PROVE  TargetOf(k)' /\ CountOf(k)' /\ SendingOf(k)' /\ ForwardedOf(k)'
<1>1. Len(Payloads(k)) \in Nat \ {0}
  BY PayloadCount
<1>2. CountOf(k)'
  BY <1>1 DEF CountOf
<1> QED
  BY <1>2 DEF TargetOf, SendingOf, ForwardedOf

\* A launch steps, or what waits at its window changes.
LEMMA LaunchSteps ==
    ASSUME InstanceIInv, NEW l \in Launches, WindowsLast, FilesStay, InstanceTypeOK',
           \A k \in Launches \ {l} :
               at'[k] = at[k] /\ target'[k] = target[k] /\ sent'[k] = sent[k],
           WakePart',
           TargetOf(l)' /\ CountOf(l)' /\ SendingOf(l)' /\ ForwardedOf(l)'
    PROVE  InstanceIInv'
<1>1. LaunchPart'
  BY OthersKeep DEF LaunchPart
<1> QED
  BY <1>1 DEF InstanceIInv

States == Running \cup {"unborn", "claiming", "sending", "forwarded", "gone"}

LEMMA Moves ==
    ASSUME InstanceTypeOK, NEW l \in Launches, NEW state \in States, Becomes(l, state),
           at[l] \in Made => state \in Made,
           state = "window" => at[l] \in {"window", "building"}
    PROVE  /\ at' \in [Launches -> States] /\ at'[l] = state
           /\ \A k \in Launches \ {l} : at'[k] = at[k]
           /\ WindowsLast
<1>1. at \in [Launches -> States] /\ at' = [at EXCEPT ![l] = state]
  BY DEF InstanceTypeOK, Becomes, States
<1>2. \A k \in Launches : at'[k] = IF k = l THEN state ELSE at[k]
  BY <1>1
<1> QED
  BY <1>1, <1>2 DEF WindowsLast, Made

\* The windows' variables stay as they are.
LEMMA WindowsStay ==
    ASSUME InstanceIInv, UNCHANGED windowVars
    PROVE  FilesStay /\ WakePart'
BY DEF InstanceIInv, windowVars, FilesStay, WakePart

-----------------------------------------------------------------------------
(* One lemma for each step.                                                  *)

LEMMA LaunchStep ==
    ASSUME InstanceIInv, NEW l \in Launches, Launch(l)
    PROVE  InstanceIInv'
<1>1. InstanceTypeOK /\ CountOf(l) /\ at[l] = "unborn" /\ Becomes(l, "claiming")
      /\ UNCHANGED <<mutex, left, target, sent, windowVars>>
  BY DEF InstanceIInv, LaunchPart, Launch
<1>2. at' \in [Launches -> States] /\ at'[l] = "claiming" /\ WindowsLast
      /\ \A k \in Launches \ {l} : at'[k] = at[k]
  BY <1>1, Moves DEF States, Made
<1>3. InstanceTypeOK'
  BY <1>1, <1>2 DEF InstanceTypeOK, States, windowVars
<1>4. TargetOf(l)' /\ CountOf(l)' /\ SendingOf(l)' /\ ForwardedOf(l)'
  <2>1. sent'[l] = 0
    BY <1>1 DEF CountOf
  <2> QED
    BY <1>2, <2>1, FreshKeeps
<1> QED
  BY <1>1, <1>2, <1>3, <1>4, WindowsStay, LaunchSteps

LEMMA AcquireStep ==
    ASSUME InstanceIInv, NEW l \in Launches, Acquire(l)
    PROVE  InstanceIInv'
<1>1. InstanceTypeOK /\ CountOf(l) /\ at[l] = "claiming" /\ Becomes(l, "building")
      /\ mutex' = l /\ UNCHANGED <<left, target, sent, windowVars>>
  BY DEF InstanceIInv, LaunchPart, Acquire
<1>2. at' \in [Launches -> States] /\ at'[l] = "building" /\ WindowsLast
      /\ \A k \in Launches \ {l} : at'[k] = at[k]
  BY <1>1, Moves DEF States, Made, Running
<1>3. InstanceTypeOK'
  BY <1>1, <1>2 DEF InstanceTypeOK, States, windowVars
<1>4. TargetOf(l)' /\ CountOf(l)' /\ SendingOf(l)' /\ ForwardedOf(l)'
  <2>1. sent'[l] = 0
    BY <1>1 DEF CountOf
  <2> QED
    BY <1>2, <2>1, FreshKeeps
<1> QED
  BY <1>1, <1>2, <1>3, <1>4, WindowsStay, LaunchSteps

\* A reader that was found is a window that was made, and has nothing of it.
LEMMA FindReaderStep ==
    ASSUME InstanceIInv, NEW l \in Launches, FindReader(l)
    PROVE  InstanceIInv'
<1>1. /\ InstanceTypeOK /\ CountOf(l) /\ at[l] = "claiming" /\ Becomes(l, "sending")
      /\ UNCHANGED <<mutex, left, sent, windowVars>>
  BY DEF InstanceIInv, LaunchPart, FindReader
<1>2. PICK w \in Readers(l) : target' = [target EXCEPT ![l] = w]
  BY DEF FindReader
<1>3. w \in Launches /\ w # l /\ at[w] \in Made
  BY <1>2 DEF Readers, Made
<1>4. at' \in [Launches -> States] /\ at'[l] = "sending" /\ WindowsLast
      /\ \A k \in Launches \ {l} : at'[k] = at[k]
  BY <1>1, Moves DEF States, Made
<1>5. target' \in [Launches -> Launches \cup {0}] /\ target'[l] = w
      /\ \A k \in Launches \ {l} : target'[k] = target[k]
  BY <1>1, <1>2, <1>3 DEF InstanceTypeOK
<1>6. InstanceTypeOK'
  BY <1>1, <1>4, <1>5 DEF InstanceTypeOK, States, windowVars
<1>7. TargetOf(l)' /\ CountOf(l)' /\ SendingOf(l)' /\ ForwardedOf(l)'
  <2>1. sent'[l] = 0 /\ CountOf(l)'
    BY <1>1, <1>4 DEF CountOf
  <2>2. SendingOf(l)'
    <3>1. Through(l, sent'[l]) = {}
      BY <2>1, ThroughNone
    <3>2. Through(l, sent[l])' = {}
      BY <3>1 DEF Through
    <3> QED
      BY <3>2 DEF SendingOf, Has
  <2>3. TargetOf(l)'
    BY <1>3, <1>4, <1>5 DEF TargetOf, Made
  <2>4. ForwardedOf(l)'
    BY <1>4 DEF ForwardedOf
  <2> QED
    BY <2>1, <2>2, <2>3, <2>4
<1> QED
  BY <1>1, <1>4, <1>5, <1>6, <1>7, WindowsStay, LaunchSteps

\* A try that failed leaves a launch that has sent nothing.
LEMMA TryAgainStep ==
    ASSUME InstanceIInv, NEW l \in Launches, at[l] \in {"claiming", "sending"},
           TryAgain(l), UNCHANGED mutex, FilesStay, WakePart',
           box' \in [Launches -> Seq({"open", "close"})],
           waiting' \in [Launches -> Seq(FileNames)],
           \A w \in Launches : Len(waiting'[w]) <= MaxForwarded,
           dealt' = dealt, overflowed' \in [Launches -> BOOLEAN]
    PROVE  InstanceIInv'
<1>1. InstanceTypeOK /\ Retries \in Nat
  BY InstanceAssumption DEF InstanceIInv
<1>2. /\ at' \in [Launches -> States] /\ at'[l] \in {"claiming", "building"}
      /\ WindowsLast /\ \A k \in Launches \ {l} : at'[k] = at[k]
  <2>1. Becomes(l, "claiming") \/ Becomes(l, "building")
    BY DEF TryAgain
  <2>2. "claiming" \in States /\ "building" \in States
    BY DEF States, Running
  <2> QED
    BY <1>1, <2>1, <2>2, Moves DEF Made
<1>3. left' \in [Launches -> 0 .. Retries]
  <2>1. left \in [Launches -> 0 .. Retries]
    BY <1>1 DEF InstanceTypeOK
  <2>2. CASE left[l] = 0
    BY <2>1, <2>2 DEF TryAgain
  <2>3. CASE left[l] # 0
    <3>1. left[l] - 1 \in 0 .. Retries
      BY <1>1, <2>1, <2>3
    <3>2. left' = [left EXCEPT ![l] = left[l] - 1]
      BY <2>3 DEF TryAgain
    <3> QED
      BY <2>1, <3>1, <3>2
  <2> QED
    BY <2>2, <2>3
<1>4. /\ target' \in [Launches -> Launches \cup {0}] /\ sent' \in [Launches -> Nat]
      /\ sent'[l] = 0
      /\ \A k \in Launches \ {l} : target'[k] = target[k] /\ sent'[k] = sent[k]
  BY <1>1 DEF InstanceTypeOK, TryAgain
<1>5. InstanceTypeOK'
  BY <1>1, <1>2, <1>3, <1>4 DEF InstanceTypeOK, States
<1> QED
  BY <1>2, <1>4, <1>5, FreshKeeps, LaunchSteps

LEMMA NoReaderStep ==
    ASSUME InstanceIInv, NEW l \in Launches, NoReader(l)
    PROVE  InstanceIInv'
<1>1. /\ InstanceTypeOK /\ at[l] = "claiming" /\ TryAgain(l)
      /\ UNCHANGED <<mutex, windowVars>>
  BY DEF InstanceIInv, NoReader
<1>2. /\ box' \in [Launches -> Seq({"open", "close"})]
      /\ waiting' \in [Launches -> Seq(FileNames)]
      /\ \A w \in Launches : Len(waiting'[w]) <= MaxForwarded
      /\ dealt' = dealt /\ overflowed' \in [Launches -> BOOLEAN]
  BY <1>1 DEF InstanceTypeOK, windowVars
<1> QED
  BY <1>1, <1>2, WindowsStay, TryAgainStep

\* What the window receives from a launch.
LEMMA Delivery ==
    ASSUME InstanceIInv, NEW l \in Launches, at[l] = "sending", at[target[l]] = "window",
           Receive(target[l], Payloads(l)[sent[l] + 1])
    PROVE  /\ target[l] \in Launches /\ target[l] # l
           /\ box' \in [Launches -> Seq({"open", "close"})]
           /\ waiting' \in [Launches -> Seq(FileNames)]
           /\ \A w \in Launches : Len(waiting'[w]) <= MaxForwarded
           /\ dealt' = dealt /\ overflowed' \in [Launches -> BOOLEAN]
           /\ FilesStay /\ WakePart'
           /\ \/ overflowed'[target[l]]
              \/ Through(l, sent[l] + 1)
                    \subseteq dealt'[target[l]] \cup Range(waiting'[target[l]])
<1> DEFINE w == target[l]
           k == sent[l]
           payload == Payloads(l)[sent[l] + 1]
<1>1. /\ InstanceTypeOK /\ WakePart
      /\ TargetOf(l) /\ CountOf(l) /\ SendingOf(l)
  BY DEF InstanceIInv, LaunchPart
<1>2. w \in Launches /\ w # l /\ k \in Nat /\ k < Len(Payloads(l))
  BY <1>1 DEF TargetOf, CountOf, InstanceTypeOK
<1>3. payload \in Seq(FileNames) /\ Through(l, k + 1) \subseteq Through(l, k) \cup Range(payload)
  BY <1>2, PayloadFiles
<1>4. /\ box' \in [Launches -> Seq({"open", "close"})]
      /\ waiting' \in [Launches -> Seq(FileNames)]
      /\ Len(waiting'[w]) <= MaxForwarded
      /\ \A v \in Launches \ {w} : waiting'[v] = waiting[v] /\ box'[v] = box[v]
      /\ overflowed' \in [Launches -> BOOLEAN]
      /\ \A v \in Launches : overflowed[v] => overflowed'[v]
      /\ \A v \in Launches : Range(waiting[v]) \subseteq Range(waiting'[v])
      /\ overflowed'[w] \/ Range(payload) \subseteq Range(waiting'[w])
      /\ waiting'[w] # <<>> => "open" \in Range(box'[w])
      /\ dealt' = dealt
  <2> HIDE DEF payload
  <2>1. Receive(w, payload)
    BY DEF payload
  <2> HIDE DEF w
  <2> QED
    BY <1>1, <1>2, <1>3, <2>1, ReceiveKeeps
<1>5. \A v \in Launches : Len(waiting'[v]) <= MaxForwarded
  BY <1>1, <1>2, <1>4 DEF InstanceTypeOK
<1>6. FilesStay
  BY <1>4 DEF FilesStay
<1>7. WakePart'
  BY <1>1, <1>4 DEF WakePart
<1>8. overflowed'[w] \/ Through(l, k + 1) \subseteq dealt'[w] \cup Range(waiting'[w])
  <2>1. overflowed[w] \/ Through(l, k) \subseteq dealt[w] \cup Range(waiting[w])
    BY <1>1 DEF SendingOf, Has
  <2> QED
    BY <1>2, <1>3, <1>4, <2>1
<1> QED
  BY <1>2, <1>4, <1>5, <1>6, <1>7, <1>8

\* A message that was not answered may have been received all the same.
LEMMA SendFailedStep ==
    ASSUME InstanceIInv, NEW l \in Launches, SendFailed(l)
    PROVE  InstanceIInv'
<1>1. InstanceTypeOK /\ at[l] = "sending" /\ TryAgain(l) /\ UNCHANGED mutex
  BY DEF InstanceIInv, SendFailed
<1>2. CASE UNCHANGED windowVars
  <2>1. /\ box' \in [Launches -> Seq({"open", "close"})]
        /\ waiting' \in [Launches -> Seq(FileNames)]
        /\ \A w \in Launches : Len(waiting'[w]) <= MaxForwarded
        /\ dealt' = dealt /\ overflowed' \in [Launches -> BOOLEAN]
    BY <1>1, <1>2 DEF InstanceTypeOK, windowVars
  <2> QED
    BY <1>1, <1>2, <2>1, WindowsStay, TryAgainStep
<1>3. CASE Accepts(target[l]) /\ Receive(target[l], Payloads(l)[sent[l] + 1])
  BY <1>1, <1>3, Delivery, TryAgainStep DEF Accepts
<1> QED
  BY <1>2, <1>3 DEF SendFailed

\* An accepted message adds its files; the last one ends the launch.
LEMMA SendAcceptedStep ==
    ASSUME InstanceIInv, NEW l \in Launches, SendAccepted(l)
    PROVE  InstanceIInv'
<1> DEFINE w == target[l]
           k == sent[l]
           n == Len(Payloads(l))
<1>1. /\ InstanceTypeOK /\ TargetOf(l) /\ CountOf(l)
      /\ at[l] = "sending" /\ at[w] = "window"
      /\ Receive(target[l], Payloads(l)[sent[l] + 1])
      /\ UNCHANGED <<mutex, left, target>>
      /\ IF k + 1 = n
         THEN Becomes(l, "forwarded") /\ sent' = [sent EXCEPT ![l] = 0]
         ELSE sent' = [sent EXCEPT ![l] = k + 1] /\ UNCHANGED at
  BY DEF InstanceIInv, LaunchPart, SendAccepted, Accepts
<1>2. /\ w \in Launches /\ w # l
      /\ box' \in [Launches -> Seq({"open", "close"})]
      /\ waiting' \in [Launches -> Seq(FileNames)]
      /\ \A v \in Launches : Len(waiting'[v]) <= MaxForwarded
      /\ dealt' = dealt /\ overflowed' \in [Launches -> BOOLEAN]
      /\ FilesStay /\ WakePart'
      /\ overflowed'[w] \/ Through(l, k + 1) \subseteq dealt'[w] \cup Range(waiting'[w])
  BY <1>1, Delivery
<1>3. k \in Nat /\ k < n /\ n \in Nat /\ sent \in [Launches -> Nat]
  BY <1>1, PayloadCount DEF InstanceTypeOK, CountOf
<1>4. CASE k + 1 = n
  <2>1. Becomes(l, "forwarded") /\ sent' = [sent EXCEPT ![l] = 0]
    BY <1>1, <1>4
  <2>2. at' \in [Launches -> States] /\ at'[l] = "forwarded" /\ WindowsLast
        /\ \A v \in Launches \ {l} : at'[v] = at[v]
    BY <1>1, <2>1, Moves DEF States, Made
  <2>3. sent' \in [Launches -> Nat] /\ sent'[l] = 0
        /\ \A v \in Launches \ {l} : sent'[v] = sent[v]
    BY <1>3, <2>1
  <2>4. InstanceTypeOK'
    BY <1>1, <1>2, <2>2, <2>3 DEF InstanceTypeOK, States
  <2>5. TargetOf(l)' /\ CountOf(l)' /\ SendingOf(l)' /\ ForwardedOf(l)'
    <3>1. Range(Brought[l]) \subseteq Through(l, n)
      BY PayloadCount
    <3>2. ForwardedOf(l)'
      BY <1>1, <1>2, <1>4, <3>1 DEF ForwardedOf, Has
    <3>3. CountOf(l)'
      BY <1>3, <2>3 DEF CountOf
    <3>4. TargetOf(l)'
      BY <1>1, <1>2, <2>2 DEF TargetOf
    <3>5. SendingOf(l)'
      BY <2>2 DEF SendingOf
    <3> QED
      BY <3>2, <3>3, <3>4, <3>5
  <2> QED
    BY <1>1, <1>2, <2>2, <2>3, <2>4, <2>5, LaunchSteps
<1>5. CASE k + 1 # n
  <2>1. sent' = [sent EXCEPT ![l] = k + 1] /\ at' = at
    BY <1>1, <1>5
  <2>2. WindowsLast
    BY <2>1 DEF WindowsLast
  <2>3. sent' \in [Launches -> Nat] /\ sent'[l] = k + 1
        /\ \A v \in Launches \ {l} : sent'[v] = sent[v]
    BY <1>3, <2>1
  <2>4. InstanceTypeOK'
    BY <1>1, <1>2, <2>1, <2>3 DEF InstanceTypeOK
  <2>5. TargetOf(l)' /\ CountOf(l)' /\ SendingOf(l)' /\ ForwardedOf(l)'
    <3>1. SendingOf(l)'
      <4>1. Through(l, sent[l])' = Through(l, k + 1)
        BY <2>3 DEF Through
      <4> QED
        BY <1>1, <1>2, <4>1 DEF SendingOf, Has
    <3>2. CountOf(l)'
      BY <1>1, <1>3, <1>5, <2>1, <2>3 DEF CountOf
    <3>3. TargetOf(l)'
      BY <1>1, <1>2, <2>1 DEF TargetOf
    <3>4. ForwardedOf(l)'
      BY <1>1, <2>1 DEF ForwardedOf
    <3> QED
      BY <3>1, <3>2, <3>3, <3>4
  <2> QED
    BY <1>1, <1>2, <2>1, <2>2, <2>3, <2>4, <2>5, LaunchSteps
<1> QED
  BY <1>4, <1>5

\* A new window opens the files it was started with.
LEMMA BuildStep ==
    ASSUME InstanceIInv, NEW l \in Launches, Build(l)
    PROVE  InstanceIInv'
<1>1. /\ InstanceTypeOK /\ CountOf(l) /\ WakePart
      /\ at[l] = "building" /\ Becomes(l, "window")
      /\ dealt' = [dealt EXCEPT ![l] = dealt[l] \cup Range(Brought[l])]
      /\ UNCHANGED <<mutex, left, target, sent, box, waiting, overflowed>>
  BY DEF InstanceIInv, LaunchPart, Build, OpenDocuments
<1>2. at' \in [Launches -> States] /\ at'[l] = "window" /\ WindowsLast
      /\ \A k \in Launches \ {l} : at'[k] = at[k]
  BY <1>1, Moves DEF States, Made, Running
<1>3. Range(Brought[l]) \subseteq FileNames
  BY DEF FileNames
<1>4. dealt' \in [Launches -> SUBSET FileNames] /\ \A w \in Launches : dealt[w] \subseteq dealt'[w]
  BY <1>1, <1>3 DEF InstanceTypeOK
<1>5. InstanceTypeOK'
  BY <1>1, <1>2, <1>4 DEF InstanceTypeOK, States
<1>6. FilesStay /\ WakePart'
  BY <1>1, <1>4 DEF FilesStay, WakePart
<1>7. TargetOf(l)' /\ CountOf(l)' /\ SendingOf(l)' /\ ForwardedOf(l)'
  <2>1. sent'[l] = 0
    BY <1>1 DEF CountOf
  <2> QED
    BY <1>2, <2>1, FreshKeeps
<1> QED
  BY <1>1, <1>2, <1>5, <1>6, <1>7, LaunchSteps

\* The files that waited are opened in one step.
LEMMA OpenPendingStep ==
    ASSUME InstanceIInv, NEW w \in Launches, OpenPending(w)
    PROVE  InstanceIInv'
<1>1. /\ InstanceTypeOK /\ CountOf(w) /\ WakePart
      /\ at[w] = "window" /\ box[w] # <<>>
      /\ box' = [box EXCEPT ![w] = Tail(box[w])]
      /\ dealt' = [dealt EXCEPT ![w] = dealt[w] \cup Range(waiting[w])]
      /\ waiting' = [waiting EXCEPT ![w] = <<>>]
      /\ UNCHANGED <<at, mutex, left, target, sent, overflowed>>
  BY DEF InstanceIInv, LaunchPart, OpenPending, OpenDocuments
<1>2. /\ box[w] \in Seq({"open", "close"}) /\ Tail(box[w]) \in Seq({"open", "close"})
      /\ waiting[w] \in Seq(FileNames) /\ Range(waiting[w]) \subseteq FileNames
  <2>1. box[w] \in Seq({"open", "close"}) /\ waiting[w] \in Seq(FileNames)
    BY <1>1 DEF InstanceTypeOK
  <2>2. Tail(box[w]) \in Seq({"open", "close"})
    BY <1>1, <2>1
  <2>3. \A i \in DOMAIN waiting[w] : waiting[w][i] \in FileNames
    BY <2>1
  <2> QED
    BY <2>1, <2>2, <2>3 DEF Range
<1>3. /\ box' \in [Launches -> Seq({"open", "close"})]
      /\ \A v \in Launches \ {w} : box'[v] = box[v] /\ waiting'[v] = waiting[v]
                                   /\ dealt'[v] = dealt[v]
      /\ dealt' \in [Launches -> SUBSET FileNames]
      /\ dealt'[w] = dealt[w] \cup Range(waiting[w])
      /\ waiting'[w] = <<>>
  BY <1>1, <1>2 DEF InstanceTypeOK
<1>4. <<>> \in Seq(FileNames) /\ Len(<<>>) <= MaxForwarded
  BY InstanceAssumption
<1>5. waiting' \in [Launches -> Seq(FileNames)]
  <2>1. waiting \in [Launches -> Seq(FileNames)]
    BY <1>1 DEF InstanceTypeOK
  <2> QED
    BY <1>1, <1>4, <2>1
<1>6. \A v \in Launches : Len(waiting'[v]) <= MaxForwarded
  BY <1>1, <1>3, <1>4 DEF InstanceTypeOK
<1>7. InstanceTypeOK'
  BY <1>1, <1>3, <1>5, <1>6 DEF InstanceTypeOK
<1>8. FilesStay
  BY <1>1, <1>3 DEF FilesStay
<1>9. WakePart'
  BY <1>1, <1>3 DEF WakePart
<1>10. WindowsLast
  BY <1>1 DEF WindowsLast
<1>11. TargetOf(w)' /\ CountOf(w)' /\ SendingOf(w)' /\ ForwardedOf(w)'
  <2>1. sent'[w] = 0
    BY <1>1 DEF CountOf
  <2> QED
    BY <1>1, <2>1, FreshKeeps
<1> QED
  BY <1>1, <1>7, <1>8, <1>9, <1>10, <1>11, LaunchSteps

LEMMA AskToCloseStep ==
    ASSUME InstanceIInv, NEW w \in Launches, AskToClose(w)
    PROVE  InstanceIInv'
<1> DEFINE asked == Append(box[w], "close")
<1>1. /\ InstanceTypeOK /\ CountOf(w) /\ WakePart
      /\ at[w] = "window" /\ box' = [box EXCEPT ![w] = asked]
      /\ UNCHANGED <<at, mutex, left, target, sent, waiting, dealt, overflowed>>
  BY DEF InstanceIInv, LaunchPart, AskToClose
<1>2. asked \in Seq({"open", "close"}) /\ Range(box[w]) \subseteq Range(asked)
  <2>1. box[w] \in Seq({"open", "close"})
    BY <1>1 DEF InstanceTypeOK
  <2>2. /\ asked \in Seq({"open", "close"}) /\ DOMAIN box[w] \subseteq DOMAIN asked
        /\ \A i \in DOMAIN box[w] : asked[i] = box[w][i]
    BY <2>1
  <2> HIDE DEF asked
  <2> QED
    BY <2>2 DEF Range
<1> HIDE DEF asked
<1>3. /\ box' \in [Launches -> Seq({"open", "close"})]
      /\ \A v \in Launches : Range(box[v]) \subseteq Range(box'[v])
  BY <1>1, <1>2 DEF InstanceTypeOK
<1>4. InstanceTypeOK'
  BY <1>1, <1>3 DEF InstanceTypeOK
<1>5. FilesStay /\ WakePart' /\ WindowsLast
  BY <1>1, <1>3 DEF FilesStay, WakePart, WindowsLast
<1>6. TargetOf(w)' /\ CountOf(w)' /\ SendingOf(w)' /\ ForwardedOf(w)'
  <2>1. sent'[w] = 0
    BY <1>1 DEF CountOf
  <2> QED
    BY <1>1, <2>1, FreshKeeps
<1> QED
  BY <1>1, <1>4, <1>5, <1>6, LaunchSteps

LEMMA CloseWindowStep ==
    ASSUME InstanceIInv, NEW w \in Launches, CloseWindow(w)
    PROVE  InstanceIInv'
<1>1. /\ InstanceTypeOK /\ CountOf(w) /\ at[w] = "window" /\ Becomes(w, "closing")
      /\ UNCHANGED <<mutex, left, target, sent, box, waiting, dealt, overflowed>>
  BY DEF InstanceIInv, LaunchPart, CloseWindow
<1>2. at' \in [Launches -> States] /\ at'[w] = "closing" /\ WindowsLast
      /\ \A k \in Launches \ {w} : at'[k] = at[k]
  BY <1>1, Moves DEF States, Made, Running
<1>3. InstanceTypeOK'
  BY <1>1, <1>2 DEF InstanceTypeOK, States
<1>4. TargetOf(w)' /\ CountOf(w)' /\ SendingOf(w)' /\ ForwardedOf(w)'
  <2>1. sent'[w] = 0
    BY <1>1 DEF CountOf
  <2> QED
    BY <1>2, <2>1, FreshKeeps
<1> QED
  BY <1>1, <1>2, <1>3, <1>4, WindowsStay, LaunchSteps DEF windowVars

\* A process that ends takes its queue, its list and its mutex with it.
LEMMA VanishStep ==
    ASSUME InstanceIInv, NEW l \in Launches, Vanish(l)
    PROVE  InstanceIInv'
<1>1. InstanceTypeOK /\ WakePart /\ Becomes(l, "gone")
  BY DEF InstanceIInv, Vanish
<1>2. at' \in [Launches -> States] /\ at'[l] = "gone" /\ WindowsLast
      /\ \A k \in Launches \ {l} : at'[k] = at[k]
  BY <1>1, Moves DEF States, Made
<1>3. mutex' \in Launches \cup {0}
  BY <1>1 DEF InstanceTypeOK, Vanish
<1>4. left' \in [Launches -> 0 .. Retries]
  BY <1>1, InstanceAssumption DEF InstanceTypeOK, Vanish
<1>5. /\ target' \in [Launches -> Launches \cup {0}] /\ sent' \in [Launches -> Nat]
      /\ sent'[l] = 0
      /\ \A k \in Launches \ {l} : target'[k] = target[k] /\ sent'[k] = sent[k]
  BY <1>1 DEF InstanceTypeOK, Vanish
<1>6. /\ box' = [box EXCEPT ![l] = <<>>] /\ waiting' = [waiting EXCEPT ![l] = <<>>]
      /\ dealt' = [dealt EXCEPT ![l] = {}] /\ overflowed' = [overflowed EXCEPT ![l] = FALSE]
  BY DEF Vanish
<1>7. <<>> \in Seq(FileNames) /\ <<>> \in Seq({"open", "close"}) /\ Len(<<>>) <= MaxForwarded
  BY InstanceAssumption
<1>8. /\ box' \in [Launches -> Seq({"open", "close"})]
      /\ waiting' \in [Launches -> Seq(FileNames)] /\ waiting'[l] = <<>>
      /\ dealt' \in [Launches -> SUBSET FileNames] /\ overflowed' \in [Launches -> BOOLEAN]
      /\ \A k \in Launches \ {l} : box'[k] = box[k] /\ waiting'[k] = waiting[k]
                                   /\ dealt'[k] = dealt[k] /\ overflowed'[k] = overflowed[k]
  <2>1. /\ box \in [Launches -> Seq({"open", "close"})] /\ waiting \in [Launches -> Seq(FileNames)]
        /\ dealt \in [Launches -> SUBSET FileNames] /\ overflowed \in [Launches -> BOOLEAN]
    BY <1>1 DEF InstanceTypeOK
  <2> QED
    BY <1>6, <1>7, <2>1
<1>9. \A k \in Launches : Len(waiting'[k]) <= MaxForwarded
  BY <1>1, <1>7, <1>8 DEF InstanceTypeOK
<1>10. InstanceTypeOK'
  BY <1>2, <1>3, <1>4, <1>5, <1>8, <1>9 DEF InstanceTypeOK, States
<1>11. FilesStay /\ WakePart'
  BY <1>1, <1>2, <1>8 DEF FilesStay, WakePart
<1>12. TargetOf(l)' /\ CountOf(l)' /\ SendingOf(l)' /\ ForwardedOf(l)'
  BY <1>2, <1>5, FreshKeeps
<1> QED
  BY <1>2, <1>5, <1>10, <1>11, <1>12, LaunchSteps

-----------------------------------------------------------------------------
LEMMA InstanceIInvInit == InstanceInit => InstanceIInv
<1> SUFFICES ASSUME InstanceInit
             PROVE  InstanceIInv
  OBVIOUS
<1>1. <<>> \in Seq(FileNames) /\ <<>> \in Seq({"open", "close"}) /\ Len(<<>>) <= MaxForwarded
      /\ Retries \in 0 .. Retries
  BY InstanceAssumption
<1>2. InstanceTypeOK
  BY <1>1 DEF InstanceInit, InstanceTypeOK
<1>3. WakePart
  BY DEF InstanceInit, WakePart
<1>4. LaunchPart
  <2> SUFFICES ASSUME NEW l \in Launches
               PROVE  TargetOf(l) /\ CountOf(l) /\ SendingOf(l) /\ ForwardedOf(l)
    BY DEF LaunchPart
  <2>1. Len(Payloads(l)) \in Nat \ {0} /\ at[l] = "unborn" /\ sent[l] = 0
    BY PayloadCount DEF InstanceInit
  <2> QED
    BY <2>1 DEF TargetOf, CountOf, SendingOf, ForwardedOf
<1> QED
  BY <1>2, <1>3, <1>4 DEF InstanceIInv

LEMMA InstanceIInvNext == InstanceIInv /\ [InstanceNext]_instanceVars => InstanceIInv'
<1> SUFFICES ASSUME InstanceIInv, [InstanceNext]_instanceVars
             PROVE  InstanceIInv'
  OBVIOUS
<1>1. CASE UNCHANGED instanceVars
  BY <1>1 DEF InstanceIInv, InstanceTypeOK, WakePart, LaunchPart, TargetOf, CountOf,
              SendingOf, ForwardedOf, Has, Through, instanceVars
<1>2. ASSUME NEW l \in Launches, Launch(l)  PROVE InstanceIInv'
  BY <1>2, LaunchStep
<1>3. ASSUME NEW l \in Launches, ClaimStep(l)  PROVE InstanceIInv'
  BY <1>3, AcquireStep, FindReaderStep, NoReaderStep, SendAcceptedStep, SendFailedStep,
     BuildStep DEF ClaimStep
<1>4. ASSUME NEW l \in Launches, OpenPending(l)  PROVE InstanceIInv'
  BY <1>4, OpenPendingStep
<1>5. ASSUME NEW l \in Launches, AskToClose(l) \/ CloseWindow(l)  PROVE InstanceIInv'
  BY <1>5, AskToCloseStep, CloseWindowStep
<1>6. ASSUME NEW l \in Launches, Exit(l) \/ CrashLaunch(l)  PROVE InstanceIInv'
  BY <1>6, VanishStep DEF Exit, CrashLaunch
<1> QED
  BY <1>1, <1>2, <1>3, <1>4, <1>5, <1>6 DEF InstanceNext

LEMMA FilesArrive == InstanceIInv => HandedOverFilesArrive
<1> SUFFICES ASSUME InstanceIInv, NEW l \in Launches,
                    at[l] = "forwarded", at[target[l]] = "window"
             PROVE  LET w == target[l] IN
                    \/ overflowed[w]
                    \/ Range(Brought[l]) \subseteq dealt[w]
                    \/ /\ Range(Brought[l]) \subseteq dealt[w] \cup Range(waiting[w])
                       /\ "open" \in Range(box[w])
  BY DEF HandedOverFilesArrive
<1> DEFINE w == target[l]
<1>1. w \in Launches /\ Has(w, Range(Brought[l]))
  BY DEF InstanceIInv, LaunchPart, TargetOf, ForwardedOf
<1>2. waiting[w] # <<>> => "open" \in Range(box[w])
  BY <1>1 DEF InstanceIInv, WakePart
<1>3. Range(<<>>) = {}
  BY DEF Range
<1> QED
  BY <1>1, <1>2, <1>3 DEF Has

\* However launches start, claim, crash, give up and send again, and however
\* often the window is asked to close: the files a launch was told it had handed
\* over have been opened by the window, or wait there with a posted message that
\* opens them, unless the window counted some as too many; send and
\* receive_open_request in native/process.rs and native.rs.
THEOREM HandedOverFilesAreKept ==
    InstanceSpec => [](InstanceTypeOK /\ HandedOverFilesArrive)
<1>1. InstanceInit => InstanceIInv
  BY InstanceIInvInit
<1>2. InstanceIInv /\ [InstanceNext]_instanceVars => InstanceIInv'
  BY InstanceIInvNext
<1>3. InstanceIInv => InstanceTypeOK /\ HandedOverFilesArrive
  BY FilesArrive DEF InstanceIInv
<1> QED
  BY <1>1, <1>2, <1>3, PTL DEF InstanceSpec

=============================================================================
