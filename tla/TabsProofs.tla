------------------------------ MODULE TabsProofs ------------------------------
(***************************************************************************)
(* Proofs about Tabs for any number of files, tabs, opens, orders and       *)
(* failures: whatever is switched, closed, reloaded or half restored while  *)
(* events of the workers are on their way, each tab shows and keeps rows of *)
(* its own file and sheet, in its own order.                                *)
(***************************************************************************)
EXTENDS Tabs, SequenceTheorems, TLAPS

TabFields == {"path", "serial", "worker", "rows", "order", "pending", "place"}

\* What holds of a tab by itself.
Coherent(t) ==
    /\ DOMAIN t = TabFields
    /\ t.rows # NoRows =>
          t.rows = [path |-> t.path, serial |-> t.serial, order |-> t.order]
    /\ t.pending \in {NoPlace, t.order}
    /\ t.place \in {NoPlace, t.order}

\* What holds of a tab beside its worker and the messages that wait: its worker
\* goes by its id and lives, and an event that waits will be fetched.
Served(t, id, workers, messages) ==
    /\ t.worker \in {0, id}
    /\ t.worker # 0 =>
          /\ id \in DOMAIN workers
          /\ workers[id].event # NoEvent => <<"ready", id>> \in messages

\* A file is open once.
PathsApart(shown, kept) ==
    \A k \in DOMAIN kept : kept[k].path # NoPath => kept[k].path # shown.path

PathsOnce(kept) ==
    \A j, k \in DOMAIN kept : kept[k].path # NoPath /\ kept[j].path = kept[k].path => j = k

Names(order) == {order[i] : i \in 1 .. Len(order)}

Distinct(order) ==
    /\ order \in Seq(Nat)
    /\ \A i, j \in 1 .. Len(order) : order[i] = order[j] => i = j

Fields == {"tabOrder", "tabId", "nextTabId", "view", "back", "worker", "posts"}

\* What the strip, the tabs that are put away, the workers and the messages make
\* up between them; `open` are the tabs that the strip has.
Kept(s, open) ==
    /\ DOMAIN s = Fields
    /\ Distinct(s.tabOrder) /\ Names(s.tabOrder) = open
    /\ s.nextTabId \in Nat \ {0}
    /\ \A id \in open : id \in Nat \ {0} /\ id < s.nextTabId
    /\ PathsOnce(s.back)
    /\ \A k \in DOMAIN s.back :
          Coherent(s.back[k]) /\ Served(s.back[k], k, s.worker, s.posts)
    /\ \A k \in DOMAIN s.worker : DOMAIN s.worker[k] = {"latest", "event"}

\* Between two tabs, all of them are put away.
Headless(s) == Kept(s, DOMAIN s.back) /\ s.view = EmptyTab

\* The inductive invariant, of the fields that a command passes along: the strip
\* has every tab once, the tab that is shown is not put away as well, each tab is
\* coherent and served, and no file is open twice.
Good(s) ==
    /\ Kept(s, {s.tabId} \cup DOMAIN s.back)
    /\ s.tabId \notin DOMAIN s.back
    /\ Coherent(s.view) /\ s.view.place = NoPlace
    /\ Served(s.view, s.tabId, s.worker, s.posts)
    /\ PathsApart(s.view, s.back)

TabsIInv == Good(State)

-----------------------------------------------------------------------------
(* The strip.                                                                *)

\* A strip made of the places of another one, each of them once at most.
Relabels(new, order, at) ==
    /\ new \in Seq(Nat)
    /\ at \in [1 .. Len(new) -> 1 .. Len(order)]
    /\ \A i, j \in 1 .. Len(new) : at[i] = at[j] => i = j
    /\ \A i \in 1 .. Len(new) : new[i] = order[at[i]]

LEMMA Relabelled ==
    ASSUME NEW order, Distinct(order), NEW new, NEW at, Relabels(new, order, at)
    PROVE  /\ Distinct(new)
           /\ \A i \in 1 .. Len(new) : order[at[i]] \in Names(new)
           /\ \A name \in Names(new) : \E i \in 1 .. Len(new) : name = order[at[i]]
<1>0. \A i \in 1 .. Len(new) : new[i] = order[at[i]]
  BY DEF Relabels
<1>1. ASSUME NEW i \in 1 .. Len(new), NEW j \in 1 .. Len(new), new[i] = new[j]
      PROVE  i = j
  <2>1. at[i] \in 1 .. Len(order) /\ at[j] \in 1 .. Len(order)
    BY DEF Relabels
  <2>2. order[at[i]] = order[at[j]]
    BY <1>0, <1>1
  <2>3. at[i] = at[j]
    BY <2>1, <2>2 DEF Distinct
  <2> QED
    BY <2>3 DEF Relabels
<1>2. Distinct(new)
  BY <1>1 DEF Distinct, Relabels
<1>3. /\ \A i \in 1 .. Len(new) : order[at[i]] \in Names(new)
      /\ \A name \in Names(new) : \E i \in 1 .. Len(new) : name = order[at[i]]
  BY <1>0 DEF Names
<1> QED
  BY <1>2, <1>3

LEMMA RemovedName ==
    ASSUME NEW order, Distinct(order), NEW p \in 1 .. Len(order)
    PROVE  /\ Distinct(RemoveAt(order, p))
           /\ Names(RemoveAt(order, p)) = Names(order) \ {order[p]}
<1> DEFINE n == Len(order)
           left == SubSeq(order, 1, p - 1)
           right == SubSeq(order, p + 1, n)
           new == RemoveAt(order, p)
           at == [i \in 1 .. n - 1 |-> IF i < p THEN i ELSE i + 1]
<1>1. order \in Seq(Nat) /\ n \in Nat /\ \A i \in 1 .. n : order[i] \in Nat
  BY DEF Distinct
<1>2. left \in Seq(Nat) /\ Len(left) = p - 1 /\ \A i \in 1 .. p - 1 : left[i] = order[i]
  BY <1>1, SubSeqProperties
<1>3. right \in Seq(Nat) /\ Len(right) = n - p
  BY <1>1, SubSeqProperties
<1>4. ASSUME NEW i \in 1 .. n - p PROVE right[i] = order[p + i]
  <2>1. i \in 1 .. n - (p + 1) + 1 /\ p + 1 + i - 1 = p + i
    BY <1>1
  <2>2. right[i] = order[p + 1 + i - 1]
    BY <1>1, <2>1, SubSeqProperties
  <2> QED
    BY <2>1, <2>2
<1> HIDE DEF left, right
<1>5. /\ new \in Seq(Nat) /\ Len(new) = n - 1
      /\ \A i \in 1 .. p - 1 : new[i] = left[i]
      /\ \A i \in p .. n - 1 : new[i] = right[i - (p - 1)]
  <2>1. new = left \o right
    BY DEF RemoveAt, left, right
  <2> HIDE DEF new
  <2>2. /\ new \in Seq(Nat) /\ Len(new) = Len(left) + Len(right)
        /\ \A i \in 1 .. Len(left) + Len(right) :
              new[i] = IF i <= Len(left) THEN left[i] ELSE right[i - Len(left)]
    BY <1>2, <1>3, <2>1, ConcatProperties
  <2>3. \A i \in 1 .. n - 1 :
            new[i] = IF i <= Len(left) THEN left[i] ELSE right[i - Len(left)]
    BY <1>1, <1>2, <1>3, <2>2
  <2>4. Len(new) = n - 1
    BY <1>1, <1>2, <1>3, <2>2
  <2>5. ASSUME NEW i \in 1 .. p - 1 PROVE new[i] = left[i]
    <3>1. i \in 1 .. n - 1 /\ i <= Len(left)
      BY <1>1, <1>2
    <3> QED
      BY <2>3, <3>1
  <2>6. ASSUME NEW i \in p .. n - 1 PROVE new[i] = right[i - (p - 1)]
    BY <1>1, <1>2, <2>3, <2>4
  <2> QED
    BY <2>2, <2>4, <2>5, <2>6
<1> HIDE DEF new
<1>6. ASSUME NEW i \in 1 .. n - 1 PROVE new[i] = order[at[i]]
  <2>1. CASE i < p
    <3>1. i \in 1 .. p - 1 /\ at[i] = i
      BY <1>1, <2>1
    <3> QED
      BY <1>2, <1>5, <3>1
  <2>2. CASE ~ (i < p)
    <3>1. i \in p .. n - 1 /\ at[i] = i + 1 /\ i - (p - 1) \in 1 .. n - p
          /\ p + (i - (p - 1)) = i + 1
      BY <1>1, <2>2
    <3>2. new[i] = order[p + (i - (p - 1))]
      BY <1>4, <1>5, <3>1
    <3> QED
      BY <3>1, <3>2
  <2> QED
    BY <2>1, <2>2
<1>7. /\ at \in [1 .. n - 1 -> 1 .. n]
      /\ \A i, j \in 1 .. n - 1 : at[i] = at[j] => i = j
      /\ \A i \in 1 .. n - 1 : at[i] # p
      /\ \A k \in 1 .. n : k # p => \E i \in 1 .. n - 1 : at[i] = k
  <2>1. \A i \in 1 .. n - 1 : at[i] = IF i < p THEN i ELSE i + 1
    OBVIOUS
  <2>2. at \in [1 .. n - 1 -> 1 .. n]
    BY <1>1
  <2>3. ASSUME NEW k \in 1 .. n, k # p PROVE \E i \in 1 .. n - 1 : at[i] = k
    <3>1. CASE k < p
      <4>1. k \in 1 .. n - 1 /\ at[k] = k
        BY <1>1, <3>1
      <4> QED
        BY <4>1
    <3>2. CASE k > p
      <4>1. k - 1 \in 1 .. n - 1 /\ at[k - 1] = k
        BY <1>1, <3>2
      <4> QED
        BY <4>1
    <3> QED
      BY <2>3, <3>1, <3>2
  <2> HIDE DEF at
  <2>4. \A i, j \in 1 .. n - 1 : at[i] = at[j] => i = j
    BY <1>1, <2>1
  <2>5. \A i \in 1 .. n - 1 : at[i] # p
    BY <1>1, <2>1
  <2> QED
    BY <2>2, <2>3, <2>4, <2>5
<1> HIDE DEF at
<1>8. Distinct(new) /\ (\A i \in 1 .. n - 1 : order[at[i]] \in Names(new))
      /\ (\A name \in Names(new) : \E i \in 1 .. n - 1 : name = order[at[i]])
  <2>0. new \in Seq(Nat) /\ Distinct(order)
    BY <1>5
  <2>1. Len(new) = n - 1
    BY <1>5
  <2>2. at \in [1 .. Len(new) -> 1 .. Len(order)]
    BY <1>7, <2>1
  <2>3. /\ \A i, j \in 1 .. Len(new) : at[i] = at[j] => i = j
        /\ \A i \in 1 .. Len(new) : new[i] = order[at[i]]
    BY <1>6, <1>7, <2>1
  <2>4. /\ Distinct(new)
        /\ \A i \in 1 .. Len(new) : order[at[i]] \in Names(new)
        /\ \A name \in Names(new) : \E i \in 1 .. Len(new) : name = order[at[i]]
    <3>1. Relabels(new, order, at)
      BY <2>0, <2>2, <2>3 DEF Relabels
    <3> QED
      BY <2>0, <3>1, Relabelled
  <2> QED
    BY <2>1, <2>4
<1>9. ASSUME NEW i \in 1 .. n - 1 PROVE order[at[i]] \in Names(order) \ {order[p]}
  BY <1>1, <1>7 DEF Names, Distinct
<1>10. ASSUME NEW k \in 1 .. n, order[k] # order[p]
       PROVE  \E i \in 1 .. n - 1 : order[k] = order[at[i]]
  BY <1>7, <1>10
<1>11. Names(new) \subseteq Names(order) \ {order[p]}
  BY <1>8, <1>9
<1>12. ASSUME NEW id \in Names(order) \ {order[p]} PROVE id \in Names(new)
  <2>1. PICK k \in 1 .. n : id = order[k]
    BY DEF Names
  <2>2. PICK i \in 1 .. n - 1 : order[k] = order[at[i]]
    BY <1>10, <2>1
  <2> QED
    BY <1>8, <2>1, <2>2
<1> QED
  BY <1>8, <1>11, <1>12 DEF new

LEMMA AppendedName ==
    ASSUME NEW order, Distinct(order), NEW id \in Nat, id \notin Names(order)
    PROVE  Distinct(Append(order, id)) /\ Names(Append(order, id)) = Names(order) \cup {id}
<1> DEFINE n == Len(order)
           new == Append(order, id)
<1>1. order \in Seq(Nat) /\ n \in Nat
  BY DEF Distinct
<1>2. /\ new \in Seq(Nat) /\ Len(new) = n + 1
      /\ \A i \in 1 .. n : new[i] = order[i]
      /\ new[n + 1] = id
  BY <1>1
<1> HIDE DEF new
<1>3. ASSUME NEW i \in 1 .. n + 1, NEW j \in 1 .. n + 1, new[i] = new[j]
      PROVE  i = j
  <2>1. CASE i \in 1 .. n /\ j \in 1 .. n
    BY <1>2, <1>3, <2>1 DEF Distinct
  <2>2. CASE i = n + 1 /\ j \in 1 .. n
    BY <1>2, <1>3, <2>2 DEF Names
  <2>3. CASE i \in 1 .. n /\ j = n + 1
    BY <1>2, <1>3, <2>3 DEF Names
  <2> QED
    BY <1>1, <2>1, <2>2, <2>3
<1>4. Distinct(new)
  BY <1>2, <1>3 DEF Distinct
<1>5. ASSUME NEW i \in 1 .. n + 1 PROVE new[i] \in Names(order) \cup {id}
  <2>1. i \in 1 .. n \/ i = n + 1
    BY <1>1
  <2> QED
    BY <1>2, <2>1 DEF Names
<1>6. n + 1 \in 1 .. n + 1 /\ 1 .. n \subseteq 1 .. n + 1
  BY <1>1
<1>7. Names(new) = Names(order) \cup {id}
  BY <1>2, <1>5, <1>6 DEF Names
<1> QED
  BY <1>4, <1>7 DEF new

LEMMA InsertedName ==
    ASSUME NEW order, Distinct(order), NEW p \in 1 .. Len(order) + 1,
           NEW id \in Nat, id \notin Names(order)
    PROVE  /\ Distinct(InsertAt(order, p, id))
           /\ Names(InsertAt(order, p, id)) = Names(order) \cup {id}
<1> DEFINE n == Len(order)
           left == SubSeq(order, 1, p - 1)
           right == SubSeq(order, p, n)
           base == Append(order, id)
           new == InsertAt(order, p, id)
           at == [i \in 1 .. n + 1 |-> IF i < p THEN i ELSE IF i = p THEN n + 1 ELSE i - 1]
<1>1. order \in Seq(Nat) /\ n \in Nat
  BY DEF Distinct
<1>2. /\ base \in Seq(Nat) /\ Len(base) = n + 1
      /\ \A i \in 1 .. n : base[i] = order[i]
      /\ base[n + 1] = id
  BY <1>1
<1>3. Distinct(base) /\ Names(base) = Names(order) \cup {id}
  BY AppendedName
<1>4. left \in Seq(Nat) /\ Len(left) = p - 1 /\ \A i \in 1 .. p - 1 : left[i] = order[i]
  BY <1>1, SubSeqProperties
<1>5. right \in Seq(Nat) /\ Len(right) = n + 1 - p
  BY <1>1, SubSeqProperties
<1>6. ASSUME NEW i \in 1 .. n + 1 - p PROVE right[i] = order[p + i - 1]
  <2>1. i \in 1 .. n - p + 1
    BY <1>1
  <2> QED
    BY <1>1, <2>1, SubSeqProperties
<1> HIDE DEF left, right, base
<1>7. /\ new \in Seq(Nat) /\ Len(new) = n + 1
      /\ \A i \in 1 .. p - 1 : new[i] = left[i]
      /\ new[p] = id
      /\ \A i \in p + 1 .. n + 1 : new[i] = right[i - p]
  <2> DEFINE front == left \o <<id>>
  <2>1. <<id>> \in Seq(Nat) /\ Len(<<id>>) = 1 /\ <<id>>[1] = id
    OBVIOUS
  <2>2. /\ front \in Seq(Nat) /\ Len(front) = p
        /\ \A i \in 1 .. p : front[i] = IF i <= p - 1 THEN left[i] ELSE <<id>>[i - (p - 1)]
    <3>1. /\ front \in Seq(Nat) /\ Len(front) = Len(left) + 1
          /\ \A i \in 1 .. Len(left) + 1 :
                front[i] = IF i <= Len(left) THEN left[i] ELSE <<id>>[i - Len(left)]
      BY <1>4, <2>1, ConcatProperties
    <3>2. Len(left) + 1 = p
      BY <1>1, <1>4
    <3> QED
      BY <1>4, <3>1, <3>2
  <2>3. (\A i \in 1 .. p - 1 : front[i] = left[i]) /\ front[p] = id
    BY <1>1, <2>1, <2>2
  <2>4. new = front \o right
    BY DEF InsertAt, left, right
  <2> HIDE DEF front, new
  <2>5. /\ new \in Seq(Nat) /\ Len(new) = Len(front) + Len(right)
        /\ \A i \in 1 .. Len(front) + Len(right) :
              new[i] = IF i <= Len(front) THEN front[i] ELSE right[i - Len(front)]
    BY <1>5, <2>2, <2>4, ConcatProperties
  <2>6. Len(front) + Len(right) = n + 1
    BY <1>1, <1>5, <2>2
  <2>7. \A i \in 1 .. n + 1 : new[i] = IF i <= p THEN front[i] ELSE right[i - p]
    BY <2>2, <2>5, <2>6
  <2>8. ASSUME NEW i \in 1 .. p - 1 PROVE new[i] = left[i]
    <3>1. i \in 1 .. n + 1 /\ i <= p
      BY <1>1
    <3> QED
      BY <2>3, <2>7, <3>1
  <2>9. new[p] = id
    BY <1>1, <2>3, <2>7
  <2>10. ASSUME NEW i \in p + 1 .. n + 1 PROVE new[i] = right[i - p]
    <3>1. i \in 1 .. n + 1 /\ ~ (i <= p)
      BY <1>1
    <3> QED
      BY <2>7, <3>1
  <2> QED
    BY <2>5, <2>6, <2>8, <2>9, <2>10
<1> HIDE DEF new
<1>8. ASSUME NEW i \in 1 .. n + 1 PROVE new[i] = base[at[i]]
  <2>1. CASE i < p
    <3>1. i \in 1 .. p - 1 /\ i \in 1 .. n /\ at[i] = i
      BY <1>1, <2>1
    <3> QED
      BY <1>2, <1>4, <1>7, <3>1
  <2>2. CASE i = p
    BY <1>2, <1>7, <2>2
  <2>3. CASE i > p
    <3>1. i \in p + 1 .. n + 1 /\ at[i] = i - 1 /\ i - p \in 1 .. n + 1 - p
          /\ p + (i - p) - 1 = i - 1 /\ i - 1 \in 1 .. n
      BY <1>1, <2>3
    <3>2. new[i] = order[p + (i - p) - 1]
      BY <1>6, <1>7, <3>1
    <3> QED
      BY <1>2, <3>1, <3>2
  <2> QED
    BY <1>1, <2>1, <2>2, <2>3
<1>9. /\ at \in [1 .. n + 1 -> 1 .. n + 1]
      /\ \A i, j \in 1 .. n + 1 : at[i] = at[j] => i = j
      /\ \A k \in 1 .. n + 1 : \E i \in 1 .. n + 1 : at[i] = k
  <2>1. \A i \in 1 .. n + 1 : at[i] = IF i < p THEN i ELSE IF i = p THEN n + 1 ELSE i - 1
    OBVIOUS
  <2>2. at \in [1 .. n + 1 -> 1 .. n + 1]
    BY <1>1
  <2> HIDE DEF at
  <2>3. \A i, j \in 1 .. n + 1 : at[i] = at[j] => i = j
    BY <1>1, <2>1
  <2>4. ASSUME NEW k \in 1 .. n + 1 PROVE \E i \in 1 .. n + 1 : at[i] = k
    <3>1. CASE k < p
      BY <2>1, <3>1
    <3>2. CASE k = n + 1
      BY <1>1, <2>1, <3>2
    <3>3. CASE ~ (k < p) /\ k # n + 1
      <4>1. k + 1 \in 1 .. n + 1 /\ at[k + 1] = k
        BY <1>1, <2>1, <3>3
      <4> QED
        BY <4>1
    <3> QED
      BY <3>1, <3>2, <3>3
  <2> QED
    BY <2>2, <2>3, <2>4
<1> HIDE DEF at
<1>10. Distinct(new) /\ (\A i \in 1 .. n + 1 : base[at[i]] \in Names(new))
      /\ (\A name \in Names(new) : \E i \in 1 .. n + 1 : name = base[at[i]])
  <2>0. new \in Seq(Nat) /\ Distinct(base)
    BY <1>3, <1>7
  <2>1. Len(new) = n + 1 /\ Len(base) = n + 1
    BY <1>2, <1>7
  <2>2. at \in [1 .. Len(new) -> 1 .. Len(base)]
    BY <1>9, <2>1
  <2>3. /\ \A i, j \in 1 .. Len(new) : at[i] = at[j] => i = j
        /\ \A i \in 1 .. Len(new) : new[i] = base[at[i]]
    BY <1>8, <1>9, <2>1
  <2>4. /\ Distinct(new)
        /\ \A i \in 1 .. Len(new) : base[at[i]] \in Names(new)
        /\ \A name \in Names(new) : \E i \in 1 .. Len(new) : name = base[at[i]]
    <3>1. Relabels(new, base, at)
      BY <2>0, <2>2, <2>3 DEF Relabels
    <3> QED
      BY <2>0, <3>1, Relabelled
  <2> QED
    BY <2>1, <2>4
<1>11. ASSUME NEW name \in Names(new) PROVE name \in Names(base)
  <2>1. PICK i \in 1 .. n + 1 : name = base[at[i]]
    BY <1>10
  <2>2. at[i] \in 1 .. n + 1
    BY <1>9
  <2> QED
    BY <1>2, <2>1, <2>2 DEF Names
<1>12. ASSUME NEW name \in Names(base) PROVE name \in Names(new)
  <2>1. PICK k \in 1 .. n + 1 : name = base[k]
    BY <1>2 DEF Names
  <2>2. PICK i \in 1 .. n + 1 : at[i] = k
    BY <1>9
  <2> QED
    BY <1>10, <2>1, <2>2
<1>13. Names(new) = Names(base)
  BY <1>11, <1>12
<1> QED
  BY <1>3, <1>10, <1>13 DEF new

-----------------------------------------------------------------------------
(* One tab.                                                                  *)

LEMMA EmptyIsCoherent ==
    /\ Coherent(EmptyTab) /\ EmptyTab.place = NoPlace /\ EmptyTab.path = NoPath
    /\ EmptyTab.worker = 0 /\ EmptyTab.rows = NoRows /\ EmptyTab.pending = NoPlace
BY DEF Coherent, EmptyTab, TabFields

LEMMA StashedIsCoherent ==
    ASSUME NEW v, Coherent(v), v.place = NoPlace
    PROVE  /\ Coherent(Stashed(v))
           /\ Stashed(v).path = v.path /\ Stashed(v).worker = v.worker
BY DEF Coherent, Stashed, TabFields

LEMMA RestoredIsCoherent ==
    ASSUME NEW t, Coherent(t), NEW outcome \in Outcomes
    PROVE  /\ Coherent(Restored(t)[outcome])
           /\ Restored(t)[outcome].place = NoPlace
           /\ Restored(t)[outcome].path = t.path
           /\ Restored(t)[outcome].worker = t.worker
<1> DEFINE moved == [t EXCEPT !.rows = NoRows, !.pending = NoPlace, !.place = NoPlace]
           waits == [moved EXCEPT !.rows = t.rows, !.pending = t.pending]
           done == [moved EXCEPT !.rows = t.rows]
<1>1. /\ DOMAIN moved = TabFields
      /\ moved.path = t.path /\ moved.serial = t.serial /\ moved.worker = t.worker
      /\ moved.order = t.order /\ moved.rows = NoRows /\ moved.pending = NoPlace
      /\ moved.place = NoPlace
  BY DEF Coherent, TabFields
<1> HIDE DEF moved
<1>2. /\ DOMAIN waits = TabFields
      /\ waits.path = t.path /\ waits.serial = t.serial /\ waits.worker = t.worker
      /\ waits.order = t.order /\ waits.rows = t.rows /\ waits.pending = t.pending
      /\ waits.place = NoPlace
  BY <1>1 DEF TabFields
<1>3. /\ DOMAIN done = TabFields
      /\ done.path = t.path /\ done.serial = t.serial /\ done.worker = t.worker
      /\ done.order = t.order /\ done.rows = t.rows /\ done.pending = NoPlace
      /\ done.place = NoPlace
  BY <1>1 DEF TabFields
<1> HIDE DEF waits, done
<1>4. Coherent(moved) /\ Coherent(waits) /\ Coherent(done)
  BY <1>1, <1>2, <1>3 DEF Coherent
<1>5. Restored(t) = [failed |-> moved, waits |-> waits, done |-> done]
  BY DEF Restored, moved, waits, done
<1>6. CASE outcome = "failed"
  BY <1>1, <1>4, <1>5, <1>6
<1>7. CASE outcome = "waits"
  BY <1>2, <1>4, <1>5, <1>7
<1>8. CASE outcome = "done"
  BY <1>3, <1>4, <1>5, <1>8
<1> QED
  BY <1>6, <1>7, <1>8 DEF Outcomes

\* Whether a tab is served depends on its worker only.
LEMMA ServedLike ==
    ASSUME NEW t, NEW u, NEW id, NEW workers, NEW messages, u.worker = t.worker,
           Served(t, id, workers, messages)
    PROVE  Served(u, id, workers, messages)
BY DEF Served

-----------------------------------------------------------------------------
(* Tabs that move out of the view and into it.                               *)

LEMMA PutAwayFields ==
    ASSUME NEW s, DOMAIN s = Fields
    PROVE  /\ DOMAIN PutAway(s) = Fields
           /\ PutAway(s).tabOrder = s.tabOrder /\ PutAway(s).tabId = s.tabId
           /\ PutAway(s).nextTabId = s.nextTabId /\ PutAway(s).view = EmptyTab
           /\ PutAway(s).back = Put(s.back, s.tabId, Stashed(s.view))
           /\ PutAway(s).worker = s.worker /\ PutAway(s).posts = s.posts
BY DEF PutAway, Fields, Emptied

LEMMA PutAwayHeadless ==
    ASSUME NEW s, Good(s)
    PROVE  /\ Headless(PutAway(s))
           /\ DOMAIN PutAway(s).back = {s.tabId} \cup DOMAIN s.back
<1> DEFINE h == PutAway(s)
           kept == Put(s.back, s.tabId, Stashed(s.view))
<1>1. DOMAIN s = Fields
  BY DEF Good, Kept
<1>2. /\ DOMAIN h = Fields
      /\ h.tabOrder = s.tabOrder /\ h.nextTabId = s.nextTabId /\ h.view = EmptyTab
      /\ h.back = kept /\ h.worker = s.worker /\ h.posts = s.posts
  BY <1>1, PutAwayFields
<1>3. /\ DOMAIN kept = {s.tabId} \cup DOMAIN s.back
      /\ kept[s.tabId] = Stashed(s.view)
      /\ \A k \in DOMAIN s.back : kept[k] = s.back[k]
  BY DEF Put, Good
<1> HIDE DEF h, kept
<1>4. /\ Coherent(Stashed(s.view)) /\ Stashed(s.view).path = s.view.path
      /\ Stashed(s.view).worker = s.view.worker
  BY StashedIsCoherent DEF Good
<1>5. Served(Stashed(s.view), s.tabId, s.worker, s.posts)
  BY <1>4, ServedLike DEF Good
<1>6. \A k \in DOMAIN kept : Coherent(kept[k]) /\ Served(kept[k], k, s.worker, s.posts)
  BY <1>3, <1>4, <1>5 DEF Good, Kept
<1>7. PathsOnce(kept)
  BY <1>3, <1>4 DEF Good, Kept, PathsOnce, PathsApart
<1> QED
  BY <1>2, <1>3, <1>6, <1>7 DEF Good, Kept, Headless, h

LEMMA ShowsGood ==
    ASSUME NEW h, Headless(h), NEW id \in DOMAIN h.back, NEW outcome \in Outcomes
    PROVE  Good(Shows(h, id, outcome))
<1> DEFINE s == Shows(h, id, outcome)
           t == Restored(h.back[id])[outcome]
           kept == Restrict(h.back, DOMAIN h.back \ {id})
<1>1. DOMAIN h = Fields /\ Coherent(h.back[id]) /\ Served(h.back[id], id, h.worker, h.posts)
  BY DEF Headless, Kept
<1>2. /\ DOMAIN s = Fields
      /\ s.tabOrder = h.tabOrder /\ s.tabId = id /\ s.nextTabId = h.nextTabId
      /\ s.view = t /\ s.back = kept /\ s.worker = h.worker /\ s.posts = h.posts
  BY <1>1 DEF Shows, Fields
<1>3. Coherent(t) /\ t.place = NoPlace /\ t.path = h.back[id].path
      /\ t.worker = h.back[id].worker
  BY <1>1, RestoredIsCoherent
<1>4. /\ DOMAIN kept = DOMAIN h.back \ {id}
      /\ \A k \in DOMAIN h.back \ {id} : kept[k] = h.back[k]
  BY DEF Restrict
<1> HIDE DEF s, t, kept
<1>5. Served(t, id, h.worker, h.posts)
  BY <1>1, <1>3, ServedLike
<1>6. \A k \in DOMAIN kept : Coherent(kept[k]) /\ Served(kept[k], k, h.worker, h.posts)
  BY <1>4 DEF Headless, Kept
<1>7. PathsOnce(kept) /\ PathsApart(t, kept)
  BY <1>3, <1>4 DEF Headless, Kept, PathsOnce, PathsApart
<1>8. {id} \cup DOMAIN kept = DOMAIN h.back /\ id \notin DOMAIN kept
  BY <1>4
<1>9. Kept(s, {id} \cup DOMAIN kept)
  BY <1>2, <1>6, <1>7, <1>8 DEF Headless, Kept
<1> QED
  BY <1>2, <1>3, <1>5, <1>7, <1>8, <1>9 DEF Good, s

\* A new tab gets an id that no tab has had.
LEMMA FreshGood ==
    ASSUME NEW h, Headless(h), NEW s, DOMAIN s = Fields,
           Distinct(s.tabOrder), Names(s.tabOrder) = DOMAIN h.back \cup {h.nextTabId},
           s.tabId = h.nextTabId, s.nextTabId = h.nextTabId + 1,
           s.view = EmptyTab, s.back = h.back, s.worker = h.worker, s.posts = h.posts
    PROVE  Good(s)
<1>1. h.nextTabId \in Nat \ {0} /\ \A k \in DOMAIN h.back : k \in Nat \ {0} /\ k < h.nextTabId
  BY DEF Headless, Kept
<1>2. s.tabId \notin DOMAIN s.back
  BY <1>1
<1>3. Kept(s, {s.tabId} \cup DOMAIN s.back)
  BY <1>1 DEF Headless, Kept
<1>4. Coherent(s.view) /\ s.view.place = NoPlace /\ s.view.worker = 0 /\ s.view.path = NoPath
  BY EmptyIsCoherent
<1>5. Served(s.view, s.tabId, s.worker, s.posts)
  BY <1>4 DEF Served
<1>6. PathsApart(s.view, s.back)
  BY <1>4 DEF PathsApart
<1> QED
  BY <1>2, <1>3, <1>4, <1>5, <1>6 DEF Good

-----------------------------------------------------------------------------
(* Closing.                                                                  *)

LEMMA PositionIsThere ==
    ASSUME NEW s, NEW id \in Names(s.tabOrder), Distinct(s.tabOrder)
    PROVE  /\ PositionOf(s, id) \in 1 .. Len(s.tabOrder)
           /\ s.tabOrder[PositionOf(s, id)] = id
<1>1. DOMAIN s.tabOrder = 1 .. Len(s.tabOrder)
  BY DEF Distinct
<1>2. \E i \in DOMAIN s.tabOrder : s.tabOrder[i] = id
  BY <1>1 DEF Names
<1>3. /\ PositionOf(s, id) \in DOMAIN s.tabOrder
      /\ s.tabOrder[PositionOf(s, id)] = id
  BY <1>2, Zenon DEF PositionOf
<1> QED
  BY <1>1, <1>3

\* The tab that is shown next is another one of the strip.
LEMMA NeighbourIsOpen ==
    ASSUME NEW s, Good(s), Neighbour(s) # 0
    PROVE  Neighbour(s) \in DOMAIN s.back
<1> DEFINE i == PositionOf(s, s.tabId)
           order == s.tabOrder
<1>1. /\ Distinct(order) /\ Names(order) = {s.tabId} \cup DOMAIN s.back
      /\ order \in Seq(Nat) /\ Len(order) \in Nat
  BY DEF Good, Kept, Distinct
<1>2. i \in 1 .. Len(order) /\ order[i] = s.tabId
  BY <1>1, PositionIsThere
<1> HIDE DEF i
<1>3. ASSUME NEW j \in 1 .. Len(order), j # i PROVE order[j] \in DOMAIN s.back
  <2>1. order[j] \in Names(order)
    BY DEF Names
  <2>2. order[j] # s.tabId
    BY <1>1, <1>2, <1>3 DEF Distinct
  <2> QED
    BY <1>1, <2>1, <2>2
<1>4. Neighbour(s) = IF i < Len(order) THEN order[i + 1]
                     ELSE IF i > 1 THEN order[i - 1] ELSE 0
  BY DEF Neighbour, i
<1>5. CASE i < Len(order)
  <2>1. i + 1 \in 1 .. Len(order) /\ i + 1 # i
    BY <1>1, <1>2, <1>5
  <2> QED
    BY <1>3, <1>4, <1>5, <2>1
<1>6. CASE ~ (i < Len(order)) /\ i > 1
  <2>1. i - 1 \in 1 .. Len(order) /\ i - 1 # i
    BY <1>1, <1>2, <1>6
  <2> QED
    BY <1>3, <1>4, <1>6, <2>1
<1> QED
  BY <1>4, <1>5, <1>6

\* Dropping a tab leaves the workers of the others.
LEMMA WithoutServes ==
    ASSUME NEW workers, NEW messages, NEW t, NEW id, Served(t, id, workers, messages),
           NEW u, NEW k, k # id, k # 0, Served(u, k, workers, messages)
    PROVE  Served(u, k, Restrict(workers, DOMAIN workers \ {t.worker}), messages)
<1> DEFINE left == Restrict(workers, DOMAIN workers \ {t.worker})
<1>1. /\ DOMAIN left = DOMAIN workers \ {t.worker}
      /\ \A j \in DOMAIN workers \ {t.worker} : left[j] = workers[j]
  BY DEF Restrict
<1> HIDE DEF left
<1>2. Served(u, k, left, messages)
  BY <1>1 DEF Served
<1> QED
  BY <1>2 DEF left

LEMMA WorkersShape ==
    ASSUME NEW workers, NEW dropped,
           \A k \in DOMAIN workers : DOMAIN workers[k] = {"latest", "event"}
    PROVE  LET left == Restrict(workers, DOMAIN workers \ {dropped})
           IN  \A k \in DOMAIN left : DOMAIN left[k] = {"latest", "event"}
BY DEF Restrict

\* The window state when the document that is shown has been dropped.
Gone(s) ==
    [Without(s, s.view) EXCEPT !.view = Emptied(s.view),
                               !.tabOrder = RemoveAt(@, PositionOf(s, s.tabId))]

LEMMA GoneFields ==
    ASSUME NEW s, DOMAIN s = Fields
    PROVE  /\ DOMAIN Gone(s) = Fields
           /\ Gone(s).tabOrder = RemoveAt(s.tabOrder, PositionOf(s, s.tabId))
           /\ Gone(s).tabId = s.tabId /\ Gone(s).nextTabId = s.nextTabId
           /\ Gone(s).view = EmptyTab /\ Gone(s).back = s.back
           /\ Gone(s).worker = Restrict(s.worker, DOMAIN s.worker \ {s.view.worker})
           /\ Gone(s).posts = s.posts
BY DEF Gone, Without, Fields, Emptied

LEMMA GoneHeadless ==
    ASSUME NEW s, Good(s)
    PROVE  Headless(Gone(s)) /\ Gone(s).back = s.back
<1> DEFINE h == Gone(s)
           left == Restrict(s.worker, DOMAIN s.worker \ {s.view.worker})
           order == RemoveAt(s.tabOrder, PositionOf(s, s.tabId))
<1>1. /\ DOMAIN s = Fields /\ Distinct(s.tabOrder) /\ s.tabId \in Names(s.tabOrder)
      /\ Names(s.tabOrder) = {s.tabId} \cup DOMAIN s.back /\ s.tabId \notin DOMAIN s.back
  BY DEF Good, Kept
<1>2. /\ DOMAIN h = Fields /\ h.tabOrder = order /\ h.nextTabId = s.nextTabId
      /\ h.view = EmptyTab /\ h.back = s.back /\ h.worker = left /\ h.posts = s.posts
  BY <1>1, GoneFields
<1>3. Distinct(order) /\ Names(order) = DOMAIN s.back
  <2>1. /\ PositionOf(s, s.tabId) \in 1 .. Len(s.tabOrder)
        /\ s.tabOrder[PositionOf(s, s.tabId)] = s.tabId
    BY <1>1, PositionIsThere
  <2>2. Distinct(order) /\ Names(order) = Names(s.tabOrder) \ {s.tabId}
    BY <1>1, <2>1, RemovedName
  <2> QED
    BY <1>1, <2>2
<1>4. \A k \in DOMAIN left : DOMAIN left[k] = {"latest", "event"}
  BY WorkersShape DEF Good, Kept
<1> HIDE DEF h, order
<1>5. ASSUME NEW k \in DOMAIN s.back
      PROVE  Coherent(s.back[k]) /\ Served(s.back[k], k, left, s.posts)
  <2>1. /\ k # s.tabId /\ k # 0 /\ Coherent(s.back[k])
        /\ Served(s.back[k], k, s.worker, s.posts)
        /\ Served(s.view, s.tabId, s.worker, s.posts)
    BY <1>1 DEF Good, Kept
  <2> QED
    BY <2>1, WithoutServes
<1> HIDE DEF left
<1>6. Headless(h)
  BY <1>1, <1>2, <1>3, <1>4, <1>5 DEF Good, Kept, Headless
<1> QED
  BY <1>2, <1>6 DEF h

\* close_tab of the tab that is shown.
LEMMA ClosedActiveGood ==
    ASSUME NEW s, Good(s), NEW outcome \in Outcomes
    PROVE  Good(ClosedActive(s, outcome))
<1> DEFINE h == Gone(s)
<1>1. Headless(h) /\ h.back = s.back
  BY GoneHeadless
<1>2. CASE Neighbour(s) # 0
  <2>1. Neighbour(s) \in DOMAIN h.back
    BY <1>1, <1>2, NeighbourIsOpen
  <2>2. ClosedActive(s, outcome) = Shows(h, Neighbour(s), outcome)
    BY <1>2 DEF ClosedActive, Gone
  <2> HIDE DEF h
  <2> QED
    BY <1>1, <2>1, <2>2, ShowsGood
<1>3. CASE Neighbour(s) = 0
  <2> DEFINE new == [h EXCEPT !.tabId = s.nextTabId, !.nextTabId = @ + 1,
                              !.tabOrder = Append(@, s.nextTabId)]
  <2>1. ClosedActive(s, outcome) = new
    BY <1>3 DEF ClosedActive, Gone
  <2>2. h.nextTabId = s.nextTabId
    BY GoneFields DEF Good, Kept
  <2> HIDE DEF h
  <2>3. /\ DOMAIN h = Fields /\ Distinct(h.tabOrder) /\ Names(h.tabOrder) = DOMAIN h.back
        /\ h.nextTabId \in Nat /\ h.nextTabId \notin Names(h.tabOrder)
        /\ h.view = EmptyTab
    BY <1>1 DEF Headless, Kept
  <2>4. /\ DOMAIN new = Fields /\ new.tabOrder = Append(h.tabOrder, h.nextTabId)
        /\ new.tabId = h.nextTabId /\ new.nextTabId = h.nextTabId + 1
        /\ new.view = EmptyTab /\ new.back = h.back /\ new.worker = h.worker
        /\ new.posts = h.posts
    BY <2>2, <2>3 DEF Fields
  <2> HIDE DEF new
  <2>5. /\ Distinct(new.tabOrder)
        /\ Names(new.tabOrder) = DOMAIN h.back \cup {h.nextTabId}
    BY <2>3, <2>4, AppendedName
  <2>6. Good(new)
    BY <1>1, <2>4, <2>5, FreshGood
  <2> QED
    BY <2>1, <2>6
<1> QED
  BY <1>2, <1>3

LEMMA ClosedGood ==
    ASSUME NEW s, Good(s), NEW id \in Names(s.tabOrder), NEW outcome \in Outcomes
    PROVE  Good(Closed(s, id, outcome))
<1>1. CASE id = s.tabId
  BY <1>1, ClosedActiveGood DEF Closed
<1>2. CASE id # s.tabId
  <2> DEFINE new == Closed(s, id, outcome)
             left == Restrict(s.worker, DOMAIN s.worker \ {s.back[id].worker})
             order == RemoveAt(s.tabOrder, PositionOf(s, id))
             kept == Restrict(s.back, DOMAIN s.back \ {id})
  <2>1. /\ DOMAIN s = Fields /\ Distinct(s.tabOrder)
        /\ Names(s.tabOrder) = {s.tabId} \cup DOMAIN s.back /\ s.tabId \notin DOMAIN s.back
        /\ id \in DOMAIN s.back
    BY <1>2 DEF Good, Kept
  <2>2. /\ DOMAIN new = Fields /\ new.tabOrder = order /\ new.tabId = s.tabId
        /\ new.nextTabId = s.nextTabId /\ new.view = s.view /\ new.back = kept
        /\ new.worker = left /\ new.posts = s.posts
    BY <1>2, <2>1 DEF Closed, Without, Fields
  <2>3. Distinct(order) /\ Names(order) = Names(s.tabOrder) \ {id}
    <3>1. /\ PositionOf(s, id) \in 1 .. Len(s.tabOrder)
          /\ s.tabOrder[PositionOf(s, id)] = id
      BY <2>1, PositionIsThere
    <3> QED
      BY <2>1, <3>1, RemovedName
  <2>4. /\ DOMAIN kept = DOMAIN s.back \ {id}
        /\ \A k \in DOMAIN s.back \ {id} : kept[k] = s.back[k]
    BY DEF Restrict
  <2>5. \A k \in DOMAIN left : DOMAIN left[k] = {"latest", "event"}
    BY WorkersShape DEF Good, Kept
  <2> HIDE DEF new, order, kept
  <2>6. Served(s.back[id], id, s.worker, s.posts)
    BY <2>1 DEF Good, Kept
  <2>7. ASSUME NEW k \in DOMAIN kept
        PROVE  Coherent(kept[k]) /\ Served(kept[k], k, left, s.posts)
    <3>1. /\ k # id /\ k # 0 /\ kept[k] = s.back[k] /\ Coherent(s.back[k])
          /\ Served(s.back[k], k, s.worker, s.posts)
      BY <2>1, <2>4 DEF Good, Kept
    <3> QED
      BY <2>6, <3>1, WithoutServes
  <2>8. Coherent(s.view) /\ Served(s.view, s.tabId, left, s.posts)
    <3>1. /\ s.tabId # id /\ s.tabId # 0 /\ Coherent(s.view)
          /\ Served(s.view, s.tabId, s.worker, s.posts)
      BY <1>2, <2>1 DEF Good, Kept
    <3> QED
      BY <2>6, <3>1, WithoutServes
  <2> HIDE DEF left
  <2>9. PathsOnce(kept) /\ PathsApart(s.view, kept)
    BY <2>4 DEF Good, Kept, PathsOnce, PathsApart
  <2>10. Names(order) = {s.tabId} \cup DOMAIN kept
    BY <1>2, <2>1, <2>3, <2>4
  <2>11. Kept(new, {s.tabId} \cup DOMAIN kept)
    BY <2>1, <2>2, <2>3, <2>4, <2>5, <2>7, <2>9, <2>10 DEF Good, Kept
  <2>12. s.tabId \notin DOMAIN kept
    BY <2>1, <2>4
  <2>13. Good(new)
    BY <2>2, <2>8, <2>9, <2>11, <2>12 DEF Good
  <2> QED
    BY <2>13 DEF new
<1> QED
  BY <1>1, <1>2

-----------------------------------------------------------------------------
(* Opening.                                                                  *)

\* A change of the document that is shown and of its worker.
LEMMA ViewChanges ==
    ASSUME NEW s, Good(s), NEW new, DOMAIN new = Fields,
           new.tabOrder = s.tabOrder, new.tabId = s.tabId,
           new.nextTabId = s.nextTabId, new.back = s.back, new.posts = s.posts,
           Coherent(new.view), new.view.place = NoPlace,
           PathsApart(new.view, s.back),
           new.view.worker \in {0, s.tabId},
           DOMAIN s.worker \subseteq DOMAIN new.worker,
           \A k \in DOMAIN s.worker \ {s.tabId} : new.worker[k] = s.worker[k],
           \A k \in DOMAIN new.worker : DOMAIN new.worker[k] = {"latest", "event"},
           new.view.worker # 0 =>
              /\ s.tabId \in DOMAIN new.worker
              /\ new.worker[s.tabId].event # NoEvent => <<"ready", s.tabId>> \in s.posts
    PROVE  Good(new)
<1>1. Served(new.view, s.tabId, new.worker, s.posts)
  BY DEF Served
<1>2. ASSUME NEW k \in DOMAIN s.back
      PROVE  Coherent(s.back[k]) /\ Served(s.back[k], k, new.worker, s.posts)
  <2>1. k # s.tabId /\ Coherent(s.back[k]) /\ Served(s.back[k], k, s.worker, s.posts)
    BY DEF Good, Kept
  <2> QED
    BY <2>1 DEF Served
<1>3. Kept(new, {s.tabId} \cup DOMAIN s.back)
  BY <1>2 DEF Good, Kept
<1> QED
  BY <1>1, <1>3 DEF Good

LEMMA StartedGood ==
    ASSUME NEW s, Good(s)
    PROVE  /\ Good(Started(s))
           /\ Started(s).view.worker = s.tabId /\ Started(s).tabId = s.tabId
           /\ Started(s).view.path = s.view.path /\ Started(s).back = s.back
<1>1. /\ DOMAIN s = Fields /\ s.tabId # 0 /\ Served(s.view, s.tabId, s.worker, s.posts)
      /\ Coherent(s.view) /\ s.view.place = NoPlace /\ PathsApart(s.view, s.back)
      /\ \A k \in DOMAIN s.worker : DOMAIN s.worker[k] = {"latest", "event"}
  BY DEF Good, Kept
<1>2. CASE s.view.worker # 0
  BY <1>1, <1>2 DEF Started, Served
<1>3. CASE s.view.worker = 0
  <2> DEFINE new == Started(s)
             shown == [s.view EXCEPT !.worker = s.tabId]
             workers == Put(s.worker, s.tabId, NewWorker)
  <2>1. /\ DOMAIN new = Fields /\ new.tabOrder = s.tabOrder /\ new.tabId = s.tabId
        /\ new.nextTabId = s.nextTabId /\ new.view = shown /\ new.back = s.back
        /\ new.worker = workers /\ new.posts = s.posts
    BY <1>1, <1>3 DEF Started, StartedFor, Fields
  <2>2. /\ Coherent(shown) /\ shown.place = NoPlace /\ shown.path = s.view.path
        /\ shown.worker = s.tabId
    BY <1>1 DEF Coherent, TabFields
  <2>3. /\ DOMAIN workers = DOMAIN s.worker \cup {s.tabId}
        /\ workers[s.tabId] = NewWorker
        /\ \A k \in DOMAIN s.worker \ {s.tabId} : workers[k] = s.worker[k]
    BY DEF Put
  <2>4. DOMAIN NewWorker = {"latest", "event"} /\ NewWorker.event = NoEvent
    BY DEF NewWorker
  <2> HIDE DEF new, shown, workers
  <2>5. PathsApart(shown, s.back)
    BY <1>1, <2>2 DEF PathsApart
  <2>6. \A k \in DOMAIN workers : DOMAIN workers[k] = {"latest", "event"}
    BY <1>1, <2>3, <2>4
  <2>7. Good(new)
    BY <2>1, <2>2, <2>3, <2>4, <2>5, <2>6, ViewChanges
  <2> QED
    BY <2>1, <2>2, <2>7 DEF new
<1> QED
  BY <1>2, <1>3

\* submit_path_sheet
LEMMA SubmittedGood ==
    ASSUME NEW s, Good(s), s.view.worker = s.tabId
    PROVE  /\ Good(Submitted(s))
           /\ Submitted(s).view.rows = NoRows /\ Submitted(s).view.pending = NoPlace
           /\ Submitted(s).view.worker = s.tabId /\ Submitted(s).tabId = s.tabId
           /\ Submitted(s).back = s.back
<1> DEFINE new == Submitted(s)
           shown == [s.view EXCEPT !.rows = NoRows, !.pending = NoPlace, !.order = 0]
           served == [s.worker[s.tabId] EXCEPT !.latest = @ + 1, !.event = NoEvent]
           workers == [s.worker EXCEPT ![s.tabId].latest = @ + 1, ![s.tabId].event = NoEvent]
<1>1. /\ DOMAIN s = Fields /\ s.tabId # 0 /\ Served(s.view, s.tabId, s.worker, s.posts)
      /\ Coherent(s.view) /\ s.view.place = NoPlace /\ PathsApart(s.view, s.back)
      /\ \A k \in DOMAIN s.worker : DOMAIN s.worker[k] = {"latest", "event"}
      /\ s.tabId \in DOMAIN s.worker
  BY DEF Good, Kept, Served
<1>2. /\ DOMAIN new = Fields /\ new.tabOrder = s.tabOrder /\ new.tabId = s.tabId
      /\ new.nextTabId = s.nextTabId /\ new.view = shown /\ new.back = s.back
      /\ new.posts = s.posts
  BY <1>1 DEF Submitted, Fields
<1>3. new.worker = workers
  BY <1>1 DEF Submitted, Fields
<1>4. /\ Coherent(shown) /\ shown.place = NoPlace /\ shown.path = s.view.path
      /\ shown.worker = s.tabId /\ shown.rows = NoRows /\ shown.pending = NoPlace
  BY <1>1 DEF Coherent, TabFields
<1>5. DOMAIN served = {"latest", "event"} /\ served.event = NoEvent
  BY <1>1
<1>6. /\ DOMAIN workers = DOMAIN s.worker /\ workers[s.tabId] = served
      /\ \A k \in DOMAIN s.worker \ {s.tabId} : workers[k] = s.worker[k]
  BY <1>1
<1> HIDE DEF new, shown, served, workers
<1>7. PathsApart(shown, s.back)
  BY <1>1, <1>4 DEF PathsApart
<1>8. \A k \in DOMAIN workers : DOMAIN workers[k] = {"latest", "event"}
  BY <1>1, <1>5, <1>6
<1>9. Good(new)
  BY <1>1, <1>2, <1>3, <1>4, <1>5, <1>6, <1>7, <1>8, ViewChanges
<1> QED
  BY <1>2, <1>4, <1>9 DEF new

\* queue_path_sheet, up to wherever it stops.
LEMMA QueuedGood ==
    ASSUME NEW s, Good(s), NEW path, NEW stop \in Stops,
           \A k \in DOMAIN s.back : s.back[k].path # NoPath => s.back[k].path # path
    PROVE  Good(Queued(s, path, stop))
<1> DEFINE sent == Submitted(Started(s))
<1>1. /\ Good(sent) /\ sent.view.rows = NoRows /\ sent.view.pending = NoPlace
      /\ sent.view.worker = sent.tabId /\ sent.back = s.back
  BY StartedGood, SubmittedGood
<1>2. Good(Started(s))
  BY StartedGood
<1> HIDE DEF sent
<1>3. CASE stop = ""
  <2> DEFINE serial == sent.worker[sent.view.worker].latest
             shown == [sent.view EXCEPT !.path = path, !.serial = serial]
             new == [sent EXCEPT !.view.path = path, !.view.serial = serial]
  <2>1. Queued(s, path, stop) = new
    BY <1>3 DEF Queued, sent
  <2>2. /\ DOMAIN sent = Fields /\ Coherent(sent.view) /\ sent.view.place = NoPlace
        /\ Served(sent.view, sent.tabId, sent.worker, sent.posts)
        /\ \A k \in DOMAIN sent.worker : DOMAIN sent.worker[k] = {"latest", "event"}
        /\ sent.tabId # 0
    BY <1>1 DEF Good, Kept
  <2> HIDE DEF serial
  <2>3. /\ DOMAIN new = Fields /\ new.tabOrder = sent.tabOrder /\ new.tabId = sent.tabId
        /\ new.nextTabId = sent.nextTabId /\ new.view = shown /\ new.back = sent.back
        /\ new.worker = sent.worker /\ new.posts = sent.posts
    BY <2>2 DEF Fields
  <2>4. /\ Coherent(shown) /\ shown.place = NoPlace /\ shown.path = path
        /\ shown.worker = sent.tabId
    BY <1>1, <2>2 DEF Coherent, TabFields
  <2> HIDE DEF new, shown
  <2>5. PathsApart(shown, sent.back)
    BY <1>1, <2>4 DEF PathsApart
  <2>6. Good(new)
    BY <1>1, <2>2, <2>3, <2>4, <2>5, ViewChanges DEF Served
  <2> QED
    BY <2>1, <2>6
<1>4. CASE stop # ""
  BY <1>1, <1>2, <1>4 DEF Queued, Stops, sent
<1> QED
  BY <1>3, <1>4

\* The new tab that a document is opened in.
LEMMA NewTabGood ==
    ASSUME NEW s, Good(s)
    PROVE  /\ Good(NewTab(s))
           /\ DOMAIN NewTab(s).back = {s.tabId} \cup DOMAIN s.back
           /\ NewTab(s).back[s.tabId].path = s.view.path
           /\ \A k \in DOMAIN s.back : NewTab(s).back[k] = s.back[k]
<1> DEFINE h == PutAway(s)
           i == PositionOf(s, s.tabId)
           new == NewTab(s)
<1>1. Headless(h) /\ DOMAIN h.back = {s.tabId} \cup DOMAIN s.back
  BY PutAwayHeadless
<1>2. /\ DOMAIN s = Fields /\ Distinct(s.tabOrder) /\ s.tabId \in Names(s.tabOrder)
      /\ Coherent(s.view) /\ s.view.place = NoPlace /\ s.tabId \notin DOMAIN s.back
  BY DEF Good, Kept
<1>3. /\ DOMAIN h = Fields /\ h.tabOrder = s.tabOrder /\ h.nextTabId = s.nextTabId
      /\ h.view = EmptyTab /\ h.back = Put(s.back, s.tabId, Stashed(s.view))
  BY <1>2, PutAwayFields
<1>4. /\ h.back[s.tabId].path = s.view.path
      /\ \A k \in DOMAIN s.back : h.back[k] = s.back[k]
  BY <1>2, <1>3, StashedIsCoherent DEF Put
<1>5. i \in 1 .. Len(s.tabOrder)
  BY <1>2, PositionIsThere
<1> HIDE DEF h, i
<1>6. new = [h EXCEPT !.tabOrder = InsertAt(@, i + 1, s.nextTabId),
                      !.tabId = s.nextTabId, !.nextTabId = @ + 1]
  BY DEF NewTab, h, i
<1> HIDE DEF new
<1>7. /\ DOMAIN new = Fields /\ new.tabOrder = InsertAt(h.tabOrder, i + 1, h.nextTabId)
      /\ new.tabId = h.nextTabId /\ new.nextTabId = h.nextTabId + 1
      /\ new.view = EmptyTab /\ new.back = h.back /\ new.worker = h.worker
      /\ new.posts = h.posts
  BY <1>3, <1>6 DEF Fields
<1>8. /\ Names(h.tabOrder) = DOMAIN h.back /\ h.nextTabId \in Nat
      /\ h.nextTabId \notin Names(h.tabOrder)
  BY <1>1 DEF Headless, Kept
<1>9. i + 1 \in 1 .. Len(h.tabOrder) + 1
  <2>1. Len(s.tabOrder) \in Nat
    BY <1>2 DEF Distinct
  <2> QED
    BY <1>3, <1>5, <2>1
<1>10. /\ Distinct(new.tabOrder)
       /\ Names(new.tabOrder) = DOMAIN h.back \cup {h.nextTabId}
  BY <1>2, <1>3, <1>7, <1>8, <1>9, InsertedName
<1>11. Good(new)
  BY <1>1, <1>7, <1>10, FreshGood
<1> QED
  BY <1>1, <1>4, <1>7, <1>11 DEF new

-----------------------------------------------------------------------------
(* The commands.                                                             *)

LEMMA StateFields ==
    /\ DOMAIN State = Fields
    /\ State.tabOrder = tabOrder /\ State.tabId = tabId /\ State.nextTabId = nextTabId
    /\ State.view = view /\ State.back = back /\ State.worker = worker
    /\ State.posts = posts
BY DEF State, Fields

\* Good speaks of the fields only.
LEMMA GoodLike ==
    ASSUME NEW s, Good(s), NEW new, DOMAIN new = Fields,
           new.tabOrder = s.tabOrder, new.tabId = s.tabId,
           new.nextTabId = s.nextTabId, new.view = s.view, new.back = s.back,
           new.worker = s.worker, new.posts = s.posts
    PROVE  Good(new)
BY DEF Good, Kept

LEMMA BecomesGood ==
    ASSUME NEW s, Good(s), Becomes(s)
    PROVE  TabsIInv'
<1>1. /\ DOMAIN State' = Fields
      /\ State'.tabOrder = s.tabOrder /\ State'.tabId = s.tabId
      /\ State'.nextTabId = s.nextTabId /\ State'.view = s.view
      /\ State'.back = s.back /\ State'.worker = s.worker /\ State'.posts = s.posts
  BY DEF State, Fields, Becomes
<1>2. Good(State')
  BY <1>1, GoodLike
<1> QED
  BY <1>2 DEF TabsIInv, Good, Kept

LEMMA OpenStep ==
    ASSUME TabsIInv, NEW path \in Paths, NEW stop \in Stops, NEW outcome \in Outcomes,
           OpenDocument(path, stop, outcome)
    PROVE  TabsIInv'
<1>1. /\ path # view.path /\ \A k \in DOMAIN back : path # back[k].path
  BY DEF OpenDocument, PathsOpen
<1>2. CASE OpenInNewTab(path, stop, outcome)
  <2> DEFINE s == NewTab(State)
             sent == Queued(s, path, stop)
  <2>1. /\ Good(s) /\ DOMAIN s.back = {tabId} \cup DOMAIN back
        /\ s.back[tabId].path = view.path
        /\ \A k \in DOMAIN back : s.back[k] = back[k]
    BY NewTabGood, StateFields DEF TabsIInv
  <2>2. Becomes(IF stop = "" THEN sent ELSE ClosedActive(sent, outcome))
    BY <1>2 DEF OpenInNewTab
  <2> HIDE DEF s
  <2>3. Good(sent)
    BY <1>1, <2>1, QueuedGood
  <2> HIDE DEF sent
  <2>4. Good(ClosedActive(sent, outcome))
    BY <2>3, ClosedActiveGood
  <2> QED
    BY <2>2, <2>3, <2>4, BecomesGood
<1>3. CASE OpenHere(path, stop, outcome)
  <2>1. Good(Queued(State, path, stop))
    BY <1>1, StateFields, QueuedGood DEF TabsIInv
  <2> QED
    BY <1>3, <2>1, BecomesGood DEF OpenHere
<1> QED
  BY <1>2, <1>3 DEF OpenDocument

LEMMA AgainStep ==
    ASSUME TabsIInv, NEW stop \in Stops, QueueAgain(stop)
    PROVE  TabsIInv'
<1>1. \A k \in DOMAIN back : back[k].path # NoPath => back[k].path # view.path
  BY StateFields DEF TabsIInv, Good, PathsApart
<1>2. Good(Queued(State, view.path, stop))
  BY <1>1, StateFields, QueuedGood DEF TabsIInv
<1> QED
  BY <1>2, BecomesGood DEF QueueAgain

LEMMA ActivateStep ==
    ASSUME TabsIInv, NEW id, NEW outcome \in Outcomes, ActivateTab(id, outcome)
    PROVE  TabsIInv'
<1>1. id \in DOMAIN back /\ Becomes(Activated(State, id, outcome))
  BY DEF ActivateTab
<1>2. Headless(PutAway(State)) /\ id \in DOMAIN PutAway(State).back
  BY <1>1, PutAwayHeadless, StateFields DEF TabsIInv
<1>3. Good(Activated(State, id, outcome))
  BY <1>2, ShowsGood DEF Activated
<1> QED
  BY <1>1, <1>3, BecomesGood

\* A message that is taken from the queue, other than an event's.
LEMMA CloseStep ==
    ASSUME TabsIInv, NEW id, NEW outcome \in Outcomes, CloseTab(id, outcome)
    PROVE  TabsIInv'
<1> DEFINE s == [State EXCEPT !.posts = @ \ {<<"close", id>>}]
<1>1. Becomes(IF id \in Range(tabOrder) THEN Closed(s, id, outcome) ELSE s)
  BY DEF CloseTab
<1>2. /\ DOMAIN s = Fields /\ s.tabOrder = tabOrder /\ s.tabId = tabId
      /\ s.nextTabId = nextTabId /\ s.view = view /\ s.back = back
      /\ s.worker = worker /\ s.posts = posts \ {<<"close", id>>}
  BY StateFields DEF Fields
<1> HIDE DEF s
<1>3. ASSUME NEW t, NEW k, Served(t, k, worker, posts)
      PROVE  Served(t, k, worker, posts \ {<<"close", id>>})
  <2>1. <<"ready", k>> # <<"close", id>>
    OBVIOUS
  <2> QED
    BY <1>3, <2>1 DEF Served
<1>4. Good(s)
  BY <1>2, <1>3, StateFields DEF TabsIInv, Good, Kept
<1>5. CASE id \in Range(tabOrder)
  <2>1. id \in Names(s.tabOrder)
    BY <1>2, <1>4, <1>5 DEF Range, Names, Good, Kept, Distinct
  <2> QED
    BY <1>1, <1>4, <1>5, <2>1, ClosedGood, BecomesGood
<1> QED
  BY <1>1, <1>4, <1>5, BecomesGood

-----------------------------------------------------------------------------
(* The messages and the events.                                              *)

\* A step that changes a tab, its worker or the messages, and no place in the
\* strip.
LEMMA InPlace ==
    ASSUME TabsIInv, UNCHANGED <<tabOrder, tabId, nextTabId>>,
           DOMAIN back' = DOMAIN back, DOMAIN worker' = DOMAIN worker,
           \A k \in DOMAIN worker : DOMAIN worker'[k] = {"latest", "event"},
           Coherent(view'), view'.place = NoPlace, view'.path = view.path,
           Served(view', tabId, worker', posts'),
           \A k \in DOMAIN back :
              /\ Coherent(back'[k]) /\ back'[k].path = back[k].path
              /\ Served(back'[k], k, worker', posts')
    PROVE  TabsIInv'
<1>1. /\ DOMAIN State' = Fields
      /\ State'.tabOrder = tabOrder /\ State'.tabId = tabId
      /\ State'.nextTabId = nextTabId /\ State'.view = view'
      /\ State'.back = back' /\ State'.worker = worker' /\ State'.posts = posts'
  BY DEF State, Fields
<1>2. PathsOnce(back') /\ PathsApart(view', back')
  BY StateFields DEF TabsIInv, Good, Kept, PathsOnce, PathsApart
<1>3. Kept(State', {tabId} \cup DOMAIN back')
  BY <1>1, <1>2, StateFields DEF TabsIInv, Good, Kept
<1>4. Good(State')
  BY <1>1, <1>2, <1>3, StateFields DEF TabsIInv, Good
<1> QED
  BY <1>4 DEF TabsIInv, Good, Kept

\* What the invariant says of the variables.
LEMMA Facts ==
    ASSUME TabsIInv
    PROVE  /\ Coherent(view) /\ view.place = NoPlace
           /\ Served(view, tabId, worker, posts)
           /\ \A k \in DOMAIN back : Coherent(back[k]) /\ Served(back[k], k, worker, posts)
           /\ \A k \in DOMAIN worker : DOMAIN worker[k] = {"latest", "event"}
           /\ tabId \notin DOMAIN back /\ tabId # 0 /\ 0 \notin DOMAIN back
           /\ PathsOnce(back) /\ PathsApart(view, back)
           /\ Names(tabOrder) = {tabId} \cup DOMAIN back /\ Distinct(tabOrder)
BY StateFields DEF TabsIInv, Good, Kept

LEMMA RequestStep ==
    ASSUME TabsIInv, NEW id, RequestClose(id)
    PROVE  TabsIInv'
<1>1. posts \subseteq posts' /\ UNCHANGED <<tabOrder, tabId, nextTabId, view, back, worker>>
  BY DEF RequestClose
<1>2. ASSUME NEW t, NEW k, Served(t, k, worker, posts)
      PROVE  Served(t, k, worker, posts')
  BY <1>1, <1>2 DEF Served
<1> QED
  BY <1>1, <1>2, Facts, InPlace

LEMMA EmitStep ==
    ASSUME TabsIInv, NEW k, Emit(k)
    PROVE  TabsIInv'
<1>1. /\ UNCHANGED <<tabOrder, tabId, nextTabId, view, back>>
      /\ k \in DOMAIN worker
      /\ posts' = IF worker[k].event = NoEvent THEN posts \cup {<<"ready", k>>} ELSE posts
  BY DEF Emit
<1>2. PICK event : worker' = [worker EXCEPT ![k].event = event]
  BY DEF Emit
<1>3. DOMAIN worker[k] = {"latest", "event"}
  BY <1>1, Facts
<1>4. /\ DOMAIN worker' = DOMAIN worker
      /\ DOMAIN worker'[k] = {"latest", "event"}
      /\ \A j \in DOMAIN worker \ {k} : worker'[j] = worker[j]
  BY <1>1, <1>2, <1>3
<1>5. ASSUME NEW t, NEW id, Served(t, id, worker, posts)
      PROVE  Served(t, id, worker', posts')
  BY <1>1, <1>4, <1>5 DEF Served
<1>6. \A j \in DOMAIN worker : DOMAIN worker'[j] = {"latest", "event"}
  BY <1>4, Facts
<1> QED
  BY <1>1, <1>4, <1>5, <1>6, Facts, InPlace

\* An event that is current leaves a tab coherent: its rows, its order and the
\* places it keeps change together.
LEMMA AppliedIsCoherent ==
    ASSUME NEW t, Coherent(t), NEW e, Current(t, e)
    PROVE  /\ Coherent(Applied(t, e))
           /\ Applied(t, e).path = t.path /\ Applied(t, e).worker = t.worker
           /\ Applied(t, e).order = e.order
           /\ Applied(t, e).rows = [path |-> t.path, serial |-> t.serial, order |-> e.order]
           /\ Applied(t, e).serial = t.serial
<1> DEFINE r == Reordered(t, e)
           a == Applied(t, e)
<1>1. /\ DOMAIN r = TabFields
      /\ r.path = t.path /\ r.serial = t.serial /\ r.worker = t.worker
      /\ r.order = e.order
      /\ r.pending \in {NoPlace, e.order} /\ r.place \in {NoPlace, e.order}
  BY DEF Reordered, Coherent, TabFields
<1> HIDE DEF r
<1>2. /\ DOMAIN a = TabFields
      /\ a.path = t.path /\ a.serial = t.serial /\ a.worker = t.worker
      /\ a.order = e.order /\ a.place \in {NoPlace, e.order}
      /\ a.rows = [path |-> t.path, serial |-> e.serial, order |-> e.order]
      /\ a.pending \in {NoPlace, e.order}
  BY <1>1 DEF Applied, TabFields, r
<1> HIDE DEF a
<1>3. e.serial = t.serial
  BY DEF Current
<1>4. Coherent(a)
  BY <1>2, <1>3 DEF Coherent
<1> QED
  BY <1>2, <1>3, <1>4 DEF a

LEMMA ReadyStep ==
    ASSUME TabsIInv, NEW id, WorkerReady(id)
    PROVE  TabsIInv'
<1> DEFINE t == IF id = tabId THEN view
                ELSE IF id \in DOMAIN back THEN back[id] ELSE EmptyTab
           e == Polled(t)
<1>1. /\ UNCHANGED <<tabOrder, tabId, nextTabId>>
      /\ posts' = posts \ {<<"ready", id>>}
      /\ worker' = IF t.worker \in DOMAIN worker
                   THEN [worker EXCEPT ![t.worker].event = NoEvent] ELSE worker
      /\ \/ UNCHANGED <<view, back>>
         \/ Current(t, e) /\ id = tabId /\ \E done \in BOOLEAN : ApplyToView(e, done)
         \/ Current(t, e) /\ id # tabId /\ ApplyToBack(id, e)
  BY DEF WorkerReady
<1>2. t.worker \in {0, id}
  BY Facts, EmptyIsCoherent DEF Served
<1> HIDE DEF e
<1>3. /\ DOMAIN worker' = DOMAIN worker
      /\ \A k \in DOMAIN worker : DOMAIN worker'[k] = {"latest", "event"}
      /\ \A k \in DOMAIN worker \ {t.worker} : worker'[k] = worker[k]
      /\ t.worker \in DOMAIN worker => worker'[t.worker].event = NoEvent
  BY <1>1, Facts
<1>4. ASSUME NEW u, NEW k, Served(u, k, worker, posts), k # 0,
             k = id => u.worker = t.worker
      PROVE  Served(u, k, worker', posts')
  <2>1. CASE k = id
    BY <1>3, <1>4, <2>1 DEF Served
  <2>2. CASE k # id
    <3>1. k \in DOMAIN worker => worker'[k] = worker[k]
      BY <1>2, <1>3, <1>4, <2>2
    <3>2. <<"ready", k>> # <<"ready", id>>
      BY <2>2
    <3> QED
      BY <1>1, <1>3, <1>4, <3>1, <3>2 DEF Served
  <2> QED
    BY <2>1, <2>2
<1>5. /\ Served(view, tabId, worker', posts')
      /\ \A k \in DOMAIN back : Served(back[k], k, worker', posts')
  BY <1>4, Facts
<1>6. CASE UNCHANGED <<view, back>>
  BY <1>1, <1>3, <1>5, <1>6, Facts, InPlace
<1>7. CASE Current(t, e) /\ id = tabId /\ \E done \in BOOLEAN : ApplyToView(e, done)
  <2> DEFINE a == Applied(view, e)
  <2>1. t = view
    BY <1>7
  <2>2. /\ Coherent(a) /\ a.path = view.path /\ a.worker = view.worker
    BY <1>7, <2>1, Facts, AppliedIsCoherent
  <2>3. PICK done \in BOOLEAN :
            view' = [a EXCEPT !.pending = IF done THEN NoPlace ELSE @, !.place = NoPlace]
    BY <1>7 DEF ApplyToView
  <2>4. UNCHANGED back
    BY <1>7 DEF ApplyToView
  <2> HIDE DEF a
  <2>5. /\ Coherent(view') /\ view'.place = NoPlace /\ view'.path = view.path
        /\ view'.worker = view.worker
    BY <2>2, <2>3 DEF Coherent, TabFields
  <2>6. Served(view', tabId, worker', posts')
    BY <1>5, <2>5, ServedLike
  <2> QED
    BY <1>1, <1>3, <1>5, <2>4, <2>5, <2>6, Facts, InPlace
<1>8. CASE Current(t, e) /\ id # tabId /\ ApplyToBack(id, e)
  <2>1. UNCHANGED view /\ back' = [back EXCEPT ![id] = Applied(back[id], e)]
    BY <1>8 DEF ApplyToBack
  <2>2. CASE id \in DOMAIN back
    <3>1. t = back[id]
      BY <1>8, <2>2
    <3>2. /\ Coherent(Applied(back[id], e)) /\ Applied(back[id], e).path = back[id].path
          /\ Applied(back[id], e).worker = back[id].worker
      BY <1>8, <2>2, <3>1, Facts, AppliedIsCoherent
    <3>3. /\ DOMAIN back' = DOMAIN back /\ back'[id] = Applied(back[id], e)
          /\ \A k \in DOMAIN back \ {id} : back'[k] = back[k]
      BY <2>1, <2>2
    <3>4. Served(back'[id], id, worker', posts')
      BY <1>5, <2>2, <3>2, <3>3, ServedLike
    <3>5. \A k \in DOMAIN back :
              /\ Coherent(back'[k]) /\ back'[k].path = back[k].path
              /\ Served(back'[k], k, worker', posts')
      BY <1>5, <3>2, <3>3, <3>4, Facts
    <3> QED
      BY <1>1, <1>3, <1>5, <2>1, <3>3, <3>5, Facts, InPlace
  <2>3. CASE id \notin DOMAIN back
    <3>1. t = EmptyTab
      BY <1>8, <2>3
    <3>2. DOMAIN back' = DOMAIN back /\ \A k \in DOMAIN back : back'[k] = back[k]
      BY <2>1, <2>3
    <3> QED
      BY <1>1, <1>3, <1>5, <2>1, <3>2, Facts, InPlace
  <2> QED
    BY <2>2, <2>3
<1> QED
  BY <1>1, <1>6, <1>7, <1>8

LEMMA GoToStep ==
    ASSUME TabsIInv, GoToRow
    PROVE  TabsIInv'
<1>1. /\ view' = [view EXCEPT !.pending = view.order]
      /\ UNCHANGED <<tabOrder, tabId, nextTabId, back, worker, posts>>
  BY DEF GoToRow
<1>2. /\ Coherent(view') /\ view'.place = NoPlace /\ view'.path = view.path
      /\ view'.worker = view.worker
  BY <1>1, Facts DEF Coherent, TabFields
<1>3. Served(view', tabId, worker', posts')
  BY <1>1, <1>2, Facts, ServedLike
<1> QED
  BY <1>1, <1>2, <1>3, Facts, InPlace

-----------------------------------------------------------------------------
(* The inductive invariant and what follows from it.                         *)

LEMMA InitTabs == TabsInit => TabsIInv
<1> SUFFICES ASSUME TabsInit PROVE TabsIInv
  OBVIOUS
<1>1. /\ tabOrder = <<1>> /\ tabId = 1 /\ nextTabId = 2 /\ view = EmptyTab
      /\ DOMAIN back = {} /\ DOMAIN worker = {} /\ posts = {}
  BY DEF TabsInit
<1>2. Distinct(<<1>>) /\ Names(<<1>>) = {1}
  BY DEF Distinct, Names
<1>3. Coherent(view) /\ view.place = NoPlace /\ view.worker = 0 /\ view.path = NoPath
  BY <1>1, EmptyIsCoherent
<1>4. Served(view, tabId, worker, posts)
  BY <1>3 DEF Served
<1>5. PathsOnce(back) /\ PathsApart(view, back)
  BY <1>1 DEF PathsOnce, PathsApart
<1>6. Kept(State, {tabId} \cup DOMAIN back)
  BY <1>1, <1>2, <1>5, StateFields DEF Kept
<1> QED
  BY <1>1, <1>3, <1>4, <1>5, <1>6, StateFields DEF TabsIInv, Good

LEMMA TabsStep == TabsIInv /\ [TabsNext]_tabVars => TabsIInv'
<1> SUFFICES ASSUME TabsIInv, [TabsNext]_tabVars PROVE TabsIInv'
  OBVIOUS
<1>1. CASE \E p \in Paths, stop \in Stops, outcome \in Outcomes : OpenDocument(p, stop, outcome)
  BY <1>1, OpenStep
<1>2. CASE \E stop \in Stops : QueueAgain(stop)
  BY <1>2, AgainStep
<1>3. CASE \E id \in TabIds : RequestClose(id) \/ Emit(id) \/ WorkerReady(id)
  BY <1>3, RequestStep, EmitStep, ReadyStep
<1>4. CASE \E id \in TabIds, outcome \in Outcomes : ActivateTab(id, outcome) \/ CloseTab(id, outcome)
  BY <1>4, ActivateStep, CloseStep
<1>5. CASE GoToRow
  BY <1>5, GoToStep
<1>6. CASE UNCHANGED tabVars
  BY <1>6, Facts, InPlace DEF tabVars
<1> QED
  BY <1>1, <1>2, <1>3, <1>4, <1>5, <1>6 DEF TabsNext

\* A tab of the strip is the one that is shown or one that is put away.
LEMMA OpenTabsAre ==
    ASSUME TabsIInv
    PROVE  /\ DOMAIN OpenTabs = {tabId} \cup DOMAIN back
           /\ OpenTabs[tabId] = view
           /\ \A k \in DOMAIN back : OpenTabs[k] = back[k]
<1>1. Range(tabOrder) = Names(tabOrder)
  BY Facts DEF Range, Names, Distinct
<1> QED
  BY <1>1, Facts DEF OpenTabs

\* The rows of a tab are those of its file, its sheet and its order; an event that
\* waits has a message that finds its tab; and no file is open twice (native.rs:
\* open_document, restore_tab, close_tab, apply_worker_event).
THEOREM TabsNeverMix == TabsSpec => []TabsStayApart
<1>1. TabsIInv => TabsStayApart
  <2> SUFFICES ASSUME TabsIInv, NEW id \in DOMAIN OpenTabs
               PROVE  LET t == OpenTabs[id] IN
                      /\ t.rows # NoRows =>
                            t.rows = [path |-> t.path, serial |-> t.serial, order |-> t.order]
                      /\ t.worker # 0 =>
                            /\ t.worker \in DOMAIN worker
                            /\ worker[t.worker].event # NoEvent => <<"ready", id>> \in posts
                      /\ \A other \in DOMAIN OpenTabs \ {id} :
                            t.path # NoPath => OpenTabs[other].path # t.path
    BY DEF TabsStayApart
  <2>1. Coherent(OpenTabs[id]) /\ Served(OpenTabs[id], id, worker, posts)
    BY Facts, OpenTabsAre
  <2>2. ASSUME NEW other \in DOMAIN OpenTabs \ {id}, OpenTabs[id].path # NoPath
        PROVE  OpenTabs[other].path # OpenTabs[id].path
    BY <2>2, Facts, OpenTabsAre DEF PathsOnce, PathsApart
  <2> QED
    BY <2>1, <2>2 DEF Coherent, Served
<1> QED
  BY <1>1, InitTabs, TabsStep, PTL DEF TabsSpec

\* A rank that a tab keeps, to reveal it or to return to it, is one of the order
\* that its rows are in (native.rs: stash_active, restore_tab,
\* apply_document_event).
THEOREM PlacesKeepTheirOrder == TabsSpec => []PlacesFollowTheOrder
<1>1. TabsIInv => PlacesFollowTheOrder
  <2> SUFFICES ASSUME TabsIInv, NEW id \in DOMAIN OpenTabs
               PROVE  {OpenTabs[id].pending, OpenTabs[id].place}
                         \subseteq {NoPlace, OpenTabs[id].order}
    BY DEF PlacesFollowTheOrder
  <2>1. Coherent(OpenTabs[id])
    BY Facts, OpenTabsAre
  <2> QED
    BY <2>1 DEF Coherent
<1> QED
  BY <1>1, InitTabs, TabsStep, PTL DEF TabsSpec
=============================================================================
