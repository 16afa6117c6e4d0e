------------------------------ MODULE ListProofs ------------------------------
(***************************************************************************)
(* For every number of places in memory and every limit of a list: the     *)
(* pointers of list.c stay well linked while nodes are added and removed   *)
(* during a loop, the loop misses no node, and the list implements the     *)
(* sequence with a cursor of module Iteration.                             *)
(***************************************************************************)
EXTENDS List, SequenceTheorems, TLAPS

\* The node at a place of the order; behind the last one there is none.
NodeAt(i) == IF i = count + 1 THEN NoNode ELSE order[i]

\* The fields of list_t fit the order.
Chain ==
    /\ Len(order) = count
    /\ \A i, j \in 1..count : order[i] = order[j] => i = j
    /\ head = NodeAt(1)
    /\ last = (IF count = 0 THEN NoNode ELSE order[count])

\* The cursor is at place c: what is due lies there or behind, what has been seen
\* lies before.
CursorAt(c) ==
    /\ c \in 1..(count + 1)
    /\ current = NodeAt(c)
    /\ due \subseteq {order[i] : i \in c..count}
    /\ seen \subseteq {order[i] : i \in 1..(c - 1)}

LinksFrom(j) == \A i \in j..count : next[order[i]] = NodeAt(i + 1)
BackLinks == \A i \in 1..count : prev[order[i]] = (IF i = 1 THEN NoNode ELSE order[i - 1])

\* The destruction has reached place j.
DoomedAt(j) ==
    /\ j \in 1..(count + 1)
    /\ doomed = NodeAt(j)
    /\ LinksFrom(j)
    /\ \A i \in 1..(j - 1) : next[order[i]] = Gone

FreeIsGone == \A n \in Nodes \ Listed : next[n] = Gone

IInv ==
    /\ ListTypeOK
    /\ Chain
    /\ \E c \in Nat : CursorAt(c)
    /\ FreeIsGone
    /\ InUse => LinksFrom(1) /\ BackLinks
    /\ ~InUse => \E j \in Nat : DoomedAt(j)

-----------------------------------------------------------------------------
(* Sequences.                                                              *)

LEMMA WithoutProperties ==
    ASSUME NEW S, NEW s \in Seq(S), NEW k \in 1..Len(s)
    PROVE  /\ Without(s, k) \in Seq(S)
           /\ Len(Without(s, k)) = Len(s) - 1
           /\ \A i \in 1..(Len(s) - 1) : Without(s, k)[i] = IF i < k THEN s[i] ELSE s[i + 1]
  <1> DEFINE w == Without(s, k)
             m == Len(s) - 1
  <1>1. Len(s) \in Nat /\ m \in Nat /\ s \in [1..Len(s) -> S]
    OBVIOUS
  <1>2. w \in [1..m -> S]
    BY <1>1 DEF Without
  <1>3. w \in Seq(S)
    BY <1>1, <1>2, SeqDef
  <1> QED  BY <1>1, <1>2, <1>3 DEF Without

LEMMA ListedIs ==
    ASSUME ListTypeOK, Chain
    PROVE  /\ count \in Nat /\ order \in Seq(Nodes) /\ Len(order) = count
           /\ DOMAIN order = 1..count
           /\ \A i \in 1..count : order[i] \in Nodes
           /\ Listed = {order[i] : i \in 1..count}
           /\ Listed \subseteq Nodes
  BY ListAssumptions DEF ListTypeOK, Chain, Listed

-----------------------------------------------------------------------------
(* What each operation does to the invariant, and to the place of the      *)
(* cursor.                                                                 *)

LEMMA AddKeeps ==
    ASSUME IInv, NEW n \in Nodes, Add(n), NEW c \in Nat, CursorAt(c)
    PROVE  /\ ListTypeOK' /\ Chain' /\ FreeIsGone' /\ InUse'
           /\ LinksFrom(1)' /\ BackLinks'
           /\ count' = count + 1
           /\ IF count = 0 \/ c <= count THEN CursorAt(c)' ELSE CursorAt(c + 1)'
  <1> USE DEF IInv
  <1>0. /\ InUse /\ count < MaxCount /\ n \notin Listed
        /\ last' = n /\ count' = count + 1 /\ order' = Append(order, n)
        /\ prev' = [prev EXCEPT ![n] = last]
        /\ doomed' = doomed /\ found' = found
    BY DEF Add
  <1>1. /\ count \in Nat /\ order \in Seq(Nodes) /\ Len(order) = count
        /\ \A i \in 1..count : order[i] \in Nodes
        /\ Listed = {order[i] : i \in 1..count}
    BY ListedIs
  <1>2. /\ order' \in Seq(Nodes) /\ Len(order') = count'
        /\ DOMAIN order' = 1..count'
        /\ \A i \in 1..count : order'[i] = order[i] /\ order[i] # n
        /\ order'[count'] = n
    BY <1>0, <1>1
  <1>3. Listed' = Listed \cup {n} /\ InUse'
    BY <1>0, <1>1, <1>2 DEF Listed, InUse
  <1>4. /\ next \in [Nodes -> Places] /\ prev \in [Nodes -> Places]
        /\ count' \in 0..MaxCount
        /\ \A i, j \in 1..count : order[i] = order[j] => i = j
    BY <1>0, <1>1, ListAssumptions DEF ListTypeOK, Chain
  <1>5. \A i, j \in 1..count' : order'[i] = order'[j] => i = j
    BY <1>0, <1>1, <1>2, <1>4
  <1>6. CASE count = 0
    <2>1. /\ next' = [next EXCEPT ![n] = NoNode]
          /\ head' = n /\ current' = n /\ due' = {n} /\ seen' = {}
      BY <1>0, <1>6 DEF Add
    <2>2. last = NoNode /\ c = 1
      BY <1>6 DEF Chain, CursorAt
    <2>3. Chain'
      BY <1>0, <1>2, <1>5, <1>6, <2>1 DEF Chain, NodeAt
    <2>4. LinksFrom(1)' /\ BackLinks'
      BY <1>0, <1>1, <1>2, <1>4, <1>6, <2>1, <2>2 DEF LinksFrom, BackLinks, NodeAt
    <2>5. CursorAt(c)'
      BY <1>0, <1>2, <1>6, <2>1, <2>2 DEF CursorAt, NodeAt
    <2>6. ListTypeOK'
      BY <1>0, <1>2, <1>3, <1>4, <2>1, <2>2 DEF ListTypeOK, Places, InUse
    <2>7. FreeIsGone'
      BY <1>3, <1>4, <2>1 DEF FreeIsGone
    <2> QED  BY <1>0, <1>3, <1>6, <2>3, <2>4, <2>5, <2>6, <2>7
  <1>7. CASE count # 0
    <2>1. /\ next' = [next EXCEPT ![n] = NoNode, ![last] = n]
          /\ head' = head /\ current' = current /\ due' = due /\ seen' = seen
      BY <1>0, <1>7 DEF Add
    <2>2. last = order[count] /\ last \in Nodes /\ last # n /\ head = order[1]
      BY <1>1, <1>2, <1>7 DEF Chain, NodeAt
    <2>3. Chain'
      BY <1>0, <1>1, <1>2, <1>5, <1>7, <2>1, <2>2 DEF Chain, NodeAt
    <2>4. LinksFrom(1)'
      <3>1. \A i \in 1..(count - 1) : next'[order'[i]] = order'[i + 1]
        <4> SUFFICES ASSUME NEW i \in 1..(count - 1)  PROVE next'[order'[i]] = order'[i + 1]
          OBVIOUS
        <4>1. order[i] # last /\ order[i] # n /\ order[i] \in Nodes
          BY <1>1, <1>2, <1>4, <2>2
        <4>2. next[order[i]] = order[i + 1]
          BY <1>0, <1>1 DEF LinksFrom, NodeAt
        <4> QED  BY <1>1, <1>2, <1>4, <2>1, <4>1, <4>2
      <3>2. next'[order'[count]] = order'[count + 1]
        BY <1>0, <1>1, <1>2, <1>4, <1>7, <2>1, <2>2
      <3>3. next'[order'[count + 1]] = NoNode
        BY <1>0, <1>2, <1>4, <2>1, <2>2
      <3>4. ASSUME NEW i \in 1..count'
            PROVE  next'[order'[i]] = IF i + 1 = count' + 1 THEN NoNode ELSE order'[i + 1]
        <4>1. i \in 1..(count - 1) \/ i = count \/ i = count + 1
          BY <1>0, <1>1
        <4> QED  BY <1>0, <1>1, <1>7, <3>1, <3>2, <3>3, <4>1
      <3> QED  BY <3>4 DEF LinksFrom, NodeAt
    <2>5. BackLinks'
      BY <1>0, <1>1, <1>2, <1>4, <1>7, <2>2 DEF BackLinks
    <2>6. IF c <= count THEN CursorAt(c)' ELSE CursorAt(c + 1)'
      BY <1>0, <1>1, <1>2, <1>7, <2>1 DEF CursorAt, NodeAt
    <2>7. ListTypeOK'
      BY <1>0, <1>2, <1>3, <1>4, <2>1, <2>2 DEF ListTypeOK, Places, InUse
    <2>8. FreeIsGone'
      <3>1. \A m \in Nodes \ Listed' : m # n /\ m # last
        BY <1>1, <1>3, <1>7, <2>2
      <3> QED  BY <1>3, <1>4, <2>1, <3>1 DEF FreeIsGone
    <2> QED  BY <1>0, <1>3, <1>7, <2>3, <2>4, <2>5, <2>6, <2>7, <2>8
  <1> QED  BY <1>6, <1>7

LEMMA RemoveKeeps ==
    ASSUME IInv, NEW k \in DOMAIN order, Remove(k), NEW c \in Nat, CursorAt(c)
    PROVE  /\ ListTypeOK' /\ Chain' /\ FreeIsGone' /\ InUse'
           /\ LinksFrom(1)' /\ BackLinks'
           /\ count' = count - 1
           /\ IF k < c THEN CursorAt(c - 1)' ELSE CursorAt(c)'
  <1> DEFINE n == order[k]
  <1> USE DEF IInv
  <1>0. /\ InUse /\ count > 0
        /\ next' = Unlinked(next, prev[n], next[n], n)
        /\ prev' = Unlinked(prev, next[n], prev[n], n)
        /\ head' = Instead(head, n, next[n])
        /\ last' = Instead(last, n, prev[n])
        /\ current' = Instead(current, n, next[n])
        /\ count' = count - 1 /\ order' = Without(order, k)
        /\ due' = due \ {n} /\ seen' = seen \ {n}
        /\ doomed' = doomed /\ found' = found
    BY DEF Remove
  <1>1. /\ count \in Nat /\ order \in Seq(Nodes) /\ Len(order) = count
        /\ k \in 1..count
        /\ \A i \in 1..count : order[i] \in Nodes
        /\ Listed = {order[i] : i \in 1..count}
        /\ NoNode \notin Nodes /\ Gone \notin Nodes
    BY ListedIs, ListAssumptions
  <1>2. /\ order' \in Seq(Nodes) /\ Len(order') = count - 1
        /\ DOMAIN order' = 1..(count - 1)
        /\ \A i \in 1..(count - 1) : order'[i] = IF i < k THEN order[i] ELSE order[i + 1]
    <2>1. k \in 1..Len(order)
      BY <1>1
    <2>2. /\ Without(order, k) \in Seq(Nodes)
          /\ Len(Without(order, k)) = Len(order) - 1
          /\ \A i \in 1..(Len(order) - 1) : Without(order, k)[i] = IF i < k THEN order[i] ELSE order[i + 1]
      BY <1>1, <2>1, WithoutProperties
    <2>3. order' \in Seq(Nodes) /\ Len(order') = count - 1
      BY <1>0, <1>1, <2>2
    <2>4. DOMAIN order' = 1..(count - 1)
      BY <2>3
    <2> QED  BY <1>0, <1>1, <2>2, <2>3, <2>4
  <1>3. /\ next \in [Nodes -> Places] /\ prev \in [Nodes -> Places]
        /\ \A i, j \in 1..count : order[i] = order[j] => i = j
        /\ n \in Nodes
    <2>1. next \in [Nodes -> Places] /\ prev \in [Nodes -> Places]
      BY DEF ListTypeOK
    <2>2. \A i, j \in 1..count : order[i] = order[j] => i = j
      BY DEF Chain
    <2> QED  BY <1>1, <2>1, <2>2
  <1>a. \A i \in 1..(count - 1) :
            \E j \in 1..count : j = (IF i < k THEN i ELSE i + 1) /\ j # k /\ order'[i] = order[j]
    BY <1>1, <1>2
  <1>b. \A i \in 1..(count - 1) : order'[i] \in Nodes /\ order'[i] # n
    BY <1>1, <1>3, <1>a
  <1>4. Listed' = Listed \ {n} /\ InUse'
    <2>1. \A i \in 1..(count - 1) : order'[i] \in Listed \ {n}
      BY <1>1, <1>a, <1>b
    <2>2. \A i \in 1..count : i < k => order[i] = order'[i] /\ i \in 1..(count - 1)
      BY <1>1, <1>2
    <2>3. \A i \in 1..count : i > k => order[i] = order'[i - 1] /\ i - 1 \in 1..(count - 1)
      BY <1>1, <1>2
    <2>4. Listed' = {order'[i] : i \in 1..(count - 1)}
      BY <1>2 DEF Listed
    <2>5. \A m \in Listed \ {n} : m \in Listed'
      BY <1>1, <2>2, <2>3, <2>4
    <2> QED  BY <1>0, <2>1, <2>4, <2>5 DEF InUse
  <1>5. /\ next[n] = NodeAt(k + 1)
        /\ prev[n] = (IF k = 1 THEN NoNode ELSE order[k - 1])
    BY <1>0, <1>1 DEF LinksFrom, BackLinks
  <1>6. next' \in [Nodes -> Places] /\ prev' \in [Nodes -> Places]
    BY <1>0, <1>3 DEF Unlinked, Places
  <1>7. \A i, j \in 1..count' : order'[i] = order'[j] => i = j
    BY <1>0, <1>1, <1>3, <1>a
  <1>8. Chain'
    <2>1. head' = NodeAt(1)'
      <3>1. head = order[1]
        BY <1>0, <1>1 DEF Chain, NodeAt
      <3>2. CASE k = 1
        BY <1>0, <1>1, <1>2, <1>5, <3>1, <3>2 DEF NodeAt, Instead
      <3>3. CASE k # 1
        <4>1. order[1] # n /\ 1 \in 1..(count - 1)
          BY <1>0, <1>1, <1>3, <3>3
        <4> QED  BY <1>0, <1>1, <1>2, <3>1, <3>3, <4>1 DEF NodeAt, Instead
      <3> QED  BY <3>2, <3>3
    <2>2. last' = (IF count' = 0 THEN NoNode ELSE order'[count'])
      BY <1>0, <1>1, <1>2, <1>3, <1>5 DEF Chain, NodeAt, Instead
    <2> QED  BY <1>0, <1>2, <1>7, <2>1, <2>2 DEF Chain
  <1>9. LinksFrom(1)'
    <2> SUFFICES ASSUME NEW i \in 1..(count - 1)
                 PROVE  next'[order'[i]] = IF i = count - 1 THEN NoNode ELSE order'[i + 1]
      BY <1>0, <1>1 DEF LinksFrom, NodeAt
    <2>1. order'[i] \in Nodes /\ order'[i] # n
      BY <1>b
    <2>2. next'[order'[i]] = IF order'[i] = prev[n] THEN next[n] ELSE next[order'[i]]
      BY <1>0, <2>1 DEF Unlinked
    <2>3. CASE i < k - 1
      <3>1. order'[i] = order[i] /\ order'[i + 1] = order[i + 1] /\ prev[n] # order[i]
        BY <1>1, <1>2, <1>3, <1>5, <2>3
      <3>2. next[order[i]] = order[i + 1] /\ i # count - 1
        BY <1>0, <1>1, <2>3 DEF LinksFrom, NodeAt
      <3> QED  BY <2>2, <3>1, <3>2
    <2>4. CASE i = k - 1
      <3>1. order'[i] = order[k - 1] /\ prev[n] = order[k - 1]
        BY <1>1, <1>2, <1>5, <2>4
      <3>2. next[n] = IF i = count - 1 THEN NoNode ELSE order'[i + 1]
        BY <1>1, <1>2, <1>5, <2>4 DEF NodeAt
      <3> QED  BY <2>2, <3>1, <3>2
    <2>5. CASE i >= k
      <3>1. order'[i] = order[i + 1] /\ prev[n] # order[i + 1]
        BY <1>1, <1>2, <1>3, <1>5, <2>5
      <3>2. next[order[i + 1]] = NodeAt(i + 2)
        BY <1>0, <1>1 DEF LinksFrom
      <3>3. NodeAt(i + 2) = IF i = count - 1 THEN NoNode ELSE order'[i + 1]
        BY <1>1, <1>2, <2>5 DEF NodeAt
      <3> QED  BY <2>2, <3>1, <3>2, <3>3
    <2> QED  BY <1>1, <2>3, <2>4, <2>5
  <1>10. BackLinks'
    <2> SUFFICES ASSUME NEW i \in 1..(count - 1)
                 PROVE  prev'[order'[i]] = IF i = 1 THEN NoNode ELSE order'[i - 1]
      BY <1>0 DEF BackLinks
    <2>1. order'[i] \in Nodes /\ order'[i] # n
      BY <1>b
    <2>2. prev'[order'[i]] = IF order'[i] = next[n] THEN prev[n] ELSE prev[order'[i]]
      BY <1>0, <2>1 DEF Unlinked
    <2>3. CASE i < k
      <3>1. order'[i] = order[i] /\ next[n] # order[i]
        BY <1>1, <1>2, <1>3, <1>5, <2>3 DEF NodeAt
      <3>2. prev[order[i]] = IF i = 1 THEN NoNode ELSE order[i - 1]
        BY <1>0, <1>1 DEF BackLinks
      <3>3. i # 1 => order'[i - 1] = order[i - 1]
        BY <1>1, <1>2, <2>3
      <3> QED  BY <2>2, <3>1, <3>2, <3>3
    <2>4. CASE i = k
      <3>1. order'[i] = order[k + 1] /\ next[n] = order[k + 1]
        BY <1>1, <1>2, <1>5, <2>4 DEF NodeAt
      <3>2. prev[n] = IF i = 1 THEN NoNode ELSE order'[i - 1]
        BY <1>1, <1>2, <1>5, <2>4
      <3> QED  BY <2>2, <3>1, <3>2
    <2>5. CASE i > k
      <3>1. order'[i] = order[i + 1] /\ next[n] # order[i + 1]
        BY <1>1, <1>2, <1>3, <1>5, <2>5 DEF NodeAt
      <3>2. prev[order[i + 1]] = order[i]
        BY <1>0, <1>1, <2>5 DEF BackLinks
      <3>3. order'[i - 1] = order[i] /\ i # 1
        BY <1>1, <1>2, <2>5
      <3> QED  BY <2>2, <3>1, <3>2, <3>3
    <2> QED  BY <1>1, <2>3, <2>4, <2>5
  <1>11. IF k < c THEN CursorAt(c - 1)' ELSE CursorAt(c)'
    <2>0. /\ c \in 1..(count + 1) /\ current = NodeAt(c)
          /\ due \subseteq {order[i] : i \in c..count}
          /\ seen \subseteq {order[i] : i \in 1..(c - 1)}
      BY DEF CursorAt
    <2>1. CASE k < c
      <3>1. c - 1 \in 1..(count' + 1) /\ current' = NodeAt(c - 1)'
        BY <1>0, <1>1, <1>2, <1>3, <2>0, <2>1 DEF NodeAt, Instead
      <3>2. due' \subseteq {order'[i] : i \in (c - 1)..count'}
        <4>1. \A i \in c..count : order[i] = order'[i - 1] /\ i - 1 \in (c - 1)..count'
          BY <1>0, <1>1, <1>2, <2>0, <2>1
        <4> QED  BY <1>0, <2>0, <4>1
      <3>3. seen' \subseteq {order'[i] : i \in 1..((c - 1) - 1)}
        <4>1. \A i \in 1..(c - 1) : i < k => order[i] = order'[i] /\ i \in 1..((c - 1) - 1)
          BY <1>1, <1>2, <2>0, <2>1
        <4>2. ASSUME NEW i \in 1..(c - 1), i > k
              PROVE  order[i] = order'[i - 1] /\ i - 1 \in 1..((c - 1) - 1)
          <5>1. i - 1 \in 1..(count - 1) /\ i - 1 >= k /\ (i - 1) + 1 = i
            BY <1>1, <2>0, <4>2
          <5> QED  BY <1>2, <5>1
        <4>3. \A i \in 1..(c - 1) : i < k \/ i > k \/ order[i] = n
          BY <1>1
        <4> QED  BY <1>0, <2>0, <4>1, <4>2, <4>3
      <3> QED  BY <2>1, <3>1, <3>2, <3>3 DEF CursorAt
    <2>2. CASE k >= c
      <3>1. c \in 1..(count' + 1) /\ current' = NodeAt(c)'
        BY <1>0, <1>1, <1>2, <1>3, <1>5, <2>0, <2>2 DEF NodeAt, Instead
      <3>2. due' \subseteq {order'[i] : i \in c..count'}
        <4>1. \A i \in c..count : i < k => order[i] = order'[i] /\ i \in c..count'
          BY <1>0, <1>1, <1>2, <2>0, <2>2
        <4>2. \A i \in c..count : i > k => order[i] = order'[i - 1] /\ i - 1 \in c..count'
          BY <1>0, <1>1, <1>2, <2>0, <2>2
        <4>3. \A i \in c..count : i < k \/ i > k \/ order[i] = n
          BY <1>1, <2>0
        <4> QED  BY <1>0, <2>0, <4>1, <4>2, <4>3
      <3>3. seen' \subseteq {order'[i] : i \in 1..(c - 1)}
        <4>1. \A i \in 1..(c - 1) : order[i] = order'[i]
          BY <1>1, <1>2, <2>0, <2>2
        <4> QED  BY <1>0, <2>0, <4>1
      <3> QED  BY <1>1, <2>0, <2>2, <3>1, <3>2, <3>3 DEF CursorAt
    <2> QED  BY <1>1, <2>0, <2>1, <2>2
  <1>12. ListTypeOK'
    <2>1. {head', last', current', found'} \subseteq Nodes \cup {NoNode}
      BY <1>0, <1>1, <1>5 DEF ListTypeOK, Instead, NodeAt
    <2>2. due' \subseteq Listed' /\ seen' \subseteq Listed'
      BY <1>0, <1>4 DEF ListTypeOK
    <2> QED  BY <1>0, <1>1, <1>2, <1>6, <2>1, <2>2, ListAssumptions DEF ListTypeOK
  <1>13. FreeIsGone'
    <2> SUFFICES ASSUME NEW m \in Nodes \ Listed'  PROVE next'[m] = Gone
      BY DEF FreeIsGone
    <2>1. CASE m = n
      BY <1>0, <1>3, <2>1 DEF Unlinked
    <2>2. CASE m # n
      <3>1. m \notin Listed /\ next[m] = Gone
        BY <1>4, <2>2 DEF FreeIsGone
      <3>2. prev[n] # m
        BY <1>1, <1>5, <3>1
      <3> QED  BY <1>0, <2>2, <3>1, <3>2 DEF Unlinked
    <2> QED  BY <2>1, <2>2
  <1> QED  BY <1>0, <1>4, <1>8, <1>9, <1>10, <1>11, <1>12, <1>13

\* What an operation does that changes neither the nodes nor their pointers.
LEMMA CursorMoves ==
    ASSUME IInv, InUse,
           UNCHANGED <<next, prev, head, last, count, doomed, order>>,
           found' \in Nodes \cup {NoNode}, NEW d \in Nat, CursorAt(d)'
    PROVE  IInv'
  <1> USE DEF IInv
  <1>1. /\ count \in Nat /\ order \in Seq(Nodes) /\ Len(order) = count
        /\ \A i \in 1..count : order[i] \in Nodes
        /\ Listed = {order[i] : i \in 1..count}
    BY ListedIs
  <1>2. Listed' = Listed /\ InUse'
    BY DEF Listed, InUse
  <1>3. Chain' /\ FreeIsGone' /\ LinksFrom(1)' /\ BackLinks'
    BY <1>2 DEF Chain, FreeIsGone, LinksFrom, BackLinks, NodeAt
  <1>4. current' \in Nodes \cup {NoNode} /\ due' \subseteq Listed' /\ seen' \subseteq Listed'
    <2>1. /\ d \in 1..(count + 1)
          /\ current' = IF d = count + 1 THEN NoNode ELSE order[d]
          /\ due' \subseteq {order[i] : i \in d..count}
          /\ seen' \subseteq {order[i] : i \in 1..(d - 1)}
      BY DEF CursorAt, NodeAt
    <2> QED  BY <1>1, <1>2, <2>1
  <1>5. ListTypeOK'
    BY <1>2, <1>4 DEF ListTypeOK
  <1> QED  BY <1>2, <1>3, <1>5

LEMMA NextNodeMoves ==
    ASSUME IInv, ListNextNode, NEW c \in Nat, CursorAt(c)
    PROVE  /\ IInv'
           /\ c <= count /\ current = order[c] /\ current \notin seen
           /\ CursorAt(c + 1)'
  <1> USE DEF IInv
  <1>0. /\ InUse /\ current # NoNode
        /\ found' = current /\ current' = next[current]
        /\ due' = due \ {current} /\ seen' = seen \cup {current}
        /\ UNCHANGED <<next, prev, head, last, count, doomed, order>>
    BY DEF ListNextNode
  <1>1. /\ count \in Nat /\ \A i \in 1..count : order[i] \in Nodes
    BY ListedIs
  <1>2. /\ c \in 1..count /\ current = order[c]
        /\ due \subseteq {order[i] : i \in c..count}
        /\ seen \subseteq {order[i] : i \in 1..(c - 1)}
    BY <1>0, <1>1 DEF CursorAt, NodeAt
  <1>3. next[current] = IF c + 1 = count + 1 THEN NoNode ELSE order[c + 1]
    BY <1>0, <1>1, <1>2 DEF LinksFrom, NodeAt
  <1>4. \A i \in 1..count : order[i] = order[c] => i = c
    BY <1>2 DEF Chain
  <1>5. current \notin seen
    BY <1>1, <1>2, <1>4
  <1>6. due' \subseteq {order[i] : i \in (c + 1)..count}
    <2>1. \A i \in c..count : i = c \/ i \in (c + 1)..count
      BY <1>1, <1>2
    <2> QED  BY <1>0, <1>2, <2>1
  <1>7. seen' \subseteq {order[i] : i \in 1..c}
    <2>1. c \in 1..c /\ 1..(c - 1) \subseteq 1..c
      BY <1>2
    <2> QED  BY <1>0, <1>2, <2>1
  <1>8. CursorAt(c + 1)'
    BY <1>0, <1>1, <1>2, <1>3, <1>6, <1>7 DEF CursorAt, NodeAt
  <1>9. IInv'
    BY <1>0, <1>1, <1>2, <1>8, CursorMoves
  <1> QED  BY <1>2, <1>5, <1>8, <1>9

\* The cursor goes back to the first node, and everything is due.
LEMMA RewindMoves ==
    ASSUME IInv, InUse, current' = head, due' = Listed, seen' = {},
           UNCHANGED <<next, prev, head, last, count, doomed, order>>,
           found' \in Nodes \cup {NoNode}
    PROVE  IInv' /\ CursorAt(1)'
  <1>1. count \in Nat /\ Listed = {order[i] : i \in 1..count}
    BY ListedIs DEF IInv
  <1>2. CursorAt(1)'
    BY <1>1 DEF IInv, Chain, CursorAt, NodeAt
  <1> QED  BY <1>2, CursorMoves

LEMMA DestroyKeeps ==
    ASSUME IInv, DestroyBegins \/ DestroyFrees
    PROVE  IInv' /\ UNCHANGED <<order, current, found>>
  <1> USE DEF IInv
  <1>1. /\ count \in Nat /\ order \in Seq(Nodes) /\ Len(order) = count
        /\ \A i \in 1..count : order[i] \in Nodes
        /\ Listed = {order[i] : i \in 1..count}
        /\ NoNode \notin Nodes /\ Gone \notin Nodes /\ NoNode # Gone
        /\ \A i, j \in 1..count : order[i] = order[j] => i = j
    BY ListedIs, ListAssumptions DEF Chain
  <1>2. CASE DestroyBegins
    <2>1. /\ InUse /\ doomed' = head
          /\ UNCHANGED <<next, prev, head, last, current, count, found, order, due, seen>>
      BY <1>2 DEF DestroyBegins, pointers
    <2>2. head = NodeAt(1) /\ head \in Nodes \cup {NoNode}
      BY DEF Chain, ListTypeOK
    <2>3. DoomedAt(1)' /\ ~InUse'
      BY <1>1, <2>1, <2>2 DEF DoomedAt, LinksFrom, NodeAt, InUse
    <2>4. ListTypeOK' /\ Chain' /\ FreeIsGone'
      BY <2>1, <2>2 DEF ListTypeOK, Listed, Places, Chain, FreeIsGone, NodeAt
    <2>5. \E c \in Nat : CursorAt(c)'
      BY <2>1 DEF CursorAt, NodeAt
    <2> QED  BY <2>1, <2>3, <2>4, <2>5
  <1>3. CASE DestroyFrees
    <2>1. /\ doomed \in Nodes /\ doomed' = next[doomed]
          /\ next' = [next EXCEPT ![doomed] = Gone] /\ prev' = [prev EXCEPT ![doomed] = Gone]
          /\ UNCHANGED <<head, last, current, count, found, order, due, seen>>
      BY <1>3 DEF DestroyFrees
    <2>2. ~InUse /\ next \in [Nodes -> Places] /\ prev \in [Nodes -> Places]
      BY <1>1, <2>1 DEF InUse, ListTypeOK
    <2>3. PICK j \in Nat : DoomedAt(j)
      BY <2>2
    <2>4. j \in 1..count /\ doomed = order[j]
      BY <1>1, <2>1, <2>3 DEF DoomedAt, NodeAt
    <2>5. doomed' = IF j + 1 = count + 1 THEN NoNode ELSE order[j + 1]
      BY <1>1, <2>1, <2>3, <2>4 DEF DoomedAt, LinksFrom, NodeAt
    <2>6. \A i \in 1..count : i # j => next'[order[i]] = next[order[i]]
      BY <1>1, <2>1, <2>2, <2>4
    <2>7. next'[order[j]] = Gone
      BY <2>1, <2>2, <2>4
    <2>8. \A i \in (j + 1)..count : next'[order[i]] = NodeAt(i + 1)
      <3>1. \A i \in (j + 1)..count : i \in j..count /\ i \in 1..count /\ i # j
        BY <1>1, <2>4
      <3> QED  BY <2>3, <2>6, <3>1 DEF DoomedAt, LinksFrom
    <2>9. \A i \in 1..j : next'[order[i]] = Gone
      <3>1. \A i \in 1..j : i = j \/ (i \in 1..(j - 1) /\ i \in 1..count /\ i # j)
        BY <1>1, <2>4
      <3> QED  BY <2>3, <2>6, <2>7, <3>1 DEF DoomedAt
    <2>10. DoomedAt(j + 1)' /\ ~InUse'
      <3>1. ~InUse'
        BY <1>1, <2>4, <2>5 DEF InUse
      <3>2. j + 1 \in 1..(count + 1) /\ (j + 1) - 1 = j
        BY <1>1, <2>4
      <3> QED  BY <2>1, <2>5, <2>8, <2>9, <3>1, <3>2 DEF DoomedAt, LinksFrom, NodeAt
    <2>11. ListTypeOK' /\ Chain' /\ FreeIsGone'
      <3>1. next' \in [Nodes -> Places] /\ prev' \in [Nodes -> Places] /\ doomed' \in Places
        BY <2>1, <2>2 DEF Places
      <3>2. Chain' /\ FreeIsGone'
        BY <2>1, <2>2 DEF Listed, Chain, FreeIsGone, NodeAt
      <3> QED  BY <2>1, <3>1, <3>2 DEF ListTypeOK, Listed
    <2>12. \E c \in Nat : CursorAt(c)'
      BY <2>1 DEF CursorAt, NodeAt
    <2>13. j + 1 \in Nat
      OBVIOUS
    <2> QED  BY <2>1, <2>10, <2>11, <2>12, <2>13
  <1> QED  BY <1>2, <1>3

LEMMA DestroyEndKeeps ==
    ASSUME IInv, DestroyEnds
    PROVE  IInv' /\ CursorAt(1)' /\ order' = << >> /\ current' = NoNode
  <1> USE DEF IInv
  <1>1. /\ doomed = NoNode /\ doomed' = Gone
        /\ head' = NoNode /\ last' = NoNode /\ current' = NoNode /\ count' = 0
        /\ order' = << >> /\ due' = {} /\ seen' = {}
        /\ UNCHANGED <<next, prev, found>>
    BY DEF DestroyEnds
  <1>2. /\ count \in Nat /\ \A i \in 1..count : order[i] \in Nodes
        /\ Listed = {order[i] : i \in 1..count}
        /\ NoNode \notin Nodes /\ NoNode # Gone
    BY ListedIs, ListAssumptions
  <1>3. ~InUse
    BY <1>1, <1>2 DEF InUse
  <1>4. PICK j \in Nat : DoomedAt(j)
    BY <1>3
  <1>5. j = count + 1
    BY <1>1, <1>2, <1>4 DEF DoomedAt, NodeAt
  <1>6. \A n \in Nodes : next[n] = Gone
    <2>1. \A i \in 1..count : next[order[i]] = Gone
      BY <1>2, <1>4, <1>5 DEF DoomedAt
    <2>2. \A n \in Nodes : n \in Listed \/ next[n] = Gone
      BY DEF FreeIsGone
    <2> QED  BY <1>2, <2>1, <2>2
  <1>7. Listed' = {} /\ InUse'
    BY <1>1 DEF Listed, InUse
  <1>8. ListTypeOK'
    BY <1>1, <1>7, ListAssumptions DEF ListTypeOK, Places
  <1>9. Chain' /\ CursorAt(1)' /\ LinksFrom(1)' /\ BackLinks' /\ FreeIsGone'
    BY <1>1, <1>6 DEF Chain, CursorAt, LinksFrom, BackLinks, FreeIsGone, NodeAt
  <1> QED  BY <1>1, <1>7, <1>8, <1>9

-----------------------------------------------------------------------------
(* The invariant.                                                          *)

LEMMA IInvInit == ListInit => IInv
  <1> SUFFICES ASSUME ListInit  PROVE IInv
    OBVIOUS
  <1>1. /\ next = [n \in Nodes |-> Gone] /\ prev = next
        /\ head = NoNode /\ last = NoNode /\ current = NoNode /\ count = 0
        /\ doomed = Gone /\ found = NoNode
        /\ order = << >> /\ due = {} /\ seen = {}
    BY DEF ListInit
  <1>2. Listed = {} /\ InUse
    BY <1>1 DEF Listed, InUse
  <1>3. ListTypeOK
    BY <1>1, <1>2, ListAssumptions DEF ListTypeOK, Places
  <1>4. Chain /\ CursorAt(1) /\ LinksFrom(1) /\ BackLinks /\ FreeIsGone
    BY <1>1 DEF Chain, CursorAt, LinksFrom, BackLinks, FreeIsGone, NodeAt
  <1> QED  BY <1>2, <1>3, <1>4 DEF IInv

LEMMA IInvNext == IInv /\ [ListNext]_list_vars => IInv'
  <1> SUFFICES ASSUME IInv, [ListNext]_list_vars  PROVE IInv'
    OBVIOUS
  <1>0. PICK c \in Nat : CursorAt(c)
    BY DEF IInv
  <1>a. c \in 1..(count + 1) /\ found \in Nodes \cup {NoNode}
    BY <1>0 DEF CursorAt, IInv, ListTypeOK
  <1>1. ASSUME NEW n \in Nodes, Add(n)  PROVE IInv'
    BY <1>0, <1>1, AddKeeps DEF IInv
  <1>2. ASSUME NEW k \in DOMAIN order, Remove(k)  PROVE IInv'
    <2>1. k \in 1..count
      BY ListedIs DEF IInv
    <2>2. k < c => c - 1 \in Nat
      BY <1>a, <2>1
    <2> QED  BY <1>0, <1>2, <2>2, RemoveKeeps DEF IInv
  <1>3. CASE ListNextNode
    BY <1>0, <1>3, NextNodeMoves
  <1>4. CASE ListNextEnd
    <2>1. NoNode \in Nodes \cup {NoNode}
      OBVIOUS
    <2> QED  BY <1>4, <2>1, RewindMoves DEF ListNextEnd
  <1>5. CASE Reset
    BY <1>5, <1>a, RewindMoves DEF Reset
  <1>6. CASE DestroyBegins \/ DestroyFrees
    BY <1>6, DestroyKeeps
  <1>7. CASE DestroyEnds
    BY <1>7, DestroyEndKeeps
  <1>8. CASE UNCHANGED list_vars
    BY <1>8 DEF list_vars, pointers, IInv, ListTypeOK, Listed, Chain, CursorAt, FreeIsGone,
                LinksFrom, BackLinks, DoomedAt, NodeAt, InUse
  <1> QED  BY <1>1, <1>2, <1>3, <1>4, <1>5, <1>6, <1>7, <1>8 DEF ListNext

THEOREM ListInvariant == ListSpec => []IInv
  <1> QED  BY IInvInit, IInvNext, PTL DEF ListSpec

\* Types, and a list never has more than MCL_SIZE_MAX nodes.
THEOREM ListIsTyped == ListSpec => []ListTypeOK
  <1>1. IInv => ListTypeOK
    BY DEF IInv
  <1> QED  BY <1>1, ListInvariant, PTL

LEMMA LinkedFromIInv == IInv => ListWellLinked
  <1> SUFFICES ASSUME IInv  PROVE ListWellLinked
    OBVIOUS
  <1> USE DEF IInv
  <1>1. /\ count \in Nat /\ order \in Seq(Nodes) /\ Len(order) = count /\ DOMAIN order = 1..count
        /\ \A i \in 1..count : order[i] \in Nodes
        /\ Listed = {order[i] : i \in 1..count}
        /\ NoNode \notin Nodes /\ Gone \notin Nodes /\ NoNode # Gone
    BY ListedIs, ListAssumptions
  <1>2. ASSUME InUse  PROVE Linked /\ \A n \in Nodes \ Listed : next[n] = Gone
    <2>1. \A i \in 1..count : /\ next[order[i]] = (IF i = count THEN NoNode ELSE order[i + 1])
                              /\ prev[order[i]] = (IF i = 1 THEN NoNode ELSE order[i - 1])
      BY <1>1, <1>2 DEF LinksFrom, BackLinks, NodeAt
    <2>2. current \in Listed \cup {NoNode}
      BY <1>1 DEF CursorAt, NodeAt
    <2>3. /\ head = (IF count = 0 THEN NoNode ELSE order[1])
          /\ last = (IF count = 0 THEN NoNode ELSE order[count])
          /\ \A i, j \in 1..count : order[i] = order[j] => i = j
      BY <1>1 DEF Chain, NodeAt
    <2> QED  BY <1>1, <2>1, <2>2, <2>3 DEF Linked, FreeIsGone
  <1>3. ASSUME ~InUse  PROVE Destroyed
    <2>1. PICK j \in Nat : DoomedAt(j)
      BY <1>3
    <2>2. doomed \in Nodes => next[doomed] # Gone
      BY <1>1, <2>1 DEF DoomedAt, LinksFrom, NodeAt
    <2>3. ASSUME doomed = NoNode  PROVE \A n \in Nodes : next[n] = Gone
      <3>1. j = count + 1
        BY <1>1, <2>1, <2>3 DEF DoomedAt, NodeAt
      <3>2. \A i \in 1..count : next[order[i]] = Gone
        BY <1>1, <2>1, <3>1 DEF DoomedAt
      <3>3. \A n \in Nodes : n \in Listed \/ next[n] = Gone
        BY DEF FreeIsGone
      <3> QED  BY <1>1, <3>2, <3>3
    <2> QED  BY <2>2, <2>3 DEF Destroyed
  <1> QED  BY <1>2, <1>3 DEF ListWellLinked

\* However nodes are added and removed while a loop runs, the pointers lead both
\* ways through exactly the nodes that are in the list, and the destruction of a
\* list frees every node once.
THEOREM ListStaysLinked == ListSpec => []ListWellLinked
  <1> QED  BY LinkedFromIInv, ListInvariant, PTL

\* A loop over a list sees every node that is there from its beginning to its end,
\* and none twice.
THEOREM LoopsSeeEveryItem == ListSpec => EveryItemIsVisited
  <1>1. IInv /\ [ListNext]_list_vars
            => [(ListNextEnd => due = {}) /\ (ListNextNode => current \notin seen)]_list_vars
    <2> SUFFICES ASSUME IInv
                 PROVE  (ListNextEnd => due = {}) /\ (ListNextNode => current \notin seen)
      OBVIOUS
    <2>0. PICK c \in Nat : CursorAt(c)
      BY DEF IInv
    <2>1. ASSUME ListNextEnd  PROVE due = {}
      <3>1. /\ count \in Nat /\ \A i \in 1..count : order[i] \in Nodes
            /\ NoNode \notin Nodes /\ current = NoNode
        BY <2>1, ListedIs, ListAssumptions DEF IInv, ListNextEnd
      <3>2. c = count + 1
        BY <2>0, <3>1 DEF CursorAt, NodeAt
      <3>3. c..count = {}
        BY <3>1, <3>2
      <3> QED  BY <2>0, <3>3 DEF CursorAt
    <2>2. ASSUME ListNextNode  PROVE current \notin seen
      BY <2>0, <2>2, NextNodeMoves
    <2> QED  BY <2>1, <2>2
  <1> QED  BY <1>1, ListInvariant, PTL DEF ListSpec, EveryItemIsVisited

-----------------------------------------------------------------------------
(* The list implements a sequence with a cursor.                           *)

LEMMA AheadIs == IInv => \A c \in Nat : CursorAt(c) => Ahead = count - c + 1
  <1> SUFFICES ASSUME IInv, NEW c \in Nat, CursorAt(c)  PROVE Ahead = count - c + 1
    OBVIOUS
  <1>1. /\ count \in Nat /\ Len(order) = count /\ DOMAIN order = 1..count
        /\ \A i \in 1..count : order[i] \in Nodes
        /\ NoNode \notin Nodes
        /\ \A i, j \in 1..count : order[i] = order[j] => i = j
    BY ListedIs, ListAssumptions DEF IInv, Chain
  <1>2. c \in 1..(count + 1) /\ current = IF c = count + 1 THEN NoNode ELSE order[c]
    BY DEF CursorAt, NodeAt
  <1>3. CASE c = count + 1
    BY <1>1, <1>2, <1>3 DEF Ahead
  <1>4. CASE c # count + 1
    <2>1. c \in 1..count /\ current = order[c] /\ current # NoNode
      BY <1>1, <1>2, <1>4
    <2>2. Position(current) \in DOMAIN order /\ order[Position(current)] = current
      BY <1>1, <2>1 DEF Position
    <2>3. Position(current) = c
      BY <1>1, <2>1, <2>2
    <2> QED  BY <1>1, <2>1, <2>3 DEF Ahead
  <1> QED  BY <1>3, <1>4

LEMMA StepOfIteration ==
    ASSUME IInv, IInv', [ListNext]_list_vars,
           \A c \in Nat : CursorAt(c)' => Ahead' = count' - c + 1
    PROVE  [I!IterationNext]_(I!iteration_vars)
  <1>0. PICK c \in Nat : CursorAt(c)
    BY DEF IInv
  <1>1. /\ count \in Nat /\ order \in Seq(Nodes) /\ Len(order) = count /\ DOMAIN order = 1..count
        /\ c \in 1..(count + 1) /\ Ahead = count - c + 1
    BY <1>0, ListedIs, AheadIs DEF IInv, CursorAt
  <1>2. ASSUME NEW n \in Nodes, Add(n)  PROVE I!Append1(n)
    <2>1. order' = Append(order, n) /\ found' = found
      BY <1>2 DEF Add
    <2>2. count' = count + 1 /\ IF count = 0 \/ c <= count THEN CursorAt(c)' ELSE CursorAt(c + 1)'
      BY <1>0, <1>2, AddKeeps
    <2>3. Ahead' = IF count = 0 \/ c <= count THEN count' - c + 1 ELSE count' - (c + 1) + 1
      BY <2>2
    <2>4. order = << >> <=> count = 0
      BY <1>1
    <2>5. Ahead' = IF order = << >> \/ Ahead > 0 THEN Ahead + 1 ELSE 0
      BY <1>1, <2>2, <2>3, <2>4
    <2> QED  BY <2>1, <2>5 DEF I!Append1
  <1>3. ASSUME NEW k \in DOMAIN order, Remove(k)  PROVE I!TakeOut(k)
    <2>1. order' = Without(order, k) /\ found' = found
      BY <1>3 DEF Remove
    <2>2. count' = count - 1 /\ IF k < c THEN CursorAt(c - 1)' ELSE CursorAt(c)'
      BY <1>0, <1>3, RemoveKeeps
    <2>3. k \in 1..count /\ (k < c => c - 1 \in Nat)
      BY <1>1
    <2>4. Ahead' = IF k < c THEN count' - (c - 1) + 1 ELSE count' - c + 1
      BY <2>2, <2>3
    <2>5. Ahead' = IF k > Len(order) - Ahead THEN Ahead - 1 ELSE Ahead
      BY <1>1, <2>2, <2>3, <2>4
    <2> QED  BY <2>1, <2>5 DEF I!TakeOut, I!Without, Without
  <1>4. ASSUME ListNextNode  PROVE I!Advance
    <2>1. found' = current /\ order' = order /\ count' = count
      BY <1>4 DEF ListNextNode
    <2>2. c <= count /\ current = order[c] /\ CursorAt(c + 1)'
      BY <1>0, <1>4, NextNodeMoves
    <2>3. Ahead' = count - (c + 1) + 1
      BY <1>1, <2>1, <2>2
    <2> QED  BY <1>1, <2>1, <2>2, <2>3 DEF I!Advance
  <1>5. ASSUME ListNextEnd  PROVE I!EndOfRound
    <2>1. /\ InUse /\ current = NoNode /\ found' = NoNode /\ current' = head /\ due' = Listed /\ seen' = {}
          /\ UNCHANGED <<next, prev, head, last, count, doomed, order>>
      BY <1>5 DEF ListNextEnd
    <2>2. CursorAt(1)'
      BY <2>1, RewindMoves
    <2>3. Ahead' = Len(order)
      BY <1>1, <2>1, <2>2
    <2> QED  BY <2>1, <2>3 DEF I!EndOfRound, Ahead
  <1>6. ASSUME Reset  PROVE I!Rewind
    <2>1. /\ InUse /\ current' = head /\ due' = Listed /\ seen' = {}
          /\ UNCHANGED <<next, prev, head, last, count, doomed, found, order>>
      BY <1>6 DEF Reset
    <2>2. CursorAt(1)'
      BY <2>1, RewindMoves DEF IInv, ListTypeOK
    <2>3. Ahead' = Len(order)
      BY <1>1, <2>1, <2>2
    <2> QED  BY <2>1, <2>3 DEF I!Rewind
  <1>7. ASSUME UNCHANGED <<order, current, found>>  PROVE UNCHANGED I!iteration_vars
    BY <1>7 DEF I!iteration_vars, Ahead, Position
  <1>8. ASSUME DestroyBegins \/ DestroyFrees  PROVE UNCHANGED I!iteration_vars
    BY <1>7, <1>8, DestroyKeeps
  <1>9. ASSUME DestroyEnds  PROVE I!Clear
    <2>1. order' = << >> /\ current' = NoNode /\ found' = found
      BY <1>9 DEF DestroyEnds
    <2> QED  BY <2>1 DEF I!Clear, Ahead
  <1>10. ASSUME UNCHANGED list_vars  PROVE UNCHANGED I!iteration_vars
    BY <1>7, <1>10 DEF list_vars, pointers
  <1> QED  BY <1>2, <1>3, <1>4, <1>5, <1>6, <1>8, <1>9, <1>10 DEF ListNext, I!IterationNext

\* The pointers implement the sequence with a cursor that the loops rely on.
THEOREM ListIsASequence == ListSpec => ImplementsIteration
  <1>1. ListInit => I!IterationInit
    BY DEF ListInit, I!IterationInit, Ahead
  <1>2. (\A c \in Nat : CursorAt(c) => Ahead = count - c + 1)'
        => \A c \in Nat : CursorAt(c)' => Ahead' = count' - c + 1
    OBVIOUS
  <1>3. IInv /\ IInv' /\ [ListNext]_list_vars /\ (\A c \in Nat : CursorAt(c) => Ahead = count - c + 1)'
        => [I!IterationNext]_(I!iteration_vars)
    BY <1>2, StepOfIteration
  <1> QED  BY <1>1, <1>3, AheadIs, ListInvariant, PTL DEF ListSpec, ImplementsIteration, I!IterationSpec

=============================================================================
