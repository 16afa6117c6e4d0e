--------------------------------- MODULE List ---------------------------------
(***************************************************************************)
(* list.c: a doubly linked list with one cursor that every loop over the   *)
(* list uses.  Its pointers are modelled one by one; the memory of a node  *)
(* may be used again after it has been freed.  Nodes are removed while a   *)
(* loop runs, as _exchange_clear_sent_data_from_store does it.             *)
(***************************************************************************)
EXTENDS Naturals, Sequences

CONSTANTS
    Nodes,     \* the places in memory where a node may be
    NoNode,    \* NULL
    Gone,      \* what is read from a node that has been freed
    MaxCount   \* MCL_SIZE_MAX

ASSUME ListAssumptions ==
    /\ NoNode \notin Nodes /\ Gone \notin Nodes /\ NoNode # Gone
    /\ MaxCount \in Nat \ {0}

VARIABLES
    next, prev,                 \* [Nodes -> ...]: the pointers of a node
    head, last, current, count, \* list_t
    doomed,                     \* the node list_destroy is at, Gone while nothing is destroyed
    found,                     \* what list_next answered last
    order,                      \* history: the nodes in the order in which they were added
    due,                        \* history: nodes a loop has yet to see, there since it began
    seen                        \* history: nodes it has seen

pointers  == <<next, prev, head, last, current, count>>
list_vars == <<pointers, doomed, found, order, due, seen>>

InUse == doomed = Gone
Listed == {order[i] : i \in DOMAIN order}
Without(s, k) == [i \in 1..(Len(s) - 1) |-> IF i < k THEN s[i] ELSE s[i + 1]]

-----------------------------------------------------------------------------
ListInit ==
    /\ next = [n \in Nodes |-> Gone] /\ prev = next
    /\ head = NoNode /\ last = NoNode /\ current = NoNode /\ count = 0
    /\ doomed = Gone /\ found = NoNode
    /\ order = << >> /\ due = {} /\ seen = {}

\* Mutant of Add: the list may be full.
AddToFull(n) ==
    /\ InUse /\ n \notin Listed
    /\ prev' = [prev EXCEPT ![n] = last]
    /\ \/ /\ count = 0
          /\ next' = [next EXCEPT ![n] = NoNode]
          /\ head' = n /\ current' = n
          /\ due' = {n} /\ seen' = {}
       \/ /\ count # 0
          /\ next' = [next EXCEPT ![n] = NoNode, ![last] = n]
          /\ UNCHANGED <<head, current, due, seen>>
    /\ last' = n /\ count' = count + 1
    /\ order' = Append(order, n)
    /\ UNCHANGED <<doomed, found>>

\* list_add: there is a free place n for the node.
Add(n) ==
    /\ InUse /\ count < MaxCount /\ n \notin Listed
    /\ prev' = [prev EXCEPT ![n] = last]
    /\ \/ /\ count = 0
          /\ next' = [next EXCEPT ![n] = NoNode]
          /\ head' = n /\ current' = n
          /\ due' = {n} /\ seen' = {}
       \/ /\ count # 0
          /\ next' = [next EXCEPT ![n] = NoNode, ![last] = n]
          /\ UNCHANGED <<head, current, due, seen>>
    /\ last' = n /\ count' = count + 1
    /\ order' = Append(order, n)
    /\ UNCHANGED <<doomed, found>>

\* list_remove takes the k-th node out.
Unlinked(f, m, to, n) == [p \in Nodes |-> IF p = n THEN Gone ELSE IF p = m THEN to ELSE f[p]]
Instead(p, n, other)   == IF p = n THEN other ELSE p

\* Mutant of Remove: the next node keeps its way back.
RemoveHalf(k) ==
    LET n == order[k] IN
    /\ InUse /\ count > 0
    /\ next' = Unlinked(next, prev[n], next[n], n)
    /\ prev' = [prev EXCEPT ![n] = Gone]
    /\ head' = Instead(head, n, next[n])
    /\ last' = Instead(last, n, prev[n])
    /\ current' = Instead(current, n, next[n])
    /\ count' = count - 1
    /\ order' = Without(order, k)
    /\ due' = due \ {n} /\ seen' = seen \ {n}
    /\ UNCHANGED <<doomed, found>>

\* Mutant of Remove: the cursor steps back.
RemoveStepBack(k) ==
    LET n == order[k] IN
    /\ InUse /\ count > 0
    /\ next' = Unlinked(next, prev[n], next[n], n)
    /\ prev' = Unlinked(prev, next[n], prev[n], n)
    /\ head' = Instead(head, n, next[n])
    /\ last' = Instead(last, n, prev[n])
    /\ current' = Instead(current, n, prev[n])
    /\ count' = count - 1
    /\ order' = Without(order, k)
    /\ due' = due \ {n} /\ seen' = seen \ {n}
    /\ UNCHANGED <<doomed, found>>

Remove(k) ==
    LET n == order[k] IN
    /\ InUse /\ count > 0
    /\ next' = Unlinked(next, prev[n], next[n], n)
    /\ prev' = Unlinked(prev, next[n], prev[n], n)
    /\ head' = Instead(head, n, next[n])
    /\ last' = Instead(last, n, prev[n])
    /\ current' = Instead(current, n, next[n])
    /\ count' = count - 1
    /\ order' = Without(order, k)
    /\ due' = due \ {n} /\ seen' = seen \ {n}
    /\ UNCHANGED <<doomed, found>>

\* list_next answers the node it was at, or NULL once at the end of a round.
ListNextNode ==
    /\ InUse /\ current # NoNode
    /\ found' = current /\ current' = next[current]
    /\ due' = due \ {current} /\ seen' = seen \cup {current}
    /\ UNCHANGED <<next, prev, head, last, count, doomed, order>>

\* Mutant of ListNextEnd: the cursor is left at the end.
NextEndWithoutRewind ==
    /\ InUse /\ current = NoNode
    /\ found' = NoNode
    /\ due' = Listed /\ seen' = {}
    /\ UNCHANGED <<next, prev, head, last, current, count, doomed, order>>

ListNextEnd ==
    /\ InUse /\ current = NoNode
    /\ found' = NoNode /\ current' = head
    /\ due' = Listed /\ seen' = {}
    /\ UNCHANGED <<next, prev, head, last, count, doomed, order>>

\* list_reset
Reset ==
    /\ InUse
    /\ current' = head
    /\ due' = Listed /\ seen' = {}
    /\ UNCHANGED <<next, prev, head, last, count, doomed, found, order>>

\* list_destroy_with_content, node by node, and a new list after it.
DestroyBegins ==
    /\ InUse
    /\ doomed' = head
    /\ UNCHANGED <<pointers, found, order, due, seen>>
DestroyFrees ==
    /\ doomed \in Nodes
    /\ doomed' = next[doomed]
    /\ next' = [next EXCEPT ![doomed] = Gone] /\ prev' = [prev EXCEPT ![doomed] = Gone]
    /\ UNCHANGED <<head, last, current, count, found, order, due, seen>>
DestroyEnds ==
    /\ doomed = NoNode /\ doomed' = Gone
    /\ head' = NoNode /\ last' = NoNode /\ current' = NoNode /\ count' = 0
    /\ order' = << >> /\ due' = {} /\ seen' = {}
    /\ UNCHANGED <<next, prev, found>>

ListNext ==
    \/ \E n \in Nodes : Add(n)
    \/ \E k \in DOMAIN order : Remove(k)
    \/ ListNextNode
    \/ ListNextEnd
    \/ Reset
    \/ DestroyBegins
    \/ DestroyFrees
    \/ DestroyEnds

ListSpec == ListInit /\ [][ListNext]_list_vars

-----------------------------------------------------------------------------
Places == Nodes \cup {NoNode, Gone}
ListTypeOK ==
    /\ next \in [Nodes -> Places] /\ prev \in [Nodes -> Places]
    /\ {head, last, current, found} \subseteq Nodes \cup {NoNode}
    /\ doomed \in Places
    /\ count \in 0..MaxCount
    /\ order \in Seq(Nodes)
    /\ due \subseteq Listed /\ seen \subseteq Listed

\* Whatever is added and removed while a loop runs, the pointers lead through
\* exactly the nodes that were added and not removed, in order, both ways, and the
\* cursor is at one of them or at the end: no freed node can be reached.
Linked ==
    /\ Len(order) = count
    /\ \A i, j \in DOMAIN order : order[i] = order[j] => i = j
    /\ head = (IF count = 0 THEN NoNode ELSE order[1])
    /\ last = (IF count = 0 THEN NoNode ELSE order[count])
    /\ current \in Listed \cup {NoNode}
    /\ \A i \in DOMAIN order : /\ next[order[i]] = (IF i = count THEN NoNode ELSE order[i + 1])
                              /\ prev[order[i]] = (IF i = 1 THEN NoNode ELSE order[i - 1])
\* The destruction of a list frees every node once: it is never at one that is
\* gone, and there is none left at its end.
Destroyed ==
    /\ doomed \in Nodes => next[doomed] # Gone
    /\ doomed = NoNode => \A n \in Nodes : next[n] = Gone
ListWellLinked ==
    /\ InUse => Linked /\ \A n \in Nodes \ Listed : next[n] = Gone
    /\ ~InUse => Destroyed

\* A loop over the list sees every node that is there from its beginning to its end,
\* and no node twice, whatever is added and removed meanwhile.
EveryItemIsVisited ==
    [][/\ ListNextEnd => due = {}
       /\ ListNextNode => current \notin seen]_list_vars

\* The pointers implement a sequence with a cursor.
Position(n) == CHOOSE i \in DOMAIN order : order[i] = n
Ahead == IF current = NoNode THEN 0 ELSE Len(order) - Position(current) + 1
I == INSTANCE Iteration WITH
        Items  <- Nodes,
        NoItem <- NoNode,
        items  <- order,
        ahead  <- Ahead
ImplementsIteration == I!IterationSpec
=============================================================================
