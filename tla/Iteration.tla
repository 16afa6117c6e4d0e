------------------------------- MODULE Iteration -------------------------------
(***************************************************************************)
(* What the users of a list rely on: a sequence of items, in the order in  *)
(* which they were added, and one cursor over it that all of them share.   *)
(* The cursor is told by how many items are still ahead of it.  An item    *)
(* added when none is ahead is left for the next round, unless it is the   *)
(* only one.                                                               *)
(***************************************************************************)
EXTENDS Naturals, Sequences

CONSTANTS Items, NoItem

VARIABLES items, ahead, found

iteration_vars == <<items, ahead, found>>

\* The sequence s without its k-th element.
Without(s, k) == [i \in 1..(Len(s) - 1) |-> IF i < k THEN s[i] ELSE s[i + 1]]

IterationInit == items = << >> /\ ahead = 0 /\ found = NoItem

Append1(d) ==
    /\ items' = Append(items, d)
    /\ ahead' = IF items = << >> \/ ahead > 0 THEN ahead + 1 ELSE 0
    /\ UNCHANGED found

TakeOut(k) ==
    /\ items' = Without(items, k)
    /\ ahead' = IF k > Len(items) - ahead THEN ahead - 1 ELSE ahead
    /\ UNCHANGED found

Advance ==
    /\ ahead > 0
    /\ found' = items[Len(items) - ahead + 1] /\ ahead' = ahead - 1
    /\ UNCHANGED items

EndOfRound == ahead = 0 /\ found' = NoItem /\ ahead' = Len(items) /\ UNCHANGED items

Rewind == ahead' = Len(items) /\ UNCHANGED <<items, found>>

Clear == items' = << >> /\ ahead' = 0 /\ UNCHANGED found

IterationNext ==
    \/ \E d \in Items : Append1(d)
    \/ \E k \in DOMAIN items : TakeOut(k)
    \/ Advance
    \/ EndOfRound
    \/ Rewind
    \/ Clear

IterationSpec == IterationInit /\ [][IterationNext]_iteration_vars

=============================================================================
