------------------------------- MODULE Outlines -------------------------------
(***************************************************************************)
(* What makes the functions of module Ownership safe, one function and a   *)
(* few of its pointers at a time.  An object is whole when every field     *)
(* that is freed with it owns a block or, where it may, is NULL.  The      *)
(* outline of a function says what its pointers may be before each of its  *)
(* steps, if it begins with whole objects.  An outline that holds for each *)
(* function alone holds however the functions follow each other.           *)
(***************************************************************************)
EXTENDS Ownership

CONSTANTS
    Optional,   \* [Classes -> set of pointers]: the fields that may be NULL
    Together,   \* [Classes -> set of sets of pointers]: those looked at together
    OnlyWith,   \* [Classes -> set of <<p, q>>]: the field p is only there if q is
    Outline     \* [Functions -> [groups of pointers -> sequence of sets of values]]

Allowed == Outline

\* Every pointer is in one group.
Groups == [k \in Classes |-> Together[k] \cup {{p} : p \in PointersOf[k] \ UNION Together[k]}]
Part(m, G) == [p \in G |-> m[p]]
Nothing(G) == [p \in G |-> "none"]

\* What the pointers of a group may be in an object of class k between two calls.
Whole(k, m) ==
    /\ \A p \in DOMAIN m :
          IF p \in Freed[k] THEN m[p] \in {"live"} \cup (IF p \in Optional[k] THEN {"null"} ELSE {})
                            ELSE m[p] = "none"
    /\ \A r \in OnlyWith[k] : {r[1], r[2]} \subseteq DOMAIN m /\ m[r[1]] = "live" => m[r[2]] = "live"
Wholes == [k \in Classes |-> [G \in Groups[k] |-> {m \in [G -> {"none", "null", "live"}] : Whole(k, m)}]]

\* What an outline speaks of: the pointers of a group when the function was called and
\* now, and those of them that were left out since.
Snapshot(was, is, left) == [was |-> was, is |-> is, left |-> left]

-----------------------------------------------------------------------------
(* The outline of the group G of the pointers of f is o.  The row is that  *)
(* of f, fr its frame, and wholes is what the group may be in an object.   *)

\* The function can be called with m, and may find m when it is.
Fits(row, m) == \A p \in DOMAIN m : /\ p \in row.when => m[p] = "live"
                                    /\ p \in row.unless => m[p] # "live"
Befores(row, G, wholes) == IF row.creates THEN {Nothing(G)} ELSE wholes
Starts(row, fr, befores) == {Snapshot(m, Entered(fr, m), {}) : m \in {b \in befores : Fits(row, b)}}

\* One step s of f, from the value v, to the values in after.
SucceedsWell(f, s, v, after) ==
    Misusing(f, v.is, s.uses) = {} =>
        WrongDone(f, s, v.is) \subseteq Known /\ Snapshot(v.was, Done(s, v.is), v.left) \in after
LeftOutBy(s, v) == v.left \cup (DOMAIN v.is \cap (s.takes \cup s.joins))
MissesWell(f, s, v, after) ==
    WrongCleaned(f, s, v.is) \subseteq Known /\ Snapshot(v.was, Cleaned(s, v.is), LeftOutBy(s, v)) \in after
FailsWell(f, fr, befores, s, v) ==
    LET m == Cleaned(s, v.is) IN
    /\ WrongCleaned(f, s, v.is) \cup Leaking(f, m, fr.scope) \subseteq Known
    /\ \A p \in (DOMAIN m \cap Freed[fr.class]) \ fr.scope :
          m[p] # v.was[p] => <<"changed", f, p>> \in Known
    /\ Left(m, fr.scope) \in befores
StepsWell(f, fr, befores, s, v, after) ==
    /\ Misusing(f, v.is, s.uses) \subseteq Known
    /\ SucceedsWell(f, s, v, after)
    /\ s.optional => v \in after
    /\ s.fallible /\ s.goes_on => MissesWell(f, s, v, after)
    /\ s.fallible /\ ~s.goes_on => FailsWell(f, fr, befores, s, v)

EndsWell(f, fr, wholes, v) ==
    /\ Leaking(f, v.is, fr.locals) \subseteq Known
    /\ \A p \in v.left : <<"left out", f, p>> \in Known
    /\ Left(v.is, fr.locals) \in wholes

OutlineHolds(f, G, row, fr, wholes, o) ==
    LET befores == Befores(row, G, wholes) IN
    /\ Starts(row, fr, befores) \subseteq o[1]
    /\ \A i \in DOMAIN fr.rest : \A v \in o[i] : StepsWell(f, fr, befores, fr.rest[i], v, o[i + 1])
    /\ \A v \in o[Len(fr.rest) + 1] : EndsWell(f, fr, wholes, v)

-----------------------------------------------------------------------------
(* What the table has to fulfil.                                           *)

OutlinesHold ==
    \A f \in Functions : \A G \in Groups[ClassOf(f)] :
        OutlineHolds(f, G, Body[f], Frames[f], Wholes[ClassOf(f)][G], Allowed[f][G])

\* An object goes with what holds it, and comes after it.
MadeInside(row) ==
    IF row.creates
    THEN \A c \in Classes : row.class \in Within[c] => c = row.class \/ \E n \in row.needs : n \in Within[c]
    ELSE row.class \in row.needs
WellNested ==
    /\ \A k \in Classes : \A c \in Within[k] : Within[c] \subseteq Within[k]
    /\ \A f \in Functions : MadeInside(Body[f])

\* The second half g of an entry makes something inside of what the first half has made.
IsHalfOf(row, g, half) ==
    /\ row.creates /\ half.creates /\ half.next = NoFunction
    /\ half.class # row.class /\ half.class \in Within[row.class]
    /\ half.needs \subseteq row.needs \cup {row.class}
    /\ half.when = {} /\ half.unless = {}
    /\ <<"changed", g, row.class>> \in Known
HalvesFit == \A f, g \in Functions : Body[f].next = g => IsHalfOf(Body[f], g, Body[g])

\* Only pointers of a class are looked at together.
GroupsFit == \A k \in Classes : UNION Together[k] \subseteq PointersOf[k]

\* The table is sound: each of its functions alone keeps to its outline.
TableIsSound == OutlinesHold /\ WellNested /\ HalvesFit /\ GroupsFit

-----------------------------------------------------------------------------
\* An object of class k is whole, or there is none.
AtRest(k) ==
    \A G \in Groups[k] : LET m == Part(memory[k], G) IN
        IF k \in exists THEN m \in Wholes[k][G] ELSE m = Nothing(G)

\* The function that runs is where its outline says.
Now(G) == Snapshot(Part(before.memory[frame.class], G), Part(memory[frame.class], G),
                   {p \in G : <<"left out", running, p>> \in spoilt})
AtStep == Len(StepsOf(running)) - Len(frame.rest) + 1
OnOutline == \A G \in Groups[frame.class] : Now(G) \in Allowed[running][G][AtStep]

\* Each function keeps to its outline when it is looked at alone, and so does the
\* program that calls them in any order: whichever step fails, every object is whole
\* between two calls, and the ones a function does not work on are whole while it runs.
ObjectsAreWhole ==
    /\ TableIsSound
    /\ \A k \in Classes : running = NoFunction \/ k # frame.class => AtRest(k)
    /\ running # NoFunction => OnOutline
=============================================================================
