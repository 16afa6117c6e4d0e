--------------------------------- MODULE Steps ---------------------------------
(***************************************************************************)
(* The words in which the functions of the library are written down for    *)
(* module Ownership.  A function is a sequence of steps; a step takes a    *)
(* block of memory (or anything else it may fail to get) into a pointer,   *)
(* and says what is freed before the function returns if it fails.         *)
(***************************************************************************)
EXTENDS Naturals, Sequences

NoFunction == "none"

\* Every word is this step with some of its fields changed: the pointers it
\* follows, frees, takes a block into, adds a block to, and gives away; what is
\* freed and what can no longer be reached if it fails; whether it may be left
\* out, may fail, and whether the function goes on after that.
NoStep == [uses |-> {}, frees |-> {}, takes |-> {}, joins |-> {}, gives |-> {}, undo |-> {},
           loses |-> {}, optional |-> FALSE, fallible |-> FALSE, goes_on |-> FALSE]

AnyStep == [uses : SUBSET STRING, frees : SUBSET STRING, takes : SUBSET STRING, joins : SUBSET STRING,
            gives : SUBSET STRING, undo : SUBSET STRING, loses : SUBSET STRING,
            optional : BOOLEAN, fallible : BOOLEAN, goes_on : BOOLEAN]

All(s) == {s[i] : i \in DOMAIN s}

\* A step that may fail and takes nothing.
Check(undo)    == [NoStep EXCEPT !.undo = undo, !.fallible = TRUE]
Checks(n, undo) == [i \in 1..n |-> Check(undo)]
\* A block is taken into p; if there is none p is NULL, undo is freed and the
\* function returns.
Take(p, undo)  == [Check(undo) EXCEPT !.takes = {p}]
\* The same for something the caller may leave out.
Maybe(p, undo) == [Take(p, undo) EXCEPT !.optional = TRUE]
\* A block that may be there or not, whatever the reason.
Perhaps(p)     == [NoStep EXCEPT !.takes = {p}, !.optional = TRUE]
\* A function called for p takes over and frees what ps point to.
Turn(ps, p, undo) == [Take(p, undo) EXCEPT !.frees = ps]
\* Several in a row, with the same clean-up.
Takes(ps, undo) == [i \in DOMAIN ps |-> Take(ps[i], undo)]
\* The result is not looked at.
Try(p)         == [Take(p, {}) EXCEPT !.goes_on = TRUE]
\* p takes the block over from q.
Wrap(p, q, undo) == [Take(p, undo) EXCEPT !.gives = {q}]
\* The same where nothing can fail, and q is not used again.
Move(p, q)     == [NoStep EXCEPT !.takes = {p}, !.gives = {q}]
\* A larger block for p, if there is need for one; without it the old one is gone
\* too, and whatever only that one led to.
Regrow(p, inside, undo) == [Maybe(p, undo) EXCEPT !.frees = {p}, !.loses = inside]
\* q is one more of the things p stands for.
Join(p, q)     == [NoStep EXCEPT !.joins = {p}, !.gives = {q}]
\* The same where it may be missing without anybody noticing; what p had then is
\* lost if it is in lost.
Extend(p, lost) == [NoStep EXCEPT !.joins = {p}, !.loses = lost, !.fallible = TRUE, !.goes_on = TRUE]
\* Freeing, after which the pointers are NULL.
Drop(ps)       == [NoStep EXCEPT !.frees = ps]
\* The caller becomes the owner.
Hand(ps)       == [NoStep EXCEPT !.gives = ps]
\* The block p points to is read or written.
Use(p)         == [NoStep EXCEPT !.uses = {p}]

\* A function that makes an object of class c while there are the needed ones;
\* the pointers in nulled are set to NULL at once.
Creates(c, needs, nulled, steps) ==
    [class |-> c, creates |-> TRUE, needs |-> needs, when |-> {}, unless |-> {}, nulled |-> nulled,
     steps |-> steps, next |-> NoFunction]
\* One that works on an object of class c.
Changes(c, nulled, steps) ==
    [class |-> c, creates |-> FALSE, needs |-> {c}, when |-> {}, unless |-> {}, nulled |-> nulled,
     steps |-> steps, next |-> NoFunction]
\* One that makes what results name for its caller, and keeps nothing.
Computes(results, nulled, steps) ==
    Creates("result", {}, nulled, Append(steps, Hand(results)))

=============================================================================
