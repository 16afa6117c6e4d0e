------------------------------- MODULE Ownership -------------------------------
(***************************************************************************)
(* Who owns a block of memory while the functions of the library run and   *)
(* any of their allocations may fail.  This module is the machine; the     *)
(* functions are the table Body, written down in DataObjects, Documents,   *)
(* Sessions and Security.  A function another one calls is a single step   *)
(* of it: it gives its result, or fails and leaves nothing behind, which   *)
(* is what its own row of the table has to show.                           *)
(*                                                                         *)
(* A pointer is "none" while there is no variable for it, "garbage" while  *)
(* nothing has been written to it, "null", "new" when it owns a block that *)
(* was taken by the function that runs, "live" when it owns an older one,  *)
(* and "given" when the block has another owner and the pointer still      *)
(* points to it.                                                           *)
(***************************************************************************)
EXTENDS Steps

CONSTANTS
    Within,      \* [Classes -> SUBSET Classes]: what is destroyed with an object, itself included
    Freed,       \* [Classes -> set of pointers]: the fields that are freed with it
    Table,       \* [Functions -> what Creates, Changes or Computes returns]
    Halves,      \* the functions that are only called as the second half of another
    Removable,   \* the classes whose objects are destroyed on their own
    Exceptions   \* <<mistake, function, pointer>>: what is known to go wrong

\* TLC evaluates a definition once, but a constant at every use.
Body == Table
Known == Exceptions

Classes == DOMAIN Within
Functions == DOMAIN Body
PointerStates == {"none", "garbage", "null", "new", "live", "given"}
Owning == {"new", "live"}
Mistakes == {"garbage freed", "freed twice", "leaked", "null used", "left out"}

ASSUME OwnershipAssumptions ==
    /\ Freed \in [Classes -> SUBSET UNION {Freed[k] : k \in Classes}]
    /\ \A k \in Classes : k \in Within[k] /\ Within[k] \subseteq Classes
    /\ Removable \subseteq Classes /\ Halves \subseteq Functions
    /\ \A f \in Functions :
        /\ Body[f].class \in Classes /\ Body[f].needs \subseteq Classes
        /\ Body[f].steps \in Seq(AnyStep)
        /\ Body[f].next \in Functions \cup {NoFunction}
    /\ NoFunction \notin Functions

VARIABLES
    subject,     \* the class this behaviour is about
    exists,      \* the classes of which there is an object
    memory,      \* [Classes -> [their pointers -> PointerStates]]
    running,     \* the function that runs
    frame,       \* its class, its pointers, the steps it has left, and what comes after it
    before,      \* exists and memory when the function was called
    spoilt       \* history: <<mistake, function, pointer>> since then

ownership_vars == <<subject, exists, memory, running, frame, before, spoilt>>

\* A behaviour is about one class that is not destroyed in parts, with what it
\* holds and what holds it.
Subjects == {k \in Removable : Removable \cap Within[k] = {k}}
ClassOf(f) == Body[f].class
StepsOf(f) == Body[f].steps
Named(s) == s.uses \cup s.frees \cup s.takes \cup s.joins \cup s.gives \cup s.undo \cup s.loses
Touched(row) == row.nulled \cup UNION {Named(s) : s \in All(row.steps)}
PointersOf == [k \in Classes |-> Freed[k] \cup UNION {Touched(Body[f]) : f \in {g \in Functions : ClassOf(g) = k}}]

\* The locals are there only while the function runs; the scope is what nobody can
\* reach after it failed.
FrameOf(row, touched) ==
    [class |-> row.class, locals |-> touched \ Freed[row.class],
     scope |-> IF row.creates THEN touched ELSE touched \ Freed[row.class],
     nulled |-> row.nulled, rest |-> row.steps, next |-> row.next]
Frames == [f \in Functions |-> FrameOf(Body[f], Touched(Body[f]))]
NoFrame == [rest |-> << >>, next |-> NoFunction]

ASSUME PointersAreNames == PointersOf \in [Classes -> SUBSET STRING]

-----------------------------------------------------------------------------
(* The pointers m of a class after a step, and what is wrong with it.      *)

Set(m, ps, s)    == [p \in DOMAIN m |-> IF p \in ps THEN s ELSE m[p]]
AfterFree(m, ps) == [p \in DOMAIN m |-> IF p \in ps /\ m[p] # "none" THEN "null" ELSE m[p]]
AfterGive(m, ps) == [p \in DOMAIN m |-> IF p \in ps /\ m[p] \in Owning THEN "given" ELSE m[p]]

Settled(m)       == [p \in DOMAIN m |-> IF m[p] = "new" THEN "live" ELSE m[p]]

Wrong(mistake, f, m, ps, states) == {<<mistake, f, p>> : p \in {q \in ps \cap DOMAIN m : m[q] \in states}}
Wrongly(f, m, ps)  == Wrong("garbage freed", f, m, ps, {"garbage"}) \cup Wrong("freed twice", f, m, ps, {"given"})
Leaking(f, m, ps)  == Wrong("leaked", f, m, ps, Owning)
Misusing(f, m, ps) == Wrong("null used", f, m, ps, {"null", "garbage"})

\* What a step has done when it succeeds: it frees, takes and gives away.
Done(s, m) == AfterGive(Set(AfterFree(m, s.frees), s.takes \cup s.joins, "new"), s.gives)
WrongDone(f, s, m) == Wrongly(f, m, s.frees) \cup Leaking(f, AfterFree(m, s.frees), s.takes)

\* What a step that fails has done: it has freed and lost, and taken nothing; then
\* the clean-up.
Missed(s, m)  == Set(AfterFree(m, s.frees), s.takes \cup s.loses, "null")
Cleaned(s, m) == AfterFree(Missed(s, m), s.undo)
WrongCleaned(f, s, m) ==
    Wrongly(f, m, s.frees) \cup Leaking(f, AfterFree(m, s.frees), s.takes \cup s.loses)
    \cup Wrongly(f, Missed(s, m), s.undo)

\* What a function that returns leaves: nobody can reach the pointers ps any more.
Left(m, ps) == Settled(Set(m, ps, "none"))

\* What a function finds: its own pointers hold nothing yet.
Entered(fr, m) == [p \in DOMAIN m |-> IF p \notin fr.scope THEN m[p]
                                      ELSE IF p \in fr.nulled THEN "null" ELSE "garbage"]

-----------------------------------------------------------------------------
OwnershipInit ==
    /\ subject \in Subjects
    /\ exists = {}
    /\ memory = [k \in Classes |-> [p \in PointersOf[k] |-> "none"]]
    /\ running = NoFunction /\ frame = NoFrame
    /\ before = [exists |-> exists, memory |-> memory]
    /\ spoilt = {}

Begins(f) ==
    /\ running = NoFunction
    /\ ClassOf(f) \in Within[subject] \/ subject \in Within[ClassOf(f)]
    /\ Body[f].needs \subseteq exists
    /\ Body[f].creates => ClassOf(f) \notin exists
    /\ \A p \in Body[f].when : memory[ClassOf(f)][p] = "live"
    /\ \A p \in Body[f].unless : memory[ClassOf(f)][p] # "live"
    /\ running' = f /\ frame' = Frames[f]
    /\ memory' = [memory EXCEPT ![frame'.class] = Entered(frame', @)]
    /\ before' = [exists |-> exists, memory |-> memory]
    /\ spoilt' = {}
    /\ UNCHANGED <<subject, exists>>

InStep == frame.rest # << >>
ThisStep == Head(frame.rest)
GoesOn == frame' = [frame EXCEPT !.rest = Tail(@)]
Stops == running' = NoFunction /\ frame' = NoFrame
Here == memory[frame.class]

\* A step succeeds.
StepSucceeds ==
    /\ InStep /\ Misusing(running, Here, ThisStep.uses) = {}
    /\ memory' = [memory EXCEPT ![frame.class] = Done(ThisStep, Here)]
    /\ spoilt' = spoilt \cup WrongDone(running, ThisStep, Here)
    /\ GoesOn
    /\ UNCHANGED <<subject, exists, running, before>>

\* It follows a pointer that leads nowhere, and that is the end of the program.
Crashes ==
    /\ InStep /\ Misusing(running, Here, ThisStep.uses) # {}
    /\ spoilt' = spoilt \cup Misusing(running, Here, ThisStep.uses)
    /\ exists' = {}
    /\ memory' = [k \in Classes |-> Set(memory[k], DOMAIN memory[k], "none")]
    /\ Stops
    /\ UNCHANGED <<subject, before>>

\* The caller did not ask for this step.
StepIsSkipped ==
    /\ InStep /\ ThisStep.optional
    /\ GoesOn
    /\ UNCHANGED <<subject, exists, memory, running, before, spoilt>>

\* A step fails and the function does not look.
StepIsMissed ==
    /\ InStep /\ ThisStep.fallible /\ ThisStep.goes_on
    /\ memory' = [memory EXCEPT ![frame.class] = Cleaned(ThisStep, Here)]
    /\ spoilt' = spoilt \cup WrongCleaned(running, ThisStep, Here)
                        \cup {<<"left out", running, p>> : p \in ThisStep.takes \cup ThisStep.joins}
    /\ GoesOn
    /\ UNCHANGED <<subject, exists, running, before>>

\* A step fails: clean-up, and the function returns an error.
StepFails ==
    /\ InStep /\ ThisStep.fallible /\ ~ThisStep.goes_on
    /\ memory' = [memory EXCEPT ![frame.class] = Left(Cleaned(ThisStep, Here), frame.scope)]
    /\ spoilt' = spoilt \cup WrongCleaned(running, ThisStep, Here)
                        \cup Leaking(running, Cleaned(ThisStep, Here), frame.scope)
    /\ Stops
    /\ UNCHANGED <<subject, exists, before>>

\* The last step is done: MCL_OK, or on to the second half of the entry.
Returns ==
    /\ running # NoFunction /\ ~InStep
    /\ exists' = exists \cup {frame.class}
    /\ spoilt' = spoilt \cup Leaking(running, Here, frame.locals)
    /\ LET m    == [memory EXCEPT ![frame.class] = Left(@, frame.locals)]
           next == frame.next IN
       /\ running' = next
       /\ \/ next = NoFunction /\ frame' = NoFrame /\ memory' = m
          \/ next # NoFunction /\ frame' = Frames[next]
             /\ memory' = [m EXCEPT ![frame'.class] = Entered(frame', @)]
    /\ UNCHANGED <<subject, before>>

\* An object is destroyed, and with it what it holds.
Destroys(k) ==
    /\ running = NoFunction /\ k \in exists
    /\ exists' = exists \ Within[k]
    /\ memory' = [c \in Classes |-> IF c \in Within[k] THEN Set(memory[c], DOMAIN memory[c], "none") ELSE memory[c]]
    /\ spoilt' = UNION {Wrongly(k, memory[c], Freed[c]) \cup
                        Leaking(k, memory[c], DOMAIN memory[c] \ Freed[c]) : c \in Within[k]}
    /\ before' = [exists |-> exists', memory |-> memory']
    /\ UNCHANGED <<subject, running, frame>>

OwnershipNext ==
    \/ \E f \in Functions \ Halves : Begins(f)
    \/ StepSucceeds
    \/ Crashes
    \/ StepIsSkipped
    \/ StepIsMissed
    \/ StepFails
    \/ Returns
    \/ \E k \in Removable : Destroys(k)

OwnershipSpec == OwnershipInit /\ [][OwnershipNext]_ownership_vars

-----------------------------------------------------------------------------
OwnershipTypeOK ==
    /\ subject \in Subjects
    /\ exists \subseteq Classes
    /\ \A k \in exists : \A c \in Classes : k \in Within[c] => c \in exists
    /\ DOMAIN memory = Classes
    /\ \A k \in Classes : memory[k] \in [PointersOf[k] -> PointerStates]
    /\ running \in Functions \cup {NoFunction}
    /\ IF running = NoFunction THEN frame = NoFrame ELSE frame.class \in Classes
    /\ before.exists \subseteq Classes
    /\ DOMAIN before.memory = Classes
    /\ \A m \in spoilt : m[1] \in Mistakes

\* Whichever allocation fails, no function frees a pointer that was never
\* written or that has another owner, or follows one that is NULL, except where
\* Known says so.  A later call on the same object counts: it must cope with
\* what an earlier one left when it failed.
OnlyOwnedMemoryIsTouched ==
    \A m \in spoilt : m[1] \in {"garbage freed", "freed twice", "null used"} => m \in Known

\* Whichever allocation fails, and whether the function reports it or not, every
\* block that was taken is freed, kept in an object that will be destroyed, or
\* handed to the caller, except where Known says so.
NothingIsLost == \A m \in spoilt : m[1] = "leaked" => m \in Known

\* A function that returns MCL_OK has done all it was asked for, except where Known
\* says so.
OkMeansComplete == [][Returns => \A m \in spoilt : m[1] = "left out" => m \in Known]_ownership_vars

\* A function that returns an error leaves what was there when it was called as it
\* was: the same objects, with the same blocks in their fields, except where Known
\* says so.  The application may go on with them.
ErrorsLeaveObjectsAlone ==
    [][StepFails => /\ \A p \in Freed[frame.class] \ frame.scope :
                          Cleaned(ThisStep, Here)[p] # before.memory[frame.class][p] => <<"changed", running, p>> \in Known
                    /\ \A k \in exists \ before.exists : <<"changed", running, k>> \in Known]_ownership_vars
=============================================================================
