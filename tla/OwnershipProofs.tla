---------------------------- MODULE OwnershipProofs ----------------------------
(***************************************************************************)
(* For every table of functions that is sound, which means that each       *)
(* function looked at alone, and each group of its pointers looked at      *)
(* alone, keeps to its outline: however the functions follow each other    *)
(* and whichever steps fail, nothing goes wrong that is not known to.      *)
(***************************************************************************)
EXTENDS Outlines, SequenceTheorems, TLAPS

\* What is left of the steps.
Rest(rest, steps) ==
    /\ rest \in Seq(AnyStep) /\ Len(rest) <= Len(steps)
    /\ \A i \in 1..Len(rest) : rest[i] = steps[Len(steps) - Len(rest) + i]

\* The frame of f with these steps left.
FrameAt(f, rest) == [Frames[f] EXCEPT !.rest = rest]

\* The function that runs is a row of the table, and what it needs is there; the
\* object it makes is not there yet.
Calling ==
    IF running = NoFunction THEN frame = NoFrame
    ELSE /\ frame = FrameAt(running, frame.rest)
         /\ Rest(frame.rest, StepsOf(running))
         /\ Body[running].needs \subseteq exists
         /\ Body[running].creates <=> ClassOf(running) \notin exists

\* Since the call nothing has changed but the object the function works on; its
\* second half finds one object more.
Since ==
    running # NoFunction =>
        /\ \A k \in exists \ before.exists : <<"changed", running, k>> \in Known
        /\ Body[running].next # NoFunction =>
               /\ exists \subseteq before.exists
               /\ \A k \in Classes \ {ClassOf(running)} : before.memory[k] = memory[k]

\* What went wrong is known, unless something was left out that the running function
\* can still report.
Accounted ==
    \A e \in spoilt :
        /\ e[1] \in Mistakes
        /\ e[1] # "left out" => e \in Known
        /\ running # NoFunction => e \in Known \/ \E p \in PointersOf[ClassOf(running)] : e = <<"left out", running, p>>
        /\ running # NoFunction /\ Body[running].next # NoFunction => e[2] = running

IInv == OwnershipTypeOK /\ Calling /\ Since /\ Accounted /\ ObjectsAreWhole

-----------------------------------------------------------------------------
(* What a step does to some pointers does not depend on the others.        *)

LEMMA PartsOfUpdates ==
    ASSUME NEW m, NEW G, G \subseteq DOMAIN m, NEW ps, NEW x, NEW fr
    PROVE  /\ Part(Set(m, ps, x), G) = Set(Part(m, G), ps, x)
           /\ Part(AfterFree(m, ps), G) = AfterFree(Part(m, G), ps)
           /\ Part(AfterGive(m, ps), G) = AfterGive(Part(m, G), ps)
           /\ Part(Settled(m), G) = Settled(Part(m, G))
           /\ Part(Entered(fr, m), G) = Entered(fr, Part(m, G))
  <1> DOMAIN Part(m, G) = G /\ \A p \in G : p \in DOMAIN m /\ Part(m, G)[p] = m[p]
    BY DEF Part
  <1>1. Part(Set(m, ps, x), G) = Set(Part(m, G), ps, x)
    BY DEF Part, Set
  <1>2. Part(AfterFree(m, ps), G) = AfterFree(Part(m, G), ps)
    BY DEF Part, AfterFree
  <1>3. Part(AfterGive(m, ps), G) = AfterGive(Part(m, G), ps)
    BY DEF Part, AfterGive
  <1>4. Part(Settled(m), G) = Settled(Part(m, G))
    BY DEF Part, Settled
  <1>5. Part(Entered(fr, m), G) = Entered(fr, Part(m, G))
    BY DEF Part, Entered
  <1> QED
    BY <1>1, <1>2, <1>3, <1>4, <1>5

LEMMA DomainsOfUpdates ==
    ASSUME NEW m, NEW ps, NEW x, NEW s
    PROVE  /\ DOMAIN Set(m, ps, x) = DOMAIN m
           /\ DOMAIN AfterFree(m, ps) = DOMAIN m
           /\ DOMAIN Done(s, m) = DOMAIN m
           /\ DOMAIN Missed(s, m) = DOMAIN m
           /\ DOMAIN Cleaned(s, m) = DOMAIN m
           /\ DOMAIN Left(m, ps) = DOMAIN m
  BY DEF Set, AfterFree, AfterGive, Settled, Done, Missed, Cleaned, Left

LEMMA PartsOfSteps ==
    ASSUME NEW m, NEW G, G \subseteq DOMAIN m, NEW ps, NEW s
    PROVE  /\ Part(Done(s, m), G) = Done(s, Part(m, G))
           /\ Part(Missed(s, m), G) = Missed(s, Part(m, G))
           /\ Part(Cleaned(s, m), G) = Cleaned(s, Part(m, G))
           /\ Part(Left(m, ps), G) = Left(Part(m, G), ps)
  <1>1. Part(Done(s, m), G) = Done(s, Part(m, G))
    <2> DEFINE freed == AfterFree(m, s.frees)
               held  == Set(freed, s.takes \cup s.joins, "new")
    <2>1. DOMAIN freed = DOMAIN m /\ DOMAIN held = DOMAIN m
      BY DEF AfterFree, Set
    <2>2. Part(freed, G) = AfterFree(Part(m, G), s.frees)
      BY PartsOfUpdates
    <2>3. Part(held, G) = Set(Part(freed, G), s.takes \cup s.joins, "new")
      BY <2>1, PartsOfUpdates
    <2>4. Part(AfterGive(held, s.gives), G) = AfterGive(Part(held, G), s.gives)
      <3> HIDE DEF held
      <3> QED
        BY <2>1, PartsOfUpdates
    <2> QED
      BY <2>2, <2>3, <2>4 DEF Done
  <1>2. Part(Missed(s, m), G) = Missed(s, Part(m, G))
    <2> DEFINE freed == AfterFree(m, s.frees)
    <2>1. G \subseteq DOMAIN freed
      BY DomainsOfUpdates
    <2>2. Part(freed, G) = AfterFree(Part(m, G), s.frees)
      BY PartsOfUpdates
    <2>3. Part(Set(freed, s.takes \cup s.loses, "null"), G) = Set(Part(freed, G), s.takes \cup s.loses, "null")
      BY <2>1, PartsOfUpdates
    <2> QED
      BY <2>2, <2>3 DEF Missed
  <1>3. Part(Cleaned(s, m), G) = Cleaned(s, Part(m, G))
    <2>1. G \subseteq DOMAIN Missed(s, m)
      BY DomainsOfUpdates
    <2> QED
      BY <1>2, <2>1, PartsOfUpdates DEF Cleaned
  <1>4. Part(Left(m, ps), G) = Left(Part(m, G), ps)
    <2>1. G \subseteq DOMAIN Set(m, ps, "none")
      BY DomainsOfUpdates
    <2> QED
      BY <2>1, PartsOfUpdates DEF Left
  <1> QED
    BY <1>1, <1>2, <1>3, <1>4

\* A pointer stays in one of its states.
LEMMA StatesOfSteps ==
    ASSUME NEW D, NEW m \in [D -> PointerStates], NEW ps, NEW s, NEW fr
    PROVE  /\ Done(s, m) \in [D -> PointerStates]
           /\ Cleaned(s, m) \in [D -> PointerStates]
           /\ Left(m, ps) \in [D -> PointerStates]
           /\ Entered(fr, m) \in [D -> PointerStates]
           /\ Set(m, ps, "none") \in [D -> PointerStates]
  <1>1. ASSUME NEW n \in [D -> PointerStates], NEW qs
        PROVE  /\ \A x \in PointerStates : Set(n, qs, x) \in [D -> PointerStates]
               /\ AfterFree(n, qs) \in [D -> PointerStates]
               /\ AfterGive(n, qs) \in [D -> PointerStates]
               /\ Settled(n) \in [D -> PointerStates]
               /\ Entered(fr, n) \in [D -> PointerStates]
    BY <1>1 DEF Set, AfterFree, AfterGive, Settled, Entered, PointerStates
  <1>2. "new" \in PointerStates /\ "null" \in PointerStates /\ "none" \in PointerStates
    BY DEF PointerStates
  <1>3. Done(s, m) \in [D -> PointerStates]
    BY <1>1, <1>2 DEF Done
  <1>4. Cleaned(s, m) \in [D -> PointerStates]
    BY <1>1, <1>2 DEF Cleaned, Missed
  <1>5. Left(m, ps) \in [D -> PointerStates]
    BY <1>1, <1>2 DEF Left
  <1> QED
    BY <1>1, <1>2, <1>3, <1>4, <1>5

-----------------------------------------------------------------------------
(* What goes wrong with some pointers goes wrong with one of the groups.   *)

\* Every pointer of ps is in one of the groups, and the groups have no others.
Covers(groups, ps) == (\A G \in groups : G \subseteq ps) /\ \A p \in ps : \E G \in groups : p \in G

LEMMA WrongInAPart ==
    ASSUME NEW m, NEW groups, Covers(groups, DOMAIN m), NEW mistake, NEW f, NEW ps, NEW states, NEW S,
           \A G \in groups : Wrong(mistake, f, Part(m, G), ps, states) \subseteq S
    PROVE  Wrong(mistake, f, m, ps, states) \subseteq S
  <1> SUFFICES ASSUME NEW p \in ps \cap DOMAIN m, m[p] \in states
               PROVE  <<mistake, f, p>> \in S
    BY DEF Wrong
  <1>1. PICK G \in groups : p \in G
    BY DEF Covers
  <1>2. <<mistake, f, p>> \in Wrong(mistake, f, Part(m, G), ps, states)
    BY <1>1 DEF Wrong, Part
  <1> QED
    BY <1>2

LEMMA MistakesInAPart ==
    ASSUME NEW m, NEW groups, Covers(groups, DOMAIN m), NEW f, NEW ps, NEW S
    PROVE  /\ (\A G \in groups : Wrongly(f, Part(m, G), ps) \subseteq S) => Wrongly(f, m, ps) \subseteq S
           /\ (\A G \in groups : Leaking(f, Part(m, G), ps) \subseteq S) => Leaking(f, m, ps) \subseteq S
           /\ (\A G \in groups : Misusing(f, Part(m, G), ps) \subseteq S) => Misusing(f, m, ps) \subseteq S
  <1>1. ASSUME \A G \in groups : Wrongly(f, Part(m, G), ps) \subseteq S
        PROVE  Wrongly(f, m, ps) \subseteq S
    <2>1. \A G \in groups : /\ Wrong("garbage freed", f, Part(m, G), ps, {"garbage"}) \subseteq S
                            /\ Wrong("freed twice", f, Part(m, G), ps, {"given"}) \subseteq S
      BY <1>1 DEF Wrongly
    <2>2. Wrong("garbage freed", f, m, ps, {"garbage"}) \subseteq S
      BY <2>1, WrongInAPart
    <2>3. Wrong("freed twice", f, m, ps, {"given"}) \subseteq S
      BY <2>1, WrongInAPart
    <2> QED
      BY <2>2, <2>3 DEF Wrongly
  <1>2. ASSUME \A G \in groups : Leaking(f, Part(m, G), ps) \subseteq S
        PROVE  Leaking(f, m, ps) \subseteq S
    BY <1>2, WrongInAPart DEF Leaking
  <1>3. ASSUME \A G \in groups : Misusing(f, Part(m, G), ps) \subseteq S
        PROVE  Misusing(f, m, ps) \subseteq S
    BY <1>3, WrongInAPart DEF Misusing
  <1> QED
    BY <1>1, <1>2, <1>3

LEMMA WrongStepsInAPart ==
    ASSUME NEW m, NEW groups, Covers(groups, DOMAIN m), NEW f, NEW s, NEW S
    PROVE  /\ (\A G \in groups : WrongDone(f, s, Part(m, G)) \subseteq S) => WrongDone(f, s, m) \subseteq S
           /\ (\A G \in groups : WrongCleaned(f, s, Part(m, G)) \subseteq S) => WrongCleaned(f, s, m) \subseteq S
  <1> DEFINE freed == AfterFree(m, s.frees)
             missed == Missed(s, m)
  <1>1. Covers(groups, DOMAIN freed) /\ Covers(groups, DOMAIN missed)
    BY DomainsOfUpdates
  <1>2. \A G \in groups : /\ Part(freed, G) = AfterFree(Part(m, G), s.frees)
                          /\ Part(missed, G) = Missed(s, Part(m, G))
    <2> SUFFICES ASSUME NEW G \in groups
                 PROVE  /\ Part(freed, G) = AfterFree(Part(m, G), s.frees)
                        /\ Part(missed, G) = Missed(s, Part(m, G))
      OBVIOUS
    <2>1. G \subseteq DOMAIN m
      BY DEF Covers
    <2> QED
      BY <2>1, PartsOfUpdates, PartsOfSteps
  <1>3. ASSUME \A G \in groups : WrongDone(f, s, Part(m, G)) \subseteq S
        PROVE  WrongDone(f, s, m) \subseteq S
    <2>1. \A G \in groups : /\ Wrongly(f, Part(m, G), s.frees) \subseteq S
                            /\ Leaking(f, Part(freed, G), s.takes) \subseteq S
      BY <1>2, <1>3 DEF WrongDone
    <2>2. Wrongly(f, m, s.frees) \subseteq S
      BY <2>1, MistakesInAPart
    <2>3. Leaking(f, freed, s.takes) \subseteq S
      BY <1>1, <2>1, MistakesInAPart
    <2> QED
      BY <2>2, <2>3 DEF WrongDone
  <1>4. ASSUME \A G \in groups : WrongCleaned(f, s, Part(m, G)) \subseteq S
        PROVE  WrongCleaned(f, s, m) \subseteq S
    <2>1. \A G \in groups : /\ Wrongly(f, Part(m, G), s.frees) \subseteq S
                            /\ Leaking(f, Part(freed, G), s.takes \cup s.loses) \subseteq S
                            /\ Wrongly(f, Part(missed, G), s.undo) \subseteq S
      BY <1>2, <1>4 DEF WrongCleaned
    <2>2. Wrongly(f, m, s.frees) \subseteq S
      BY <2>1, MistakesInAPart
    <2>3. Leaking(f, freed, s.takes \cup s.loses) \subseteq S
      BY <1>1, <2>1, MistakesInAPart
    <2>4. Wrongly(f, missed, s.undo) \subseteq S
      BY <1>1, <2>1, MistakesInAPart
    <2> QED
      BY <2>2, <2>3, <2>4 DEF WrongCleaned
  <1> QED
    BY <1>3, <1>4

\* A mistake names the function; none of them is that something was left out.
IsMistakeOf(e, f) == e[1] \in Mistakes \ {"left out"} /\ e[2] = f

LEMMA MistakesAreNamed ==
    ASSUME NEW f, NEW m, NEW ps, NEW s
    PROVE  /\ \A e \in Wrongly(f, m, ps) \cup Leaking(f, m, ps) \cup Misusing(f, m, ps) : IsMistakeOf(e, f)
           /\ \A e \in WrongDone(f, s, m) \cup WrongCleaned(f, s, m) : IsMistakeOf(e, f)
  <1>1. ASSUME NEW n, NEW qs
        PROVE  \A e \in Wrongly(f, n, qs) \cup Leaking(f, n, qs) \cup Misusing(f, n, qs) : IsMistakeOf(e, f)
    <2>1. ASSUME NEW mistake \in Mistakes \ {"left out"}, NEW states, NEW e \in Wrong(mistake, f, n, qs, states)
          PROVE  IsMistakeOf(e, f)
      <3>1. PICK p : e = <<mistake, f, p>>
        BY <2>1 DEF Wrong
      <3> QED
        BY <2>1, <3>1 DEF IsMistakeOf
    <2>2. {"garbage freed", "freed twice", "leaked", "null used"} \subseteq Mistakes \ {"left out"}
      BY DEF Mistakes
    <2> QED
      BY <2>1, <2>2 DEF Wrongly, Leaking, Misusing
  <1> QED
    BY <1>1 DEF WrongDone, WrongCleaned

-----------------------------------------------------------------------------
(* What the table says of the function that runs.                          *)

LEMMA GroupsCover ==
    ASSUME GroupsFit, NEW k \in Classes
    PROVE  Covers(Groups[k], PointersOf[k])
  <1>1. Groups[k] = Together[k] \cup {{p} : p \in PointersOf[k] \ UNION Together[k]}
    BY DEF Groups
  <1>2. UNION Together[k] \subseteq PointersOf[k]
    BY DEF GroupsFit
  <1>3. ASSUME NEW G \in Groups[k], NEW p \in G
        PROVE  p \in PointersOf[k]
    BY <1>1, <1>2, <1>3
  <1>4. ASSUME NEW p \in PointersOf[k]
        PROVE  \E G \in Groups[k] : p \in G
    BY <1>1, <1>4
  <1> QED
    BY <1>3, <1>4 DEF Covers

LEMMA PointersOfRow ==
    ASSUME NEW f \in Functions
    PROVE  /\ Freed[ClassOf(f)] \subseteq PointersOf[ClassOf(f)]
           /\ \A i \in DOMAIN StepsOf(f) : Named(StepsOf(f)[i]) \subseteq PointersOf[ClassOf(f)]
  <1> DEFINE k == ClassOf(f)
  <1>1. k \in Classes
    BY OwnershipAssumptions DEF ClassOf
  <1>2. PointersOf[k] = Freed[k] \cup UNION {Touched(Body[g]) : g \in {h \in Functions : ClassOf(h) = k}}
    BY <1>1 DEF PointersOf
  <1>3. Touched(Body[f]) \subseteq PointersOf[k]
    BY <1>2
  <1>4. ASSUME NEW i \in DOMAIN StepsOf(f)
        PROVE  Named(StepsOf(f)[i]) \subseteq Touched(Body[f])
    BY <1>4 DEF Touched, All, StepsOf
  <1> QED
    BY <1>2, <1>3, <1>4

LEMMA FramesOfRows ==
    ASSUME NEW f \in Functions
    PROVE  /\ Frames[f].class = ClassOf(f) /\ Frames[f].rest = StepsOf(f) /\ Frames[f].next = Body[f].next
           /\ Frames[f] = FrameAt(f, StepsOf(f))
           /\ \A rest :
                 /\ FrameAt(f, rest).class = ClassOf(f) /\ FrameAt(f, rest).locals = Frames[f].locals
                 /\ FrameAt(f, rest).scope = Frames[f].scope /\ FrameAt(f, rest).next = Body[f].next
                 /\ FrameAt(f, rest).rest = rest
           /\ \A rest, r : [FrameAt(f, rest) EXCEPT !.rest = r] = FrameAt(f, r)
  <1> DEFINE touched == Touched(Body[f])
             With(r) == [class |-> ClassOf(f), locals |-> touched \ Freed[ClassOf(f)],
                         scope |-> IF Body[f].creates THEN touched ELSE touched \ Freed[ClassOf(f)],
                         nulled |-> Body[f].nulled, rest |-> r, next |-> Body[f].next]
  <1>1. Frames[f] = With(StepsOf(f))
    BY DEF Frames, FrameOf, ClassOf, StepsOf
  <1> HIDE DEF touched
  <1>2. ASSUME NEW r
        PROVE  FrameAt(f, r) = With(r)
    BY <1>1 DEF FrameAt
  <1>3. \A r, q : [With(r) EXCEPT !.rest = q] = With(q)
    OBVIOUS
  <1>4. \A r : /\ With(r).class = ClassOf(f) /\ With(r).next = Body[f].next /\ With(r).rest = r
               /\ With(r).locals = With(StepsOf(f)).locals /\ With(r).scope = With(StepsOf(f)).scope
    OBVIOUS
  <1> HIDE DEF With
  <1>5. /\ Frames[f].class = ClassOf(f) /\ Frames[f].rest = StepsOf(f) /\ Frames[f].next = Body[f].next
        /\ Frames[f] = FrameAt(f, StepsOf(f))
    BY <1>1, <1>2, <1>4
  <1> QED
    BY <1>1, <1>2, <1>3, <1>4, <1>5

LEMMA RowTypes ==
    ASSUME NEW f \in Functions
    PROVE  /\ ClassOf(f) \in Classes /\ Body[f].needs \subseteq Classes
           /\ StepsOf(f) \in Seq(AnyStep) /\ Len(StepsOf(f)) \in Nat
           /\ Body[f].next \in Functions \cup {NoFunction} /\ f # NoFunction
  BY OwnershipAssumptions DEF ClassOf, StepsOf

LEMMA OutlineOfRow ==
    ASSUME OutlinesHold, NEW f \in Functions, NEW G \in Groups[ClassOf(f)]
    PROVE  OutlineHolds(f, G, Body[f], Frames[f], Wholes[ClassOf(f)][G], Allowed[f][G])
  BY DEF OutlinesHold

LEMMA TailOfRest ==
    ASSUME NEW steps \in Seq(AnyStep), NEW rest, Rest(rest, steps), rest # << >>
    PROVE  /\ Len(steps) - Len(rest) + 1 \in DOMAIN steps
           /\ Head(rest) = steps[Len(steps) - Len(rest) + 1]
           /\ Head(rest) \in AnyStep
           /\ Rest(Tail(rest), steps)
           /\ Len(Tail(rest)) = Len(rest) - 1
  <1>1. rest \in Seq(AnyStep) /\ Len(rest) \in Nat /\ Len(steps) \in Nat /\ Len(rest) <= Len(steps)
    BY DEF Rest
  <1>2. Len(rest) >= 1
    BY <1>1, EmptySeq
  <1>3. Head(rest) = rest[1] /\ Head(rest) \in AnyStep
    BY <1>1, <1>2
  <1>4. Tail(rest) \in Seq(AnyStep) /\ Len(Tail(rest)) = Len(rest) - 1
    BY <1>1, <1>2
  <1>5. ASSUME NEW i \in 1..Len(Tail(rest))
        PROVE  Tail(rest)[i] = steps[Len(steps) - Len(Tail(rest)) + i]
    <2>1. Tail(rest)[i] = rest[i + 1] /\ i + 1 \in 1..Len(rest)
      BY <1>1, <1>2, <1>4
    <2>2. rest[i + 1] = steps[Len(steps) - Len(rest) + (i + 1)]
      BY <2>1 DEF Rest
    <2>3. Len(steps) - Len(rest) + (i + 1) = Len(steps) - Len(Tail(rest)) + i
      BY <1>1, <1>4
    <2> QED
      BY <2>1, <2>2, <2>3
  <1>6. Rest(Tail(rest), steps)
    BY <1>1, <1>4, <1>5 DEF Rest
  <1>7. rest[1] = steps[Len(steps) - Len(rest) + 1]
    BY <1>1, <1>2 DEF Rest
  <1>8. Len(steps) - Len(rest) + 1 \in DOMAIN steps
    BY <1>1, <1>2
  <1> QED
    BY <1>3, <1>4, <1>6, <1>7, <1>8

\* The function that runs, its pointers, and where it is.
LEMMA WhileRunning ==
    ASSUME IInv, running # NoFunction
    PROVE  /\ running \in Functions /\ frame.class = ClassOf(running) /\ frame.class \in Classes
           /\ frame.locals = Frames[running].locals /\ frame.scope = Frames[running].scope
           /\ frame.next = Body[running].next
           /\ Here \in [PointersOf[frame.class] -> PointerStates]
           /\ Covers(Groups[frame.class], DOMAIN Here)
           /\ \A G \in Groups[frame.class] :
                 /\ Now(G).was = Part(before.memory[frame.class], G) /\ Now(G).is = Part(Here, G)
                 /\ Now(G).left = {p \in G : <<"left out", running, p>> \in spoilt}
                 /\ Now(G) \in Allowed[running][G][AtStep]
                 /\ DOMAIN Now(G).is = G /\ G \subseteq DOMAIN Here
  <1>1. running \in Functions
    BY DEF IInv, OwnershipTypeOK
  <1>2. frame = FrameAt(running, frame.rest)
    BY DEF IInv, Calling
  <1>3. /\ frame.class = ClassOf(running) /\ frame.next = Body[running].next
        /\ frame.locals = Frames[running].locals /\ frame.scope = Frames[running].scope
    BY <1>1, <1>2, FramesOfRows
  <1>4. frame.class \in Classes
    BY <1>1, <1>3, RowTypes
  <1>5. Here \in [PointersOf[frame.class] -> PointerStates]
    BY <1>4 DEF IInv, OwnershipTypeOK, Here
  <1>6. Covers(Groups[frame.class], DOMAIN Here)
    BY <1>4, <1>5, GroupsCover DEF IInv, ObjectsAreWhole, TableIsSound
  <1>7. ASSUME NEW G \in Groups[frame.class]
        PROVE  /\ Now(G).was = Part(before.memory[frame.class], G) /\ Now(G).is = Part(Here, G)
               /\ Now(G).left = {p \in G : <<"left out", running, p>> \in spoilt}
               /\ Now(G) \in Allowed[running][G][AtStep]
               /\ DOMAIN Now(G).is = G /\ G \subseteq DOMAIN Here
    <2>1. Now(G) \in Allowed[running][G][AtStep]
      BY DEF IInv, ObjectsAreWhole, OnOutline
    <2>2. /\ Now(G).was = Part(before.memory[frame.class], G) /\ Now(G).is = Part(Here, G)
          /\ Now(G).left = {p \in G : <<"left out", running, p>> \in spoilt}
      BY DEF Now, Snapshot, Here
    <2>3. DOMAIN Now(G).is = G
      BY <2>2 DEF Part
    <2> QED
      BY <1>6, <2>1, <2>2, <2>3 DEF Covers
  <1> QED
    BY <1>1, <1>3, <1>4, <1>5, <1>6, <1>7

\* The step that is due is one of the table, and it goes well for every group.
LEMMA TheStepIsDue ==
    ASSUME IInv, InStep
    PROVE  /\ running # NoFunction
           /\ ThisStep \in AnyStep /\ Named(ThisStep) \subseteq PointersOf[frame.class]
           /\ Rest(Tail(frame.rest), StepsOf(running))
           /\ Len(StepsOf(running)) - Len(Tail(frame.rest)) + 1 = AtStep + 1
           /\ \A G \in Groups[frame.class] :
                 StepsWell(running, Frames[running], Befores(Body[running], G, Wholes[frame.class][G]),
                           ThisStep, Now(G), Allowed[running][G][AtStep + 1])
  <1>1. running # NoFunction
    BY DEF IInv, Calling, InStep, NoFrame
  <1>2. running \in Functions /\ frame.class = ClassOf(running)
    BY <1>1, WhileRunning
  <1>3. StepsOf(running) \in Seq(AnyStep) /\ Len(StepsOf(running)) \in Nat
    BY <1>2, RowTypes
  <1>4. Rest(frame.rest, StepsOf(running)) /\ frame.rest # << >>
    BY <1>1 DEF IInv, Calling, InStep
  <1>5. /\ AtStep \in DOMAIN StepsOf(running) /\ ThisStep = StepsOf(running)[AtStep] /\ ThisStep \in AnyStep
        /\ Rest(Tail(frame.rest), StepsOf(running)) /\ Len(Tail(frame.rest)) = Len(frame.rest) - 1
    BY <1>3, <1>4, TailOfRest DEF AtStep, ThisStep
  <1>6. Len(StepsOf(running)) - Len(Tail(frame.rest)) + 1 = AtStep + 1
    <2>1. Len(frame.rest) \in Nat
      BY <1>4 DEF Rest
    <2>2. Len(Tail(frame.rest)) = Len(frame.rest) - 1
      BY <1>5
    <2>3. \A a, b \in Nat : a - (b - 1) + 1 = (a - b + 1) + 1
      OBVIOUS
    <2>4. Len(StepsOf(running)) \in Nat
      BY <1>3
    <2> QED
      BY <2>1, <2>2, <2>3, <2>4 DEF AtStep
  <1>7. Named(ThisStep) \subseteq PointersOf[frame.class]
    BY <1>2, <1>5, PointersOfRow
  <1>8. ASSUME NEW G \in Groups[frame.class]
        PROVE  StepsWell(running, Frames[running], Befores(Body[running], G, Wholes[frame.class][G]),
                         ThisStep, Now(G), Allowed[running][G][AtStep + 1])
    <2>1. Now(G) \in Allowed[running][G][AtStep]
      BY <1>1, WhileRunning
    <2>2. OutlineHolds(running, G, Body[running], Frames[running], Wholes[frame.class][G], Allowed[running][G])
      BY <1>2, OutlineOfRow DEF IInv, ObjectsAreWhole, TableIsSound
    <2>3. Frames[running].rest = StepsOf(running)
      BY <1>2, FramesOfRows
    <2> QED
      BY <1>5, <2>1, <2>2, <2>3 DEF OutlineHolds
  <1> QED
    BY <1>1, <1>5, <1>6, <1>7, <1>8

-----------------------------------------------------------------------------
(* Every step keeps the invariant.                                         *)

LEMMA StaysAtRest ==
    ASSUME NEW k, AtRest(k), memory'[k] = memory[k], k \in exists' <=> k \in exists
    PROVE  AtRest(k)'
  BY DEF AtRest

\* What the steps after which the function goes on have in common.
Advances ==
    /\ InStep /\ GoesOn /\ UNCHANGED <<subject, exists, running, before>>
    /\ DOMAIN memory' = Classes /\ \A k \in Classes \ {frame.class} : memory'[k] = memory[k]
    /\ memory'[frame.class] \in [PointersOf[frame.class] -> PointerStates]
    /\ \A e \in spoilt' :
          \/ e \in spoilt
          \/ e \in Known /\ IsMistakeOf(e, running)
          \/ \E p \in PointersOf[frame.class] : e = <<"left out", running, p>>
    /\ \A G \in Groups[frame.class] :
          Snapshot(Now(G).was, Part(memory'[frame.class], G), {p \in G : <<"left out", running, p>> \in spoilt'})
              \in Allowed[running][G][AtStep + 1]

LEMMA AdvancesKeepsInvariant ==
    ASSUME IInv, Advances
    PROVE  IInv'
  <1> USE DEF Advances
  <1>1. /\ running # NoFunction /\ running \in Functions /\ frame.class = ClassOf(running)
        /\ frame.class \in Classes
    BY TheStepIsDue, WhileRunning
  <1>0. ASSUME NEW e \in spoilt'
        PROVE  \/ e \in spoilt
               \/ e \in Known /\ e[1] \in Mistakes /\ e[1] # "left out" /\ e[2] = running
               \/ e[1] \in Mistakes /\ e[1] = "left out" /\ e[2] = running /\ \E p \in PointersOf[frame.class] : e = <<"left out", running, p>>
    <2>1. CASE \E p \in PointersOf[frame.class] : e = <<"left out", running, p>>
      <3>1. PICK p \in PointersOf[frame.class] : e = <<"left out", running, p>>
        BY <2>1
      <3>2. e[1] = "left out" /\ e[2] = running
        BY <3>1
      <3> QED
        BY <2>1, <3>2 DEF Mistakes
    <2> QED
      BY <1>0, <2>1 DEF IsMistakeOf
  <1>2. frame' = FrameAt(running, Tail(frame.rest))
    <2>1. frame = FrameAt(running, frame.rest)
      BY <1>1 DEF IInv, Calling
    <2>2. frame' = [frame EXCEPT !.rest = Tail(frame.rest)]
      BY DEF GoesOn
    <2>3. [FrameAt(running, frame.rest) EXCEPT !.rest = Tail(frame.rest)] = FrameAt(running, Tail(frame.rest))
      <3>1. \A rest, r : [FrameAt(running, rest) EXCEPT !.rest = r] = FrameAt(running, r)
        BY <1>1, FramesOfRows
      <3> QED
        BY <3>1, Zenon
    <2> QED
      BY <2>1, <2>2, <2>3, Zenon
  <1>3. frame'.class = frame.class /\ frame'.rest = Tail(frame.rest)
    BY <1>1, <1>2, FramesOfRows
  <1>4. OwnershipTypeOK'
    <2>1. \A k \in Classes : memory'[k] \in [PointersOf[k] -> PointerStates]
      BY DEF IInv, OwnershipTypeOK
    <2>2. \A e \in spoilt' : e[1] \in Mistakes
      BY <1>0 DEF IInv, OwnershipTypeOK
    <2> QED
      BY <1>1, <1>3, <2>1, <2>2 DEF IInv, OwnershipTypeOK
  <1>5. Calling'
    <2>1. Rest(frame'.rest, StepsOf(running))
      BY <1>3, TheStepIsDue
    <2> QED
      BY <1>1, <1>2, <1>3, <2>1 DEF IInv, Calling
  <1>6. Since'
    BY <1>1 DEF IInv, Since
  <1>7. Accounted'
    <2> SUFFICES ASSUME NEW e \in spoilt'
                 PROVE  /\ e[1] \in Mistakes
                        /\ e[1] # "left out" => e \in Known
                        /\ e \in Known \/ \E p \in PointersOf[ClassOf(running)] : e = <<"left out", running, p>>
                        /\ Body[running].next # NoFunction => e[2] = running
      <3>1. running' = running
        OBVIOUS
      <3> QED
        BY <1>1, <3>1 DEF Accounted
    <2>1. CASE e \in spoilt
      BY <1>1, <2>1 DEF IInv, Accounted
    <2>2. CASE e \notin spoilt
      <3>1. \/ e \in Known /\ e[1] \in Mistakes /\ e[1] # "left out" /\ e[2] = running
            \/ /\ e[1] \in Mistakes /\ e[1] = "left out" /\ e[2] = running
               /\ \E p \in PointersOf[frame.class] : e = <<"left out", running, p>>
        BY <1>0, <2>2
      <3> QED
        BY <1>1, <3>1
    <2> QED
      BY <2>1, <2>2
  <1>8. ObjectsAreWhole'
    <2>1. TableIsSound
      BY DEF IInv, ObjectsAreWhole
    <2>2. ASSUME NEW k \in Classes, k # frame.class
          PROVE  AtRest(k)'
      BY <1>1, <2>2, StaysAtRest DEF IInv, ObjectsAreWhole
    <2>3. OnOutline'
      <3> SUFFICES ASSUME NEW G \in Groups[frame.class]
                   PROVE  Now(G)' \in Allowed[running][G][AtStep']
        BY <1>3 DEF OnOutline
      <3>1. AtStep' = AtStep + 1
        BY <1>3, TheStepIsDue DEF AtStep
      <3>2. Now(G)' = Snapshot(Part(before.memory[frame.class], G), Part(memory'[frame.class], G),
                               {p \in G : <<"left out", running, p>> \in spoilt'})
        BY <1>3 DEF Now
      <3>3. Now(G).was = Part(before.memory[frame.class], G)
        BY <1>1, WhileRunning
      <3> QED
        BY <3>1, <3>2, <3>3
    <2> QED
      BY <1>1, <1>3, <2>1, <2>2, <2>3 DEF ObjectsAreWhole
  <1> QED
    BY <1>4, <1>5, <1>6, <1>7, <1>8 DEF IInv

LEMMA LeftOutIsNoMistake ==
    ASSUME NEW f, NEW p
    PROVE  ~IsMistakeOf(<<"left out", f, p>>, f)
  BY DEF IsMistakeOf

LEMMA StepSucceedsAdvances ==
    ASSUME IInv, StepSucceeds
    PROVE  Advances
  <1> DEFINE s == ThisStep
             wrong == WrongDone(running, s, Here)
  <1>1. InStep /\ Misusing(running, Here, s.uses) = {}
    BY DEF StepSucceeds
  <1>2. running # NoFunction /\ frame.class \in Classes /\ Here \in [PointersOf[frame.class] -> PointerStates]
    BY <1>1, TheStepIsDue, WhileRunning
  <1>3. /\ DOMAIN memory' = Classes /\ memory'[frame.class] = Done(s, Here)
        /\ \A k \in Classes \ {frame.class} : memory'[k] = memory[k]
    BY <1>2 DEF StepSucceeds, IInv, OwnershipTypeOK
  <1>4. memory'[frame.class] \in [PointersOf[frame.class] -> PointerStates]
    <2>1. Done(s, Here) \in [PointersOf[frame.class] -> PointerStates]
      BY <1>2, StatesOfSteps
    <2> QED
      BY <1>3, <2>1
  <1>5. ASSUME NEW G \in Groups[frame.class]
        PROVE  /\ Now(G).is = Part(Here, G)
               /\ WrongDone(running, s, Part(Here, G)) \subseteq Known
               /\ Snapshot(Now(G).was, Part(memory'[frame.class], G), Now(G).left) \in Allowed[running][G][AtStep + 1]
    <2>1. Now(G).is = Part(Here, G) /\ G \subseteq DOMAIN Here
      BY <1>2, WhileRunning
    <2>2. SucceedsWell(running, s, Now(G), Allowed[running][G][AtStep + 1])
      BY <1>1, TheStepIsDue DEF StepsWell
    <2>3. Misusing(running, Part(Here, G), s.uses) = {}
      BY <1>1, <2>1 DEF Misusing, Wrong, Part
    <2>4. Part(memory'[frame.class], G) = Done(s, Part(Here, G))
      BY <1>3, <2>1, PartsOfSteps
    <2> QED
      BY <2>1, <2>2, <2>3, <2>4 DEF SucceedsWell
  <1>6. wrong \subseteq Known
    <2>1. Covers(Groups[frame.class], DOMAIN Here)
      BY <1>2, WhileRunning
    <2> QED
      BY <1>5, <2>1, WrongStepsInAPart
  <1>7. \A e \in wrong : IsMistakeOf(e, running)
    BY MistakesAreNamed
  <1>8. spoilt' = spoilt \cup wrong
    BY DEF StepSucceeds
  <1>9. ASSUME NEW G \in Groups[frame.class]
        PROVE  {p \in G : <<"left out", running, p>> \in spoilt'} = Now(G).left
    <2>1. Now(G).left = {p \in G : <<"left out", running, p>> \in spoilt}
      BY <1>2, WhileRunning
    <2>2. \A p : <<"left out", running, p>> \notin wrong
      BY <1>7, LeftOutIsNoMistake
    <2> QED
      BY <1>8, <2>1, <2>2
  <1>10. \A e \in spoilt' : e \in spoilt \/ (e \in Known /\ IsMistakeOf(e, running))
    BY <1>6, <1>7, <1>8
  <1>11. InStep /\ GoesOn /\ UNCHANGED <<subject, exists, running, before>>
    BY DEF StepSucceeds
  <1> QED
    BY <1>3, <1>4, <1>5, <1>9, <1>10, <1>11 DEF Advances

LEMMA StepIsSkippedAdvances ==
    ASSUME IInv, StepIsSkipped
    PROVE  Advances
  <1>1. InStep /\ ThisStep.optional
    BY DEF StepIsSkipped
  <1>2. running # NoFunction /\ frame.class \in Classes /\ Here \in [PointersOf[frame.class] -> PointerStates]
    BY <1>1, TheStepIsDue, WhileRunning
  <1>3. InStep /\ GoesOn /\ UNCHANGED <<subject, exists, memory, running, before, spoilt>>
    BY DEF StepIsSkipped
  <1>4. DOMAIN memory' = Classes /\ memory'[frame.class] = Here
    BY <1>3 DEF IInv, OwnershipTypeOK, Here
  <1>5. ASSUME NEW G \in Groups[frame.class]
        PROVE  Snapshot(Now(G).was, Part(memory'[frame.class], G), {p \in G : <<"left out", running, p>> \in spoilt'})
                   \in Allowed[running][G][AtStep + 1]
    <2>1. Now(G) \in Allowed[running][G][AtStep + 1]
      BY <1>1, TheStepIsDue DEF StepsWell
    <2>2. Now(G) = Snapshot(Now(G).was, Part(Here, G), {p \in G : <<"left out", running, p>> \in spoilt})
      BY DEF Now, Snapshot, Here
    <2> QED
      BY <1>3, <1>4, <2>1, <2>2
  <1> QED
    BY <1>2, <1>3, <1>4, <1>5 DEF Advances

LEMMA StepIsMissedAdvances ==
    ASSUME IInv, StepIsMissed
    PROVE  Advances
  <1> DEFINE s == ThisStep
             wrong == WrongCleaned(running, s, Here)
             missing == {<<"left out", running, p>> : p \in s.takes \cup s.joins}
  <1>1. InStep /\ s.fallible /\ s.goes_on
    BY DEF StepIsMissed
  <1>2. running # NoFunction /\ frame.class \in Classes /\ Here \in [PointersOf[frame.class] -> PointerStates]
    BY <1>1, TheStepIsDue, WhileRunning
  <1>3. /\ DOMAIN memory' = Classes /\ memory'[frame.class] = Cleaned(s, Here)
        /\ \A k \in Classes \ {frame.class} : memory'[k] = memory[k]
    BY <1>2 DEF StepIsMissed, IInv, OwnershipTypeOK
  <1>4. memory'[frame.class] \in [PointersOf[frame.class] -> PointerStates]
    BY <1>2, <1>3, StatesOfSteps
  <1>5. ASSUME NEW G \in Groups[frame.class]
        PROVE  /\ WrongCleaned(running, s, Part(Here, G)) \subseteq Known
               /\ Snapshot(Now(G).was, Part(memory'[frame.class], G), LeftOutBy(s, Now(G)))
                      \in Allowed[running][G][AtStep + 1]
    <2>1. Now(G).is = Part(Here, G) /\ G \subseteq DOMAIN Here
      BY <1>2, WhileRunning
    <2>2. MissesWell(running, s, Now(G), Allowed[running][G][AtStep + 1])
      BY <1>1, TheStepIsDue DEF StepsWell
    <2>3. Part(memory'[frame.class], G) = Cleaned(s, Part(Here, G))
      BY <1>3, <2>1, PartsOfSteps
    <2> QED
      BY <2>1, <2>2, <2>3 DEF MissesWell
  <1>6. wrong \subseteq Known
    <2>1. Covers(Groups[frame.class], DOMAIN Here)
      BY <1>2, WhileRunning
    <2> QED
      BY <1>5, <2>1, WrongStepsInAPart
  <1>7. \A e \in wrong : IsMistakeOf(e, running)
    BY MistakesAreNamed
  <1>8. spoilt' = spoilt \cup wrong \cup missing
    BY DEF StepIsMissed
  <1>9. ASSUME NEW G \in Groups[frame.class]
        PROVE  {p \in G : <<"left out", running, p>> \in spoilt'} = LeftOutBy(s, Now(G))
    <2>1. Now(G).left = {p \in G : <<"left out", running, p>> \in spoilt} /\ DOMAIN Now(G).is = G
      BY <1>2, WhileRunning
    <2>2. \A p : <<"left out", running, p>> \notin wrong
      BY <1>7, LeftOutIsNoMistake
    <2>3. \A p : <<"left out", running, p>> \in missing <=> p \in s.takes \cup s.joins
      OBVIOUS
    <2> HIDE DEF wrong, missing
    <2> QED
      BY <1>8, <2>1, <2>2, <2>3 DEF LeftOutBy
  <1>10. s.takes \cup s.joins \subseteq PointersOf[frame.class]
    BY <1>1, TheStepIsDue DEF Named
  <1>11. \A e \in spoilt' : \/ e \in spoilt
                            \/ e \in Known /\ IsMistakeOf(e, running)
                            \/ \E p \in PointersOf[frame.class] : e = <<"left out", running, p>>
    BY <1>6, <1>7, <1>8, <1>10
  <1>12. InStep /\ GoesOn /\ UNCHANGED <<subject, exists, running, before>>
    BY DEF StepIsMissed
  <1> QED
    BY <1>3, <1>4, <1>5, <1>9, <1>11, <1>12 DEF Advances

\* What the steps have in common after which no function runs.
Rests ==
    /\ running' = NoFunction /\ frame' = NoFrame /\ subject' = subject
    /\ exists' \subseteq Classes /\ \A k \in exists' : \A c \in Classes : k \in Within[c] => c \in exists'
    /\ DOMAIN memory' = Classes /\ \A k \in Classes : memory'[k] \in [PointersOf[k] -> PointerStates]
    /\ \A k \in Classes : AtRest(k)'
    /\ before'.exists \subseteq Classes /\ DOMAIN before'.memory = Classes
    /\ \A e \in spoilt' : e \in spoilt \/ (e \in Known /\ IsMistakeOf(e, running))

LEMMA RestsKeepsInvariant ==
    ASSUME IInv, Rests
    PROVE  IInv'
  <1> USE DEF Rests
  <1>1. ASSUME NEW e \in spoilt'
        PROVE  e[1] \in Mistakes /\ (e[1] # "left out" => e \in Known)
    <2>1. CASE e \in spoilt
      BY <2>1 DEF IInv, Accounted
    <2>2. CASE e \notin spoilt
      BY <1>1, <2>2 DEF IsMistakeOf
    <2> QED
      BY <2>1, <2>2
  <1>2. OwnershipTypeOK'
    BY <1>1 DEF IInv, OwnershipTypeOK
  <1>3. Calling' /\ Since'
    BY DEF Calling, Since
  <1>4. Accounted'
    BY <1>1 DEF Accounted
  <1>5. ObjectsAreWhole'
    BY DEF IInv, ObjectsAreWhole
  <1> QED
    BY <1>2, <1>3, <1>4, <1>5 DEF IInv

\* Nothing is left of an object that is destroyed.
LEMMA NothingIsThere ==
    ASSUME GroupsFit, NEW k \in Classes, NEW m \in [PointersOf[k] -> PointerStates]
    PROVE  \A G \in Groups[k] : Part(Set(m, DOMAIN m, "none"), G) = Nothing(G)
  <1> SUFFICES ASSUME NEW G \in Groups[k]
               PROVE  Part(Set(m, DOMAIN m, "none"), G) = Nothing(G)
    OBVIOUS
  <1>1. G \subseteq DOMAIN m
    BY GroupsCover DEF Covers
  <1> QED
    BY <1>1 DEF Part, Set, Nothing

LEMMA CrashesRests ==
    ASSUME IInv, Crashes
    PROVE  Rests
  <1> DEFINE wrong == Misusing(running, Here, ThisStep.uses)
  <1>1. running # NoFunction
    BY TheStepIsDue DEF Crashes
  <1>2. wrong \subseteq Known
    <2>1. \A G \in Groups[frame.class] : Misusing(running, Part(Here, G), ThisStep.uses) \subseteq Known
      BY <1>1, WhileRunning, TheStepIsDue DEF StepsWell, Crashes
    <2>2. Covers(Groups[frame.class], DOMAIN Here)
      BY <1>1, WhileRunning
    <2> QED
      BY <2>1, <2>2, MistakesInAPart
  <1>3. \A e \in wrong : IsMistakeOf(e, running)
    BY MistakesAreNamed
  <1>4. spoilt' = spoilt \cup wrong
    BY DEF Crashes
  <1>5. \A e \in spoilt' : e \in spoilt \/ (e \in Known /\ IsMistakeOf(e, running))
    BY <1>2, <1>3, <1>4
  <1>6. /\ running' = NoFunction /\ frame' = NoFrame /\ subject' = subject /\ before' = before /\ exists' = {}
        /\ memory' = [k \in Classes |-> Set(memory[k], DOMAIN memory[k], "none")]
    BY DEF Crashes, Stops
  <1>7. \A k \in Classes : memory[k] \in [PointersOf[k] -> PointerStates]
    BY DEF IInv, OwnershipTypeOK
  <1>8. \A k \in Classes : memory'[k] \in [PointersOf[k] -> PointerStates]
    BY <1>6, <1>7, StatesOfSteps
  <1>9. \A k \in Classes : AtRest(k)'
    BY <1>6, <1>7, NothingIsThere DEF AtRest, IInv, ObjectsAreWhole, TableIsSound
  <1>10. before.exists \subseteq Classes /\ DOMAIN before.memory = Classes
    BY DEF IInv, OwnershipTypeOK
  <1> QED
    BY <1>5, <1>6, <1>8, <1>9, <1>10 DEF Rests

\* What a step that fails leaves is as whole as what was there before, and the
\* application finds it unchanged.
LEMMA FailsLeavesWholes ==
    ASSUME IInv, StepFails
    PROVE  /\ \A G \in Groups[frame.class] :
                 Part(Left(Cleaned(ThisStep, Here), frame.scope), G)
                     \in Befores(Body[running], G, Wholes[frame.class][G])
           /\ WrongCleaned(running, ThisStep, Here) \cup Leaking(running, Cleaned(ThisStep, Here), frame.scope)
                  \subseteq Known
           /\ \A p \in Freed[frame.class] \ frame.scope :
                 Cleaned(ThisStep, Here)[p] # before.memory[frame.class][p] => <<"changed", running, p>> \in Known
  <1> DEFINE s == ThisStep
             cleaned == Cleaned(s, Here)
  <1>1. InStep /\ s.fallible /\ ~s.goes_on
    BY DEF StepFails
  <1>2. /\ running \in Functions /\ frame.class = ClassOf(running) /\ frame.scope = Frames[running].scope
        /\ Here \in [PointersOf[frame.class] -> PointerStates] /\ Covers(Groups[frame.class], DOMAIN Here)
        /\ frame.class = Frames[running].class
    BY <1>1, TheStepIsDue, WhileRunning, FramesOfRows
  <1>3. ASSUME NEW G \in Groups[frame.class]
        PROVE  /\ G \subseteq DOMAIN Here
               /\ Part(cleaned, G) = Cleaned(s, Part(Here, G))
               /\ Part(Left(cleaned, frame.scope), G) = Left(Cleaned(s, Part(Here, G)), frame.scope)
               /\ Now(G).is = Part(Here, G) /\ Now(G).was = Part(before.memory[frame.class], G)
               /\ FailsWell(running, Frames[running], Befores(Body[running], G, Wholes[frame.class][G]), s, Now(G))
    <2>1. /\ Now(G).is = Part(Here, G) /\ Now(G).was = Part(before.memory[frame.class], G)
          /\ G \subseteq DOMAIN Here
      BY <1>1, TheStepIsDue, WhileRunning
    <2>2. Part(cleaned, G) = Cleaned(s, Part(Here, G))
      BY <2>1, PartsOfSteps
    <2>3. G \subseteq DOMAIN cleaned
      BY <2>1, DomainsOfUpdates
    <2>4. Part(Left(cleaned, frame.scope), G) = Left(Part(cleaned, G), frame.scope)
      <3> HIDE DEF cleaned
      <3> QED
        BY <2>3, PartsOfSteps
    <2>5. FailsWell(running, Frames[running], Befores(Body[running], G, Wholes[frame.class][G]), s, Now(G))
      BY <1>1, TheStepIsDue DEF StepsWell
    <2> QED
      BY <2>1, <2>2, <2>4, <2>5
  <1>4. ASSUME NEW G \in Groups[frame.class]
        PROVE  /\ Part(Left(cleaned, frame.scope), G) \in Befores(Body[running], G, Wholes[frame.class][G])
               /\ WrongCleaned(running, s, Part(Here, G)) \subseteq Known
               /\ Leaking(running, Part(cleaned, G), frame.scope) \subseteq Known
    BY <1>2, <1>3 DEF FailsWell
  <1>5. WrongCleaned(running, s, Here) \subseteq Known
    BY <1>2, <1>4, WrongStepsInAPart
  <1>6. Leaking(running, cleaned, frame.scope) \subseteq Known
    <2>1. Covers(Groups[frame.class], DOMAIN cleaned)
      BY <1>2, DomainsOfUpdates
    <2> HIDE DEF cleaned
    <2> QED
      BY <1>4, <2>1, MistakesInAPart
  <1>7. ASSUME NEW p \in Freed[frame.class] \ frame.scope, cleaned[p] # before.memory[frame.class][p]
        PROVE  <<"changed", running, p>> \in Known
    <2>1. p \in DOMAIN Here
      BY <1>2, PointersOfRow
    <2>2. PICK G \in Groups[frame.class] : p \in G
      BY <1>2, <2>1 DEF Covers
    <2> HIDE DEF cleaned
    <2>3. /\ Part(cleaned, G)[p] = cleaned[p]
          /\ Part(before.memory[frame.class], G)[p] = before.memory[frame.class][p]
          /\ p \in DOMAIN Part(cleaned, G)
      BY <2>2 DEF Part
    <2>4. Part(cleaned, G) = Cleaned(s, Now(G).is) /\ Now(G).was = Part(before.memory[frame.class], G)
      BY <1>3, <2>2
    <2> QED
      BY <1>2, <1>3, <1>7, <2>3, <2>4 DEF FailsWell
  <1> QED
    BY <1>4, <1>5, <1>6, <1>7

LEMMA StepFailsRests ==
    ASSUME IInv, StepFails
    PROVE  Rests
  <1> DEFINE cleaned == Cleaned(ThisStep, Here)
             wrong == WrongCleaned(running, ThisStep, Here) \cup Leaking(running, cleaned, frame.scope)
  <1>1. /\ running # NoFunction /\ running \in Functions /\ frame.class = ClassOf(running) /\ frame.class \in Classes
        /\ Here \in [PointersOf[frame.class] -> PointerStates]
    BY TheStepIsDue, WhileRunning DEF StepFails
  <1>2. /\ DOMAIN memory' = Classes /\ memory'[frame.class] = Left(cleaned, frame.scope)
        /\ \A k \in Classes \ {frame.class} : memory'[k] = memory[k]
    BY <1>1 DEF StepFails, IInv, OwnershipTypeOK
  <1>3. /\ running' = NoFunction /\ frame' = NoFrame /\ subject' = subject /\ before' = before /\ exists' = exists
        /\ spoilt' = spoilt \cup WrongCleaned(running, ThisStep, Here) \cup Leaking(running, cleaned, frame.scope)
    BY DEF StepFails, Stops
  <1>4. \A k \in Classes : memory'[k] \in [PointersOf[k] -> PointerStates]
    <2>1. cleaned \in [PointersOf[frame.class] -> PointerStates]
      BY <1>1, StatesOfSteps
    <2>2. Left(cleaned, frame.scope) \in [PointersOf[frame.class] -> PointerStates]
      <3> HIDE DEF cleaned
      <3> QED
        BY <2>1, StatesOfSteps
    <2> QED
      BY <1>2, <2>2 DEF IInv, OwnershipTypeOK
  <1>5. ASSUME NEW k \in Classes
        PROVE  AtRest(k)'
    <2>1. CASE k # frame.class
      BY <1>1, <1>2, <1>3, <2>1, StaysAtRest DEF IInv, ObjectsAreWhole
    <2>2. CASE k = frame.class
      <3>1. Body[running].creates <=> frame.class \notin exists
        BY <1>1 DEF IInv, Calling
      <3>2. \A G \in Groups[frame.class] :
               Part(memory'[frame.class], G) \in Befores(Body[running], G, Wholes[frame.class][G])
        BY <1>2, FailsLeavesWholes
      <3> QED
        BY <1>3, <2>2, <3>1, <3>2 DEF AtRest, Befores
    <2> QED
      BY <2>1, <2>2
  <1>6. \A e \in spoilt' : e \in spoilt \/ (e \in Known /\ IsMistakeOf(e, running))
    <2>1. \A e \in wrong : IsMistakeOf(e, running)
      BY MistakesAreNamed
    <2>2. wrong \subseteq Known
      BY FailsLeavesWholes
    <2>3. spoilt' = spoilt \cup wrong
      BY <1>3
    <2> HIDE DEF wrong
    <2> QED
      BY <2>1, <2>2, <2>3
  <1> QED
    BY <1>2, <1>3, <1>4, <1>5, <1>6 DEF Rests, IInv, OwnershipTypeOK

\* The function that runs works on an object inside of what is there.
LEMMA ParentsAreThere ==
    ASSUME IInv, running # NoFunction, NEW k \in exists \cup {frame.class}, NEW c \in Classes, k \in Within[c]
    PROVE  c \in exists \cup {frame.class}
  <1>1. CASE k \in exists
    BY <1>1 DEF IInv, OwnershipTypeOK
  <1>2. CASE k = frame.class
    <2>1. running \in Functions /\ Body[running].class = frame.class
      BY WhileRunning DEF ClassOf
    <2>2. Body[running].needs \subseteq exists
      BY DEF IInv, Calling
    <2>3. MadeInside(Body[running])
      BY <2>1 DEF IInv, ObjectsAreWhole, TableIsSound, WellNested
    <2>4. CASE Body[running].creates
      <3>1. c = frame.class \/ \E n \in Body[running].needs : n \in Within[c]
        BY <1>2, <2>1, <2>3, <2>4 DEF MadeInside
      <3> QED
        BY <2>2, <3>1 DEF IInv, OwnershipTypeOK
    <2>5. CASE ~Body[running].creates
      <3>1. frame.class \in exists
        BY <2>1, <2>2, <2>3, <2>5 DEF MadeInside
      <3> QED
        BY <1>2, <3>1 DEF IInv, OwnershipTypeOK
    <2> QED
      BY <2>4, <2>5
  <1> QED
    BY <1>1, <1>2

\* A function that has done its last step has made its object whole, and has done all it
\* was asked for.
LEMMA ReturnsWell ==
    ASSUME IInv, running # NoFunction, ~InStep
    PROVE  /\ Leaking(running, Here, frame.locals) \subseteq Known
           /\ \A e \in spoilt : e \in Known
           /\ \A G \in Groups[frame.class] : Part(Left(Here, frame.locals), G) \in Wholes[frame.class][G]
  <1>1. /\ running \in Functions /\ frame.class = ClassOf(running) /\ frame.locals = Frames[running].locals
        /\ Here \in [PointersOf[frame.class] -> PointerStates] /\ Covers(Groups[frame.class], DOMAIN Here)
    BY WhileRunning
  <1>2. AtStep = Len(Frames[running].rest) + 1
    <2>1. Len(StepsOf(running)) \in Nat /\ Frames[running].rest = StepsOf(running)
      BY <1>1, RowTypes, FramesOfRows
    <2>2. Len(frame.rest) = 0
      BY DEF InStep
    <2>3. \A a \in Nat : a - 0 + 1 = a + 1
      OBVIOUS
    <2> QED
      BY <2>1, <2>2, <2>3 DEF AtStep
  <1>3. ASSUME NEW G \in Groups[frame.class]
        PROVE  /\ Now(G).is = Part(Here, G) /\ G \subseteq DOMAIN Here
               /\ Now(G).left = {p \in G : <<"left out", running, p>> \in spoilt}
               /\ EndsWell(running, Frames[running], Wholes[frame.class][G], Now(G))
    <2>1. /\ Now(G).is = Part(Here, G) /\ G \subseteq DOMAIN Here
          /\ Now(G).left = {p \in G : <<"left out", running, p>> \in spoilt}
          /\ Now(G) \in Allowed[running][G][AtStep]
      BY WhileRunning
    <2>2. OutlineHolds(running, G, Body[running], Frames[running], Wholes[frame.class][G], Allowed[running][G])
      BY <1>1, OutlineOfRow DEF IInv, ObjectsAreWhole, TableIsSound
    <2> QED
      BY <1>2, <2>1, <2>2 DEF OutlineHolds
  <1>4. Leaking(running, Here, frame.locals) \subseteq Known
    <2>1. \A G \in Groups[frame.class] : Leaking(running, Part(Here, G), frame.locals) \subseteq Known
      BY <1>1, <1>3 DEF EndsWell
    <2> QED
      BY <1>1, <2>1, MistakesInAPart
  <1>5. ASSUME NEW e \in spoilt, e \notin Known
        PROVE  FALSE
    <2>1. PICK p \in PointersOf[frame.class] : e = <<"left out", running, p>>
      BY <1>1, <1>5 DEF IInv, Accounted
    <2>2. PICK G \in Groups[frame.class] : p \in G
      BY <1>1, <2>1 DEF Covers
    <2>3. p \in Now(G).left
      BY <1>3, <1>5, <2>1, <2>2
    <2> QED
      BY <1>3, <1>5, <2>1, <2>2, <2>3 DEF EndsWell
  <1>6. ASSUME NEW G \in Groups[frame.class]
        PROVE  Part(Left(Here, frame.locals), G) \in Wholes[frame.class][G]
    <2>1. G \subseteq DOMAIN Here
      BY <1>3
    <2>2. Part(Left(Here, frame.locals), G) = Left(Part(Here, G), frame.locals)
      BY <2>1, PartsOfSteps
    <2> QED
      BY <1>1, <1>3, <2>2 DEF EndsWell
  <1> QED
    BY <1>4, <1>5, <1>6

\* What is left when a function has done its last step.
LEMMA ReturnsLeaves ==
    ASSUME IInv, Returns
    PROVE  LET m == [memory EXCEPT ![frame.class] = Left(@, frame.locals)] IN
           /\ DOMAIN m = Classes /\ \A k \in Classes : m[k] \in [PointersOf[k] -> PointerStates]
           /\ \A k \in Classes : \A G \in Groups[k] :
                 IF k \in exists' THEN Part(m[k], G) \in Wholes[k][G] ELSE Part(m[k], G) = Nothing(G)
           /\ \A k \in Classes \ {frame.class} : m[k] = memory[k]
           /\ exists' \subseteq Classes /\ \A k \in exists' : \A c \in Classes : k \in Within[c] => c \in exists'
           /\ \A e \in spoilt' : e \in Known /\ e[1] \in Mistakes /\ (e \in spoilt \/ IsMistakeOf(e, running))
  <1> DEFINE m == [memory EXCEPT ![frame.class] = Left(@, frame.locals)]
             wrong == Leaking(running, Here, frame.locals)
  <1>1. running # NoFunction /\ ~InStep
    BY DEF Returns
  <1>2. frame.class \in Classes /\ Here \in [PointersOf[frame.class] -> PointerStates]
    BY <1>1, WhileRunning
  <1>3. /\ DOMAIN m = Classes /\ m[frame.class] = Left(Here, frame.locals)
        /\ \A k \in Classes \ {frame.class} : m[k] = memory[k]
    BY <1>2 DEF IInv, OwnershipTypeOK, Here
  <1> HIDE DEF m
  <1>4. ASSUME NEW k \in Classes
        PROVE  m[k] \in [PointersOf[k] -> PointerStates]
    <2>1. Left(Here, frame.locals) \in [PointersOf[frame.class] -> PointerStates]
      BY <1>2, StatesOfSteps
    <2> QED
      BY <1>3, <2>1 DEF IInv, OwnershipTypeOK
  <1>5. exists' = exists \cup {frame.class} /\ spoilt' = spoilt \cup wrong
    BY DEF Returns
  <1>6. ASSUME NEW k \in Classes, NEW G \in Groups[k]
        PROVE  IF k \in exists' THEN Part(m[k], G) \in Wholes[k][G] ELSE Part(m[k], G) = Nothing(G)
    <2>1. CASE k = frame.class
      <3>1. Part(Left(Here, frame.locals), G) \in Wholes[frame.class][G]
        BY <1>1, <2>1, ReturnsWell
      <3> QED
        BY <1>3, <1>5, <2>1, <3>1
    <2>2. CASE k # frame.class
      <3>1. AtRest(k)
        BY <2>2 DEF IInv, ObjectsAreWhole
      <3> QED
        BY <1>3, <1>5, <2>2, <3>1 DEF AtRest
    <2> QED
      BY <2>1, <2>2
  <1>7. exists' \subseteq Classes /\ \A k \in exists' : \A c \in Classes : k \in Within[c] => c \in exists'
    BY <1>1, <1>2, <1>5, ParentsAreThere DEF IInv, OwnershipTypeOK
  <1>8. ASSUME NEW e \in spoilt'
        PROVE  e \in Known /\ e[1] \in Mistakes /\ (e \in spoilt \/ IsMistakeOf(e, running))
    <2>1. CASE e \in spoilt
      BY <1>1, <2>1, ReturnsWell DEF IInv, OwnershipTypeOK
    <2>2. CASE e \in wrong
      <3>1. IsMistakeOf(e, running)
        BY <2>2, MistakesAreNamed
      <3>2. e \in Known
        BY <1>1, <2>2, ReturnsWell
      <3> QED
        BY <3>1, <3>2 DEF IsMistakeOf
    <2> QED
      BY <1>5, <1>8, <2>1, <2>2
  <1> QED
    BY <1>3, <1>4, <1>6, <1>7, <1>8 DEF m

\* After the last step the function returns, or its second half begins.
LEMMA ReturnsRests ==
    ASSUME IInv, Returns, frame.next = NoFunction
    PROVE  Rests
  <1> DEFINE m == [memory EXCEPT ![frame.class] = Left(@, frame.locals)]
  <1>1. running' = NoFunction /\ frame' = NoFrame /\ memory' = m /\ subject' = subject /\ before' = before
    BY DEF Returns
  <1>2. /\ DOMAIN m = Classes /\ \A k \in Classes : m[k] \in [PointersOf[k] -> PointerStates]
        /\ \A k \in Classes : \A G \in Groups[k] :
              IF k \in exists' THEN Part(m[k], G) \in Wholes[k][G] ELSE Part(m[k], G) = Nothing(G)
        /\ exists' \subseteq Classes /\ \A k \in exists' : \A c \in Classes : k \in Within[c] => c \in exists'
        /\ \A e \in spoilt' : e \in Known /\ (e \in spoilt \/ IsMistakeOf(e, running))
    BY ReturnsLeaves
  <1> HIDE DEF m
  <1>3. \A k \in Classes : AtRest(k)'
    BY <1>1, <1>2 DEF AtRest
  <1>4. before.exists \subseteq Classes /\ DOMAIN before.memory = Classes
    BY DEF IInv, OwnershipTypeOK
  <1> QED
    BY <1>1, <1>2, <1>3, <1>4 DEF Rests

\* What the steps by which the function f begins have in common.
Enters(f) ==
    /\ f \in Functions /\ running' = f /\ frame' = Frames[f] /\ subject' = subject
    /\ exists' \subseteq Classes /\ \A k \in exists' : \A c \in Classes : k \in Within[c] => c \in exists'
    /\ Body[f].needs \subseteq exists'
    /\ Body[f].creates <=> ClassOf(f) \notin exists'
    /\ before'.exists \subseteq Classes /\ DOMAIN before'.memory = Classes
    /\ before'.memory[ClassOf(f)] \in [PointersOf[ClassOf(f)] -> PointerStates]
    /\ DOMAIN memory' = Classes /\ memory'[ClassOf(f)] = Entered(Frames[f], before'.memory[ClassOf(f)])
    /\ \A k \in Classes \ {ClassOf(f)} : memory'[k] \in [PointersOf[k] -> PointerStates] /\ AtRest(k)'
    /\ \A G \in Groups[ClassOf(f)] :
          /\ Part(before'.memory[ClassOf(f)], G) \in Befores(Body[f], G, Wholes[ClassOf(f)][G])
          /\ Fits(Body[f], Part(before'.memory[ClassOf(f)], G))
    /\ Since'
    /\ \A e \in spoilt' : e \in Known /\ e[1] \in Mistakes /\ e[2] # f /\ Body[f].next = NoFunction

LEMMA EntersKeepsInvariant ==
    ASSUME IInv, NEW f, Enters(f)
    PROVE  IInv'
  <1> DEFINE kf == ClassOf(f)
             found == before'.memory[kf]
  <1>1. f \in Functions /\ running' = f /\ frame' = Frames[f] /\ f # NoFunction /\ kf \in Classes
    BY RowTypes DEF Enters
  <1>2. frame'.class = kf /\ frame'.rest = StepsOf(f) /\ frame' = FrameAt(f, frame'.rest)
    BY <1>1, FramesOfRows
  <1>3. memory'[kf] = Entered(Frames[f], found) /\ memory'[kf] \in [PointersOf[kf] -> PointerStates]
    <2>1. found \in [PointersOf[kf] -> PointerStates] /\ memory'[kf] = Entered(Frames[f], found)
      BY DEF Enters
    <2> HIDE DEF found
    <2> QED
      BY <2>1, StatesOfSteps
  <1>4. OwnershipTypeOK'
    BY <1>1, <1>2, <1>3 DEF Enters, IInv, OwnershipTypeOK
  <1>5. Calling'
    <2>1. StepsOf(f) \in Seq(AnyStep) /\ Len(StepsOf(f)) \in Nat
      BY <1>1, RowTypes
    <2>2. \A i \in 1..Len(StepsOf(f)) : StepsOf(f)[i] = StepsOf(f)[Len(StepsOf(f)) - Len(StepsOf(f)) + i]
      <3>1. \A a \in Nat : \A i \in 1..a : a - a + i = i
        OBVIOUS
      <3> QED
        BY <2>1, <3>1
    <2>3. Rest(StepsOf(f), StepsOf(f))
      BY <2>1, <2>2 DEF Rest
    <2> QED
      BY <1>1, <1>2, <2>3 DEF Enters, Calling
  <1>6. Since'
    BY DEF Enters
  <1>7. Accounted'
    BY <1>1 DEF Enters, Accounted
  <1>8. ObjectsAreWhole'
    <2>1. TableIsSound
      BY DEF IInv, ObjectsAreWhole
    <2>2. AtStep' = 1
      <3>1. Len(StepsOf(f)) \in Nat
        BY <1>1, RowTypes
      <3>2. \A a \in Nat : a - a + 1 = 1
        OBVIOUS
      <3>3. AtStep' = Len(StepsOf(f)) - Len(StepsOf(f)) + 1
        BY <1>1, <1>2 DEF AtStep
      <3> QED
        BY <3>1, <3>2, <3>3
    <2>3. ASSUME NEW G \in Groups[kf]
          PROVE  Now(G)' \in Allowed[f][G][1]
      <3>1. /\ Part(found, G) \in Befores(Body[f], G, Wholes[kf][G]) /\ Fits(Body[f], Part(found, G))
            /\ G \subseteq DOMAIN found
        BY <1>1, <2>1, GroupsCover DEF Enters, Covers, TableIsSound
      <3>2. Part(memory'[kf], G) = Entered(Frames[f], Part(found, G))
        <4> HIDE DEF found
        <4> QED
          BY <1>3, <3>1, PartsOfUpdates
      <3>3. {p \in G : <<"left out", f, p>> \in spoilt'} = {}
        <4>1. \A p : <<"left out", f, p>>[2] = f
          OBVIOUS
        <4> QED
          BY <4>1 DEF Enters
      <3>4. Now(G)' = Snapshot(Part(found, G), Part(memory'[kf], G), {p \in G : <<"left out", f, p>> \in spoilt'})
        BY <1>1, <1>2 DEF Now
      <3>5. Now(G)' \in Starts(Body[f], Frames[f], Befores(Body[f], G, Wholes[kf][G]))
        <4> HIDE DEF found
        <4> QED
          BY <3>1, <3>2, <3>3, <3>4 DEF Starts
      <3>6. OutlineHolds(f, G, Body[f], Frames[f], Wholes[kf][G], Allowed[f][G])
        BY <1>1, <2>1, OutlineOfRow DEF TableIsSound
      <3> QED
        BY <3>5, <3>6 DEF OutlineHolds
    <2>4. OnOutline'
      BY <1>1, <1>2, <2>2, <2>3 DEF OnOutline
    <2>5. \A k \in Classes \ {kf} : AtRest(k)'
      BY DEF Enters
    <2> QED
      BY <1>1, <1>2, <2>1, <2>4, <2>5 DEF ObjectsAreWhole
  <1> QED
    BY <1>4, <1>5, <1>6, <1>7, <1>8 DEF IInv

\* A function that is called finds whole objects.
LEMMA BeginsEnters ==
    ASSUME IInv, NEW f \in Functions, Begins(f)
    PROVE  Enters(f)
  <1> DEFINE kf == ClassOf(f)
  <1>1. /\ running = NoFunction /\ Body[f].needs \subseteq exists /\ (Body[f].creates => kf \notin exists)
        /\ \A p \in Body[f].when : memory[kf][p] = "live"
        /\ \A p \in Body[f].unless : memory[kf][p] # "live"
        /\ running' = f /\ frame' = Frames[f] /\ before' = [exists |-> exists, memory |-> memory]
        /\ spoilt' = {} /\ subject' = subject /\ exists' = exists
        /\ memory' = [memory EXCEPT ![frame'.class] = Entered(frame', @)]
    BY DEF Begins
  <1>2. kf \in Classes /\ frame'.class = kf /\ Body[f].class = kf /\ f # NoFunction
    BY <1>1, FramesOfRows, RowTypes DEF ClassOf
  <1>3. /\ DOMAIN memory = Classes /\ memory[kf] \in [PointersOf[kf] -> PointerStates]
        /\ exists \subseteq Classes /\ \A k \in exists : \A c \in Classes : k \in Within[c] => c \in exists
    BY <1>2 DEF IInv, OwnershipTypeOK
  <1>4. /\ DOMAIN memory' = Classes /\ memory'[kf] = Entered(Frames[f], memory[kf])
        /\ \A k \in Classes \ {kf} : memory'[k] = memory[k]
    BY <1>1, <1>2, <1>3
  <1>5. Body[f].creates <=> kf \notin exists
    <2>1. MadeInside(Body[f])
      BY DEF IInv, ObjectsAreWhole, TableIsSound, WellNested
    <2> QED
      BY <1>1, <1>2, <2>1 DEF MadeInside
  <1>6. \A k \in Classes : AtRest(k)
    BY <1>1 DEF IInv, ObjectsAreWhole
  <1>7. ASSUME NEW k \in Classes \ {kf}
        PROVE  memory'[k] \in [PointersOf[k] -> PointerStates] /\ AtRest(k)'
    BY <1>1, <1>4, <1>6, StaysAtRest DEF IInv, OwnershipTypeOK
  <1>8. ASSUME NEW G \in Groups[kf]
        PROVE  Part(memory[kf], G) \in Befores(Body[f], G, Wholes[kf][G]) /\ Fits(Body[f], Part(memory[kf], G))
    <2>1. Part(memory[kf], G) \in Befores(Body[f], G, Wholes[kf][G])
      BY <1>2, <1>5, <1>6 DEF AtRest, Befores
    <2>2. \A p \in DOMAIN Part(memory[kf], G) : Part(memory[kf], G)[p] = memory[kf][p]
      BY DEF Part
    <2> QED
      BY <1>1, <2>1, <2>2 DEF Fits
  <1>9. before'.memory = memory /\ before'.exists = exists
    BY <1>1
  <1>10. Since'
    BY <1>1, <1>2, <1>4, <1>9 DEF Since
  <1> QED
    BY <1>1, <1>2, <1>3, <1>4, <1>5, <1>7, <1>8, <1>9, <1>10 DEF Enters

\* The second half of an entry finds nothing of what it makes.
LEMMA ReturnsEnters ==
    ASSUME IInv, Returns, frame.next # NoFunction
    PROVE  Enters(frame.next)
  <1> DEFINE f == running
             g == frame.next
             kf == frame.class
             kg == ClassOf(g)
             m == [memory EXCEPT ![kf] = Left(@, frame.locals)]
  <1>1. /\ f \in Functions /\ kf = Body[f].class /\ kf \in Classes /\ g = Body[f].next /\ g \in Functions
        /\ f # NoFunction /\ kg \in Classes /\ kg = Body[g].class
    <2>1. f # NoFunction
      BY DEF Returns
    <2>2. f \in Functions /\ kf = ClassOf(f) /\ kf \in Classes /\ g = Body[f].next
      BY <2>1, WhileRunning
    <2>3. g \in Functions
      BY <2>2, RowTypes
    <2> QED
      BY <2>1, <2>2, <2>3, RowTypes DEF ClassOf
  <1>2. /\ Body[f].creates /\ Body[g].creates /\ Body[g].next = NoFunction
        /\ kg # kf /\ kg \in Within[kf] /\ Body[g].needs \subseteq Body[f].needs \cup {kf}
        /\ Body[g].when = {} /\ Body[g].unless = {} /\ <<"changed", g, kf>> \in Known
    BY <1>1 DEF IInv, ObjectsAreWhole, TableIsSound, HalvesFit, IsHalfOf
  <1>3. /\ DOMAIN m = Classes /\ \A k \in Classes : m[k] \in [PointersOf[k] -> PointerStates]
        /\ \A k \in Classes : \A G \in Groups[k] :
              IF k \in exists' THEN Part(m[k], G) \in Wholes[k][G] ELSE Part(m[k], G) = Nothing(G)
        /\ \A k \in Classes \ {kf} : m[k] = memory[k]
        /\ exists' \subseteq Classes /\ \A k \in exists' : \A c \in Classes : k \in Within[c] => c \in exists'
        /\ \A e \in spoilt' : e \in Known /\ e[1] \in Mistakes /\ (e \in spoilt \/ IsMistakeOf(e, f))
    BY ReturnsLeaves
  <1>4. /\ running' = g /\ frame' = Frames[g] /\ memory' = [m EXCEPT ![frame'.class] = Entered(frame', @)]
        /\ exists' = exists \cup {kf} /\ before' = before /\ subject' = subject
    BY DEF Returns
  <1> HIDE DEF m
  <1>5. kf \notin exists /\ kg \notin exists /\ Body[f].needs \subseteq exists
    <2>1. kf \notin exists /\ Body[f].needs \subseteq exists
      BY <1>1, <1>2 DEF IInv, Calling, ClassOf
    <2>2. kg \notin exists
      BY <1>1, <1>2, <2>1 DEF IInv, OwnershipTypeOK
    <2> QED
      BY <2>1, <2>2
  <1>6. /\ exists \subseteq before.exists /\ \A k \in Classes \ {kf} : before.memory[k] = memory[k]
        /\ before.exists \subseteq Classes /\ DOMAIN before.memory = Classes
    <2>1. Body[f].next # NoFunction
      BY <1>1
    <2> QED
      BY <1>1, <2>1 DEF IInv, Since, OwnershipTypeOK, ClassOf
  <1>7. m[kg] = memory[kg] /\ before.memory[kg] = memory[kg]
    BY <1>1, <1>2, <1>3, <1>6
  <1>8. /\ DOMAIN memory' = Classes /\ memory'[kg] = Entered(Frames[g], memory[kg])
        /\ \A k \in Classes \ {kg} : memory'[k] = m[k]
    <2>1. frame'.class = kg
      BY <1>1, <1>4, FramesOfRows
    <2> QED
      BY <1>1, <1>3, <1>4, <1>7, <2>1
  <1>9. ASSUME NEW k \in Classes \ {kg}
        PROVE  memory'[k] \in [PointersOf[k] -> PointerStates] /\ AtRest(k)'
    BY <1>3, <1>8 DEF AtRest
  <1>10. ASSUME NEW G \in Groups[kg]
         PROVE  /\ Part(before.memory[kg], G) \in Befores(Body[g], G, Wholes[kg][G])
                /\ Fits(Body[g], Part(before.memory[kg], G))
    <2>1. Part(memory[kg], G) = Nothing(G)
      BY <1>1, <1>2, <1>3, <1>4, <1>5, <1>7
    <2> QED
      BY <1>2, <1>7, <2>1 DEF Befores, Fits
  <1>11. Since'
    <2>1. \A k \in exists' \ before'.exists : k = kf
      BY <1>4, <1>6
    <2> QED
      BY <1>2, <1>4, <2>1 DEF Since
  <1>12. ASSUME NEW e \in spoilt'
         PROVE  e \in Known /\ e[1] \in Mistakes /\ e[2] # g
    <2>1. e[2] = f
      BY <1>1, <1>3 DEF IInv, Accounted, IsMistakeOf
    <2> QED
      BY <1>1, <1>2, <1>3, <2>1
  <1>13. kg \notin exists' /\ Body[g].needs \subseteq exists'
    BY <1>2, <1>4, <1>5
  <1>14. before.memory[kg] \in [PointersOf[kg] -> PointerStates]
    BY <1>1, <1>3, <1>7
  <1> QED
    BY <1>1, <1>2, <1>3, <1>4, <1>6, <1>7, <1>8, <1>9, <1>10, <1>11, <1>12, <1>13, <1>14 DEF Enters

\* An object at rest has nothing that could be freed twice or lost.
LEMMA RestingPointers ==
    ASSUME GroupsFit, NEW k \in Classes, memory[k] \in [PointersOf[k] -> PointerStates], AtRest(k), NEW f
    PROVE  Wrongly(f, memory[k], Freed[k]) = {} /\ Leaking(f, memory[k], DOMAIN memory[k] \ Freed[k]) = {}
  <1>1. ASSUME NEW p \in PointersOf[k]
        PROVE  memory[k][p] \in {"none", "null", "live"} /\ (p \notin Freed[k] => memory[k][p] = "none")
    <2>1. PICK G \in Groups[k] : p \in G
      BY GroupsCover DEF Covers
    <2> DEFINE m == Part(memory[k], G)
    <2>2. m[p] = memory[k][p] /\ p \in DOMAIN m
      BY <2>1 DEF Part
    <2>3. m \in Wholes[k][G] \/ m = Nothing(G)
      BY DEF AtRest
    <2> HIDE DEF m
    <2>4. CASE m \in Wholes[k][G]
      <3>1. Wholes[k][G] = {n \in [G -> {"none", "null", "live"}] : Whole(k, n)}
        BY DEF Wholes
      <3>2. m \in [G -> {"none", "null", "live"}] /\ Whole(k, m)
        BY <2>4, <3>1
      <3> QED
        BY <2>1, <2>2, <3>2 DEF Whole
    <2>5. CASE m = Nothing(G)
      BY <2>1, <2>2, <2>5 DEF Nothing
    <2> QED
      BY <2>3, <2>4, <2>5
  <1>2. Wrongly(f, memory[k], Freed[k]) = {}
    BY <1>1 DEF Wrongly, Wrong
  <1>3. Leaking(f, memory[k], DOMAIN memory[k] \ Freed[k]) = {}
    BY <1>1 DEF Leaking, Wrong, Owning
  <1> QED
    BY <1>2, <1>3

\* What is destroyed goes with all that it holds, and everything else stays whole.
LEMMA DestroysRests ==
    ASSUME IInv, NEW k \in Removable, Destroys(k)
    PROVE  Rests
  <1>1. /\ running = NoFunction /\ k \in exists /\ k \in Classes /\ exists' = exists \ Within[k]
        /\ memory' = [c \in Classes |-> IF c \in Within[k] THEN Set(memory[c], DOMAIN memory[c], "none") ELSE memory[c]]
        /\ before' = [exists |-> exists', memory |-> memory'] /\ UNCHANGED <<subject, running, frame>>
    BY OwnershipAssumptions DEF Destroys
  <1>2. /\ \A c \in Classes : memory[c] \in [PointersOf[c] -> PointerStates]
        /\ exists \subseteq Classes /\ \A c \in exists : \A d \in Classes : c \in Within[d] => d \in exists
        /\ frame = NoFrame
    BY <1>1 DEF IInv, OwnershipTypeOK
  <1>3. \A c \in Classes : AtRest(c)
    BY <1>1 DEF IInv, ObjectsAreWhole
  <1>4. GroupsFit /\ \A d \in Classes : \A c \in Within[d] : Within[c] \subseteq Within[d]
    BY DEF IInv, ObjectsAreWhole, TableIsSound, WellNested
  <1>5. spoilt' = {}
    <2>1. \A c \in Within[k] : c \in Classes
      BY <1>1, OwnershipAssumptions
    <2>2. \A c \in Within[k] : /\ Wrongly(k, memory[c], Freed[c]) = {}
                               /\ Leaking(k, memory[c], DOMAIN memory[c] \ Freed[c]) = {}
      BY <1>2, <1>3, <1>4, <2>1, RestingPointers
    <2>3. spoilt' = UNION {Wrongly(k, memory[c], Freed[c]) \cup
                           Leaking(k, memory[c], DOMAIN memory[c] \ Freed[c]) : c \in Within[k]}
      BY DEF Destroys
    <2> QED
      BY <2>2, <2>3
  <1>6. \A c \in exists' : \A d \in Classes : c \in Within[d] => d \in exists'
    <2> SUFFICES ASSUME NEW c \in exists', NEW d \in Classes, c \in Within[d], d \in Within[k]
                 PROVE  FALSE
      BY <1>1, <1>2
    <2> QED
      BY <1>1, <1>4
  <1>7. ASSUME NEW c \in Classes
        PROVE  memory'[c] \in [PointersOf[c] -> PointerStates] /\ AtRest(c)'
    <2>1. CASE c \in Within[k]
      <3>1. memory'[c] = Set(memory[c], DOMAIN memory[c], "none") /\ c \notin exists'
        BY <1>1, <2>1
      <3>2. memory'[c] \in [PointersOf[c] -> PointerStates]
        <4>1. memory[c] \in [PointersOf[c] -> PointerStates]
          BY <1>2
        <4>2. Set(memory[c], DOMAIN memory[c], "none") \in [PointersOf[c] -> PointerStates]
          BY <4>1, StatesOfSteps
        <4> QED
          BY <3>1, <4>2
      <3>3. AtRest(c)'
        BY <1>2, <1>4, <3>1, NothingIsThere DEF AtRest
      <3> QED
        BY <3>2, <3>3
    <2>2. CASE c \notin Within[k]
      BY <1>1, <1>2, <1>3, <2>2, StaysAtRest
    <2> QED
      BY <2>1, <2>2
  <1>8. DOMAIN memory' = Classes /\ before'.exists = exists' /\ before'.memory = memory'
    BY <1>1
  <1> QED
    BY <1>1, <1>2, <1>5, <1>6, <1>7, <1>8 DEF Rests

LEMMA InitEstablishesInvariant ==
    ASSUME TableIsSound, OwnershipInit
    PROVE  IInv
  <1> USE DEF OwnershipInit
  <1>1. \A k \in Classes : memory[k] \in [PointersOf[k] -> PointerStates]
    BY DEF PointerStates
  <1>2. OwnershipTypeOK
    BY <1>1 DEF OwnershipTypeOK
  <1>3. Calling /\ Since /\ Accounted
    BY DEF Calling, Since, Accounted
  <1>4. ASSUME NEW k \in Classes
        PROVE  AtRest(k)
    <2>1. \A G \in Groups[k] : G \subseteq PointersOf[k]
      BY GroupsCover DEF TableIsSound, Covers
    <2>2. \A G \in Groups[k] : Part(memory[k], G) = Nothing(G)
      BY <2>1 DEF Part, Nothing
    <2> QED
      BY <2>2 DEF AtRest
  <1>5. ObjectsAreWhole
    BY <1>4 DEF ObjectsAreWhole
  <1> QED
    BY <1>2, <1>3, <1>5 DEF IInv

LEMMA NextKeepsInvariant ==
    ASSUME IInv, [OwnershipNext]_ownership_vars
    PROVE  IInv'
  <1>1. CASE \E f \in Functions \ Halves : Begins(f)
    BY <1>1, BeginsEnters, EntersKeepsInvariant
  <1>2. CASE StepSucceeds
    BY <1>2, StepSucceedsAdvances, AdvancesKeepsInvariant
  <1>3. CASE Crashes
    BY <1>3, CrashesRests, RestsKeepsInvariant
  <1>4. CASE StepIsSkipped
    BY <1>4, StepIsSkippedAdvances, AdvancesKeepsInvariant
  <1>5. CASE StepIsMissed
    BY <1>5, StepIsMissedAdvances, AdvancesKeepsInvariant
  <1>6. CASE StepFails
    BY <1>6, StepFailsRests, RestsKeepsInvariant
  <1>7. CASE Returns
    BY <1>7, ReturnsRests, RestsKeepsInvariant, ReturnsEnters, EntersKeepsInvariant
  <1>8. CASE \E k \in Removable : Destroys(k)
    BY <1>8, DestroysRests, RestsKeepsInvariant
  <1>9. CASE UNCHANGED ownership_vars
    <2>1. UNCHANGED <<subject, exists, memory, running, frame, before, spoilt>>
      BY <1>9 DEF ownership_vars
    <2>2. OwnershipTypeOK' /\ Calling' /\ Since' /\ Accounted'
      BY <2>1 DEF IInv, OwnershipTypeOK, Calling, Since, Accounted
    <2>3. \A k \in Classes : running = NoFunction \/ k # frame.class => AtRest(k)'
      BY <2>1, StaysAtRest DEF IInv, ObjectsAreWhole
    <2>4. OnOutline' <=> OnOutline
      BY <2>1 DEF OnOutline, Now, AtStep
    <2>5. ObjectsAreWhole'
      BY <2>1, <2>3, <2>4 DEF IInv, ObjectsAreWhole
    <2> QED
      BY <2>2, <2>5 DEF IInv
  <1> QED
    BY <1>1, <1>2, <1>3, <1>4, <1>5, <1>6, <1>7, <1>8, <1>9 DEF OwnershipNext

-----------------------------------------------------------------------------
\* The invariant holds in every behaviour of a sound table: what each function keeps when it is
\* looked at alone carries over to all of them, with the frame of the one that runs.
THEOREM OwnershipInvariant == TableIsSound => (OwnershipSpec => []IInv)
  <1> SUFFICES ASSUME TableIsSound
               PROVE  OwnershipSpec => []IInv
    OBVIOUS
  <1>1. OwnershipInit => IInv
    BY InitEstablishesInvariant
  <1>2. IInv /\ [OwnershipNext]_ownership_vars => IInv'
    BY NextKeepsInvariant
  <1> QED
    BY <1>1, <1>2, PTL DEF OwnershipSpec

\* Every variable has its type, an object is only there with what holds it, and only
\* known mistakes have names.
THEOREM OwnershipTypesAreKept == TableIsSound => (OwnershipSpec => []OwnershipTypeOK)
  <1> SUFFICES ASSUME TableIsSound
               PROVE  OwnershipSpec => []OwnershipTypeOK
    OBVIOUS
  <1>1. IInv => OwnershipTypeOK
    BY DEF IInv
  <1> QED
    BY <1>1, OwnershipInvariant, PTL

\* Functions that are sound alone are sound together: whatever calls the program makes,
\* in whatever order, and whichever allocations fail, the objects between two calls
\* are whole, and the function that runs is where its outline says.
THEOREM ObjectsStayWhole == TableIsSound => (OwnershipSpec => []ObjectsAreWhole)
  <1> SUFFICES ASSUME TableIsSound
               PROVE  OwnershipSpec => []ObjectsAreWhole
    OBVIOUS
  <1>1. IInv => ObjectsAreWhole
    BY DEF IInv
  <1> QED
    BY <1>1, OwnershipInvariant, PTL

\* However the calls follow each other and whatever fails, no pointer is freed or
\* followed that does not own a block, but where that is known.
THEOREM OwnedMemory == TableIsSound => (OwnershipSpec => []OnlyOwnedMemoryIsTouched)
  <1> SUFFICES ASSUME TableIsSound
               PROVE  OwnershipSpec => []OnlyOwnedMemoryIsTouched
    OBVIOUS
  <1>1. IInv => OnlyOwnedMemoryIsTouched
    BY DEF IInv, Accounted, OnlyOwnedMemoryIsTouched
  <1> QED
    BY <1>1, OwnershipInvariant, PTL

\* However the calls follow each other and whatever fails, no block is lost, but where
\* that is known.
THEOREM NoLeak == TableIsSound => (OwnershipSpec => []NothingIsLost)
  <1> SUFFICES ASSUME TableIsSound
               PROVE  OwnershipSpec => []NothingIsLost
    OBVIOUS
  <1>1. IInv => NothingIsLost
    BY DEF IInv, Accounted, NothingIsLost
  <1> QED
    BY <1>1, OwnershipInvariant, PTL

\* A function that returns MCL_OK has left nothing out, but where that is known.
THEOREM OkIsComplete == TableIsSound => (OwnershipSpec => OkMeansComplete)
  <1> SUFFICES ASSUME TableIsSound
               PROVE  OwnershipSpec => OkMeansComplete
    OBVIOUS
  <1> DEFINE A == Returns => \A m \in spoilt : m[1] = "left out" => m \in Known
  <1>1. IInv => A
    BY ReturnsWell DEF Returns
  <1>2. IInv => [A]_ownership_vars
    BY <1>1
  <1> QED
    BY <1>2, OwnershipInvariant, PTL DEF OkMeansComplete

\* A function that returns an error leaves the objects and the blocks in their fields as
\* they were when it was called, but where that is known.
THEOREM ErrorsAreHarmless == TableIsSound => (OwnershipSpec => ErrorsLeaveObjectsAlone)
  <1> SUFFICES ASSUME TableIsSound
               PROVE  OwnershipSpec => ErrorsLeaveObjectsAlone
    OBVIOUS
  <1> DEFINE A == StepFails => /\ \A p \in Freed[frame.class] \ frame.scope :
                                    Cleaned(ThisStep, Here)[p] # before.memory[frame.class][p]
                                        => <<"changed", running, p>> \in Known
                              /\ \A k \in exists \ before.exists : <<"changed", running, k>> \in Known
  <1>1. IInv => A
    <2> SUFFICES ASSUME IInv, StepFails
                 PROVE  A
      OBVIOUS
    <2>1. running # NoFunction
      BY TheStepIsDue DEF StepFails
    <2>2. \A k \in exists \ before.exists : <<"changed", running, k>> \in Known
      BY <2>1 DEF IInv, Since
    <2> QED
      BY <2>2, FailsLeavesWholes
  <1>2. IInv => [A]_ownership_vars
    BY <1>1
  <1> QED
    BY <1>2, OwnershipInvariant, PTL DEF ErrorsLeaveObjectsAlone

==============================================================================
