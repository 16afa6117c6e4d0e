---------------------------- MODULE CustodyProofs ----------------------------
(***************************************************************************)
(* The processes of Registration keep the promise of Custody, for every    *)
(* number of processes and every bound.                                    *)
(***************************************************************************)
EXTENDS RegistrationProofs

\* A RAT that is on its way to the file is the last one: no request is under way
\* that could make it worthless, and it is not in the file before it is written.
CarryInv ==
    \A p \in Processes :
        /\ Unsaved(p) => late = {}
        /\ pc[p] = "answered" => reply[p].rat = issued
        /\ pc[p] \in SavingPoints => mem[p].rat = issued
        /\ pc[p] \in {"answered", "save"} => file.rat # issued

\* Only the holder of the mutex registers, and only what is late could come between.
LEMMA CarryStep ==
    ASSUME TypeOK, CriticalSection, RatInv, CarryInv, [Next]_vars
    PROVE  CarryInv'
  <1> USE RegistrationAssumptions DEF CarryInv, Unsaved, RatInv, TypeOK, CriticalSection,
    InsidePoints, RegistrationPoints, SavingPoints, serverVars, processVars,
    Credentials, Rats, Keys, NoRat, NoKey, NoCredentials
  <1>1. ASSUME NEW p \in Processes, Initialize(p) PROVE CarryInv'
    BY <1>1 DEF Initialize, Goto
  <1>2. ASSUME NEW p \in Processes, Destroy(p) PROVE CarryInv'
    BY <1>2 DEF Destroy, Forget
  <1>3. ASSUME NEW p \in Processes, Crash(p) PROVE CarryInv'
    BY <1>3 DEF Crash, Forget, MayBeLate
  <1>4. ASSUME NEW p \in Processes, NEW t \in Calls, CallTask(p, t) PROVE CarryInv'
    BY <1>4 DEF CallTask
  <1>5. ASSUME NEW p \in Processes, Enter(p) PROVE CarryInv'
    BY <1>5 DEF Enter, Onboards, Rotates, Updates, Goto, GotoWith, IsOnboarded
  <1>6. ASSUME NEW p \in Processes, EnterFails(p) PROVE CarryInv'
    BY <1>6 DEF EnterFails, Return
  <1>7. ASSUME NEW p \in Processes, Leave(p) PROVE CarryInv'
    BY <1>7 DEF Leave, Return, GotoWith
  <1>8. ASSUME NEW p \in Processes, Send(p) PROVE CarryInv'
    BY <1>8 DEF Send, Composed, Goto
  <1>9. ASSUME NEW p \in Processes, ComposeFails(p) PROVE CarryInv'
    BY <1>9 DEF ComposeFails, Composed, GotoWith
  <1>10. ASSUME NEW p \in Processes, ServerRegisters(p) PROVE CarryInv'
    BY <1>10 DEF ServerRegisters, Issue, Goto, Accepts
  <1>11. ASSUME NEW p \in Processes, ServerRefuses(p) PROVE CarryInv'
    BY <1>11 DEF ServerRefuses, Goto
  <1>12. ASSUME NEW p \in Processes, NoAnswer(p) PROVE CarryInv'
    BY <1>12 DEF NoAnswer, GotoWith, MayBeLate
  <1>13. ASSUME NEW p \in Processes, ReceiveRefusal(p) PROVE CarryInv'
    BY <1>13 DEF ReceiveRefusal, GotoWith
  <1>14. ASSUME NEW p \in Processes, ReceiveRegistration(p) PROVE CarryInv'
    BY <1>14 DEF ReceiveRegistration, Answered, Goto
  <1>15. ASSUME NEW p \in Processes, ReceiveMalformed(p) PROVE CarryInv'
    BY <1>15 DEF ReceiveMalformed, GotoWith
  <1>16. ASSUME NEW p \in Processes, OpenFails(p) PROVE CarryInv'
    BY <1>16 DEF OpenFails, NotSaved, GotoWith
  <1>17. ASSUME NEW p \in Processes, OpenToWrite(p) PROVE CarryInv'
    BY <1>17 DEF OpenToWrite, Goto, Unloadable
  <1>18. ASSUME NEW p \in Processes, WritePart(p) PROVE CarryInv'
    BY <1>18 DEF WritePart
  <1>19. ASSUME NEW p \in Processes, WriteAll(p) PROVE CarryInv'
    BY <1>19 DEF WriteAll, GotoWith
  <1>20. ASSUME NEW p \in Processes, WriteFails(p) PROVE CarryInv'
    BY <1>20 DEF WriteFails, NotSaved, GotoWith
  <1>21. ASSUME NEW p \in Processes, CloseFails(p) PROVE CarryInv'
    BY <1>21 DEF CloseFails, GotoWith
  <1>22. ASSUME NEW p \in Processes, LoadUpToDate(p) PROVE CarryInv'
    BY <1>22 DEF LoadUpToDate, GotoWith
  <1>23. ASSUME NEW p \in Processes, LoadReplaces(p) PROVE CarryInv'
    BY <1>23 DEF LoadReplaces, GotoWith
  <1>24. ASSUME NEW p \in Processes, LoadFails(p) PROVE CarryInv'
    BY <1>24 DEF LoadFails, Forget
  <1>25. ASSUME NEW p \in Processes, GetAccessToken(p) PROVE CarryInv'
    <2>1. UNCHANGED <<mem, reply, lock, file, serverVars>>
      BY <1>25, GetAccessTokenForm
    <2>2. CASE pc[p] = "renew" /\ Goto(p, "leave")
      BY <2>1, <2>2 DEF Goto
    <2>3. CASE pc[p] = "token" /\ Goto(p, "enter")
      BY <2>1, <2>3 DEF Goto
    <2>4. CASE pc[p] = "token" /\ Goto(p, "exchange_again")
      BY <2>1, <2>4 DEF Goto
    <2>5. CASE pc[p] = "token" /\ Return(p)
      BY <2>1, <2>5 DEF Return
    <2>6. QED
      BY <1>25, <2>2, <2>3, <2>4, <2>5, GetAccessTokenForm
  <1>26. ASSUME NEW p \in Processes, ExchangeSucceeds(p) PROVE CarryInv'
    BY <1>26 DEF ExchangeSucceeds, Return
  <1>27. ASSUME NEW p \in Processes, ExchangeUnauthorized(p) PROVE CarryInv'
    BY <1>27 DEF ExchangeUnauthorized, Goto
  <1>28. ASSUME NEW p \in Processes, ExchangeFails(p) PROVE CarryInv'
    BY <1>28 DEF ExchangeFails, Return
  <1>29. ASSUME NEW p \in Processes, TokenExpires(p) PROVE CarryInv'
    BY <1>29 DEF TokenExpires
  <1>30. ASSUME NEW m \in late, ServerRegistersLate(m) PROVE CarryInv'
    BY <1>30 DEF ServerRegistersLate, Issue, Accepts
  <1>31. ASSUME NEW m \in late, LateIsLost(m) PROVE CarryInv'
    BY <1>31 DEF LateIsLost
  <1>32. ASSUME KeyExpires PROVE CarryInv'
    BY <1>32 DEF KeyExpires
  <1>33. CASE UNCHANGED vars
    BY <1>33 DEF vars
  <1> HIDE DEF CarryInv, Unsaved, RatInv, TypeOK, CriticalSection, InsidePoints,
    RegistrationPoints, SavingPoints, serverVars, processVars, Credentials, Rats, Keys,
    NoRat, NoKey, NoCredentials
  <1>34. QED
    BY <1>1, <1>2, <1>3, <1>4, <1>5, <1>6, <1>7, <1>8, <1>9, <1>10, <1>11,
      <1>12, <1>13, <1>14, <1>15, <1>16, <1>17, <1>18, <1>19, <1>20, <1>21, <1>22,
      <1>23, <1>24, <1>25, <1>26, <1>27, <1>28, <1>29, <1>30, <1>31, <1>32, <1>33
      DEF Next, Advance, Register, Update, ExchangeData

-----------------------------------------------------------------------------
(***************************************************************************)
(* The steps Custody does not see.                                         *)
(***************************************************************************)

Quiet ==
    /\ UNCHANGED <<issued, astray>>
    /\ Filed' <=> Filed
    /\ \A q \in Processes :
        /\ mem'[q].rat = mem[q].rat
        /\ pc'[q] = "gone" <=> pc[q] = "gone"
        /\ Brings(q, issued)' <=> Brings(q, issued)

\* Most steps are of this kind.
QuietStep ==
    \/ \E p \in Processes :
        \/ \E t \in Calls : CallTask(p, t)
        \/ Enter(p) \/ EnterFails(p) \/ Leave(p)
        \/ Send(p) \/ ComposeFails(p) \/ ServerRefuses(p) \/ ReceiveRefusal(p) \/ OpenToWrite(p)
        \/ LoadUpToDate(p) \/ GetAccessToken(p) \/ ExchangeData(p) \/ TokenExpires(p)
    \/ \E m \in late : LateIsLost(m)
    \/ KeyExpires
    \/ UNCHANGED vars

\* They change no RAT and nobody who carries one.
LEMMA QuietSteps ==
    ASSUME TypeOK, CriticalSection, RatInv, CarryInv, QuietStep
    PROVE  Quiet
  <1> USE RegistrationAssumptions DEF Quiet, Filed, Brings, TypeOK, CriticalSection, RatInv, CarryInv, InsidePoints, RegistrationPoints, SavingPoints,
    serverVars, processVars, Credentials, Rats, NoRat, NoKey, NoCredentials
  <1>1. ASSUME NEW p \in Processes, NEW t \in Calls, CallTask(p, t) PROVE Quiet
    BY <1>1 DEF CallTask
  <1>2. ASSUME NEW p \in Processes, Enter(p) PROVE Quiet
    <2>1. \E point \in {"renew", "register", "load", "leave"} : pc' = [pc EXCEPT ![p] = point]
      BY <1>2 DEF Enter, Onboards, Rotates, Updates, Goto, GotoWith
    <2>2. lock = NoProcess /\ lock' = p /\ pc[p] = "enter"
      BY <1>2 DEF Enter
    <2>3. UNCHANGED <<mem, reply, file, serverVars, astray>>
      BY <1>2 DEF Enter
    <2>4. QED
      BY <2>1, <2>2, <2>3
  <1>3. ASSUME NEW p \in Processes, EnterFails(p) PROVE Quiet
    BY <1>3 DEF EnterFails, Return
  <1>4. ASSUME NEW p \in Processes, Leave(p) PROVE Quiet
    BY <1>4 DEF Leave, Return, GotoWith
  <1>5. ASSUME NEW p \in Processes, Send(p) PROVE Quiet
    BY <1>5 DEF Send, Composed, Goto
  <1>6. ASSUME NEW p \in Processes, ComposeFails(p) PROVE Quiet
    BY <1>6 DEF ComposeFails, Composed, GotoWith
  <1>7. ASSUME NEW p \in Processes, ServerRefuses(p) PROVE Quiet
    BY <1>7 DEF ServerRefuses, Goto
  <1>8. ASSUME NEW p \in Processes, ReceiveRefusal(p) PROVE Quiet
    BY <1>8 DEF ReceiveRefusal, GotoWith
  <1>9. ASSUME NEW p \in Processes, OpenToWrite(p) PROVE Quiet
    BY <1>9 DEF OpenToWrite, Goto, Unloadable
  <1>10. ASSUME NEW p \in Processes, LoadUpToDate(p) PROVE Quiet
    BY <1>10 DEF LoadUpToDate, GotoWith
  <1>11. ASSUME NEW p \in Processes, ExchangeSucceeds(p) PROVE Quiet
    BY <1>11 DEF ExchangeSucceeds, Return
  <1>12. ASSUME NEW p \in Processes, ExchangeUnauthorized(p) PROVE Quiet
    BY <1>12 DEF ExchangeUnauthorized, Goto
  <1>13. ASSUME NEW p \in Processes, ExchangeFails(p) PROVE Quiet
    BY <1>13 DEF ExchangeFails, Return
  <1>14. ASSUME NEW p \in Processes, TokenExpires(p) PROVE Quiet
    BY <1>14 DEF TokenExpires
  <1>15. ASSUME NEW m \in late, LateIsLost(m) PROVE Quiet
    BY <1>15 DEF LateIsLost
  <1>16. ASSUME KeyExpires PROVE Quiet
    BY <1>16 DEF KeyExpires
  <1>17. ASSUME NEW p \in Processes, GetAccessToken(p) PROVE Quiet
    <2>1. UNCHANGED <<mem, reply, lock, file, serverVars, astray>>
      BY <1>17, GetAccessTokenForm
    <2>2. CASE pc[p] = "renew" /\ Goto(p, "leave")
      BY <2>1, <2>2 DEF Goto
    <2>3. CASE pc[p] = "token" /\ Goto(p, "enter")
      BY <2>1, <2>3 DEF Goto
    <2>4. CASE pc[p] = "token" /\ Goto(p, "exchange_again")
      BY <2>1, <2>4 DEF Goto
    <2>5. CASE pc[p] = "token" /\ Return(p)
      BY <2>1, <2>5 DEF Return
    <2>6. QED
      BY <1>17, <2>2, <2>3, <2>4, <2>5, GetAccessTokenForm
  <1>18. CASE UNCHANGED vars
    BY <1>18 DEF vars
  <1> HIDE DEF Quiet, Filed, Brings, TypeOK, CriticalSection, RatInv, CarryInv, InsidePoints, RegistrationPoints, SavingPoints,
    serverVars, processVars, Credentials, Rats, NoRat, NoKey, NoCredentials
  <1>19. QED
    BY <1>1, <1>2, <1>3, <1>4, <1>5, <1>6, <1>7, <1>8, <1>9, <1>10, <1>11, <1>12, <1>13, <1>14, <1>15, <1>16, <1>17, <1>18
      DEF QuietStep, ExchangeData

\* Custody stutters.
LEMMA QuietStutters ==
    ASSUME TypeOK, Quiet
    PROVE  UNCHANGED AbstractCustody!vars
  <1>1. Running' = Running
    BY DEF Quiet, Running
  <1>2. Holders' = Holders
    BY DEF Quiet, Holders
  <1>3. Filed' = Filed
    BY DEF Quiet, Filed
  <1>4. Carriers' = Carriers
    BY DEF Quiet, Carriers
  <1>5. QED
    BY <1>1, <1>2, <1>3, <1>4 DEF Quiet, AbstractCustody!vars

-----------------------------------------------------------------------------
(***************************************************************************)
(* The steps Custody sees.                                                 *)
(***************************************************************************)

AbstractNext == [AbstractCustody!Next]_AbstractCustody!vars

\* What the lemmas assume of the state before a step.
Reachable == TypeOK /\ CriticalSection /\ CredentialsInCustody /\ RatInv /\ CarryInv

\* A new handle is a start: it has what the file has.
LEMMA InitializeRefines ==
    ASSUME Reachable, NEW p \in Processes, Initialize(p)
    PROVE  AbstractNext
  <1> USE RegistrationAssumptions DEF Reachable
  <1>1. /\ pc[p] = "gone" /\ pc' = [pc EXCEPT ![p] = "idle"]
        /\ UNCHANGED <<lock, reply, file, issued, astray>>
    BY DEF Initialize, Goto, serverVars
  <1>2. /\ \A q \in Processes \ {p} : mem'[q] = mem[q]
        /\ mem'[p].rat = file.rat
    BY InitializeForm DEF RatInv, NoCredentials, Initialize, TypeOK, Credentials, NoRat
  <1>3. Running' = Running \cup {p} /\ p \notin Running
    BY <1>1 DEF Running, TypeOK
  <1>4. Holders' = IF Filed THEN Holders \cup {p} ELSE Holders
    BY <1>1, <1>2 DEF Holders, Filed, RatInv, NoCredentials, NoRat
  <1>5. Filed' = Filed
    BY <1>1 DEF Filed
  <1>6. Carriers' = Carriers
    BY <1>1, <1>2 DEF Carriers, Brings, TypeOK, SavingPoints
  <1>7. QED
    BY <1>1, <1>3, <1>4, <1>5, <1>6
    DEF AbstractNext, AbstractCustody!Next, AbstractCustody!Start

\* A process that ends, of its own accord or not, takes with it what it carries.
LEMMA EndRefines ==
    ASSUME Reachable, NEW p \in Processes, Destroy(p) \/ Crash(p) \/ LoadFails(p)
    PROVE  AbstractNext
  <1> USE RegistrationAssumptions DEF Reachable
  <1>1. pc[p] # "gone" /\ Forget(p) /\ UNCHANGED <<file, issued>>
    BY DEF Destroy, Crash, LoadFails, serverVars
  <1>2. astray' = (astray \/ Unsaved(p))
    <2>1. CASE Crash(p)
      BY <2>1 DEF Crash
    <2>2. CASE Destroy(p) \/ LoadFails(p)
      <3>1. ~Unsaved(p) /\ astray' = astray
        BY <2>2 DEF Destroy, LoadFails, Unsaved, SavingPoints
      <3>2. QED
        BY <3>1 DEF TypeOK
    <2>3. QED
      BY <2>1, <2>2
  <1>3. p \in Carriers <=> Unsaved(p)
    BY DEF Carriers, Brings, Unsaved, CarryInv, CriticalSection, InsidePoints, RegistrationPoints,
      SavingPoints
  <1>4. Running' = Running \ {p} /\ p \in Running
    BY <1>1 DEF Forget, Running, TypeOK
  <1>5. Holders' = Holders \ {p}
    BY <1>1 DEF Forget, Holders, TypeOK, NoCredentials, NoRat
  <1>6. Filed' = Filed
    BY <1>1 DEF Filed
  <1>7. Carriers' = Carriers \ {p}
    BY <1>1 DEF Forget, Carriers, Brings, TypeOK, SavingPoints
  <1>8. issued' = issued
    BY <1>1
  <1>9. QED
    BY <1>2, <1>3, <1>4, <1>5, <1>6, <1>7, <1>8
    DEF AbstractNext, AbstractCustody!Next, AbstractCustody!End

\* What the server issues is nowhere else yet.
LEMMA IssueForgets ==
    ASSUME TypeOK, RatInv, NEW m, Issue(m), UNCHANGED <<mem, file>>
    PROVE  /\ issued' = issued + 1 /\ issued' # NoRat
           /\ Holders' = {} /\ Filed' = FALSE
  <1>1. issued' = issued + 1 /\ issued \in Nat
    BY RegistrationAssumptions DEF Issue, TypeOK, Rats
  <1>2. file'.rat # issued' /\ \A q \in Processes : mem'[q].rat # issued'
    BY <1>1 DEF RatInv, TypeOK, Credentials, Rats
  <1>3. QED
    BY <1>1, <1>2 DEF Holders, Filed, NoRat

\* The server registers only who has the last RAT, and only while none is on its way.
LEMMA ServerRegistersRefines ==
    ASSUME Reachable, NEW p \in Processes, ServerRegisters(p)
    PROVE  AbstractNext
  <1> USE RegistrationAssumptions DEF Reachable
  <1>1. pc[p] = "sent" /\ lock = p /\ Issue(mem[p]) /\ UNCHANGED <<mem, file, lock>>
    BY DEF ServerRegisters, CriticalSection, InsidePoints, RegistrationPoints
  <1>2. issued' = issued + 1 /\ Holders' = {} /\ Filed' = FALSE
    BY <1>1, IssueForgets
  <1>3. issued = 0 \/ p \in Holders
    BY <1>1 DEF Issue, Accepts, Holders, NoRat
  <1>4. Carriers = {}
    BY <1>1 DEF Carriers, Brings, SavingPoints
  <1>5. pc' = [pc EXCEPT ![p] = "answered"] /\ reply'[p].rat = issued'
    BY <1>2 DEF ServerRegisters, Goto, TypeOK
  <1>6. Carriers' = {p}
    BY <1>1, <1>5 DEF Carriers, Brings, TypeOK, SavingPoints
  <1>7. Running' = Running /\ p \in Running
    BY <1>1, <1>5 DEF Running, TypeOK
  <1>8. astray' = FALSE
    BY DEF ServerRegisters
  <1>9. QED
    BY <1>2, <1>3, <1>4, <1>6, <1>7, <1>8
    DEF AbstractNext, AbstractCustody!Next, AbstractCustody!Renew, AbstractCustody!Issue

\* Nor does a late request come in between.
LEMMA ServerRegistersLateRefines ==
    ASSUME Reachable, NEW m \in late, ServerRegistersLate(m)
    PROVE  AbstractNext
  <1> USE RegistrationAssumptions DEF Reachable
  <1>1. Issue(m) /\ UNCHANGED <<mem, file, lock, pc, reply>> /\ astray' = TRUE
    BY DEF ServerRegistersLate, processVars
  <1>2. issued' = issued + 1 /\ Holders' = {} /\ Filed' = FALSE
    BY <1>1, IssueForgets
  <1>3. \A q \in Processes : ~Unsaved(q)
    BY DEF CarryInv
  <1>4. Carriers = {} /\ Carriers' = {}
    BY <1>1, <1>3 DEF Carriers, Brings, Unsaved, SavingPoints
  <1>5. Running' = Running
    BY <1>1 DEF Running
  <1>6. QED
    BY <1>1, <1>2, <1>4, <1>5
    DEF AbstractNext, AbstractCustody!Next, AbstractCustody!RenewUnheard, AbstractCustody!Issue

\* The answer brings the RAT to the memory of the process.
LEMMA ReceiveRefines ==
    ASSUME Reachable, NEW p \in Processes, ReceiveRegistration(p)
    PROVE  AbstractNext
  <1> USE RegistrationAssumptions DEF Reachable
  <1>1. /\ pc[p] = "answered" /\ lock = p /\ pc' = [pc EXCEPT ![p] = "save"]
        /\ mem' = [mem EXCEPT ![p] = Answered(p)]
        /\ UNCHANGED <<lock, file, issued, astray>>
    BY DEF ReceiveRegistration, Goto, serverVars, CriticalSection, InsidePoints, RegistrationPoints
  <1>2. reply[p].rat = issued /\ issued # NoRat
    BY <1>1 DEF CarryInv, RatInv
  <1>3. Answered(p).rat = issued
    BY <1>2 DEF Answered, TypeOK, Credentials
  <1>4. Running' = Running
    BY <1>1 DEF Running, TypeOK
  <1>5. Holders' = Holders \cup {p}
    BY <1>1, <1>2, <1>3 DEF Holders, TypeOK
  <1>6. Filed' = Filed
    BY <1>1 DEF Filed
  <1>7. Carriers' = Carriers /\ p \in Carriers
    BY <1>1, <1>2, <1>3 DEF Carriers, Brings, TypeOK, SavingPoints
  <1>8. QED
    BY <1>1, <1>4, <1>5, <1>6, <1>7
    DEF AbstractNext, AbstractCustody!Next, AbstractCustody!Receive

\* Once a part of the last line is written the RAT is in the file.
LEMMA WriteRefines ==
    ASSUME Reachable, NEW p \in Processes, WritePart(p) \/ WriteAll(p)
    PROVE  AbstractNext
  <1> USE RegistrationAssumptions DEF Reachable
  <1>1. /\ pc[p] = "write" /\ lock = p /\ mem[p].rat = issued /\ issued # NoRat
        /\ UNCHANGED <<mem, reply, lock, issued, astray>>
    BY DEF WritePart, WriteAll, processVars, serverVars, CarryInv, RatInv, SavingPoints,
      CriticalSection, InsidePoints, RegistrationPoints
  <1>2. pc' = pc \/ pc' = [pc EXCEPT ![p] = "renew"]
    BY DEF WritePart, WriteAll, GotoWith, processVars
  <1>3. file'.rat = issued
    BY <1>1 DEF WritePart, WriteAll, TypeOK, Credentials
  <1>4. Running' = Running
    BY <1>1, <1>2 DEF Running, TypeOK
  <1>5. Holders' = Holders /\ p \in Holders
    BY <1>1 DEF Holders
  <1>6. Filed' = TRUE
    BY <1>1, <1>3 DEF Filed
  <1>7. Carriers' \in {Carriers, Carriers \ {p}} /\ p \in Carriers
    <2>1. p \in Carriers
      BY <1>1 DEF Carriers, Brings, SavingPoints
    <2>2. ASSUME pc' = pc PROVE Carriers' = Carriers
      BY <1>1, <2>2 DEF Carriers, Brings
    <2>3. ASSUME pc' = [pc EXCEPT ![p] = "renew"] PROVE Carriers' = Carriers \ {p}
      BY <1>1, <2>3 DEF Carriers, Brings, TypeOK, SavingPoints
    <2>4. QED
      BY <1>2, <2>1, <2>2, <2>3
  <1>8. QED
    BY <1>1, <1>4, <1>5, <1>6, <1>7
    DEF AbstractNext, AbstractCustody!Next, AbstractCustody!Deposit

\* A RAT that is not brought to the file counts as lost.
LEMMA LoseRefines ==
    ASSUME Reachable, NEW p \in Processes,
           \/ NoAnswer(p) \/ ReceiveMalformed(p)
           \/ OpenFails(p) \/ WriteFails(p) \/ CloseFails(p)
    PROVE  AbstractNext
  <1> USE RegistrationAssumptions DEF Reachable
  <1>1. /\ UNCHANGED <<mem, lock, file, issued>> /\ astray' = (astray \/ Unsaved(p))
        /\ pc[p] \in {"sent", "answered", "refused"} \cup SavingPoints
    BY DEF NoAnswer, ReceiveMalformed, OpenFails, WriteFails, CloseFails, NotSaved, serverVars,
      SavingPoints
  <1>2. pc' = [pc EXCEPT ![p] = "leave"] \/ pc' = [pc EXCEPT ![p] = "renew"]
    BY DEF NoAnswer, ReceiveMalformed, OpenFails, WriteFails, CloseFails, NotSaved, GotoWith
  <1>3. \A q \in Processes \ {p} : reply'[q] = reply[q]
    BY DEF NoAnswer, ReceiveMalformed, OpenFails, WriteFails, CloseFails, NotSaved, TypeOK
  <1>4. lock = p
    BY <1>1 DEF CriticalSection, InsidePoints, RegistrationPoints
  <1>5. p \in Carriers <=> Unsaved(p)
    BY <1>4 DEF Carriers, Brings, Unsaved, CarryInv, SavingPoints
  <1>6. Running' = Running
    BY <1>1, <1>2 DEF Running, TypeOK, SavingPoints
  <1>7. Holders' = Holders /\ Filed' = Filed
    BY <1>1 DEF Holders, Filed
  <1>8. Carriers' = Carriers \ {p}
    BY <1>1, <1>2, <1>3, <1>4 DEF Carriers, Brings, TypeOK, SavingPoints
  <1>9. CASE Unsaved(p)
    BY <1>1, <1>5, <1>6, <1>7, <1>8, <1>9
    DEF AbstractNext, AbstractCustody!Next, AbstractCustody!Lose
  <1>10. CASE ~Unsaved(p)
    <2>1. Carriers' = Carriers /\ astray' = astray
      BY <1>1, <1>5, <1>8, <1>10 DEF TypeOK
    <2>2. QED
      BY <1>1, <1>6, <1>7, <2>1 DEF AbstractNext, AbstractCustody!vars
  <1>11. QED
    BY <1>9, <1>10

\* Updating brings the last RAT to the process, unless it was lost before.
LEMMA LoadReplacesRefines ==
    ASSUME Reachable, NEW p \in Processes, LoadReplaces(p)
    PROVE  AbstractNext
  <1> USE RegistrationAssumptions DEF Reachable
  <1>1. /\ pc[p] = "load" /\ lock = p /\ file.rat # NoRat /\ file.rat <= issued /\ issued \in Nat
        /\ UNCHANGED <<reply, lock, file, issued, astray>>
        /\ pc' = [pc EXCEPT ![p] = "renew"]
    BY DEF LoadReplaces, GotoWith, serverVars, CriticalSection, InsidePoints, RatInv, TypeOK, Rats
  <1>2. /\ mem'[p].rat = file.rat
        /\ \A q \in Processes \ {p} : mem'[q] = mem[q]
    BY DEF LoadReplaces, TypeOK, Credentials
  <1>3. Running' = Running /\ p \in Running
    BY <1>1 DEF Running, TypeOK
  <1>4. Filed' = Filed
    BY <1>1 DEF Filed
  <1>5. Carriers = {} /\ Carriers' = {}
    BY <1>1 DEF Carriers, Brings, TypeOK, SavingPoints
  <1>6. issued # NoRat
    BY <1>1 DEF RatInv, TypeOK, Credentials, Rats, NoRat
  <1>7. CASE Filed
    <2>1. Holders' = Holders \cup {p}
      BY <1>1, <1>2, <1>7 DEF Holders, Filed
    <2>2. QED
      BY <1>1, <1>3, <1>4, <1>5, <1>7, <2>1
      DEF AbstractNext, AbstractCustody!Next, AbstractCustody!Learn
  <1>8. CASE ~Filed
    <2>1. Holders' = Holders \ {p}
      BY <1>1, <1>2, <1>8 DEF Holders, Filed
    <2>2. astray
      BY <1>1, <1>5, <1>6, <1>8 DEF CredentialsInCustody, Carriers, Filed
    <2>3. QED
      BY <1>1, <1>3, <1>4, <1>5, <1>8, <2>1, <2>2
      DEF AbstractNext, AbstractCustody!Next, AbstractCustody!Mistake
  <1>9. QED
    BY <1>7, <1>8

-----------------------------------------------------------------------------
(***************************************************************************)
(* The theorem.                                                            *)
(***************************************************************************)

LEMMA StepRefines ==
    ASSUME Reachable, [Next]_vars
    PROVE  AbstractNext
  <1>1. CASE QuietStep
    BY <1>1, QuietSteps, QuietStutters DEF AbstractNext, Reachable
  <1>2. CASE ~QuietStep
    BY <1>2, InitializeRefines, EndRefines, ServerRegistersRefines, ServerRegistersLateRefines,
      ReceiveRefines, WriteRefines, LoseRefines, LoadReplacesRefines
    DEF QuietStep, Next, Advance, Register, Update
  <1>3. QED
    BY <1>1, <1>2

\* CarryInv holds throughout, along with the invariant of RegistrationProofs.
LEMMA CarryInvariance == Spec => []CarryInv
  <1>1. Init => CarryInv
    BY DEF Init, CarryInv, Unsaved, SavingPoints
  <1>2. IInv /\ CarryInv /\ [Next]_vars => CarryInv'
    BY CarryStep DEF IInv
  <1>3. QED
    BY <1>1, <1>2, Invariance, PTL DEF Spec

\* However many processes share a file, and whatever fails: the last registration
\* access token is at one process on its way to the file, in the file, or lost on that
\* way; nobody registers without it (communication.c, http_processor.c, storage.c).
THEOREM KeepsCustody == Spec => ImplementsCustody
  <1>1. Init => AbstractCustody!Init
    BY DEF Init, AbstractCustody!Init, Running, Holders, Filed, Carriers, Brings, NoRat,
      SavingPoints
  <1>2. IInv /\ CarryInv /\ [Next]_vars => [AbstractCustody!Next]_AbstractCustody!vars
    BY StepRefines DEF IInv, Reachable, AbstractNext
  <1>3. QED
    BY <1>1, <1>2, Invariance, CarryInvariance, PTL DEF Spec, ImplementsCustody, AbstractCustody!Spec

=============================================================================
