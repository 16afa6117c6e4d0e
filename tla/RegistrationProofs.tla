-------------------------- MODULE RegistrationProofs --------------------------
(***************************************************************************)
(* For every number of processes and every bound: the types, the critical  *)
(* section, and what becomes of the credentials.                           *)
(***************************************************************************)
EXTENDS Registration, TLAPS

(***************************************************************************)
(* The inductive invariant.                                                *)
(***************************************************************************)

\* What the server takes.
Registered == [key |-> current, rat |-> issued, uri |-> TRUE]

\* A process that is saving saves what the server takes; one that returns MCL_OK from
\* a registration has it, and has seen it to the file.
SavingInv ==
    \/ astray
    \/ \A p \in Processes :
        /\ pc[p] = "answered" => Answered(p) = Registered
        /\ pc[p] \in SavingPoints => mem[p] = Registered
        /\ (pc[p] \in {"renew", "leave"} /\ result[p] = "MCL_OK" /\ task[p] # "update")
             => mem[p] = Registered /\ file = Registered

\* update_security_information does not register, and nothing else loads.
TaskInv ==
    \A p \in Processes :
        /\ pc[p] = "load" => task[p] = "update"
        /\ pc[p] \in RegistrationPoints => task[p] # "update"

\* Nobody has a RAT from the future, and a RAT comes with a key.
RatInv ==
    /\ issued = NoRat => current = NoKey
    /\ file.rat <= issued
    /\ file.rat = NoRat <=> file.key = NoKey
    /\ \A p \in Processes :
        /\ mem[p].rat <= issued
        /\ reply[p].rat <= issued
        /\ mem[p].rat # NoRat => mem[p].key # NoKey
        /\ pc[p] = "gone" => mem[p] = NoCredentials
        /\ pc[p] = "answered" => reply[p].rat # NoRat /\ Answered(p).key # NoKey
        /\ pc[p] \in SavingPoints => mem[p].rat # NoRat

\* What is about to be saved matches.
PairInv ==
    \A p \in Processes :
        /\ (pc[p] = "answered" /\ reply[p].rat = issued) => Answered(p).key = current
        /\ (pc[p] \in SavingPoints /\ mem[p].rat = issued) => mem[p].key = current

\* p has generated its key for a registration that is not finished.
Private(p) == pc[p] # "gone" /\ (mem[p].rat = NoRat \/ pc[p] \in {"sent", "answered"})

\* A private key that two have comes with the same RAT, and neither is Private.
KeyInv ==
    RSA =>
        /\ \A p \in Processes : pc[p] # "gone" => mem[p].key # NoKey
        /\ \A p \in Processes :
            (file.key = mem[p].key /\ file.key # NoKey)
                => file.rat = mem[p].rat /\ ~Private(p)
        /\ \A p, q \in Processes :
            (p # q /\ mem[p].key = mem[q].key /\ mem[p].key # NoKey)
                => mem[p].rat = mem[q].rat /\ ~Private(p)

IInv ==
    /\ TypeOK
    /\ CriticalSection
    /\ TaskInv
    /\ SavingInv
    /\ CredentialsInCustody
    /\ RatInv
    /\ PairInv
    /\ PairsMatch
    /\ KeyInv
    /\ UpdateIsCurrent

-----------------------------------------------------------------------------
(***************************************************************************)
(* Facts about the definitions.                                            *)
(***************************************************************************)

\* A generated key is nobody else's.
LEMMA NewKeyFresh ==
    ASSUME AKeyIsLeft
    PROVE  /\ NewKey \in Keys
           /\ NewKey # NoKey
           /\ file.key # NewKey
           /\ \A q \in Processes : mem[q].key # NewKey
  <1>1. NewKey \in Keys /\ NewKey \notin KeysInUse
    BY DEF AKeyIsLeft, NewKey
  <1>2. QED
    BY <1>1 DEF KeysInUse, Keys, NoKey

\* Nothing loaded, and nothing to load, are credentials.
LEMMA NoCredentialsTyped ==
    /\ Unloadable \in Credentials
    /\ NoCredentials \in Credentials
  BY RegistrationAssumptions
  DEF Unloadable, NoCredentials, Credentials, NoRat, NoKey, Rats

\* What the server issues is well typed, within the bound on RATs.
LEMMA RegisteredKeyTyped ==
    ASSUME TypeOK, NEW m \in Credentials, Accepts(m)
    PROVE  /\ RegisteredKey(m) \in Keys \cup {NoKey}
           /\ issued + 1 \in Rats
           /\ [key |-> RegisteredKey(m), rat |-> issued + 1, uri |-> TRUE] \in Credentials
  BY RegistrationAssumptions DEF TypeOK, RegisteredKey, Accepts, Credentials, Rats, Keys

\* So is what is in memory once a registration is composed.
LEMMA ComposedTyped ==
    ASSUME TypeOK, NEW p \in Processes, RSA => AKeyIsLeft
    PROVE  Composed(p) \in Credentials
  <1>1. mem[p] \in Credentials
    BY DEF TypeOK
  <1>2. CASE RSA /\ IsOnboarded(p)
    <2>1. Composed(p) = [mem[p] EXCEPT !.key = NewKey] /\ NewKey \in Keys
      BY <1>2, NewKeyFresh DEF Composed
    <2>2. QED
      BY <1>1, <2>1 DEF Credentials
  <1>3. CASE ~(RSA /\ IsOnboarded(p))
    BY <1>1, <1>3 DEF Composed
  <1>4. QED
    BY <1>2, <1>3

\* So is what is in the file while only a part of it is written.
LEMMA PartTyped ==
    ASSUME TypeOK, NEW p \in Processes
    PROVE  [mem[p] EXCEPT !.uri = FALSE] \in Credentials
  <1>1. mem[p] \in Credentials
    BY DEF TypeOK
  <1>2. QED
    BY <1>1 DEF Credentials

\* A new handle takes the file, nothing, or a key nobody has.
LEMMA InitializeForm ==
    ASSUME TypeOK, NEW p \in Processes, Initialize(p)
    PROVE  /\ mem' \in [Processes -> Credentials]
           /\ \A q \in Processes \ {p} : mem'[q] = mem[q]
           /\ \/ mem'[p] = file /\ file.rat # NoRat
              \/ ~RSA /\ mem'[p] = mem[p]
              \/ /\ RSA
                 /\ mem'[p].rat = mem[p].rat
                 /\ mem'[p].key # NoKey
                 /\ mem'[p].key # file.key
                 /\ \A q \in Processes : mem[q].key # mem'[p].key
  <1>1. CASE file.rat # NoRat /\ mem' = [mem EXCEPT ![p] = file]
    BY <1>1 DEF TypeOK
  <1>2. CASE ~RSA /\ UNCHANGED mem
    BY <1>2 DEF TypeOK
  <1>3. CASE RSA /\ AKeyIsLeft /\ mem' = [mem EXCEPT ![p].key = NewKey]
    <2>1. mem \in [Processes -> Credentials] /\ mem[p] \in Credentials
      BY DEF TypeOK
    <2>2. mem'[p] = [mem[p] EXCEPT !.key = NewKey]
      BY <1>3, <2>1
    <2>3. /\ mem'[p] \in Credentials
          /\ mem'[p].key = NewKey
          /\ mem'[p].rat = mem[p].rat
      BY <1>3, <2>1, <2>2, NewKeyFresh DEF Credentials
    <2>4. QED
      BY <1>3, <2>1, <2>3, NewKeyFresh
  <1>4. QED
    BY <1>1, <1>2, <1>3 DEF Initialize

\* update_security_information takes key and RAT from the file.
LEMMA LoadReplacesForm ==
    ASSUME TypeOK, NEW p \in Processes, LoadReplaces(p)
    PROVE  /\ mem' \in [Processes -> Credentials]
           /\ \A q \in Processes \ {p} : mem'[q] = mem[q]
           /\ mem'[p].key = file.key
           /\ mem'[p].rat = file.rat
  <1>1. file \in Credentials /\ mem[p] \in Credentials /\ mem \in [Processes -> Credentials]
    BY DEF TypeOK
  <1>2. mem'[p] = [mem[p] EXCEPT !.key = file.key, !.rat = file.rat]
    BY <1>1 DEF LoadReplaces
  <1>3. /\ mem'[p] \in Credentials
        /\ mem'[p].key = file.key
        /\ mem'[p].rat = file.rat
    BY <1>1, <1>2 DEF Credentials
  <1>4. QED
    BY <1>1, <1>3 DEF LoadReplaces

\* What the answer puts into memory, field by field.
LEMMA AnsweredForm ==
    ASSUME TypeOK, NEW p \in Processes
    PROVE  /\ Answered(p) \in Credentials
           /\ Answered(p).rat = reply[p].rat
           /\ Answered(p).uri = reply[p].uri
           /\ Answered(p).key = IF RSA THEN mem[p].key ELSE reply[p].key
  BY DEF TypeOK, Answered, Credentials

\* The three outcomes of http_processor_get_access_token move the call alike.
LEMMA GetAccessTokenForm ==
    ASSUME NEW p \in Processes, GetAccessToken(p)
    PROVE  /\ UNCHANGED <<profile, mem, reply, lock, file, serverVars, astray>>
           /\ \E b \in BOOLEAN : access_token' = [access_token EXCEPT ![p] = b]
           /\ \/ pc[p] = "renew" /\ Goto(p, "leave")
              \/ pc[p] = "token" /\ Goto(p, "enter")
              \/ pc[p] = "token" /\ Goto(p, "exchange_again")
              \/ pc[p] = "token" /\ Return(p)
  <1>1. CASE TokenGranted(p)
    BY <1>1 DEF TokenGranted, AfterToken
  <1>2. CASE TokenRefused(p)
    BY <1>2 DEF TokenRefused, AfterToken
  <1>3. CASE TokenFails(p)
    BY <1>3 DEF TokenFails, AfterToken
  <1>4. QED
    BY <1>1, <1>2, <1>3 DEF GetAccessToken

-----------------------------------------------------------------------------
(***************************************************************************)
(* Types, and the critical section.                                        *)
(***************************************************************************)

\* Every step keeps the types.
LEMMA TypeStep ==
    ASSUME TypeOK, [Next]_vars
    PROVE  TypeOK'
  <1> USE RegistrationAssumptions DEF TypeOK, serverVars, processVars, Points,
    InsidePoints, RegistrationPoints, SavingPoints, Results, Tasks, NoCredentials,
    Unloadable, Rats, Keys, NoRat, NoKey
  <1>0. NoCredentials \in Credentials
    BY DEF Credentials
  <1>1. ASSUME NEW p \in Processes, Initialize(p) PROVE TypeOK'
    <2>1. /\ mem' \in [Processes -> Credentials]
          /\ \A q \in Processes \ {p} : mem'[q] = mem[q]
          /\ \/ mem'[p] = file /\ file.rat # NoRat
             \/ ~RSA /\ mem'[p] = mem[p]
             \/ /\ RSA
                /\ mem'[p].rat = mem[p].rat
                /\ mem'[p].key # NoKey
                /\ mem'[p].key # file.key
                /\ \A q \in Processes : mem[q].key # mem'[p].key
      BY <1>1, InitializeForm
    <2>2. QED
      BY <1>1, <2>1 DEF Initialize, Goto
  <1>2. ASSUME NEW p \in Processes, Destroy(p) PROVE TypeOK'
    BY <1>0, <1>2 DEF Destroy, Forget
  <1>3. ASSUME NEW p \in Processes, Crash(p) PROVE TypeOK'
    BY <1>0, <1>3 DEF Crash, Forget, Unsaved, MayBeLate
  <1>4. ASSUME NEW p \in Processes, NEW t \in Calls, CallTask(p, t) PROVE TypeOK'
    BY <1>4 DEF CallTask
  <1>5. ASSUME NEW p \in Processes, Enter(p) PROVE TypeOK'
    <2>1. CASE Onboards(p)
      <3>1. CASE IsOnboarded(p)
        BY <1>5, <2>1, <3>1 DEF Enter, Onboards, GotoWith
      <3>2. CASE ~IsOnboarded(p)
        BY <1>5, <2>1, <3>2 DEF Enter, Onboards, Goto
      <3>3. QED
        BY <3>1, <3>2
    <2>2. CASE Rotates(p)
      BY <1>5, <2>2 DEF Enter, Rotates, Goto, GotoWith
    <2>3. CASE Updates(p)
      BY <1>5, <2>3 DEF Enter, Updates, Goto, GotoWith
    <2>4. QED
      BY <1>5, <2>1, <2>2, <2>3 DEF Enter
  <1>6. ASSUME NEW p \in Processes, EnterFails(p) PROVE TypeOK'
    BY <1>6 DEF EnterFails, Return
  <1>7. ASSUME NEW p \in Processes, Leave(p) PROVE TypeOK'
    <2>1. CASE GotoWith(p, "exchange_again", "none")
      BY <1>7, <2>1 DEF Leave, GotoWith
    <2>2. CASE Return(p)
      BY <1>7, <2>2 DEF Leave, Return
    <2>3. QED
      BY <1>7, <2>1, <2>2 DEF Leave
  <1>8. ASSUME NEW p \in Processes, Send(p) PROVE TypeOK'
    <2>1. Composed(p) \in Credentials
      BY <1>8, ComposedTyped DEF Send
    <2>2. QED
      BY <1>8, <2>1 DEF Send, Goto
  <1>9. ASSUME NEW p \in Processes, ComposeFails(p) PROVE TypeOK'
    <2>1. Composed(p) \in Credentials
      BY <1>9, ComposedTyped DEF ComposeFails
    <2>2. QED
      BY <1>9, <2>1 DEF ComposeFails, GotoWith
  <1>10. ASSUME NEW p \in Processes, ServerRegisters(p) PROVE TypeOK'
    <2>1. mem[p] \in Credentials /\ Accepts(mem[p])
      BY <1>10 DEF ServerRegisters, Issue
    <2>2. /\ RegisteredKey(mem[p]) \in Keys \cup {NoKey}
          /\ issued + 1 \in Rats
          /\ [key |-> RegisteredKey(mem[p]), rat |-> issued + 1, uri |-> TRUE] \in Credentials
      <3> HIDE DEF TypeOK, Rats, Keys, NoKey
      <3>1. QED
        BY <2>1, RegisteredKeyTyped
    <2>3. QED
      BY <1>10, <2>2 DEF ServerRegisters, Issue, Goto
  <1>11. ASSUME NEW p \in Processes, ServerRefuses(p) PROVE TypeOK'
    BY <1>11 DEF ServerRefuses, Goto
  <1>12. ASSUME NEW p \in Processes, NoAnswer(p) PROVE TypeOK'
    BY <1>0, <1>12 DEF NoAnswer, GotoWith, Unsaved, MayBeLate
  <1>13. ASSUME NEW p \in Processes, ReceiveRefusal(p) PROVE TypeOK'
    BY <1>13 DEF ReceiveRefusal, GotoWith
  <1>14. ASSUME NEW p \in Processes, ReceiveRegistration(p) PROVE TypeOK'
    <2>1. Answered(p) \in Credentials
      BY AnsweredForm
    <2>2. QED
      BY <1>0, <1>14, <2>1 DEF ReceiveRegistration, Goto
  <1>15. ASSUME NEW p \in Processes, ReceiveMalformed(p) PROVE TypeOK'
    BY <1>0, <1>15 DEF ReceiveMalformed, GotoWith, Unsaved
  <1>16. ASSUME NEW p \in Processes, OpenFails(p) PROVE TypeOK'
    BY <1>16 DEF OpenFails, NotSaved, GotoWith, Unsaved
  <1>17. ASSUME NEW p \in Processes, OpenToWrite(p) PROVE TypeOK'
    BY <1>0, <1>17 DEF OpenToWrite, Goto
  <1>18. ASSUME NEW p \in Processes, WritePart(p) PROVE TypeOK'
    <2>1. [mem[p] EXCEPT !.uri = FALSE] \in Credentials
      BY PartTyped
    <2>2. QED
      BY <1>18, <2>1 DEF WritePart
  <1>19. ASSUME NEW p \in Processes, WriteAll(p) PROVE TypeOK'
    BY <1>19 DEF WriteAll, GotoWith
  <1>20. ASSUME NEW p \in Processes, WriteFails(p) PROVE TypeOK'
    BY <1>20 DEF WriteFails, NotSaved, GotoWith, Unsaved
  <1>21. ASSUME NEW p \in Processes, CloseFails(p) PROVE TypeOK'
    BY <1>21 DEF CloseFails, GotoWith, Unsaved
  <1>22. ASSUME NEW p \in Processes, LoadUpToDate(p) PROVE TypeOK'
    BY <1>22 DEF LoadUpToDate, GotoWith
  <1>23. ASSUME NEW p \in Processes, LoadReplaces(p) PROVE TypeOK'
    <2>1. /\ mem' \in [Processes -> Credentials]
          /\ \A q \in Processes \ {p} : mem'[q] = mem[q]
          /\ mem'[p].key = file.key
          /\ mem'[p].rat = file.rat
      BY <1>23, LoadReplacesForm
    <2>2. QED
      BY <1>23, <2>1 DEF LoadReplaces, GotoWith
  <1>24. ASSUME NEW p \in Processes, LoadFails(p) PROVE TypeOK'
    BY <1>0, <1>24 DEF LoadFails, Forget
  <1>25. ASSUME NEW p \in Processes, GetAccessToken(p) PROVE TypeOK'
    <2>1. /\ UNCHANGED <<profile, mem, reply, lock, file, serverVars, astray>>
          /\ \E b \in BOOLEAN : access_token' = [access_token EXCEPT ![p] = b]
      BY <1>25, GetAccessTokenForm
    <2>2. CASE pc[p] = "renew" /\ Goto(p, "leave")
      BY <2>1, <2>2 DEF Goto
    <2>3. CASE pc[p] = "token" /\ Goto(p, "enter")
      BY <2>1, <2>3 DEF Goto
    <2>4. CASE pc[p] = "token" /\ Goto(p, "exchange_again")
      BY <2>1, <2>4 DEF Goto
    <2>5. CASE pc[p] = "token" /\ Return(p)
      BY <2>1, <2>5 DEF Return
    <2>6. QED
      BY <1>25, <2>2, <2>3, <2>4, <2>5, GetAccessTokenForm
  <1>26. ASSUME NEW p \in Processes, ExchangeSucceeds(p) PROVE TypeOK'
    BY <1>26 DEF ExchangeSucceeds, Return
  <1>27. ASSUME NEW p \in Processes, ExchangeUnauthorized(p) PROVE TypeOK'
    BY <1>27 DEF ExchangeUnauthorized, Goto
  <1>28. ASSUME NEW p \in Processes, ExchangeFails(p) PROVE TypeOK'
    BY <1>28 DEF ExchangeFails, Return
  <1>29. ASSUME NEW p \in Processes, TokenExpires(p) PROVE TypeOK'
    BY <1>29 DEF TokenExpires
  <1>30. ASSUME NEW m \in late, ServerRegistersLate(m) PROVE TypeOK'
    <2>1. m \in Credentials
      BY <1>30
    <2>2. RegisteredKey(m) \in Keys \cup {NoKey} /\ issued + 1 \in Rats
      BY <1>30, <2>1, RegisteredKeyTyped DEF ServerRegistersLate, Issue
    <2>3. QED
      BY <1>30, <2>2 DEF ServerRegistersLate, Issue
  <1>31. ASSUME NEW m \in late, LateIsLost(m) PROVE TypeOK'
    BY <1>31 DEF LateIsLost
  <1>32. ASSUME KeyExpires PROVE TypeOK'
    BY <1>32 DEF KeyExpires
  <1>33. CASE UNCHANGED vars
    BY <1>33 DEF vars
  <1> HIDE DEF TypeOK, serverVars, processVars, Points, InsidePoints,
    RegistrationPoints, SavingPoints, Results, Tasks, NoCredentials, Unloadable,
    Credentials, Rats, Keys, NoRat, NoKey
  <1>34. QED
    BY <1>1, <1>2, <1>3, <1>4, <1>5, <1>6, <1>7, <1>8, <1>9, <1>10, <1>11,
      <1>12, <1>13, <1>14, <1>15, <1>16, <1>17, <1>18, <1>19, <1>20, <1>21, <1>22,
      <1>23, <1>24, <1>25, <1>26, <1>27, <1>28, <1>29, <1>30, <1>31, <1>32, <1>33
      DEF Next, Advance, Register, Update, ExchangeData

\* Every step leaves the lock with the process inside, if there is one.
LEMMA CriticalSectionStep ==
    ASSUME TypeOK, CriticalSection, [Next]_vars
    PROVE  CriticalSection'
  <1> USE RegistrationAssumptions DEF CriticalSection, TypeOK, serverVars, processVars,
    Points, InsidePoints, RegistrationPoints, SavingPoints, Results, Tasks,
    NoCredentials, Unloadable
  <1>1. ASSUME NEW p \in Processes, Initialize(p) PROVE CriticalSection'
    BY <1>1 DEF Initialize, Goto
  <1>2. ASSUME NEW p \in Processes, Destroy(p) PROVE CriticalSection'
    BY <1>2 DEF Destroy, Forget
  <1>3. ASSUME NEW p \in Processes, Crash(p) PROVE CriticalSection'
    BY <1>3 DEF Crash, Forget, Unsaved, MayBeLate
  <1>4. ASSUME NEW p \in Processes, NEW t \in Calls, CallTask(p, t) PROVE CriticalSection'
    BY <1>4 DEF CallTask
  <1>5. ASSUME NEW p \in Processes, Enter(p) PROVE CriticalSection'
    BY <1>5 DEF Enter, Onboards, Rotates, Updates, Goto, GotoWith, IsOnboarded
  <1>6. ASSUME NEW p \in Processes, EnterFails(p) PROVE CriticalSection'
    BY <1>6 DEF EnterFails, Return
  <1>7. ASSUME NEW p \in Processes, Leave(p) PROVE CriticalSection'
    BY <1>7 DEF Leave, Return, GotoWith
  <1>8. ASSUME NEW p \in Processes, Send(p) PROVE CriticalSection'
    BY <1>8 DEF Send, Composed, Goto
  <1>9. ASSUME NEW p \in Processes, ComposeFails(p) PROVE CriticalSection'
    BY <1>9 DEF ComposeFails, Composed, GotoWith
  <1>10. ASSUME NEW p \in Processes, ServerRegisters(p) PROVE CriticalSection'
    BY <1>10 DEF ServerRegisters, Issue, Goto, Accepts, RegisteredKey
  <1>11. ASSUME NEW p \in Processes, ServerRefuses(p) PROVE CriticalSection'
    BY <1>11 DEF ServerRefuses, Goto
  <1>12. ASSUME NEW p \in Processes, NoAnswer(p) PROVE CriticalSection'
    BY <1>12 DEF NoAnswer, GotoWith, Unsaved, MayBeLate
  <1>13. ASSUME NEW p \in Processes, ReceiveRefusal(p) PROVE CriticalSection'
    BY <1>13 DEF ReceiveRefusal, GotoWith
  <1>14. ASSUME NEW p \in Processes, ReceiveRegistration(p) PROVE CriticalSection'
    BY <1>14 DEF ReceiveRegistration, Answered, Goto
  <1>15. ASSUME NEW p \in Processes, ReceiveMalformed(p) PROVE CriticalSection'
    BY <1>15 DEF ReceiveMalformed, GotoWith, Unsaved
  <1>16. ASSUME NEW p \in Processes, OpenFails(p) PROVE CriticalSection'
    BY <1>16 DEF OpenFails, NotSaved, GotoWith, Unsaved
  <1>17. ASSUME NEW p \in Processes, OpenToWrite(p) PROVE CriticalSection'
    BY <1>17 DEF OpenToWrite, Goto
  <1>18. ASSUME NEW p \in Processes, WritePart(p) PROVE CriticalSection'
    BY <1>18 DEF WritePart
  <1>19. ASSUME NEW p \in Processes, WriteAll(p) PROVE CriticalSection'
    BY <1>19 DEF WriteAll, GotoWith
  <1>20. ASSUME NEW p \in Processes, WriteFails(p) PROVE CriticalSection'
    BY <1>20 DEF WriteFails, NotSaved, GotoWith, Unsaved
  <1>21. ASSUME NEW p \in Processes, CloseFails(p) PROVE CriticalSection'
    BY <1>21 DEF CloseFails, GotoWith, Unsaved
  <1>22. ASSUME NEW p \in Processes, LoadUpToDate(p) PROVE CriticalSection'
    BY <1>22 DEF LoadUpToDate, GotoWith
  <1>23. ASSUME NEW p \in Processes, LoadReplaces(p) PROVE CriticalSection'
    BY <1>23 DEF LoadReplaces, GotoWith
  <1>24. ASSUME NEW p \in Processes, LoadFails(p) PROVE CriticalSection'
    BY <1>24 DEF LoadFails, Forget
  <1>25. ASSUME NEW p \in Processes, GetAccessToken(p) PROVE CriticalSection'
    <2>1. /\ UNCHANGED <<profile, mem, reply, lock, file, serverVars, astray>>
          /\ \E b \in BOOLEAN : access_token' = [access_token EXCEPT ![p] = b]
      BY <1>25, GetAccessTokenForm
    <2>2. CASE pc[p] = "renew" /\ Goto(p, "leave")
      BY <2>1, <2>2 DEF Goto
    <2>3. CASE pc[p] = "token" /\ Goto(p, "enter")
      BY <2>1, <2>3 DEF Goto
    <2>4. CASE pc[p] = "token" /\ Goto(p, "exchange_again")
      BY <2>1, <2>4 DEF Goto
    <2>5. CASE pc[p] = "token" /\ Return(p)
      BY <2>1, <2>5 DEF Return
    <2>6. QED
      BY <1>25, <2>2, <2>3, <2>4, <2>5, GetAccessTokenForm
  <1>26. ASSUME NEW p \in Processes, ExchangeSucceeds(p) PROVE CriticalSection'
    BY <1>26 DEF ExchangeSucceeds, Return
  <1>27. ASSUME NEW p \in Processes, ExchangeUnauthorized(p) PROVE CriticalSection'
    BY <1>27 DEF ExchangeUnauthorized, Goto
  <1>28. ASSUME NEW p \in Processes, ExchangeFails(p) PROVE CriticalSection'
    BY <1>28 DEF ExchangeFails, Return
  <1>29. ASSUME NEW p \in Processes, TokenExpires(p) PROVE CriticalSection'
    BY <1>29 DEF TokenExpires
  <1>30. ASSUME NEW m \in late, ServerRegistersLate(m) PROVE CriticalSection'
    BY <1>30 DEF ServerRegistersLate, Issue, Accepts, RegisteredKey
  <1>31. ASSUME NEW m \in late, LateIsLost(m) PROVE CriticalSection'
    BY <1>31 DEF LateIsLost
  <1>32. ASSUME KeyExpires PROVE CriticalSection'
    BY <1>32 DEF KeyExpires
  <1>33. CASE UNCHANGED vars
    BY <1>33 DEF vars
  <1> HIDE DEF CriticalSection, TypeOK, serverVars, processVars, Points, InsidePoints,
    RegistrationPoints, SavingPoints, Results, Tasks, NoCredentials, Unloadable
  <1>34. QED
    BY <1>1, <1>2, <1>3, <1>4, <1>5, <1>6, <1>7, <1>8, <1>9, <1>10, <1>11,
      <1>12, <1>13, <1>14, <1>15, <1>16, <1>17, <1>18, <1>19, <1>20, <1>21, <1>22,
      <1>23, <1>24, <1>25, <1>26, <1>27, <1>28, <1>29, <1>30, <1>31, <1>32, <1>33
      DEF Next, Advance, Register, Update, ExchangeData

\* A call stays in the code of its function.
LEMMA TaskStep ==
    ASSUME TypeOK, TaskInv, [Next]_vars
    PROVE  TaskInv'
  <1> USE RegistrationAssumptions DEF TaskInv, TypeOK, serverVars, processVars, Points,
    InsidePoints, RegistrationPoints, SavingPoints, Results, Tasks, NoCredentials,
    Unloadable
  <1>1. ASSUME NEW p \in Processes, Initialize(p) PROVE TaskInv'
    BY <1>1 DEF Initialize, Goto
  <1>2. ASSUME NEW p \in Processes, Destroy(p) PROVE TaskInv'
    BY <1>2 DEF Destroy, Forget
  <1>3. ASSUME NEW p \in Processes, Crash(p) PROVE TaskInv'
    BY <1>3 DEF Crash, Forget, Unsaved, MayBeLate
  <1>4. ASSUME NEW p \in Processes, NEW t \in Calls, CallTask(p, t) PROVE TaskInv'
    BY <1>4 DEF CallTask
  <1>5. ASSUME NEW p \in Processes, Enter(p) PROVE TaskInv'
    BY <1>5 DEF Enter, Onboards, Rotates, Updates, Goto, GotoWith, IsOnboarded
  <1>6. ASSUME NEW p \in Processes, EnterFails(p) PROVE TaskInv'
    BY <1>6 DEF EnterFails, Return
  <1>7. ASSUME NEW p \in Processes, Leave(p) PROVE TaskInv'
    BY <1>7 DEF Leave, Return, GotoWith
  <1>8. ASSUME NEW p \in Processes, Send(p) PROVE TaskInv'
    BY <1>8 DEF Send, Composed, Goto
  <1>9. ASSUME NEW p \in Processes, ComposeFails(p) PROVE TaskInv'
    BY <1>9 DEF ComposeFails, Composed, GotoWith
  <1>10. ASSUME NEW p \in Processes, ServerRegisters(p) PROVE TaskInv'
    BY <1>10 DEF ServerRegisters, Issue, Goto, Accepts, RegisteredKey
  <1>11. ASSUME NEW p \in Processes, ServerRefuses(p) PROVE TaskInv'
    BY <1>11 DEF ServerRefuses, Goto
  <1>12. ASSUME NEW p \in Processes, NoAnswer(p) PROVE TaskInv'
    BY <1>12 DEF NoAnswer, GotoWith, Unsaved, MayBeLate
  <1>13. ASSUME NEW p \in Processes, ReceiveRefusal(p) PROVE TaskInv'
    BY <1>13 DEF ReceiveRefusal, GotoWith
  <1>14. ASSUME NEW p \in Processes, ReceiveRegistration(p) PROVE TaskInv'
    BY <1>14 DEF ReceiveRegistration, Answered, Goto
  <1>15. ASSUME NEW p \in Processes, ReceiveMalformed(p) PROVE TaskInv'
    BY <1>15 DEF ReceiveMalformed, GotoWith, Unsaved
  <1>16. ASSUME NEW p \in Processes, OpenFails(p) PROVE TaskInv'
    BY <1>16 DEF OpenFails, NotSaved, GotoWith, Unsaved
  <1>17. ASSUME NEW p \in Processes, OpenToWrite(p) PROVE TaskInv'
    BY <1>17 DEF OpenToWrite, Goto
  <1>18. ASSUME NEW p \in Processes, WritePart(p) PROVE TaskInv'
    BY <1>18 DEF WritePart
  <1>19. ASSUME NEW p \in Processes, WriteAll(p) PROVE TaskInv'
    BY <1>19 DEF WriteAll, GotoWith
  <1>20. ASSUME NEW p \in Processes, WriteFails(p) PROVE TaskInv'
    BY <1>20 DEF WriteFails, NotSaved, GotoWith, Unsaved
  <1>21. ASSUME NEW p \in Processes, CloseFails(p) PROVE TaskInv'
    BY <1>21 DEF CloseFails, GotoWith, Unsaved
  <1>22. ASSUME NEW p \in Processes, LoadUpToDate(p) PROVE TaskInv'
    BY <1>22 DEF LoadUpToDate, GotoWith
  <1>23. ASSUME NEW p \in Processes, LoadReplaces(p) PROVE TaskInv'
    BY <1>23 DEF LoadReplaces, GotoWith
  <1>24. ASSUME NEW p \in Processes, LoadFails(p) PROVE TaskInv'
    BY <1>24 DEF LoadFails, Forget
  <1>25. ASSUME NEW p \in Processes, GetAccessToken(p) PROVE TaskInv'
    <2>1. /\ UNCHANGED <<profile, mem, reply, lock, file, serverVars, astray>>
          /\ \E b \in BOOLEAN : access_token' = [access_token EXCEPT ![p] = b]
      BY <1>25, GetAccessTokenForm
    <2>2. CASE pc[p] = "renew" /\ Goto(p, "leave")
      BY <2>1, <2>2 DEF Goto
    <2>3. CASE pc[p] = "token" /\ Goto(p, "enter")
      BY <2>1, <2>3 DEF Goto
    <2>4. CASE pc[p] = "token" /\ Goto(p, "exchange_again")
      BY <2>1, <2>4 DEF Goto
    <2>5. CASE pc[p] = "token" /\ Return(p)
      BY <2>1, <2>5 DEF Return
    <2>6. QED
      BY <1>25, <2>2, <2>3, <2>4, <2>5, GetAccessTokenForm
  <1>26. ASSUME NEW p \in Processes, ExchangeSucceeds(p) PROVE TaskInv'
    BY <1>26 DEF ExchangeSucceeds, Return
  <1>27. ASSUME NEW p \in Processes, ExchangeUnauthorized(p) PROVE TaskInv'
    BY <1>27 DEF ExchangeUnauthorized, Goto
  <1>28. ASSUME NEW p \in Processes, ExchangeFails(p) PROVE TaskInv'
    BY <1>28 DEF ExchangeFails, Return
  <1>29. ASSUME NEW p \in Processes, TokenExpires(p) PROVE TaskInv'
    BY <1>29 DEF TokenExpires
  <1>30. ASSUME NEW m \in late, ServerRegistersLate(m) PROVE TaskInv'
    BY <1>30 DEF ServerRegistersLate, Issue, Accepts, RegisteredKey
  <1>31. ASSUME NEW m \in late, LateIsLost(m) PROVE TaskInv'
    BY <1>31 DEF LateIsLost
  <1>32. ASSUME KeyExpires PROVE TaskInv'
    BY <1>32 DEF KeyExpires
  <1>33. CASE UNCHANGED vars
    BY <1>33 DEF vars
  <1> HIDE DEF TaskInv, TypeOK, serverVars, processVars, Points, InsidePoints,
    RegistrationPoints, SavingPoints, Results, Tasks, NoCredentials, Unloadable
  <1>34. QED
    BY <1>1, <1>2, <1>3, <1>4, <1>5, <1>6, <1>7, <1>8, <1>9, <1>10, <1>11,
      <1>12, <1>13, <1>14, <1>15, <1>16, <1>17, <1>18, <1>19, <1>20, <1>21, <1>22,
      <1>23, <1>24, <1>25, <1>26, <1>27, <1>28, <1>29, <1>30, <1>31, <1>32, <1>33
      DEF Next, Advance, Register, Update, ExchangeData

-----------------------------------------------------------------------------
(***************************************************************************)
(* Saving, and the custody of the current credentials.                     *)
(***************************************************************************)

\* A process that goes where nothing is saved leaves what the others save as it is.
LEMMA SavingFrame ==
    ASSUME SavingInv, NEW p \in Processes,
           astray => astray',
           UNCHANGED <<profile, file, issued, current>>,
           pc'[p] \notin {"answered", "save", "write", "renew", "leave"},
           \A q \in Processes \ {p} :
                /\ pc'[q] = pc[q] /\ mem'[q] = mem[q] /\ reply'[q] = reply[q]
                /\ result'[q] = result[q] /\ task'[q] = task[q]
    PROVE  SavingInv'
  <1>1. CASE astray
    BY <1>1 DEF SavingInv
  <1>2. CASE ~astray
    <2>1. Registered' = Registered
      BY DEF Registered
    <2>2. ASSUME NEW q \in Processes, q # p
          PROVE  /\ (pc[q] = "answered" => Answered(q) = Registered)'
                 /\ (pc[q] \in SavingPoints => mem[q] = Registered)'
                 /\ ((pc[q] \in {"renew", "leave"} /\ result[q] = "MCL_OK" /\ task[q] # "update")
                        => mem[q] = Registered /\ file = Registered)'
      <3>1. Answered(q)' = Answered(q)
        BY <2>2 DEF Answered, RSA
      <3>2. QED
        BY <1>2, <2>1, <2>2, <3>1 DEF SavingInv
    <2>3. QED
      BY <2>2 DEF SavingInv, SavingPoints
  <1>3. QED
    BY <1>1, <1>2

\* While a process saves, the server's credentials change only if something goes astray.
LEMMA SavingStep ==
    ASSUME TypeOK, CriticalSection, TaskInv, SavingInv, [Next]_vars
    PROVE  SavingInv'
  <1> USE RegistrationAssumptions DEF SavingInv, TaskInv, Registered, Answered, TypeOK,
    CriticalSection, InsidePoints, RegistrationPoints, SavingPoints, serverVars,
    processVars, RSA, Credentials, Rats, Keys, NoRat, NoKey, NoCredentials, Unloadable
  <1>1. ASSUME NEW p \in Processes, Initialize(p) PROVE SavingInv'
    <2>1. /\ mem' \in [Processes -> Credentials]
          /\ \A q \in Processes \ {p} : mem'[q] = mem[q]
          /\ \/ mem'[p] = file /\ file.rat # NoRat
             \/ ~RSA /\ mem'[p] = mem[p]
             \/ /\ RSA
                /\ mem'[p].rat = mem[p].rat
                /\ mem'[p].key # NoKey
                /\ mem'[p].key # file.key
                /\ \A q \in Processes : mem[q].key # mem'[p].key
      BY <1>1, InitializeForm
    <2>2. pc'[p] = "idle" /\ \A q \in Processes \ {p} : pc'[q] = pc[q]
      BY <1>1 DEF Initialize, Goto
    <2>3. UNCHANGED <<profile, reply, task, result, file, issued, current, astray>>
      BY <1>1 DEF Initialize, Goto
    <2>4. CASE astray
      BY <2>3, <2>4
    <2>5. CASE ~astray
      <3>1. ASSUME NEW q \in Processes, q # p
            PROVE  /\ (pc[q] = "answered" => Answered(q) = Registered)'
                   /\ (pc[q] \in SavingPoints => mem[q] = Registered)'
                   /\ ((pc[q] \in {"renew", "leave"} /\ result[q] = "MCL_OK" /\ task[q] # "update")
                        => mem[q] = Registered /\ file = Registered)'
        <4>1. q \in Processes \ {p}
          BY <3>1
        <4>2. mem'[q] = mem[q] /\ pc'[q] = pc[q]
          BY <2>1, <2>2, <4>1
        <4>3. Answered(q)' = Answered(q) /\ Registered' = Registered
          BY <2>3, <4>2
        <4>4. task'[q] = task[q] /\ result'[q] = result[q] /\ file' = file
          BY <2>3
        <4> HIDE DEF TypeOK, CriticalSection, TaskInv, Answered, Registered
        <4>5. QED
          BY <2>5, <4>2, <4>3, <4>4
      <3>2. QED
        BY <2>2, <3>1
    <2>6. QED
      BY <2>4, <2>5
  <1>2. ASSUME NEW p \in Processes, Destroy(p) PROVE SavingInv'
    <2>1. /\ UNCHANGED <<profile, file, issued, current>>
          /\ astray => astray'
          /\ pc'[p] \notin {"answered", "save", "write", "renew", "leave"}
      BY <1>2 DEF Destroy, Forget
    <2>2. \A q \in Processes \ {p} :
                /\ pc'[q] = pc[q] /\ mem'[q] = mem[q] /\ reply'[q] = reply[q]
                /\ result'[q] = result[q] /\ task'[q] = task[q]
      BY <1>2 DEF Destroy, Forget
    <2> HIDE DEF SavingInv, TypeOK, CriticalSection, TaskInv
    <2>3. QED
      BY <2>1, <2>2, SavingFrame
  <1>3. ASSUME NEW p \in Processes, Crash(p) PROVE SavingInv'
    <2>1. /\ UNCHANGED <<profile, file, issued, current>>
          /\ astray => astray'
          /\ pc'[p] \notin {"answered", "save", "write", "renew", "leave"}
      BY <1>3 DEF Crash, Forget, Unsaved, MayBeLate
    <2>2. \A q \in Processes \ {p} :
                /\ pc'[q] = pc[q] /\ mem'[q] = mem[q] /\ reply'[q] = reply[q]
                /\ result'[q] = result[q] /\ task'[q] = task[q]
      BY <1>3 DEF Crash, Forget, Unsaved, MayBeLate
    <2> HIDE DEF SavingInv, TypeOK, CriticalSection, TaskInv
    <2>3. QED
      BY <2>1, <2>2, SavingFrame
  <1>4. ASSUME NEW p \in Processes, NEW t \in Calls, CallTask(p, t) PROVE SavingInv'
    <2>1. /\ UNCHANGED <<profile, file, issued, current>>
          /\ astray => astray'
          /\ pc'[p] \notin {"answered", "save", "write", "renew", "leave"}
      BY <1>4 DEF CallTask
    <2>2. \A q \in Processes \ {p} :
                /\ pc'[q] = pc[q] /\ mem'[q] = mem[q] /\ reply'[q] = reply[q]
                /\ result'[q] = result[q] /\ task'[q] = task[q]
      BY <1>4 DEF CallTask
    <2> HIDE DEF SavingInv, TypeOK, CriticalSection, TaskInv
    <2>3. QED
      BY <2>1, <2>2, SavingFrame
  <1>5. ASSUME NEW p \in Processes, Enter(p) PROVE SavingInv'
    BY <1>5 DEF Enter, Onboards, Rotates, Updates, Goto, GotoWith, IsOnboarded
  <1>6. ASSUME NEW p \in Processes, EnterFails(p) PROVE SavingInv'
    <2>1. /\ UNCHANGED <<profile, file, issued, current>>
          /\ astray => astray'
          /\ pc'[p] \notin {"answered", "save", "write", "renew", "leave"}
      BY <1>6 DEF EnterFails, Return
    <2>2. \A q \in Processes \ {p} :
                /\ pc'[q] = pc[q] /\ mem'[q] = mem[q] /\ reply'[q] = reply[q]
                /\ result'[q] = result[q] /\ task'[q] = task[q]
      BY <1>6 DEF EnterFails, Return
    <2> HIDE DEF SavingInv, TypeOK, CriticalSection, TaskInv
    <2>3. QED
      BY <2>1, <2>2, SavingFrame
  <1>7. ASSUME NEW p \in Processes, Leave(p) PROVE SavingInv'
    BY <1>7 DEF Leave, Return, GotoWith
  <1>8. ASSUME NEW p \in Processes, Send(p) PROVE SavingInv'
    BY <1>8 DEF Send, Composed, Goto
  <1>9. ASSUME NEW p \in Processes, ComposeFails(p) PROVE SavingInv'
    BY <1>9 DEF ComposeFails, Composed, GotoWith
  <1>10. ASSUME NEW p \in Processes, ServerRegisters(p) PROVE SavingInv'
    <2>1. \A q \in Processes \ {p} : pc'[q] = pc[q] /\ pc[q] \notin InsidePoints
      BY <1>10 DEF ServerRegisters, Goto
    <2>2. pc'[p] = "answered"
      BY <1>10 DEF ServerRegisters, Goto
    <2>3. Answered(p)' = Registered'
      <3>1. reply'[p] = Registered'
        BY <1>10 DEF ServerRegisters, Issue
      <3>2. current' = RegisteredKey(mem[p]) /\ UNCHANGED <<profile, mem>>
        BY <1>10 DEF ServerRegisters, Issue
      <3>3. RSA => current' = mem[p].key
        BY <3>2 DEF RegisteredKey
      <3>4. Answered(p)' = IF RSA THEN [Registered' EXCEPT !.key = mem[p].key] ELSE Registered'
        BY <3>1, <3>2
      <3>5. [Registered' EXCEPT !.key = current'] = Registered'
        OBVIOUS
      <3> HIDE DEF TypeOK, CriticalSection, TaskInv, SavingInv, Answered, Registered, RSA
      <3>6. QED
        BY <3>3, <3>4, <3>5
    <2> HIDE DEF TypeOK, CriticalSection, TaskInv, Answered, Registered
    <2>4. QED
      BY <2>1, <2>2, <2>3
  <1>11. ASSUME NEW p \in Processes, ServerRefuses(p) PROVE SavingInv'
    BY <1>11 DEF ServerRefuses, Goto
  <1>12. ASSUME NEW p \in Processes, NoAnswer(p) PROVE SavingInv'
    BY <1>12 DEF NoAnswer, GotoWith, Unsaved, MayBeLate
  <1>13. ASSUME NEW p \in Processes, ReceiveRefusal(p) PROVE SavingInv'
    BY <1>13 DEF ReceiveRefusal, GotoWith
  <1>14. ASSUME NEW p \in Processes, ReceiveRegistration(p) PROVE SavingInv'
    <2>1. \A q \in Processes \ {p} : pc'[q] = pc[q] /\ pc[q] \notin InsidePoints
      BY <1>14 DEF ReceiveRegistration, Goto
    <2>2. pc'[p] = "save" /\ pc[p] = "answered"
      BY <1>14 DEF ReceiveRegistration, Goto
    <2>3. mem'[p] = Answered(p) /\ UNCHANGED <<file, issued, current, astray>>
      BY <1>14 DEF ReceiveRegistration
    <2> HIDE DEF TypeOK, CriticalSection, TaskInv, Answered
    <2>4. QED
      BY <2>1, <2>2, <2>3
  <1>15. ASSUME NEW p \in Processes, ReceiveMalformed(p) PROVE SavingInv'
    BY <1>15 DEF ReceiveMalformed, GotoWith, Unsaved
  <1>16. ASSUME NEW p \in Processes, OpenFails(p) PROVE SavingInv'
    BY <1>16 DEF OpenFails, NotSaved, GotoWith, Unsaved
  <1>17. ASSUME NEW p \in Processes, OpenToWrite(p) PROVE SavingInv'
    BY <1>17 DEF OpenToWrite, Goto
  <1>18. ASSUME NEW p \in Processes, WritePart(p) PROVE SavingInv'
    BY <1>18 DEF WritePart
  <1>19. ASSUME NEW p \in Processes, WriteAll(p) PROVE SavingInv'
    BY <1>19 DEF WriteAll, GotoWith
  <1>20. ASSUME NEW p \in Processes, WriteFails(p) PROVE SavingInv'
    BY <1>20 DEF WriteFails, NotSaved, GotoWith, Unsaved
  <1>21. ASSUME NEW p \in Processes, CloseFails(p) PROVE SavingInv'
    BY <1>21 DEF CloseFails, GotoWith, Unsaved
  <1>22. ASSUME NEW p \in Processes, LoadUpToDate(p) PROVE SavingInv'
    BY <1>22 DEF LoadUpToDate, GotoWith
  <1>23. ASSUME NEW p \in Processes, LoadReplaces(p) PROVE SavingInv'
    BY <1>23 DEF LoadReplaces, GotoWith
  <1>24. ASSUME NEW p \in Processes, LoadFails(p) PROVE SavingInv'
    BY <1>24 DEF LoadFails, Forget
  <1>25. ASSUME NEW p \in Processes, GetAccessToken(p) PROVE SavingInv'
    <2>1. /\ UNCHANGED <<profile, mem, reply, lock, file, serverVars, astray>>
          /\ \E b \in BOOLEAN : access_token' = [access_token EXCEPT ![p] = b]
      BY <1>25, GetAccessTokenForm
    <2>2. CASE pc[p] = "renew" /\ Goto(p, "leave")
      BY <2>1, <2>2 DEF Goto
    <2>3. CASE pc[p] = "token" /\ Goto(p, "enter")
      BY <2>1, <2>3 DEF Goto
    <2>4. CASE pc[p] = "token" /\ Goto(p, "exchange_again")
      BY <2>1, <2>4 DEF Goto
    <2>5. CASE pc[p] = "token" /\ Return(p)
      <3>1. /\ UNCHANGED <<profile, file, issued, current>>
            /\ astray => astray'
            /\ pc'[p] \notin {"answered", "save", "write", "renew", "leave"}
        BY <2>1, <2>5 DEF Return
      <3>2. \A q \in Processes \ {p} :
                  /\ pc'[q] = pc[q] /\ mem'[q] = mem[q] /\ reply'[q] = reply[q]
                  /\ result'[q] = result[q] /\ task'[q] = task[q]
        BY <2>1, <2>5 DEF Return
      <3> HIDE DEF SavingInv, TypeOK, CriticalSection, TaskInv
      <3>3. QED
        BY <3>1, <3>2, SavingFrame
    <2>6. QED
      BY <1>25, <2>2, <2>3, <2>4, <2>5, GetAccessTokenForm
  <1>26. ASSUME NEW p \in Processes, ExchangeSucceeds(p) PROVE SavingInv'
    <2>1. /\ UNCHANGED <<profile, file, issued, current>>
          /\ astray => astray'
          /\ pc'[p] \notin {"answered", "save", "write", "renew", "leave"}
      BY <1>26 DEF ExchangeSucceeds, Return
    <2>2. \A q \in Processes \ {p} :
                /\ pc'[q] = pc[q] /\ mem'[q] = mem[q] /\ reply'[q] = reply[q]
                /\ result'[q] = result[q] /\ task'[q] = task[q]
      BY <1>26 DEF ExchangeSucceeds, Return
    <2> HIDE DEF SavingInv, TypeOK, CriticalSection, TaskInv
    <2>3. QED
      BY <2>1, <2>2, SavingFrame
  <1>27. ASSUME NEW p \in Processes, ExchangeUnauthorized(p) PROVE SavingInv'
    BY <1>27 DEF ExchangeUnauthorized, Goto
  <1>28. ASSUME NEW p \in Processes, ExchangeFails(p) PROVE SavingInv'
    <2>1. /\ UNCHANGED <<profile, file, issued, current>>
          /\ astray => astray'
          /\ pc'[p] \notin {"answered", "save", "write", "renew", "leave"}
      BY <1>28 DEF ExchangeFails, Return
    <2>2. \A q \in Processes \ {p} :
                /\ pc'[q] = pc[q] /\ mem'[q] = mem[q] /\ reply'[q] = reply[q]
                /\ result'[q] = result[q] /\ task'[q] = task[q]
      BY <1>28 DEF ExchangeFails, Return
    <2> HIDE DEF SavingInv, TypeOK, CriticalSection, TaskInv
    <2>3. QED
      BY <2>1, <2>2, SavingFrame
  <1>29. ASSUME NEW p \in Processes, TokenExpires(p) PROVE SavingInv'
    BY <1>29 DEF TokenExpires
  <1>30. ASSUME NEW m \in late, ServerRegistersLate(m) PROVE SavingInv'
    BY <1>30 DEF ServerRegistersLate, Issue, Accepts, RegisteredKey
  <1>31. ASSUME NEW m \in late, LateIsLost(m) PROVE SavingInv'
    BY <1>31 DEF LateIsLost
  <1>32. ASSUME KeyExpires PROVE SavingInv'
    BY <1>32 DEF KeyExpires
  <1>33. CASE UNCHANGED vars
    BY <1>33 DEF vars
  <1> HIDE DEF SavingInv, TaskInv, Registered, Answered, TypeOK, CriticalSection,
    InsidePoints, RegistrationPoints, SavingPoints, serverVars, processVars, RSA,
    Credentials, Rats, Keys, NoRat, NoKey, NoCredentials, Unloadable
  <1>34. QED
    BY <1>1, <1>2, <1>3, <1>4, <1>5, <1>6, <1>7, <1>8, <1>9, <1>10, <1>11,
      <1>12, <1>13, <1>14, <1>15, <1>16, <1>17, <1>18, <1>19, <1>20, <1>21, <1>22,
      <1>23, <1>24, <1>25, <1>26, <1>27, <1>28, <1>29, <1>30, <1>31, <1>32, <1>33
      DEF Next, Advance, Register, Update, ExchangeData

\* Only the holder of the lock writes the file, and it writes the current credentials.
LEMMA CustodyStep ==
    ASSUME TypeOK, CriticalSection, SavingInv, CredentialsInCustody, [Next]_vars
    PROVE  CredentialsInCustody'
  <1> USE RegistrationAssumptions DEF CredentialsInCustody, SavingInv, Registered,
    Brings, Answered, TypeOK, CriticalSection, InsidePoints, RegistrationPoints,
    SavingPoints, serverVars, processVars, RSA, Credentials, Rats, Keys, NoRat, NoKey,
    NoCredentials, Unloadable
  <1>1. ASSUME NEW p \in Processes, Initialize(p) PROVE CredentialsInCustody'
    BY <1>1 DEF Initialize, Goto
  <1>2. ASSUME NEW p \in Processes, Destroy(p) PROVE CredentialsInCustody'
    BY <1>2 DEF Destroy, Forget
  <1>3. ASSUME NEW p \in Processes, Crash(p) PROVE CredentialsInCustody'
    BY <1>3 DEF Crash, Forget, Unsaved, MayBeLate
  <1>4. ASSUME NEW p \in Processes, NEW t \in Calls, CallTask(p, t) PROVE CredentialsInCustody'
    BY <1>4 DEF CallTask
  <1>5. ASSUME NEW p \in Processes, Enter(p) PROVE CredentialsInCustody'
    BY <1>5 DEF Enter, Onboards, Rotates, Updates, Goto, GotoWith, IsOnboarded
  <1>6. ASSUME NEW p \in Processes, EnterFails(p) PROVE CredentialsInCustody'
    BY <1>6 DEF EnterFails, Return
  <1>7. ASSUME NEW p \in Processes, Leave(p) PROVE CredentialsInCustody'
    BY <1>7 DEF Leave, Return, GotoWith
  <1>8. ASSUME NEW p \in Processes, Send(p) PROVE CredentialsInCustody'
    BY <1>8 DEF Send, Composed, Goto
  <1>9. ASSUME NEW p \in Processes, ComposeFails(p) PROVE CredentialsInCustody'
    BY <1>9 DEF ComposeFails, Composed, GotoWith
  <1>10. ASSUME NEW p \in Processes, ServerRegisters(p) PROVE CredentialsInCustody'
    BY <1>10 DEF ServerRegisters, Issue, Goto, Accepts, RegisteredKey
  <1>11. ASSUME NEW p \in Processes, ServerRefuses(p) PROVE CredentialsInCustody'
    BY <1>11 DEF ServerRefuses, Goto
  <1>12. ASSUME NEW p \in Processes, NoAnswer(p) PROVE CredentialsInCustody'
    BY <1>12 DEF NoAnswer, GotoWith, Unsaved, MayBeLate
  <1>13. ASSUME NEW p \in Processes, ReceiveRefusal(p) PROVE CredentialsInCustody'
    BY <1>13 DEF ReceiveRefusal, GotoWith
  <1>14. ASSUME NEW p \in Processes, ReceiveRegistration(p) PROVE CredentialsInCustody'
    BY <1>14 DEF ReceiveRegistration, Goto
  <1>15. ASSUME NEW p \in Processes, ReceiveMalformed(p) PROVE CredentialsInCustody'
    BY <1>15 DEF ReceiveMalformed, GotoWith, Unsaved
  <1>16. ASSUME NEW p \in Processes, OpenFails(p) PROVE CredentialsInCustody'
    BY <1>16 DEF OpenFails, NotSaved, GotoWith, Unsaved
  <1>17. ASSUME NEW p \in Processes, OpenToWrite(p) PROVE CredentialsInCustody'
    <2>1. CASE astray
      BY <1>17, <2>1 DEF OpenToWrite
    <2>2. CASE ~astray
      <3>1. lock = p /\ mem[p] = Registered
        BY <1>17, <2>2 DEF OpenToWrite
      <3>2. mem[p].rat = issued
        BY <3>1
      <3>3. Brings(p, issued)'
        BY <1>17, <3>1, <3>2 DEF OpenToWrite, Goto
      <3>4. QED
        BY <1>17, <3>3 DEF OpenToWrite
    <2>3. QED
      BY <2>1, <2>2
  <1>18. ASSUME NEW p \in Processes, WritePart(p) PROVE CredentialsInCustody'
    BY <1>18 DEF WritePart
  <1>19. ASSUME NEW p \in Processes, WriteAll(p) PROVE CredentialsInCustody'
    BY <1>19 DEF WriteAll, GotoWith
  <1>20. ASSUME NEW p \in Processes, WriteFails(p) PROVE CredentialsInCustody'
    BY <1>20 DEF WriteFails, NotSaved, GotoWith, Unsaved
  <1>21. ASSUME NEW p \in Processes, CloseFails(p) PROVE CredentialsInCustody'
    BY <1>21 DEF CloseFails, GotoWith, Unsaved
  <1>22. ASSUME NEW p \in Processes, LoadUpToDate(p) PROVE CredentialsInCustody'
    BY <1>22 DEF LoadUpToDate, GotoWith
  <1>23. ASSUME NEW p \in Processes, LoadReplaces(p) PROVE CredentialsInCustody'
    BY <1>23 DEF LoadReplaces, GotoWith
  <1>24. ASSUME NEW p \in Processes, LoadFails(p) PROVE CredentialsInCustody'
    BY <1>24 DEF LoadFails, Forget
  <1>25. ASSUME NEW p \in Processes, GetAccessToken(p) PROVE CredentialsInCustody'
    <2>1. /\ UNCHANGED <<profile, mem, reply, lock, file, serverVars, astray>>
          /\ \E b \in BOOLEAN : access_token' = [access_token EXCEPT ![p] = b]
      BY <1>25, GetAccessTokenForm
    <2>2. CASE pc[p] = "renew" /\ Goto(p, "leave")
      BY <2>1, <2>2 DEF Goto
    <2>3. CASE pc[p] = "token" /\ Goto(p, "enter")
      BY <2>1, <2>3 DEF Goto
    <2>4. CASE pc[p] = "token" /\ Goto(p, "exchange_again")
      BY <2>1, <2>4 DEF Goto
    <2>5. CASE pc[p] = "token" /\ Return(p)
      BY <2>1, <2>5 DEF Return
    <2>6. QED
      BY <1>25, <2>2, <2>3, <2>4, <2>5, GetAccessTokenForm
  <1>26. ASSUME NEW p \in Processes, ExchangeSucceeds(p) PROVE CredentialsInCustody'
    BY <1>26 DEF ExchangeSucceeds, Return
  <1>27. ASSUME NEW p \in Processes, ExchangeUnauthorized(p) PROVE CredentialsInCustody'
    BY <1>27 DEF ExchangeUnauthorized, Goto
  <1>28. ASSUME NEW p \in Processes, ExchangeFails(p) PROVE CredentialsInCustody'
    BY <1>28 DEF ExchangeFails, Return
  <1>29. ASSUME NEW p \in Processes, TokenExpires(p) PROVE CredentialsInCustody'
    BY <1>29 DEF TokenExpires
  <1>30. ASSUME NEW m \in late, ServerRegistersLate(m) PROVE CredentialsInCustody'
    BY <1>30 DEF ServerRegistersLate, Issue, Accepts, RegisteredKey
  <1>31. ASSUME NEW m \in late, LateIsLost(m) PROVE CredentialsInCustody'
    BY <1>31 DEF LateIsLost
  <1>32. ASSUME KeyExpires PROVE CredentialsInCustody'
    BY <1>32 DEF KeyExpires
  <1>33. CASE UNCHANGED vars
    BY <1>33 DEF vars
  <1> HIDE DEF CredentialsInCustody, SavingInv, Registered, Brings, Answered, TypeOK,
    CriticalSection, InsidePoints, RegistrationPoints, SavingPoints, serverVars,
    processVars, RSA, Credentials, Rats, Keys, NoRat, NoKey, NoCredentials, Unloadable
  <1>34. QED
    BY <1>1, <1>2, <1>3, <1>4, <1>5, <1>6, <1>7, <1>8, <1>9, <1>10, <1>11,
      <1>12, <1>13, <1>14, <1>15, <1>16, <1>17, <1>18, <1>19, <1>20, <1>21, <1>22,
      <1>23, <1>24, <1>25, <1>26, <1>27, <1>28, <1>29, <1>30, <1>31, <1>32, <1>33
      DEF Next, Advance, Register, Update, ExchangeData

-----------------------------------------------------------------------------
(***************************************************************************)
(* Keys and RATs.                                                          *)
(***************************************************************************)

\* A RAT comes from the server, with a key.
LEMMA RatStep ==
    ASSUME TypeOK, CriticalSection, KeyInv, RatInv, [Next]_vars
    PROVE  RatInv'
  <1> USE RegistrationAssumptions DEF RatInv, KeyInv, Answered, TypeOK, CriticalSection,
    InsidePoints, RegistrationPoints, SavingPoints, serverVars, processVars, RSA,
    Credentials, Rats, Keys, NoRat, NoKey, NoCredentials, Unloadable
  <1>1. ASSUME NEW p \in Processes, Initialize(p) PROVE RatInv'
    <2>1. /\ mem' \in [Processes -> Credentials]
          /\ \A q \in Processes \ {p} : mem'[q] = mem[q]
          /\ \/ mem'[p] = file /\ file.rat # NoRat
             \/ ~RSA /\ mem'[p] = mem[p]
             \/ /\ RSA
                /\ mem'[p].rat = mem[p].rat
                /\ mem'[p].key # NoKey
                /\ mem'[p].key # file.key
                /\ \A q \in Processes : mem[q].key # mem'[p].key
      BY <1>1, InitializeForm
    <2>2. /\ mem'[p].rat <= issued
          /\ mem'[p].rat # NoRat => mem'[p].key # NoKey
      BY <1>1, <2>1 DEF Initialize
    <2>3. pc'[p] = "idle" /\ \A q \in Processes \ {p} : pc'[q] = pc[q]
      BY <1>1 DEF Initialize, Goto
    <2>4. UNCHANGED <<profile, reply, file, issued, current>>
      BY <1>1 DEF Initialize
    <2> HIDE DEF TypeOK, CriticalSection, KeyInv
    <2>5. QED
      BY <2>1, <2>2, <2>3, <2>4
  <1>2. ASSUME NEW p \in Processes, Destroy(p) PROVE RatInv'
    BY <1>2 DEF Destroy, Forget
  <1>3. ASSUME NEW p \in Processes, Crash(p) PROVE RatInv'
    BY <1>3 DEF Crash, Forget, Unsaved, MayBeLate
  <1>4. ASSUME NEW p \in Processes, NEW t \in Calls, CallTask(p, t) PROVE RatInv'
    BY <1>4 DEF CallTask
  <1>5. ASSUME NEW p \in Processes, Enter(p) PROVE RatInv'
    BY <1>5 DEF Enter, Onboards, Rotates, Updates, Goto, GotoWith, IsOnboarded
  <1>6. ASSUME NEW p \in Processes, EnterFails(p) PROVE RatInv'
    BY <1>6 DEF EnterFails, Return
  <1>7. ASSUME NEW p \in Processes, Leave(p) PROVE RatInv'
    BY <1>7 DEF Leave, Return, GotoWith
  <1>8. ASSUME NEW p \in Processes, Send(p) PROVE RatInv'
    BY <1>8, NewKeyFresh DEF Send, Composed, Goto
  <1>9. ASSUME NEW p \in Processes, ComposeFails(p) PROVE RatInv'
    BY <1>9, NewKeyFresh DEF ComposeFails, Composed, GotoWith
  <1>10. ASSUME NEW p \in Processes, ServerRegisters(p) PROVE RatInv'
    BY <1>10 DEF ServerRegisters, Issue, Goto, Accepts, RegisteredKey
  <1>11. ASSUME NEW p \in Processes, ServerRefuses(p) PROVE RatInv'
    BY <1>11 DEF ServerRefuses, Goto
  <1>12. ASSUME NEW p \in Processes, NoAnswer(p) PROVE RatInv'
    BY <1>12 DEF NoAnswer, GotoWith, Unsaved, MayBeLate
  <1>13. ASSUME NEW p \in Processes, ReceiveRefusal(p) PROVE RatInv'
    BY <1>13 DEF ReceiveRefusal, GotoWith
  <1>14. ASSUME NEW p \in Processes, ReceiveRegistration(p) PROVE RatInv'
    BY <1>14 DEF ReceiveRegistration, Goto
  <1>15. ASSUME NEW p \in Processes, ReceiveMalformed(p) PROVE RatInv'
    BY <1>15 DEF ReceiveMalformed, GotoWith, Unsaved
  <1>16. ASSUME NEW p \in Processes, OpenFails(p) PROVE RatInv'
    BY <1>16 DEF OpenFails, NotSaved, GotoWith, Unsaved
  <1>17. ASSUME NEW p \in Processes, OpenToWrite(p) PROVE RatInv'
    BY <1>17 DEF OpenToWrite, Goto
  <1>18. ASSUME NEW p \in Processes, WritePart(p) PROVE RatInv'
    BY <1>18 DEF WritePart
  <1>19. ASSUME NEW p \in Processes, WriteAll(p) PROVE RatInv'
    BY <1>19 DEF WriteAll, GotoWith
  <1>20. ASSUME NEW p \in Processes, WriteFails(p) PROVE RatInv'
    BY <1>20 DEF WriteFails, NotSaved, GotoWith, Unsaved
  <1>21. ASSUME NEW p \in Processes, CloseFails(p) PROVE RatInv'
    BY <1>21 DEF CloseFails, GotoWith, Unsaved
  <1>22. ASSUME NEW p \in Processes, LoadUpToDate(p) PROVE RatInv'
    BY <1>22 DEF LoadUpToDate, GotoWith
  <1>23. ASSUME NEW p \in Processes, LoadReplaces(p) PROVE RatInv'
    <2>1. /\ mem' \in [Processes -> Credentials]
          /\ \A q \in Processes \ {p} : mem'[q] = mem[q]
          /\ mem'[p].key = file.key
          /\ mem'[p].rat = file.rat
      BY <1>23, LoadReplacesForm
    <2>2. /\ mem'[p].rat <= issued
          /\ mem'[p].rat # NoRat => mem'[p].key # NoKey
      BY <1>23, <2>1 DEF LoadReplaces
    <2>3. pc'[p] = "renew" /\ \A q \in Processes \ {p} : pc'[q] = pc[q]
      BY <1>23 DEF LoadReplaces, GotoWith
    <2>4. UNCHANGED <<profile, reply, file, issued, current>>
      BY <1>23 DEF LoadReplaces
    <2> HIDE DEF TypeOK, CriticalSection, KeyInv
    <2>5. QED
      BY <2>1, <2>2, <2>3, <2>4
  <1>24. ASSUME NEW p \in Processes, LoadFails(p) PROVE RatInv'
    BY <1>24 DEF LoadFails, Forget
  <1>25. ASSUME NEW p \in Processes, GetAccessToken(p) PROVE RatInv'
    <2>1. /\ UNCHANGED <<profile, mem, reply, lock, file, serverVars, astray>>
          /\ \E b \in BOOLEAN : access_token' = [access_token EXCEPT ![p] = b]
      BY <1>25, GetAccessTokenForm
    <2>2. CASE pc[p] = "renew" /\ Goto(p, "leave")
      BY <2>1, <2>2 DEF Goto
    <2>3. CASE pc[p] = "token" /\ Goto(p, "enter")
      BY <2>1, <2>3 DEF Goto
    <2>4. CASE pc[p] = "token" /\ Goto(p, "exchange_again")
      BY <2>1, <2>4 DEF Goto
    <2>5. CASE pc[p] = "token" /\ Return(p)
      BY <2>1, <2>5 DEF Return
    <2>6. QED
      BY <1>25, <2>2, <2>3, <2>4, <2>5, GetAccessTokenForm
  <1>26. ASSUME NEW p \in Processes, ExchangeSucceeds(p) PROVE RatInv'
    BY <1>26 DEF ExchangeSucceeds, Return
  <1>27. ASSUME NEW p \in Processes, ExchangeUnauthorized(p) PROVE RatInv'
    BY <1>27 DEF ExchangeUnauthorized, Goto
  <1>28. ASSUME NEW p \in Processes, ExchangeFails(p) PROVE RatInv'
    BY <1>28 DEF ExchangeFails, Return
  <1>29. ASSUME NEW p \in Processes, TokenExpires(p) PROVE RatInv'
    BY <1>29 DEF TokenExpires
  <1>30. ASSUME NEW m \in late, ServerRegistersLate(m) PROVE RatInv'
    BY <1>30 DEF ServerRegistersLate, Issue, Accepts, RegisteredKey
  <1>31. ASSUME NEW m \in late, LateIsLost(m) PROVE RatInv'
    BY <1>31 DEF LateIsLost
  <1>32. ASSUME KeyExpires PROVE RatInv'
    BY <1>32 DEF KeyExpires
  <1>33. CASE UNCHANGED vars
    BY <1>33 DEF vars
  <1> HIDE DEF RatInv, KeyInv, Answered, TypeOK, CriticalSection, InsidePoints,
    RegistrationPoints, SavingPoints, serverVars, processVars, RSA, Credentials, Rats,
    Keys, NoRat, NoKey, NoCredentials, Unloadable
  <1>34. QED
    BY <1>1, <1>2, <1>3, <1>4, <1>5, <1>6, <1>7, <1>8, <1>9, <1>10, <1>11,
      <1>12, <1>13, <1>14, <1>15, <1>16, <1>17, <1>18, <1>19, <1>20, <1>21, <1>22,
      <1>23, <1>24, <1>25, <1>26, <1>27, <1>28, <1>29, <1>30, <1>31, <1>32, <1>33
      DEF Next, Advance, Register, Update, ExchangeData

\* The answer to a registration has the key of that registration.
LEMMA PairStep ==
    ASSUME TypeOK, CriticalSection, RatInv, PairInv, [Next]_vars
    PROVE  PairInv'
  <1> USE RegistrationAssumptions DEF PairInv, RatInv, Answered, TypeOK,
    CriticalSection, InsidePoints, RegistrationPoints, SavingPoints, serverVars,
    processVars, RSA, Credentials, Rats, Keys, NoRat, NoKey, NoCredentials, Unloadable
  <1>1. ASSUME NEW p \in Processes, Initialize(p) PROVE PairInv'
    BY <1>1, NewKeyFresh DEF Initialize, Goto
  <1>2. ASSUME NEW p \in Processes, Destroy(p) PROVE PairInv'
    BY <1>2 DEF Destroy, Forget
  <1>3. ASSUME NEW p \in Processes, Crash(p) PROVE PairInv'
    BY <1>3 DEF Crash, Forget, Unsaved, MayBeLate
  <1>4. ASSUME NEW p \in Processes, NEW t \in Calls, CallTask(p, t) PROVE PairInv'
    BY <1>4 DEF CallTask
  <1>5. ASSUME NEW p \in Processes, Enter(p) PROVE PairInv'
    BY <1>5 DEF Enter, Onboards, Rotates, Updates, Goto, GotoWith, IsOnboarded
  <1>6. ASSUME NEW p \in Processes, EnterFails(p) PROVE PairInv'
    BY <1>6 DEF EnterFails, Return
  <1>7. ASSUME NEW p \in Processes, Leave(p) PROVE PairInv'
    BY <1>7 DEF Leave, Return, GotoWith
  <1>8. ASSUME NEW p \in Processes, Send(p) PROVE PairInv'
    BY <1>8, NewKeyFresh DEF Send, Composed, Goto
  <1>9. ASSUME NEW p \in Processes, ComposeFails(p) PROVE PairInv'
    BY <1>9, NewKeyFresh DEF ComposeFails, Composed, GotoWith
  <1>10. ASSUME NEW p \in Processes, ServerRegisters(p) PROVE PairInv'
    BY <1>10 DEF ServerRegisters, Issue, Goto, Accepts, RegisteredKey
  <1>11. ASSUME NEW p \in Processes, ServerRefuses(p) PROVE PairInv'
    BY <1>11 DEF ServerRefuses, Goto
  <1>12. ASSUME NEW p \in Processes, NoAnswer(p) PROVE PairInv'
    BY <1>12 DEF NoAnswer, GotoWith, Unsaved, MayBeLate
  <1>13. ASSUME NEW p \in Processes, ReceiveRefusal(p) PROVE PairInv'
    BY <1>13 DEF ReceiveRefusal, GotoWith
  <1>14. ASSUME NEW p \in Processes, ReceiveRegistration(p) PROVE PairInv'
    BY <1>14 DEF ReceiveRegistration, Goto
  <1>15. ASSUME NEW p \in Processes, ReceiveMalformed(p) PROVE PairInv'
    BY <1>15 DEF ReceiveMalformed, GotoWith, Unsaved
  <1>16. ASSUME NEW p \in Processes, OpenFails(p) PROVE PairInv'
    BY <1>16 DEF OpenFails, NotSaved, GotoWith, Unsaved
  <1>17. ASSUME NEW p \in Processes, OpenToWrite(p) PROVE PairInv'
    BY <1>17 DEF OpenToWrite, Goto
  <1>18. ASSUME NEW p \in Processes, WritePart(p) PROVE PairInv'
    BY <1>18 DEF WritePart
  <1>19. ASSUME NEW p \in Processes, WriteAll(p) PROVE PairInv'
    BY <1>19 DEF WriteAll, GotoWith
  <1>20. ASSUME NEW p \in Processes, WriteFails(p) PROVE PairInv'
    BY <1>20 DEF WriteFails, NotSaved, GotoWith, Unsaved
  <1>21. ASSUME NEW p \in Processes, CloseFails(p) PROVE PairInv'
    BY <1>21 DEF CloseFails, GotoWith, Unsaved
  <1>22. ASSUME NEW p \in Processes, LoadUpToDate(p) PROVE PairInv'
    BY <1>22 DEF LoadUpToDate, GotoWith
  <1>23. ASSUME NEW p \in Processes, LoadReplaces(p) PROVE PairInv'
    BY <1>23 DEF LoadReplaces, GotoWith
  <1>24. ASSUME NEW p \in Processes, LoadFails(p) PROVE PairInv'
    BY <1>24 DEF LoadFails, Forget
  <1>25. ASSUME NEW p \in Processes, GetAccessToken(p) PROVE PairInv'
    <2>1. /\ UNCHANGED <<profile, mem, reply, lock, file, serverVars, astray>>
          /\ \E b \in BOOLEAN : access_token' = [access_token EXCEPT ![p] = b]
      BY <1>25, GetAccessTokenForm
    <2>2. CASE pc[p] = "renew" /\ Goto(p, "leave")
      BY <2>1, <2>2 DEF Goto
    <2>3. CASE pc[p] = "token" /\ Goto(p, "enter")
      BY <2>1, <2>3 DEF Goto
    <2>4. CASE pc[p] = "token" /\ Goto(p, "exchange_again")
      BY <2>1, <2>4 DEF Goto
    <2>5. CASE pc[p] = "token" /\ Return(p)
      BY <2>1, <2>5 DEF Return
    <2>6. QED
      BY <1>25, <2>2, <2>3, <2>4, <2>5, GetAccessTokenForm
  <1>26. ASSUME NEW p \in Processes, ExchangeSucceeds(p) PROVE PairInv'
    BY <1>26 DEF ExchangeSucceeds, Return
  <1>27. ASSUME NEW p \in Processes, ExchangeUnauthorized(p) PROVE PairInv'
    BY <1>27 DEF ExchangeUnauthorized, Goto
  <1>28. ASSUME NEW p \in Processes, ExchangeFails(p) PROVE PairInv'
    BY <1>28 DEF ExchangeFails, Return
  <1>29. ASSUME NEW p \in Processes, TokenExpires(p) PROVE PairInv'
    BY <1>29 DEF TokenExpires
  <1>30. ASSUME NEW m \in late, ServerRegistersLate(m) PROVE PairInv'
    BY <1>30 DEF ServerRegistersLate, Issue, Accepts, RegisteredKey
  <1>31. ASSUME NEW m \in late, LateIsLost(m) PROVE PairInv'
    BY <1>31 DEF LateIsLost
  <1>32. ASSUME KeyExpires PROVE PairInv'
    BY <1>32 DEF KeyExpires
  <1>33. CASE UNCHANGED vars
    BY <1>33 DEF vars
  <1> HIDE DEF PairInv, RatInv, Answered, TypeOK, CriticalSection, InsidePoints,
    RegistrationPoints, SavingPoints, serverVars, processVars, RSA, Credentials, Rats,
    Keys, NoRat, NoKey, NoCredentials, Unloadable
  <1>34. QED
    BY <1>1, <1>2, <1>3, <1>4, <1>5, <1>6, <1>7, <1>8, <1>9, <1>10, <1>11,
      <1>12, <1>13, <1>14, <1>15, <1>16, <1>17, <1>18, <1>19, <1>20, <1>21, <1>22,
      <1>23, <1>24, <1>25, <1>26, <1>27, <1>28, <1>29, <1>30, <1>31, <1>32, <1>33
      DEF Next, Advance, Register, Update, ExchangeData

\* Keys and RATs travel in pairs.
LEMMA PairsMatchStep ==
    ASSUME TypeOK, CriticalSection, RatInv, KeyInv, PairInv, PairsMatch, [Next]_vars
    PROVE  PairsMatch'
  <1> USE RegistrationAssumptions DEF PairsMatch, PairInv, KeyInv, RatInv, Answered,
    TypeOK, CriticalSection, InsidePoints, RegistrationPoints, SavingPoints, serverVars,
    processVars, RSA, Credentials, Rats, Keys, NoRat, NoKey, NoCredentials, Unloadable
  <1>1. ASSUME NEW p \in Processes, Initialize(p) PROVE PairsMatch'
    BY <1>1, NewKeyFresh DEF Initialize, Goto
  <1>2. ASSUME NEW p \in Processes, Destroy(p) PROVE PairsMatch'
    BY <1>2 DEF Destroy, Forget
  <1>3. ASSUME NEW p \in Processes, Crash(p) PROVE PairsMatch'
    BY <1>3 DEF Crash, Forget, Unsaved, MayBeLate
  <1>4. ASSUME NEW p \in Processes, NEW t \in Calls, CallTask(p, t) PROVE PairsMatch'
    BY <1>4 DEF CallTask
  <1>5. ASSUME NEW p \in Processes, Enter(p) PROVE PairsMatch'
    BY <1>5 DEF Enter, Onboards, Rotates, Updates, Goto, GotoWith, IsOnboarded
  <1>6. ASSUME NEW p \in Processes, EnterFails(p) PROVE PairsMatch'
    BY <1>6 DEF EnterFails, Return
  <1>7. ASSUME NEW p \in Processes, Leave(p) PROVE PairsMatch'
    BY <1>7 DEF Leave, Return, GotoWith
  <1>8. ASSUME NEW p \in Processes, Send(p) PROVE PairsMatch'
    BY <1>8, NewKeyFresh DEF Send, Composed, Goto
  <1>9. ASSUME NEW p \in Processes, ComposeFails(p) PROVE PairsMatch'
    BY <1>9, NewKeyFresh DEF ComposeFails, Composed, GotoWith
  <1>10. ASSUME NEW p \in Processes, ServerRegisters(p) PROVE PairsMatch'
    BY <1>10 DEF ServerRegisters, Issue, Goto, Accepts, RegisteredKey
  <1>11. ASSUME NEW p \in Processes, ServerRefuses(p) PROVE PairsMatch'
    BY <1>11 DEF ServerRefuses, Goto
  <1>12. ASSUME NEW p \in Processes, NoAnswer(p) PROVE PairsMatch'
    BY <1>12 DEF NoAnswer, GotoWith, Unsaved, MayBeLate
  <1>13. ASSUME NEW p \in Processes, ReceiveRefusal(p) PROVE PairsMatch'
    BY <1>13 DEF ReceiveRefusal, GotoWith
  <1>14. ASSUME NEW p \in Processes, ReceiveRegistration(p) PROVE PairsMatch'
    BY <1>14 DEF ReceiveRegistration, Goto
  <1>15. ASSUME NEW p \in Processes, ReceiveMalformed(p) PROVE PairsMatch'
    BY <1>15 DEF ReceiveMalformed, GotoWith, Unsaved
  <1>16. ASSUME NEW p \in Processes, OpenFails(p) PROVE PairsMatch'
    BY <1>16 DEF OpenFails, NotSaved, GotoWith, Unsaved
  <1>17. ASSUME NEW p \in Processes, OpenToWrite(p) PROVE PairsMatch'
    BY <1>17 DEF OpenToWrite, Goto
  <1>18. ASSUME NEW p \in Processes, WritePart(p) PROVE PairsMatch'
    <2>1. file'.rat = mem[p].rat /\ file'.key = mem[p].key
      BY <1>18 DEF WritePart
    <2>2. ASSUME NEW q \in Processes, mem[q].rat = issued, issued # NoRat
          PROVE  mem[q].key = current \/ (RSA /\ mem[q].key # mem[p].key)
      BY <1>18, <2>2 DEF WritePart
    <2>3. QED
      BY <1>18, <2>1, <2>2 DEF WritePart
  <1>19. ASSUME NEW p \in Processes, WriteAll(p) PROVE PairsMatch'
    BY <1>19 DEF WriteAll, GotoWith
  <1>20. ASSUME NEW p \in Processes, WriteFails(p) PROVE PairsMatch'
    BY <1>20 DEF WriteFails, NotSaved, GotoWith, Unsaved
  <1>21. ASSUME NEW p \in Processes, CloseFails(p) PROVE PairsMatch'
    BY <1>21 DEF CloseFails, GotoWith, Unsaved
  <1>22. ASSUME NEW p \in Processes, LoadUpToDate(p) PROVE PairsMatch'
    BY <1>22 DEF LoadUpToDate, GotoWith
  <1>23. ASSUME NEW p \in Processes, LoadReplaces(p) PROVE PairsMatch'
    BY <1>23 DEF LoadReplaces, GotoWith
  <1>24. ASSUME NEW p \in Processes, LoadFails(p) PROVE PairsMatch'
    BY <1>24 DEF LoadFails, Forget
  <1>25. ASSUME NEW p \in Processes, GetAccessToken(p) PROVE PairsMatch'
    <2>1. /\ UNCHANGED <<profile, mem, reply, lock, file, serverVars, astray>>
          /\ \E b \in BOOLEAN : access_token' = [access_token EXCEPT ![p] = b]
      BY <1>25, GetAccessTokenForm
    <2>2. CASE pc[p] = "renew" /\ Goto(p, "leave")
      BY <2>1, <2>2 DEF Goto
    <2>3. CASE pc[p] = "token" /\ Goto(p, "enter")
      BY <2>1, <2>3 DEF Goto
    <2>4. CASE pc[p] = "token" /\ Goto(p, "exchange_again")
      BY <2>1, <2>4 DEF Goto
    <2>5. CASE pc[p] = "token" /\ Return(p)
      BY <2>1, <2>5 DEF Return
    <2>6. QED
      BY <1>25, <2>2, <2>3, <2>4, <2>5, GetAccessTokenForm
  <1>26. ASSUME NEW p \in Processes, ExchangeSucceeds(p) PROVE PairsMatch'
    BY <1>26 DEF ExchangeSucceeds, Return
  <1>27. ASSUME NEW p \in Processes, ExchangeUnauthorized(p) PROVE PairsMatch'
    BY <1>27 DEF ExchangeUnauthorized, Goto
  <1>28. ASSUME NEW p \in Processes, ExchangeFails(p) PROVE PairsMatch'
    BY <1>28 DEF ExchangeFails, Return
  <1>29. ASSUME NEW p \in Processes, TokenExpires(p) PROVE PairsMatch'
    BY <1>29 DEF TokenExpires
  <1>30. ASSUME NEW m \in late, ServerRegistersLate(m) PROVE PairsMatch'
    BY <1>30 DEF ServerRegistersLate, Issue, Accepts, RegisteredKey
  <1>31. ASSUME NEW m \in late, LateIsLost(m) PROVE PairsMatch'
    BY <1>31 DEF LateIsLost
  <1>32. ASSUME KeyExpires PROVE PairsMatch'
    BY <1>32 DEF KeyExpires
  <1>33. CASE UNCHANGED vars
    BY <1>33 DEF vars
  <1> HIDE DEF PairsMatch, PairInv, KeyInv, RatInv, Answered, TypeOK, CriticalSection,
    InsidePoints, RegistrationPoints, SavingPoints, serverVars, processVars, RSA,
    Credentials, Rats, Keys, NoRat, NoKey, NoCredentials, Unloadable
  <1>34. QED
    BY <1>1, <1>2, <1>3, <1>4, <1>5, <1>6, <1>7, <1>8, <1>9, <1>10, <1>11,
      <1>12, <1>13, <1>14, <1>15, <1>16, <1>17, <1>18, <1>19, <1>20, <1>21, <1>22,
      <1>23, <1>24, <1>25, <1>26, <1>27, <1>28, <1>29, <1>30, <1>31, <1>32, <1>33
      DEF Next, Advance, Register, Update, ExchangeData

\* A key leaves the process that generated it only through the file, with its RAT.
LEMMA KeyStep ==
    ASSUME TypeOK, CriticalSection, RatInv, KeyInv, [Next]_vars
    PROVE  KeyInv'
  <1> USE RegistrationAssumptions DEF KeyInv, RatInv, Private, Answered, TypeOK,
    CriticalSection, InsidePoints, RegistrationPoints, SavingPoints, serverVars,
    processVars, RSA, Credentials, Rats, Keys, NoRat, NoKey, NoCredentials, Unloadable
  <1>1. ASSUME NEW p \in Processes, Initialize(p) PROVE KeyInv'
    <2>1. /\ mem' \in [Processes -> Credentials]
          /\ \A q \in Processes \ {p} : mem'[q] = mem[q]
          /\ \/ mem'[p] = file /\ file.rat # NoRat
             \/ ~RSA /\ mem'[p] = mem[p]
             \/ /\ RSA
                /\ mem'[p].rat = mem[p].rat
                /\ mem'[p].key # NoKey
                /\ mem'[p].key # file.key
                /\ \A q \in Processes : mem[q].key # mem'[p].key
      BY <1>1, InitializeForm
    <2>2. pc'[p] = "idle" /\ \A q \in Processes \ {p} : pc'[q] = pc[q]
      BY <1>1 DEF Initialize, Goto
    <2>3. file' = file /\ profile' = profile
      BY <1>1 DEF Initialize
    <2> HIDE DEF TypeOK, CriticalSection
    <2>4. CASE mem'[p] = file /\ file.rat # NoRat
      BY <1>1, <2>1, <2>2, <2>3, <2>4
    <2>5. CASE ~RSA
      BY <2>3, <2>5
    <2>6. CASE /\ RSA
               /\ mem'[p].key # NoKey
               /\ mem'[p].key # file.key
               /\ \A q \in Processes : mem[q].key # mem'[p].key
      BY <1>1, <2>1, <2>2, <2>3, <2>6
    <2>7. QED
      BY <2>1, <2>4, <2>5, <2>6
  <1>2. ASSUME NEW p \in Processes, Destroy(p) PROVE KeyInv'
    BY <1>2 DEF Destroy, Forget
  <1>3. ASSUME NEW p \in Processes, Crash(p) PROVE KeyInv'
    BY <1>3 DEF Crash, Forget, Unsaved, MayBeLate
  <1>4. ASSUME NEW p \in Processes, NEW t \in Calls, CallTask(p, t) PROVE KeyInv'
    BY <1>4 DEF CallTask
  <1>5. ASSUME NEW p \in Processes, Enter(p) PROVE KeyInv'
    BY <1>5 DEF Enter, Onboards, Rotates, Updates, Goto, GotoWith, IsOnboarded
  <1>6. ASSUME NEW p \in Processes, EnterFails(p) PROVE KeyInv'
    BY <1>6 DEF EnterFails, Return
  <1>7. ASSUME NEW p \in Processes, Leave(p) PROVE KeyInv'
    BY <1>7 DEF Leave, Return, GotoWith
  <1>8. ASSUME NEW p \in Processes, Send(p) PROVE KeyInv'
    <2>1. CASE IsOnboarded(p)
      BY <1>8, <2>1, NewKeyFresh DEF Send, Composed, Goto
    <2>2. CASE ~IsOnboarded(p)
      BY <1>8, <2>2 DEF Send, Composed, Goto, IsOnboarded
    <2>3. QED
      BY <2>1, <2>2
  <1>9. ASSUME NEW p \in Processes, ComposeFails(p) PROVE KeyInv'
    BY <1>9, NewKeyFresh DEF ComposeFails, Composed, GotoWith
  <1>10. ASSUME NEW p \in Processes, ServerRegisters(p) PROVE KeyInv'
    BY <1>10 DEF ServerRegisters, Issue, Goto, Accepts, RegisteredKey
  <1>11. ASSUME NEW p \in Processes, ServerRefuses(p) PROVE KeyInv'
    BY <1>11 DEF ServerRefuses, Goto
  <1>12. ASSUME NEW p \in Processes, NoAnswer(p) PROVE KeyInv'
    BY <1>12 DEF NoAnswer, GotoWith, Unsaved, MayBeLate
  <1>13. ASSUME NEW p \in Processes, ReceiveRefusal(p) PROVE KeyInv'
    BY <1>13 DEF ReceiveRefusal, GotoWith
  <1>14. ASSUME NEW p \in Processes, ReceiveRegistration(p) PROVE KeyInv'
    BY <1>14 DEF ReceiveRegistration, Goto
  <1>15. ASSUME NEW p \in Processes, ReceiveMalformed(p) PROVE KeyInv'
    BY <1>15 DEF ReceiveMalformed, GotoWith, Unsaved
  <1>16. ASSUME NEW p \in Processes, OpenFails(p) PROVE KeyInv'
    BY <1>16 DEF OpenFails, NotSaved, GotoWith, Unsaved
  <1>17. ASSUME NEW p \in Processes, OpenToWrite(p) PROVE KeyInv'
    BY <1>17 DEF OpenToWrite, Goto
  <1>18. ASSUME NEW p \in Processes, WritePart(p) PROVE KeyInv'
    BY <1>18 DEF WritePart
  <1>19. ASSUME NEW p \in Processes, WriteAll(p) PROVE KeyInv'
    BY <1>19 DEF WriteAll, GotoWith
  <1>20. ASSUME NEW p \in Processes, WriteFails(p) PROVE KeyInv'
    BY <1>20 DEF WriteFails, NotSaved, GotoWith, Unsaved
  <1>21. ASSUME NEW p \in Processes, CloseFails(p) PROVE KeyInv'
    BY <1>21 DEF CloseFails, GotoWith, Unsaved
  <1>22. ASSUME NEW p \in Processes, LoadUpToDate(p) PROVE KeyInv'
    BY <1>22 DEF LoadUpToDate, GotoWith
  <1>23. ASSUME NEW p \in Processes, LoadReplaces(p) PROVE KeyInv'
    <2>1. /\ mem' \in [Processes -> Credentials]
          /\ \A q \in Processes \ {p} : mem'[q] = mem[q]
          /\ mem'[p].key = file.key
          /\ mem'[p].rat = file.rat
      BY <1>23, LoadReplacesForm
    <2>2. QED
      BY <1>23, <2>1 DEF LoadReplaces, GotoWith
  <1>24. ASSUME NEW p \in Processes, LoadFails(p) PROVE KeyInv'
    BY <1>24 DEF LoadFails, Forget
  <1>25. ASSUME NEW p \in Processes, GetAccessToken(p) PROVE KeyInv'
    <2>1. /\ UNCHANGED <<profile, mem, reply, lock, file, serverVars, astray>>
          /\ \E b \in BOOLEAN : access_token' = [access_token EXCEPT ![p] = b]
      BY <1>25, GetAccessTokenForm
    <2>2. CASE pc[p] = "renew" /\ Goto(p, "leave")
      BY <2>1, <2>2 DEF Goto
    <2>3. CASE pc[p] = "token" /\ Goto(p, "enter")
      BY <2>1, <2>3 DEF Goto
    <2>4. CASE pc[p] = "token" /\ Goto(p, "exchange_again")
      BY <2>1, <2>4 DEF Goto
    <2>5. CASE pc[p] = "token" /\ Return(p)
      BY <2>1, <2>5 DEF Return
    <2>6. QED
      BY <1>25, <2>2, <2>3, <2>4, <2>5, GetAccessTokenForm
  <1>26. ASSUME NEW p \in Processes, ExchangeSucceeds(p) PROVE KeyInv'
    BY <1>26 DEF ExchangeSucceeds, Return
  <1>27. ASSUME NEW p \in Processes, ExchangeUnauthorized(p) PROVE KeyInv'
    BY <1>27 DEF ExchangeUnauthorized, Goto
  <1>28. ASSUME NEW p \in Processes, ExchangeFails(p) PROVE KeyInv'
    BY <1>28 DEF ExchangeFails, Return
  <1>29. ASSUME NEW p \in Processes, TokenExpires(p) PROVE KeyInv'
    BY <1>29 DEF TokenExpires
  <1>30. ASSUME NEW m \in late, ServerRegistersLate(m) PROVE KeyInv'
    BY <1>30 DEF ServerRegistersLate, Issue, Accepts, RegisteredKey
  <1>31. ASSUME NEW m \in late, LateIsLost(m) PROVE KeyInv'
    BY <1>31 DEF LateIsLost
  <1>32. ASSUME KeyExpires PROVE KeyInv'
    BY <1>32 DEF KeyExpires
  <1>33. CASE UNCHANGED vars
    BY <1>33 DEF vars
  <1> HIDE DEF KeyInv, RatInv, Private, Answered, TypeOK, CriticalSection, InsidePoints,
    RegistrationPoints, SavingPoints, serverVars, processVars, RSA, Credentials, Rats,
    Keys, NoRat, NoKey, NoCredentials, Unloadable
  <1>34. QED
    BY <1>1, <1>2, <1>3, <1>4, <1>5, <1>6, <1>7, <1>8, <1>9, <1>10, <1>11,
      <1>12, <1>13, <1>14, <1>15, <1>16, <1>17, <1>18, <1>19, <1>20, <1>21, <1>22,
      <1>23, <1>24, <1>25, <1>26, <1>27, <1>28, <1>29, <1>30, <1>31, <1>32, <1>33
      DEF Next, Advance, Register, Update, ExchangeData

-----------------------------------------------------------------------------
(***************************************************************************)
(* update_security_information.                                            *)
(***************************************************************************)

\* The holder of the lock that loads finds the file current.
LEMMA UpdateStep ==
    ASSUME TypeOK, CriticalSection, TaskInv, RatInv, UpToDateIsUpToDate,
           CredentialsInCustody, UpdateIsCurrent, [Next]_vars
    PROVE  UpdateIsCurrent'
  <1> USE RegistrationAssumptions DEF UpdateIsCurrent, TaskInv, CredentialsInCustody,
    Registered, Brings, TypeOK, CriticalSection, InsidePoints, RegistrationPoints,
    SavingPoints, serverVars, processVars, RSA, Credentials, Rats, Keys, NoRat, NoKey,
    NoCredentials, Unloadable
  <1>1. ASSUME NEW p \in Processes, Initialize(p) PROVE UpdateIsCurrent'
    BY <1>1 DEF Initialize, Goto
  <1>2. ASSUME NEW p \in Processes, Destroy(p) PROVE UpdateIsCurrent'
    BY <1>2 DEF Destroy, Forget
  <1>3. ASSUME NEW p \in Processes, Crash(p) PROVE UpdateIsCurrent'
    BY <1>3 DEF Crash, Forget, Unsaved, MayBeLate
  <1>4. ASSUME NEW p \in Processes, NEW t \in Calls, CallTask(p, t) PROVE UpdateIsCurrent'
    BY <1>4 DEF CallTask
  <1>5. ASSUME NEW p \in Processes, Enter(p) PROVE UpdateIsCurrent'
    BY <1>5 DEF Enter, Onboards, Rotates, Updates, Goto, GotoWith, IsOnboarded
  <1>6. ASSUME NEW p \in Processes, EnterFails(p) PROVE UpdateIsCurrent'
    BY <1>6 DEF EnterFails, Return
  <1>7. ASSUME NEW p \in Processes, Leave(p) PROVE UpdateIsCurrent'
    BY <1>7 DEF Leave, Return, GotoWith
  <1>8. ASSUME NEW p \in Processes, Send(p) PROVE UpdateIsCurrent'
    BY <1>8 DEF Send, Composed, Goto
  <1>9. ASSUME NEW p \in Processes, ComposeFails(p) PROVE UpdateIsCurrent'
    BY <1>9 DEF ComposeFails, Composed, GotoWith
  <1>10. ASSUME NEW p \in Processes, ServerRegisters(p) PROVE UpdateIsCurrent'
    BY <1>10 DEF ServerRegisters, Issue, Goto, Accepts, RegisteredKey
  <1>11. ASSUME NEW p \in Processes, ServerRefuses(p) PROVE UpdateIsCurrent'
    BY <1>11 DEF ServerRefuses, Goto
  <1>12. ASSUME NEW p \in Processes, NoAnswer(p) PROVE UpdateIsCurrent'
    BY <1>12 DEF NoAnswer, GotoWith, Unsaved, MayBeLate
  <1>13. ASSUME NEW p \in Processes, ReceiveRefusal(p) PROVE UpdateIsCurrent'
    BY <1>13 DEF ReceiveRefusal, GotoWith
  <1>14. ASSUME NEW p \in Processes, ReceiveRegistration(p) PROVE UpdateIsCurrent'
    BY <1>14 DEF ReceiveRegistration, Answered, Goto
  <1>15. ASSUME NEW p \in Processes, ReceiveMalformed(p) PROVE UpdateIsCurrent'
    BY <1>15 DEF ReceiveMalformed, GotoWith, Unsaved
  <1>16. ASSUME NEW p \in Processes, OpenFails(p) PROVE UpdateIsCurrent'
    BY <1>16 DEF OpenFails, NotSaved, GotoWith, Unsaved
  <1>17. ASSUME NEW p \in Processes, OpenToWrite(p) PROVE UpdateIsCurrent'
    BY <1>17 DEF OpenToWrite, Goto
  <1>18. ASSUME NEW p \in Processes, WritePart(p) PROVE UpdateIsCurrent'
    BY <1>18 DEF WritePart
  <1>19. ASSUME NEW p \in Processes, WriteAll(p) PROVE UpdateIsCurrent'
    BY <1>19 DEF WriteAll, GotoWith
  <1>20. ASSUME NEW p \in Processes, WriteFails(p) PROVE UpdateIsCurrent'
    BY <1>20 DEF WriteFails, NotSaved, GotoWith, Unsaved
  <1>21. ASSUME NEW p \in Processes, CloseFails(p) PROVE UpdateIsCurrent'
    BY <1>21 DEF CloseFails, GotoWith, Unsaved
  <1>22. ASSUME NEW p \in Processes, LoadUpToDate(p) PROVE UpdateIsCurrent'
    BY <1>22 DEF LoadUpToDate, GotoWith, UpToDateIsUpToDate, IsUpToDate, RatInv
  <1>23. ASSUME NEW p \in Processes, LoadReplaces(p) PROVE UpdateIsCurrent'
    BY <1>23 DEF LoadReplaces, GotoWith, RatInv
  <1>24. ASSUME NEW p \in Processes, LoadFails(p) PROVE UpdateIsCurrent'
    BY <1>24 DEF LoadFails, Forget
  <1>25. ASSUME NEW p \in Processes, GetAccessToken(p) PROVE UpdateIsCurrent'
    <2>1. /\ UNCHANGED <<profile, mem, reply, lock, file, serverVars, astray>>
          /\ \E b \in BOOLEAN : access_token' = [access_token EXCEPT ![p] = b]
      BY <1>25, GetAccessTokenForm
    <2>2. CASE pc[p] = "renew" /\ Goto(p, "leave")
      BY <2>1, <2>2 DEF Goto
    <2>3. CASE pc[p] = "token" /\ Goto(p, "enter")
      BY <2>1, <2>3 DEF Goto
    <2>4. CASE pc[p] = "token" /\ Goto(p, "exchange_again")
      BY <2>1, <2>4 DEF Goto
    <2>5. CASE pc[p] = "token" /\ Return(p)
      BY <2>1, <2>5 DEF Return
    <2>6. QED
      BY <1>25, <2>2, <2>3, <2>4, <2>5, GetAccessTokenForm
  <1>26. ASSUME NEW p \in Processes, ExchangeSucceeds(p) PROVE UpdateIsCurrent'
    BY <1>26 DEF ExchangeSucceeds, Return
  <1>27. ASSUME NEW p \in Processes, ExchangeUnauthorized(p) PROVE UpdateIsCurrent'
    BY <1>27 DEF ExchangeUnauthorized, Goto
  <1>28. ASSUME NEW p \in Processes, ExchangeFails(p) PROVE UpdateIsCurrent'
    BY <1>28 DEF ExchangeFails, Return
  <1>29. ASSUME NEW p \in Processes, TokenExpires(p) PROVE UpdateIsCurrent'
    BY <1>29 DEF TokenExpires
  <1>30. ASSUME NEW m \in late, ServerRegistersLate(m) PROVE UpdateIsCurrent'
    BY <1>30 DEF ServerRegistersLate, Issue, Accepts, RegisteredKey
  <1>31. ASSUME NEW m \in late, LateIsLost(m) PROVE UpdateIsCurrent'
    BY <1>31 DEF LateIsLost
  <1>32. ASSUME KeyExpires PROVE UpdateIsCurrent'
    BY <1>32 DEF KeyExpires
  <1>33. CASE UNCHANGED vars
    BY <1>33 DEF vars
  <1> HIDE DEF UpdateIsCurrent, TaskInv, CredentialsInCustody, Registered, Brings,
    TypeOK, CriticalSection, InsidePoints, RegistrationPoints, SavingPoints, serverVars,
    processVars, RSA, Credentials, Rats, Keys, NoRat, NoKey, NoCredentials, Unloadable
  <1>34. QED
    BY <1>1, <1>2, <1>3, <1>4, <1>5, <1>6, <1>7, <1>8, <1>9, <1>10, <1>11,
      <1>12, <1>13, <1>14, <1>15, <1>16, <1>17, <1>18, <1>19, <1>20, <1>21, <1>22,
      <1>23, <1>24, <1>25, <1>26, <1>27, <1>28, <1>29, <1>30, <1>31, <1>32, <1>33
      DEF Next, Advance, Register, Update, ExchangeData

\* What CurrentIsKept says of one step.
Kept ==
    \A p \in Processes :
        (pc'[p] # "gone" /\ mem[p].rat = issued /\ ~astray) => mem'[p].rat >= issued

\* Credentials in memory are replaced by current ones only.
LEMMA KeptStep ==
    ASSUME TypeOK, CriticalSection, RatInv, SavingInv, CredentialsInCustody, [Next]_vars
    PROVE  Kept
  <1> USE RegistrationAssumptions DEF Kept, RatInv, CredentialsInCustody, SavingInv,
    Registered, Brings, Answered, TypeOK, CriticalSection, InsidePoints,
    RegistrationPoints, SavingPoints, serverVars, processVars, RSA, Credentials, Rats,
    Keys, NoRat, NoKey, NoCredentials, Unloadable
  <1>1. ASSUME NEW p \in Processes, Initialize(p) PROVE Kept
    BY <1>1, NewKeyFresh DEF Initialize, Goto
  <1>2. ASSUME NEW p \in Processes, Destroy(p) PROVE Kept
    BY <1>2 DEF Destroy, Forget
  <1>3. ASSUME NEW p \in Processes, Crash(p) PROVE Kept
    BY <1>3 DEF Crash, Forget, Unsaved, MayBeLate
  <1>4. ASSUME NEW p \in Processes, NEW t \in Calls, CallTask(p, t) PROVE Kept
    BY <1>4 DEF CallTask
  <1>5. ASSUME NEW p \in Processes, Enter(p) PROVE Kept
    BY <1>5 DEF Enter, Onboards, Rotates, Updates, Goto, GotoWith, IsOnboarded
  <1>6. ASSUME NEW p \in Processes, EnterFails(p) PROVE Kept
    BY <1>6 DEF EnterFails, Return
  <1>7. ASSUME NEW p \in Processes, Leave(p) PROVE Kept
    BY <1>7 DEF Leave, Return, GotoWith
  <1>8. ASSUME NEW p \in Processes, Send(p) PROVE Kept
    BY <1>8, NewKeyFresh DEF Send, Composed, Goto
  <1>9. ASSUME NEW p \in Processes, ComposeFails(p) PROVE Kept
    BY <1>9, NewKeyFresh DEF ComposeFails, Composed, GotoWith
  <1>10. ASSUME NEW p \in Processes, ServerRegisters(p) PROVE Kept
    BY <1>10 DEF ServerRegisters, Issue, Goto, Accepts, RegisteredKey
  <1>11. ASSUME NEW p \in Processes, ServerRefuses(p) PROVE Kept
    BY <1>11 DEF ServerRefuses, Goto
  <1>12. ASSUME NEW p \in Processes, NoAnswer(p) PROVE Kept
    BY <1>12 DEF NoAnswer, GotoWith, Unsaved, MayBeLate
  <1>13. ASSUME NEW p \in Processes, ReceiveRefusal(p) PROVE Kept
    BY <1>13 DEF ReceiveRefusal, GotoWith
  <1>14. ASSUME NEW p \in Processes, ReceiveRegistration(p) PROVE Kept
    <2>1. mem \in [Processes -> Credentials] /\ mem' = [mem EXCEPT ![p] = Answered(p)]
      BY <1>14 DEF ReceiveRegistration
    <2>2. issued \in Nat
      OBVIOUS
    <2> HIDE DEF TypeOK, Answered
    <2>3. ~astray => Answered(p).rat = issued
      BY <1>14, AnsweredForm DEF ReceiveRegistration
    <2>4. ASSUME NEW q \in Processes, mem[q].rat = issued, ~astray
          PROVE  mem'[q].rat >= issued
      BY <2>1, <2>2, <2>3, <2>4
    <2>5. QED
      BY <2>4
  <1>15. ASSUME NEW p \in Processes, ReceiveMalformed(p) PROVE Kept
    BY <1>15 DEF ReceiveMalformed, GotoWith, Unsaved
  <1>16. ASSUME NEW p \in Processes, OpenFails(p) PROVE Kept
    BY <1>16 DEF OpenFails, NotSaved, GotoWith, Unsaved
  <1>17. ASSUME NEW p \in Processes, OpenToWrite(p) PROVE Kept
    BY <1>17 DEF OpenToWrite, Goto
  <1>18. ASSUME NEW p \in Processes, WritePart(p) PROVE Kept
    BY <1>18 DEF WritePart
  <1>19. ASSUME NEW p \in Processes, WriteAll(p) PROVE Kept
    BY <1>19 DEF WriteAll, GotoWith
  <1>20. ASSUME NEW p \in Processes, WriteFails(p) PROVE Kept
    BY <1>20 DEF WriteFails, NotSaved, GotoWith, Unsaved
  <1>21. ASSUME NEW p \in Processes, CloseFails(p) PROVE Kept
    BY <1>21 DEF CloseFails, GotoWith, Unsaved
  <1>22. ASSUME NEW p \in Processes, LoadUpToDate(p) PROVE Kept
    BY <1>22 DEF LoadUpToDate, GotoWith
  <1>23. ASSUME NEW p \in Processes, LoadReplaces(p) PROVE Kept
    BY <1>23 DEF LoadReplaces, GotoWith
  <1>24. ASSUME NEW p \in Processes, LoadFails(p) PROVE Kept
    BY <1>24 DEF LoadFails, Forget
  <1>25. ASSUME NEW p \in Processes, GetAccessToken(p) PROVE Kept
    <2>1. /\ UNCHANGED <<profile, mem, reply, lock, file, serverVars, astray>>
          /\ \E b \in BOOLEAN : access_token' = [access_token EXCEPT ![p] = b]
      BY <1>25, GetAccessTokenForm
    <2>2. CASE pc[p] = "renew" /\ Goto(p, "leave")
      BY <2>1, <2>2 DEF Goto
    <2>3. CASE pc[p] = "token" /\ Goto(p, "enter")
      BY <2>1, <2>3 DEF Goto
    <2>4. CASE pc[p] = "token" /\ Goto(p, "exchange_again")
      BY <2>1, <2>4 DEF Goto
    <2>5. CASE pc[p] = "token" /\ Return(p)
      BY <2>1, <2>5 DEF Return
    <2>6. QED
      BY <1>25, <2>2, <2>3, <2>4, <2>5, GetAccessTokenForm
  <1>26. ASSUME NEW p \in Processes, ExchangeSucceeds(p) PROVE Kept
    BY <1>26 DEF ExchangeSucceeds, Return
  <1>27. ASSUME NEW p \in Processes, ExchangeUnauthorized(p) PROVE Kept
    BY <1>27 DEF ExchangeUnauthorized, Goto
  <1>28. ASSUME NEW p \in Processes, ExchangeFails(p) PROVE Kept
    BY <1>28 DEF ExchangeFails, Return
  <1>29. ASSUME NEW p \in Processes, TokenExpires(p) PROVE Kept
    BY <1>29 DEF TokenExpires
  <1>30. ASSUME NEW m \in late, ServerRegistersLate(m) PROVE Kept
    BY <1>30 DEF ServerRegistersLate, Issue, Accepts, RegisteredKey
  <1>31. ASSUME NEW m \in late, LateIsLost(m) PROVE Kept
    BY <1>31 DEF LateIsLost
  <1>32. ASSUME KeyExpires PROVE Kept
    BY <1>32 DEF KeyExpires
  <1>33. CASE UNCHANGED vars
    BY <1>33 DEF vars
  <1> HIDE DEF Kept, RatInv, CredentialsInCustody, SavingInv, Registered, Brings,
    Answered, TypeOK, CriticalSection, InsidePoints, RegistrationPoints, SavingPoints,
    serverVars, processVars, RSA, Credentials, Rats, Keys, NoRat, NoKey, NoCredentials,
    Unloadable
  <1>34. QED
    BY <1>1, <1>2, <1>3, <1>4, <1>5, <1>6, <1>7, <1>8, <1>9, <1>10, <1>11,
      <1>12, <1>13, <1>14, <1>15, <1>16, <1>17, <1>18, <1>19, <1>20, <1>21, <1>22,
      <1>23, <1>24, <1>25, <1>26, <1>27, <1>28, <1>29, <1>30, <1>31, <1>32, <1>33
      DEF Next, Advance, Register, Update, ExchangeData

\* Equal private keys have equal RATs; client secrets are compared along with RATs.
LEMMA UpToDate ==
    ASSUME TypeOK, RatInv, KeyInv
    PROVE  UpToDateIsUpToDate
  <1> SUFFICES ASSUME NEW p \in Processes, file.rat # NoRat, IsUpToDate(p)
               PROVE  mem[p].rat = file.rat
    BY DEF UpToDateIsUpToDate
  <1>1. CASE RSA
    <2>1. mem[p].key = file.key /\ file.key # NoKey
      BY DEF IsUpToDate, RatInv
    <2>2. QED
      BY <1>1, <2>1 DEF KeyInv
  <1>2. CASE ~RSA
    BY <1>2 DEF IsUpToDate
  <1>3. QED
    BY <1>1, <1>2

\* The inductive invariant holds initially,
LEMMA InitIInv == Init => IInv
  <1> SUFFICES ASSUME Init
               PROVE  IInv
    OBVIOUS
  <1>1. /\ \A p \in Processes : pc[p] = "gone" /\ task[p] = "none" /\ result[p] = "none"
        /\ \A p \in Processes : mem[p] = NoCredentials /\ reply[p] = NoCredentials
        /\ lock = NoProcess /\ file = NoCredentials /\ issued = NoRat /\ current = NoKey
    BY DEF Init, Unloadable
  <1>2. TypeOK
    <2>1. issued \in Rats /\ current \in Keys \cup {NoKey}
      BY <1>1, RegistrationAssumptions DEF Rats, NoRat
    <2>2. mem \in [Processes -> Credentials] /\ reply \in [Processes -> Credentials]
      BY NoCredentialsTyped DEF Init
    <2>3. /\ pc \in [Processes -> Points]
          /\ task \in [Processes -> Tasks \cup {"none"}]
          /\ result \in [Processes -> Results]
          /\ access_token \in [Processes -> BOOLEAN]
      BY DEF Init, Points, Results
    <2>4. QED
      BY <1>1, <2>1, <2>2, <2>3, NoCredentialsTyped DEF Init, TypeOK
  <1>3. CriticalSection
    BY <1>1, RegistrationAssumptions
    DEF CriticalSection, InsidePoints, RegistrationPoints, SavingPoints
  <1>4. TaskInv /\ SavingInv /\ PairInv
    BY <1>1 DEF TaskInv, SavingInv, PairInv, RegistrationPoints, SavingPoints
  <1>5. CredentialsInCustody
    BY <1>1 DEF CredentialsInCustody
  <1>6. RatInv /\ PairsMatch
    BY <1>1 DEF RatInv, PairsMatch, NoCredentials, NoRat, NoKey, SavingPoints
  <1>7. KeyInv
    BY <1>1 DEF KeyInv, NoCredentials
  <1>8. UpdateIsCurrent
    BY <1>1 DEF UpdateIsCurrent
  <1>9. QED
    BY <1>2, <1>3, <1>4, <1>5, <1>6, <1>7, <1>8 DEF IInv

\* Every step keeps the inductive invariant.
LEMMA NextIInv == IInv /\ [Next]_vars => IInv'
  <1> SUFFICES ASSUME IInv, [Next]_vars
               PROVE  IInv'
    OBVIOUS
  <1> USE DEF IInv
  <1>1. TypeOK' /\ CriticalSection' /\ TaskInv'
    BY TypeStep, CriticalSectionStep, TaskStep
  <1>2. SavingInv' /\ CredentialsInCustody'
    BY SavingStep, CustodyStep
  <1>3. RatInv' /\ PairInv' /\ PairsMatch' /\ KeyInv'
    BY RatStep, PairStep, PairsMatchStep, KeyStep
  <1>4. UpdateIsCurrent'
    BY UpdateStep, UpToDate
  <1>5. QED
    BY <1>1, <1>2, <1>3, <1>4

\* The inductive invariant holds throughout.
LEMMA Invariance == Spec => []IInv
  <1>1. QED
    BY InitIInv, NextIInv, PTL DEF Spec

-----------------------------------------------------------------------------
(***************************************************************************)
(* The theorems.                                                           *)
(***************************************************************************)

\* All variables keep their types, and belong to a call only while there is one.
THEOREM TypeCorrect == Spec => []TypeOK
  <1>1. IInv => TypeOK
    BY DEF IInv
  <1>2. QED
    BY <1>1, Invariance, PTL

\* Every way out of onboard, rotate_key and update_security_information leaves the
\* critical section, and nobody else is in it in between.
THEOREM MutexHeldInside == Spec => []CriticalSection
  <1>1. IInv => CriticalSection
    BY DEF IInv
  <1>2. QED
    BY <1>1, Invariance, PTL

\* The credentials the server takes are in the file or on their way to it, unless a
\* named step failed: no process saves over what another one got.
THEOREM CustodyKept == Spec => []CredentialsInCustody
  <1>1. IInv => CredentialsInCustody
    BY DEF IInv
  <1>2. QED
    BY <1>1, Invariance, PTL

\* Who has the current registration access token has the current key.
THEOREM CredentialsMatch == Spec => []PairsMatch
  <1>1. IInv => PairsMatch
    BY DEF IInv
  <1>2. QED
    BY <1>1, Invariance, PTL

\* Comparing private keys is enough for update_security_information.
THEOREM ComparisonSuffices == Spec => []UpToDateIsUpToDate
  <1>1. IInv => UpToDateIsUpToDate
    BY UpToDate DEF IInv
  <1>2. QED
    BY <1>1, Invariance, PTL

\* MCL_OK from onboard and rotate_key means that the file holds what is in memory,
\* unless fclose failed.
THEOREM OkIsSaved == Spec => []OkMeansSaved
  <1>1. IInv => OkMeansSaved
    BY DEF IInv, SavingInv, OkMeansSaved
  <1>2. QED
    BY <1>1, Invariance, PTL

\* What update_security_information finds in the file is what the server takes.
THEOREM UpdateFindsCurrent == Spec => []UpdateIsCurrent
  <1>1. IInv => UpdateIsCurrent
    BY DEF IInv
  <1>2. QED
    BY <1>1, Invariance, PTL

\* No call replaces current credentials by older ones, unless a save failed before.
THEOREM CurrentStays == Spec => CurrentIsKept
  <1>1. IInv /\ [Next]_vars => [Kept]_vars
    BY KeptStep DEF IInv
  <1>2. QED
    BY <1>1, Invariance, PTL DEF Spec, CurrentIsKept, Kept

=============================================================================
