---------------------------- MODULE Registration ----------------------------
(***************************************************************************)
(* The credentials of one agent: communication.c, the registration part of *)
(* http_processor.c, and storage.c.                                        *)
(*                                                                         *)
(* Several processes may be the agent.  Each keeps the credentials in      *)
(* memory, they share the file of configuration->store_path, and the       *)
(* server knows which credentials are current.  Onboarding and key         *)
(* rotation are one request: it presents a registration access token (RAT) *)
(* and a successful answer brings a new one, which only the answer and,    *)
(* later, the file hold.  The RATs are numbered in the order in which the  *)
(* server issues them; NoRat stands for the initial access token, which is *)
(* good for one onboarding.                                                *)
(*                                                                         *)
(* The critical section callbacks are set, as several processes require;   *)
(* with one process the lock is always free and changes nothing.  The      *)
(* mutex behind them is given up when its process ends.                    *)
(***************************************************************************)
EXTENDS Naturals, FiniteSets

CONSTANTS
    Processes,
    Calls,      \* the functions of communication.h the applications use, of Tasks
    Persistent, \* the processes whose application keeps trying, see RetryFairness
    Profiles,   \* the security profiles to look at, a subset of AllProfiles
    NoProcess,
    MaxKey,     \* bound: keys a process may generate
    MaxRat,     \* bound: RATs the server issues
    MaxLate,    \* bound: given-up requests that may still reach the server
    Faults      \* what may fail: see each use

AllProfiles == {"MCL_SECURITY_SHARED_SECRET", "MCL_SECURITY_RSA_3072"}
AllFaults == {"enter", "compose", "network", "malformed", "refuse", "open", "write",
              "close", "crash"}

Tasks == {"onboard", "rotate_key", "update", "get_access_token", "process"}

ASSUME RegistrationAssumptions ==
    /\ Calls \subseteq Tasks
    /\ Persistent \subseteq Processes
    /\ Profiles \subseteq AllProfiles
    /\ NoProcess \notin Processes
    /\ MaxRat \in Nat
    /\ MaxKey \in Nat
    /\ MaxLate \in Nat
    /\ Faults \subseteq AllFaults

NoRat == 0
Rats == 0..MaxRat

\* A client secret has the number of the RAT it comes with.  Private keys are
\* numbered anew.
NoKey == 0
Keys == 1..(MaxRat + MaxKey)

\* Credentials: "uri" tells whether the registration URI is whole.
Credentials == [key : Keys \cup {NoKey}, rat : Rats, uri : BOOLEAN]
NoCredentials == [key |-> NoKey, rat |-> NoRat, uri |-> TRUE]

\* A file without RAT cannot be loaded: it is missing, or ends too early.
Unloadable == NoCredentials

VARIABLES
    profile,        \* configuration->security_profile, the same in all processes
    \* Each process.
    pc,             \* where its call is; "gone" without a handle, "idle" between calls
    task,           \* the function of communication.h that was called
    mem,            \* client_secret or rsa, registration_access_token and _uri
    access_token,   \* whether there is one that the server still takes
    result,         \* the local variable "result" of the call
    reply,          \* credentials in an answer that is on its way
    \* What the processes share.
    lock,           \* the holder of the critical section
    file,           \* the registration information file
    \* The server.
    issued,         \* the last RAT issued, which is the one it accepts
    current,        \* the key registered along with it
    expired,        \* whether the current key has expired
    late,           \* requests the client gave up on, still under way
    \* History, for the properties only.
    astray          \* whether a step failed that had to bring the current RAT to the file

processVars == <<pc, task, mem, access_token, result, reply>>
serverVars == <<issued, current, expired, late>>
vars == <<profile, processVars, lock, file, serverVars, astray>>

Results == {"none", "MCL_OK", "MCL_FAIL", "MCL_ALREADY_ONBOARDED", "MCL_NOT_ONBOARDED",
            "MCL_SECURITY_UP_TO_DATE", "MCL_UNAUTHORIZED",
            "MCL_REGISTRATION_INFO_IS_NOT_SAVED"}
SavingPoints == {"save", "write"}
RegistrationPoints == {"register", "sent", "answered", "refused"} \cup SavingPoints
InsidePoints == RegistrationPoints \cup {"load", "renew", "leave"}
Points == {"gone", "idle", "enter", "token", "exchange", "exchange_again"} \cup InsidePoints

RSA == profile = "MCL_SECURITY_RSA_3072"

IsOnboarded(p) == mem[p].rat # NoRat

KeysInUse ==
    {current, file.key} \cup {m.key : m \in late} \cup
    {mem[p].key : p \in Processes} \cup {reply[p].key : p \in Processes}

\* A private key nobody has: one is not generated twice.  (A number may be used
\* again once nobody has the key any more.)
AKeyIsLeft == \E k \in Keys : k \notin KeysInUse
NewKey == CHOOSE k \in Keys : k \notin KeysInUse

Init ==
    /\ profile \in Profiles
    /\ pc = [p \in Processes |-> "gone"]
    /\ task = [p \in Processes |-> "none"]
    /\ mem = [p \in Processes |-> NoCredentials]
    /\ access_token = [p \in Processes |-> FALSE]
    /\ result = [p \in Processes |-> "none"]
    /\ reply = [p \in Processes |-> NoCredentials]
    /\ lock = NoProcess
    /\ file = Unloadable
    /\ issued = NoRat
    /\ current = NoKey
    /\ expired = FALSE
    /\ late = {}
    /\ astray = FALSE

-----------------------------------------------------------------------------
(***************************************************************************)
(* The handle.                                                             *)
(***************************************************************************)

\* Forgets what the process had in memory and ends its call.
Forget(p) ==
    /\ pc' = [pc EXCEPT ![p] = "gone"]
    /\ task' = [task EXCEPT ![p] = "none"]
    /\ mem' = [mem EXCEPT ![p] = NoCredentials]
    /\ access_token' = [access_token EXCEPT ![p] = FALSE]
    /\ result' = [result EXCEPT ![p] = "none"]
    /\ reply' = [reply EXCEPT ![p] = NoCredentials]
    /\ lock' = IF lock = p THEN NoProcess ELSE lock

\* Mutant of Return: the reply and the call are not cleaned up.
ReturnUnclean(p) ==
    /\ pc' = [pc EXCEPT ![p] = "idle"]
    /\ UNCHANGED <<task, result>>

\* The call returns to the application.
Return(p) ==
    /\ pc' = [pc EXCEPT ![p] = "idle"]
    /\ task' = [task EXCEPT ![p] = "none"]
    /\ result' = [result EXCEPT ![p] = "none"]

Goto(p, point) ==
    /\ pc' = [pc EXCEPT ![p] = point]
    /\ UNCHANGED <<task, result>>

\* Goes on with a result of its own.
GotoWith(p, point, code) ==
    /\ pc' = [pc EXCEPT ![p] = point]
    /\ result' = [result EXCEPT ![p] = code]
    /\ UNCHANGED task

\* mcl_communication_initialize: loads the file as it is, outside the critical
\* section.  Without credentials the handle can onboard, with RSA it has a key.
Initialize(p) ==
    /\ pc[p] = "gone"
    /\ Goto(p, "idle")
    /\ \/ /\ file.rat # NoRat
          /\ mem' = [mem EXCEPT ![p] = file]
       \/ /\ file.rat = NoRat
          /\ ~RSA
          /\ UNCHANGED mem
       \/ /\ file.rat = NoRat
          /\ RSA
          /\ AKeyIsLeft
          /\ mem' = [mem EXCEPT ![p].key = NewKey]
    /\ UNCHANGED <<profile, access_token, reply, lock, file, serverVars, astray>>

Destroy(p) ==
    /\ pc[p] = "idle"
    /\ Forget(p)
    /\ UNCHANGED <<profile, file, serverVars, astray>>

\* The server takes the RAT it issued last, or the initial access token once, at
\* the URI it gave, and then takes it no more.
Accepts(m) ==
    /\ m.uri
    /\ m.rat = issued
    /\ issued < MaxRat

\* A request without answer may still be accepted later.
MayBeLate(p) ==
    /\ pc[p] = "sent"
    /\ Accepts(mem[p])
    /\ Cardinality(late) < MaxLate
    /\ late' = late \cup {mem[p]}

\* The process has got a RAT and not saved it.
Unsaved(p) == pc[p] \in {"answered"} \cup SavingPoints

\* The process ends in the middle of a call.  Its request may be under way.
Crash(p) ==
    /\ "crash" \in Faults
    /\ pc[p] \notin {"gone", "idle"}
    /\ Forget(p)
    /\ astray' = (astray \/ Unsaved(p))
    /\ \/ UNCHANGED late
       \/ MayBeLate(p)
    /\ UNCHANGED <<profile, file, issued, current, expired>>

\* The application calls a function of communication.h.
CallTask(p, t) ==
    /\ pc[p] = "idle"
    /\ task' = [task EXCEPT ![p] = t]
    /\ \/ /\ t \in {"onboard", "rotate_key", "update"}
          /\ pc' = [pc EXCEPT ![p] = "enter"]
       \/ /\ t = "get_access_token"
          /\ IsOnboarded(p)
          /\ pc' = [pc EXCEPT ![p] = "token"]
       \/ /\ t = "process"
          /\ pc' = [pc EXCEPT ![p] = "exchange"]
    /\ UNCHANGED <<profile, mem, access_token, result, reply, lock, file, serverVars, astray>>

-----------------------------------------------------------------------------
(***************************************************************************)
(* The critical section: onboard, rotate_key, update_security_information. *)
(***************************************************************************)

Onboards(p) ==
    /\ task[p] = "onboard"
    /\ IF IsOnboarded(p) THEN GotoWith(p, "renew", "MCL_ALREADY_ONBOARDED")
                         ELSE Goto(p, "register")

\* mcl_communication_process rotates the key itself.
Rotates(p) ==
    /\ task[p] \in {"rotate_key", "process"}
    /\ IF IsOnboarded(p) THEN Goto(p, "register")
                         ELSE GotoWith(p, "leave", "MCL_NOT_ONBOARDED")

Updates(p) ==
    /\ task[p] = "update"
    /\ IF IsOnboarded(p) THEN Goto(p, "load")
                         ELSE GotoWith(p, "leave", "MCL_NOT_ONBOARDED")

\* Mutant of Enter: the critical section is entered only to onboard.
EnterToOnboard(p) ==
    /\ pc[p] = "enter"
    /\ \/ lock = NoProcess
       \/ task[p] # "onboard"
    /\ lock' = p
    /\ Onboards(p) \/ Rotates(p) \/ Updates(p)
    /\ UNCHANGED <<profile, mem, access_token, reply, file, serverVars, astray>>

Enter(p) ==
    /\ pc[p] = "enter"
    /\ lock = NoProcess
    /\ lock' = p
    /\ Onboards(p) \/ Rotates(p) \/ Updates(p)
    /\ UNCHANGED <<profile, mem, access_token, reply, file, serverVars, astray>>

EnterFails(p) ==
    /\ "enter" \in Faults
    /\ pc[p] = "enter"
    /\ Return(p)
    /\ UNCHANGED <<profile, mem, access_token, reply, lock, file, serverVars, astray>>

\* Mutant of Leave: an early return when the function has failed.
LeaveWhenOk(p) ==
    /\ pc[p] = "leave"
    /\ lock' = IF result[p] = "MCL_OK" THEN NoProcess ELSE lock
    /\ \/ /\ task[p] = "process"
          /\ result[p] = "MCL_OK"
          /\ GotoWith(p, "exchange_again", "none")
       \/ /\ ~(task[p] = "process" /\ result[p] = "MCL_OK")
          /\ Return(p)
    /\ UNCHANGED <<profile, mem, access_token, reply, file, serverVars, astray>>

\* The end of the function.  After a key rotation mcl_communication_process
\* tries to exchange once more.
Leave(p) ==
    /\ pc[p] = "leave"
    /\ lock' = NoProcess
    /\ \/ /\ task[p] = "process"
          /\ result[p] = "MCL_OK"
          /\ GotoWith(p, "exchange_again", "none")
       \/ /\ ~(task[p] = "process" /\ result[p] = "MCL_OK")
          /\ Return(p)
    /\ UNCHANGED <<profile, mem, access_token, reply, file, serverVars, astray>>

-----------------------------------------------------------------------------
(***************************************************************************)
(* http_processor_register: the request.                                   *)
(***************************************************************************)

\* The credentials in memory once the payload is composed.  Key rotation with
\* RSA puts a new key in the place of the old one first.
Composed(p) ==
    IF RSA /\ IsOnboarded(p) THEN [mem[p] EXCEPT !.key = NewKey] ELSE mem[p]

Send(p) ==
    /\ pc[p] = "register"
    /\ RSA => AKeyIsLeft
    /\ mem' = [mem EXCEPT ![p] = Composed(p)]
    /\ Goto(p, "sent")
    /\ UNCHANGED <<profile, access_token, reply, lock, file, serverVars, astray>>

\* A step before http_client_send fails.
ComposeFails(p) ==
    /\ "compose" \in Faults
    /\ pc[p] = "register"
    /\ RSA => AKeyIsLeft
    /\ mem' = [mem EXCEPT ![p] = Composed(p)]
    /\ GotoWith(p, "leave", "MCL_FAIL")
    /\ UNCHANGED <<profile, access_token, reply, lock, file, serverVars, astray>>

\* With a shared secret the server makes the key.
RegisteredKey(m) == IF RSA THEN m.key ELSE issued + 1

\* The requests under way present a RAT that is no longer accepted.
Issue(m) ==
    /\ Accepts(m)
    /\ issued' = issued + 1
    /\ current' = RegisteredKey(m)
    /\ expired' = FALSE
    /\ late' = {}

ServerRegisters(p) ==
    /\ pc[p] = "sent"
    /\ Issue(mem[p])
    /\ reply' = [reply EXCEPT ![p] = [key |-> RegisteredKey(mem[p]), rat |-> issued + 1, uri |-> TRUE]]
    /\ Goto(p, "answered")
    /\ astray' = FALSE
    /\ UNCHANGED <<profile, mem, access_token, lock, file>>

ServerRefuses(p) ==
    /\ pc[p] = "sent"
    /\ "refuse" \in Faults \/ ~Accepts(mem[p])
    /\ Goto(p, "refused")
    /\ UNCHANGED <<profile, mem, access_token, reply, lock, file, serverVars, astray>>

\* A request whose sender no longer waits.
ServerRegistersLate(m) ==
    /\ Issue(m)
    /\ astray' = TRUE
    /\ UNCHANGED <<profile, processVars, lock, file>>

LateIsLost(m) ==
    /\ late' = late \ {m}
    /\ UNCHANGED <<profile, processVars, lock, file, issued, current, expired, astray>>

\* http_client_send fails, before or after the server has seen the request.
NoAnswer(p) ==
    /\ "network" \in Faults
    /\ pc[p] \in {"sent", "answered", "refused"}
    /\ GotoWith(p, "leave", "MCL_FAIL")
    /\ reply' = [reply EXCEPT ![p] = NoCredentials]
    /\ astray' = (astray \/ Unsaved(p))
    /\ \/ UNCHANGED late
       \/ MayBeLate(p)
    /\ UNCHANGED <<profile, mem, access_token, lock, file, issued, current, expired>>

ReceiveRefusal(p) ==
    /\ pc[p] = "refused"
    /\ GotoWith(p, "leave", "MCL_UNAUTHORIZED")
    /\ UNCHANGED <<profile, mem, access_token, reply, lock, file, serverVars, astray>>

-----------------------------------------------------------------------------
(***************************************************************************)
(* http_processor_register: the answer, and saving it.                     *)
(***************************************************************************)

\* Mutant of Answered: the old registration access token is kept.
AnsweredWithoutRat(p) == [reply[p] EXCEPT !.key = IF RSA THEN mem[p].key ELSE @, !.rat = mem[p].rat]

\* Mutant of Answered: the old secret is kept.
AnsweredWithoutSecret(p) == [reply[p] EXCEPT !.key = mem[p].key]

\* _process_registration_response: the answer replaces what is in memory; with
\* RSA the key is there already.
Answered(p) == IF RSA THEN [reply[p] EXCEPT !.key = mem[p].key] ELSE reply[p]

\* Mutant of ReceiveRegistration: only the first registration is saved.
ReceiveWithoutSaving(p) ==
    /\ pc[p] = "answered"
    /\ mem' = [mem EXCEPT ![p] = Answered(p)]
    /\ reply' = [reply EXCEPT ![p] = NoCredentials]
    /\ IF IsOnboarded(p) THEN GotoWith(p, "renew", "MCL_OK") ELSE Goto(p, "save")
    /\ UNCHANGED <<profile, access_token, lock, file, serverVars, astray>>

ReceiveRegistration(p) ==
    /\ pc[p] = "answered"
    /\ mem' = [mem EXCEPT ![p] = Answered(p)]
    /\ reply' = [reply EXCEPT ![p] = NoCredentials]
    /\ Goto(p, "save")
    /\ UNCHANGED <<profile, access_token, lock, file, serverVars, astray>>

ReceiveMalformed(p) ==
    /\ "malformed" \in Faults
    /\ pc[p] = "answered"
    /\ GotoWith(p, "leave", "MCL_FAIL")
    /\ reply' = [reply EXCEPT ![p] = NoCredentials]
    /\ astray' = (astray \/ Unsaved(p))
    /\ UNCHANGED <<profile, mem, access_token, lock, file, serverVars>>

\* The registration fails although the server has accepted it.
NotSaved(p) ==
    /\ GotoWith(p, "leave", "MCL_REGISTRATION_INFO_IS_NOT_SAVED")
    /\ astray' = (astray \/ Unsaved(p))
    /\ UNCHANGED <<profile, mem, access_token, reply, lock, file, serverVars>>

OpenFails(p) ==
    /\ "open" \in Faults
    /\ pc[p] = "save"
    /\ NotSaved(p)

\* fopen with mode "w": the old contents are gone.
OpenToWrite(p) ==
    /\ pc[p] = "save"
    /\ file' = Unloadable
    /\ Goto(p, "write")
    /\ UNCHANGED <<profile, mem, access_token, reply, lock, serverVars, astray>>

\* The stream is flushed up to somewhere in the last line, the URI.
WritePart(p) ==
    /\ pc[p] = "write"
    /\ file = Unloadable
    /\ file' = [mem[p] EXCEPT !.uri = FALSE]
    /\ UNCHANGED <<profile, processVars, lock, serverVars, astray>>

\* Mutant of WriteAll: the stream is still to be flushed.
WriteWithoutFlush(p) ==
    /\ pc[p] = "write"
    /\ UNCHANGED file
    /\ GotoWith(p, "renew", "MCL_OK")
    /\ UNCHANGED <<profile, mem, access_token, reply, lock, serverVars, astray>>

WriteAll(p) ==
    /\ pc[p] = "write"
    /\ file' = mem[p]
    /\ GotoWith(p, "renew", "MCL_OK")
    /\ UNCHANGED <<profile, mem, access_token, reply, lock, serverVars, astray>>

WriteFails(p) ==
    /\ "write" \in Faults
    /\ pc[p] = "write"
    /\ NotSaved(p)

\* What fclose has to write is lost; nobody looks at its result.
CloseFails(p) ==
    /\ "close" \in Faults
    /\ pc[p] = "write"
    /\ GotoWith(p, "renew", "MCL_OK")
    /\ astray' = (astray \/ Unsaved(p))
    /\ UNCHANGED <<profile, mem, access_token, reply, lock, file, serverVars>>

-----------------------------------------------------------------------------
(***************************************************************************)
(* http_processor_update_security_information.  The client id is the same  *)
(* in all registrations of an agent.  The URI is not taken over.           *)
(***************************************************************************)

\* Mutant of IsUpToDate: with RSA nothing is compared.
IsUpToDateUnlessSecret(p) == RSA \/ mem[p].key = file.key

IsUpToDate(p) ==
    /\ mem[p].key = file.key
    /\ RSA \/ mem[p].rat = file.rat

LoadUpToDate(p) ==
    /\ pc[p] = "load"
    /\ file.rat # NoRat
    /\ IsUpToDate(p)
    /\ GotoWith(p, "leave", "MCL_SECURITY_UP_TO_DATE")
    /\ UNCHANGED <<profile, mem, access_token, reply, lock, file, serverVars, astray>>

LoadReplaces(p) ==
    /\ pc[p] = "load"
    /\ file.rat # NoRat
    /\ ~IsUpToDate(p)
    /\ mem' = [mem EXCEPT ![p].key = file.key, ![p].rat = file.rat]
    /\ GotoWith(p, "renew", "MCL_OK")
    /\ UNCHANGED <<profile, access_token, reply, lock, file, serverVars, astray>>

\* The strings that were not loaded are dereferenced before the result of the
\* load is looked at: the process dies.
LoadFails(p) ==
    /\ pc[p] = "load"
    /\ file.rat = NoRat
    /\ Forget(p)
    /\ UNCHANGED <<profile, file, serverVars, astray>>

-----------------------------------------------------------------------------
(***************************************************************************)
(* http_processor_get_access_token, called on its own, by process, or at   *)
(* the end of the critical section ("renew"), where its result is ignored. *)
(* The old token is dropped in any case.                                   *)
(***************************************************************************)

\* What follows in mcl_communication_process and in get_access_token itself.
AfterToken(p, code) ==
    \/ /\ pc[p] = "renew"
       /\ Goto(p, "leave")
    \/ /\ pc[p] = "token"
       /\ task[p] = "process"
       /\ code = "MCL_OK"
       /\ Goto(p, "exchange_again")
    \/ /\ pc[p] = "token"
       /\ task[p] = "process"
       /\ code = "MCL_BAD_REQUEST"
       /\ Goto(p, "enter")
    \/ /\ pc[p] = "token"
       /\ task[p] = "get_access_token" \/ code = "MCL_FAIL"
       /\ Return(p)

\* The server knows the key the request is signed with.
Authenticates(p) ==
    /\ IsOnboarded(p)
    /\ mem[p].key = current
    /\ ~expired

TokenGranted(p) ==
    /\ pc[p] \in {"token", "renew"}
    /\ Authenticates(p)
    /\ access_token' = [access_token EXCEPT ![p] = TRUE]
    /\ AfterToken(p, "MCL_OK")
    /\ UNCHANGED <<profile, mem, reply, lock, file, serverVars, astray>>

\* Mutant of TokenRefused: process gives up.
TokenRefusedForGood(p) ==
    /\ pc[p] \in {"token", "renew"}
    /\ ~Authenticates(p)
    /\ access_token' = [access_token EXCEPT ![p] = FALSE]
    /\ AfterToken(p, "MCL_FAIL")
    /\ UNCHANGED <<profile, mem, reply, lock, file, serverVars, astray>>

TokenRefused(p) ==
    /\ pc[p] \in {"token", "renew"}
    /\ ~Authenticates(p)
    /\ access_token' = [access_token EXCEPT ![p] = FALSE]
    /\ AfterToken(p, "MCL_BAD_REQUEST")
    /\ UNCHANGED <<profile, mem, reply, lock, file, serverVars, astray>>

TokenFails(p) ==
    /\ "network" \in Faults
    /\ pc[p] \in {"token", "renew"}
    /\ access_token' = [access_token EXCEPT ![p] = FALSE]
    /\ AfterToken(p, "MCL_FAIL")
    /\ UNCHANGED <<profile, mem, reply, lock, file, serverVars, astray>>

-----------------------------------------------------------------------------
(***************************************************************************)
(* mcl_communication_process.                                              *)
(***************************************************************************)

ExchangeSucceeds(p) ==
    /\ pc[p] \in {"exchange", "exchange_again"}
    /\ access_token[p]
    /\ Return(p)
    /\ UNCHANGED <<profile, mem, access_token, reply, lock, file, serverVars, astray>>

\* MCL_UNAUTHORIZED or MCL_NO_ACCESS_TOKEN_EXISTS at the first attempt.
ExchangeUnauthorized(p) ==
    /\ pc[p] = "exchange"
    /\ IsOnboarded(p)
    /\ ~access_token[p]
    /\ Goto(p, "token")
    /\ UNCHANGED <<profile, mem, access_token, reply, lock, file, serverVars, astray>>

ExchangeFails(p) ==
    /\ pc[p] \in {"exchange", "exchange_again"}
    /\ \/ ~IsOnboarded(p)
       \/ "network" \in Faults
       \/ pc[p] = "exchange_again" /\ ~access_token[p]
    /\ Return(p)
    /\ UNCHANGED <<profile, mem, access_token, reply, lock, file, serverVars, astray>>

-----------------------------------------------------------------------------
(***************************************************************************)
(* Time.                                                                   *)
(***************************************************************************)

TokenExpires(p) ==
    /\ access_token[p]
    /\ access_token' = [access_token EXCEPT ![p] = FALSE]
    /\ UNCHANGED <<profile, pc, task, mem, result, reply, lock, file, serverVars, astray>>

\* Only while the bound leaves a RAT to renew it with.
KeyExpires ==
    /\ issued \in 1..(MaxRat - 1)
    /\ ~expired
    /\ expired' = TRUE
    /\ UNCHANGED <<profile, processVars, lock, file, issued, current, late, astray>>

Register(p) ==
    \/ Send(p) \/ ComposeFails(p)
    \/ ServerRegisters(p) \/ ServerRefuses(p)
    \/ NoAnswer(p) \/ ReceiveRefusal(p) \/ ReceiveRegistration(p) \/ ReceiveMalformed(p)
    \/ OpenFails(p) \/ OpenToWrite(p)
    \/ WritePart(p) \/ WriteAll(p) \/ WriteFails(p) \/ CloseFails(p)

Update(p) == LoadUpToDate(p) \/ LoadReplaces(p) \/ LoadFails(p)

GetAccessToken(p) == TokenGranted(p) \/ TokenRefused(p) \/ TokenFails(p)

ExchangeData(p) == ExchangeSucceeds(p) \/ ExchangeUnauthorized(p) \/ ExchangeFails(p)

\* The steps of a call.
Advance(p) ==
    \/ Enter(p) \/ EnterFails(p) \/ Leave(p)
    \/ Register(p) \/ Update(p) \/ GetAccessToken(p) \/ ExchangeData(p)

Next ==
    \/ \E p \in Processes :
        \/ Initialize(p) \/ Destroy(p) \/ Crash(p)
        \/ \E t \in Calls : CallTask(p, t)
        \/ Advance(p)
        \/ TokenExpires(p)
    \/ \E m \in late : ServerRegistersLate(m) \/ LateIsLost(m)
    \/ KeyExpires

Spec == Init /\ [][Next]_vars

\* A call goes on until it returns (http_client_send waits no longer than its
\* timeout), and the mutex is given to everyone who keeps waiting.
CallFairness == \A p \in Processes : WF_vars(Advance(p)) /\ SF_vars(Enter(p))

\* Besides, the application of a persistent process keeps calling
\* mcl_communication_process, and mcl_communication_update_security_information after
\* failures, as examples/multi_process_agent.c does; and if it does so again and again
\* then an access token lives long enough to be used.
RetryFairness ==
    \A p \in Persistent :
        /\ SF_vars(CallTask(p, "process"))
        /\ SF_vars(CallTask(p, "update"))
        /\ SF_vars(ExchangeSucceeds(p))

RetrySpec == Spec /\ CallFairness /\ RetryFairness

-----------------------------------------------------------------------------
(***************************************************************************)
(* Safety.                                                                 *)
(***************************************************************************)

\* All variables have their types, and belong to a call only while there is one.
TypeOK ==
    /\ profile \in Profiles
    /\ pc \in [Processes -> Points]
    /\ task \in [Processes -> Tasks \cup {"none"}]
    /\ mem \in [Processes -> Credentials]
    /\ access_token \in [Processes -> BOOLEAN]
    /\ result \in [Processes -> Results]
    /\ reply \in [Processes -> Credentials]
    /\ lock \in Processes \cup {NoProcess}
    /\ file \in Credentials
    /\ issued \in Rats
    /\ current \in Keys \cup {NoKey}
    /\ expired \in BOOLEAN
    /\ late \subseteq Credentials
    /\ astray \in BOOLEAN
    /\ \A p \in Processes :
        /\ pc[p] \in {"gone", "idle"} <=> task[p] = "none"
        /\ pc[p] # "answered" => reply[p] = NoCredentials

\* A process is between enter_critical_section and leave_critical_section exactly
\* if it holds the mutex, whatever way it takes out of the three functions.
CriticalSection == \A p \in Processes : lock = p <=> pc[p] \in InsidePoints

\* p will have the RAT r when its registration is done.
Brings(p, r) ==
    /\ lock = p
    /\ \/ pc[p] = "answered" /\ reply[p].rat = r
       \/ pc[p] \in SavingPoints /\ mem[p].rat = r

\* The credentials the server takes are in the file, or on their way to it, unless
\* a named step failed: no process saves over what another one got
\* (_save_registration_information).
CredentialsInCustody ==
    \/ astray \/ issued = NoRat
    \/ file = [key |-> current, rat |-> issued, uri |-> TRUE]
    \/ \E p \in Processes : Brings(p, issued)

\* Whoever has the current RAT has the current key as well, so that it can get an
\* access token until the key expires: the file, although it is written from memory
\* in several steps; a process with a shared secret; and one with RSA, unless it has
\* generated a key for a rotation that has not (yet) come about.
PairsMatch ==
    /\ file.rat = issued => file.key = current
    /\ \A p \in Processes :
        mem[p].rat = issued /\ issued # NoRat
            => mem[p].key = current \/ (RSA /\ mem[p].key # file.key)

\* Comparing private keys is enough to tell whether the RAT in memory is the one
\* in the file (http_processor_update_security_information, 535-541), although a
\* key rotation without answer leaves a new key with an old RAT in memory.
UpToDateIsUpToDate ==
    \A p \in Processes :
        (file.rat # NoRat /\ IsUpToDate(p)) => mem[p].rat = file.rat

\* MCL_OK from onboard and rotate_key means that the file holds what is in memory,
\* unless fclose failed.
OkMeansSaved ==
    \A p \in Processes :
        (/\ pc[p] = "leave" /\ result[p] = "MCL_OK" /\ task[p] # "update"
         /\ ~astray) => file = mem[p]

\* What update_security_information finds in the file, or finds it has already, is
\* what the server takes: no rotation is between its two ends, whoever rotates.
UpdateIsCurrent ==
    \A p \in Processes :
        (/\ pc[p] \in {"renew", "leave"} /\ task[p] = "update"
         /\ result[p] \in {"MCL_OK", "MCL_SECURITY_UP_TO_DATE"})
            => astray \/ (mem[p].rat = issued /\ mem[p].key = current)

\* A process that has the current credentials keeps them: update replaces what is in
\* memory by what is in the file, and that is older only if saving failed.
CurrentIsKept ==
    [][\A p \in Processes :
        (pc'[p] # "gone" /\ mem[p].rat = issued /\ ~astray) => mem'[p].rat >= issued]_vars

Running == {p \in Processes : pc[p] # "gone"}
Holders == {p \in Processes : issued # NoRat /\ mem[p].rat = issued}
Filed == issued # NoRat /\ file.rat = issued
Carriers == {p \in Processes : Brings(p, issued)}

\* The processes keep the promise of Custody: nobody registers but with the last RAT,
\* while no other one is on its way to the file; whoever brings a RAT there does so or
\* it counts as lost; once it is in the file it stays until the next registration, and
\* nobody who has it gives it up unless it was lost.
AbstractCustody == INSTANCE Custody WITH
    running <- Running, holders <- Holders, filed <- Filed, carriers <- Carriers, lost <- astray
ImplementsCustody == AbstractCustody!Spec

\* mcl_communication_update_security_information answers with a code whatever the
\* file is like.
UpdateReturns ==
    [][\A p \in Processes : pc[p] = "load" => pc'[p] # "gone"]_vars

-----------------------------------------------------------------------------
(***************************************************************************)
(* Liveness.                                                               *)
(***************************************************************************)

\* A call returns, whoever else is in the critical section and whatever fails.
CallsReturn == \A p \in Processes : pc[p] \notin {"gone", "idle"} ~> pc[p] \in {"gone", "idle"}

\* p has to be restarted, or onboarded anew, before it can go on: it ended, it was
\* started before the agent was onboarded or while the file was being written, or
\* the current credentials have been lost track of.
Stranded(p) == pc[p] = "gone" \/ ~IsOnboarded(p) \/ ~mem[p].uri \/ astray

\* However keys and tokens expire and processes rotate the key behind each other's
\* backs, a persistent process gets its data through again and again.
AgentsRecover ==
    \A p \in Persistent : []<>Stranded(p) \/ []<><<ExchangeSucceeds(p)>>_vars
=============================================================================
