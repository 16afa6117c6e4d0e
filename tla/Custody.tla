------------------------------- MODULE Custody -------------------------------
(***************************************************************************)
(* What becomes of the registration access token (RAT) the server takes,   *)
(* as the processes of an agent may rely on it, with no word about locks,  *)
(* requests or keys.  A RAT is good for one registration, which brings the *)
(* next one to one process.  That process carries it to the file, where    *)
(* the others find it.  It may get lost on the way, and only there.        *)
(***************************************************************************)
EXTENDS Naturals

CONSTANT Processes

VARIABLES
    running,    \* the processes there are
    issued,     \* the number of RATs the server has issued
    holders,    \* the processes that have the last one in memory
    filed,      \* whether it is in the file
    carriers,   \* who is on the way to the file with it
    lost        \* whether it was lost on the way

vars == <<running, issued, holders, filed, carriers, lost>>

Init ==
    /\ running = {}
    /\ issued = 0
    /\ holders = {}
    /\ filed = FALSE
    /\ carriers = {}
    /\ lost = FALSE

\* Another registration makes the RAT worthless wherever it is.
Issue ==
    /\ issued' = issued + 1
    /\ holders' = {}
    /\ filed' = FALSE

\* p finds in the file what is there.
Start(p) ==
    /\ p \notin running
    /\ running' = running \cup {p}
    /\ holders' = IF filed THEN holders \cup {p} ELSE holders
    /\ UNCHANGED <<issued, filed, carriers, lost>>

\* p takes with it what it carries.
End(p) ==
    /\ p \in running
    /\ running' = running \ {p}
    /\ holders' = holders \ {p}
    /\ carriers' = carriers \ {p}
    /\ lost' = (lost \/ p \in carriers)
    /\ UNCHANGED <<issued, filed>>

\* Nobody registers without the last RAT, or while another one is on its way.
Renew(p) ==
    /\ p \in running
    /\ issued = 0 \/ p \in holders
    /\ carriers = {}
    /\ Issue
    /\ carriers' = {p}
    /\ lost' = FALSE
    /\ UNCHANGED running

\* A registration nobody waits for any more.
RenewUnheard ==
    /\ carriers = {}
    /\ Issue
    /\ lost' = TRUE
    /\ UNCHANGED <<running, carriers>>

Receive(p) ==
    /\ p \in carriers
    /\ holders' = holders \cup {p}
    /\ UNCHANGED <<running, issued, filed, carriers, lost>>

\* The RAT is in the file before the process is done with it.
Deposit(p) ==
    /\ p \in carriers /\ p \in holders
    /\ filed' = TRUE
    /\ carriers' \in {carriers, carriers \ {p}}
    /\ UNCHANGED <<running, issued, holders, lost>>

Lose(p) ==
    /\ p \in carriers
    /\ carriers' = carriers \ {p}
    /\ lost' = TRUE
    /\ UNCHANGED <<running, issued, holders, filed>>

\* p finds it in the file later.
Learn(p) ==
    /\ p \in running
    /\ filed
    /\ holders' = holders \cup {p}
    /\ UNCHANGED <<running, issued, filed, carriers, lost>>

\* p takes an older one from the file for the last one.
Mistake(p) ==
    /\ lost /\ ~filed
    /\ holders' = holders \ {p}
    /\ UNCHANGED <<running, issued, filed, carriers, lost>>

Next ==
    \/ \E p \in Processes :
        \/ Start(p) \/ End(p)
        \/ Renew(p) \/ Receive(p) \/ Deposit(p) \/ Lose(p)
        \/ Learn(p) \/ Mistake(p)
    \/ RenewUnheard

Spec == Init /\ [][Next]_vars

=============================================================================
