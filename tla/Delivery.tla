------------------------------ MODULE Delivery ------------------------------
(***************************************************************************)
(* What a store and the exchange operation promise an application, with no *)
(* word about lists, requests or states: the application hands over        *)
(* records, the server accepts records it was handed, and the library lets *)
(* go of a record only once the server has accepted it, unless the record  *)
(* is exposed, that is, in one of the situations (see Exchange.tla) in     *)
(* which the library no longer knows what it has sent.                     *)
(***************************************************************************)
CONSTANT Records

VARIABLES
    handed,     \* records the application has handed over, ever
    held,       \* records the library keeps
    exposed,    \* records the library has lost track of
    accepted    \* records the server has accepted

vars == <<handed, held, exposed, accepted>>

Init ==
    /\ handed = {}
    /\ held = {}
    /\ exposed = {}
    /\ accepted = {}

\* The application hands over new records; they may be exposed at once.
HandOver(R) ==
    /\ R \cap handed = {}
    /\ handed' = handed \cup R
    /\ held' = held \cup R
    /\ exposed' \in {exposed, exposed \cup R}
    /\ UNCHANGED accepted

\* The server accepts records that the library sent, now or earlier.
Accept(R) ==
    /\ R \subseteq handed
    /\ accepted' = accepted \cup R
    /\ UNCHANGED <<handed, held, exposed>>

\* The library loses track of records it keeps, or finds them again.
Expose(R) ==
    /\ R \subseteq held
    /\ exposed' = R \cup (exposed \ held)
    /\ UNCHANGED <<handed, held, accepted>>

\* The library lets go of records.
Release(R) ==
    /\ R \subseteq accepted \cup exposed
    /\ held' = held \ R
    /\ UNCHANGED <<handed, exposed, accepted>>

Next == \E R \in SUBSET Records : HandOver(R) \/ Accept(R) \/ Expose(R) \/ Release(R)

Spec == Init /\ [][Next]_vars

=============================================================================
