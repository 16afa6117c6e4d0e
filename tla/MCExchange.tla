----------------------------- MODULE MCExchange -----------------------------
(***************************************************************************)
(* Small instances of Exchange for TLC.                                    *)
(***************************************************************************)
EXTENDS Exchange, TLC

CONSTANTS r1, r2

\* The texts of an item: meta and content types, and so much per record.
MCTextLength == [R \in SUBSET Records |-> 100 + 268 * Cardinality(R)]

Symmetry == Permutations(Records)

=============================================================================
