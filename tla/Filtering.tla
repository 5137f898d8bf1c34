----------------------------- MODULE Filtering -----------------------------
(***************************************************************************)
(* Removing elements from a list, where the ones that stay keep their      *)
(* order.  Written without recursion, so that it can be reasoned about.    *)
(***************************************************************************)
EXTENDS Naturals, Sequences, FiniteSets

\* The elements of seq that are in S, in their order: the n-th of them is the
\* one with n such elements up to its place.
Filter(seq, S) ==
    LET kept     == {i \in DOMAIN seq : seq[i] \in S}
        Place(n) == CHOOSE i \in kept : Cardinality({j \in kept : j <= i}) = n
    IN  [n \in 1 .. Cardinality(kept) |-> seq[Place(n)]]
=============================================================================
