------------------------------ MODULE Sublists ------------------------------
(* What is left of a linked list when nodes are taken out of it. *)
EXTENDS Naturals, Sequences, FiniteSets, Functions

(* The enumeration of a set of places in their order: there is one. *)
InOrder(places) ==
    {at \in Bijection(1..Cardinality(places), places) :
        \A j, k \in DOMAIN at : j < k => at[j] < at[k]}

(* The list with its nodes at these places, and no other: there is one. *)
Sublist(list, places) ==
    {[k \in DOMAIN at |-> list[at[k]]] : at \in InOrder(places)}
=============================================================================
