------------------------------- MODULE Chains -------------------------------
(* Chains of cells: succ gives the cell after a cell, or something that is *)
(* none, where the chain ends.                                             *)

(* The cells of S met from p on until the chain leaves S: the least set    *)
(* that has p and with a cell the next.                                    *)
Run(succ, p, S) ==
    {h \in S : \A C \in SUBSET S :
        (p \in S => p \in C) /\ (\A g \in C : succ[g] \in S => succ[g] \in C) => h \in C}

(* Where it leaves S: one place, unless it runs in a circle. *)
Exits(succ, p, S) == ({p} \cup {succ[h] : h \in Run(succ, p, S)}) \ S

(* What is met first, from p on, that is not in S. *)
First(succ, p, S) == CHOOSE q \in Exits(succ, p, S) : TRUE
=============================================================================
