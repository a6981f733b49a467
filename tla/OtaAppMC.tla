------------------------------ MODULE OtaAppMC ------------------------------
(* Model values for OtaApp. *)
EXTENDS OtaApp

(* A firmware that takes a full chunk and a short one, and a configuration *)
(* of one unit that its notice announces as two.                           *)
CONSTANTS fw, conf
MCFile == {fw, conf}
MCLength == [f \in MCFile |-> IF f = fw THEN 3 ELSE 1]
MCSize == [f \in MCFile |-> IF f = fw THEN 3 ELSE 2]
=============================================================================
