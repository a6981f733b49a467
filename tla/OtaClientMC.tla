---------------------------- MODULE OtaClientMC ----------------------------
(* Model values for OtaClient. *)
EXTENDS OtaClient

(* A firmware of two units, and a configuration of one that its notice     *)
(* announces as two: the web server and the notice need not agree.         *)
CONSTANTS fw, conf
MCFile == {fw, conf}
MCLength == [f \in MCFile |-> IF f = fw THEN 2 ELSE 1]
MCSize == [f \in MCFile |-> 2]
=============================================================================
