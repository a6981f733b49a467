----------------------------- MODULE AtParserMC -----------------------------
(* Model values for AtParser. *)
EXTENDS AtParser

(* Two of the four callbacks of mqtt_sim800.c, with room for two more      *)
(* characters and for one: the publish report and the OK, which one line   *)
(* may hold both.                                                          *)
MCOobs == << [prefix |-> <<"+", "S">>, maxlen |-> 6],
             [prefix |-> <<"O", "K">>, maxlen |-> 5] >>
MCPostfix == <<"r", "n">>
MCFrame == { <<"+", "S", "r", "n">>, <<"+", "S", "x", "+", "r", "n">>,
             <<"+", "S", "x", "x", "x", "r", "n">>,
             <<"+", "S", "O", "K", "r", "n">>,
             <<"O", "K", "r", "n">>, <<"x", "+", "r", "n">>,
             <<"S", "r", "n">> }
=============================================================================
