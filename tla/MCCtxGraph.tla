----------------------------- MODULE MCCtxGraph -----------------------------
EXTENDS CtxGraph

SomeChars == {"m", "n", "k", "K", "v", "_", "%", "\\", Nul}

(* Three agents, one with a NUL in its id.  The first two contents differ  *)
(* in the agent only.  The last two have one hash, for their names are the *)
(* same laid end to end; their keys begin with a letter of the other case  *)
(* and with a character that LIKE treats specially.                        *)
SomeContents ==
  {[agent |-> <<"n">>, key |-> <<"K", Nul, "_">>, value |-> "v"],
   [agent |-> <<"m">>, key |-> <<"K", Nul, "_">>, value |-> "v"],
   [agent |-> <<"m", Nul, "K">>, key |-> <<"_">>, value |-> "v"]}

(* K and k are the letters that differ by their case. *)
LowerCase(ch) == IF ch = "K" THEN "k" ELSE ch

(* A special character, a letter of the other case and the escape character. *)
SomeSought == {<<"_">>, <<"k">>, <<"\\">>}
=============================================================================
