-------------------------- MODULE MCInteractiveChat --------------------------
(***************************************************************************)
(* InteractiveChat for TLC: a question that fits twice, one that fits once *)
(* and one that fills the window.                                          *)
(***************************************************************************)
EXTENDS InteractiveChat

ThreeLengths == {<<"q">>, <<"r", "r">>, <<"l", "l", "l", "l">>}
OnePrompt == {<<"s">>}
=============================================================================
