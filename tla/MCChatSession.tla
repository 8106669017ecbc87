--------------------------- MODULE MCChatSession ---------------------------
(***************************************************************************)
(* ChatSession for TLC: the texts that the configurations choose from.     *)
(***************************************************************************)
EXTENDS ChatSession

\* A one-word question, a long one, and the system prompts.
ShortAndLong == {<<"q">>, <<"l", "l", "l", "l">>}
TwoShort == {<<"q">>, <<"r">>}
TwoPrompts == {<<"s">>, <<"t", "t">>}
OnePrompt == {<<"s">>}
=============================================================================
