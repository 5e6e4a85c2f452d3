------------------------ MODULE MCQuestionAnswering ------------------------
EXTENDS QuestionAnswering

CONSTANTS r1, r2

\* Settings version 1 selects an external provider, version 2 one inside the server.
MCExternal == {1}

\* The organization asks for a password before the text leaves.
MCInitial == {<<"step_up", "approved">>}
=============================================================================
