----------------------------- MODULE MCLogRing -----------------------------
EXTENDS LogRing, TLC

\* A partial line, a line at once, the end of a line with the start of the
\* next, an empty line.
MCChunks == {<<"text">>, <<"text", "newline">>, <<"newline", "text">>,
             <<"text", "newline", "text", "newline">>}

Symmetric == Permutations(Writers)
=============================================================================
