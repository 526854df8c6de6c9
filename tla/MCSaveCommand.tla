---------------------------- MODULE MCSaveCommand ----------------------------
EXTENDS SaveCommand

\* The properties are about commands: what the daemon does after the last
\* answer is not followed.
UntilAnswered == \E c \in Commands : ~At(c, "answered")
=============================================================================
