---------------------------- MODULE MCChildProcess ----------------------------
EXTENDS ChildProcess

EveryKind == {"probe", "capture", "compose", "shell"}
=============================================================================
