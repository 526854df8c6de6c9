--------------------------- MODULE MCDaemonListener ---------------------------
EXTENDS DaemonListener

CONSTANTS ctrl, s, x

\* Save is Ctrl+S, stop is Ctrl+X: they share a key.
SaveAndStop == [a \in {"save", "stop"} |->
                  IF a = "save" THEN {{ctrl}, {s}} ELSE {{ctrl}, {x}}]
\* Save alone, for more devices and more events.
SaveOnly == [a \in {"save"} |-> {{ctrl}, {s}}]
TheActions == {"save", "stop"}
TheAction == {"save"}
=============================================================================
