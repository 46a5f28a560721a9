---------------------------- MODULE MCZendSignal ----------------------------
\* Two signals: the time limit, and one that FPM handles in its workers.
EXTENDS ZendSignal

CONSTANTS prof, quit

MCSignals == {prof, quit}
MCOrig == [s \in MCSignals |-> IF s = quit THEN "returns" ELSE "default"]
=============================================================================
