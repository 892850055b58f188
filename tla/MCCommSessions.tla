--------------------------- MODULE MCCommSessions ---------------------------
\* Instances of CommSessions for TLC: a civilian, 1, and two rescuers, 3 and 4.
EXTENDS CommSessions

CONSTANT all

Flow(k, s, d) == [kind |-> k, source |-> s, dest |-> d]
MCFlows == {Flow("voice", 3, 4), Flow("beacon", 1, all), Flow("query", 3, all),
            Flow("response", 1, 3), Flow("control", 4, 3),
            Flow("gps", 3, 4), Flow("env", 3, 4), Flow("video", 3, 4)}
MCUnicast == {Flow("voice", 3, 4), Flow("control", 4, 3)}
MCNodes3 == {1, 3, 4}
=============================================================================
