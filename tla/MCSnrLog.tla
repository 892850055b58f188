------------------------------ MODULE MCSnrLog ------------------------------
\* Instance of SnrLog for TLC.
EXTENDS SnrLog, TLC

CONSTANTS n1, n2

MCIntensities == {0, 20}
MCNodes == {n1, n2}
MCListed == {n1}
=============================================================================
