---------------------------- MODULE MCRescueTrip ----------------------------
\* Instance of RescueTrip for TLC: an area 60 m across, and a track of four
\* positions, which a chase of more than 27 m may fill.
EXTENDS RescueTrip

MCGaps == {0, 5, 12, 13, 20, 27, 28, 41, 60}
MCHomes == {0, 1, 3, 8, 14, 16, 17, 22, 23, 37, 51, 60}
=============================================================================
