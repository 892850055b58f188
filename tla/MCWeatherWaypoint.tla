-------------------------- MODULE MCWeatherWaypoint -------------------------
\* Instance of WeatherWaypoint for TLC.
EXTENDS WeatherWaypoint

MCLegs == {0, 4, 12}
MCBases == {1, 2}
MCFactors == {0, 1, 2}
=============================================================================
