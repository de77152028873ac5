----------------------------- MODULE MCNetClock -----------------------------
(* The instances of NetClock that TLC checks.                               *)
EXTENDS NetClock
=============================================================================
