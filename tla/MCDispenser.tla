---------------------------- MODULE MCDispenser ----------------------------
(* Values for the small instances that TLC checks.  A configuration file   *)
(* cannot write a record or a negative number, so they are named here.     *)
EXTENDS Dispenser

Provisioned == {[cs |-> TRUE, ssid |-> TRUE]}
Delivered   == {[cs |-> FALSE, ssid |-> FALSE], [cs |-> TRUE, ssid |-> FALSE]}
Either      == Provisioned \cup Delivered

\* A temperature of the scale of readTempF(), below zero by more than the threshold.
Frost == {-5}
=============================================================================
