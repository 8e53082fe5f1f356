----------------------------- MODULE MCHealthPot -----------------------------
(* Small instances of HealthPot: short times, a handful of probe codes on  *)
(* each side of every threshold.                                           *)
EXTENDS HealthPot
=============================================================================
