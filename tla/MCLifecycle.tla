----------------------------- MODULE MCLifecycle -----------------------------
(* A small instance of Lifecycle: three actuators, a healthy run of two    *)
(* ticks, the real threshold of three resets.                              *)
EXTENDS Lifecycle
CONSTANTS a1, a2, a3
=============================================================================
