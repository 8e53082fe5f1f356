----------------------------- MODULE MCSimKernel -----------------------------
(* Small instances of SimKernel: three task slots, one or two mutexes, one *)
(* semaphore.                                                              *)
EXTENDS SimKernel
CONSTANTS m1, m2, s1
=============================================================================
