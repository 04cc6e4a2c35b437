--------------------------- MODULE MCAppLifecycle ---------------------------
(***************************************************************************)
(* AppLifecycle on small instances.  Requests are interchangeable, and so  *)
(* are the ids of instances: nothing orders or compares them.              *)
(***************************************************************************)
EXTENDS AppLifecycle, TLC

Symmetry == Permutations(Request) \cup Permutations(Instance)
=============================================================================
