---------------------------- MODULE MCSaveObject ----------------------------
(* Threads are interchangeable, and objects. *)
EXTENDS SaveObject, TLC

Symm == Permutations(Workers) \cup Permutations(Objects)
=============================================================================
