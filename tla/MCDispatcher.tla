---------------------------- MODULE MCDispatcher ----------------------------
(* Instances of Dispatcher for model checking: the worker threads are      *)
(* interchangeable, and so are the connections that are not on a pipe.     *)
EXTENDS Dispatcher, TLC

Symm == Permutations(Workers) \cup Permutations(Conns \ PipeConns)
=============================================================================
