------------------------ MODULE MCServiceLifecycle ------------------------
(* ServiceLifecycle on small instances. *)
EXTENDS ServiceLifecycle, TLC

\* Service processes are interchangeable.
Symmetry == Permutations(Pid)
=============================================================================
