------------------------------ MODULE MCRemote ------------------------------
(* Small instances of RemoteConfiguration. *)
EXTENDS RemoteInvariant, TLC

\* Nothing but equality is asked of a request, a size or a call.
Symmetry == Permutations(Requests) \cup Permutations(Sizes) \cup Permutations(Calls)
=============================================================================
