-------------------------- MODULE MCMessageDelivery --------------------------
(* Small instances of MessageDelivery. *)
EXTENDS MessageDelivery, TLC

\* No property of the runs that use it names a request.
RequestSymmetry == Permutations(Request)
=============================================================================
