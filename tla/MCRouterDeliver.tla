-------------------------- MODULE MCRouterDeliver --------------------------
(* Instances of RouterDeliver for TLC.                                     *)
EXTENDS RouterDeliver, OverflowChecks, TLC

MCPolicies == {[FailureThreshold |-> 1, SuccessThreshold |-> 1,
                OpenTimeout |-> 1, HalfOpenProbes |-> 1]}

MCShorts == <<"second">>
MCLongs  == <<"day">>
MCSpan   == [second |-> 1, day |-> 2]
MCLimit  == [second |-> 2, day |-> 2]

Symmetry == Permutations(Callers)
=============================================================================
