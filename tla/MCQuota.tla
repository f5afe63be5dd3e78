------------------------------ MODULE MCQuota ------------------------------
(* Instances of Quota for TLC.                                             *)
EXTENDS Quota, TLC

MCShorts == <<"second", "hour">>
MCLongs  == <<"day", "month">>
MCSpan   == [second |-> 2, hour |-> 4, day |-> 3, month |-> 6]

(* Each window is the tightest at some time.                               *)
MCLimit  == [second |-> 2, hour |-> 3, day |-> 2, month |-> 3]

Symmetry == Permutations(Callers)
=============================================================================
