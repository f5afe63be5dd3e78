----------------------------- MODULE MCBreaker -----------------------------
(* Instances of Breaker for TLC.                                           *)
EXTENDS Breaker

Policy(f, s, t, h) ==
  [FailureThreshold |-> f, SuccessThreshold |-> s, OpenTimeout |-> t,
   HalfOpenProbes |-> h]

MCTwoPolicies == {Policy(2, 1, 1, 1), Policy(1, 2, 2, 2)}
=============================================================================
