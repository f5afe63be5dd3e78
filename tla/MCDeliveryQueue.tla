-------------------------- MODULE MCDeliveryQueue --------------------------
(* Instances of DeliveryQueue for TLC.                                     *)
EXTENDS DeliveryQueue, TLC

MCRequests == {Ids}                        \* one call for all the deliveries
MCOneEach  == {{d} : d \in Ids}            \* one call per delivery
MCBackoff  == <<1, 2>>

(* Deliveries of one call are interchangeable, and so are workers.         *)
Symmetry == Permutations(Ids) \cup Permutations(Workers)
=============================================================================
