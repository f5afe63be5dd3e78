------------------------------ MODULE MCNotify ------------------------------
(* Instances of Notify for TLC.                                            *)
EXTENDS Notify, TLC

MCCapacity == [email |-> 1, chat |-> 0]

Alias == [name |-> "a", kind |-> "none", to |-> {}]
Typed == [name |-> "a", kind |-> "email", to |-> {}]
Url   == [name |-> "none", kind |-> "email", to |-> {"friend"}]
Wild  == [name |-> "b", kind |-> "email", to |-> {"stranger"}]

MCRequests ==
  {[sync |-> FALSE, to |-> {}, targets |-> <<Url, Typed>>],
   [sync |-> FALSE, to |-> {"friend"}, targets |-> <<Alias>>],
   [sync |-> TRUE, to |-> {}, targets |-> <<Wild, Alias>>],
   [sync |-> TRUE, to |-> {"friend"}, targets |-> <<Url>>]}

MCSets == {[a |-> "email", b |-> "none"], [a |-> "chat", b |-> "email"]}

Symmetry == Permutations(Calls)
=============================================================================
