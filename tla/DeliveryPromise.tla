-------------------------- MODULE DeliveryPromise --------------------------
(***************************************************************************)
(* What the queue promises about the fate of a delivery, without workers,  *)
(* claims, clocks or crashes: the states of store.Status as an operator    *)
(* sees them.  Queued and in flight are one state here, "pending".         *)
(*                                                                         *)
(* A delivery is reported sent only after a channel accepted it; sent is   *)
(* final; failed is left only by a replay; a call's deliveries are         *)
(* accepted all together and once.                                         *)
(***************************************************************************)
CONSTANTS Ids, Requests

VARIABLES
  fate,       \* what the table says of a delivery
  accepted,   \* the calls answered with an acceptance
  reached     \* the deliveries a channel has accepted

promiseVars == <<fate, accepted, reached>>

Fates == {"unknown", "pending", "sent", "failed"}

Init ==
  /\ fate = [d \in Ids |-> "unknown"]
  /\ accepted = {}
  /\ reached = {}

Accept(r) ==
  /\ r \notin accepted
  /\ accepted' = accepted \cup {r}
  /\ fate' = [d \in Ids |-> IF d \in r THEN "pending" ELSE fate[d]]
  /\ UNCHANGED reached

Reach(d) ==
  /\ fate[d] = "pending"
  /\ reached' = reached \cup {d}
  /\ UNCHANGED <<fate, accepted>>

Move(d, from, to) ==
  /\ fate[d] = from
  /\ fate' = [fate EXCEPT ![d] = to]
  /\ UNCHANGED <<accepted, reached>>

Settle(d)  == d \in reached /\ Move(d, "pending", "sent")
GiveUp(d)  == Move(d, "pending", "failed")
Replay(d)  == Move(d, "failed", "pending")

(* Retention deletes finished deliveries only, any number at a time.       *)
Forget ==
  \E S \in SUBSET {d \in Ids : fate[d] \in {"sent", "failed"}} :
    /\ fate' = [d \in Ids |-> IF d \in S THEN "unknown" ELSE fate[d]]
    /\ UNCHANGED <<accepted, reached>>

Next ==
  \/ \E r \in Requests : Accept(r)
  \/ \E d \in Ids : Reach(d) \/ Settle(d) \/ GiveUp(d) \/ Replay(d)
  \/ Forget

Spec == Init /\ [][Next]_promiseVars
=============================================================================
