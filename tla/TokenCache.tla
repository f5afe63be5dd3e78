------------------------------ MODULE TokenCache ------------------------------
(***************************************************************************)
(* The access token that the deliveries of one application share           *)
(* (internal/channel/token/token.go), and the platform that issues it.     *)
(*                                                                         *)
(* A call that must fetch holds the mutex until the platform has answered, *)
(* so a fetch is two steps: the platform issues a token, which it may      *)
(* retire at any time, and the answer arrives or does not.  Tokens are     *)
(* numbered as they are issued.                                            *)
(***************************************************************************)
EXTENDS Integers

CONSTANT Callers   \* "none" is not one of them

VARIABLES
  value,      \* the cached token, 0 when there is none
  age,        \* fresh; stale: within refreshMargin of its expiry; expired
  holder,     \* who holds the mutex over a fetch
  answer,     \* the token on its way to the holder, 0 when none is
  issued,     \* the platform: how many tokens it has issued
  retired,    \* the last one it does not accept any more
  causes      \* history: reasons there have been to fetch a token

TypeOK ==
  /\ value \in Nat /\ age \in {"fresh", "stale", "expired"}
  /\ holder \in Callers \cup {"none"} /\ answer \in Nat
  /\ issued \in Nat /\ retired \in Nat /\ causes \in Nat

Init ==
  /\ value = 0 /\ age = "expired" /\ holder = "none" /\ answer = 0
  /\ issued = 0 /\ retired = 0 /\ causes = 1

platform == <<issued, retired>>

Free == holder = "none"

(* valid.                                                                  *)
Valid == value # 0 /\ age = "fresh"

(* Get, when the cached token is good enough.                              *)
Hit(c) ==
  /\ Free /\ Valid
  /\ UNCHANGED <<value, age, holder, answer, platform, causes>>

(* Slip: the mutex is not held over the fetch.                             *)
MissOpen(c) ==
  /\ ~Valid
  /\ holder' = c /\ answer' = 0
  /\ UNCHANGED <<value, age, platform, causes>>

(* Get, when it is not.                                                    *)
Miss(c) ==
  /\ Free /\ ~Valid
  /\ holder' = c
  /\ UNCHANGED <<value, age, answer, platform, causes>>

(* The platform has the request.                                           *)
Issue(c) ==
  /\ holder = c /\ answer = 0
  /\ issued' = issued + 1 /\ answer' = issued + 1
  /\ UNCHANGED <<value, age, holder, retired, causes>>

(* A token that lives no longer than the margin is stale from the start.   *)
Store(c, a) ==
  /\ holder = c /\ answer # 0 /\ a \in {"fresh", "stale"}
  /\ value' = answer /\ age' = a
  /\ causes' = IF a = "stale" THEN causes + 1 ELSE causes
  /\ holder' = "none" /\ answer' = 0
  /\ UNCHANGED platform

(* The fetch failed; what it issued, if it did, is lost.  The previous     *)
(* token goes on being served until it expires.                            *)
Fail(c) ==
  /\ holder = c
  /\ holder' = "none" /\ answer' = 0
  /\ causes' = IF answer # 0 THEN causes + 1 ELSE causes
  /\ UNCHANGED <<value, age, platform>>

Served == value # 0 /\ age # "expired"

(* Slip: the token stays when it is refused.                               *)
Ignore(c) ==
  /\ Free
  /\ causes' = causes + 1
  /\ UNCHANGED <<value, age, holder, answer, platform>>

(* Invalidate, whatever is cached by now.                                  *)
Invalidate(c) ==
  /\ Free
  /\ value' = 0 /\ age' = "expired"
  /\ causes' = causes + 1
  /\ UNCHANGED <<holder, answer, platform>>

Older == [fresh |-> "stale", stale |-> "expired"]

Grow ==
  /\ value # 0 /\ age \in DOMAIN Older
  /\ age' = Older[age]
  /\ causes' = IF age = "fresh" THEN causes + 1 ELSE causes
  /\ UNCHANGED <<value, holder, answer, platform>>

(* The platform retires what it has issued, on a schedule of its own.      *)
Retire ==
  /\ retired < issued /\ retired' = issued
  /\ UNCHANGED <<value, age, holder, answer, issued, causes>>

-----------------------------------------------------------------------------
(* However many deliveries find at the same moment that the token is too   *)
(* old, one asks for a new one: every token issued had a reason of its     *)
(* own, the first use, one growing old, one refused or one lost (Get).     *)
FetchedForACause == issued <= causes
=============================================================================
