------------------------------ MODULE EdgeProofs ------------------------------
(***************************************************************************)
(* What holds at the two ends of the relay: of ChannelSend, for any number *)
(* of deliveries and tests, every kind of channel, any rates and any       *)
(* number of recipients; and of MailInlet, for any mails and any channels. *)
(***************************************************************************)
EXTENDS ChannelSend, MailInlet, TLAPS

(***************************************************************************)
(* The channels.                                                           *)
(***************************************************************************)

(* What a step does to the bucket.                                         *)
LimitStep ==
  \/ \E i \in Intervals : L!Retune(i)
  \/ \E c \in Calls : L!Claim(c) \/ L!GiveUp(c)
  \/ L!Tick
  \/ UNCHANGED limits

LEMMA NextLimits == Next \/ UNCHANGED vars => LimitStep
<1>. USE DEF LimitStep
<1>1. ASSUME UNCHANGED vars PROVE LimitStep
  BY <1>1 DEF vars, limits
<1>2. ASSUME NEW s \in Testers, Test(s) PROVE LimitStep
  BY <1>2 DEF Test, limits
<1>3. ASSUME NEW s \in Calls, Hit(s) \/ Miss(s) \/ Issue(s) \/ Unfetched(s) \/ Invalidate(s)
      PROVE LimitStep
  BY <1>3 DEF Hit, Miss, Issue, Unfetched, Invalidate
<1>4. ASSUME NEW s \in Calls, NEW a, Fetched(s, a) PROVE LimitStep
  BY <1>4 DEF Fetched
<1>5. ASSUME NEW s \in Senders, Claim(s) \/ GiveUp(s) PROVE LimitStep
  BY <1>5 DEF Claim, GiveUp, Calls
<1>6. ASSUME NEW s \in Senders, Go(s) \/ Unusable(s) PROVE LimitStep
  BY <1>6 DEF Go, Unusable
<1>7. ASSUME NEW s \in Senders, NEW i \in Intervals, Begin(s, i) PROVE LimitStep
  BY <1>7 DEF Begin
<1>8. ASSUME NEW s, NEW f, Lost(s, f) PROVE LimitStep
  BY <1>8 DEF Lost
<1>9. ASSUME NEW s, NEW status, NEW body, Answered(s, status, body) PROVE LimitStep
  BY <1>9 DEF Answered
<1>10. ASSUME NEW s, NEW t, Transaction(s, t) PROVE LimitStep
  BY <1>10 DEF Transaction
<1>11. ASSUME Tick \/ Grow \/ Retire PROVE LimitStep
  BY <1>11 DEF Tick, Grow, Retire
<1>12. QED
  BY <1>1, <1>2, <1>3, <1>4, <1>5, <1>6, <1>7, <1>8, <1>9, <1>10, <1>11 DEF Next

(* And to the cached token.                                                *)
TokenStep ==
  \/ \E c \in Calls :
       \/ T!Hit(c) \/ T!Miss(c) \/ T!Issue(c) \/ T!Fail(c) \/ T!Invalidate(c)
       \/ \E a \in {"fresh", "stale"} : T!Store(c, a)
  \/ T!Grow \/ T!Retire
  \/ UNCHANGED tokens

LEMMA NextTokens == Next \/ UNCHANGED vars => TokenStep
<1>. USE DEF TokenStep
<1>1. ASSUME UNCHANGED vars PROVE TokenStep
  BY <1>1 DEF vars, tokens
<1>2. ASSUME NEW s \in Testers, Test(s) PROVE TokenStep
  BY <1>2 DEF Test, Enter, tokens
<1>3. ASSUME NEW s \in Calls, Hit(s) \/ Miss(s) \/ Issue(s) \/ Unfetched(s) \/ Invalidate(s)
      PROVE TokenStep
  BY <1>3 DEF Hit, Miss, Issue, Unfetched, Invalidate
<1>4. ASSUME NEW s \in Calls, NEW a \in {"fresh", "stale"}, Fetched(s, a) PROVE TokenStep
  BY <1>4 DEF Fetched
<1>5. ASSUME NEW s \in Senders, Claim(s) \/ GiveUp(s) \/ Go(s) \/ Unusable(s)
      PROVE TokenStep
  BY <1>5 DEF Claim, GiveUp, Go, Unusable
<1>6. ASSUME NEW s \in Senders, NEW i \in Intervals, Begin(s, i) PROVE TokenStep
  BY <1>6 DEF Begin, Enter
<1>7. ASSUME NEW s, NEW f, Lost(s, f) PROVE TokenStep
  BY <1>7 DEF Lost
<1>8. ASSUME NEW s, NEW status, NEW body, Answered(s, status, body) PROVE TokenStep
  BY <1>8 DEF Answered
<1>9. ASSUME NEW s, NEW t, Transaction(s, t) PROVE TokenStep
  BY <1>9 DEF Transaction
<1>10. ASSUME Tick \/ Grow \/ Retire PROVE TokenStep
  BY <1>10 DEF Tick, Grow, Retire
<1>11. QED
  BY <1>1, <1>2, <1>3, <1>4, <1>5, <1>6, <1>7, <1>8, <1>9, <1>10 DEF Next

-----------------------------------------------------------------------------
(* The bucket.                                                             *)

(* The next free instant is past every instant claimed and its gap.        *)
Ahead == \A i \in DOMAIN granted : granted[i].at + granted[i].gap <= next

LimitInv == L!TypeOK /\ Spaced /\ Ahead

LEMMA LimitInit == Init => LimitInv
BY SendAssumption DEF Init, L!Init, LimitInv, L!TypeOK, Spaced, L!Spaced, Ahead,
   L!Claims, SendAssumption

LEMMA LimitPreserved == LimitInv /\ LimitStep => LimitInv'
<1>. SUFFICES ASSUME LimitInv, LimitStep PROVE LimitInv'
  OBVIOUS
<1>. USE DEF LimitInv, L!TypeOK
<1>1. CASE UNCHANGED limits
  BY <1>1 DEF limits, Spaced, L!Spaced, Ahead, L!Claims
<1>2. ASSUME NEW i \in Intervals, L!Retune(i) PROVE LimitInv'
  BY <1>2 DEF L!Retune, Spaced, L!Spaced, Ahead, L!Claims
<1>3. ASSUME NEW c \in Calls, L!GiveUp(c) PROVE LimitInv'
  BY <1>3 DEF L!GiveUp, Spaced, L!Spaced, Ahead, L!Claims
<1>4. CASE L!Tick
  BY <1>4 DEF L!Tick, Spaced, L!Spaced, Ahead, L!Claims
<1>5. ASSUME NEW c \in Calls, L!Claim(c) PROVE LimitInv'
  <2> DEFINE slot == L!Latest(next, clock)
             claim == [at |-> slot, gap |-> interval]
  <2>1. slot \in Nat /\ next <= slot
    BY DEF L!Latest
  <2>2. /\ next' = slot + interval /\ due' = [due EXCEPT ![c] = slot]
        /\ granted' = Append(granted, claim) /\ clock' = clock /\ interval' = interval
    BY <1>5 DEF L!Claim
  <2>3. interval \in Nat /\ claim \in L!Claims
    BY <2>1, SendAssumption DEF SendAssumption, L!Claims
  <2>. HIDE DEF slot, claim
  <2>4. L!TypeOK'
    BY <2>1, <2>2, <2>3
  <2>5. /\ DOMAIN granted' = 1..(Len(granted) + 1)
        /\ \A i \in DOMAIN granted : granted'[i] = granted[i]
        /\ granted'[Len(granted) + 1] = claim
        /\ DOMAIN granted = 1..Len(granted) /\ Len(granted) \in Nat
    BY <2>2, <2>3
  <2>6. \A i \in DOMAIN granted : granted[i].at \in Nat /\ granted[i].gap \in Nat
    <3>1. \A i \in DOMAIN granted : granted[i] \in L!Claims
      OBVIOUS
    <3>2. QED BY <3>1, SendAssumption DEF SendAssumption, L!Claims
  <2>7. claim.at = slot /\ claim.gap = interval
    BY DEF claim
  <2>8. Spaced'
    BY <2>1, <2>5, <2>6, <2>7 DEF Spaced, L!Spaced, Ahead
  <2>9. Ahead'
    BY <2>1, <2>2, <2>3, <2>5, <2>6, <2>7 DEF Ahead
  <2>10. QED BY <2>4, <2>8, <2>9
<1>6. QED BY <1>1, <1>2, <1>3, <1>4, <1>5 DEF LimitStep

(* Spaced: no two calls of a channel are closer than its rate allows,      *)
(* whoever gives up, retunes the bucket or comes late.                     *)
THEOREM SpacedHolds == Spec => []Spaced
<1>1. LimitInv /\ [Next]_vars => LimitInv'
  BY NextLimits, LimitPreserved
<1>2. LimitInv => Spaced
  BY DEF LimitInv
<1>. QED BY <1>1, <1>2, LimitInit, PTL DEF Spec

-----------------------------------------------------------------------------
(* The token.                                                              *)

(* Whether another token may be asked for without a new reason.            *)
Wanted == IF T!Valid \/ answer # 0 THEN 0 ELSE 1

(* Nobody fetches while the cached token is good; what is on its way is on *)
(* its way to the holder.                                                  *)
Fetching ==
  /\ holder # "none" => ~T!Valid
  /\ holder = "none" => answer = 0

CacheInv ==
  /\ T!TypeOK /\ Fetching
  /\ value <= issued /\ answer <= issued
  /\ issued + Wanted <= causes

LEMMA CacheInit == Init => CacheInv
BY DEF Init, T!Init, CacheInv, T!TypeOK, Fetching, Wanted, T!Valid

LEMMA CachePreserved == CacheInv /\ TokenStep => CacheInv'
<1>. SUFFICES ASSUME CacheInv, TokenStep PROVE CacheInv'
  OBVIOUS
<1>. USE SendAssumption DEF SendAssumption, CacheInv, T!TypeOK, Fetching, Wanted,
       T!Valid, T!Free, T!platform
<1>1. CASE UNCHANGED tokens
  BY <1>1 DEF tokens
<1>2. ASSUME NEW c \in Calls, T!Hit(c) PROVE CacheInv'
  BY <1>2 DEF T!Hit
<1>3. ASSUME NEW c \in Calls, T!Miss(c) PROVE CacheInv'
  BY <1>3 DEF T!Miss
<1>4. ASSUME NEW c \in Calls, T!Issue(c) PROVE CacheInv'
  BY <1>4 DEF T!Issue
<1>5. ASSUME NEW c \in Calls, T!Fail(c) PROVE CacheInv'
  BY <1>5 DEF T!Fail
<1>6. ASSUME NEW c \in Calls, T!Invalidate(c) PROVE CacheInv'
  BY <1>6 DEF T!Invalidate
<1>7. ASSUME NEW c \in Calls, NEW a \in {"fresh", "stale"}, T!Store(c, a) PROVE CacheInv'
  BY <1>7 DEF T!Store
<1>8. CASE T!Grow
  BY <1>8 DEF T!Grow, T!Older
<1>9. CASE T!Retire
  BY <1>9 DEF T!Retire
<1>10. QED
  BY <1>1, <1>2, <1>3, <1>4, <1>5, <1>6, <1>7, <1>8, <1>9 DEF TokenStep

(* FetchedForACause: however many deliveries miss at once, the platform is *)
(* asked once for each reason.                                             *)
THEOREM FetchedForACauseHolds == Spec => []FetchedForACause
<1>1. CacheInv /\ [Next]_vars => CacheInv'
  BY NextTokens, CachePreserved
<1>2. CacheInv => FetchedForACause
  BY DEF CacheInv, FetchedForACause, T!FetchedForACause, Wanted, T!TypeOK
<1>. QED BY <1>1, <1>2, CacheInit, PTL DEF Spec

-----------------------------------------------------------------------------
(* One delivery.                                                           *)

Outcome == {"SENT", "CONNECT_ERROR", "TRANSIENT", "PERMANENT"}

(* The locals of a call: its outcomes are those of the mails it has sent.  *)
Private == [step : Steps, token : Nat, tries : 0..1, refusedAt : Nat,
            outcomes : Seq(Outcome), class : Classes]

(* What a call has in its hands, and what it returns, is what the peer did.*)
Honoured(l, e) ==
  /\ (\A i \in DOMAIN l.outcomes : l.outcomes[i] = "SENT") => Len(l.outcomes) <= e.taken
  /\ (\E i \in DOMAIN l.outcomes : l.outcomes[i] = "PERMANENT") => e.refused
  /\ l.step = "idle" /\ l.class = "SENT" =>
       e.taken >= (IF kind = "email" THEN Addresses ELSE 1) \/ e.blurred
  /\ l.step = "idle" /\ l.class = "PERMANENT" => e.refused
  /\ l.step = "posting" => kind # "email"
  /\ l.step \in {"token", "fetching", "invalidating"} => kind = "wecomapp"

(* A second attempt has no token but those issued since the first was      *)
(* refused, once it has discarded the one it had.                          *)
Newer(l) ==
  l.tries = 1 =>
    /\ l.step \in {"invalidating", "token", "fetching", "posting"}
    /\ l.refusedAt <= issued
    /\ l.step \in {"token", "fetching"} =>
         /\ value # 0 => l.refusedAt < value
         /\ answer # 0 => l.refusedAt < answer
    /\ l.step = "posting" => l.refusedAt < l.token

SendInv ==
  /\ kind \in Kinds
  /\ at \in [Calls -> Private] /\ seen \in [Calls -> Seen]
  /\ \A s \in Senders : Honoured(at[s], seen[s]) /\ Newer(at[s])

LEMMA SendInit == Init => SendInv
<1>. SUFFICES ASSUME Init PROVE SendInv
  OBVIOUS
<1>1. Unsent \in Private /\ Unseen \in Seen
  BY DEF Unsent, Private, Steps, Unseen, Seen, Classes, Severity
<1>2. /\ Unsent.outcomes = <<>> /\ Unsent.step = "idle" /\ Unsent.tries = 0
      /\ Unsent.class = "NOT_ATTEMPTED" /\ Unseen.taken = 0
  BY DEF Unsent, Unseen
<1>3. \A s \in Calls : at[s] = Unsent /\ seen[s] = Unseen
  BY DEF Init
<1>4. QED
  BY <1>1, <1>2, <1>3 DEF Init, SendInv, Honoured, Newer, Calls

(* A call that does nothing keeps its tokens new, whatever happens to the  *)
(* cache.                                                                  *)
LEMMA NewerStays ==
  ASSUME CacheInv, TokenStep, NEW l \in Private, Newer(l)
  PROVE  Newer(l)'
<1>. USE DEF Newer, Private, CacheInv, T!TypeOK
<1>1. CASE UNCHANGED tokens
  BY <1>1 DEF tokens
<1>2. ASSUME NEW c \in Calls, T!Hit(c) PROVE Newer(l)'
  BY <1>2 DEF T!Hit, T!platform
<1>3. ASSUME NEW c \in Calls, T!Miss(c) PROVE Newer(l)'
  BY <1>3 DEF T!Miss, T!platform
<1>4. ASSUME NEW c \in Calls, T!Issue(c) PROVE Newer(l)'
  BY <1>4 DEF T!Issue
<1>5. ASSUME NEW c \in Calls, T!Fail(c) PROVE Newer(l)'
  BY <1>5 DEF T!Fail, T!platform
<1>6. ASSUME NEW c \in Calls, T!Invalidate(c) PROVE Newer(l)'
  BY <1>6 DEF T!Invalidate, T!platform
<1>7. ASSUME NEW c \in Calls, NEW a \in {"fresh", "stale"}, T!Store(c, a) PROVE Newer(l)'
  BY <1>7 DEF T!Store, T!platform
<1>8. CASE T!Grow
  BY <1>8 DEF T!Grow, T!platform
<1>9. CASE T!Retire
  BY <1>9 DEF T!Retire
<1>10. QED
  BY <1>1, <1>2, <1>3, <1>4, <1>5, <1>6, <1>7, <1>8, <1>9 DEF TokenStep

(* A step of one call.                                                     *)
LEMMA OneMoves ==
  ASSUME SendInv, CacheInv, TokenStep, NEW s \in Calls,
         NEW l \in Private, NEW e \in Seen,
         at' = [at EXCEPT ![s] = l], seen' = [seen EXCEPT ![s] = e], kind' = kind,
         s \in Senders => Honoured(l, e) /\ Newer(l)'
  PROVE  SendInv'
<1>1. at' \in [Calls -> Private] /\ seen' \in [Calls -> Seen] /\ kind' \in Kinds
  BY DEF SendInv
<1>2. /\ at'[s] = l /\ seen'[s] = e
      /\ \A r \in Calls \ {s} : at'[r] = at[r] /\ seen'[r] = seen[r]
  BY DEF SendInv
<1>3. ASSUME NEW r \in Senders PROVE Honoured(at[r], seen[r])' /\ Newer(at[r])'
  <2>1. CASE r = s
    BY <1>2, <2>1 DEF Honoured, Newer
  <2>2. CASE r # s
    <3>1. at[r] \in Private /\ Newer(at[r]) /\ Honoured(at[r], seen[r])
      BY DEF SendInv, Calls
    <3>2. at'[r] = at[r] /\ seen'[r] = seen[r]
      BY <1>2, <2>2 DEF Calls
    <3>3. ASSUME NEW m, m = at[r] PROVE Newer(m)'
      BY <3>1, <3>3, NewerStays
    <3>4. QED BY <3>1, <3>2, <3>3 DEF Honoured, Newer
  <2>3. QED BY <2>1, <2>2
<1>4. QED BY <1>1, <1>3 DEF SendInv

(* And of none.                                                            *)
LEMMA NoneMoves ==
  ASSUME SendInv, CacheInv, TokenStep, UNCHANGED <<at, seen, kind>>
  PROVE  SendInv'
<1>1. ASSUME NEW r \in Senders PROVE Honoured(at[r], seen[r])' /\ Newer(at[r])'
  <2>1. at[r] \in Private /\ Newer(at[r]) /\ Honoured(at[r], seen[r])
    BY DEF SendInv, Calls
  <2>2. ASSUME NEW m, m = at[r] PROVE Newer(m)'
    BY <2>1, <2>2, NewerStays
  <2>3. QED BY <2>1, <2>2 DEF Honoured, Newer
<1>2. QED BY <1>1 DEF SendInv

-----------------------------------------------------------------------------
(* What the actions make of the locals.                                    *)

Moved(l, step) == [l EXCEPT !.step = step]
Ended(class)   == [Unsent EXCEPT !.class = class]

LEMMA MovedFacts ==
  ASSUME NEW l \in Private, NEW step \in Steps
  PROVE  /\ Moved(l, step) \in Private /\ Moved(l, step).step = step
         /\ Moved(l, step).token = l.token /\ Moved(l, step).tries = l.tries
         /\ Moved(l, step).refusedAt = l.refusedAt
         /\ Moved(l, step).outcomes = l.outcomes /\ Moved(l, step).class = l.class
BY DEF Private, Moved

LEMMA EndedFacts ==
  ASSUME NEW class \in Classes
  PROVE  /\ Ended(class) \in Private /\ Ended(class).step = "idle"
         /\ Ended(class).tries = 0 /\ Ended(class).outcomes = <<>>
         /\ Ended(class).class = class
<1> DEFINE l == [step |-> "idle", token |-> 0, tries |-> 0, refusedAt |-> 0,
                 outcomes |-> <<>>, class |-> class]
<1>1. Ended(class) = l
  BY DEF Ended, Unsent
<1>2. l \in Private
  BY DEF Private, Steps
<1>3. QED BY <1>1, <1>2

(* A call that returns: it needs to have heard what it says.               *)
LEMMA Returns ==
  ASSUME SendInv, CacheInv, TokenStep, NEW s \in Calls, NEW class \in Classes,
         Return(s, class), NEW e \in Seen, seen' = [seen EXCEPT ![s] = e], kind' = kind,
         s \in Senders /\ class = "SENT" =>
           e.taken >= (IF kind = "email" THEN Addresses ELSE 1) \/ e.blurred,
         s \in Senders /\ class = "PERMANENT" => e.refused
  PROVE  SendInv'
<1> DEFINE l == Ended(class)
<1>1. /\ l \in Private /\ l.step = "idle" /\ l.tries = 0 /\ l.outcomes = <<>>
      /\ l.class = class
  BY EndedFacts
<1>2. at' = [at EXCEPT ![s] = l]
  BY DEF Return, Ended
<1>. HIDE DEF l
<1>3. s \in Senders => Honoured(l, e)
  BY <1>1 DEF Honoured, Seen
<1>4. Newer(l)'
  BY <1>1 DEF Newer
<1>5. QED BY <1>1, <1>2, <1>3, <1>4, OneMoves

(* A call that goes on to its next step, l.                                *)
LEMMA Goes ==
  ASSUME SendInv, CacheInv, TokenStep, NEW s \in Calls, NEW step \in Steps,
         Goto(s, step), UNCHANGED <<seen, kind>>, step # "idle",
         step = "posting" => kind # "email", NEW l, l = Moved(at[s], step),
         s \in Senders =>
           /\ step \in {"token", "fetching", "invalidating"} => kind = "wecomapp"
           /\ l.tries = 1 => Newer(l)'
  PROVE  SendInv'
<1>1. at[s] \in Private /\ seen[s] \in Seen
  BY DEF SendInv
<1>2. /\ l \in Private /\ l.step = step
      /\ l.outcomes = at[s].outcomes
  BY <1>1, MovedFacts
<1>3. at' = [at EXCEPT ![s] = l] /\ seen' = [seen EXCEPT ![s] = seen[s]]
  BY DEF Goto, Moved, SendInv
<1>4. s \in Senders => Honoured(l, seen[s])
  <2>1. s \in Senders => Honoured(at[s], seen[s])
    BY DEF SendInv
  <2>2. QED BY <1>2, <2>1 DEF Honoured
<1>5. s \in Senders => Newer(l)'
  BY DEF Newer
<1>6. QED BY <1>1, <1>2, <1>3, <1>4, <1>5, OneMoves

(* FromRecipients: the worst of them.                                      *)
LEMMA WorstOf ==
  ASSUME NEW S \in SUBSET Outcome, S # {}
  PROVE  /\ Worst(S) \in S
         /\ Worst(S) = "SENT" => S = {"SENT"}
<1>1. \E c \in S : \A d \in S : Severity[d] <= Severity[c]
  <2>1. CASE "PERMANENT" \in S
    BY <2>1 DEF Outcome, Severity
  <2>2. CASE "PERMANENT" \notin S /\ "TRANSIENT" \in S
    BY <2>2 DEF Outcome, Severity
  <2>3. CASE "PERMANENT" \notin S /\ "TRANSIENT" \notin S /\ "CONNECT_ERROR" \in S
    BY <2>3 DEF Outcome, Severity
  <2>4. CASE S = {"SENT"}
    BY <2>4 DEF Severity
  <2>5. QED BY <2>1, <2>2, <2>3, <2>4 DEF Outcome
<1>2. Worst(S) \in S /\ \A d \in S : Severity[d] <= Severity[Worst(S)]
  BY <1>1 DEF Worst
<1>3. ASSUME Worst(S) = "SENT", NEW d \in S PROVE d = "SENT"
  <2>1. Severity[d] <= 1 /\ d \in Outcome
    BY <1>2, <1>3 DEF Severity
  <2>2. QED BY <2>1 DEF Outcome, Severity
<1>4. QED BY <1>2, <1>3

LEMMA RecipientsFacts ==
  ASSUME NEW outcomes \in Seq(Outcome), outcomes # <<>>
  PROVE  /\ FromRecipients(outcomes) \in Classes
         /\ FromRecipients(outcomes) = "SENT" =>
              \A i \in DOMAIN outcomes : outcomes[i] = "SENT"
         /\ FromRecipients(outcomes) = "PERMANENT" =>
              \E i \in DOMAIN outcomes : outcomes[i] = "PERMANENT"
<1> DEFINE S == {IF outcomes[i] = "NOT_ATTEMPTED" THEN "PERMANENT" ELSE outcomes[i] :
                   i \in DOMAIN outcomes}
<1>1. \A i \in DOMAIN outcomes : outcomes[i] \in Outcome /\ outcomes[i] # "NOT_ATTEMPTED"
  BY DEF Outcome
<1>2. S = {outcomes[i] : i \in DOMAIN outcomes}
  BY <1>1
<1>3. S \in SUBSET Outcome /\ S # {}
  BY <1>1, <1>2
<1>4. FromRecipients(outcomes) = Worst(S)
  BY DEF FromRecipients
<1>5. /\ FromRecipients(outcomes) \in S
      /\ FromRecipients(outcomes) = "SENT" => S = {"SENT"}
  BY <1>3, <1>4, WorstOf
<1>6. QED BY <1>2, <1>3, <1>5 DEF Outcome, Classes, Severity

-----------------------------------------------------------------------------
(* The actions.                                                            *)

LEMMA IssuedGrows ==
  CacheInv /\ TokenStep => issued \in Nat /\ issued' \in Nat /\ issued <= issued'
<1>. SUFFICES ASSUME CacheInv, TokenStep PROVE issued \in Nat /\ issued' \in Nat /\ issued <= issued'
  OBVIOUS
<1>. USE DEF CacheInv, T!TypeOK, T!platform
<1>1. CASE UNCHANGED tokens
  BY <1>1 DEF tokens
<1>2. ASSUME NEW c \in Calls, T!Hit(c) \/ T!Miss(c) \/ T!Issue(c) \/ T!Fail(c) \/ T!Invalidate(c)
      PROVE issued' \in Nat /\ issued <= issued'
  BY <1>2 DEF T!Hit, T!Miss, T!Issue, T!Fail, T!Invalidate
<1>3. ASSUME NEW c \in Calls, NEW a \in {"fresh", "stale"}, T!Store(c, a)
      PROVE issued' \in Nat /\ issued <= issued'
  BY <1>3 DEF T!Store
<1>4. CASE T!Grow \/ T!Retire
  BY <1>4 DEF T!Grow, T!Retire
<1>5. QED BY <1>1, <1>2, <1>3, <1>4 DEF TokenStep

(* A send or a test begins.                                                *)
LEMMA Enters ==
  ASSUME SendInv, CacheInv, TokenStep, NEW s \in Calls, NEW step \in Steps, Enter(s, step),
         step # "idle", s \in Senders => step = "claiming"
  PROVE  SendInv'
<1>1. Unsent \in Private /\ Unseen \in Seen
  BY DEF Unsent, Private, Steps, Unseen, Seen, Classes, Severity
<1>2. PICK l : l = Moved(Unsent, step)
  OBVIOUS
<1>3. l \in Private /\ l.step = step /\ l.tries = 0 /\ l.outcomes = <<>>
  BY <1>1, <1>2, MovedFacts DEF Unsent
<1>4. at' = [at EXCEPT ![s] = l] /\ seen' = [seen EXCEPT ![s] = Unseen] /\ kind' = kind
  BY <1>2 DEF Enter, Moved
<1>5. s \in Senders => Honoured(l, Unseen)
  BY <1>3 DEF Honoured, Unseen
<1>6. s \in Senders => Newer(l)'
  BY <1>3 DEF Newer
<1>7. QED BY <1>1, <1>3, <1>4, <1>5, <1>6, OneMoves

(* A call that has a token: a test is done with it.                        *)
LEMMA Uses ==
  ASSUME SendInv, CacheInv, TokenStep, NEW s \in Calls, NEW t \in Nat, Use(s, t),
         UNCHANGED <<seen, kind>>, at[s].step \in {"token", "fetching"},
         s \in Senders /\ at[s].tries = 1 => at[s].refusedAt < t
  PROVE  SendInv'
<1>1. at[s] \in Private /\ seen[s] \in Seen
  BY DEF SendInv
<1>2. seen' = [seen EXCEPT ![s] = seen[s]]
  BY DEF SendInv
<1>3. CASE s \in Testers
  <2>1. s \notin Senders
    BY <1>3, SendAssumption DEF SendAssumption
  <2>2. Return(s, "SENT") /\ "SENT" \in Classes
    BY <1>3 DEF Use, Classes, Severity
  <2>3. QED BY <1>1, <1>2, <2>1, <2>2, Returns
<1>4. CASE s \notin Testers
  <2>1. s \in Senders
    BY <1>4 DEF Calls
  <2>2. PICK l : l = [at[s] EXCEPT !.step = "posting", !.token = t]
    OBVIOUS
  <2>3. /\ l \in Private /\ l.step = "posting" /\ l.token = t /\ l.tries = at[s].tries
        /\ l.refusedAt = at[s].refusedAt /\ l.outcomes = at[s].outcomes
    BY <1>1, <2>2 DEF Private, Steps
  <2>4. at' = [at EXCEPT ![s] = l]
    BY <1>4, <2>2 DEF Use
  <2>5. Honoured(at[s], seen[s]) /\ Newer(at[s])
    BY <2>1 DEF SendInv
  <2>6. Honoured(l, seen[s])
    BY <2>3, <2>5 DEF Honoured
  <2>7. Newer(l)'
    <3>1. l.tries = 1 => l.refusedAt <= issued /\ l.refusedAt < t
      BY <2>1, <2>3, <2>5 DEF Newer
    <3>2. l.refusedAt \in Nat
      BY <2>3 DEF Private
    <3>3. QED BY <2>3, <3>1, <3>2, IssuedGrows DEF Newer
  <2>8. QED BY <1>1, <1>2, <2>3, <2>4, <2>6, <2>7, OneMoves
<1>5. QED BY <1>3, <1>4

LEMMA Unreturned == {"CONNECT_ERROR", "NOT_ATTEMPTED", "TRANSIENT", "PERMANENT", "SENT"} \subseteq Classes
BY DEF Classes, Severity

LEMMA TokenActions ==
  ASSUME SendInv, CacheInv, TokenStep, NEW s \in Calls,
         \/ Hit(s) \/ Miss(s) \/ Issue(s) \/ Unfetched(s) \/ Invalidate(s)
         \/ \E a \in {"fresh", "stale"} : Fetched(s, a)
  PROVE  SendInv'
<1>1. at[s] \in Private /\ seen[s] \in Seen /\ value \in Nat /\ answer \in Nat /\ issued \in Nat
  BY DEF SendInv, CacheInv, T!TypeOK
<1>2. s \in Senders => Honoured(at[s], seen[s]) /\ Newer(at[s])
  BY DEF SendInv
<1>3. seen' = seen /\ kind' = kind => seen' = [seen EXCEPT ![s] = seen[s]]
  BY DEF SendInv
<1>4. CASE Hit(s)
  <2>1. s \in Senders /\ at[s].tries = 1 => at[s].refusedAt < value
    BY <1>2, <1>4 DEF Hit, T!Hit, T!Valid, Newer
  <2>2. QED BY <1>1, <1>4, <2>1, Uses DEF Hit
<1>5. CASE Miss(s)
  <2>1. PICK l : l = Moved(at[s], "fetching")
    OBVIOUS
  <2>2. /\ l.step = "fetching" /\ l.tries = at[s].tries /\ l.refusedAt = at[s].refusedAt
    BY <1>1, <2>1, MovedFacts DEF Steps
  <2>3. s \in Senders => kind = "wecomapp"
    BY <1>2, <1>5 DEF Miss, Honoured
  <2>4. s \in Senders /\ l.tries = 1 => Newer(l)'
    BY <1>2, <1>5, <2>2 DEF Miss, T!Miss, T!platform, Newer
  <2>5. QED BY <1>5, <2>1, <2>3, <2>4, Goes DEF Miss, Steps
<1>6. CASE Issue(s)
  BY <1>6, NoneMoves DEF Issue, own
<1>7. CASE Unfetched(s)
  <2>1. CASE T!Served
    <3>1. s \in Senders /\ at[s].tries = 1 => at[s].refusedAt < value
      BY <1>2, <1>7, <2>1 DEF Unfetched, T!Served, Newer
    <3>2. QED BY <1>1, <1>7, <2>1, <3>1, Uses DEF Unfetched
  <2>2. CASE ~T!Served
    <3>1. PICK class \in Classes :
             /\ Return(s, class) /\ class # "SENT"
             /\ s \in Senders => class = "CONNECT_ERROR"
      BY <1>7, <2>2, SendAssumption, Unreturned DEF Unfetched, SendAssumption
    <3>2. QED BY <1>1, <1>3, <1>7, <3>1, Returns DEF Unfetched
  <2>3. QED BY <2>1, <2>2
<1>8. CASE Invalidate(s)
  <2>1. PICK l : l = Moved(at[s], "token")
    OBVIOUS
  <2>2. /\ l.step = "token" /\ l.tries = at[s].tries /\ l.refusedAt = at[s].refusedAt
    BY <1>1, <2>1, MovedFacts DEF Steps
  <2>3. s \in Senders => kind = "wecomapp"
    BY <1>2, <1>8 DEF Invalidate, Honoured
  <2>4. s \in Senders /\ l.tries = 1 => Newer(l)'
    BY <1>2, <1>8, <2>2 DEF Invalidate, T!Invalidate, T!platform, T!Free, Newer, CacheInv, Fetching
  <2>5. QED BY <1>8, <2>1, <2>3, <2>4, Goes DEF Invalidate, Steps
<1>9. ASSUME NEW a \in {"fresh", "stale"}, Fetched(s, a) PROVE SendInv'
  <2>1. s \in Senders /\ at[s].tries = 1 => at[s].refusedAt < answer
    BY <1>2, <1>9 DEF Fetched, T!Store, Newer
  <2>2. QED BY <1>1, <1>9, <2>1, Uses DEF Fetched
<1>10. QED BY <1>4, <1>5, <1>6, <1>7, <1>8, <1>9

LEMMA LimitActions ==
  ASSUME SendInv, CacheInv, TokenStep, NEW s \in Senders,
         \/ Claim(s) \/ GiveUp(s) \/ Go(s) \/ Unusable(s)
         \/ \E i \in Intervals : Begin(s, i)
  PROVE  SendInv'
<1>1. at[s] \in Private /\ seen[s] \in Seen /\ s \in Calls
  BY DEF SendInv, Calls
<1>2. Honoured(at[s], seen[s]) /\ Newer(at[s])
  BY DEF SendInv
<1>3. seen' = seen /\ kind' = kind => seen' = [seen EXCEPT ![s] = seen[s]]
  BY DEF SendInv
<1>4. ASSUME NEW i \in Intervals, Begin(s, i) PROVE SendInv'
  BY <1>1, <1>4, Enters DEF Begin, Steps
<1>5. CASE Claim(s)
  <2>1. PICK l : l = Moved(at[s], "waiting")
    OBVIOUS
  <2>2. l.tries = at[s].tries /\ at[s].tries # 1
    BY <1>1, <1>2, <1>5, <2>1, MovedFacts DEF Claim, Newer, Steps
  <2>3. QED BY <1>1, <1>5, <2>1, <2>2, Goes DEF Claim, Steps
<1>6. CASE GiveUp(s)
  BY <1>1, <1>3, <1>6, Unreturned, Returns DEF GiveUp
<1>7. CASE Go(s)
  <2>1. /\ First(s) \in Steps /\ First(s) # "idle"
        /\ First(s) = "posting" => kind # "email"
        /\ First(s) \in {"token", "fetching", "invalidating"} => kind = "wecomapp"
    BY DEF First, Steps
  <2>2. PICK l : l = Moved(at[s], First(s))
    OBVIOUS
  <2>3. l.tries = at[s].tries /\ at[s].tries # 1
    BY <1>1, <1>2, <1>7, <2>1, <2>2, MovedFacts DEF Go, Newer
  <2>4. QED BY <1>1, <1>7, <2>1, <2>2, <2>3, Goes DEF Go
<1>8. CASE Unusable(s)
  <2>1. PICK e : e = [seen[s] EXCEPT !.refused = TRUE]
    OBVIOUS
  <2>2. e \in Seen /\ e.refused /\ seen' = [seen EXCEPT ![s] = e] /\ kind' = kind
    BY <1>1, <1>8, <2>1 DEF Seen, Unusable
  <2>3. Return(s, "PERMANENT")
    BY <1>8 DEF Unusable
  <2>4. QED BY <1>1, <2>2, <2>3, Unreturned, Returns
<1>9. QED BY <1>4, <1>5, <1>6, <1>7, <1>8

(* What Judge makes of an answer.                                          *)
LEMMA JudgeFacts ==
  ASSUME NEW k \in HttpKinds, NEW status \in Statuses, NEW body \in Bodies
  PROVE  /\ Judge(k, status, body) \in Classes
         /\ Judge(k, status, body) = "SENT" =>
              status = "2xx" /\ (k \notin StatusOnly => body \in {"ok", "unreadable"})
         /\ Judge(k, status, body) = "PERMANENT" =>
              \/ status \in {"3xx", "4xx"}
              \/ status = "2xx" /\ k \notin StatusOnly /\ body \in {"token", "fault", "refused"}
<1>1. CASE status # "2xx"
  BY <1>1, Unreturned DEF Judge, ClassifyStatus, Statuses
<1>2. CASE status = "2xx" /\ k \in StatusOnly
  BY <1>2, Unreturned DEF Judge, ClassifyStatus
<1>3. CASE status = "2xx" /\ k \notin StatusOnly
  <2>1. Judge(k, status, body) = CheckAPIResponse(k, body)
    BY <1>3 DEF Judge, ClassifyStatus
  <2>2. "limited" \in Later[k]
    BY <1>3 DEF HttpKinds, Later, DingtalkLater, FeishuLater, SlackLater, WecomLater
  <2>3. QED BY <1>3, <2>1, <2>2, Unreturned DEF CheckAPIResponse, Bodies
<1>4. QED BY <1>1, <1>2, <1>3

LEMMA Exchange ==
  ASSUME SendInv, CacheInv, TokenStep, NEW s \in Senders,
         \/ \E failure \in NoAnswer : Lost(s, failure)
         \/ \E status \in Statuses, body \in Bodies : Answered(s, status, body)
  PROVE  SendInv'
<1>1. at[s] \in Private /\ seen[s] \in Seen /\ s \in Calls /\ kind \in Kinds
  BY DEF SendInv, Calls
<1>2. Honoured(at[s], seen[s]) /\ Newer(at[s])
  BY DEF SendInv
<1>3. ASSUME NEW failure \in NoAnswer, Lost(s, failure) PROVE SendInv'
  <2>1. PICK e \in Seen : seen' = [seen EXCEPT ![s] = e]
    <3>1. seen = [seen EXCEPT ![s] = seen[s]]
      BY DEF SendInv
    <3>2. PICK e : e = [seen[s] EXCEPT !.taken = @ + 1]
      OBVIOUS
    <3>3. e \in Seen
      BY <1>1, <3>2 DEF Seen
    <3>4. seen' = seen \/ seen' = [seen EXCEPT ![s] = e]
      BY <1>3, <3>2 DEF Lost
    <3>5. QED BY <1>1, <3>1, <3>3, <3>4
  <2>2. Return(s, "CONNECT_ERROR") /\ kind' = kind
    BY <1>3 DEF Lost, ClassifyError
  <2>3. QED BY <1>1, <2>1, <2>2, Unreturned, Returns
<1>4. ASSUME NEW status \in Statuses, NEW body \in Bodies, Answered(s, status, body)
      PROVE SendInv'
  <2>1. kind \in HttpKinds /\ kind # "email"
    BY <1>1, <1>2, <1>4, SendAssumption DEF Answered, Posting, Honoured, SendAssumption
  <2>2. PICK e : e = [seen[s] EXCEPT
           !.taken = IF Taken(status, body) THEN @ + 1 ELSE @,
           !.refused = @ \/ Denied(status, body),
           !.blurred = @ \/ (Reads(status) /\ body = "unreadable")]
    OBVIOUS
  <2>3. seen' = [seen EXCEPT ![s] = e]
    BY <1>4, <2>2 DEF Answered
  <2>4. PICK n \in Nat : n = IF Taken(status, body) THEN seen[s].taken + 1 ELSE seen[s].taken
    BY <1>1 DEF Seen
  <2>5. PICK r \in BOOLEAN : r = (seen[s].refused \/ Denied(status, body))
    OBVIOUS
  <2>6. PICK b \in BOOLEAN : b = (seen[s].blurred \/ (Reads(status) /\ body = "unreadable"))
    OBVIOUS
  <2>7. e = [seen[s] EXCEPT !.taken = n, !.refused = r, !.blurred = b]
    BY <2>2, <2>4, <2>5, <2>6
  <2>8. e \in Seen /\ e.taken = n /\ e.refused = r /\ e.blurred = b
    BY <1>1, <2>7 DEF Seen
  <2>9. /\ e \in Seen /\ e.taken >= seen[s].taken
        /\ Taken(status, body) => e.taken >= 1
        /\ e.refused <=> seen[s].refused \/ Denied(status, body)
        /\ e.blurred <=> seen[s].blurred \/ (Reads(status) /\ body = "unreadable")
    BY <1>1, <2>4, <2>5, <2>6, <2>8 DEF Seen
  <2>10. CASE Again(s, status, body)
    <3>1. PICK l : l = [at[s] EXCEPT !.step = "invalidating", !.tries = 1, !.refusedAt = issued]
      OBVIOUS
    <3>2. PICK now \in Nat : now = issued
      BY DEF CacheInv, T!TypeOK
    <3>3. /\ l \in Private /\ l.step = "invalidating" /\ l.refusedAt = issued
          /\ l.outcomes = at[s].outcomes
      <4>1. PICK j \in 0..1 : j = 1
        OBVIOUS
      <4>2. PICK m : m = [at[s] EXCEPT !.step = "invalidating", !.tries = j]
        OBVIOUS
      <4>3. m \in Private /\ m.step = "invalidating" /\ m.outcomes = at[s].outcomes
        BY <1>1, <4>2 DEF Private, Steps
      <4>4. l = [m EXCEPT !.refusedAt = now]
        BY <3>1, <3>2, <4>2, <4>1
      <4>5. QED BY <3>2, <4>3, <4>4 DEF Private
    <3>4. at' = [at EXCEPT ![s] = l] /\ kind' = kind
      BY <1>4, <2>10, <3>1 DEF Answered
    <3>5. Honoured(l, e)
      <4>1. Len(l.outcomes) \in Nat /\ seen[s].taken \in Nat /\ e.taken \in Nat
        BY <1>1, <2>9, <3>3 DEF Private, Seen
      <4>2. QED BY <1>2, <2>9, <2>10, <3>3, <4>1 DEF Honoured, Again
    <3>6. Newer(l)'
      BY <3>3, IssuedGrows DEF Newer
    <3>7. QED BY <1>1, <2>3, <2>9, <3>3, <3>4, <3>5, <3>6, OneMoves
  <2>11. CASE ~Again(s, status, body)
    <3>1. Return(s, Judge(kind, status, body)) /\ kind' = kind
      BY <1>4, <2>11 DEF Answered
    <3>2. Judge(kind, status, body) = "SENT" => e.taken >= 1 \/ e.blurred
      BY <2>1, <2>9, JudgeFacts DEF Taken, Reads
    <3>3. Judge(kind, status, body) = "PERMANENT" => e.refused
      BY <2>1, <2>9, JudgeFacts DEF Denied, Reads
    <3>4. Judge(kind, status, body) \in Classes
      BY <2>1, JudgeFacts
    <3>5. QED BY <1>1, <2>1, <2>3, <2>9, <3>1, <3>2, <3>3, <3>4, Returns
  <2>12. QED BY <2>10, <2>11
<1>5. QED BY <1>3, <1>4

LEMMA OneMail ==
  ASSUME SendInv, CacheInv, TokenStep, NEW s \in Senders, NEW t \in Transactions,
         Transaction(s, t)
  PROVE  SendInv'
<1>1. at[s] \in Private /\ seen[s] \in Seen /\ s \in Calls
  BY DEF SendInv, Calls
<1>2. Honoured(at[s], seen[s]) /\ Newer(at[s])
  BY DEF SendInv
<1>3. PICK before : before = at[s].outcomes
  OBVIOUS
<1>4. PICK outcomes : outcomes = Append(before, OfTransaction(t))
  OBVIOUS
<1>5. PICK e : e = [seen[s] EXCEPT !.taken = IF t = "taken" THEN @ + 1 ELSE @,
                                   !.refused = @ \/ t \in {"5xx", "unusable"}]
  OBVIOUS
<1>6. /\ OfTransaction(t) \in Outcome
      /\ OfTransaction(t) = "SENT" => t = "taken"
      /\ OfTransaction(t) = "PERMANENT" => t \in {"5xx", "unusable"}
  BY DEF OfTransaction, Transactions, Outcome
<1>7. before \in Seq(Outcome) /\ outcomes \in Seq(Outcome) /\ outcomes # <<>>
  BY <1>1, <1>3, <1>4, <1>6 DEF Private
<1>8. /\ e \in Seen /\ seen' = [seen EXCEPT ![s] = e] /\ kind' = kind
      /\ e.taken = IF t = "taken" THEN seen[s].taken + 1 ELSE seen[s].taken
      /\ e.refused <=> seen[s].refused \/ t \in {"5xx", "unusable"}
  <2>1. PICK n \in Nat : n = IF t = "taken" THEN seen[s].taken + 1 ELSE seen[s].taken
    BY <1>1 DEF Seen
  <2>2. PICK r \in BOOLEAN : r = (seen[s].refused \/ t \in {"5xx", "unusable"})
    OBVIOUS
  <2>3. e = [seen[s] EXCEPT !.taken = n, !.refused = r]
    BY <1>5, <2>1, <2>2
  <2>4. e \in Seen /\ e.taken = n /\ e.refused = r
    BY <1>1, <2>3 DEF Seen
  <2>5. seen' = [seen EXCEPT ![s] = e] /\ kind' = kind
    BY <1>5 DEF Transaction
  <2>6. QED BY <1>1, <2>1, <2>2, <2>4, <2>5 DEF Seen
<1>9. /\ Len(outcomes) = Len(before) + 1
      /\ \A i \in DOMAIN before : i \in DOMAIN outcomes /\ outcomes[i] = before[i]
      /\ outcomes[Len(outcomes)] = OfTransaction(t)
      /\ Len(outcomes) \in DOMAIN outcomes
      /\ \A i \in DOMAIN outcomes : i \in DOMAIN before \/ i = Len(outcomes)
  BY <1>4, <1>6, <1>7
<1>10. (\A i \in DOMAIN outcomes : outcomes[i] = "SENT") => Len(outcomes) <= e.taken
  <2>1. SUFFICES ASSUME \A i \in DOMAIN outcomes : outcomes[i] = "SENT"
                 PROVE  Len(outcomes) <= e.taken
    OBVIOUS
  <2>2. t = "taken" /\ \A i \in DOMAIN before : before[i] = "SENT"
    BY <1>6, <1>9, <2>1
  <2>3. Len(before) <= seen[s].taken
    BY <1>2, <1>3, <2>2 DEF Honoured
  <2>4. Len(before) \in Nat /\ seen[s].taken \in Nat
    BY <1>1, <1>7 DEF Seen
  <2>5. QED BY <1>8, <1>9, <2>2, <2>3, <2>4
<1>11. (\E i \in DOMAIN outcomes : outcomes[i] = "PERMANENT") => e.refused
  <2>1. SUFFICES ASSUME NEW i \in DOMAIN outcomes, outcomes[i] = "PERMANENT"
                 PROVE  e.refused
    OBVIOUS
  <2>2. CASE i \in DOMAIN before
    BY <1>2, <1>3, <1>8, <1>9, <2>1, <2>2 DEF Honoured
  <2>3. CASE i = Len(outcomes)
    BY <1>6, <1>8, <1>9, <2>1, <2>3
  <2>4. QED BY <1>9, <2>2, <2>3
<1>12. CASE Len(outcomes) = Addresses
  <2>1. Return(s, FromRecipients(outcomes))
    BY <1>3, <1>4, <1>12 DEF Transaction
  <2>2. FromRecipients(outcomes) = "SENT" => e.taken >= Addresses
    BY <1>7, <1>8, <1>10, <1>12, RecipientsFacts DEF Seen
  <2>3. FromRecipients(outcomes) = "PERMANENT" => e.refused
    BY <1>7, <1>11, RecipientsFacts
  <2>4. FromRecipients(outcomes) = "SENT" => e.taken >= (IF kind = "email" THEN Addresses ELSE 1)
    <3>1. Addresses \in Nat /\ Addresses >= 1 /\ e.taken \in Nat
      BY <1>8, SendAssumption DEF SendAssumption, Seen
    <3>2. QED BY <2>2, <3>1
  <2>5. QED BY <1>1, <1>7, <1>8, <2>1, <2>3, <2>4, RecipientsFacts, Returns
<1>13. CASE Len(outcomes) # Addresses
  <2>1. PICK l : l = [at[s] EXCEPT !.outcomes = outcomes]
    OBVIOUS
  <2>2. l \in Private /\ l.step = "mailing" /\ l.outcomes = outcomes /\ l.tries # 1
    BY <1>1, <1>2, <1>7, <2>1 DEF Private, Transaction, Newer
  <2>3. at' = [at EXCEPT ![s] = l]
    BY <1>3, <1>4, <1>13, <2>1 DEF Transaction
  <2>4. Honoured(l, e)
    BY <1>10, <1>11, <2>2 DEF Honoured
  <2>5. Newer(l)'
    BY <2>2 DEF Newer
  <2>6. QED BY <1>1, <1>8, <2>2, <2>3, <2>4, <2>5, OneMoves
<1>14. QED BY <1>12, <1>13

LEMMA SendPreserved == SendInv /\ CacheInv /\ [Next]_vars => SendInv'
<1>. SUFFICES ASSUME SendInv, CacheInv, Next \/ UNCHANGED vars PROVE SendInv'
  OBVIOUS
<1>1. TokenStep
  BY NextTokens
<1>2. CASE UNCHANGED vars
  BY <1>1, <1>2, NoneMoves DEF vars, own
<1>3. ASSUME NEW s \in Testers, Test(s) PROVE SendInv'
  <2>1. s \in Calls /\ s \notin Senders
    BY SendAssumption DEF Calls, SendAssumption
  <2>2. QED BY <1>1, <1>3, <2>1, Enters DEF Test, Steps
<1>4. ASSUME NEW s \in Calls,
             \/ Hit(s) \/ Miss(s) \/ Issue(s) \/ Unfetched(s) \/ Invalidate(s)
             \/ \E a \in {"fresh", "stale"} : Fetched(s, a)
      PROVE SendInv'
  BY <1>1, <1>4, TokenActions
<1>5. ASSUME NEW s \in Senders,
             \/ Claim(s) \/ GiveUp(s) \/ Go(s) \/ Unusable(s)
             \/ \E i \in Intervals : Begin(s, i)
      PROVE SendInv'
  BY <1>1, <1>5, LimitActions
<1>6. ASSUME NEW s \in Senders,
             \/ \E failure \in NoAnswer : Lost(s, failure)
             \/ \E status \in Statuses, body \in Bodies : Answered(s, status, body)
      PROVE SendInv'
  BY <1>1, <1>6, Exchange
<1>7. ASSUME NEW s \in Senders, NEW t \in Transactions, Transaction(s, t) PROVE SendInv'
  BY <1>1, <1>7, OneMail
<1>8. CASE Tick \/ Grow \/ Retire
  BY <1>1, <1>8, NoneMoves DEF Tick, Grow, Retire, own
<1>9. QED BY <1>2, <1>3, <1>4, <1>5, <1>6, <1>7, <1>8 DEF Next

LEMMA SendHolds == Spec => [](CacheInv /\ SendInv)
<1>1. CacheInv /\ [Next]_vars => CacheInv'
  BY NextTokens, CachePreserved
<1>. QED BY <1>1, CacheInit, SendInit, SendPreserved, PTL DEF Spec

(* RefusedOnce: the second attempt of a message never posts with a token   *)
(* that the platform had issued before it refused the first, whatever the  *)
(* other deliveries and the tests do to the cache in between.              *)
THEOREM RefusedOnceHolds == Spec => []RefusedOnce
<1>1. SendInv => RefusedOnce
  <2>1. SUFFICES ASSUME SendInv, NEW s \in Senders,
                        at[s].tries = 1, at[s].step = "posting"
                 PROVE  at[s].token > at[s].refusedAt
    BY DEF RefusedOnce
  <2>2. at[s] \in Private /\ at[s].refusedAt < at[s].token
    BY <2>1 DEF SendInv, Newer, Calls
  <2>3. QED BY <2>2 DEF Private
<1>. QED BY <1>1, SendHolds, PTL

(* VerdictIsThePeers: SENT and PERMANENT are never said of a message whose *)
(* fate the peer has not decided.                                          *)
THEOREM VerdictIsThePeersHolds == Spec => []VerdictIsThePeers
<1>1. SendInv => VerdictIsThePeers
  BY DEF SendInv, Honoured, VerdictIsThePeers, Returned
<1>. QED BY <1>1, SendHolds, PTL

(* ChannelSend implements RateLimit: whatever deliveries and tests do, the *)
(* bucket is used the way it says.                                         *)
THEOREM BucketIsUsed == Spec => L!Spec
<1>1. Init => L!Init
  BY DEF Init
<1>2. [Next]_vars => [L!Next]_(L!vars)
  <2>1. LimitStep => L!Next \/ UNCHANGED limits
    BY DEF LimitStep, L!Next
  <2>2. QED BY <2>1, NextLimits DEF L!vars, limits
<1>3. QED BY <1>1, <1>2, PTL DEF Spec, L!Spec

(* A mail that goes on has recipients left.                                *)
Remain == \A s \in Calls : Len(at[s].outcomes) < Addresses

(* A step that leaves the outcomes of s alone, or forgets them.            *)
LEMMA NothingSaid ==
  ASSUME SendInv, Remain, NEW s \in Calls, NEW l,
         at' = [at EXCEPT ![s] = l], l.outcomes \in {<<>>, at[s].outcomes}
  PROVE  Remain'
<1>1. \A r \in Calls : at'[r] = IF r = s THEN l ELSE at[r]
  BY DEF SendInv
<1>2. Len(<<>>) < Addresses
  BY SendAssumption DEF SendAssumption
<1>3. QED BY <1>1, <1>2 DEF Remain

(* What Goto, Return and Use make of the locals.                           *)
LEMMA NothingSaidBy ==
  ASSUME SendInv, Remain, NEW s \in Calls,
         \/ \E step \in Steps : Goto(s, step) \/ Enter(s, step)
         \/ \E class : Return(s, class)
         \/ \E t : Use(s, t)
         \/ at' = [at EXCEPT ![s].step = "invalidating", ![s].tries = 1,
                             ![s].refusedAt = issued]
  PROVE  Remain'
<1>1. at[s] \in Private
  BY DEF SendInv
<1>2. Unsent.outcomes = <<>>
  BY DEF Unsent
<1>3. ASSUME NEW step \in Steps, Goto(s, step) PROVE Remain'
  <2>1. PICK l : l = [at[s] EXCEPT !.step = step]
    OBVIOUS
  <2>2. l.outcomes = at[s].outcomes /\ at' = [at EXCEPT ![s] = l]
    BY <1>1, <1>3, <2>1 DEF Private, Goto
  <2>3. QED BY <2>2, NothingSaid
<1>4. ASSUME NEW step \in Steps, Enter(s, step) PROVE Remain'
  <2>1. PICK l : l = [Unsent EXCEPT !.step = step]
    OBVIOUS
  <2>2. l.outcomes = <<>> /\ at' = [at EXCEPT ![s] = l]
    BY <1>4, <2>1 DEF Enter, Unsent
  <2>3. QED BY <2>2, NothingSaid
<1>5. ASSUME NEW class, Return(s, class) PROVE Remain'
  <2>1. PICK l : l = [Unsent EXCEPT !.class = class]
    OBVIOUS
  <2>2. l.outcomes = <<>> /\ at' = [at EXCEPT ![s] = l]
    BY <1>5, <2>1 DEF Return, Unsent
  <2>3. QED BY <2>2, NothingSaid
<1>6. ASSUME NEW t, Use(s, t), s \notin Testers PROVE Remain'
  <2>1. PICK l : l = [at[s] EXCEPT !.step = "posting", !.token = t]
    OBVIOUS
  <2>2. l.outcomes = at[s].outcomes /\ at' = [at EXCEPT ![s] = l]
    BY <1>1, <1>6, <2>1 DEF Private, Use
  <2>3. QED BY <2>2, NothingSaid
<1>7. ASSUME at' = [at EXCEPT ![s].step = "invalidating", ![s].tries = 1,
                              ![s].refusedAt = issued]
      PROVE Remain'
  <2>1. PICK l : l = [at[s] EXCEPT !.step = "invalidating", !.tries = 1, !.refusedAt = issued]
    OBVIOUS
  <2>2. l.outcomes = at[s].outcomes /\ at' = [at EXCEPT ![s] = l]
    BY <1>1, <1>7, <2>1 DEF Private
  <2>3. QED BY <2>2, NothingSaid
<1>8. ASSUME NEW t, Use(s, t), s \in Testers PROVE Remain'
  BY <1>5, <1>8 DEF Use
<1>9. QED BY <1>3, <1>4, <1>5, <1>6, <1>7, <1>8

(* A mail transaction.                                                     *)
LEMMA OneSaid ==
  ASSUME SendInv, Remain, NEW s \in Senders, NEW t, Transaction(s, t)
  PROVE  Remain'
<1>1. s \in Calls /\ at[s] \in Private /\ OfTransaction(t) \in Outcome
  BY DEF SendInv, Calls, Transaction, OfTransaction, Transactions, Outcome
<1>2. PICK outcomes : outcomes = Append(at[s].outcomes, OfTransaction(t))
  OBVIOUS
<1>3. CASE Len(outcomes) = Addresses
  BY <1>1, <1>2, <1>3, NothingSaidBy DEF Transaction
<1>4. CASE Len(outcomes) # Addresses
  <2>1. Len(at[s].outcomes) \in Nat /\ Len(outcomes) = Len(at[s].outcomes) + 1
    BY <1>1, <1>2 DEF Private
  <2>2. Len(outcomes) < Addresses
    BY <1>1, <1>4, <2>1, SendAssumption DEF Remain, SendAssumption
  <2>3. PICK l : l = [at[s] EXCEPT !.outcomes = outcomes]
    OBVIOUS
  <2>4. l.outcomes = outcomes /\ at' = [at EXCEPT ![s] = l]
    BY <1>1, <1>2, <1>4, <2>3 DEF Private, Transaction
  <2>5. \A r \in Calls : at'[r] = IF r = s THEN l ELSE at[r]
    BY <2>4 DEF SendInv
  <2>6. QED BY <2>2, <2>4, <2>5 DEF Remain
<1>5. QED BY <1>3, <1>4

(* Any step.                                                               *)
LEMMA RemainStays == SendInv /\ Remain /\ [Next]_vars => Remain'
<1>. SUFFICES ASSUME SendInv, Remain, Next \/ UNCHANGED vars PROVE Remain'
  OBVIOUS
<1>1. ASSUME UNCHANGED at PROVE Remain'
  BY <1>1 DEF Remain
<1>2. CASE Tick \/ Grow \/ Retire \/ UNCHANGED vars \/ \E s \in Calls : Issue(s)
  BY <1>1, <1>2 DEF Tick, Grow, Retire, Issue, own, vars
<1>3. ASSUME NEW s \in Testers, Test(s) PROVE Remain'
  BY <1>3, NothingSaidBy DEF Test, Calls, Steps
<1>4. ASSUME NEW s \in Calls, Hit(s) \/ (\E a \in {"fresh", "stale"} : Fetched(s, a))
      PROVE Remain'
  BY <1>4, NothingSaidBy DEF Hit, Fetched
<1>5. ASSUME NEW s \in Calls, Miss(s) \/ Invalidate(s) PROVE Remain'
  BY <1>5, NothingSaidBy DEF Miss, Invalidate, Steps
<1>6. ASSUME NEW s \in Calls, Unfetched(s) PROVE Remain'
  BY <1>6, NothingSaidBy DEF Unfetched
<1>7. ASSUME NEW s \in Senders, Claim(s) \/ GiveUp(s) \/ Unusable(s) PROVE Remain'
  BY <1>7, NothingSaidBy DEF Claim, GiveUp, Unusable, Calls, Steps
<1>8. ASSUME NEW s \in Senders, Go(s) PROVE Remain'
  <2>1. First(s) \in Steps
    BY DEF First, Steps
  <2>2. QED BY <1>8, <2>1, NothingSaidBy DEF Go, Calls
<1>9. ASSUME NEW s \in Senders, NEW i \in Intervals, Begin(s, i) PROVE Remain'
  BY <1>9, NothingSaidBy DEF Begin, Calls, Steps
<1>10. ASSUME NEW s \in Senders, \E failure \in NoAnswer : Lost(s, failure) PROVE Remain'
  BY <1>10, NothingSaidBy DEF Lost, Calls
<1>11. ASSUME NEW s \in Senders, NEW status, NEW body, Answered(s, status, body)
       PROVE  Remain'
  BY <1>11, NothingSaidBy DEF Answered, Calls
<1>12. ASSUME NEW s \in Senders, NEW t, Transaction(s, t) PROVE Remain'
  BY <1>12, OneSaid
<1>13. QED
  BY <1>2, <1>3, <1>4, <1>5, <1>6, <1>7, <1>8, <1>9, <1>10, <1>11, <1>12 DEF Next

(* TypeOK of the channels, their bucket and their token: a mail never has  *)
(* more outcomes than recipients.                                          *)
THEOREM SendTypes == Spec => []TypeOK
<1> DEFINE Counted == sends \in Nat
<1>1. Init => Remain
  BY SendAssumption DEF Init, Remain, Unsent, SendAssumption
<1>2. Init => Counted
  BY DEF Init
<1>3. Counted /\ [Next]_vars => Counted'
  <2>. SUFFICES ASSUME sends \in Nat, Next \/ UNCHANGED vars PROVE sends' \in Nat
    OBVIOUS
  <2>1. ASSUME NEW s, (\E step : Enter(s, step)) PROVE sends' \in Nat
    BY <2>1 DEF Enter
  <2>2. ASSUME NEW s \in Testers, Test(s) PROVE sends' \in Nat
    BY <2>1, <2>2 DEF Test
  <2>3. ASSUME NEW s, NEW i, Begin(s, i) PROVE sends' \in Nat
    BY <2>1, <2>3 DEF Begin
  <2>4. ASSUME NEW s, Hit(s) \/ Miss(s) \/ Issue(s) \/ Unfetched(s) \/ Invalidate(s)
                      \/ \E a : Fetched(s, a)
        PROVE sends' \in Nat
    BY <2>4 DEF Hit, Miss, Issue, Unfetched, Invalidate, Fetched, own
  <2>5. ASSUME NEW s, Claim(s) \/ GiveUp(s) \/ Go(s) \/ Unusable(s) PROVE sends' \in Nat
    BY <2>5 DEF Claim, GiveUp, Go, Unusable
  <2>6. ASSUME NEW s, \/ \E failure : Lost(s, failure)
                      \/ \E status, body : Answered(s, status, body)
                      \/ \E t : Transaction(s, t)
        PROVE sends' \in Nat
    BY <2>6 DEF Lost, Answered, Transaction
  <2>7. CASE Tick \/ Grow \/ Retire \/ UNCHANGED vars
    BY <2>7 DEF Tick, Grow, Retire, own, vars
  <2>8. QED BY <2>2, <2>3, <2>4, <2>5, <2>6, <2>7 DEF Next
<1>4. LimitInv /\ [Next]_vars => LimitInv'
  BY NextLimits, LimitPreserved
<1>5. SendInv /\ Remain => at \in [Calls -> Locals]
  <2>1. SUFFICES ASSUME SendInv, Remain, NEW s \in Calls PROVE at[s] \in Locals
    BY DEF SendInv
  <2>2. at[s] \in Private /\ at[s].outcomes \in Seq(Outcome)
        /\ Len(at[s].outcomes) < Addresses
    BY <2>1 DEF SendInv, Private, Remain
  <2>3. Len(at[s].outcomes) \in 0..Addresses
    BY <2>2, SendAssumption DEF SendAssumption
  <2>4. at[s].outcomes \in [1..Len(at[s].outcomes) -> Classes]
    BY <2>2 DEF Outcome, Classes, Severity
  <2>5. at[s].outcomes \in UNION {[1..n -> Classes] : n \in 0..Addresses}
    BY <2>3, <2>4
  <2>6. QED BY <2>2, <2>5 DEF Private, Locals
<1>6. CacheInv /\ SendInv /\ LimitInv /\ Remain /\ Counted => TypeOK
  BY <1>5 DEF CacheInv, LimitInv, SendInv, TypeOK
<1>. HIDE DEF Counted
<1>7. QED BY <1>1, <1>2, <1>3, <1>4, <1>6, RemainStays, SendHolds, LimitInit, PTL DEF Spec

(***************************************************************************)
(* The mail inlet.                                                         *)
(***************************************************************************)

(* What the provers need of the sessions and the histories.                *)
MailShape ==
  /\ talk \in [Mails -> Sessions]
  /\ fate \in [Mails -> Fates]
  /\ unknown \in [Mails -> SUBSET Nat] /\ denied \in [Mails -> SUBSET Nat]
  /\ got \in [Mails -> UNION {[Recipients(m) -> Nat] : m \in Mails}]
  /\ \A m \in Mails : got[m] \in [Recipients(m) -> Nat]

(* A recipient below k is unknown, or among those accepted.                *)
NamedBelow(m, k) ==
  \A i \in Recipients(m) : i < k =>
    i \in unknown[m] \/ \E j \in DOMAIN talk[m].rcpts : talk[m].rcpts[j] = i

(* Of those accepted, who comes before the k-th has got the mail, has      *)
(* refused it, or is to be tried again.                                    *)
Done(m, i) ==
  \/ got[m][i] > 0
  \/ talk[m].retryable
  \/ talk[m].permanent /\ i \in denied[m]

DoneBelow(m, k) ==
  \A j \in DOMAIN talk[m].rcpts : j < k => Done(m, talk[m].rcpts[j])

(* Where a session is, as far as its answer depends on it.                 *)
Reading(m) ==
  /\ m \in Welcome /\ talk[m].next \in 1..(Len(Envelope[m]) + 1)
  /\ NamedBelow(m, talk[m].next)

Sending(m) ==
  /\ talk[m].next \in 1..(Len(talk[m].rcpts) + 1)
  /\ NamedBelow(m, Len(Envelope[m]) + 1)
  /\ DoneBelow(m, talk[m].next)

Progress(m) ==
  /\ \A j \in DOMAIN talk[m].rcpts : talk[m].rcpts[j] \in Recipients(m)
  /\ talk[m].step = "rcpt" => Reading(m)
  /\ talk[m].step = "deliver" => Sending(m)

Settled(m) ==
  /\ fate[m] = "accepted" => \A i \in Recipients(m) : i \in unknown[m] \/ got[m][i] > 0
  /\ m \in Welcome \cap Readable /\ fate[m] = "returned" =>
       \A i \in Recipients(m) : i \in unknown[m] \cup denied[m] \/ got[m][i] > 0

MailInv == MailShape /\ \A m \in Mails : Progress(m) /\ Settled(m)

(* The recipients of a mail are numbered from one.                         *)
LEMMA RecipientsAre ==
  ASSUME NEW m \in Mails
  PROVE  Recipients(m) = 1..Len(Envelope[m]) /\ Len(Envelope[m]) \in Nat
BY MailAssumption DEF MailAssumption, Recipients

(* Nobody talks yet.                                                       *)
LEMMA MailStarts == MailInit => MailInv
<1> SUFFICES ASSUME MailInit PROVE MailInv
  OBVIOUS
<1>1. NoTalk \in Sessions /\ NoTalk.step = "none" /\ NoTalk.rcpts = <<>>
  BY DEF NoTalk, Sessions
<1>2. MailShape
  <2>1. got \in [Mails -> UNION {[Recipients(m) -> Nat] : m \in Mails}]
        /\ \A m \in Mails : got[m] \in [Recipients(m) -> Nat]
    BY DEF MailInit
  <2>2. QED BY <1>1, <2>1 DEF MailInit, MailShape, Fates
<1>3. QED BY <1>1, <1>2 DEF MailInit, MailInv, Progress, Settled

(* A step of the conversation about m: the others keep theirs.             *)
LEMMA OneTalk ==
  ASSUME MailInv, MailShape', NEW m \in Mails, Progress(m)', Settled(m)',
         \A n \in Mails \ {m} :
           UNCHANGED <<talk[n], fate[n], unknown[n], denied[n], got[n]>>
  PROVE  MailInv'
<1>1. ASSUME NEW n \in Mails \ {m} PROVE Progress(n)' /\ Settled(n)'
  BY DEF MailInv, Progress, Settled, Reading, Sending, NamedBelow, DoneBelow, Done
<1>2. QED BY <1>1 DEF MailInv

(* The conversation ends, and what it changed is in the history.           *)
LEMMA HangKeeps ==
  ASSUME MailInv, NEW m \in Mails, Hang(m), UNCHANGED <<unknown, got, denied>>,
         NEW f \in Fates, fate' = [fate EXCEPT ![m] = f],
         f = "accepted" => \A i \in Recipients(m) : i \in unknown[m] \/ got[m][i] > 0,
         m \in Welcome \cap Readable /\ f = "returned" =>
           \A i \in Recipients(m) : i \in unknown[m] \cup denied[m] \/ got[m][i] > 0
  PROVE  MailInv'
<1>1. NoTalk \in Sessions /\ NoTalk.step = "none" /\ NoTalk.rcpts = <<>>
  BY DEF NoTalk, Sessions
<1>2. talk'[m] = NoTalk /\ fate'[m] = f /\ talk' \in [Mails -> Sessions] /\ fate' \in [Mails -> Fates]
  BY <1>1 DEF Hang, MailInv, MailShape
<1>3. \A n \in Mails \ {m} : UNCHANGED <<talk[n], fate[n], unknown[n], denied[n], got[n]>>
  BY DEF Hang, MailInv, MailShape
<1>4. MailShape'
  BY <1>2 DEF MailInv, MailShape
<1>5. Progress(m)' /\ Settled(m)'
  BY <1>1, <1>2 DEF Progress, Settled
<1>6. QED BY <1>3, <1>4, <1>5, OneTalk

(* A conversation begins, and nobody is named yet; or it is refused.       *)
LEMMA ConnectKeeps ==
  ASSUME MailInv, NEW m \in Mails, Connect(m) PROVE MailInv'
<1>1. CASE m \in Welcome
  <2>1. PICK s : s = [NoTalk EXCEPT !.step = "rcpt", !.next = 1]
    OBVIOUS
  <2>2. s \in Sessions /\ s.step = "rcpt" /\ s.rcpts = <<>> /\ s.next = 1
    <3>1. NoTalk \in Sessions /\ NoTalk.rcpts = <<>>
      BY DEF NoTalk, Sessions
    <3>2. QED BY <2>1, <3>1 DEF Sessions
  <2>3. talk' = [talk EXCEPT ![m] = s] /\ UNCHANGED <<fate, unknown, got, denied>>
    BY <1>1, <2>1 DEF Connect
  <2>4. talk'[m] = s /\ talk' \in [Mails -> Sessions]
        /\ \A n \in Mails \ {m} : talk'[n] = talk[n]
    BY <2>2, <2>3 DEF MailInv, MailShape
  <2>5. NamedBelow(m, talk[m].next)'
    <3>1. \A i \in Recipients(m) : ~(i < 1)
      BY RecipientsAre
    <3>2. QED BY <2>2, <2>4, <3>1 DEF NamedBelow, Recipients
  <2>6. Progress(m)'
    BY <1>1, <2>2, <2>4, <2>5, RecipientsAre DEF Progress, Reading
  <2>7. MailShape' /\ Settled(m)'
    BY <2>3, <2>4 DEF MailInv, MailShape, Settled
  <2>8. QED BY <2>3, <2>4, <2>6, <2>7, OneTalk
<1>2. CASE m \notin Welcome
  <2>1. fate' = [fate EXCEPT ![m] = "returned"] /\ UNCHANGED <<talk, unknown, got, denied>>
    BY <1>2 DEF Connect
  <2>2. fate'[m] = "returned" /\ fate' \in [Mails -> Fates]
        /\ \A n \in Mails \ {m} : fate'[n] = fate[n]
    BY <2>1 DEF MailInv, MailShape, Fates
  <2>3. MailShape' /\ Settled(m)'
    BY <1>2, <2>1, <2>2 DEF MailInv, MailShape, Settled
  <2>4. Progress(m)'
    BY <2>1 DEF MailInv, Progress, Reading, Sending, NamedBelow, DoneBelow, Done
  <2>5. QED BY <2>1, <2>2, <2>3, <2>4, OneTalk
<1>3. QED BY <1>1, <1>2

(* A recipient is named: it is unknown, or accepted.                       *)
LEMMA RcptKeeps ==
  ASSUME MailInv, NEW m \in Mails, Rcpt(m) PROVE MailInv'
<1>1. PICK i : i = talk[m].next
  OBVIOUS
<1>2. /\ talk[m] \in Sessions /\ talk[m].step = "rcpt" /\ i \in Recipients(m) /\ i \in Nat
      /\ Reading(m) /\ UNCHANGED <<fate, got, denied>>
  BY <1>1, RecipientsAre DEF Rcpt, MailInv, MailShape, Progress
<1>3. PICK s \in Sessions, u \in SUBSET Nat :
        /\ talk' = [talk EXCEPT ![m] = s] /\ unknown' = [unknown EXCEPT ![m] = u]
        /\ s.step = "rcpt" /\ s.next = i + 1
        /\ \/ s.rcpts = Append(talk[m].rcpts, i) /\ u = unknown[m]
           \/ s.rcpts = talk[m].rcpts /\ u = unknown[m] \cup {i}
  <2>1. CASE i \notin unknown[m] /\ Known(Envelope[m][i])
    <3>1. PICK s : s = [talk[m] EXCEPT !.next = i + 1, !.rcpts = Append(@, i)]
      OBVIOUS
    <3>2. s \in Sessions /\ s.step = "rcpt" /\ s.next = i + 1 /\ s.rcpts = Append(talk[m].rcpts, i)
      <4>1. PICK r : r = Append(talk[m].rcpts, i)
        OBVIOUS
      <4>2. talk[m].rcpts \in Seq(Nat)
        BY <1>2 DEF Sessions
      <4>3. r \in Seq(Nat)
        BY <1>2, <4>1, <4>2
      <4>4. s = [talk[m] EXCEPT !.next = i + 1, !.rcpts = r]
        BY <3>1, <4>1
      <4>5. PICK t \in Sessions : t = talk[m] /\ t.step = "rcpt"
        BY <1>2
      <4>6. s = [t EXCEPT !.next = i + 1, !.rcpts = r] /\ i + 1 \in Nat
        BY <1>2, <4>4, <4>5
      <4>7. s \in Sessions /\ s.step = "rcpt" /\ s.next = i + 1 /\ s.rcpts = r
        BY ONLY <4>3, <4>5, <4>6 DEF Sessions
      <4>8. QED BY <4>1, <4>7
    <3>3. talk' = [talk EXCEPT ![m] = s] /\ unknown' = [unknown EXCEPT ![m] = unknown[m]]
          /\ unknown[m] \in SUBSET Nat
      BY <1>1, <2>1, <3>1 DEF Rcpt, MailInv, MailShape
    <3>4. QED BY <3>2, <3>3
  <2>2. CASE ~(i \notin unknown[m] /\ Known(Envelope[m][i]))
    <3>1. PICK s : s = [talk[m] EXCEPT !.next = i + 1]
      OBVIOUS
    <3>2. s \in Sessions /\ s.step = "rcpt" /\ s.next = i + 1 /\ s.rcpts = talk[m].rcpts
      BY <1>2, <3>1 DEF Sessions
    <3>3. talk' = [talk EXCEPT ![m] = s] /\ unknown' = [unknown EXCEPT ![m] = unknown[m] \cup {i}]
          /\ unknown[m] \cup {i} \in SUBSET Nat
      BY <1>1, <1>2, <2>2, <3>1 DEF Rcpt, MailInv, MailShape
    <3>4. QED BY <3>2, <3>3
  <2>3. QED BY <2>1, <2>2
<1>4. /\ talk'[m] = s /\ unknown'[m] = u
      /\ \A n \in Mails \ {m} : talk'[n] = talk[n] /\ unknown'[n] = unknown[n]
  BY <1>3 DEF MailInv, MailShape
<1>5. talk[m].rcpts \in Seq(Nat) /\ s.rcpts \in Seq(Nat) /\ Reading(m)
      /\ \A j \in DOMAIN talk[m].rcpts : talk[m].rcpts[j] \in Recipients(m)
  BY <1>2, <1>3 DEF Sessions, MailInv, Progress
<1>6. /\ \A j \in DOMAIN s.rcpts : s.rcpts[j] \in Recipients(m)
      /\ \A j \in DOMAIN talk[m].rcpts : j \in DOMAIN s.rcpts /\ s.rcpts[j] = talk[m].rcpts[j]
      /\ i \in u \/ \E j \in DOMAIN s.rcpts : s.rcpts[j] = i
      /\ unknown[m] \subseteq u
  <2>1. PICK r \in Seq(Nat), t \in Seq(Nat) : r = talk[m].rcpts /\ t = s.rcpts
    BY <1>5
  <2>2. CASE t = Append(r, i) /\ u = unknown[m]
    <3>1. /\ DOMAIN t = 1..(Len(r) + 1) /\ DOMAIN r = 1..Len(r) /\ Len(r) \in Nat
          /\ t[Len(r) + 1] = i /\ \A j \in 1..Len(r) : t[j] = r[j]
      BY <1>2, <2>2
    <3>2. \A j \in DOMAIN r : r[j] \in Recipients(m)
      BY <1>5, <2>1
    <3>3. \A j \in DOMAIN t : j \in DOMAIN r \/ j = Len(r) + 1
      BY <3>1
    <3>4. \A j \in DOMAIN r : j \in DOMAIN t
      BY <3>1
    <3>5. Len(r) + 1 \in DOMAIN t
      BY <3>1
    <3>6. QED BY <1>2, <2>1, <2>2, <3>1, <3>2, <3>3, <3>4, <3>5
  <2>3. CASE t = r /\ u = unknown[m] \cup {i}
    BY <1>5, <2>1, <2>3
  <2>4. QED BY <1>3, <2>1, <2>2, <2>3
<1>7. i + 1 \in 1..(Len(Envelope[m]) + 1)
  BY <1>2, RecipientsAre
<1>8. NamedBelow(m, talk[m].next)'
  <2>1. ASSUME NEW k \in Recipients(m), k < i + 1
        PROVE  k \in u \/ \E j \in DOMAIN s.rcpts : s.rcpts[j] = k
    <3>1. k = i \/ k < i
      BY <1>2, <2>1, RecipientsAre
    <3>2. CASE k < i
      BY <1>1, <1>5, <1>6, <3>2 DEF Reading, NamedBelow
    <3>3. QED BY <1>6, <3>1, <3>2
  <2>2. QED BY <1>3, <1>4, <2>1 DEF NamedBelow, Recipients
<1>9. Progress(m)'
  BY <1>3, <1>4, <1>5, <1>6, <1>7, <1>8 DEF Progress, Reading, Recipients
<1>10. Settled(m)'
  BY <1>2, <1>4, <1>6 DEF MailInv, Settled, Recipients
<1>11. MailShape'
  BY <1>2, <1>3 DEF MailInv, MailShape, Recipients
<1>12. QED BY <1>2, <1>4, <1>9, <1>10, <1>11, OneTalk

(* Everybody was named: whoever is not unknown was accepted.               *)
LEMMA EverybodyNamed ==
  ASSUME MailInv, NEW m \in Mails, Named(m)
  PROVE  /\ m \in Welcome /\ NamedBelow(m, Len(Envelope[m]) + 1)
         /\ talk[m] \in Sessions
<1>1. talk[m].step = "rcpt" /\ Reading(m) /\ talk[m].next \notin Recipients(m)
      /\ talk[m] \in Sessions
  BY DEF Named, MailInv, MailShape, Progress
<1>2. talk[m].next = Len(Envelope[m]) + 1
  BY <1>1, RecipientsAre DEF Reading
<1>3. QED BY <1>1, <1>2 DEF Reading

(* A refusal: whoever was named is unknown, or there is nothing to read.   *)
LEMMA RejectKeeps ==
  ASSUME MailInv, NEW m \in Mails, Reject(m) PROVE MailInv'
<1>1. Named(m) /\ Hang(m) /\ fate' = [fate EXCEPT ![m] = "returned"]
      /\ UNCHANGED <<unknown, got, denied>> /\ "returned" \in Fates
      /\ (talk[m].rcpts = <<>> \/ m \notin Readable)
  BY DEF Reject, Fates
<1>2. ASSUME talk[m].rcpts = <<>>, NEW i \in Recipients(m) PROVE i \in unknown[m]
  <2>1. i < Len(Envelope[m]) + 1
    BY RecipientsAre
  <2>2. QED BY <1>1, <1>2, <2>1, EverybodyNamed DEF NamedBelow
<1>3. QED BY <1>1, <1>2, HangKeeps

(* Everybody was named, and nobody is done yet.                            *)
LEMMA DataKeeps ==
  ASSUME MailInv, NEW m \in Mails, Data(m) PROVE MailInv'
<1>1. NamedBelow(m, Len(Envelope[m]) + 1) /\ talk[m] \in Sessions
  BY EverybodyNamed DEF Data
<1>2. PICK s : s = [talk[m] EXCEPT !.step = "deliver", !.next = 1]
  OBVIOUS
<1>3. s \in Sessions /\ s.step = "deliver" /\ s.next = 1 /\ s.rcpts = talk[m].rcpts
  BY <1>1, <1>2 DEF Sessions
<1>4. talk' = [talk EXCEPT ![m] = s] /\ UNCHANGED <<fate, unknown, got, denied>>
  BY <1>2 DEF Data
<1>5. talk'[m] = s /\ talk' \in [Mails -> Sessions]
      /\ \A n \in Mails \ {m} : talk'[n] = talk[n]
  BY <1>3, <1>4 DEF MailInv, MailShape
<1>6. s.rcpts \in Seq(Nat) /\ \A j \in DOMAIN s.rcpts : s.rcpts[j] \in Recipients(m) /\ ~(j < 1)
  BY <1>1, <1>3 DEF MailInv, Progress, Sessions
<1>7. 1 \in 1..(Len(s.rcpts) + 1)
  BY <1>6
<1>8. NamedBelow(m, Len(Envelope[m]) + 1)'
  BY <1>1, <1>3, <1>4, <1>5 DEF NamedBelow, Recipients
<1>9. DoneBelow(m, talk[m].next)'
  BY <1>3, <1>5, <1>6 DEF DoneBelow
<1>10. Progress(m)'
  BY <1>3, <1>5, <1>6, <1>7, <1>8, <1>9 DEF Progress, Sending, Recipients
<1>11. MailShape' /\ Settled(m)'
  BY <1>4, <1>5 DEF MailInv, MailShape, Settled
<1>12. QED BY <1>4, <1>5, <1>10, <1>11, OneTalk

(* A delivery: the class says who is done, and what the answer will be.    *)
LEMMA DeliverKeeps ==
  ASSUME MailInv, NEW m \in Mails, NEW class \in Outcomes, Deliver(m, class)
  PROVE  MailInv'
<1>1. PICK k : k = talk[m].next
  OBVIOUS
<1>2. PICK i : i = talk[m].rcpts[k]
  OBVIOUS
<1>3. /\ talk[m] \in Sessions /\ talk[m].step = "deliver" /\ k \in DOMAIN talk[m].rcpts
      /\ k \in Nat /\ i \in Recipients(m) /\ i \in Nat /\ Sending(m) /\ UNCHANGED <<fate, unknown>>
  <2>1. /\ talk[m] \in Sessions /\ talk[m].step = "deliver"
        /\ k \in DOMAIN talk[m].rcpts /\ UNCHANGED <<fate, unknown>>
    BY <1>1 DEF Deliver, Delivering, MailInv, MailShape
  <2>2. talk[m].rcpts \in Seq(Nat)
    BY <2>1 DEF Sessions
  <2>3. k \in Nat
    BY <2>1, <2>2
  <2>4. i \in Recipients(m)
    BY <1>2, <2>1 DEF MailInv, Progress
  <2>5. i \in Nat
    BY <2>4, RecipientsAre
  <2>6. Sending(m)
    BY <2>1 DEF MailInv, Progress
  <2>7. QED BY <2>1, <2>3, <2>4, <2>5, <2>6
<1>4. PICK s \in Sessions :
        /\ talk' = [talk EXCEPT ![m] = s] /\ s.step = "deliver" /\ s.next = k + 1
        /\ s.rcpts = talk[m].rcpts
        /\ s.retryable <=> talk[m].retryable \/ Defers(class)
        /\ s.permanent <=> talk[m].permanent \/ ~(Defers(class) \/ class = "SENT")
  <2>1. PICK t \in Sessions : t = talk[m] /\ t.step = "deliver"
    BY <1>3
  <2>2. PICK x \in BOOLEAN, y \in BOOLEAN :
          /\ x = (t.retryable \/ Defers(class))
          /\ y = (t.permanent \/ ~(Defers(class) \/ class = "SENT"))
    BY DEF Defers
  <2>3. PICK s : s = [t EXCEPT !.next = k + 1, !.retryable = x, !.permanent = y]
    OBVIOUS
  <2>4. s \in Sessions /\ s.step = "deliver" /\ s.next = k + 1 /\ s.rcpts = t.rcpts
        /\ s.retryable = x /\ s.permanent = y
    <3>1. PICK n \in Nat : n = k + 1
      BY <1>3
    <3>2. s = [t EXCEPT !.next = n, !.retryable = x, !.permanent = y]
      BY <2>3, <3>1
    <3>3. x \in BOOLEAN /\ y \in BOOLEAN /\ t \in Sessions
      OBVIOUS
    <3>4. s \in Sessions /\ s.step = "deliver" /\ s.next = n /\ s.rcpts = t.rcpts
          /\ s.retryable = x /\ s.permanent = y
      BY ONLY <2>1, <3>1, <3>2, <3>3 DEF Sessions
    <3>5. QED BY <3>1, <3>4
  <2>5. talk' = [talk EXCEPT ![m] = s]
    BY <1>1, <2>1, <2>2, <2>3 DEF Deliver
  <2>6. QED BY <2>1, <2>2, <2>4, <2>5
<1>5. PICK g \in [Recipients(m) -> Nat] :
        /\ got' = [got EXCEPT ![m] = g]
        /\ class = "SENT" => g[i] > 0
        /\ \A j \in Recipients(m) : got[m][j] > 0 => g[j] > 0
  <2>1. got[m] \in [Recipients(m) -> Nat] /\ DOMAIN got = Mails
    BY DEF MailInv, MailShape
  <2>2. CASE class = "SENT"
    <3>1. PICK g : g = [got[m] EXCEPT ![i] = @ + 1]
      OBVIOUS
    <3>2. g \in [Recipients(m) -> Nat] /\ g[i] > 0
          /\ \A j \in Recipients(m) : got[m][j] > 0 => g[j] > 0
      BY <1>3, <2>1, <3>1
    <3>3. got' = [got EXCEPT ![m] = g]
      BY <1>1, <1>2, <2>2, <3>1 DEF Deliver
    <3>4. QED BY <3>2, <3>3
  <2>3. CASE class # "SENT"
    <3>1. got' = [got EXCEPT ![m] = got[m]]
      BY <1>1, <1>2, <2>3 DEF Deliver, MailInv, MailShape
    <3>2. QED BY <2>1, <2>3, <3>1
  <2>4. QED BY <2>2, <2>3
<1>6. PICK d \in SUBSET Nat :
        /\ denied' = [denied EXCEPT ![m] = d] /\ denied[m] \subseteq d
        /\ class = "PERMANENT" => i \in d
  <2>1. denied[m] \in SUBSET Nat /\ denied = [denied EXCEPT ![m] = denied[m]]
    BY DEF MailInv, MailShape
  <2>2. CASE class = "PERMANENT"
    <3>1. denied' = [denied EXCEPT ![m] = denied[m] \cup {i}]
      BY <1>1, <1>2, <2>2 DEF Deliver
    <3>2. QED BY <1>3, <2>1, <3>1
  <2>3. CASE class # "PERMANENT"
    <3>1. denied' = denied
      BY <2>3 DEF Deliver
    <3>2. QED BY <2>1, <2>3, <3>1
  <2>4. QED BY <2>2, <2>3
<1>7. /\ talk'[m] = s /\ got'[m] = g /\ denied'[m] = d
      /\ \A n \in Mails \ {m} : talk'[n] = talk[n] /\ got'[n] = got[n] /\ denied'[n] = denied[n]
  BY <1>4, <1>5, <1>6 DEF MailInv, MailShape
<1>8. MailShape'
  <2>1. talk' \in [Mails -> Sessions] /\ denied' \in [Mails -> SUBSET Nat]
    BY <1>4, <1>6 DEF MailInv, MailShape
  <2>2. got' \in [Mails -> UNION {[Recipients(n) -> Nat] : n \in Mails}]
        /\ \A n \in Mails : got'[n] \in [Recipients(n) -> Nat]
    BY <1>5 DEF MailInv, MailShape
  <2>3. QED BY <1>3, <2>1, <2>2 DEF MailInv, MailShape, Recipients
<1>9. Settled(m)'
  BY <1>3, <1>5, <1>6, <1>7 DEF MailInv, Settled, Recipients
<1>10. Done(m, i)'
  <2>1. class = "SENT" \/ Defers(class) \/ class = "PERMANENT"
    BY DEF Outcomes, Defers
  <2>2. class = "PERMANENT" => s.permanent
    BY <1>4 DEF Defers
  <2>3. QED BY <1>4, <1>5, <1>6, <1>7, <2>1, <2>2 DEF Done
<1>11. \A j \in Recipients(m) : Done(m, j) => Done(m, j)'
  BY <1>4, <1>5, <1>6, <1>7 DEF Done
<1>12. DOMAIN s.rcpts = 1..Len(s.rcpts) /\ Len(s.rcpts) \in Nat
       /\ \A j \in DOMAIN s.rcpts : s.rcpts[j] \in Recipients(m) /\ j \in Nat
  BY <1>4 DEF Sessions, MailInv, Progress
<1>13. DoneBelow(m, talk[m].next)'
  <2>1. ASSUME NEW j \in DOMAIN s.rcpts, j < k + 1 PROVE Done(m, s.rcpts[j])'
    <3>1. j = k \/ j < k
      BY <1>3, <1>12, <2>1
    <3>2. CASE j = k
      BY <1>2, <1>4, <1>10, <3>2
    <3>3. CASE j < k
      BY <1>1, <1>3, <1>4, <1>11, <1>12, <3>3 DEF Sending, DoneBelow
    <3>4. QED BY <3>1, <3>2, <3>3
  <2>2. QED BY <1>4, <1>7, <2>1 DEF DoneBelow, Done
<1>14. NamedBelow(m, Len(Envelope[m]) + 1)'
  BY <1>3, <1>4, <1>7 DEF Sending, NamedBelow, Recipients
<1>15. k + 1 \in 1..(Len(s.rcpts) + 1)
  BY <1>3, <1>4, <1>12
<1>16. Progress(m)'
  BY <1>4, <1>7, <1>12, <1>13, <1>14, <1>15 DEF Progress, Sending, Recipients
<1>17. QED BY <1>3, <1>7, <1>8, <1>9, <1>16, OneTalk

(* The answer: what was accepted went to everybody.                        *)
LEMMA AnswerKeeps ==
  ASSUME MailInv, NEW m \in Mails, Answer(m) PROVE MailInv'
<1>1. /\ talk[m].step = "deliver" /\ talk[m].next \notin DOMAIN talk[m].rcpts
      /\ Hang(m) /\ UNCHANGED <<unknown, got, denied>>
      /\ fate' = [fate EXCEPT ![m] = AnswerOf(m)]
  BY DEF Answer, Delivering
<1>2. talk[m] \in Sessions /\ Sending(m)
      /\ \A j \in DOMAIN talk[m].rcpts : talk[m].rcpts[j] \in Recipients(m)
  BY <1>1 DEF MailInv, MailShape, Progress
<1>3. /\ DOMAIN talk[m].rcpts = 1..Len(talk[m].rcpts) /\ Len(talk[m].rcpts) \in Nat
  BY <1>2 DEF Sessions
<1>4. \A j \in DOMAIN talk[m].rcpts : j < talk[m].next
  BY <1>1, <1>2, <1>3 DEF Sending
<1>5. ASSUME NEW i \in Recipients(m) PROVE i \in unknown[m] \/ Done(m, i)
  <2>1. i < Len(Envelope[m]) + 1
    BY RecipientsAre
  <2>2. i \in unknown[m] \/ \E j \in DOMAIN talk[m].rcpts : talk[m].rcpts[j] = i
    BY <1>2, <2>1 DEF Sending, NamedBelow
  <2>3. QED BY <1>2, <1>4, <2>2 DEF Sending, DoneBelow
<1>6. AnswerOf(m) = "accepted" => \A i \in Recipients(m) : i \in unknown[m] \/ got[m][i] > 0
  BY <1>5 DEF AnswerOf, Done
<1>7. AnswerOf(m) = "returned" =>
        \A i \in Recipients(m) : i \in unknown[m] \cup denied[m] \/ got[m][i] > 0
  BY <1>5 DEF AnswerOf, Done
<1>8. AnswerOf(m) \in Fates
  BY DEF AnswerOf, Fates
<1>9. QED BY <1>1, <1>6, <1>7, <1>8, HangKeeps

(* One step, whoever takes it.                                             *)
LEMMA MailStep == MailInv /\ [MailNext]_mailVars => MailInv'
<1> SUFFICES ASSUME MailInv, [MailNext]_mailVars PROVE MailInv'
  OBVIOUS
<1>0. ASSUME UNCHANGED <<talk, fate, unknown, got, denied>> PROVE MailInv'
  BY <1>0 DEF MailInv, MailShape, Progress, Settled, Reading, Sending, NamedBelow,
     DoneBelow, Done, Recipients
<1>1. ASSUME NEW m \in Mails, Break(m) PROVE MailInv'
  <2>1. fate[m] \in Fates /\ fate' = [fate EXCEPT ![m] = fate[m]]
    BY <1>1 DEF Break, MailInv, MailShape
  <2>2. Settled(m)
    BY DEF MailInv
  <2>3. QED BY <1>1, <2>1, <2>2, HangKeeps DEF Break, Settled
<1>2. ASSUME NEW m \in Mails, Expire(m) PROVE MailInv'
  <2>1. fate' = [fate EXCEPT ![m] = "expired"] /\ UNCHANGED <<talk, unknown, got, denied>>
    BY <1>2 DEF Expire
  <2>2. fate'[m] = "expired" /\ fate' \in [Mails -> Fates]
        /\ \A n \in Mails \ {m} : fate'[n] = fate[n]
    BY <2>1 DEF MailInv, MailShape, Fates
  <2>3. MailShape' /\ Settled(m)'
    BY <2>1, <2>2 DEF MailInv, MailShape, Settled
  <2>4. Progress(m)'
    BY <2>1 DEF MailInv, Progress, Reading, Sending, NamedBelow, DoneBelow, Done
  <2>5. QED BY <2>1, <2>2, <2>3, <2>4, OneTalk
<1>3. CASE Crash
  <2>1. NoTalk \in Sessions /\ NoTalk.step = "none" /\ NoTalk.rcpts = <<>>
    BY DEF NoTalk, Sessions
  <2>2. talk' = [m \in Mails |-> NoTalk] /\ UNCHANGED <<fate, unknown, got, denied>>
    BY <1>3 DEF Crash
  <2>3. MailShape'
    BY <2>1, <2>2 DEF MailInv, MailShape
  <2>4. \A m \in Mails : Progress(m)' /\ Settled(m)'
    BY <2>1, <2>2 DEF MailInv, Progress, Settled
  <2>5. QED BY <2>3, <2>4 DEF MailInv
<1>4. CASE Reload \/ UNCHANGED mailVars
  BY <1>0, <1>4 DEF Reload, mailVars
<1>5. QED
  BY <1>1, <1>2, <1>3, <1>4, ConnectKeeps, RcptKeeps, RejectKeeps, DataKeeps,
     DeliverKeeps, AnswerKeeps DEF MailNext

(* So it always holds.                                                     *)
LEMMA MailGoesWell == MailSpec => []MailInv
BY MailStarts, MailStep, PTL DEF MailSpec

(* A mail its sender may forget has reached everybody it was for.          *)
THEOREM AcceptedWasDelivered == MailSpec => []AcceptedIsDelivered
<1>1. MailInv => AcceptedIsDelivered
  BY DEF MailInv, Settled, AcceptedIsDelivered
<1>2. QED BY <1>1, MailGoesWell, PTL

(* What is returned was refused.                                           *)
THEOREM ReturnedWasRefused == MailSpec => []ReturnedIsRefused
<1>1. MailInv => ReturnedIsRefused
  BY DEF MailInv, Settled, ReturnedIsRefused
<1>2. QED BY <1>1, MailGoesWell, PTL

(* The variables are what their types say: a delivery counts for one of    *)
(* the recipients of its mail, and a bound is never passed.                *)
THEOREM MailTypes == MailSpec => []MailTypeOK
<1>. DEFINE Small == /\ instances \subseteq Channels /\ tries \in [Mails -> 0..MaxTries]
                    /\ reloads \in 0..MaxReloads /\ mishaps \in 0..MaxMishaps
<1>1. MailInit => Small
  BY MailAssumption DEF MailAssumption, MailInit
<1>2. Small /\ [MailNext]_mailVars => Small'
  <2> SUFFICES ASSUME Small, [MailNext]_mailVars PROVE Small'
    OBVIOUS
  <2>1. ASSUME NEW m \in Mails, Connect(m) PROVE Small'
    BY <2>1, MailAssumption DEF Connect, outside, MailAssumption
  <2>2. ASSUME NEW m \in Mails, Rcpt(m) \/ Reject(m) \/ Data(m) \/ Answer(m) \/ Expire(m)
        PROVE Small'
    BY <2>2 DEF Rcpt, Reject, Data, Answer, Expire, outside
  <2>3. ASSUME NEW m \in Mails, NEW class \in Outcomes, Deliver(m, class) PROVE Small'
    BY <2>3 DEF Deliver, outside
  <2>4. ASSUME (\E m \in Mails : Break(m)) \/ Crash PROVE Small'
    BY <2>4, MailAssumption DEF Break, Crash, outside, MailAssumption
  <2>5. CASE Reload
    BY <2>5, MailAssumption DEF Reload, MailAssumption
  <2>6. CASE UNCHANGED mailVars
    BY <2>6 DEF mailVars, outside
  <2>7. QED BY <2>1, <2>2, <2>3, <2>4, <2>5, <2>6 DEF MailNext
<1>3. MailInv /\ Small => MailTypeOK
  BY DEF MailInv, MailShape, MailTypeOK
<1>4. QED BY <1>1, <1>2, <1>3, MailGoesWell, PTL DEF MailSpec
==============================================================================
