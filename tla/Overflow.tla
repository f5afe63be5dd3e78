------------------------------ MODULE Overflow ------------------------------
(***************************************************************************)
(* What the router makes of a message before a channel gets it: a format   *)
(* the channel renders (internal/router/format.go) and parts that keep the *)
(* limits it declares (overflow.go).  A text is a sequence of characters,  *)
(* each with its width in bytes; how one format is rendered as another is  *)
(* left out.                                                               *)
(***************************************************************************)
EXTENDS Naturals, Sequences, SequencesExt

CONSTANTS Newline,  \* the character a split prefers to cut after
          Width     \* of each character, in bytes

Bytes(s) == FoldSeq(LAMBDA r, n : Width[r] + n, 0, s)

-----------------------------------------------------------------------------
(* Adapt.                                                                  *)

Formats == {"text", "markdown", "html"}

(* A channel that declares no formats takes text.                          *)
Supports(cap, f) == IF cap.formats = {} THEN f = "text" ELSE f \in cap.formats

Adapted(cap, f) ==
  IF Supports(cap, f) THEN f
  ELSE IF f = "markdown" /\ Supports(cap, "html") THEN "html"
  ELSE "text"

-----------------------------------------------------------------------------
(* The budget of the body: zero is no limit.  A limit that nothing of the  *)
(* body fits under has no budget.                                          *)

Units == {"runes", "bytes"}
Size(s) == [runes |-> Len(s), bytes |-> Bytes(s)]

(* Room for " [12/34]" in the title, and the markup around a link.         *)
Marker == 12
Markup == 4

(* All of a message but its body.                                          *)
Around(cap, msg) ==
  [u \in Units |-> cap.overhead[u] + Size(msg.title)[u] +
                   FoldSeq(LAMBDA l, n : l[u] + Markup + n, 0, msg.links)]
Fixed(cap, msg) == [u \in Units |-> Around(cap, msg)[u] + Marker]

HasBudget(cap, msg) ==
  \A u \in Units : cap.max[u] > 0 => cap.max[u] > Fixed(cap, msg)[u]
Budget(cap, msg) ==
  [u \in Units |-> IF cap.max[u] = 0 THEN 0 ELSE cap.max[u] - Fixed(cap, msg)[u]]

Fits(s, budget) == \A u \in Units : budget[u] = 0 \/ Size(s)[u] <= budget[u]

-----------------------------------------------------------------------------
(* The longest prefix that fits.                                           *)
Longest(s, budget) ==
  CHOOSE n \in 0..Len(s) :
    /\ Fits(SubSeq(s, 1, n), budget)
    /\ n = Len(s) \/ ~Fits(SubSeq(s, 1, n + 1), budget)

Truncated(s, budget) == SubSeq(s, 1, Longest(s, budget))

(* The next piece of a split: what fits, or one character that fits        *)
(* nowhere, cut after the last line break of its second half.              *)
Cut(s, budget) ==
  LET window == IF Longest(s, budget) = 0 THEN 1 ELSE Longest(s, budget)
      breaks == {i \in (window \div 2 + 2)..window : s[i] = Newline}
  IN IF breaks = {} THEN window ELSE CHOOSE i \in breaks : \A j \in breaks : j <= i

(* Line breaks at the end of a piece are dropped.                          *)
Trimmed(s) ==
  SubSeq(s, 1, CHOOSE n \in 0..Len(s) :
                 /\ \A i \in (n + 1)..Len(s) : s[i] = Newline
                 /\ n > 0 => s[n] # Newline)

(* The pieces of the text from its start-th character on.                  *)
Pieces(s, budget) ==
  LET from[start \in 1..(Len(s) + 1)] ==
        IF start > Len(s) THEN <<>>
        ELSE LET rest == SubSeq(s, start, Len(s))
                 cut == Cut(rest, budget)
             IN <<SubSeq(rest, 1, cut)>> \o from[start + cut]
  IN from[1]

Split(s, budget) == [i \in DOMAIN Pieces(s, budget) |-> Trimmed(Pieces(s, budget)[i])]

-----------------------------------------------------------------------------
(* Apply: the parts of a message, none when it is refused.                 *)

Titled(cap, title) ==
  IF cap.titleMax = 0 \/ Len(title) <= cap.titleMax THEN title
  ELSE SubSeq(title, 1, cap.titleMax)

(* mark stands for the text that says which part this is; a title that     *)
(* is full loses it.                                                       *)
Parts(cap, msg, mark) ==
  LET titled == [msg EXCEPT !.title = Titled(cap, msg.title)]
      budget == Budget(cap, titled)
      chunks == Split(msg.body, budget)
      n == Len(chunks)
  IN IF ~HasBudget(cap, titled) THEN <<>>
     ELSE IF Fits(msg.body, budget) THEN <<titled>>
     ELSE CASE cap.mode = "error"    -> <<>>
            [] cap.mode = "truncate" -> <<[titled EXCEPT !.body = Truncated(msg.body, budget)]>>
            [] cap.mode = "split"    ->
                 [i \in 1..n |->
                    [titled EXCEPT !.body = chunks[i],
                                   !.title = IF n = 1 THEN @ ELSE Titled(cap, @ \o mark)]]

(* What leaves the process for a part.                                     *)
Payload(cap, part) == [u \in Units |-> Around(cap, part)[u] + Size(part.body)[u]]
=============================================================================
