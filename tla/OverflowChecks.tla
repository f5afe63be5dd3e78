--------------------------- MODULE OverflowChecks ---------------------------
(***************************************************************************)
(* What Overflow says of every short text, every small limit and every     *)
(* channel: TLC evaluates the assumptions of this module in every run of a *)
(* module that extends it.                                                 *)
(***************************************************************************)
EXTENDS Naturals, Sequences, SequencesExt, TLC

O == INSTANCE Overflow WITH
       Newline <- "n", Width <- [c \in {"a", "w", "n"} |-> IF c = "w" THEN 3 ELSE 1]

TextsUpTo(k) == UNION {[1..n -> {"a", "w", "n"}] : n \in 0..k}
Budgets == [runes : 0..3, bytes : 0..4]

(* A split goes through the text once, in order, and gives up nothing but  *)
(* the line breaks it cuts at; each piece keeps the budget, unless it is   *)
(* one character that is too wide by itself; and a piece is more than half *)
(* of what would have fitted.                                              *)
ASSUME SplitsLoseNothing ==
  \A s \in TextsUpTo(5), b \in Budgets :
    LET pieces == O!Pieces(s, b) split == O!Split(s, b) IN
    /\ FlattenSeq(pieces) = s
    /\ \A i \in DOMAIN pieces :
         /\ pieces[i] # <<>> /\ (O!Fits(pieces[i], b) \/ Len(pieces[i]) = 1)
         /\ IsPrefix(split[i], pieces[i])
         /\ \A j \in (Len(split[i]) + 1)..Len(pieces[i]) : pieces[i][j] = "n"
         /\ 2 * Len(pieces[i]) >
              O!Longest(FlattenSeq(SubSeq(pieces, i, Len(pieces))), b)

(* A truncation is the longest beginning that fits.                        *)
ASSUME TruncationsAreMaximal ==
  \A s \in TextsUpTo(4), b \in Budgets :
    LET t == O!Truncated(s, b) IN
    /\ IsPrefix(t, s) /\ O!Fits(t, b)
    /\ \A n \in (Len(t) + 1)..Len(s) : ~O!Fits(SubSeq(s, 1, n), b)

Capabilities ==
  [max : [runes : {0, 17, 20}, bytes : {0, 18, 22}], titleMax : {0, 1},
   overhead : {[runes |-> 1, bytes |-> 2]}, mode : {"error", "truncate", "split"}]
Messages ==
  [title : {<<>>, <<"a", "w">>}, body : TextsUpTo(3),
   links : {<<>>, <<[runes |-> 1, bytes |-> 2]>>}]

(* The declared limit is "a guarantee about the message that actually      *)
(* leaves the process" (overflow.go:82): every part of a message, with its *)
(* title, its links and the markup around them, keeps it, unless its body  *)
(* is one character that is too wide by itself.                            *)
ASSUME PartsKeepTheLimit ==
  \A cap \in Capabilities, msg \in Messages :
    LET parts == O!Parts(cap, msg, <<"a", "w">>) IN
    \A i \in DOMAIN parts : \A u \in O!Units :
      \/ cap.max[u] = 0 \/ O!Payload(cap, parts[i])[u] <= cap.max[u]
      \/ cap.mode = "split" /\ Len(parts[i].body) = 1

(* What is refused would leave less than the room of a part marker, which  *)
(* is kept whether or not there are parts; nothing is refused where the    *)
(* channel has no limit.                                                   *)
ASSUME OnlyTheLongAreRefused ==
  \A cap \in Capabilities, msg \in Messages :
    O!Parts(cap, msg, <<"a", "w">>) = <<>> =>
      \E u \in O!Units : cap.max[u] > 0 /\ O!Payload(cap, msg)[u] + O!Marker >= cap.max[u]

(* A channel is handed a format it renders, or text.                       *)
ASSUME FormatsAreRendered ==
  \A fs \in SUBSET O!Formats, f \in O!Formats :
    LET cap == [formats |-> fs] IN
    /\ O!Adapted(cap, f) = "text" \/ O!Supports(cap, O!Adapted(cap, f))
    /\ O!Supports(cap, f) => O!Adapted(cap, f) = f
=============================================================================
