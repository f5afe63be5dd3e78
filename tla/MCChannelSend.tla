---------------------------- MODULE MCChannelSend ----------------------------
(* ChannelSend for TLC: two deliveries and a test, to a channel of every   *)
(* kind.                                                                   *)
EXTENDS ChannelSend, TLC

CONSTANTS a, b, t

MCSenders == {a, b}
MCTesters == {t}
MCKinds   == HttpKinds \cup {"email"}
MCPermutations == Permutations(MCSenders)
=============================================================================
