----------------------------- MODULE MCAudience -----------------------------
(* Small instances of Audience.                                             *)
EXTENDS Audience, TLC

CONSTANTS c1, c2, c3, bob, al, cy, ch1, ch2, noNick

MCLower == [n \in Nicks \cup AnonNicks \cup {NoNick} |-> n]
MCFds == 1..3
MCNoFd == 0
MCLimits == {}
MCSymmetry ==
  Permutations({c1, c2, c3}) \cup Permutations({bob, al, cy}) \cup Permutations({ch1, ch2})
=============================================================================
