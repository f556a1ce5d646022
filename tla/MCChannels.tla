----------------------------- MODULE MCChannels -----------------------------
(* Small instances of Channels.                                             *)
EXTENDS Channels, TLC

CONSTANTS c1, c2, c3, bob, Bob, al, cy, anon, noNick

MCLowerSmall == [n \in {bob, al, cy, noNick} |-> n]
MCLowerTwo == [n \in {bob, al, noNick} |-> n]
MCMixed == [n \in {bob, Bob, al, anon, noNick} |-> IF n = Bob THEN bob ELSE n]
MCMixedThree == [n \in {bob, Bob, al, noNick} |-> IF n = Bob THEN bob ELSE n]
MCFds == 1..3
MCNoFd == 0
MCLimits == {1, 2}
MCNoLimits == {}
MCSymmetry == Permutations({c1, c2, c3})

=============================================================================
