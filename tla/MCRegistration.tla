--------------------------- MODULE MCRegistration ---------------------------
(* Small instances of Registration.                                         *)
EXTENDS Registration, TLC

CONSTANTS c1, c2, c3, bob, Bob, anon, noNick

MCLower == [n \in {bob, Bob, anon, noNick} |-> IF n = Bob THEN bob ELSE n]
MCFds == 1..2
MCNoFd == 0
MCSymmetry == Permutations({c1, c2, c3})
=============================================================================
