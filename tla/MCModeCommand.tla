--------------------------- MODULE MCModeCommand ---------------------------
(* A small instance of ModeCommand.                                         *)
EXTENDS ModeCommand, TLC

CONSTANTS c1, c2, bob, Bob, al, noNick, two, many, blank

MCLower == [n \in {bob, Bob, al, noNick} |-> IF n = Bob THEN bob ELSE n]
MCFds == 1..2
MCNoFd == 0

\* Every letter alone, and the mixtures of letters that take an argument with ones
\* that do not.
MCWords ==
  [sign : {"+"}, letters : {<<>>, <<"k">>, <<"l">>, <<"o">>, <<"q">>,
                            <<"k", "o">>, <<"o", "i">>, <<"o", "q">>, <<"i", "x">>}]
  \cup [sign : {"-"}, letters : {<<>>, <<"k">>, <<"o">>, <<"t", "l">>}]
MCPlain == {bob, Bob, al, two, many, blank}
MCLimitOf == [a \in MCWords \cup MCPlain |->
                IF a = two THEN 2 ELSE IF a = many THEN MaxLimit + 1 ELSE NotANumber]
MCKeys == MCPlain \ {blank}
MCLimits == {2}
MCSymmetry == Permutations({c1, c2})

ASSUME MCCovers == ChannelsCover
=============================================================================
