------------------------------- MODULE Lines -------------------------------
(***************************************************************************)
(* What a client expects of its connection: of the bytes it has said, every *)
(* line that CR LF ends is heard once, whole, and in order, however the     *)
(* network cuts the bytes up.                                               *)
(***************************************************************************)
EXTENDS Naturals, FiniteSetsExt, Sequences

CONSTANTS Pieces, CR, LF

VARIABLES said, heard

Ends(s) == {k \in 1..Len(s) - 1 : s[k] = CR /\ s[k + 1] = LF}

\* The end of the n-th line, and where it begins.
End(s, n) == CHOOSE k \in Ends(s) : Cardinality({j \in Ends(s) : j <= k}) = n
Begin(s, n) == IF n = 1 THEN 1 ELSE End(s, n - 1) + 2
Line(s, n) == SubSeq(s, Begin(s, n), End(s, n) - 1)

Init == said = <<>> /\ heard = <<>>

Say == \E p \in Pieces : said' = said \o p /\ UNCHANGED heard

Hear ==
  /\ Cardinality(Ends(said)) > Len(heard)
  /\ heard' = Append(heard, Line(said, Len(heard) + 1))
  /\ UNCHANGED said

Next == Say \/ Hear

Spec == Init /\ [][Next]_<<said, heard>>
=============================================================================
