---------------------------- MODULE InputProofs ----------------------------
(* The way of a command into the server, for streams of any bytes, cut by the  *)
(* network and by recv() in any way: every line is heard once, whole and in    *)
(* order, and none is left behind; what a handler is given is a command of its *)
(* own line, and what parse reads, toRawString writes so that it reads the     *)
(* same.                                                                       *)
(*                                                                            *)
(* Induction over lengths goes by the least counterexample (Least), so that no *)
(* theorem with an operator for a parameter is needed.                         *)
EXTENDS Input, Integers, FiniteSetTheorems, SequenceTheorems, WellFoundedInduction, TLAPS

-----------------------------------------------------------------------------
(* Least and greatest numbers, and pieces of sequences.                      *)

LEMMA Least ==
  ASSUME NEW S \in SUBSET Nat, S # {}
  PROVE  \E m \in S : \A n \in S : m <= n
<1> DEFINE R == OpToRel(<, Nat)
<1>1. IsWellFoundedOn(R, Nat)
  BY NatLessThanWellFounded
<1>2. \A x, y \in Nat : <<x, y>> \in R <=> x < y
  BY DEF OpToRel
<1> HIDE DEF R
<1>3. PICK m \in S : \A y \in S : ~(<<y, m>> \in R)
  BY <1>1, WFMin
<1>4. \A n \in S : m \in Nat /\ n \in Nat /\ ~(n < m)
  BY <1>2, <1>3
<1> QED
  BY <1>3, <1>4

LEMMA MinIs ==
  ASSUME NEW S \in SUBSET Nat, S # {}
  PROVE  Min(S) \in S /\ \A n \in S : Min(S) <= n
  BY Least, Zenon DEF Min

LEMMA MaxIs ==
  ASSUME NEW n \in Nat, NEW S \in SUBSET (0..n), S # {}
  PROVE  Max(S) \in S /\ \A m \in S : m <= Max(S)
<1> DEFINE T == {n - m : m \in S}
<1>1. T \in SUBSET Nat /\ T # {}
  OBVIOUS
<1>2. PICK t \in T : \A u \in T : t <= u
  BY <1>1, Least
<1>3. PICK m \in S : t = n - m
  BY <1>2
<1>4. \A k \in S : n - k \in T /\ k \in Int
  OBVIOUS
<1>5. ASSUME NEW k \in S PROVE m >= k
  <2>1. n - k \in T /\ k \in Int /\ m \in Int
    BY <1>3, <1>4
  <2>2. n - m <= n - k
    BY <1>2, <1>3, <2>1
  <2> QED
    BY <2>1, <2>2
<1>6. Max(S) \in S /\ \A k \in S : Max(S) >= k
  BY <1>5, Zenon DEF Max
<1>7. PICK top \in S : top = Max(S)
  BY <1>6
<1>8. \A k \in S : k <= top
  BY <1>6, <1>7
<1> QED
  BY <1>7, <1>8

\* The part of a sequence from a to b, which may end right before it begins.
LEMMA Part ==
  ASSUME NEW S, NEW s \in Seq(S), NEW a \in Nat \ {0}, NEW b \in Nat, b <= Len(s), a <= b + 1
  PROVE  /\ SubSeq(s, a, b) \in Seq(S)
         /\ Len(SubSeq(s, a, b)) = b - a + 1
         /\ \A i \in 1..b - a + 1 : SubSeq(s, a, b)[i] = s[a + i - 1]
<1>1. Len(s) \in Nat /\ \A i \in a..b : s[i] \in S
  BY LenProperties, ElementOfSeq
<1> QED
  BY <1>1, SubSeqProperties

\* Pieces are equal when they are as long and agree everywhere.
LEMMA PartOfPart ==
  ASSUME NEW S, NEW s \in Seq(S), NEW a \in Nat, NEW b \in Nat, a <= b, b <= Len(s),
         NEW m \in Nat \ {0}, NEW n \in Nat, m <= n + 1, n <= b - a
  PROVE  SubSeq(SubSeq(s, a + 1, b), m, n) = SubSeq(s, a + m, a + n)
<1>1. PICK t : t = SubSeq(s, a + 1, b)
  OBVIOUS
<1>2. /\ t \in Seq(S) /\ Len(t) = b - a /\ \A i \in 1..b - a : t[i] = s[a + i]
  <2>1. a + 1 \in Nat \ {0} /\ a + 1 <= b + 1 /\ b - (a + 1) + 1 = b - a
    OBVIOUS
  <2>2. /\ t \in Seq(S) /\ Len(t) = b - (a + 1) + 1
        /\ \A i \in 1..b - (a + 1) + 1 : t[i] = s[(a + 1) + i - 1]
    BY <1>1, <2>1, Part
  <2>3. \A i \in 1..b - a : (a + 1) + i - 1 = a + i
    OBVIOUS
  <2> QED
    BY <2>1, <2>2, <2>3
<1>3. PICK u : u = SubSeq(t, m, n)
  OBVIOUS
<1>4. /\ u \in Seq(S) /\ Len(u) = n - m + 1
      /\ \A i \in 1..n - m + 1 : u[i] = t[m + i - 1]
  BY <1>2, <1>3, Part
<1>5. PICK v : v = SubSeq(s, a + m, a + n)
  OBVIOUS
<1>6. /\ v \in Seq(S) /\ Len(v) = n - m + 1
      /\ \A i \in 1..n - m + 1 : v[i] = s[a + m + i - 1]
  <2>1. /\ a + m \in Nat \ {0} /\ a + n \in Nat /\ a + n <= Len(s) /\ a + m <= (a + n) + 1
        /\ (a + n) - (a + m) + 1 = n - m + 1
    BY LenProperties
  <2>2. /\ v \in Seq(S) /\ Len(v) = (a + n) - (a + m) + 1
        /\ \A i \in 1..(a + n) - (a + m) + 1 : v[i] = s[(a + m) + i - 1]
    BY <1>5, <2>1, Part
  <2> QED
    BY <2>1, <2>2
<1>7. ASSUME NEW i \in 1..Len(u) PROVE u[i] = v[i]
  <2>1. m + i - 1 \in 1..b - a /\ a + (m + i - 1) = a + m + i - 1 /\ i \in 1..n - m + 1
    BY <1>4
  <2>2. u[i] = t[m + i - 1] /\ v[i] = s[a + m + i - 1]
    BY <1>4, <1>6, <2>1
  <2> QED
    BY <1>2, <2>1, <2>2
<1>8. u = v
  BY <1>4, <1>6, <1>7, SeqEqual
<1> QED
  BY <1>1, <1>3, <1>5, <1>8

-----------------------------------------------------------------------------
(* Lines.                                                                    *)

\* The ends of lines that come before position b.
EndsBefore(s, b) == {j \in Heard!Ends(s) : j < b}

\* _read_buff is what recv() has returned since b, the end of the last line heard.
ReadFrom(b) ==
  /\ b \in 0..taken
  /\ readBuff = SubSeq(said, b + 1, taken)
  /\ Cardinality(EndsBefore(said, b)) = Len(heard)
  /\ b > 0 => b - 1 \in Heard!Ends(said)

StreamInv ==
  /\ said \in Seq(Bytes)
  /\ taken \in 0..Len(said)
  /\ heard \in Seq(Seq(Bytes))
  /\ \E b \in Nat : ReadFrom(b)

\* When nobody reads, no line waits, and bytes wait only for an event or behind others.
RestInv ==
  /\ ~reading => LineEnds = {}
  /\ taken < Len(said) => edge \/ full

LEMMA EndsFinite ==
  ASSUME NEW s \in Seq(Bytes)
  PROVE  /\ IsFiniteSet(Heard!Ends(s)) /\ Heard!Ends(s) \subseteq 1..Len(s) - 1
         /\ \A b : IsFiniteSet(EndsBefore(s, b)) /\ EndsBefore(s, b) \subseteq Heard!Ends(s)
<1>1. Heard!Ends(s) \subseteq 1..Len(s) - 1 /\ Len(s) \in Nat
  BY LenProperties DEF Heard!Ends
<1>2. IsFiniteSet(1..Len(s) - 1)
  BY <1>1, FS_Interval
<1>3. IsFiniteSet(Heard!Ends(s))
  BY <1>1, <1>2, FS_Subset
<1>4. \A b : EndsBefore(s, b) \subseteq Heard!Ends(s)
  BY DEF EndsBefore
<1> QED
  BY <1>1, <1>3, <1>4, FS_Subset

\* Lines counts as this module does.
LEMMA HeardCounts == \A S : Heard!Cardinality(S) = Cardinality(S)
<1>1. \A S : Heard!IsFiniteSet(S) = IsFiniteSet(S)
  BY DEF IsFiniteSet, Heard!IsFiniteSet
<1> QED
  BY <1>1 DEF Cardinality, Heard!Cardinality, IsFiniteSet, Heard!IsFiniteSet

\* More of the stream leaves what came before where it was.
LEMMA EndsOfLonger ==
  ASSUME NEW s \in Seq(Bytes), NEW p \in Seq(Bytes), NEW b \in Nat, b <= Len(s)
  PROVE  /\ EndsBefore(s \o p, b) = EndsBefore(s, b)
         /\ Heard!Ends(s) \subseteq Heard!Ends(s \o p)
<1>1. PICK t : t = s \o p
  OBVIOUS
<1>2. /\ Len(t) = Len(s) + Len(p) /\ Len(s) \in Nat /\ Len(p) \in Nat
      /\ \A i \in 1..Len(s) : t[i] = s[i]
  <2>1. Len(s) \in Nat /\ Len(p) \in Nat
    BY LenProperties
  <2>2. /\ Len(t) = Len(s) + Len(p)
        /\ \A i \in 1..Len(s) + Len(p) : t[i] = IF i <= Len(s) THEN s[i] ELSE p[i - Len(s)]
    BY <1>1, ConcatProperties
  <2> QED
    BY <2>1, <2>2
<1>3. \A j \in 1..Len(s) - 1 : j \in Heard!Ends(t) <=> j \in Heard!Ends(s)
  BY <1>2 DEF Heard!Ends
<1>4. \A j \in Heard!Ends(s) : j \in 1..Len(s) - 1
  BY DEF Heard!Ends
<1>5. \A j \in Heard!Ends(t) : j < b => j \in 1..Len(s) - 1
  BY <1>2 DEF Heard!Ends
<1> QED
  BY <1>1, <1>3, <1>4, <1>5 DEF EndsBefore

\* Nth(k, n): k is the n-th end of a line.
Nth(s, k, n) == k \in Heard!Ends(s) /\ Cardinality({j \in Heard!Ends(s) : j <= k}) = n

\* There is one n-th end of a line at most.
LEMMA NthUnique ==
  ASSUME NEW s \in Seq(Bytes), NEW n, NEW k, NEW l, Nth(s, k, n), Nth(s, l, n)
  PROVE  k = l
<1>1. ASSUME NEW x, NEW y, Nth(s, x, n), Nth(s, y, n), x < y PROVE FALSE
  <2>1. PICK S, T : S = {j \in Heard!Ends(s) : j <= x} /\ T = {j \in Heard!Ends(s) : j <= y}
    OBVIOUS
  <2>2. x \in Int /\ y \in Int /\ \A j \in Heard!Ends(s) : j \in Int
    BY <1>1, EndsFinite DEF Nth
  <2>3. x \in Heard!Ends(s) /\ y \in Heard!Ends(s)
    BY <1>1 DEF Nth
  <2>4. S \subseteq T /\ y \in T /\ y \notin S /\ T \subseteq Heard!Ends(s)
    <3>1. \A j \in Heard!Ends(s) : j <= x => j <= y
      BY <1>1, <2>2
    <3>2. y <= y /\ ~(y <= x)
      BY <1>1, <2>2
    <3> QED
      BY <2>1, <2>3, <3>1, <3>2
  <2>5. IsFiniteSet(T)
    BY <2>4, EndsFinite, FS_Subset
  <2>6. S \in SUBSET T /\ S # T
    BY <2>4
  <2>7. Cardinality(S) # Cardinality(T)
    BY <2>5, <2>6, FS_Subset
  <2> QED
    BY <1>1, <2>1, <2>7 DEF Nth
<1>2. k \in Int /\ l \in Int
  BY EndsFinite DEF Nth
<1>3. ~(k < l) /\ ~(l < k)
  BY <1>1
<1> QED
  BY <1>2, <1>3

LEMMA EndIs ==
  ASSUME NEW s \in Seq(Bytes), NEW k, NEW n, Nth(s, k, n)
  PROVE  Heard!End(s, n) = k
<1>1. PICK e : e = Heard!End(s, n)
  OBVIOUS
<1>2. e = CHOOSE x \in Heard!Ends(s) : Cardinality({j \in Heard!Ends(s) : j <= x}) = n
  BY <1>1, HeardCounts DEF Heard!End
<1>3. Nth(s, e, n)
  BY <1>2, Zenon DEF Nth
<1> QED
  BY <1>1, <1>3, NthUnique

\* Two ends are not side by side, for CR is not LF.
LEMMA LastEnd ==
  ASSUME NEW s \in Seq(Bytes), NEW b \in Nat, b > 0, b - 1 \in Heard!Ends(s)
  PROVE  b \notin Heard!Ends(s) /\ Nth(s, b - 1, Cardinality(EndsBefore(s, b)))
<1>1. s[b] = LF
  BY DEF Heard!Ends
<1>2. b \notin Heard!Ends(s)
  BY <1>1, InputAssumption DEF Heard!Ends
<1>3. \A j \in Heard!Ends(s) : j \in Int
  BY EndsFinite
<1>4. {j \in Heard!Ends(s) : j <= b - 1} = EndsBefore(s, b)
  BY <1>3 DEF EndsBefore
<1> QED
  BY <1>2, <1>4 DEF Nth

-----------------------------------------------------------------------------
(* Reading.                                                                  *)

LEMMA Buffer ==
  ASSUME StreamInv, NEW b \in Nat, ReadFrom(b)
  PROVE  /\ readBuff \in Seq(Bytes) /\ Len(readBuff) = taken - b
         /\ \A i \in 1..taken - b : readBuff[i] = said[b + i]
         /\ b <= taken /\ taken <= Len(said) /\ taken \in Nat /\ Len(said) \in Nat
<1>1. b <= taken /\ taken <= Len(said) /\ taken \in Nat /\ Len(said) \in Nat
  BY LenProperties DEF StreamInv, ReadFrom
<1>2. b + 1 \in Nat \ {0} /\ b + 1 <= taken + 1 /\ taken - (b + 1) + 1 = taken - b
  BY <1>1
<1>3. said \in Seq(Bytes) /\ readBuff = SubSeq(said, b + 1, taken)
  BY DEF StreamInv, ReadFrom
<1>4. /\ readBuff \in Seq(Bytes) /\ Len(readBuff) = taken - (b + 1) + 1
      /\ \A i \in 1..taken - (b + 1) + 1 : readBuff[i] = said[b + 1 + i - 1]
  BY <1>1, <1>2, <1>3, Part
<1>5. \A i \in 1..taken - b : b + 1 + i - 1 = b + i
  BY <1>1
<1> QED
  BY <1>1, <1>2, <1>4, <1>5

LEMMA SendStep ==
  ASSUME StreamInv, RestInv, NEW p \in Pieces, Send(p)
  PROVE  StreamInv' /\ RestInv' /\ Heard!Next
<1>1. /\ said' = said \o p /\ edge' = TRUE
      /\ UNCHANGED <<taken, reading, readBuff, heard>>
  BY DEF Send
<1>2. PICK b \in Nat : ReadFrom(b)
  BY DEF StreamInv
<1>3. p \in Seq(Bytes) /\ said \in Seq(Bytes) /\ b <= taken /\ taken <= Len(said)
      /\ taken \in Nat /\ Len(said) \in Nat /\ Len(p) \in Nat
  BY <1>2, InputAssumption, LenProperties, Buffer DEF StreamInv
<1>4. said' \in Seq(Bytes) /\ Len(said') = Len(said) + Len(p)
  BY <1>1, <1>3, ConcatProperties
<1>5. SubSeq(said', b + 1, taken) = SubSeq(said, b + 1, taken)
  <2>1. CASE b = taken
    <3>1. b + 1 \in Int /\ taken \in Int /\ taken < b + 1
      BY <1>3, <2>1
    <3> QED
      BY <3>1, SubSeqEmpty
  <2>2. CASE b # taken
    <3>1. b + 1 \in 1..Len(said) /\ taken \in 1..Len(said)
      BY <1>3, <2>2
    <3> QED
      BY <1>1, <1>3, <3>1, SubSeqOfConcat1
  <2> QED
    BY <2>1, <2>2
<1>6. /\ EndsBefore(said', b) = EndsBefore(said, b)
      /\ Heard!Ends(said) \subseteq Heard!Ends(said')
  <2>1. b <= Len(said)
    BY <1>3
  <2> QED
    BY <1>1, <1>3, <2>1, EndsOfLonger
<1>7. ReadFrom(b)'
  BY <1>1, <1>2, <1>5, <1>6 DEF ReadFrom
<1>8. StreamInv'
  BY <1>1, <1>3, <1>4, <1>7 DEF StreamInv
<1>9. RestInv'
  BY <1>1 DEF RestInv, LineEnds
<1>10. Heard!Say
  BY <1>1 DEF Heard!Say
<1> QED
  BY <1>8, <1>9, <1>10 DEF Heard!Next

LEMMA RecvStep ==
  ASSUME StreamInv, RestInv, Recv
  PROVE  StreamInv' /\ RestInv' /\ UNCHANGED <<said, heard>>
<1>2. PICK b \in Nat : ReadFrom(b)
  BY DEF StreamInv
<1>3. /\ said \in Seq(Bytes) /\ b <= taken /\ taken <= Len(said)
      /\ taken \in Nat /\ Len(said) \in Nat
  BY <1>2, Buffer DEF StreamInv
<1>0. PICK both, n :
         /\ both = {BufSize, Len(said) - taken} /\ n = Min(both)
         /\ taken' = taken + n /\ full' = (n = BufSize)
         /\ readBuff' = readBuff \o SubSeq(said, taken + 1, taken + n)
         /\ reading' = TRUE /\ UNCHANGED <<said, heard>>
  BY DEF Recv, Appended
<1>4. PICK k \in Nat :
        k = n /\ k <= Len(said) - taken /\ (k = BufSize \/ k = Len(said) - taken)
  <2>1. PICK rest \in Nat : rest = Len(said) - taken
    BY <1>3
  <2>2. both = {BufSize, rest} /\ BufSize \in Nat
    BY <1>0, <2>1, InputAssumption
  <2>3. PICK k \in both : k = n /\ \A m \in both : k <= m
    BY <1>0, <2>2, MinIs
  <2>4. k \in Nat /\ k <= rest /\ (k = BufSize \/ k = rest)
    BY <2>2, <2>3
  <2> QED
    BY <2>1, <2>3, <2>4
<1>10. n = k
  BY <1>4
<1>1. /\ taken' = taken + k
      /\ readBuff' = readBuff \o SubSeq(said, taken + 1, taken + k)
      /\ UNCHANGED <<said, heard>>
  BY <1>0, <1>10
<1>9. reading' /\ (k = BufSize => full')
  BY <1>0, <1>10, Zenon
<1>5. readBuff' = SubSeq(said, b + 1, taken')
  <2>1. /\ b + 1 \in 1..Len(said) + 1 /\ taken \in (b + 1) - 1..Len(said)
        /\ taken + k \in taken..Len(said)
    BY <1>3, <1>4
  <2>2. SubSeq(said, b + 1, taken) \o SubSeq(said, taken + 1, taken + k)
          = SubSeq(said, b + 1, taken + k)
    BY <1>3, <2>1, ConcatAdjacentSubSeq
  <2> QED
    BY <1>1, <1>2, <2>2 DEF ReadFrom
<1>6. ReadFrom(b)'
  <2>1. b \in 0..taken + k
    BY <1>3, <1>4
  <2> QED
    BY <1>1, <1>2, <1>5, <2>1 DEF ReadFrom
<1>7. StreamInv'
  BY <1>1, <1>3, <1>4, <1>6 DEF StreamInv
<1>8. RestInv'
  <2>1. taken + k < Len(said) => k = BufSize
    BY <1>3, <1>4
  <2>2. taken' < Len(said') => k = BufSize
    BY <1>1, <2>1
  <2> QED
    BY <1>9, <2>2 DEF RestInv
<1> QED
  BY <1>1, <1>7, <1>8

\* The first line end in _read_buff is the next one of the stream.
LEMMA NextEnd ==
  ASSUME StreamInv, NEW b \in Nat, ReadFrom(b), LineEnds # {}, NEW end \in Nat, end = Min(LineEnds)
  PROVE  /\ end \in 1..taken - b - 1
         /\ b + end \in Heard!Ends(said)
         /\ EndsBefore(said, b + end) = EndsBefore(said, b)
<1>0. /\ Len(readBuff) = taken - b /\ said \in Seq(Bytes)
      /\ b <= taken /\ taken <= Len(said) /\ taken \in Nat /\ Len(said) \in Nat
  BY Buffer DEF StreamInv
<1>1. \A i \in 1..taken - b : readBuff[i] = said[b + i]
  BY Buffer
<1>2. LineEnds \in SUBSET Nat
  BY <1>0 DEF LineEnds
<1>3. end \in LineEnds /\ \A k \in LineEnds : end <= k
  BY <1>2, MinIs
<1>4. end \in 1..taken - b - 1 /\ readBuff[end] = CR /\ readBuff[end + 1] = LF
  <2>1. /\ end \in 1..Len(readBuff) - 1 /\ readBuff[end] = CR /\ readBuff[end + 1] = LF
    BY <1>3 DEF LineEnds
  <2> QED
    BY <1>0, <2>1
<1>5. b + end \in Heard!Ends(said)
  <2>1. end \in 1..taken - b /\ end + 1 \in 1..taken - b /\ b + (end + 1) = (b + end) + 1
    BY <1>0, <1>4
  <2>2. said[b + end] = CR /\ said[(b + end) + 1] = LF
    BY <1>1, <1>4, <2>1
  <2>3. b + end \in 1..Len(said) - 1
    BY <1>0, <1>4
  <2> QED
    BY <2>2, <2>3 DEF Heard!Ends
<1>6. ASSUME NEW j \in Nat, j \in Heard!Ends(said), j < b + end, j >= b PROVE FALSE
  <2>1. said[j] = CR /\ said[j + 1] = LF /\ j > 0
    BY <1>6 DEF Heard!Ends
  <2>2. j # b
    <3>1. b > 0 => b - 1 \in Heard!Ends(said)
      BY DEF ReadFrom
    <3>2. b > 0 => b \notin Heard!Ends(said)
      BY <1>0, <3>1, LastEnd
    <3> QED
      BY <1>6, <2>1, <3>2
  <2>3. PICK i \in 1..end - 1 : j = b + i
    <3>1. j - b \in 1..end - 1 /\ j = b + (j - b)
      BY <1>6, <2>2
    <3> QED
      BY <3>1
  <2>4. i \in 1..taken - b /\ i + 1 \in 1..taken - b /\ b + (i + 1) = j + 1
    BY <1>0, <1>4, <2>3
  <2>5. readBuff[i] = CR /\ readBuff[i + 1] = LF
    BY <1>1, <2>1, <2>3, <2>4
  <2>6. i \in 1..Len(readBuff) - 1
    BY <1>0, <1>4, <2>3
  <2>7. i \in LineEnds
    BY <2>5, <2>6 DEF LineEnds
  <2> QED
    BY <1>3, <2>3, <2>7
<1>7. \A j \in Heard!Ends(said) : j \in Nat
  BY <1>0 DEF Heard!Ends
<1>8. EndsBefore(said, b + end) = EndsBefore(said, b)
  <2>1. \A j \in Heard!Ends(said) : j < b + end <=> j < b
    BY <1>6, <1>7
  <2> QED
    BY <2>1 DEF EndsBefore
<1> QED
  BY <1>4, <1>5, <1>8

LEMMA ExtractStep ==
  ASSUME StreamInv, RestInv, Extract
  PROVE  StreamInv' /\ RestInv' /\ Heard!Next
<1>0. PICK end \in Nat : end = Min(LineEnds)
  <2>1. LineEnds \in SUBSET Nat
    <3>1. Len(readBuff) \in Nat
      BY LenProperties, Buffer DEF StreamInv
    <3> QED
      BY <3>1 DEF LineEnds
  <2>2. LineEnds # {}
    BY DEF Extract
  <2> QED
    BY <2>1, <2>2, MinIs
<1>1. /\ reading /\ LineEnds # {}
      /\ heard' = Append(heard, SubSeq(readBuff, 1, end - 1))
      /\ readBuff' = From(readBuff, end + 2)
      /\ UNCHANGED <<said, taken, edge, full, reading>>
  BY <1>0 DEF Extract
<1>2. PICK b \in Nat : ReadFrom(b)
  BY DEF StreamInv
<1>3. /\ readBuff \in Seq(Bytes) /\ Len(readBuff) = taken - b
      /\ b <= taken /\ taken <= Len(said) /\ taken \in Nat /\ Len(said) \in Nat
      /\ readBuff = SubSeq(said, b + 1, taken) /\ said \in Seq(Bytes)
      /\ heard \in Seq(Seq(Bytes)) /\ Len(heard) \in Nat
  BY <1>2, Buffer, LenProperties DEF StreamInv, ReadFrom
<1>4. /\ end \in 1..taken - b - 1
      /\ b + end \in Heard!Ends(said)
      /\ EndsBefore(said, b + end) = EndsBefore(said, b)
  BY <1>0, <1>1, <1>2, NextEnd
<1>5. PICK line : line = SubSeq(readBuff, 1, end - 1)
  OBVIOUS
<1>6. line = SubSeq(said, b + 1, b + end - 1) /\ line \in Seq(Bytes)
  <2>1. /\ 1 \in Nat \ {0} /\ end - 1 \in Nat /\ 1 <= (end - 1) + 1 /\ end - 1 <= taken - b
        /\ b + (end - 1) = b + end - 1 /\ end - 1 <= Len(readBuff)
    BY <1>3, <1>4
  <2>2. SubSeq(SubSeq(said, b + 1, taken), 1, end - 1) = SubSeq(said, b + 1, b + (end - 1))
    BY <1>3, <2>1, PartOfPart
  <2>3. line \in Seq(Bytes)
    BY <1>3, <1>5, <2>1, Part
  <2> QED
    BY <1>3, <1>5, <2>1, <2>2, <2>3
<1>7. PICK c \in Nat : c = b + end + 1
  BY <1>4
<1>8. readBuff' = SubSeq(said, c + 1, taken)
  <2>1. /\ end + 2 \in Nat \ {0} /\ taken - b \in Nat /\ end + 2 <= (taken - b) + 1
        /\ b + (end + 2) = c + 1 /\ b + (taken - b) = taken
    BY <1>3, <1>4, <1>7
  <2>2. SubSeq(SubSeq(said, b + 1, taken), end + 2, taken - b)
          = SubSeq(said, b + (end + 2), b + (taken - b))
    BY <1>3, <2>1, PartOfPart
  <2> QED
    BY <1>1, <1>3, <2>1, <2>2 DEF From
<1>9. Nth(said, b + end, Len(heard) + 1)
  <2>1. {j \in Heard!Ends(said) : j <= b + end} = EndsBefore(said, b) \cup {b + end}
    <3>1. \A j \in Heard!Ends(said) : j \in Int
      BY <1>3, EndsFinite
    <3>2. \A j \in Heard!Ends(said) : j <= b + end <=> j < b + end \/ j = b + end
      BY <1>4, <3>1
    <3> QED
      BY <1>4, <3>2 DEF EndsBefore
  <2>2. b + end \notin EndsBefore(said, b) /\ IsFiniteSet(EndsBefore(said, b))
    <3>1. ~(b + end < b)
      BY <1>0, <1>2
    <3> QED
      BY <1>3, <3>1, EndsFinite DEF EndsBefore
  <2>3. Cardinality(EndsBefore(said, b) \cup {b + end}) = Cardinality(EndsBefore(said, b)) + 1
    BY <2>2, FS_AddElement
  <2>4. Cardinality(EndsBefore(said, b)) = Len(heard)
    BY <1>2 DEF ReadFrom
  <2> QED
    BY <1>4, <2>1, <2>3, <2>4 DEF Nth
<1>10. c - 1 = b + end /\ c > 0
  BY <1>4, <1>7
<1>11. ReadFrom(c)'
  <2>1. Len(heard') = Len(heard) + 1
    BY <1>1, <1>3, <1>5, <1>6, AppendProperties
  <2>2. Cardinality(EndsBefore(said, c)) = Len(heard) + 1
    <3>1. Nth(said, c - 1, Cardinality(EndsBefore(said, c)))
      BY <1>3, <1>4, <1>10, LastEnd
    <3> QED
      BY <1>9, <1>10, <3>1 DEF Nth
  <2>3. c \in 0..taken
    BY <1>3, <1>4, <1>7
  <2> QED
    BY <1>1, <1>4, <1>8, <1>10, <2>1, <2>2, <2>3 DEF ReadFrom
<1>12. StreamInv'
  <2>1. heard' \in Seq(Seq(Bytes))
    BY <1>1, <1>3, <1>5, <1>6, AppendProperties
  <2> QED
    BY <1>1, <1>11, <2>1 DEF StreamInv
<1>13. RestInv'
  BY <1>1 DEF RestInv
<1>14. Heard!Hear
  <2>1. Heard!End(said, Len(heard) + 1) = b + end
    BY <1>3, <1>9, EndIs
  <2>2. Heard!Begin(said, Len(heard) + 1) = b + 1
    <3>1. CASE b = 0
      <4>1. EndsBefore(said, b) = {}
        BY <1>3, <3>1, EndsFinite DEF EndsBefore
      <4>2. Len(heard) = 0
        BY <1>2, <4>1, FS_EmptySet DEF ReadFrom
      <4> QED
        BY <3>1, <4>2 DEF Heard!Begin
    <3>2. CASE b # 0
      <4>1. Nth(said, b - 1, Len(heard))
        BY <1>2, <1>3, <3>2, LastEnd DEF ReadFrom
      <4>2. Heard!End(said, Len(heard)) = b - 1
        BY <1>3, <4>1, EndIs
      <4>3. Len(heard) # 0
        <5>1. b - 1 < b /\ b - 1 \in Heard!Ends(said)
          BY <1>2, <4>1 DEF Nth
        <5>2. b - 1 \in EndsBefore(said, b) /\ IsFiniteSet(EndsBefore(said, b))
          BY <1>3, <5>1, EndsFinite DEF EndsBefore
        <5> QED
          BY <1>2, <5>2, FS_EmptySet DEF ReadFrom
      <4>4. (Len(heard) + 1) - 1 = Len(heard) /\ Len(heard) + 1 # 1 /\ (b - 1) + 2 = b + 1
        BY <1>3, <4>3
      <4> QED
        BY <4>2, <4>4 DEF Heard!Begin
    <3> QED
      BY <3>1, <3>2
  <2>3. heard' = Append(heard, Heard!Line(said, Len(heard) + 1))
    BY <1>1, <1>5, <1>6, <2>1, <2>2 DEF Heard!Line
  <2>4. Heard!Cardinality(Heard!Ends(said)) > Len(heard)
    <3>1. PICK T : T = {j \in Heard!Ends(said) : j <= b + end}
      OBVIOUS
    <3>2. T \in SUBSET Heard!Ends(said) /\ IsFiniteSet(Heard!Ends(said))
      BY <1>3, <3>1, EndsFinite
    <3>3. Cardinality(T) <= Cardinality(Heard!Ends(said))
      BY <3>2, FS_Subset
    <3>4. Cardinality(Heard!Ends(said)) \in Nat
      BY <3>2, FS_CardinalityType
    <3>5. Cardinality(T) = Len(heard) + 1
      BY <1>9, <3>1 DEF Nth
    <3>6. PICK all \in Nat : all = Cardinality(Heard!Ends(said))
      BY <3>4
    <3>7. all > Len(heard)
      BY <1>3, <3>3, <3>5, <3>6
    <3> QED
      BY <3>6, <3>7, HeardCounts
  <2> QED
    BY <1>1, <2>3, <2>4 DEF Heard!Hear
<1> QED
  BY <1>12, <1>13, <1>14 DEF Heard!Next

LEMMA ReturnStep ==
  ASSUME StreamInv, RestInv, Return
  PROVE  StreamInv' /\ RestInv' /\ UNCHANGED <<said, heard>>
<1>1. LineEnds = {} /\ UNCHANGED <<said, taken, edge, full, readBuff, heard>>
  BY DEF Return
<1>2. StreamInv' /\ LineEnds' = LineEnds
  BY <1>1 DEF StreamInv, ReadFrom, LineEnds
<1>3. RestInv'
  BY <1>1, <1>2 DEF RestInv
<1> QED
  BY <1>1, <1>2, <1>3

LEMMA StreamStep ==
  ASSUME StreamInv, RestInv, [Next]_vars
  PROVE  StreamInv' /\ RestInv' /\ [Heard!Next]_<<said, heard>>
<1>1. CASE UNCHANGED vars
  <2>1. UNCHANGED <<said, taken, edge, full, reading, readBuff, heard>>
    BY <1>1 DEF vars
  <2> QED
    BY <2>1 DEF StreamInv, ReadFrom, RestInv, LineEnds
<1>2. CASE \E p \in Pieces : Send(p)
  BY <1>2, SendStep
<1> QED
  BY <1>1, <1>2, RecvStep, ExtractStep, ReturnStep DEF Next

LEMMA StreamInit == Init => StreamInv /\ RestInv /\ Heard!Init
<1> SUFFICES ASSUME Init PROVE StreamInv /\ RestInv /\ Heard!Init
  OBVIOUS
<1>1. /\ said = <<>> /\ taken = 0 /\ readBuff = <<>> /\ heard = <<>> /\ reading = FALSE
  BY DEF Init
<1>2. /\ <<>> \in Seq(Bytes) /\ <<>> \in Seq(Seq(Bytes)) /\ Len(<<>>) = 0
  BY EmptySeq
<1>3. EndsBefore(said, 0) = {}
  BY <1>1, <1>2 DEF EndsBefore, Heard!Ends
<1>4. SubSeq(<<>>, 0 + 1, 0) = <<>>
  BY SubSeqEmpty
<1>5. ReadFrom(0)
  BY <1>1, <1>2, <1>3, <1>4, FS_EmptySet DEF ReadFrom
<1>6. StreamInv
  BY <1>1, <1>2, <1>5 DEF StreamInv
<1>7. LineEnds = {}
  BY <1>1, <1>2 DEF LineEnds
<1> QED
  BY <1>1, <1>2, <1>6, <1>7 DEF RestInv, Heard!Init

LEMMA StreamAlways == Spec => [](StreamInv /\ RestInv)
  BY StreamInit, StreamStep, PTL DEF Spec

\* Whatever is read at once and in how many pieces, no line waits for the next event, and
\* what is left in the socket has an event to come or filled the buffer.
THEOREM NothingIsForgotten == Spec => []NothingForgotten
<1>1. RestInv => NothingForgotten
  BY DEF RestInv, NothingForgotten
<1> QED
  BY <1>1, StreamAlways, PTL

\* The way in implements Lines: no cut of the stream, not even one between CR and LF,
\* loses, repeats or tears a line.
THEOREM LinesAreHeard == Spec => LinesSpec
<1>1. StreamInv /\ RestInv /\ [Next]_vars => [Heard!Next]_<<said, heard>>
  BY StreamStep
<1>2. Init => Heard!Init
  BY StreamInit
<1> QED
  BY <1>1, <1>2, StreamAlways, PTL DEF Spec, LinesSpec, Heard!Spec

-----------------------------------------------------------------------------
(* What IrcMessage::parse makes of a line.                                   *)

LEMMA Induct ==
  ASSUME NEW S, 0 \in S, \A n \in Nat : n \in S => n + 1 \in S
  PROVE  \A n \in Nat : n \in S
<1> SUFFICES ASSUME Nat \ S # {} PROVE FALSE
  OBVIOUS
<1>1. PICK m \in Nat \ S : \A n \in Nat \ S : m <= n
  BY Least
<1>2. m # 0 /\ m - 1 \in Nat /\ m - 1 \notin Nat \ S
  BY <1>1
<1> QED
  BY <1>1, <1>2

LEMMA FirstOfIs ==
  ASSUME NEW s \in Seq(Bytes), NEW set \in SUBSET (1..Len(s))
  PROVE  /\ FirstOf(s, set) \in 1..Len(s) + 1
         /\ FirstOf(s, set) \in set \/ FirstOf(s, set) = Len(s) + 1
         /\ \A k \in set : FirstOf(s, set) <= k
<1>1. PICK n \in Nat : n = Len(s)
  BY LenProperties
<1>2. PICK all : all = set \cup {n + 1}
  OBVIOUS
<1>3. all \in SUBSET Nat /\ all # {} /\ all \subseteq 1..n + 1
  <2>1. set \in SUBSET (1..n)
    BY <1>1
  <2> QED
    BY <1>2, <2>1
<1>4. PICK f : f = Min(all)
  OBVIOUS
<1>5. f \in all /\ \A k \in all : f <= k
  BY <1>3, <1>4, MinIs
<1>6. f = FirstOf(s, set)
  BY <1>1, <1>2, <1>4 DEF FirstOf
<1> QED
  BY <1>1, <1>2, <1>3, <1>5, <1>6

\* From the position k on.
LEMMA FromIs ==
  ASSUME NEW s \in Seq(Bytes), NEW k \in Nat \ {0}, k <= Len(s) + 1
  PROVE  /\ From(s, k) \in Seq(Bytes) /\ Len(From(s, k)) = Len(s) - k + 1
         /\ \A i \in 1..Len(s) - k + 1 : From(s, k)[i] = s[k + i - 1]
<1>1. Len(s) \in Nat /\ Len(s) <= Len(s)
  BY LenProperties
<1> QED
  BY <1>1, Part DEF From

\* The token between a and e, and what is known of both.
Cutting(s, a, e) ==
  /\ a = TokenStart(s) /\ e = TokenEnd(s)
  /\ a \in 1..Len(s) + 1 /\ e \in a..Len(s) + 1
  /\ \A k \in 1..a - 1 : s[k] \in White
  /\ \A k \in a..e - 1 : s[k] \notin White
  /\ e <= Len(s) => s[e] \in White
  /\ a <= Len(s) => a < e

LEMMA TokenCut ==
  ASSUME NEW s \in Seq(Bytes)
  PROVE  \E a, e \in Nat : Cutting(s, a, e)
<1>1. PICK n \in Nat : n = Len(s)
  BY LenProperties
<1>2. PICK set : set = {k \in 1..n : s[k] \notin White}
  OBVIOUS
<1>3. set \in SUBSET (1..Len(s)) /\ FirstOf(s, set) = TokenStart(s)
  BY <1>1, <1>2 DEF TokenStart
<1>4. PICK a \in 1..n + 1 : /\ a = TokenStart(s)
                            /\ a \in set \/ a = n + 1
                            /\ \A k \in set : a <= k
  BY <1>1, <1>3, FirstOfIs
<1>5. ASSUME NEW k \in 1..a - 1 PROVE s[k] \in White
  <2>1. k \in 1..n /\ ~(a <= k)
    BY <1>4
  <2>2. k \notin set
    BY <1>4, <2>1
  <2> QED
    BY <1>2, <2>1, <2>2
<1>6. PICK ends : ends = {k \in a..n : s[k] \in White}
  OBVIOUS
<1>7. ends \in SUBSET (1..Len(s)) /\ FirstOf(s, ends) = TokenEnd(s)
  <2>1. ends = {k \in TokenStart(s)..Len(s) : s[k] \in White}
    BY <1>1, <1>4, <1>6
  <2>2. ends \subseteq 1..n
    BY <1>4, <1>6
  <2> QED
    BY <1>1, <2>1, <2>2 DEF TokenEnd
<1>8. PICK e \in 1..n + 1 : /\ e = TokenEnd(s)
                            /\ e \in ends \/ e = n + 1
                            /\ \A k \in ends : e <= k
  BY <1>1, <1>7, FirstOfIs
<1>9. e \in a..n + 1
  BY <1>4, <1>6, <1>8
<1>10. ASSUME NEW k \in a..e - 1 PROVE s[k] \notin White
  <2>1. k \in a..n /\ ~(e <= k)
    BY <1>8, <1>4
  <2>2. k \notin ends
    BY <1>8, <2>1
  <2> QED
    BY <1>6, <2>1, <2>2
<1>11. e <= n => s[e] \in White
  BY <1>6, <1>8
<1>12. a <= n => a < e
  <2>1. a <= n => s[a] \notin White
    BY <1>2, <1>4
  <2>2. a = e /\ a <= n => s[a] \in White
    BY <1>11
  <2> QED
    BY <1>9, <2>1, <2>2
<1>13. Cutting(s, a, e)
  BY <1>1, <1>4, <1>5, <1>8, <1>9, <1>10, <1>11, <1>12 DEF Cutting
<1>14. a \in Nat /\ e \in Nat
  BY <1>4, <1>8
<1> QED
  BY <1>13, <1>14

Dark == Bytes \ White

LEMMA TokenIs ==
  ASSUME NEW s \in Seq(Bytes), NEW a \in Nat, NEW e \in Nat, Cutting(s, a, e)
  PROVE  /\ Token(s) \in Seq(Dark) /\ Len(Token(s)) = e - a
         /\ Token(s) = <<>> <=> a = Len(s) + 1
         /\ Token(s) # <<>> => Head(Token(s)) = s[a]
         /\ AfterToken(s) = From(s, e)
<1>1. /\ a \in 1..Len(s) + 1 /\ e \in a..Len(s) + 1 /\ Len(s) \in Nat
      /\ a <= Len(s) => a < e
      /\ Token(s) = SubSeq(s, a, e - 1) /\ AfterToken(s) = From(s, e)
  BY LenProperties DEF Cutting, Token, AfterToken
<1>2. /\ a \in Nat \ {0} /\ e - 1 \in Nat /\ e - 1 <= Len(s) /\ a <= (e - 1) + 1
      /\ (e - 1) - a + 1 = e - a
  BY <1>1
<1>3. PICK t : t = SubSeq(s, a, e - 1)
  OBVIOUS
<1>4. /\ t \in Seq(Bytes) /\ Len(t) = e - a
      /\ \A i \in 1..e - a : t[i] = s[a + i - 1]
  <2>1. /\ t \in Seq(Bytes) /\ Len(t) = (e - 1) - a + 1
        /\ \A i \in 1..(e - 1) - a + 1 : t[i] = s[a + i - 1]
    BY <1>2, <1>3, Part
  <2> QED
    BY <1>2, <2>1
<1>5. t \in Seq(Dark)
  <2>1. ASSUME NEW i \in 1..Len(t) PROVE t[i] \in Dark
    <3>1. i \in 1..e - a /\ a + i - 1 \in a..e - 1
      BY <1>1, <1>4
    <3>2. t[i] \in Bytes
      BY <1>4, ElementOfSeq
    <3>3. s[a + i - 1] \notin White
      BY <3>1 DEF Cutting
    <3> QED
      BY <1>4, <3>1, <3>2, <3>3 DEF Dark
  <2>2. t = [i \in 1..Len(t) |-> t[i]] /\ Len(t) \in Nat
    BY <1>4, LenProperties
  <2> QED
    BY <2>1, <2>2, SeqDef
<1>6. t = <<>> <=> a = Len(s) + 1
  <2>1. t = <<>> <=> e = a
    BY <1>1, <1>4, EmptySeq
  <2> QED
    BY <1>1, <2>1
<1>7. t # <<>> => Head(t) = s[a]
  <2>1. ASSUME t # <<>> PROVE 1 \in 1..e - a /\ a + 1 - 1 = a
    BY <1>1, <1>4, <1>6, <2>1
  <2> QED
    BY <1>4, <2>1
<1> QED
  BY <1>1, <1>3, <1>4, <1>5, <1>6, <1>7


\* What is left of a line: a part of it from the front or from some position.
LEMMA ChompIs ==
  ASSUME NEW s \in Seq(Bytes)
  PROVE  \E n \in Nat : /\ n <= Len(s) /\ Chomp(s) = SubSeq(s, 1, n)
                        /\ Chomp(s) \in Seq(Bytes) /\ Len(Chomp(s)) = n
                        /\ \A i \in 1..n : Chomp(s)[i] = s[i]
                        /\ \A k \in n + 1..Len(s) : s[k] \in {CR, LF}
                        /\ n > 0 => s[n] \notin {CR, LF}
<1>1. PICK m \in Nat : m = Len(s)
  BY LenProperties
<1>2. PICK set : set = {k \in 1..m : s[k] \notin {CR, LF}} \cup {0}
  OBVIOUS
<1>3. set \in SUBSET (0..m) /\ set # {}
  BY <1>2
<1>4. PICK n : n = Max(set)
  OBVIOUS
<1>5. n \in set /\ \A k \in set : k <= n
  BY <1>3, <1>4, MaxIs
<1>6. n \in Nat /\ n <= m
  BY <1>3, <1>5
<1>7. Chomp(s) = SubSeq(s, 1, n)
  BY <1>1, <1>2, <1>4 DEF Chomp
<1>8. ASSUME NEW k \in n + 1..m PROVE s[k] \in {CR, LF}
  <2>1. k \in 1..m /\ ~(k <= n)
    BY <1>6
  <2> QED
    BY <1>2, <1>5, <2>1
<1>9. PICK c : c = SubSeq(s, 1, n)
  OBVIOUS
<1>10. /\ c \in Seq(Bytes) /\ Len(c) = n
       /\ \A i \in 1..n : c[i] = s[i]
  <2>1. /\ n - 1 + 1 = n /\ 1 \in Nat \ {0} /\ n <= Len(s) /\ 1 <= n + 1
        /\ \A i \in 1..n : 1 + i - 1 = i
    BY <1>1, <1>6
  <2>2. /\ c \in Seq(Bytes) /\ Len(c) = n - 1 + 1
        /\ \A i \in 1..n - 1 + 1 : c[i] = s[1 + i - 1]
    BY <1>6, <1>9, <2>1, Part
  <2> QED
    BY <1>6, <2>1, <2>2
<1>11. n > 0 => s[n] \notin {CR, LF}
  BY <1>2, <1>5
<1> QED
  BY <1>1, <1>6, <1>7, <1>8, <1>9, <1>10, <1>11

LEMMA GetlineIs ==
  ASSUME NEW s \in Seq(Bytes)
  PROVE  Getline(s) \in Seq(Bytes)
<1>1. PICK m \in Nat : m = Len(s)
  BY LenProperties
<1>2. PICK set : set = {k \in 1..m : s[k] = LF}
  OBVIOUS
<1>3. set \in SUBSET (1..Len(s))
  BY <1>1, <1>2
<1>4. PICK f \in 1..m + 1 : f = FirstOf(s, set)
  BY <1>1, <1>3, FirstOfIs
<1>5. Getline(s) = SubSeq(s, 1, f - 1)
  BY <1>1, <1>2, <1>4 DEF Getline
<1>6. f - 1 \in Nat /\ f - 1 <= Len(s) /\ 1 <= (f - 1) + 1 /\ 1 \in Nat \ {0}
  BY <1>1
<1> QED
  BY <1>5, <1>6, Part

LEMMA SkipBlanksIs ==
  ASSUME NEW s \in Seq(Bytes)
  PROVE  SkipBlanks(s) \in Seq(Bytes)
<1>1. PICK m \in Nat : m = Len(s)
  BY LenProperties
<1>2. PICK set : set = {k \in 1..m : s[k] # Blank}
  OBVIOUS
<1>3. set \in SUBSET (1..Len(s))
  BY <1>1, <1>2
<1>4. PICK f \in 1..m + 1 : f = FirstOf(s, set)
  BY <1>1, <1>3, FirstOfIs
<1>5. SkipBlanks(s) = From(s, f)
  BY <1>1, <1>2, <1>4 DEF SkipBlanks
<1>6. f \in Nat \ {0} /\ f <= Len(s) + 1
  BY <1>1
<1> QED
  BY <1>5, <1>6, FromIs

\* A step of the cutting, with f for what it makes of later positions.
CutStep(s, f, k) ==
  IF Token(From(s, k)) = <<>> THEN <<>>
  ELSE IF IsTrailing(Token(From(s, k)))
    THEN <<Tail(Token(From(s, k))) \o Getline(AfterToken(From(s, k)))>>
  ELSE <<Token(From(s, k))>> \o f[k + TokenEnd(From(s, k)) - 1]

IsCut(s, f) == f = [k \in 1..Len(s) + 1 |-> CutStep(s, f, k)]

LEMMA ParametersAreCut ==
  ASSUME NEW s
  PROVE  Parameters(s) = (CHOOSE f : IsCut(s, f))[1]
  BY Zenon DEF Parameters, CutStep, IsCut

\* A later position: one step depends on no other of f.
LEMMA CutGoesOn ==
  ASSUME NEW s \in Seq(Bytes), NEW k \in 1..Len(s) + 1, Token(From(s, k)) # <<>>
  PROVE  /\ k + TokenEnd(From(s, k)) - 1 \in k + 1..Len(s) + 1
         /\ Token(From(s, k)) \in Seq(Dark)
         /\ AfterToken(From(s, k)) \in Seq(Bytes)
<1>1. PICK n \in Nat : n = Len(s)
  BY LenProperties
<1>2. PICK r : r = From(s, k)
  OBVIOUS
<1>3. r \in Seq(Bytes) /\ Len(r) = n - k + 1
  <2>1. k \in Nat \ {0} /\ k <= Len(s) + 1
    BY <1>1
  <2> QED
    BY <1>1, <1>2, <2>1, FromIs
<1>4. PICK a, e \in Nat : Cutting(r, a, e)
  BY <1>3, TokenCut
<1>5. Token(r) \in Seq(Dark) /\ a # Len(r) + 1 /\ AfterToken(r) = From(r, e)
  BY <1>2, <1>3, <1>4, TokenIs
<1>6. /\ a \in 1..Len(r) + 1 /\ e \in a..Len(r) + 1 /\ e = TokenEnd(r)
      /\ a <= Len(r) => a < e
  BY <1>4 DEF Cutting
<1>7. e \in 2..n - k + 2
  BY <1>1, <1>3, <1>5, <1>6
<1>8. From(r, e) \in Seq(Bytes)
  BY <1>1, <1>3, <1>7, FromIs
<1>9. k + e - 1 \in k + 1..n + 1
  BY <1>1, <1>7
<1> QED
  BY <1>1, <1>2, <1>5, <1>6, <1>8, <1>9

LEMMA CutAlike ==
  ASSUME NEW s \in Seq(Bytes), NEW k \in 1..Len(s) + 1, NEW f, NEW g,
         \A j \in k + 1..Len(s) + 1 : f[j] = g[j]
  PROVE  CutStep(s, f, k) = CutStep(s, g, k)
<1>1. CASE Token(From(s, k)) = <<>>
  BY <1>1 DEF CutStep
<1>2. CASE Token(From(s, k)) # <<>>
  <2>1. f[k + TokenEnd(From(s, k)) - 1] = g[k + TokenEnd(From(s, k)) - 1]
    BY <1>2, CutGoesOn
  <2> QED
    BY <2>1, Zenon DEF CutStep
<1> QED
  BY <1>1, <1>2

\* There is such a function: from the end on, a position at a time.
LEMMA CutExists ==
  ASSUME NEW s \in Seq(Bytes)
  PROVE  \E f : IsCut(s, f)
<1>1. PICK n \in Nat : n = Len(s)
  BY LenProperties
<1> DEFINE
  From2(m) == {k \in 1..n + 1 : k + m >= n + 1}
  Done(f, m) == /\ f = [k \in 1..n + 1 |-> f[k]]
                /\ \A k \in From2(m) : f[k] = CutStep(s, f, k)
  S == {m \in Nat : \E f : Done(f, m)}
<1>2. 0 \in S
  <2>1. PICK e : e = CutStep(s, <<>>, n + 1)
    OBVIOUS
  <2>2. PICK f : f = [k \in 1..n + 1 |-> e]
    OBVIOUS
  <2>3. ASSUME NEW k \in From2(0) PROVE f[k] = CutStep(s, f, k)
    <3>1. k = n + 1 /\ k \in 1..n + 1
      OBVIOUS
    <3>2. \A j \in k + 1..Len(s) + 1 : f[j] = <<>>[j]
      BY <1>1, <3>1
    <3>3. CutStep(s, f, k) = CutStep(s, <<>>, k)
      BY <1>1, <3>1, <3>2, CutAlike
    <3> QED
      BY <2>1, <2>2, <3>1, <3>3
  <2>4. f = [k \in 1..n + 1 |-> f[k]]
    BY <2>2
  <2> QED
    BY <2>3, <2>4
<1>3. ASSUME NEW m \in Nat, m \in S PROVE m + 1 \in S
  <2>1. PICK f : Done(f, m)
    BY <1>3
  <2>2. CASE m >= n
    <3>1. From2(m + 1) \subseteq From2(m)
      BY <2>2
    <3>2. Done(f, m + 1)
      BY <2>1, <3>1
    <3> QED
      BY <3>2
  <2>3. CASE m < n
    <3>1. PICK p \in 1..n : p = n - m
      BY <2>3
    <3>2. PICK g : g = [k \in 1..n + 1 |-> IF k = p THEN CutStep(s, f, p) ELSE f[k]]
      OBVIOUS
    <3>3. \A k \in 1..n + 1 : k # p => g[k] = f[k]
      BY <3>2
    <3>4. g[p] = CutStep(s, f, p)
      BY <3>1, <3>2
    <3>5. ASSUME NEW k \in From2(m + 1) PROVE g[k] = CutStep(s, g, k)
      <4>1. k \in 1..n + 1 /\ k >= p /\ k \in Nat /\ p \in Nat
        BY <3>1
      <4>2. \A j \in k + 1..Len(s) + 1 : g[j] = f[j]
        <5>1. ASSUME NEW j \in k + 1..n + 1 PROVE j \in 1..n + 1 /\ j # p
          BY <4>1
        <5> QED
          BY <1>1, <3>3, <5>1
      <4>3. CutStep(s, g, k) = CutStep(s, f, k)
        BY <1>1, <4>1, <4>2, CutAlike
      <4>4. CASE k = p
        BY <3>4, <4>3, <4>4
      <4>5. CASE k # p
        <5>1. k \in From2(m)
          BY <3>1, <4>1, <4>5
        <5>2. f[k] = CutStep(s, f, k)
          BY <2>1, <5>1
        <5> QED
          BY <3>3, <4>1, <4>3, <4>5, <5>2
      <4> QED
        BY <4>4, <4>5
    <3>6. g = [k \in 1..n + 1 |-> g[k]]
      BY <3>2
    <3> QED
      BY <3>5, <3>6
  <2> QED
    BY <2>2, <2>3
<1>4. n \in S
  <2> HIDE DEF S
  <2> QED
    BY <1>2, <1>3, Induct
<1>5. PICK f : Done(f, n)
  BY <1>4
<1>6. \A k \in 1..n + 1 : f[k] = CutStep(s, f, k)
  <2>1. \A k \in 1..n + 1 : k \in From2(n)
    OBVIOUS
  <2> QED
    BY <1>5, <2>1
<1>7. f = [k \in 1..Len(s) + 1 |-> CutStep(s, f, k)]
  <2>1. f = [k \in 1..n + 1 |-> f[k]]
    BY <1>5
  <2> QED
    BY <1>1, <1>6, <2>1, Zenon
<1> QED
  BY <1>7 DEF IsCut

\* What a handler may take for granted of a message's parameters: all but the last
\* are words.
AsCut(ps) ==
  /\ ps \in Seq(Seq(Bytes))
  /\ \A k \in 1..Len(ps) - 1 : ps[k] \in Seq(Dark) /\ ps[k] # <<>>

LEMMA AllAsCut == AsCut(<<>>) /\ \A x \in Seq(Bytes) : AsCut(<<x>>)
  BY DEF AsCut

LEMMA DarkAreBytes == Seq(Dark) \subseteq Seq(Bytes)
<1>1. ASSUME NEW s \in Seq(Dark) PROVE s \in Seq(Bytes)
  <2>1. \A i \in 1..Len(s) : s[i] \in Bytes
    BY ElementOfSeq DEF Dark
  <2>2. s = [i \in 1..Len(s) |-> s[i]] /\ Len(s) \in Nat
    BY LenProperties
  <2> QED
    BY <2>1, <2>2, SeqDef
<1> QED
  BY <1>1

LEMMA OneMore ==
  ASSUME NEW x \in Seq(Dark), x # <<>>, NEW ps, AsCut(ps)
  PROVE  AsCut(<<x>> \o ps)
<1>1. PICK n \in Nat : n = Len(ps)
  BY LenProperties DEF AsCut
<1>2. PICK qs : qs = <<x>> \o ps
  OBVIOUS
<1>3. PICK one : one = <<x>>
  OBVIOUS
<1>4. x \in Seq(Bytes) /\ ps \in Seq(Seq(Bytes))
  BY DarkAreBytes DEF AsCut
<1>5. one \in Seq(Seq(Bytes)) /\ Len(one) = 1 /\ one[1] = x
  BY <1>3, <1>4
<1>6. /\ qs \in Seq(Seq(Bytes)) /\ Len(qs) = 1 + n
      /\ \A i \in 1..1 + n : qs[i] = IF i <= 1 THEN one[i] ELSE ps[i - 1]
  BY <1>1, <1>2, <1>3, <1>4, <1>5, ConcatProperties
<1>7. ASSUME NEW k \in 1..Len(qs) - 1 PROVE qs[k] \in Seq(Dark) /\ qs[k] # <<>>
  <2>1. k \in 1..n /\ k \in 1..1 + n
    BY <1>6
  <2>2. CASE k = 1
    <3>1. qs[k] = x
      BY <1>5, <1>6, <2>1, <2>2
    <3> QED
      BY <3>1
  <2>3. CASE k # 1
    <3>1. qs[k] = ps[k - 1] /\ k - 1 \in 1..Len(ps) - 1
      BY <1>1, <1>6, <2>1, <2>3
    <3> QED
      BY <3>1 DEF AsCut
  <2> QED
    BY <2>2, <2>3
<1> QED
  BY <1>2, <1>6, <1>7 DEF AsCut

LEMMA CutStepAsCut ==
  ASSUME NEW s \in Seq(Bytes), NEW k \in 1..Len(s) + 1, NEW f,
         \A j \in k + 1..Len(s) + 1 : AsCut(f[j])
  PROVE  AsCut(CutStep(s, f, k))
<1>1. PICK r : r = From(s, k)
  OBVIOUS
<1>2. CASE Token(r) = <<>>
  <2>1. CutStep(s, f, k) = <<>>
    BY <1>1, <1>2 DEF CutStep
  <2> QED
    BY <2>1, AllAsCut
<1>3. CASE Token(r) # <<>>
  <2>1. PICK next \in k + 1..Len(s) + 1 : next = k + TokenEnd(r) - 1
    BY <1>1, <1>3, CutGoesOn
  <2>2. Token(r) \in Seq(Dark) /\ AfterToken(r) \in Seq(Bytes)
    BY <1>1, <1>3, CutGoesOn
  <2>3. CASE IsTrailing(Token(r))
    <3>1. CutStep(s, f, k) = <<Tail(Token(r)) \o Getline(AfterToken(r))>>
      BY <1>1, <1>3, <2>3 DEF CutStep
    <3>2. Tail(Token(r)) \in Seq(Bytes)
      BY <1>3, <2>2, DarkAreBytes, HeadTailProperties
    <3>3. Tail(Token(r)) \o Getline(AfterToken(r)) \in Seq(Bytes)
      BY <2>2, <3>2, GetlineIs, ConcatProperties
    <3> QED
      BY <3>1, <3>3, AllAsCut
  <2>4. CASE ~IsTrailing(Token(r))
    <3>1. CutStep(s, f, k) = <<Token(r)>> \o f[next]
      BY <1>1, <1>3, <2>1, <2>4 DEF CutStep
    <3>2. AsCut(f[next])
      BY <2>1
    <3> QED
      BY <1>3, <2>2, <3>1, <3>2, OneMore
  <2> QED
    BY <2>3, <2>4
<1> QED
  BY <1>2, <1>3

LEMMA ParametersAsCut ==
  ASSUME NEW s \in Seq(Bytes)
  PROVE  AsCut(Parameters(s))
<1>1. PICK n \in Nat : n = Len(s)
  BY LenProperties
<1>2. PICK f : f = (CHOOSE g : IsCut(s, g))
  OBVIOUS
<1>3. IsCut(s, f)
  BY <1>2, CutExists
<1>4. \A k \in 1..n + 1 : f[k] = CutStep(s, f, k)
  BY <1>1, <1>3 DEF IsCut
<1> DEFINE
  From2(m) == {k \in 1..n + 1 : k + m >= n + 1}
  S == {m \in Nat : \A k \in From2(m) : AsCut(f[k])}
<1>5. ASSUME NEW k \in 1..n + 1, \A j \in k + 1..n + 1 : AsCut(f[j])
      PROVE AsCut(f[k])
  BY <1>1, <1>4, <1>5, CutStepAsCut
<1>6. 0 \in S
  <2>1. ASSUME NEW k \in From2(0) PROVE AsCut(f[k])
    <3>1. k \in 1..n + 1 /\ \A j \in k + 1..n + 1 : FALSE
      OBVIOUS
    <3> QED
      BY <1>5, <3>1
  <2> QED
    BY <2>1
<1>7. ASSUME NEW m \in Nat, m \in S PROVE m + 1 \in S
  <2>1. ASSUME NEW k \in From2(m + 1) PROVE AsCut(f[k])
    <3>1. k \in 1..n + 1 /\ \A j \in k + 1..n + 1 : j \in From2(m)
      OBVIOUS
    <3>2. \A j \in k + 1..n + 1 : AsCut(f[j])
      BY <1>7, <3>1
    <3> QED
      BY <1>5, <3>1, <3>2
  <2> QED
    BY <2>1
<1>8. n \in S
  <2> HIDE DEF S
  <2> QED
    BY <1>6, <1>7, Induct
<1>9. AsCut(f[1])
  <2>1. 1 \in From2(n)
    OBVIOUS
  <2> QED
    BY <1>8, <2>1
<1> QED
  BY <1>2, <1>9, ParametersAreCut

\* The message parse leaves behind, whatever the line.
MessageIs(m) ==
  /\ m.command \in Seq(Dark) /\ m.prefix \in Seq(Dark) /\ AsCut(m.params)
  /\ m.command # <<>> => m.params # <<>>

LEMMA NoMessageIs == MessageIs(NoMessage)
<1>1. /\ NoMessage.command = <<>> /\ NoMessage.prefix = <<>> /\ NoMessage.params = <<>>
      /\ <<>> \in Seq(Dark)
  BY DEF NoMessage
<1> QED
  BY <1>1, AllAsCut DEF MessageIs

\* What parse reads a command from: the line without its ends and its prefix.
Body(line) ==
  IF IsTrailing(Token(Chomp(line))) THEN AfterToken(Chomp(line)) ELSE Chomp(line)

LEMMA BodyIs ==
  ASSUME NEW line \in Seq(Bytes)
  PROVE  /\ Chomp(line) \in Seq(Bytes) /\ Token(Chomp(line)) \in Seq(Dark)
         /\ Body(line) \in Seq(Bytes)
         /\ Token(Body(line)) \in Seq(Dark) /\ AfterToken(Body(line)) \in Seq(Bytes)
<1>1. ASSUME NEW s \in Seq(Bytes) PROVE Token(s) \in Seq(Dark) /\ AfterToken(s) \in Seq(Bytes)
  <2>1. PICK a, e \in Nat : Cutting(s, a, e)
    BY TokenCut
  <2>2. a \in 1..Len(s) + 1 /\ e \in a..Len(s) + 1 /\ Len(s) \in Nat
    BY <2>1, LenProperties DEF Cutting
  <2>3. e \in Nat \ {0} /\ e <= Len(s) + 1
    BY <2>2
  <2> QED
    BY <2>1, <2>3, TokenIs, FromIs
<1>2. Chomp(line) \in Seq(Bytes)
  BY ChompIs
<1>3. Body(line) \in Seq(Bytes)
  BY <1>1, <1>2 DEF Body
<1> QED
  BY <1>1, <1>2, <1>3

LEMMA ParsedIs ==
  ASSUME NEW line \in Seq(Bytes), NEW old
  PROVE  /\ MessageIs(Parsed(line, old))
         /\ Parsed(line, old).command # <<>> <=> Token(Body(line)) # <<>>
<1>1. PICK c : c = Chomp(line)
  OBVIOUS
<1>2. PICK body : body = Body(line)
  OBVIOUS
<1>3. PICK prefix : prefix = IF IsTrailing(Token(c)) THEN Tail(Token(c)) ELSE <<>>
  OBVIOUS
<1>4. PICK params : params = ParametersOf(SkipBlanks(Getline(AfterToken(body))))
  OBVIOUS
<1>5. Parsed(line, old) = IF Token(body) = <<>> THEN NoMessage
        ELSE [prefix |-> prefix, command |-> Token(body), params |-> params]
  BY <1>1, <1>2, <1>3, <1>4, Zenon DEF Parsed, Body
<1>6. Token(c) \in Seq(Dark) /\ Token(body) \in Seq(Dark) /\ AfterToken(body) \in Seq(Bytes)
  BY <1>1, <1>2, BodyIs
<1>7. prefix \in Seq(Dark)
  <2>1. CASE IsTrailing(Token(c))
    <3>1. Token(c) # <<>> /\ prefix = Tail(Token(c))
      BY <1>3, <2>1 DEF IsTrailing
    <3> QED
      BY <1>6, <3>1, HeadTailProperties
  <2>2. CASE ~IsTrailing(Token(c))
    BY <1>3, <2>2
  <2> QED
    BY <2>1, <2>2
<1>8. AsCut(params) /\ params # <<>>
  <2>1. PICK s \in Seq(Bytes) : s = SkipBlanks(Getline(AfterToken(body)))
    BY <1>6, GetlineIs, SkipBlanksIs
  <2>2. AsCut(Parameters(s))
    BY ParametersAsCut
  <2>3. params = IF Parameters(s) = <<>> THEN <<(<<>>)>> ELSE Parameters(s)
    BY <1>4, <2>1 DEF ParametersOf
  <2>4. AsCut(<<(<<>>)>>) /\ <<(<<>>)>> # <<>>
    <3>1. PICK x \in Seq(Bytes) : x = <<>>
      BY EmptySeq
    <3>2. AsCut(<<x>>) /\ <<x>> # <<>>
      BY AllAsCut
    <3> QED
      BY <3>1, <3>2
  <2> QED
    BY <2>2, <2>3, <2>4
<1>9. CASE Token(body) = <<>>
  <2>1. Parsed(line, old) = NoMessage /\ NoMessage.command = <<>>
    BY <1>5, <1>9 DEF NoMessage
  <2> QED
    BY <1>2, <1>9, <2>1, NoMessageIs
<1>10. CASE Token(body) # <<>>
  <2>1. PICK m : m = [prefix |-> prefix, command |-> Token(body), params |-> params]
    OBVIOUS
  <2>2. m.prefix = prefix /\ m.command = Token(body) /\ m.params = params
    BY <2>1
  <2>3. Parsed(line, old) = m
    BY <1>5, <1>10, <2>1
  <2>4. MessageIs(m)
    BY <1>6, <1>7, <1>8, <2>2 DEF MessageIs
  <2> QED
    BY <1>2, <1>10, <2>2, <2>3, <2>4
<1> QED
  BY <1>9, <1>10

LEMMA WordsFinite ==
  ASSUME NEW s \in Seq(Bytes)
  PROVE  IsFiniteSet(Words(s)) /\ Words(s) \subseteq 1..Len(s) /\ Cardinality(Words(s)) \in Nat
<1>1. Len(s) \in Nat /\ Words(s) \subseteq 1..Len(s)
  BY LenProperties DEF Words
<1>2. IsFiniteSet(1..Len(s))
  BY <1>1, FS_Interval
<1> QED
  BY <1>1, <1>2, FS_Subset, FS_CardinalityType

\* The ends that a line ends with hold no word.
LEMMA WordsOfChomp ==
  ASSUME NEW s \in Seq(Bytes)
  PROVE  Words(s) = Words(Chomp(s)) /\ (HasPrefix(s) <=> HasPrefix(Chomp(s)))
<1>1. PICK n \in Nat : /\ n <= Len(s) /\ Len(Chomp(s)) = n
                       /\ \A i \in 1..n : Chomp(s)[i] = s[i]
                       /\ \A k \in n + 1..Len(s) : s[k] \in {CR, LF}
  BY ChompIs
<1>2. PICK c : c = Chomp(s)
  OBVIOUS
<1>3. PICK m \in Nat : m = Len(s)
  BY LenProperties
<1>4. ASSUME NEW k \in 1..m, s[k] \notin White PROVE k \in 1..n
  <2>1. ~(k \in n + 1..m)
    BY <1>1, <1>3, <1>4 DEF White
  <2> QED
    BY <2>1
<1>5. ASSUME NEW k \in 1..n
      PROVE  /\ k \in 1..m /\ c[k] = s[k] /\ (k # 1 => c[k - 1] = s[k - 1])
  <2>1. k # 1 => k - 1 \in 1..n
    OBVIOUS
  <2> QED
    BY <1>1, <1>2, <1>3, <2>1
<1>6. ASSUME NEW k PROVE k \in Words(s) <=> k \in Words(c)
  <2>1. k \in Words(s) <=> k \in 1..m /\ s[k] \notin White /\ (k = 1 \/ s[k - 1] \in White)
    BY <1>3 DEF Words
  <2>2. k \in Words(c) <=> k \in 1..n /\ c[k] \notin White /\ (k = 1 \/ c[k - 1] \in White)
    BY <1>1, <1>2 DEF Words
  <2> QED
    BY <1>4, <1>5, <2>1, <2>2
<1>7. Words(s) = Words(c)
  BY <1>6
<1>8. \A k \in Words(c) : c[k] = s[k]
  <2>1. Words(c) \subseteq 1..n
    BY <1>1, <1>2 DEF Words
  <2> QED
    BY <1>5, <2>1
<1> QED
  BY <1>2, <1>7, <1>8 DEF HasPrefix

\* The first token begins at the first word.
LEMMA FirstWord ==
  ASSUME NEW c \in Seq(Bytes), NEW a \in Nat, NEW e \in Nat, Cutting(c, a, e)
  PROVE  /\ Words(c) = {} <=> a = Len(c) + 1
         /\ Words(c) # {} => a \in Words(c)
         /\ \A k \in Words(c) : a <= k
<1>1. PICK n \in Nat : n = Len(c)
  BY LenProperties
<1>2. /\ a \in 1..n + 1 /\ e \in a..n + 1
      /\ \A k \in 1..a - 1 : c[k] \in White
      /\ \A k \in a..e - 1 : c[k] \notin White
      /\ a <= n => a < e
  BY <1>1 DEF Cutting
<1>3. ASSUME NEW k \in Words(c) PROVE k \in 1..n /\ a <= k
  <2>1. k \in 1..n /\ c[k] \notin White
    BY <1>1 DEF Words
  <2>2. ~(k \in 1..a - 1)
    BY <1>2, <2>1
  <2> QED
    BY <1>2, <2>1, <2>2
<1>4. ASSUME a <= n PROVE a \in Words(c)
  <2>1. a \in 1..n /\ a \in a..e - 1
    BY <1>2, <1>4
  <2>2. a # 1 => a - 1 \in 1..a - 1
    BY <1>2
  <2>3. c[a] \notin White /\ (a = 1 \/ c[a - 1] \in White)
    BY <1>2, <2>1, <2>2
  <2> QED
    BY <1>1, <2>1, <2>3 DEF Words
<1>5. a = n + 1 => Words(c) = {}
  <2>1. ASSUME a = n + 1, NEW k \in Words(c) PROVE FALSE
    BY <1>3, <2>1
  <2> QED
    BY <2>1
<1>6. a = n + 1 \/ a <= n
  BY <1>2
<1> QED
  BY <1>1, <1>3, <1>4, <1>5, <1>6

\* A prefix is a first token that begins with a colon.
LEMMA PrefixIs ==
  ASSUME NEW c \in Seq(Bytes)
  PROVE  IsTrailing(Token(c)) <=> HasPrefix(c)
<1>1. PICK a, e \in Nat : Cutting(c, a, e)
  BY TokenCut
<1>2. Words(c) \subseteq Nat
  BY WordsFinite
<1>3. /\ Token(c) = <<>> <=> Words(c) = {}
      /\ Token(c) # <<>> => Head(Token(c)) = c[a]
      /\ Words(c) # {} => a \in Words(c)
      /\ \A k \in Words(c) : a <= k
  BY <1>1, FirstWord, TokenIs
<1>4. ASSUME NEW k \in Words(c), \A j \in Words(c) : k <= j PROVE k = a
  <2>1. a \in Words(c) /\ k <= a /\ a <= k /\ k \in Nat
    BY <1>2, <1>3, <1>4
  <2> QED
    BY <2>1
<1>5. CASE IsTrailing(Token(c))
  <2>1. a \in Words(c) /\ c[a] = Colon
    BY <1>3, <1>5 DEF IsTrailing
  <2> QED
    BY <1>3, <1>5, <2>1 DEF HasPrefix
<1>6. CASE HasPrefix(c)
  <2>1. PICK k \in Words(c) : c[k] = Colon /\ \A j \in Words(c) : k <= j
    BY <1>6 DEF HasPrefix
  <2>2. k = a
    BY <1>4, <2>1
  <2> QED
    BY <1>3, <1>6, <2>1, <2>2 DEF IsTrailing
<1> QED
  BY <1>5, <1>6

\* Beyond its first token a line has a token exactly when it has another word.
LEMMA AnotherWord ==
  ASSUME NEW c \in Seq(Bytes), Token(c) # <<>>
  PROVE  Token(AfterToken(c)) # <<>> <=> Cardinality(Words(c)) > 1
<1>1. PICK a, e \in Nat : Cutting(c, a, e)
  BY TokenCut
<1>2. PICK n \in Nat : n = Len(c)
  BY LenProperties
<1>3. /\ a \in 1..n + 1 /\ e \in a..n + 1
      /\ \A k \in a..e - 1 : c[k] \notin White
      /\ e <= n => c[e] \in White
  BY <1>1, <1>2 DEF Cutting
<1>4. a \in Words(c) /\ \A k \in Words(c) : a <= k
  BY <1>1, FirstWord, TokenIs
<1>5. a < e
  <2>1. a <= n => a < e
    BY <1>1, <1>2 DEF Cutting
  <2>2. a \in 1..n
    BY <1>2, <1>4, WordsFinite
  <2> QED
    BY <2>1, <2>2
<1>6. PICK r : r = AfterToken(c)
  OBVIOUS
<1>7. /\ r \in Seq(Bytes) /\ Len(r) = n - e + 1
      /\ \A i \in 1..n - e + 1 : r[i] = c[e + i - 1]
  <2>1. e \in Nat \ {0} /\ e <= Len(c) + 1
    BY <1>2, <1>3
  <2>2. r = From(c, e)
    BY <1>1, <1>6, TokenIs
  <2> QED
    BY <1>2, <2>1, <2>2, FromIs
<1>8. PICK a2, e2 \in Nat : Cutting(r, a2, e2)
  BY <1>7, TokenCut
<1>9. /\ a2 \in 1..n - e + 2
      /\ \A i \in 1..a2 - 1 : r[i] \in White
      /\ Token(r) = <<>> <=> a2 = n - e + 2
  <2>1. Len(r) + 1 = n - e + 2
    BY <1>3, <1>7
  <2>2. Token(r) = <<>> <=> a2 = Len(r) + 1
    BY <1>7, <1>8, TokenIs
  <2> QED
    BY <1>8, <2>1, <2>2 DEF Cutting
<1>10. ASSUME Token(r) # <<>> PROVE \E k \in Words(c) : k # a
  <2>1. a2 \in 1..n - e + 1 /\ a2 \in Words(r)
    <3>1. a2 \in 1..n - e + 1
      BY <1>3, <1>9, <1>10
    <3>2. a2 \in Words(r)
      BY <1>7, <1>8, <1>10, FirstWord, TokenIs
    <3> QED
      BY <3>1, <3>2
  <2>2. PICK k \in 1..n : k = e + a2 - 1
    BY <1>3, <2>1
  <2>3. c[k] = r[a2] /\ r[a2] \notin White
    BY <1>7, <2>1, <2>2 DEF Words
  <2>4. a2 # 1
    <3>1. a2 = 1 => k = e /\ e <= n
      BY <1>3, <2>2
    <3> QED
      BY <1>3, <2>3, <3>1
  <2>5. a2 - 1 \in 1..n - e + 1 /\ a2 - 1 \in 1..a2 - 1 /\ e + (a2 - 1) - 1 = k - 1
    BY <1>3, <2>1, <2>2, <2>4
  <2>6. c[k - 1] = r[a2 - 1] /\ r[a2 - 1] \in White
    <3>1. r[a2 - 1] = c[e + (a2 - 1) - 1]
      BY <1>7, <2>5
    <3> QED
      BY <1>9, <2>5, <3>1
  <2>7. k \in Words(c)
    BY <1>2, <2>3, <2>6 DEF Words
  <2>8. k # a
    BY <1>5, <2>1, <2>2, <1>3
  <2> QED
    BY <2>7, <2>8
<1>11. ASSUME NEW k \in Words(c), k # a PROVE Token(r) # <<>>
  <2>1. /\ k \in 1..n /\ a <= k /\ c[k] \notin White /\ (k = 1 \/ c[k - 1] \in White)
    BY <1>2, <1>4, WordsFinite DEF Words
  <2>2. k >= e
    <3>1. ~(k - 1 \in a..e - 1)
      <4>1. k # 1
        BY <1>3, <1>11, <2>1
      <4> QED
        BY <1>3, <2>1, <4>1
    <3> QED
      BY <1>3, <1>11, <2>1, <3>1
  <2>3. PICK i \in 1..n - e + 1 : i = k - e + 1
    BY <1>3, <2>1, <2>2
  <2>4. r[i] = c[k]
    <3>1. e + i - 1 = k
      BY <1>3, <2>1, <2>3
    <3> QED
      BY <1>7, <3>1
  <2>5. ~(i \in 1..a2 - 1)
    BY <1>9, <2>1, <2>4
  <2>6. a2 # n - e + 2
    BY <1>3, <2>3, <2>5
  <2> QED
    BY <1>9, <2>6
<1>12. PICK W : W = Words(c)
  OBVIOUS
<1>13. IsFiniteSet(W) /\ Cardinality(W) \in Nat
  BY <1>12, WordsFinite
<1>14. IsFiniteSet(W \ {a}) /\ Cardinality(W \ {a}) = Cardinality(W) - 1
  BY <1>4, <1>12, <1>13, FS_RemoveElement
<1>15. Cardinality(W \ {a}) = 0 <=> W \ {a} = {}
  BY <1>14, FS_EmptySet
<1>16. Cardinality(W \ {a}) \in Nat
  BY <1>14, FS_CardinalityType
<1>17. Cardinality(W) > 1 <=> W \ {a} # {}
  BY <1>13, <1>14, <1>15, <1>16
<1>18. W \ {a} # {} <=> Token(r) # <<>>
  BY <1>10, <1>11, <1>12
<1> QED
  BY <1>6, <1>12, <1>17, <1>18

\* A line has a command exactly when it has a word besides its prefix.
HasCommand(line) == Cardinality(Words(line)) > (IF HasPrefix(line) THEN 1 ELSE 0)

LEMMA CommandOfLine ==
  ASSUME NEW line \in Seq(Bytes), NEW old
  PROVE  Parsed(line, old).command # <<>> <=> HasCommand(line)
<1>1. PICK c \in Seq(Bytes) : c = Chomp(line)
  BY BodyIs
<1>2. Words(line) = Words(c) /\ (HasPrefix(line) <=> HasPrefix(c))
  BY <1>1, WordsOfChomp
<1>3. Parsed(line, old).command # <<>> <=> Token(Body(line)) # <<>>
  BY ParsedIs
<1>4. HasPrefix(c) <=> IsTrailing(Token(c))
  BY PrefixIs
<1>5. CASE IsTrailing(Token(c))
  <2>1. Token(c) # <<>> /\ Body(line) = AfterToken(c)
    BY <1>1, <1>5 DEF IsTrailing, Body
  <2>2. Token(AfterToken(c)) # <<>> <=> Cardinality(Words(c)) > 1
    BY <2>1, AnotherWord
  <2>3. HasCommand(line) <=> Cardinality(Words(c)) > 1
    BY <1>2, <1>4, <1>5 DEF HasCommand
  <2> QED
    BY <1>3, <2>1, <2>2, <2>3
<1>6. CASE ~IsTrailing(Token(c))
  <2>1. Body(line) = c
    BY <1>1, <1>6 DEF Body
  <2>2. Token(c) # <<>> <=> Words(c) # {}
    <3>1. PICK a, e \in Nat : Cutting(c, a, e)
      BY TokenCut
    <3> QED
      BY <3>1, FirstWord, TokenIs
  <2>3. Cardinality(Words(c)) > 0 <=> Words(c) # {}
    BY WordsFinite, FS_EmptySet
  <2>4. HasCommand(line) <=> Cardinality(Words(c)) > 0
    BY <1>2, <1>4, <1>6 DEF HasCommand
  <2> QED
    BY <1>3, <2>1, <2>2, <2>3, <2>4
<1> QED
  BY <1>5, <1>6

-----------------------------------------------------------------------------
(* The message the Client keeps.                                             *)

MsgInv ==
  /\ pieces \in 0..MaxPieces
  /\ edge \in BOOLEAN /\ full \in BOOLEAN /\ reading \in BOOLEAN
  /\ MessageIs(msg)
  /\ heard # <<>> => (msg.command # <<>> <=> HasCommand(Last(heard)))

LEMMA MsgInit == Init => MsgInv
<1> SUFFICES ASSUME Init PROVE MsgInv
  OBVIOUS
<1>1. /\ pieces = 0 /\ edge = FALSE /\ full = FALSE /\ reading = FALSE
      /\ heard = <<>> /\ msg = NoMessage
  BY DEF Init
<1>2. pieces \in 0..MaxPieces
  BY <1>1, InputAssumption
<1>3. edge \in BOOLEAN /\ full \in BOOLEAN /\ reading \in BOOLEAN
  BY <1>1
<1>4. MessageIs(msg)
  BY <1>1, NoMessageIs
<1> QED
  BY <1>1, <1>2, <1>3, <1>4, Zenon DEF MsgInv

\* The message of the line extracted.
LEMMA ExtractMsg ==
  ASSUME StreamInv, MsgInv, Extract
  PROVE  MsgInv'
<1>1. readBuff \in Seq(Bytes) /\ Len(readBuff) \in Nat /\ heard \in Seq(Seq(Bytes))
  BY Buffer, LenProperties DEF StreamInv
<1>2. PICK end : end = Min(LineEnds)
  OBVIOUS
<1>3. end \in 1..Len(readBuff) - 1
  <2>1. LineEnds \in SUBSET Nat /\ LineEnds \subseteq 1..Len(readBuff) - 1
    BY <1>1 DEF LineEnds
  <2>2. LineEnds # {}
    BY DEF Extract
  <2> QED
    BY <1>2, <2>1, <2>2, MinIs
<1>4. PICK line : line = SubSeq(readBuff, 1, end - 1)
  OBVIOUS
<1>5. line \in Seq(Bytes)
  <2>1. 1 \in Nat \ {0} /\ end - 1 \in Nat /\ end - 1 <= Len(readBuff) /\ 1 <= (end - 1) + 1
    BY <1>1, <1>3
  <2> QED
    BY <1>1, <1>4, <2>1, Part
<1>6. /\ heard' = Append(heard, line) /\ msg' = Parsed(line, msg)
      /\ UNCHANGED <<pieces, edge, full, reading>>
  BY <1>2, <1>4 DEF Extract
<1>7. Last(heard') = line
  <2>1. Len(heard') = Len(heard) + 1 /\ heard'[Len(heard) + 1] = line
    BY <1>1, <1>5, <1>6, AppendProperties
  <2> QED
    BY <2>1 DEF Last
<1>8. MessageIs(msg')
  BY <1>5, <1>6, ParsedIs
<1>9. msg'.command # <<>> <=> HasCommand(line)
  BY <1>5, <1>6, CommandOfLine
<1>10. HasCommand(Last(heard)') <=> HasCommand(line)
  BY <1>7
<1>11. MessageIs(msg)'
  BY <1>8
<1> QED
  BY <1>6, <1>7, <1>9, <1>11 DEF MsgInv

LEMMA MsgStep ==
  ASSUME StreamInv, MsgInv, [Next]_vars
  PROVE  MsgInv'
<1>1. CASE UNCHANGED vars
  BY <1>1 DEF vars, MsgInv
<1>2. ASSUME NEW p \in Pieces, Send(p) PROVE MsgInv'
  BY <1>2, InputAssumption DEF Send, MsgInv
<1>3. CASE Recv
  <2>1. full' \in BOOLEAN
    BY <1>3, Zenon DEF Recv
  <2>2. edge' = FALSE /\ reading' = TRUE /\ UNCHANGED <<pieces, msg, heard>>
    BY <1>3 DEF Recv
  <2> QED
    BY <2>1, <2>2 DEF MsgInv
<1>4. CASE Return
  BY <1>4 DEF Return, MsgInv
<1> QED
  BY <1>1, <1>2, <1>3, <1>4, ExtractMsg DEF Next

LEMMA MsgAlways == Spec => [](StreamInv /\ MsgInv)
<1>1. Init => StreamInv /\ RestInv /\ MsgInv
  BY StreamInit, MsgInit
<1>2. StreamInv /\ RestInv /\ MsgInv /\ [Next]_vars => StreamInv' /\ RestInv' /\ MsgInv'
  BY StreamStep, MsgStep
<1> QED
  BY <1>1, <1>2, PTL DEF Spec

\* The buffers keep bytes of the peer, and the message words of it.
THEOREM InputTypeCorrect == Spec => []TypeOK
<1>1. StreamInv /\ MsgInv => TypeOK
  <2> SUFFICES ASSUME StreamInv, MsgInv PROVE TypeOK
    OBVIOUS
  <2>1. readBuff \in Seq(Bytes)
    BY Buffer DEF StreamInv
  <2>2. msg.command \in Seq(Bytes \ White) /\ msg.prefix \in Seq(Bytes \ White)
    BY DEF MsgInv, MessageIs, Dark
  <2>3. msg.params \in Seq(Seq(Bytes))
    BY DEF MsgInv, MessageIs, AsCut
  <2> QED
    BY <2>1, <2>2, <2>3 DEF TypeOK, StreamInv, MsgInv
<1> QED
  BY <1>1, MsgAlways, PTL

\* A handler is given a command of the line just heard, never of the one before, with at
\* least one parameter and white space only in the last.
THEOREM CommandsAreTheirs == Spec => []CommandsAreOfTheirLine
<1>1. MsgInv => CommandsAreOfTheirLine
  <2> SUFFICES ASSUME MsgInv PROVE CommandsAreOfTheirLine
    OBVIOUS
  <2>1. ASSUME NEW k \in 1..Len(msg.params) - 1
        PROVE  msg.params[k] # <<>> /\ ToSet(msg.params[k]) \cap White = {}
    <3>1. PICK p : p = msg.params[k]
      OBVIOUS
    <3>2. p \in Seq(Dark) /\ p # <<>>
      BY <3>1 DEF MsgInv, MessageIs, AsCut
    <3>3. ToSet(p) \subseteq Dark
      <4>1. \A i \in DOMAIN p : p[i] \in Dark
        BY <3>2, ElementOfSeq, LenProperties
      <4> QED
        BY <4>1 DEF ToSet
    <3> QED
      BY <3>1, <3>2, <3>3 DEF Dark
  <2> QED
    BY <2>1 DEF CommandsAreOfTheirLine, MsgInv, MessageIs, HasCommand
<1> QED
  BY <1>1, MsgAlways, PTL

-----------------------------------------------------------------------------
(* What toRawString writes is cut as it was.                                 *)

LEMMA SomeBytes ==
  /\ {CR, LF, Blank, Colon} \subseteq Bytes
  /\ Blank \in White /\ Colon \in Dark /\ Blank \notin {CR, LF, Colon} /\ CR # LF
  /\ Colon \notin {CR, LF}
  /\ \A x \in Bytes : <<x>> \in Seq(Bytes) /\ Len(<<x>>) = 1 /\ <<x>>[1] = x
<1>1. {CR, LF, Blank, Colon} \subseteq Bytes
  BY DEF Bytes
<1>2. CR # LF /\ Blank # Colon /\ Blank \notin {CR, LF} /\ Colon \notin {CR, LF}
  BY InputAssumption
<1>3. Blank \in White /\ Colon \in Dark
  BY <1>1, <1>2 DEF White, Dark
<1>4. ASSUME NEW x \in Bytes PROVE <<x>> \in Seq(Bytes) /\ Len(<<x>>) = 1 /\ <<x>>[1] = x
  OBVIOUS
<1> QED
  BY <1>1, <1>2, <1>3, <1>4

\* Nothing but white space; what ends the word before it.
Whites(z) == \A i \in 1..Len(z) : z[i] \in White
EndsWord(r) == r = <<>> \/ r[1] \in White

\* A word between white space and what follows it.
LEMMA TokenOfJoin ==
  ASSUME NEW z \in Seq(Bytes), Whites(z),
         NEW w \in Seq(Dark), w # <<>>,
         NEW r \in Seq(Bytes), EndsWord(r)
  PROVE  Token(z \o (w \o r)) = w /\ AfterToken(z \o (w \o r)) = r
<1> SUFFICES ASSUME NEW s, s = z \o (w \o r)
             PROVE  Token(s) = w /\ AfterToken(s) = r
  OBVIOUS
<1>1. PICK p \in Nat, n \in Nat \ {0}, q \in Nat : p = Len(z) /\ n = Len(w) /\ q = Len(r)
  BY LenProperties, EmptySeq
<1>2. w \in Seq(Bytes)
  BY DarkAreBytes
<1>3. PICK u : u = w \o r
  OBVIOUS
<1>4. /\ u \in Seq(Bytes) /\ Len(u) = n + q
      /\ \A i \in 1..n + q : u[i] = IF i <= n THEN w[i] ELSE r[i - n]
  BY <1>1, <1>2, <1>3, ConcatProperties
<1>5. /\ s \in Seq(Bytes) /\ Len(s) = p + (n + q)
      /\ \A i \in 1..p + (n + q) : s[i] = IF i <= p THEN z[i] ELSE u[i - p]
  BY <1>1, <1>3, <1>4, ConcatProperties
<1>17. (\A i \in 1..p : z[i] \in White) /\ (r = <<>> \/ r[1] \in White)
  BY <1>1 DEF Whites, EndsWord
<1>6. \A i \in 1..p : s[i] = z[i]
  BY <1>5
<1>7. \A i \in 1..n : s[p + i] = w[i]
  <2>1. ASSUME NEW i \in 1..n PROVE s[p + i] = w[i]
    <3>1. p + i \in 1..p + (n + q) /\ ~(p + i <= p) /\ (p + i) - p = i /\ i \in 1..n + q /\ i <= n
      OBVIOUS
    <3> QED
      BY <1>4, <1>5, <3>1
  <2> QED
    BY <2>1
<1>8. \A i \in 1..q : s[p + n + i] = r[i]
  <2>1. ASSUME NEW i \in 1..q PROVE s[p + n + i] = r[i]
    <3>1. /\ p + n + i \in 1..p + (n + q) /\ ~(p + n + i <= p) /\ (p + n + i) - p = n + i
          /\ n + i \in 1..n + q /\ ~(n + i <= n) /\ (n + i) - n = i
      OBVIOUS
    <3>2. s[p + n + i] = u[n + i] /\ u[n + i] = r[i]
      BY <1>4, <1>5, <3>1
    <3> QED
      BY <3>2
  <2> QED
    BY <2>1
<1>9. PICK a, e \in Nat : Cutting(s, a, e)
  BY <1>5, TokenCut
<1>10. /\ a \in 1..p + (n + q) + 1 /\ e \in a..p + (n + q) + 1
       /\ \A k \in 1..a - 1 : s[k] \in White
       /\ \A k \in a..e - 1 : s[k] \notin White
       /\ e <= p + (n + q) => s[e] \in White
       /\ a <= p + (n + q) => a < e
  BY <1>5, <1>9 DEF Cutting
<1>11. \A i \in 1..n : w[i] \notin White
  BY <1>1, ElementOfSeq DEF Dark
<1>12. a = p + 1
  <2>1. ~(a <= p)
    <3>1. SUFFICES ASSUME a <= p PROVE FALSE
      OBVIOUS
    <3>2. a \in a..e - 1 /\ a \in 1..p
      BY <1>10, <3>1
    <3>3. s[a] \notin White /\ s[a] \in White
      BY <1>17, <1>6, <1>10, <3>2
    <3> QED
      BY <3>3
  <2>2. ~(a > p + 1)
    <3>1. SUFFICES ASSUME a > p + 1 PROVE FALSE
      OBVIOUS
    <3>2. p + 1 \in 1..a - 1 /\ 1 \in 1..n
      BY <1>10, <3>1
    <3>3. s[p + 1] \in White /\ s[p + 1] \notin White
      BY <1>7, <1>10, <1>11, <3>2
    <3> QED
      BY <3>3
  <2> QED
    BY <1>10, <2>1, <2>2
<1>13. e = p + n + 1
  <2>1. ~(e <= p + n)
    <3>1. SUFFICES ASSUME e <= p + n PROVE FALSE
      OBVIOUS
    <3>2. PICK i \in 1..n : e = p + i
      <4>1. e - p \in 1..n /\ e = p + (e - p)
        BY <1>10, <1>12, <3>1
      <4> QED
        BY <4>1
    <3>3. s[e] \in White
      <4>1. e <= p + (n + q)
        BY <1>10, <3>1
      <4> QED
        BY <1>10, <4>1
    <3> QED
      BY <1>7, <1>11, <3>2, <3>3
  <2>2. ~(e > p + n + 1)
    <3>1. SUFFICES ASSUME e > p + n + 1 PROVE FALSE
      OBVIOUS
    <3>2. p + n + 1 \in a..e - 1 /\ 1 \in 1..q
      BY <1>10, <1>12, <3>1
    <3>3. s[p + n + 1] \notin White /\ s[p + n + 1] = r[1] /\ r # <<>>
      <4>1. Len(<<>>) = 0
        OBVIOUS
      <4> QED
        BY <1>17, <1>1, <1>8, <1>10, <3>2, <4>1
    <3> QED
      BY <1>17, <3>3
  <2> QED
    BY <1>10, <2>1, <2>2
<1>14. Token(s) = SubSeq(s, p + 1, p + n) /\ AfterToken(s) = From(s, p + n + 1)
  <2>1. a = TokenStart(s) /\ e = TokenEnd(s) /\ e - 1 = p + n
    BY <1>9, <1>13 DEF Cutting
  <2> QED
    BY <1>12, <1>13, <2>1 DEF Token, AfterToken
<1>15. SubSeq(s, p + 1, p + n) = w
  <2>1. PICK c \in Nat \ {0}, d \in Nat : c = p + 1 /\ d = p + n
    OBVIOUS
  <2>2. d <= Len(s) /\ c <= d + 1 /\ d - c + 1 = n
    BY <1>5, <2>1
  <2>3. PICK t : t = SubSeq(s, c, d)
    OBVIOUS
  <2>4. t \in Seq(Bytes) /\ Len(t) = n /\ \A i \in 1..n : t[i] = s[c + i - 1]
    <3>1. s \in Seq(Bytes)
      BY <1>5
    <3>2. /\ SubSeq(s, c, d) \in Seq(Bytes) /\ Len(SubSeq(s, c, d)) = d - c + 1
          /\ \A i \in 1..d - c + 1 : SubSeq(s, c, d)[i] = s[c + i - 1]
      BY <2>2, <3>1, Part
    <3> QED
      BY <2>2, <2>3, <3>2
  <2>5. ASSUME NEW i \in 1..n PROVE t[i] = w[i]
    <3>1. c + i - 1 = p + i
      BY <2>1
    <3> QED
      BY <1>7, <2>4, <3>1
  <2>6. t = w
    BY <1>1, <1>2, <2>4, <2>5, SeqEqual
  <2> QED
    BY <2>1, <2>3, <2>6
<1>16. From(s, p + n + 1) = r
  <2>1. PICK t : t = From(s, p + n + 1)
    OBVIOUS
  <2>2. p + n + 1 \in Nat \ {0} /\ p + n + 1 <= Len(s) + 1 /\ Len(s) - (p + n + 1) + 1 = q
    BY <1>5
  <2>3. t \in Seq(Bytes) /\ Len(t) = q /\ \A i \in 1..q : t[i] = s[(p + n + 1) + i - 1]
    BY <1>5, <2>1, <2>2, FromIs
  <2>4. ASSUME NEW i \in 1..q PROVE t[i] = r[i]
    <3>1. (p + n + 1) + i - 1 = p + n + i
      OBVIOUS
    <3> QED
      BY <1>8, <2>3, <3>1
  <2>5. t = r
    BY <1>1, <2>3, <2>4, SeqEqual
  <2> QED
    BY <2>1, <2>5
<1> QED
  BY <1>14, <1>15, <1>16

\* The first word of what begins with no white space, and the rest.
LEMMA Split ==
  ASSUME NEW s \in Seq(Bytes), s # <<>>, s[1] \notin White
  PROVE  /\ s = Token(s) \o AfterToken(s)
         /\ Token(s) \in Seq(Dark) /\ Token(s) # <<>> /\ Head(Token(s)) = s[1]
         /\ AfterToken(s) \in Seq(Bytes)
         /\ EndsWord(AfterToken(s))
<1>1. PICK n \in Nat \ {0} : n = Len(s)
  BY LenProperties, EmptySeq
<1>2. PICK a, e \in Nat : Cutting(s, a, e)
  BY TokenCut
<1>3. /\ a = TokenStart(s) /\ e = TokenEnd(s) /\ a \in 1..n + 1 /\ e \in a..n + 1
      /\ \A k \in 1..a - 1 : s[k] \in White
      /\ e <= n => s[e] \in White
      /\ a <= n => a < e
  BY <1>1, <1>2 DEF Cutting
<1>4. a = 1 /\ e \in 2..n + 1
  <2>1. a # 1 => 1 \in 1..a - 1
    BY <1>3
  <2>2. a = 1
    BY <1>3, <2>1
  <2> QED
    BY <1>3, <2>2
<1>5. Token(s) \in Seq(Dark) /\ Token(s) # <<>> /\ Head(Token(s)) = s[1]
      /\ AfterToken(s) = From(s, e)
  <2>1. a # Len(s) + 1
    BY <1>1, <1>4
  <2> QED
    BY <1>2, <1>4, <2>1, TokenIs
<1>6. From(s, e) \in Seq(Bytes) /\ Len(From(s, e)) = n - e + 1
      /\ \A i \in 1..n - e + 1 : From(s, e)[i] = s[e + i - 1]
  <2>1. e \in Nat \ {0} /\ e <= Len(s) + 1
    BY <1>1, <1>4
  <2> QED
    BY <1>1, <2>1, FromIs
<1>7. From(s, e) = <<>> \/ From(s, e)[1] \in White
  <2>1. CASE e = n + 1
    <3>1. Len(From(s, e)) = 0
      BY <1>1, <1>4, <1>6, <2>1
    <3> QED
      BY <1>6, <3>1, EmptySeq
  <2>2. CASE e # n + 1
    <3>1. 1 \in 1..n - e + 1 /\ e + 1 - 1 = e /\ e <= n
      BY <1>1, <1>4, <2>2
    <3> QED
      BY <1>3, <1>6, <3>1
  <2> QED
    BY <2>1, <2>2
<1>8. s = Token(s) \o AfterToken(s)
  <2>1. Token(s) = SubSeq(s, 1, e - 1) /\ AfterToken(s) = SubSeq(s, (e - 1) + 1, n)
    <3>1. (e - 1) + 1 = e
      BY <1>4
    <3> QED
      BY <1>1, <1>3, <1>4, <1>5, <3>1 DEF Token, From
  <2>2. 1 \in 1..Len(s) + 1 /\ e - 1 \in 1 - 1..Len(s) /\ n \in e - 1..Len(s)
    BY <1>1, <1>4
  <2>3. SubSeq(s, 1, e - 1) \o SubSeq(s, (e - 1) + 1, n) = SubSeq(s, 1, n)
    BY <2>2, ConcatAdjacentSubSeq
  <2>4. SubSeq(s, 1, n) = s
    BY <1>1, SubSeqFull
  <2> QED
    BY <2>1, <2>3, <2>4
<1> QED
  BY <1>5, <1>6, <1>7, <1>8 DEF EndsWord

-----------------------------------------------------------------------------
(* Parameters word by word.                                                  *)

\* What holds of a position when it holds of all later ones holds of all.
LEMMA Downwards ==
  ASSUME NEW n \in Nat, NEW S, \A k \in 1..n : (\A j \in k + 1..n : j \in S) => k \in S
  PROVE  \A k \in 1..n : k \in S
<1> DEFINE T == {m \in Nat : m < n /\ n - m \notin S}
<1>1. ASSUME NEW k \in 1..n, k \notin S PROVE FALSE
  <2>1. n - k \in T
    BY <1>1
  <2>2. PICK m \in T : \A i \in T : m <= i
    <3>1. T \in SUBSET Nat /\ T # {}
      BY <2>1
    <3> HIDE DEF T
    <3> QED
      BY <3>1, Least
  <2>3. PICK l \in 1..n : l = n - m /\ l \notin S
    BY <2>2
  <2>4. ASSUME NEW j \in l + 1..n PROVE j \in S
    <3>1. n - j \in Nat /\ n - j < m /\ m \in Nat /\ n - (n - j) = j /\ n - j < n
      BY <2>3
    <3>2. n - j \notin T
      BY <2>2, <3>1
    <3> QED
      BY <3>1, <3>2
  <2> QED
    BY <2>3, <2>4
<1> QED
  BY <1>1

LEMMA FromFrom ==
  ASSUME NEW s \in Seq(Bytes), NEW k \in 1..Len(s) + 1, NEW j \in 1..Len(s) - k + 2
  PROVE  From(From(s, k), j) = From(s, k + j - 1)
<1>1. PICK n \in Nat : n = Len(s)
  BY LenProperties
<1>2. PICK a \in Nat, m \in Nat : a = k - 1 /\ m = n - k + 1
  <2>1. k \in 1..n + 1
    BY <1>1
  <2>2. k - 1 \in Nat /\ n - k + 1 \in Nat
    BY <2>1
  <2> QED
    BY <2>2
<1>3. /\ a + 1 = k /\ a <= n /\ j \in Nat \ {0} /\ j <= m + 1 /\ m <= n - a
      /\ a + m = n /\ a + j = k + j - 1
  BY <1>1, <1>2
<1>4. Len(From(s, k)) = m
  <2>1. k \in Nat \ {0} /\ k <= Len(s) + 1
    BY <1>1
  <2> QED
    BY <1>1, <1>2, <2>1, FromIs
<1>5. From(From(s, k), j) = SubSeq(SubSeq(s, a + 1, n), j, m)
  BY <1>1, <1>3, <1>4 DEF From
<1>6. SubSeq(SubSeq(s, a + 1, n), j, m) = SubSeq(s, a + j, a + m)
  BY <1>1, <1>3, PartOfPart
<1> QED
  BY <1>1, <1>3, <1>5, <1>6 DEF From

\* The cutting of what is left of s is the rest of the cutting of s.
LEMMA CutShift ==
  ASSUME NEW s \in Seq(Bytes), NEW f, IsCut(s, f), NEW k \in 1..Len(s) + 1,
         NEW g, IsCut(From(s, k), g)
  PROVE  g[1] = f[k]
<1>1. PICK n \in Nat : n = Len(s)
  BY LenProperties
<1>2. PICK r : r = From(s, k)
  OBVIOUS
<1>3. PICK m \in Nat : m = n - k + 1
  BY <1>1
<1>4. r \in Seq(Bytes) /\ Len(r) = m
  <2>1. k \in Nat \ {0} /\ k <= Len(s) + 1
    BY <1>1
  <2> QED
    BY <1>1, <1>2, <1>3, <2>1, FromIs
<1>5. /\ \A i \in 1..n + 1 : f[i] = CutStep(s, f, i)
      /\ \A i \in 1..m + 1 : g[i] = CutStep(r, g, i)
  BY <1>1, <1>2, <1>4 DEF IsCut
<1>6. ASSUME NEW j \in 1..m + 1, \A i \in j + 1..m + 1 : g[i] = f[k + i - 1]
      PROVE  g[j] = f[k + j - 1]
  <2>1. PICK l \in 1..n + 1 : l = k + j - 1
    BY <1>1, <1>3
  <2>2. PICK t : t = From(r, j)
    OBVIOUS
  <2>3. t = From(s, l)
    <3>1. j \in 1..Len(s) - k + 2
      BY <1>1, <1>3
    <3> QED
      BY <1>2, <2>1, <2>2, <3>1, FromFrom
  <2>4. g[j] = CutStep(r, g, j) /\ f[l] = CutStep(s, f, l)
    BY <1>5
  <2>5. CASE Token(t) = <<>>
    <3>1. CutStep(r, g, j) = <<>> /\ CutStep(s, f, l) = <<>>
      BY <2>2, <2>3, <2>5 DEF CutStep
    <3> QED
      BY <2>1, <2>4, <3>1
  <2>6. CASE Token(t) # <<>>
    <3>1. PICK i \in j + 1..m + 1 : i = j + TokenEnd(t) - 1
      BY <1>4, <2>2, <2>6, CutGoesOn
    <3>2. PICK h \in l + 1..n + 1 : h = l + TokenEnd(t) - 1
      BY <1>1, <2>3, <2>6, CutGoesOn
    <3>3. h = k + i - 1
      <4>1. PICK e \in Int : e = TokenEnd(t)
        <5>1. PICK b, d \in Nat : Cutting(t, b, d)
          <6>1. t \in Seq(Bytes)
            <7>1. j \in Nat \ {0} /\ j <= Len(r) + 1
              BY <1>4
            <7> QED
              BY <1>4, <2>2, <7>1, FromIs
          <6> QED
            BY <6>1, TokenCut
        <5> QED
          BY <5>1 DEF Cutting
      <4>2. k \in Int /\ i \in Int /\ j \in Int /\ h \in Int /\ l \in Int
        BY <1>1
      <4>3. i = j + e - 1 /\ h = l + e - 1 /\ l = k + j - 1
        BY <2>1, <3>1, <3>2, <4>1, Zenon
      <4> QED
        BY <4>2, <4>3, e \in Int
    <3>4. g[i] = f[h]
      BY <1>6, <3>3
    <3>5. CutStep(r, g, j) = CutStep(s, f, l)
      BY <2>2, <2>3, <3>1, <3>2, <3>4, Zenon DEF CutStep
    <3> QED
      BY <2>1, <2>4, <3>5
  <2> QED
    BY <2>5, <2>6
<1>7. \A j \in 1..m + 1 : j \in {i \in 1..m + 1 : g[i] = f[k + i - 1]}
  <2> DEFINE S == {i \in 1..m + 1 : g[i] = f[k + i - 1]}
  <2>1. \A j \in 1..m + 1 : (\A i \in j + 1..m + 1 : i \in S) => j \in S
    BY <1>6
  <2>2. m + 1 \in Nat
    OBVIOUS
  <2> HIDE DEF S
  <2>3. \A j \in 1..m + 1 : j \in S
    BY <2>1, <2>2, Downwards
  <2> QED
    BY <2>3 DEF S
<1>8. g[1] = f[k + 1 - 1] /\ k + 1 - 1 = k
  BY <1>7
<1> QED
  BY <1>8

\* The parameters of s: the first word, and those of the rest.
LEMMA Unfold ==
  ASSUME NEW s \in Seq(Bytes)
  PROVE  Parameters(s) =
           IF Token(s) = <<>> THEN <<>>
           ELSE IF IsTrailing(Token(s)) THEN <<Tail(Token(s)) \o Getline(AfterToken(s))>>
           ELSE <<Token(s)>> \o Parameters(AfterToken(s))
<1>1. PICK n \in Nat : n = Len(s)
  BY LenProperties
<1>2. PICK f : f = (CHOOSE g : IsCut(s, g))
  OBVIOUS
<1>3. IsCut(s, f) /\ Parameters(s) = f[1]
  BY <1>2, CutExists, ParametersAreCut
<1>4. f[1] = CutStep(s, f, 1)
  BY <1>1, <1>3 DEF IsCut
<1>5. From(s, 1) = s
  BY SubSeqFull DEF From
<1>6. ASSUME Token(s) # <<>> PROVE f[1 + TokenEnd(s) - 1] = Parameters(AfterToken(s))
  <2>1. 1 \in 1..Len(s) + 1
    BY <1>1
  <2>2. PICK k \in 2..n + 1 : k = 1 + TokenEnd(s) - 1
    BY <1>1, <1>5, <1>6, <2>1, CutGoesOn
  <2>3. AfterToken(s) = From(s, k)
    <3>1. PICK a, e \in Nat : Cutting(s, a, e)
      BY TokenCut
    <3>2. e = TokenEnd(s) /\ k = e
      BY <2>2, <3>1 DEF Cutting
    <3> QED
      BY <3>2 DEF AfterToken
  <2>4. PICK g : g = (CHOOSE h : IsCut(From(s, k), h))
    OBVIOUS
  <2>5. From(s, k) \in Seq(Bytes)
    <3>1. k \in Nat \ {0} /\ k <= Len(s) + 1
      BY <1>1
    <3> QED
      BY <3>1, FromIs
  <2>6. IsCut(From(s, k), g) /\ Parameters(From(s, k)) = g[1]
    BY <2>4, <2>5, CutExists, ParametersAreCut
  <2>7. g[1] = f[k]
    BY <1>1, <1>3, <2>6, CutShift
  <2> QED
    BY <2>2, <2>3, <2>6, <2>7
<1> QED
  BY <1>3, <1>4, <1>5, <1>6, Zenon DEF CutStep

-----------------------------------------------------------------------------
(* The words written one after the other.                                    *)

\* A step of FlattenSeq.
FlatStep(ss, f, i) == IF i = 1 THEN ss[i] ELSE f[i - 1] \o ss[i]

IsFlat(ss, f) == f = [i \in 1..Len(ss) |-> FlatStep(ss, f, i)]

LEMMA FlattenIs ==
  ASSUME NEW ss \in Seq(Seq(Bytes)), Len(ss) # 0
  PROVE  FlattenSeq(ss) = (CHOOSE f : IsFlat(ss, f))[Len(ss)]
  BY Zenon DEF FlattenSeq, FlatStep, IsFlat

LEMMA FlatExists ==
  ASSUME NEW ss, NEW n \in Nat, n = Len(ss)
  PROVE  \E f : IsFlat(ss, f)
<1> DEFINE
  Done(f, m) == /\ f = [i \in 1..n |-> f[i]]
                /\ \A i \in 1..n : i <= m => f[i] = FlatStep(ss, f, i)
  S == {m \in Nat : \E f : Done(f, m)}
<1>1. 0 \in S
  <2>1. PICK f : f = [i \in 1..n |-> <<>>]
    OBVIOUS
  <2>2. f = [i \in 1..n |-> f[i]]
    BY <2>1
  <2> QED
    BY <2>2
<1>2. ASSUME NEW m \in Nat, m \in S PROVE m + 1 \in S
  <2>1. PICK f : Done(f, m)
    BY <1>2
  <2>2. PICK e : e = FlatStep(ss, f, m + 1)
    OBVIOUS
  <2>3. PICK g : g = [i \in 1..n |-> IF i = m + 1 THEN e ELSE f[i]]
    OBVIOUS
  <2>4. ASSUME NEW i \in 1..n, i <= m + 1 PROVE g[i] = FlatStep(ss, g, i)
    <3>1. i # 1 => g[i - 1] = f[i - 1]
      <4>1. i # 1 => i - 1 \in 1..n /\ i - 1 # m + 1
        BY <2>4
      <4> QED
        BY <2>3, <4>1
    <3>2. FlatStep(ss, g, i) = FlatStep(ss, f, i)
      BY <3>1 DEF FlatStep
    <3>3. CASE i = m + 1
      BY <2>2, <2>3, <3>2, <3>3
    <3>4. CASE i # m + 1
      <4>1. i <= m
        BY <2>4, <3>4
      <4> QED
        BY <2>1, <2>3, <3>2, <3>4, <4>1
    <3> QED
      BY <3>3, <3>4
  <2>5. g = [i \in 1..n |-> g[i]]
    BY <2>3
  <2>6. Done(g, m + 1)
    BY <2>4, <2>5
  <2> QED
    BY <2>6
<1>3. n \in S
  <2> HIDE DEF S
  <2> QED
    BY <1>1, <1>2, Induct
<1>4. PICK f : Done(f, n)
  BY <1>3
<1>5. \A i \in 1..n : f[i] = FlatStep(ss, f, i)
  BY <1>4
<1>6. f = [i \in 1..n |-> f[i]]
  BY <1>4
<1>7. f = [i \in 1..Len(ss) |-> FlatStep(ss, f, i)]
  BY <1>5, <1>6, Zenon
<1> QED
  BY <1>7 DEF IsFlat

LEMMA JoinAssociative ==
  ASSUME NEW x \in Seq(Bytes), NEW y \in Seq(Bytes), NEW z \in Seq(Bytes)
  PROVE  (x \o y) \o z = x \o (y \o z)
<1>1. PICK B : B = Bytes
  OBVIOUS
<1>2. x \in Seq(B) /\ y \in Seq(B) /\ z \in Seq(B)
  BY <1>1
<1> QED
  BY <1>2, ConcatAssociative

\* FlattenSeq joins from the left; what holds of the last word, and of each word and
\* what follows it once it holds of what follows, holds of them all.
LEMMA FlattenFromRight ==
  ASSUME NEW ss \in Seq(Seq(Bytes)), NEW n \in Nat \ {0}, n = Len(ss),
         NEW P, <<n, ss[n]>> \in P,
         \A i \in 1..n - 1 : \A r \in Seq(Bytes) :
           <<i + 1, r>> \in P => <<i, ss[i] \o r>> \in P
  PROVE  <<1, FlattenSeq(ss)>> \in P
<1>1. PICK f : f = (CHOOSE g : IsFlat(ss, g))
  OBVIOUS
<1>2. FlattenSeq(ss) = f[n]
  BY <1>1, FlattenIs
<1>3. \A i \in 1..n : f[i] = FlatStep(ss, f, i)
  <2>1. IsFlat(ss, f)
    BY <1>1, FlatExists
  <2> QED
    BY <2>1 DEF IsFlat
<1>4. \A i \in 1..n : ss[i] \in Seq(Bytes)
  BY ElementOfSeq
<1>5. /\ f[1] = ss[1]
      /\ \A i \in 2..n : f[i] = f[i - 1] \o ss[i]
  <2>1. 1 \in 1..n /\ \A i \in 2..n : i \in 1..n /\ i # 1
    OBVIOUS
  <2> QED
    BY <1>3, <2>1 DEF FlatStep
<1>6. \A i \in 1..n : f[i] \in Seq(Bytes)
  <2> DEFINE S == {m \in Nat : m \in 1..n => f[m] \in Seq(Bytes)}
  <2>1. 0 \in S
    OBVIOUS
  <2>2. ASSUME NEW m \in Nat, m \in S PROVE m + 1 \in S
    <3>1. CASE m = 0
      BY <1>4, <1>5, <3>1
    <3>2. CASE m # 0 /\ m + 1 <= n
      <4>1. m \in 1..n /\ m + 1 \in 2..n /\ (m + 1) - 1 = m /\ m + 1 \in 1..n
        BY <3>2
      <4>2. f[m] \in Seq(Bytes) /\ ss[m + 1] \in Seq(Bytes) /\ f[m + 1] = f[m] \o ss[m + 1]
        BY <1>4, <1>5, <2>2, <4>1
      <4>3. f[m + 1] \in Seq(Bytes)
        BY <4>2, ConcatProperties
      <4> QED
        BY <4>3
    <3>3. CASE ~(m + 1 <= n)
      BY <3>3
    <3> QED
      BY <3>1, <3>2, <3>3
  <2>3. \A m \in Nat : m \in S
    <3> HIDE DEF S
    <3> QED
      BY <2>1, <2>2, Induct
  <2> QED
    BY <2>3
<1> DEFINE
  Cut(i, r) == IF i = 1 THEN f[n] = r ELSE f[n] = f[i - 1] \o r
  T == {i \in 1..n : \E r \in Seq(Bytes) : <<i, r>> \in P /\ Cut(i, r)}
<1>7. n \in T
  <2>1. Cut(n, ss[n])
    <3>1. n # 1 => n \in 2..n
      OBVIOUS
    <3> QED
      BY <1>5, <3>1
  <2>2. n \in 1..n
    OBVIOUS
  <2> QED
    BY <1>4, <2>1, <2>2
<1>8. ASSUME NEW i \in 1..n - 1, i + 1 \in T PROVE i \in T
  <2>1. PICK r \in Seq(Bytes) : <<i + 1, r>> \in P /\ Cut(i + 1, r)
    BY <1>8
  <2>2. f[n] = f[i] \o r
    <3>1. i + 1 # 1 /\ (i + 1) - 1 = i
      OBVIOUS
    <3> QED
      BY <2>1, <3>1
  <2>3. <<i, ss[i] \o r>> \in P
    BY <2>1
  <2>4. i \in 1..n /\ ss[i] \in Seq(Bytes)
    <3>1. i \in 1..n
      OBVIOUS
    <3> QED
      BY <1>4, <3>1
  <2>5. ss[i] \o r \in Seq(Bytes)
    BY <2>4, ConcatProperties
  <2>6. Cut(i, ss[i] \o r)
    <3>1. CASE i = 1
      BY <1>5, <2>2, <3>1
    <3>2. CASE i # 1
      <4>1. i \in 2..n /\ i - 1 \in 1..n
        BY <3>2
      <4>2. f[i] = f[i - 1] \o ss[i] /\ f[i - 1] \in Seq(Bytes)
        BY <1>5, <1>6, <4>1
      <4>3. PICK x \in Seq(Bytes), y \in Seq(Bytes) : x = f[i - 1] /\ y = ss[i]
        BY <2>4, <4>2
      <4>4. (x \o y) \o r = x \o (y \o r)
        BY JoinAssociative
      <4> QED
        BY <2>2, <3>2, <4>2, <4>3, <4>4
    <3> QED
      BY <3>1, <3>2
  <2> QED
    BY <2>3, <2>4, <2>5, <2>6
<1>9. 1 \in T
  <2>1. ASSUME NEW k \in 1..n, \A j \in k + 1..n : j \in T PROVE k \in T
    <3>1. k # n => k \in 1..n - 1 /\ k + 1 \in k + 1..n
      OBVIOUS
    <3> HIDE DEF T
    <3> QED
      BY <1>7, <1>8, <2>1, <3>1
  <2>2. 1 \in 1..n
    OBVIOUS
  <2> HIDE DEF T
  <2> QED
    BY <2>1, <2>2, Downwards
<1> QED
  BY <1>2, <1>9

-----------------------------------------------------------------------------
(* What parse leaves of a line that holds no line end.                       *)

\* A trailing parameter: no line feed in it, no carriage return at its end.
Clean(s) == \A i \in 1..Len(s) : s[i] # LF /\ (i = Len(s) => s[i] # CR)

\* A line without its ends: no CR LF in it, no end at its end.
Tame(s) ==
  \A i \in 1..Len(s) : /\ i = Len(s) => s[i] \notin {CR, LF}
                       /\ i < Len(s) => ~(s[i] = CR /\ s[i + 1] = LF)

LEMMA RestIsAlike ==
  ASSUME NEW s \in Seq(Bytes), NEW k \in 1..Len(s) + 1
  PROVE  /\ Clean(s) => Clean(From(s, k))
         /\ Tame(s) => Tame(From(s, k))
<1>1. PICK n \in Nat : n = Len(s)
  BY LenProperties
<1>2. PICK m \in Nat, j \in Nat \ {0} : j = k /\ j <= n + 1 /\ m = n - j + 1
  <2>1. k \in Nat \ {0} /\ k <= n + 1 /\ n - k + 1 \in Nat
    BY <1>1
  <2> QED
    BY <2>1
<1>3. PICK r : r = From(s, j)
  OBVIOUS
<1>4. Len(r) = m /\ \A i \in 1..m : r[i] = s[j + i - 1]
  BY <1>1, <1>2, <1>3, FromIs
<1>5. ASSUME Clean(s) PROVE Clean(r)
  <2>1. ASSUME NEW i \in 1..m PROVE r[i] # LF /\ (i = m => r[i] # CR)
    <3>1. j + i - 1 \in 1..n /\ (i = m => j + i - 1 = n)
      BY <1>2
    <3> QED
      BY <1>1, <1>4, <1>5, <3>1 DEF Clean
  <2> QED
    BY <1>4, <2>1 DEF Clean
<1>6. ASSUME Tame(s) PROVE Tame(r)
  <2>1. ASSUME NEW i \in 1..m
        PROVE  /\ i = m => r[i] \notin {CR, LF}
               /\ i < m => ~(r[i] = CR /\ r[i + 1] = LF)
    <3>1. PICK l \in 1..n : l = j + i - 1
      BY <1>2
    <3>2. i = m => l = n
      BY <1>2, <3>1
    <3>3. i < m => l < n /\ l + 1 = j + (i + 1) - 1 /\ i + 1 \in 1..m
      BY <1>2, <3>1
    <3>4. r[i] = s[l] /\ (i < m => r[i + 1] = s[l + 1])
      BY <1>4, <3>1, <3>3
    <3> QED
      BY <1>1, <1>6, <3>2, <3>3, <3>4 DEF Tame
  <2> QED
    BY <1>4, <2>1 DEF Tame
<1> QED
  BY <1>2, <1>3, <1>5, <1>6

LEMMA AfterTokenIs ==
  ASSUME NEW s \in Seq(Bytes)
  PROVE  /\ AfterToken(s) \in Seq(Bytes) /\ Token(s) \in Seq(Dark)
         /\ Clean(s) => Clean(AfterToken(s))
         /\ Tame(s) => Tame(AfterToken(s))
         /\ Token(s) # <<>> => Len(AfterToken(s)) < Len(s)
<1>1. PICK n \in Nat : n = Len(s)
  BY LenProperties
<1>2. PICK a, e \in Nat : Cutting(s, a, e)
  BY TokenCut
<1>3. a \in 1..n + 1 /\ e \in a..n + 1 /\ (a <= n => a < e)
  BY <1>1, <1>2 DEF Cutting
<1>4. /\ Token(s) \in Seq(Dark) /\ AfterToken(s) = From(s, e)
      /\ Token(s) # <<>> => a # n + 1
  BY <1>1, <1>2, TokenIs
<1>5. e \in Nat \ {0} /\ e <= Len(s) + 1 /\ e \in 1..Len(s) + 1
  BY <1>1, <1>3
<1>6. From(s, e) \in Seq(Bytes) /\ Len(From(s, e)) = n - e + 1
  BY <1>1, <1>5, FromIs
<1>7. Token(s) # <<>> => n - e + 1 < n
  BY <1>3, <1>4
<1>8. (Clean(s) => Clean(From(s, e))) /\ (Tame(s) => Tame(From(s, e)))
  BY <1>5, RestIsAlike
<1> QED
  BY <1>1, <1>4, <1>6, <1>7, <1>8

\* getline cuts what is left of a line to what can be written in one.
LEMMA GetlineCleans ==
  ASSUME NEW s \in Seq(Bytes)
  PROVE  /\ Tame(s) => Clean(Getline(s))
         /\ Clean(s) => Getline(s) = s
<1>1. PICK m \in Nat : m = Len(s)
  BY LenProperties
<1>2. PICK set : set = {k \in 1..m : s[k] = LF}
  OBVIOUS
<1>3. set \in SUBSET (1..Len(s))
  BY <1>1, <1>2
<1>4. PICK f \in 1..m + 1 : f = FirstOf(s, set)
  BY <1>1, <1>3, FirstOfIs
<1>5. /\ f \in set \/ f = m + 1
      /\ \A k \in set : f <= k
  BY <1>1, <1>3, <1>4, FirstOfIs
<1>6. PICK t : t = Getline(s)
  OBVIOUS
<1>7. PICK l \in 0..m : l = f - 1
  OBVIOUS
<1>8. t \in Seq(Bytes) /\ Len(t) = l /\ \A i \in 1..l : t[i] = s[i]
  <2>1. t = SubSeq(s, 1, l)
    BY <1>1, <1>2, <1>4, <1>6, <1>7 DEF Getline
  <2>2. l \in Nat /\ l <= Len(s) /\ 1 <= l + 1 /\ 1 \in Nat \ {0} /\ l - 1 + 1 = l
        /\ \A i \in 1..l : 1 + i - 1 = i
    BY <1>1
  <2>3. t \in Seq(Bytes) /\ Len(t) = l - 1 + 1 /\ \A i \in 1..l - 1 + 1 : t[i] = s[1 + i - 1]
    BY <2>1, <2>2, Part
  <2> QED
    BY <2>2, <2>3
<1>9. ASSUME NEW i \in 1..l PROVE s[i] # LF
  <2>1. i \in 1..m /\ ~(f <= i)
    BY <1>7
  <2> QED
    BY <1>2, <1>5, <2>1
<1>10. ASSUME Tame(s), l \in 1..m PROVE s[l] # CR
  <2>1. CASE l = m
    BY <1>1, <1>10, <2>1 DEF Tame
  <2>2. CASE l # m
    <3>1. l < m /\ l + 1 = f /\ f # m + 1
      BY <1>7, <2>2
    <3>2. s[l + 1] = LF
      BY <1>2, <1>5, <3>1
    <3> QED
      BY <1>1, <1>10, <3>1, <3>2 DEF Tame
  <2> QED
    BY <2>1, <2>2
<1>11. ASSUME Tame(s) PROVE Clean(t)
  BY <1>8, <1>9, <1>10, <1>11 DEF Clean
<1>12. ASSUME Clean(s) PROVE t = s
  <2>1. set = {}
    BY <1>1, <1>2, <1>12 DEF Clean
  <2>2. l = m
    BY <1>5, <1>7, <2>1
  <2> QED
    BY <1>1, <1>8, <2>2, SeqEqual
<1> QED
  BY <1>6, <1>11, <1>12

LEMMA SkipBlanksCleans ==
  ASSUME NEW s \in Seq(Bytes), Clean(s)
  PROVE  Clean(SkipBlanks(s))
<1>1. PICK m \in Nat : m = Len(s)
  BY LenProperties
<1>2. PICK set : set = {k \in 1..m : s[k] # Blank}
  OBVIOUS
<1>3. set \in SUBSET (1..Len(s))
  BY <1>1, <1>2
<1>4. PICK f \in 1..Len(s) + 1 : f = FirstOf(s, set)
  BY <1>3, FirstOfIs
<1>5. SkipBlanks(s) = From(s, f)
  BY <1>1, <1>2, <1>4 DEF SkipBlanks
<1> QED
  BY <1>5, RestIsAlike

LEMMA ChompTames ==
  ASSUME NEW line \in Seq(Bytes),
         \A i \in 1..Len(line) - 1 : ~(line[i] = CR /\ line[i + 1] = LF)
  PROVE  Tame(Chomp(line))
<1>1. PICK n \in Nat : /\ n <= Len(line) /\ Len(Chomp(line)) = n
                       /\ \A i \in 1..n : Chomp(line)[i] = line[i]
                       /\ n > 0 => line[n] \notin {CR, LF}
  BY ChompIs
<1>2. PICK c : c = Chomp(line)
  OBVIOUS
<1>3. PICK m \in Nat : m = Len(line)
  BY LenProperties
<1>4. ASSUME NEW i \in 1..n
      PROVE  /\ i = n => c[i] \notin {CR, LF}
             /\ i < n => ~(c[i] = CR /\ c[i + 1] = LF)
  <2>1. c[i] = line[i] /\ (i = n => n > 0)
    BY <1>1, <1>2
  <2>2. i < n => i + 1 \in 1..n /\ i \in 1..Len(line) - 1
    BY <1>1, <1>3
  <2>3. i < n => c[i + 1] = line[i + 1]
    BY <1>1, <1>2, <2>2
  <2> QED
    BY <1>1, <2>1, <2>2, <2>3
<1> QED
  BY <1>1, <1>2, <1>4 DEF Tame

\* The parameters parse makes: words that begin with no colon, and a last one that is
\* clean.
WellCut(ps) ==
  /\ ps \in Seq(Seq(Bytes))
  /\ \A k \in 1..Len(ps) :
       /\ k < Len(ps) => ps[k] \in Seq(Dark) /\ ps[k] # <<>> /\ Head(ps[k]) # Colon
       /\ k = Len(ps) => Clean(ps[k])

LEMMA DarkIsClean == \A x \in Seq(Dark) : Clean(x)
<1>1. ASSUME NEW x \in Seq(Dark), NEW i \in 1..Len(x) PROVE x[i] # LF /\ x[i] # CR
  <2>1. x[i] \in Dark
    BY ElementOfSeq
  <2> QED
    BY <2>1 DEF Dark, White
<1> QED
  BY <1>1 DEF Clean

\* A word before what is clean.
LEMMA CleanJoin ==
  ASSUME NEW x \in Seq(Dark), NEW r \in Seq(Bytes), Clean(r)
  PROVE  x \o r \in Seq(Bytes) /\ Clean(x \o r)
<1>1. PICK n \in Nat, q \in Nat : n = Len(x) /\ q = Len(r)
  BY LenProperties
<1>2. PICK u : u = x \o r
  OBVIOUS
<1>3. x \in Seq(Bytes)
  BY DarkAreBytes
<1>4. /\ u \in Seq(Bytes) /\ Len(u) = n + q
      /\ \A i \in 1..n + q : u[i] = IF i <= n THEN x[i] ELSE r[i - n]
  BY <1>1, <1>2, <1>3, ConcatProperties
<1>5. ASSUME NEW i \in 1..n + q PROVE u[i] # LF /\ (i = n + q => u[i] # CR)
  <2>1. CASE i <= n
    <3>1. i \in 1..n /\ u[i] = x[i]
      BY <1>4, <2>1
    <3>2. x[i] \in Dark
      BY <1>1, <3>1, ElementOfSeq
    <3> QED
      BY <3>1, <3>2 DEF Dark, White
  <2>2. CASE ~(i <= n)
    <3>1. i - n \in 1..q /\ u[i] = r[i - n] /\ (i = n + q => i - n = q)
      BY <1>4, <2>2
    <3> QED
      BY <1>1, <3>1 DEF Clean
  <2> QED
    BY <2>1, <2>2
<1> QED
  BY <1>2, <1>4, <1>5 DEF Clean

LEMMA OneClean ==
  ASSUME NEW x \in Seq(Bytes), Clean(x)
  PROVE  WellCut(<<x>>)
<1>1. PICK ps : ps = <<x>>
  OBVIOUS
<1>2. ps \in Seq(Seq(Bytes)) /\ Len(ps) = 1 /\ ps[1] = x
  BY <1>1
<1>3. WellCut(ps)
  BY <1>2 DEF WellCut
<1> QED
  BY <1>1, <1>3

LEMMA OneMoreWord ==
  ASSUME NEW x \in Seq(Dark), x # <<>>, Head(x) # Colon, NEW ps, WellCut(ps)
  PROVE  WellCut(<<x>> \o ps)
<1>1. PICK n \in Nat : n = Len(ps)
  BY LenProperties DEF WellCut
<1>2. PICK qs : qs = <<x>> \o ps
  OBVIOUS
<1>3. PICK one : one = <<x>>
  OBVIOUS
<1>4. x \in Seq(Bytes) /\ ps \in Seq(Seq(Bytes))
  BY DarkAreBytes DEF WellCut
<1>5. one \in Seq(Seq(Bytes)) /\ Len(one) = 1 /\ one[1] = x
  BY <1>3, <1>4
<1>6. /\ qs \in Seq(Seq(Bytes)) /\ Len(qs) = 1 + n
      /\ \A i \in 1..1 + n : qs[i] = IF i <= 1 THEN one[i] ELSE ps[i - 1]
  BY <1>1, <1>2, <1>3, <1>4, <1>5, ConcatProperties
<1>7. ASSUME NEW k \in 1..1 + n
      PROVE  /\ k < 1 + n => qs[k] \in Seq(Dark) /\ qs[k] # <<>> /\ Head(qs[k]) # Colon
             /\ k = 1 + n => Clean(qs[k])
  <2>1. CASE k = 1
    BY <1>5, <1>6, <2>1, DarkIsClean
  <2>2. CASE k # 1
    <3>1. PICK j \in 1..n : /\ j = k - 1 /\ qs[k] = ps[j]
                            /\ k < 1 + n => j < n
                            /\ k = 1 + n => j = n
      <4>1. k - 1 \in 1..n /\ ~(k <= 1) /\ (k < 1 + n => k - 1 < n) /\ (k = 1 + n => k - 1 = n)
        BY <2>2
      <4> QED
        BY <1>6, <4>1
    <3>2. /\ j < n => ps[j] \in Seq(Dark) /\ ps[j] # <<>> /\ Head(ps[j]) # Colon
          /\ j = n => Clean(ps[j])
      BY <1>1 DEF WellCut
    <3> QED
      BY <3>1, <3>2
  <2> QED
    BY <2>1, <2>2
<1>8. WellCut(qs)
  BY <1>6, <1>7 DEF WellCut
<1> QED
  BY <1>2, <1>8

\* One step of the cutting.
LEMMA WellCutStep ==
  ASSUME NEW s \in Seq(Bytes), Clean(s),
         Token(s) # <<>> => WellCut(Parameters(AfterToken(s)))
  PROVE  WellCut(Parameters(s))
<1>1. AfterToken(s) \in Seq(Bytes) /\ Token(s) \in Seq(Dark) /\ Clean(AfterToken(s))
  BY AfterTokenIs
<1>2. CASE Token(s) = <<>>
  <2>1. Parameters(s) = <<>>
    BY <1>2, Unfold
  <2>2. WellCut(<<>>)
    BY DEF WellCut
  <2> QED
    BY <2>1, <2>2
<1>3. CASE Token(s) # <<>> /\ IsTrailing(Token(s))
  <2>1. Parameters(s) = <<Tail(Token(s)) \o Getline(AfterToken(s))>>
    BY <1>3, Unfold
  <2>2. Getline(AfterToken(s)) = AfterToken(s)
    BY <1>1, GetlineCleans
  <2>3. Tail(Token(s)) \in Seq(Dark)
    BY <1>1, <1>3, HeadTailProperties
  <2>4. PICK x : x = Tail(Token(s)) \o AfterToken(s)
    OBVIOUS
  <2>5. x \in Seq(Bytes) /\ Clean(x)
    BY <1>1, <2>3, <2>4, CleanJoin
  <2> QED
    BY <2>1, <2>2, <2>4, <2>5, OneClean
<1>4. CASE Token(s) # <<>> /\ ~IsTrailing(Token(s))
  <2>1. Parameters(s) = <<Token(s)>> \o Parameters(AfterToken(s))
    BY <1>4, Unfold
  <2>2. Head(Token(s)) # Colon
    BY <1>4 DEF IsTrailing
  <2> QED
    BY <1>1, <1>4, <2>1, <2>2, OneMoreWord
<1> QED
  BY <1>2, <1>3, <1>4

LEMMA ParametersWellCut ==
  ASSUME NEW s \in Seq(Bytes), Clean(s)
  PROVE  WellCut(Parameters(s))
<1> DEFINE
  T == {n \in Nat : \E t \in Seq(Bytes) : /\ Clean(t) /\ Len(t) = n
                                         /\ ~WellCut(Parameters(t))}
<1>1. SUFFICES ASSUME ~WellCut(Parameters(s)) PROVE FALSE
  OBVIOUS
<1>2. Len(s) \in T
  BY <1>1, LenProperties
<1>3. PICK n \in T : \A m \in T : n <= m
  <2>1. T \in SUBSET Nat /\ T # {}
    BY <1>2
  <2> HIDE DEF T
  <2> QED
    BY <2>1, Least
<1>4. PICK t \in Seq(Bytes) : Clean(t) /\ Len(t) = n /\ ~WellCut(Parameters(t))
  BY <1>3
<1>5. Token(t) # <<>> => WellCut(Parameters(AfterToken(t)))
  <2>1. SUFFICES ASSUME Token(t) # <<>>, ~WellCut(Parameters(AfterToken(t))) PROVE FALSE
    OBVIOUS
  <2>2. PICK r \in Seq(Bytes) : r = AfterToken(t) /\ Clean(r) /\ Len(r) < n
    BY <1>4, <2>1, AfterTokenIs
  <2>3. PICK m \in Nat : m = Len(r)
    BY LenProperties
  <2>4. m \in T /\ m < n /\ n \in Nat
    BY <2>1, <2>2, <2>3
  <2>5. n <= m
    BY <1>3, <2>4
  <2> QED
    BY <2>4, <2>5
<1> QED
  BY <1>4, <1>5, WellCutStep

\* A message with a command, as parse makes it of a line.
WellFormed(m) ==
  /\ m = [prefix |-> m.prefix, command |-> m.command, params |-> m.params]
  /\ m.prefix \in Seq(Dark) /\ m.command \in Seq(Dark) /\ m.command # <<>>
  /\ m.params # <<>> /\ WellCut(m.params)

LEMMA ParsedWell ==
  ASSUME NEW line \in Seq(Bytes), NEW old,
         \A i \in 1..Len(line) - 1 : ~(line[i] = CR /\ line[i + 1] = LF),
         Parsed(line, old).command # <<>>
  PROVE  WellFormed(Parsed(line, old))
<1>1. PICK m : m = Parsed(line, old)
  OBVIOUS
<1>2. MessageIs(m) /\ Token(Body(line)) # <<>> /\ m.command # <<>>
  BY <1>1, ParsedIs
<1>3. PICK c \in Seq(Bytes) : c = Chomp(line) /\ Tame(c)
  BY BodyIs, ChompTames
<1>4. PICK body \in Seq(Bytes) : body = Body(line) /\ Tame(body)
  <2>1. AfterToken(c) \in Seq(Bytes) /\ Tame(AfterToken(c))
    BY <1>3, AfterTokenIs
  <2> QED
    BY <1>3, <2>1 DEF Body
<1>5. PICK s \in Seq(Bytes) : s = SkipBlanks(Getline(AfterToken(body))) /\ Clean(s)
  <2>1. AfterToken(body) \in Seq(Bytes) /\ Tame(AfterToken(body))
    BY <1>4, AfterTokenIs
  <2>2. Getline(AfterToken(body)) \in Seq(Bytes) /\ Clean(Getline(AfterToken(body)))
    BY <2>1, GetlineIs, GetlineCleans
  <2> QED
    BY <2>2, SkipBlanksIs, SkipBlanksCleans
<1>6. PICK prefix : prefix = IF IsTrailing(Token(c)) THEN Tail(Token(c)) ELSE <<>>
  OBVIOUS
<1>7. PICK params : params = ParametersOf(s)
  OBVIOUS
<1>8. m = [prefix |-> prefix, command |-> Token(body), params |-> params]
  BY <1>1, <1>2, <1>3, <1>4, <1>5, <1>6, <1>7, Zenon DEF Parsed, Body
<1>9. m.params = params /\ m = [prefix |-> m.prefix, command |-> m.command, params |-> m.params]
  BY <1>8
<1>10. WellCut(params)
  <2>1. WellCut(Parameters(s))
    BY <1>5, ParametersWellCut
  <2>2. WellCut(<<(<<>>)>>)
    <3>1. PICK e \in Seq(Bytes) : e = <<>>
      BY EmptySeq
    <3>2. Clean(e)
      BY <3>1 DEF Clean
    <3> QED
      BY <3>1, <3>2, OneClean
  <2> QED
    BY <1>7, <2>1, <2>2 DEF ParametersOf
<1>11. m.prefix \in Seq(Dark) /\ m.command \in Seq(Dark) /\ m.params # <<>>
  BY <1>2 DEF MessageIs
<1>12. WellFormed(m)
  BY <1>2, <1>9, <1>10, <1>11 DEF WellFormed
<1> QED
  BY <1>1, <1>12

-----------------------------------------------------------------------------
(* The parameters written and read again.                                    *)

\* What toRawString writes of a parameter.
Written(ps, k) == <<Blank>> \o (IF k = Len(ps) THEN <<Colon>> ELSE <<>>) \o ps[k]

\* r is what is written of ps from its i-th on, a blank before it: it can be part of a
\* line and is read again as it was.
Reads(ps, i, r) ==
  \E u \in Seq(Bytes) : /\ r = <<Blank>> \o u
                        /\ u # <<>> /\ u[1] \notin White /\ Clean(u)
                        /\ Parameters(u) = SubSeq(ps, i, Len(ps))

LEMMA Join ==
  ASSUME NEW x \in Seq(Bytes), NEW y \in Seq(Bytes), NEW s, s = x \o y,
         NEW n \in Nat, n = Len(x), NEW q \in Nat, q = Len(y)
  PROVE  /\ s \in Seq(Bytes) /\ Len(s) = n + q
         /\ \A i \in 1..n + q : s[i] = IF i <= n THEN x[i] ELSE y[i - n]
<1>1. PICK B : B = Bytes
  OBVIOUS
<1>2. x \in Seq(B) /\ y \in Seq(B)
  BY <1>1
<1>3. /\ x \o y \in Seq(B) /\ Len(x \o y) = Len(x) + Len(y)
      /\ \A i \in 1..Len(x) + Len(y) : (x \o y)[i] = IF i <= Len(x) THEN x[i] ELSE y[i - Len(x)]
  BY <1>2, ConcatProperties
<1> QED
  BY <1>1, <1>3

LEMMA TailJoin ==
  ASSUME NEW x \in Seq(Bytes), x # <<>>, NEW y \in Seq(Bytes)
  PROVE  Tail(x) \o y = Tail(x \o y)
<1>1. PICK n \in Nat \ {0}, q \in Nat : n = Len(x) /\ q = Len(y)
  BY LenProperties, EmptySeq
<1>2. PICK s, t : s = x \o y /\ t = Tail(x)
  OBVIOUS
<1>3. /\ s \in Seq(Bytes) /\ Len(s) = n + q
      /\ \A i \in 1..n + q : s[i] = IF i <= n THEN x[i] ELSE y[i - n]
  BY <1>1, <1>2, Join
<1>4. t \in Seq(Bytes) /\ Len(t) = n - 1 /\ \A i \in 1..n - 1 : t[i] = x[i + 1]
  BY <1>1, <1>2, HeadTailProperties
<1>5. PICK u, v : u = t \o y /\ v = Tail(s)
  OBVIOUS
<1>6. /\ u \in Seq(Bytes) /\ Len(u) = (n - 1) + q
      /\ \A i \in 1..(n - 1) + q : u[i] = IF i <= n - 1 THEN t[i] ELSE y[i - (n - 1)]
  <2>1. PICK m \in Nat : m = n - 1
    OBVIOUS
  <2>2. /\ u \in Seq(Bytes) /\ Len(u) = m + q
        /\ \A i \in 1..m + q : u[i] = IF i <= m THEN t[i] ELSE y[i - m]
    <3>1. t \in Seq(Bytes) /\ m = Len(t)
      BY <1>4, <2>1
    <3>2. q = Len(y) /\ u = t \o y
      BY <1>1, <1>5
    <3> QED
      BY <3>1, <3>2, Join
  <2> QED
    BY <2>1, <2>2
<1>7. s # <<>>
  BY <1>1, <1>3, EmptySeq
<1>8. v \in Seq(Bytes) /\ Len(v) = n + q - 1 /\ \A i \in 1..n + q - 1 : v[i] = s[i + 1]
  BY <1>3, <1>5, <1>7, HeadTailProperties
<1>9. ASSUME NEW i \in 1..n + q - 1 PROVE u[i] = v[i]
  <2>1. i + 1 \in 1..n + q /\ i \in 1..(n - 1) + q /\ (i <= n - 1 <=> i + 1 <= n)
        /\ i - (n - 1) = (i + 1) - n
    OBVIOUS
  <2>2. v[i] = IF i <= n - 1 THEN x[i + 1] ELSE y[i - (n - 1)]
    BY <1>3, <1>8, <2>1
  <2>3. u[i] = IF i <= n - 1 THEN t[i] ELSE y[i - (n - 1)]
    BY <1>6, <2>1
  <2>4. i <= n - 1 => t[i] = x[i + 1]
    BY <1>4
  <2> QED
    BY <2>2, <2>3, <2>4
<1>10. Len(u) = Len(v) /\ Len(u) = n + q - 1
  BY <1>6, <1>8
<1>11. u = v
  BY <1>6, <1>8, <1>9, <1>10, SeqEqual
<1> QED
  BY <1>2, <1>5, <1>11

\* A byte before a sequence.
LEMMA OneBefore ==
  ASSUME NEW x \in Bytes, NEW u \in Seq(Bytes)
  PROVE  /\ <<x>> \o u \in Seq(Bytes) /\ Len(<<x>> \o u) = Len(u) + 1
         /\ (<<x>> \o u)[1] = x /\ \A i \in 1..Len(u) : (<<x>> \o u)[i + 1] = u[i]
         /\ <<x>> \o u # <<>> /\ Tail(<<x>> \o u) = u
<1>1. PICK q \in Nat : q = Len(u)
  BY LenProperties
<1>2. PICK one : one = <<x>>
  OBVIOUS
<1>3. one \in Seq(Bytes) /\ Len(one) = 1 /\ one[1] = x /\ one # <<>> /\ Tail(one) = <<>>
  BY <1>2
<1>4. PICK s : s = one \o u
  OBVIOUS
<1>5. /\ s \in Seq(Bytes) /\ Len(s) = 1 + q
      /\ \A i \in 1..1 + q : s[i] = IF i <= 1 THEN one[i] ELSE u[i - 1]
  <2>1. PICK n \in Nat : n = Len(one)
    BY <1>3
  <2>3. n = 1
    BY <1>3, <2>1
  <2>2. /\ s \in Seq(Bytes) /\ Len(s) = n + q
        /\ \A i \in 1..n + q : s[i] = IF i <= n THEN one[i] ELSE u[i - n]
    <3>1. one \in Seq(Bytes)
      BY <1>3
    <3> QED
      BY <1>1, <1>4, <2>1, <3>1, Join
  <2> QED
    BY <2>2, <2>3
<1>6. ASSUME NEW i \in 1..q PROVE s[i + 1] = u[i]
  <2>1. i + 1 \in 1..1 + q /\ ~(i + 1 <= 1) /\ (i + 1) - 1 = i
    OBVIOUS
  <2> QED
    BY <1>5, <2>1
<1>7. s[1] = x /\ s # <<>> /\ Len(s) = q + 1
  BY <1>3, <1>5, EmptySeq
<1>8. Tail(s) = u
  <2>1. Tail(one) \o u = Tail(s)
    BY <1>3, <1>4, TailJoin
  <2> QED
    BY <1>3, <2>1, ConcatEmptySeq
<1> QED
  BY <1>1, <1>2, <1>4, <1>5, <1>6, <1>7, <1>8

\* The blank before what is written changes nothing of what is read.
LEMMA BlankBefore ==
  ASSUME NEW u \in Seq(Bytes), u # <<>>, u[1] \notin White, NEW r, r = <<Blank>> \o u
  PROVE  /\ r \in Seq(Bytes) /\ r # <<>> /\ r[1] \in White
         /\ Token(r) = Token(u) /\ AfterToken(r) = AfterToken(u)
         /\ Parameters(r) = Parameters(u) /\ SkipBlanks(r) = u
         /\ Clean(u) => Clean(r)
<1>1. PICK q \in Nat \ {0} : q = Len(u)
  BY LenProperties, EmptySeq
<1>2. /\ r \in Seq(Bytes) /\ Len(r) = q + 1 /\ r # <<>> /\ Tail(r) = u
      /\ r[1] = Blank /\ \A i \in 1..q : r[i + 1] = u[i]
  BY <1>1, SomeBytes, OneBefore
<1>3. r[1] \in White
  BY <1>2, SomeBytes
<1>4. /\ Token(r) = Token(u) /\ AfterToken(r) = AfterToken(u)
      /\ Parameters(r) = Parameters(u)
  <2>1. PICK w, t : w = Token(u) /\ t = AfterToken(u)
    OBVIOUS
  <2>2. /\ u = w \o t /\ w \in Seq(Dark) /\ w # <<>> /\ t \in Seq(Bytes)
        /\ EndsWord(t)
    BY <2>1, Split
  <2>3. PICK z : z = <<Blank>>
    OBVIOUS
  <2>4. z \in Seq(Bytes) /\ \A i \in 1..Len(z) : z[i] \in White
    <3>1. z \in Seq(Bytes) /\ Len(z) = 1 /\ z[1] = Blank
      BY <2>3, SomeBytes
    <3> QED
      BY <3>1, SomeBytes
  <2>5. r = z \o (w \o t)
    BY <2>2, <2>3
  <2>6. Token(r) = w /\ AfterToken(r) = t
    <3>1. w \in Seq(Dark) /\ w # <<>> /\ t \in Seq(Bytes)
      BY <2>2
    <3>2. EndsWord(t)
      BY <2>2
    <3>3. z \in Seq(Bytes)
      BY <2>4
    <3>4. Whites(z)
      BY <2>4 DEF Whites
    <3>5. PICK v : v = z \o (w \o t)
      OBVIOUS
    <3>6. Token(v) = w /\ AfterToken(v) = t
      BY <3>1, <3>2, <3>3, <3>4, <3>5, TokenOfJoin
    <3> QED
      BY <2>5, <3>6, <3>5
  <2>7. Parameters(r) = IF w = <<>> THEN <<>> ELSE IF IsTrailing(w) THEN <<Tail(w) \o Getline(t)>>
                        ELSE <<w>> \o Parameters(t)
    BY <1>2, <2>6, Unfold
  <2>8. Parameters(u) = IF w = <<>> THEN <<>> ELSE IF IsTrailing(w) THEN <<Tail(w) \o Getline(t)>>
                        ELSE <<w>> \o Parameters(t)
    BY <2>1, Unfold
  <2> QED
    BY <2>1, <2>6, <2>7, <2>8
<1>5. SkipBlanks(r) = u
  <2>1. PICK set : set = {k \in 1..q + 1 : r[k] # Blank}
    OBVIOUS
  <2>2. 2 \in set /\ 1 \notin set
    <3>1. 1 \in 1..q /\ 1 + 1 = 2 /\ 2 \in 1..q + 1
      OBVIOUS
    <3>2. r[2] = u[1] /\ u[1] # Blank
      BY <1>2, <3>1, SomeBytes
    <3> QED
      BY <1>2, <2>1, <3>1, <3>2
  <2>3. set \in SUBSET (1..Len(r))
    BY <1>2, <2>1
  <2>4. PICK f \in 1..q + 2 : /\ f = FirstOf(r, set)
                              /\ f \in set \/ f = q + 2
                              /\ \A k \in set : f <= k
    <3>1. Len(r) + 1 = q + 2
      BY <1>2
    <3> QED
      BY <1>2, <2>3, <3>1, FirstOfIs
  <2>5. f = 2
    <3>1. f <= 2 /\ f # 1
      BY <2>2, <2>4
    <3> QED
      BY <3>1
  <2>6. SkipBlanks(r) = SubSeq(r, 2, Len(r))
    BY <1>2, <2>1, <2>4, <2>5 DEF SkipBlanks, From
  <2> QED
    BY <1>2, <2>6, TailIsSubSeq
<1>6. ASSUME Clean(u) PROVE Clean(r)
  <2>1. ASSUME NEW i \in 1..q + 1 PROVE r[i] # LF /\ (i = q + 1 => r[i] # CR)
    <3>1. CASE i = 1
      BY <1>2, <3>1, SomeBytes
    <3>2. CASE i # 1
      <4>1. PICK j \in 1..q : i = j + 1 /\ (i = q + 1 => j = q)
        <5>1. i - 1 \in 1..q /\ i = (i - 1) + 1 /\ (i = q + 1 => i - 1 = q)
          BY <3>2
        <5> QED
          BY <5>1
      <4>2. r[i] = u[j] /\ u[j] # LF /\ (j = q => u[j] # CR)
        BY <1>1, <1>2, <1>6, <4>1 DEF Clean
      <4> QED
        BY <4>1, <4>2
    <3> QED
      BY <3>1, <3>2
  <2> QED
    BY <1>2, <2>1 DEF Clean
<1> QED
  BY <1>2, <1>3, <1>4, <1>5, <1>6

\* The last parameter, after its colon.
LEMMA LastReads ==
  ASSUME NEW ps, WellCut(ps), ps # <<>>, NEW n \in Nat \ {0}, n = Len(ps)
  PROVE  Reads(ps, n, Written(ps, n)) /\ Written(ps, n) \in Seq(Bytes)
<1>1. PICK p \in Seq(Bytes) : p = ps[n] /\ Clean(p)
  <2>1. n \in 1..Len(ps) /\ ps \in Seq(Seq(Bytes))
    BY DEF WellCut
  <2>2. ps[n] \in Seq(Bytes)
    BY <2>1, ElementOfSeq
  <2> QED
    BY <2>1, <2>2 DEF WellCut
<1>2. PICK u : u = <<Colon>> \o p
  OBVIOUS
<1>3. /\ u \in Seq(Bytes) /\ u # <<>> /\ u[1] = Colon /\ Tail(u) = p
      /\ u[1] \notin White
  BY <1>2, SomeBytes, OneBefore DEF Dark
<1>4. Clean(u)
  <2>1. PICK x \in Seq(Dark) : x = <<Colon>>
    <3>1. PICK c \in Dark : c = Colon
      BY SomeBytes
    <3>2. <<c>> \in Seq(Dark)
      OBVIOUS
    <3> QED
      BY <3>1, <3>2
  <2>2. Clean(x \o p)
    BY <1>1, CleanJoin
  <2> QED
    BY <1>2, <2>1, <2>2
<1>5. PICK w, t : w = Token(u) /\ t = AfterToken(u)
  OBVIOUS
<1>6. /\ u = w \o t /\ w \in Seq(Dark) /\ w # <<>> /\ Head(w) = Colon /\ t \in Seq(Bytes)
  BY <1>3, <1>5, Split
<1>7. Getline(t) = t
  <2>1. Clean(t)
    BY <1>3, <1>4, <1>5, AfterTokenIs
  <2> QED
    BY <1>6, <2>1, GetlineCleans
<1>8. Parameters(u) = <<Tail(w) \o t>>
  <2>1. IsTrailing(w)
    BY <1>6 DEF IsTrailing
  <2> QED
    BY <1>3, <1>5, <1>6, <1>7, <2>1, Unfold
<1>9. Tail(w) \o t = p
  <2>1. w \in Seq(Bytes)
    BY <1>6, DarkAreBytes
  <2> QED
    BY <1>3, <1>6, <2>1, TailJoin
<1>10. SubSeq(ps, n, n) = <<p>>
  <2>1. n \in 1..Len(ps) /\ n \in n..Len(ps) /\ ps \in Seq(Seq(Bytes))
    BY DEF WellCut
  <2>2. SubSeq(ps, n, n) = <<ps[n]>> \o SubSeq(ps, n + 1, n)
    BY <2>1, SubSeqRecursiveFirst
  <2>3. SubSeq(ps, n + 1, n) = <<>>
    BY SubSeqEmpty
  <2>4. PICK one : one = <<p>>
    OBVIOUS
  <2>5. one \o <<>> = one
    <3>1. one \in Seq(Seq(Bytes))
      BY <2>4
    <3> QED
      BY <3>1, ConcatEmptySeq
  <2> QED
    BY <1>1, <2>2, <2>3, <2>4, <2>5
<1>11. Written(ps, n) = <<Blank>> \o u
  <2>1. Written(ps, n) = (<<Blank>> \o <<Colon>>) \o p
    BY <1>1 DEF Written
  <2>2. PICK x \in Seq(Bytes), y \in Seq(Bytes) : x = <<Blank>> /\ y = <<Colon>>
    BY SomeBytes
  <2>3. (x \o y) \o p = x \o (y \o p)
    BY JoinAssociative
  <2> QED
    BY <1>2, <2>1, <2>2, <2>3
<1>12. Written(ps, n) \in Seq(Bytes)
  BY <1>3, <1>11, SomeBytes, OneBefore
<1>13. Parameters(u) = SubSeq(ps, n, Len(ps))
  BY <1>8, <1>9, <1>10
<1> QED
  BY <1>3, <1>4, <1>11, <1>12, <1>13 DEF Reads

\* A word and what follows it.
LEMMA WordFirst ==
  ASSUME NEW w \in Seq(Dark), w # <<>>, NEW r \in Seq(Bytes), r[1] \in White, Clean(r)
  PROVE  /\ w \o r \in Seq(Bytes) /\ w \o r # <<>> /\ (w \o r)[1] \notin White /\ Clean(w \o r)
         /\ Token(w \o r) = w /\ AfterToken(w \o r) = r
<1>4. PICK x : x = w
  OBVIOUS
<1>5. x \in Seq(Bytes)
  BY <1>4, DarkAreBytes
<1>6. PICK u : u = w \o r
  OBVIOUS
<1>7. u \in Seq(Bytes) /\ Clean(u)
  BY <1>6, CleanJoin
<1>8. u # <<>> /\ u[1] \notin White
  <2>1. PICK m \in Nat \ {0}, q \in Nat : m = Len(x) /\ q = Len(r)
    BY <1>4, <1>5, LenProperties, EmptySeq
  <2>2. Len(u) = m + q /\ \A j \in 1..m + q : u[j] = IF j <= m THEN x[j] ELSE r[j - m]
    BY <1>4, <1>5, <1>6, <2>1, Join
  <2>3. 1 \in 1..m + q /\ 1 <= m /\ 1 \in 1..m /\ m + q # 0
    OBVIOUS
  <2>4. x[1] \notin White
    BY <1>4, <2>1, <2>3, ElementOfSeq DEF Dark
  <2>5. u[1] = x[1]
    BY <2>2, <2>3
  <2>6. Len(u) # 0
    BY <2>2, <2>3
  <2> QED
    BY <2>4, <2>5, <2>6, EmptySeq
<1>9. Token(u) = w /\ AfterToken(u) = r
  <2>1. PICK z \in Seq(Bytes) : z = <<>>
    BY EmptySeq
  <2>2. Whites(z)
    BY <2>1 DEF Whites
  <2>3. EndsWord(r)
    BY DEF EndsWord
  <2>4. Token(z \o (w \o r)) = w /\ AfterToken(z \o (w \o r)) = r
    BY <2>2, <2>3, TokenOfJoin
  <2>5. z \o (w \o r) = u
    BY <1>6, <1>7, <2>1, ConcatEmptySeq
  <2> QED
    BY <2>4, <2>5
<1> QED
  BY <1>6, <1>7, <1>8, <1>9

\* A parameter before others.
LEMMA WordReads ==
  ASSUME NEW ps, WellCut(ps), NEW n \in Nat \ {0}, n = Len(ps), NEW i \in 1..n - 1,
         NEW r \in Seq(Bytes), Reads(ps, i + 1, r)
  PROVE  Reads(ps, i, Written(ps, i) \o r) /\ Written(ps, i) \in Seq(Bytes)
<1>1. PICK w \in Seq(Dark) : w = ps[i] /\ w # <<>> /\ Head(w) # Colon
  <2>1. i \in 1..Len(ps) /\ i < Len(ps)
    OBVIOUS
  <2> QED
    BY <2>1 DEF WellCut
<1>2. PICK v \in Seq(Bytes) : /\ r = <<Blank>> \o v
                              /\ v # <<>> /\ v[1] \notin White /\ Clean(v)
                              /\ Parameters(v) = SubSeq(ps, i + 1, Len(ps))
  BY DEF Reads
<1>3. r # <<>> /\ r[1] \in White /\ Parameters(r) = Parameters(v) /\ Clean(r)
  BY <1>2, BlankBefore
<1>4. PICK x : x = w
  OBVIOUS
<1>5. x \in Seq(Bytes)
  BY <1>4, DarkAreBytes
<1>6. PICK u : u = w \o r
  OBVIOUS
<1>7. /\ u \in Seq(Bytes) /\ u # <<>> /\ u[1] \notin White /\ Clean(u)
      /\ Token(u) = w /\ AfterToken(u) = r
  BY <1>1, <1>3, <1>6, WordFirst
<1>10. Parameters(u) = <<w>> \o Parameters(r)
  <2>1. ~IsTrailing(w)
    BY <1>1 DEF IsTrailing
  <2> QED
    BY <1>1, <1>7, <2>1, Unfold
<1>11. Parameters(u) = SubSeq(ps, i, Len(ps))
  <2>1. i \in 1..Len(ps) /\ n \in i..Len(ps) /\ ps \in Seq(Seq(Bytes))
    BY DEF WellCut
  <2>2. SubSeq(ps, i, n) = <<ps[i]>> \o SubSeq(ps, i + 1, n)
    BY <2>1, SubSeqRecursiveFirst
  <2> QED
    BY <1>1, <1>2, <1>3, <1>10, <2>2
<1>12. PICK y \in Seq(Bytes) : y = <<Blank>>
  BY SomeBytes
<1>13. Written(ps, i) = y \o x
  <2>1. Written(ps, i) = (y \o <<>>) \o x
    <3>1. i # Len(ps)
      OBVIOUS
    <3> QED
      BY <1>1, <1>4, <1>12, <3>1 DEF Written
  <2>2. y \o <<>> = y
    BY ConcatEmptySeq
  <2> QED
    BY <2>1, <2>2
<1>14. (y \o x) \o r = y \o (x \o r)
  BY <1>5, JoinAssociative
<1>15. y \o x \in Seq(Bytes)
  BY <1>5, ConcatProperties
<1>16. Written(ps, i) \o r = <<Blank>> \o u
  BY <1>4, <1>6, <1>12, <1>13, <1>14
<1> QED
  BY <1>7, <1>11, <1>13, <1>15, <1>16 DEF Reads

LEMMA ParametersRead ==
  ASSUME NEW ps, WellCut(ps), ps # <<>>
  PROVE  Reads(ps, 1, FlattenSeq([k \in 1..Len(ps) |-> Written(ps, k)]))
<1>1. PICK n \in Nat \ {0} : n = Len(ps)
  BY LenProperties, EmptySeq DEF WellCut
<1>2. PICK ss : ss = [k \in 1..n |-> Written(ps, k)]
  OBVIOUS
<1>3. ASSUME NEW i \in 1..n PROVE Written(ps, i) \in Seq(Bytes)
  <2>1. CASE i = n
    BY <1>1, <2>1, LastReads
  <2>2. CASE i # n
    <3>1. PICK r \in Seq(Bytes) : r = <<Blank>> \o <<Colon>>
      BY SomeBytes, OneBefore
    <3>2. ps[i] \in Seq(Bytes)
      BY <1>1, ElementOfSeq DEF WellCut
    <3>3. PICK y \in Seq(Bytes), x \in Seq(Bytes) : y = <<Blank>> /\ x = ps[i]
      BY <3>2, SomeBytes
    <3>4. Written(ps, i) = (y \o <<>>) \o x
      BY <1>1, <2>2, <3>3 DEF Written
    <3>5. y \o <<>> = y
      BY ConcatEmptySeq
    <3> QED
      BY <3>4, <3>5, ConcatProperties
  <2> QED
    BY <2>1, <2>2
<1>4. ss \in Seq(Seq(Bytes)) /\ Len(ss) = n
  <2>1. ss \in [1..n -> Seq(Bytes)]
    BY <1>2, <1>3
  <2> QED
    BY <2>1, SeqDef, LenProperties
<1> DEFINE P == {x \in (1..n) \X Seq(Bytes) : Reads(ps, x[1], x[2])}
<1>5. <<n, ss[n]>> \in P
  <2>1. n \in 1..n
    OBVIOUS
  <2>2. ss[n] = Written(ps, n) /\ ss[n] \in Seq(Bytes)
    BY <1>2, <1>3, <2>1
  <2>3. Reads(ps, n, ss[n])
    BY <1>1, <2>2, LastReads
  <2> QED
    BY <2>1, <2>2, <2>3
<1>6. ASSUME NEW i \in 1..n - 1, NEW r \in Seq(Bytes), <<i + 1, r>> \in P
      PROVE  <<i, ss[i] \o r>> \in P
  <2>1. Reads(ps, i + 1, r)
    BY <1>6
  <2>2. i \in 1..n /\ ss[i] = Written(ps, i)
    BY <1>2
  <2>3. Reads(ps, i, ss[i] \o r) /\ ss[i] \in Seq(Bytes)
    BY <1>1, <2>1, <2>2, WordReads
  <2>4. ss[i] \o r \in Seq(Bytes)
    BY <2>3, ConcatProperties
  <2> QED
    BY <2>2, <2>3, <2>4
<1>7. <<1, FlattenSeq(ss)>> \in P
  <2> HIDE DEF P
  <2> QED
    BY <1>4, <1>5, <1>6, FlattenFromRight
<1>8. Reads(ps, 1, FlattenSeq(ss))
  BY <1>7
<1> QED
  BY <1>1, <1>2, <1>8

-----------------------------------------------------------------------------
(* The message written and read again.                                       *)

\* parse drops the end of the line toRawString writes, and no more.
LEMMA ChompJoin ==
  ASSUME NEW t \in Seq(Bytes), t # <<>>, Clean(t)
  PROVE  Chomp(t \o <<CR, LF>>) = t
<1>1. PICK l \in Nat \ {0} : l = Len(t)
  BY LenProperties, EmptySeq
<1>2. PICK e : e = <<CR, LF>>
  OBVIOUS
<1>3. e \in Seq(Bytes) /\ Len(e) = 2 /\ e[1] = CR /\ e[2] = LF
  <2>1. PICK x \in Bytes, y \in Bytes : x = CR /\ y = LF
    BY SomeBytes
  <2>2. <<x, y>> \in Seq(Bytes)
    OBVIOUS
  <2> QED
    BY <1>2, <2>1, <2>2
<1>4. PICK s : s = t \o e
  OBVIOUS
<1>5. /\ s \in Seq(Bytes) /\ Len(s) = l + 2
      /\ \A i \in 1..l + 2 : s[i] = IF i <= l THEN t[i] ELSE e[i - l]
  <2>1. PICK q \in Nat : q = Len(e)
    BY <1>3
  <2>2. q = 2
    BY <1>3, <2>1
  <2>3. /\ s \in Seq(Bytes) /\ Len(s) = l + q
        /\ \A i \in 1..l + q : s[i] = IF i <= l THEN t[i] ELSE e[i - l]
    <3>1. e \in Seq(Bytes)
      BY <1>3
    <3> QED
      BY <1>1, <1>4, <2>1, <3>1, Join
  <2> QED
    BY <2>2, <2>3
<1>6. s[l + 1] = CR /\ s[l + 2] = LF
  <2>1. l + 1 \in 1..l + 2 /\ l + 2 \in 1..l + 2 /\ ~(l + 1 <= l) /\ ~(l + 2 <= l)
        /\ (l + 1) - l = 1 /\ (l + 2) - l = 2
    OBVIOUS
  <2> QED
    BY <1>3, <1>5, <2>1
<1>7. \A i \in 1..l : s[i] = t[i]
  BY <1>5
<1>8. s[l] \notin {CR, LF}
  <2>1. l \in 1..l
    OBVIOUS
  <2> QED
    BY <1>1, <1>7, <2>1 DEF Clean
<1>9. PICK n \in Nat : /\ n <= l + 2 /\ Chomp(s) \in Seq(Bytes) /\ Len(Chomp(s)) = n
                       /\ \A i \in 1..n : Chomp(s)[i] = s[i]
                       /\ \A k \in n + 1..l + 2 : s[k] \in {CR, LF}
                       /\ n > 0 => s[n] \notin {CR, LF}
  BY <1>5, ChompIs
<1>10. n = l
  <2>1. n # l + 1 /\ n # l + 2
    BY <1>6, <1>9
  <2>2. ~(n < l)
    <3>1. n < l => l \in n + 1..l + 2
      OBVIOUS
    <3> QED
      BY <1>8, <1>9, <3>1
  <2> QED
    BY <1>9, <2>1, <2>2
<1>11. Chomp(s) = t
  BY <1>1, <1>7, <1>9, <1>10, SeqEqual
<1> QED
  BY <1>2, <1>4, <1>11

\* Concatenation by name, for the provers.
Cat(s, t) == s \o t

LEMMA CatAssociative ==
  ASSUME NEW x \in Seq(Bytes), NEW y \in Seq(Bytes), NEW z \in Seq(Bytes)
  PROVE  Cat(Cat(x, y), z) = Cat(x, Cat(y, z)) /\ Cat(x, y) \in Seq(Bytes)
<1>1. x \o y \in Seq(Bytes)
  BY ConcatProperties
<1>2. (x \o y) \o z = x \o (y \o z)
  BY JoinAssociative
<1> QED
  BY <1>1, <1>2 DEF Cat

LEMMA CatFour ==
  ASSUME NEW x \in Seq(Bytes), NEW y \in Seq(Bytes), NEW z \in Seq(Bytes), NEW g \in Seq(Bytes)
  PROVE  Cat(Cat(Cat(x, y), z), g) = Cat(x, Cat(y, Cat(z, g)))
<1>1. PICK yz \in Seq(Bytes) : yz = Cat(y, z)
  BY CatAssociative
<1>2. Cat(Cat(x, y), z) = Cat(x, yz)
  BY <1>1, CatAssociative
<1>3. Cat(Cat(x, yz), g) = Cat(x, Cat(yz, g))
  BY CatAssociative
<1>4. Cat(yz, g) = Cat(y, Cat(z, g))
  BY <1>1, CatAssociative
<1> QED
  BY <1>2, <1>3, <1>4

LEMMA WrittenRead ==
  ASSUME NEW m, WellFormed(m), Head(m.command) # Colon
  PROVE  Parsed(ToRawString(m), NoMessage) = m
<1>1. PICK cmd \in Seq(Dark), pre \in Seq(Dark), ps \in Seq(Seq(Bytes)) :
         /\ cmd = m.command /\ pre = m.prefix /\ ps = m.params
         /\ m = [prefix |-> pre, command |-> cmd, params |-> ps]
         /\ cmd # <<>> /\ Head(cmd) # Colon /\ ps # <<>> /\ WellCut(ps)
  BY DEF WellFormed, WellCut
<1>2. PICK f : f = FlattenSeq([k \in 1..Len(ps) |-> Written(ps, k)])
  OBVIOUS
<1>3. PICK u \in Seq(Bytes) : /\ f = <<Blank>> \o u
                              /\ u # <<>> /\ u[1] \notin White /\ Clean(u)
                              /\ Parameters(u) = SubSeq(ps, 1, Len(ps))
  BY <1>1, <1>2, ParametersRead DEF Reads
<1>4. /\ f \in Seq(Bytes) /\ f[1] \in White /\ Clean(f) /\ SkipBlanks(f) = u
      /\ Getline(f) = f
  <2>1. f \in Seq(Bytes) /\ f[1] \in White /\ Clean(f) /\ SkipBlanks(f) = u
    BY <1>3, BlankBefore
  <2> QED
    BY <2>1, GetlineCleans
<1>5. ParametersOf(u) = ps
  <2>1. ps \in Seq(Seq(Bytes))
    BY <1>1 DEF WellCut
  <2>2. Parameters(u) = ps
    BY <1>3, <2>1, SubSeqFull
  <2> QED
    BY <1>1, <2>2 DEF ParametersOf
<1>6. PICK v : v = cmd \o f
  OBVIOUS
<1>7. /\ v \in Seq(Bytes) /\ v # <<>> /\ v[1] \notin White /\ Clean(v)
      /\ Token(v) = cmd /\ AfterToken(v) = f
  BY <1>1, <1>4, <1>6, WordFirst
<1>8. ~IsTrailing(cmd)
  BY <1>1 DEF IsTrailing
<1>9. CASE pre = <<>>
  <2>1. ToRawString(m) = ((<<>> \o cmd) \o f) \o <<CR, LF>>
    BY <1>1, <1>2, <1>9, Zenon DEF ToRawString, Written
  <2>2. <<>> \o cmd = cmd
    BY ConcatEmptySeq
  <2>3. Chomp(ToRawString(m)) = v
    BY <1>6, <1>7, <2>1, <2>2, ChompJoin
  <2>4. Parsed(ToRawString(m), NoMessage) =
          [prefix |-> <<>>, command |-> cmd, params |-> ParametersOf(SkipBlanks(Getline(f)))]
    BY <1>1, <1>7, <1>8, <2>3, Zenon DEF Parsed
  <2> QED
    BY <1>1, <1>4, <1>5, <1>9, <2>4
<1>10. CASE pre # <<>>
  <2>1. PICK w \in Seq(Dark) : w = <<Colon>> \o pre /\ w # <<>> /\ Head(w) = Colon /\ Tail(w) = pre
    <3>1. PICK one : one = <<Colon>>
      OBVIOUS
    <3>2. one \in Seq(Dark)
      <4>1. PICK c \in Dark : c = Colon
        BY SomeBytes
      <4>2. <<c>> \in Seq(Dark)
        OBVIOUS
      <4> QED
        BY <3>1, <4>1, <4>2
    <3>3. PICK w : w = one \o pre
      OBVIOUS
    <3>4. w \in Seq(Dark)
      BY <3>2, <3>3, ConcatProperties
    <3>5. w = <<Colon>> \o pre
      BY <3>1, <3>3
    <3>6. w # <<>> /\ w[1] = Colon /\ Tail(w) = pre
      <4>1. pre \in Seq(Bytes)
        BY DarkAreBytes
      <4> QED
        BY <3>5, <4>1, SomeBytes, OneBefore
    <3>7. Head(w) = w[1]
      OBVIOUS
    <3> QED
      BY <3>4, <3>5, <3>6, <3>7
  <2>2. PICK b : b = <<Blank>> \o v
    OBVIOUS
  <2>3. /\ b \in Seq(Bytes) /\ b[1] \in White /\ Clean(b)
        /\ Token(b) = cmd /\ AfterToken(b) = f
    BY <1>7, <2>2, BlankBefore
  <2>4. PICK t : t = w \o b
    OBVIOUS
  <2>5. /\ t \in Seq(Bytes) /\ t # <<>> /\ Clean(t)
        /\ Token(t) = w /\ AfterToken(t) = b
    BY <2>1, <2>3, <2>4, WordFirst
  <2>6. PICK x \in Seq(Bytes), y \in Seq(Bytes), z \in Seq(Bytes) :
          x = w /\ y = <<Blank>> /\ z = cmd
    <3>1. w \in Seq(Bytes) /\ cmd \in Seq(Bytes)
      BY DarkAreBytes
    <3> QED
      BY <3>1, SomeBytes
  <2>7. Cat(Cat(Cat(x, y), z), f) = t
    <3>1. PICK g \in Seq(Bytes) : g = f
      BY <1>4
    <3>2. x \in Seq(Bytes) /\ y \in Seq(Bytes) /\ z \in Seq(Bytes)
      BY <2>6
    <3>3. Cat(Cat(Cat(x, y), z), g) = Cat(x, Cat(y, Cat(z, g)))
      BY <3>2, CatFour
    <3>4. Cat(z, f) = v /\ Cat(y, v) = b /\ Cat(x, b) = t
      BY <1>6, <2>2, <2>4, <2>6 DEF Cat
    <3> QED
      BY <3>1, <3>3, <3>4
  <2>8. ToRawString(m) = ((((<<Colon>> \o pre) \o <<Blank>>) \o cmd) \o f) \o <<CR, LF>>
    BY <1>1, <1>2, <1>10, Zenon DEF ToRawString, Written
  <2>9. ToRawString(m) = t \o <<CR, LF>>
    BY <2>1, <2>6, <2>7, <2>8, Zenon DEF Cat
  <2>10. Chomp(ToRawString(m)) = t
    BY <2>5, <2>9, ChompJoin
  <2>11. IsTrailing(w)
    BY <2>1 DEF IsTrailing
  <2>12. Parsed(ToRawString(m), NoMessage) =
           [prefix |-> pre, command |-> cmd, params |-> ParametersOf(SkipBlanks(Getline(f)))]
    BY <1>1, <2>1, <2>3, <2>5, <2>10, <2>11, Zenon DEF Parsed
  <2> QED
    BY <1>1, <1>4, <1>5, <2>12
<1> QED
  BY <1>9, <1>10

-----------------------------------------------------------------------------
(* The messages handled.                                                     *)

Messages ==
  {m \in [prefix : Seq(Dark), command : Seq(Dark), params : Seq(Seq(Bytes))] : WellFormed(m)}

HandledInv == handled \in Seq(Messages)

\* extractAndParseNextCommand cuts at the first end, so that no line holds one.
LEMMA ExtractHandled ==
  ASSUME StreamInv, HandledInv, Extract
  PROVE  HandledInv'
<1>1. PICK n \in Nat : readBuff \in Seq(Bytes) /\ n = Len(readBuff)
  BY Buffer, LenProperties DEF StreamInv
<1>2. PICK end : end = Min(LineEnds)
  OBVIOUS
<1>3. end \in 1..n - 1 /\ \A k \in LineEnds : end <= k
  <2>1. LineEnds \in SUBSET Nat /\ LineEnds \subseteq 1..n - 1
    BY <1>1 DEF LineEnds
  <2>2. LineEnds # {}
    BY DEF Extract
  <2> QED
    BY <1>2, <2>1, <2>2, MinIs
<1>4. PICK l \in Nat : l = end - 1 /\ l <= n
  BY <1>3
<1>5. PICK line : line = SubSeq(readBuff, 1, l)
  OBVIOUS
<1>6. line \in Seq(Bytes) /\ Len(line) = l /\ \A i \in 1..l : line[i] = readBuff[i]
  <2>1. 1 \in Nat \ {0} /\ l <= Len(readBuff) /\ 1 <= l + 1 /\ l - 1 + 1 = l
        /\ \A i \in 1..l : 1 + i - 1 = i
    BY <1>1, <1>4
  <2>2. /\ line \in Seq(Bytes) /\ Len(line) = l - 1 + 1
        /\ \A i \in 1..l - 1 + 1 : line[i] = readBuff[1 + i - 1]
    BY <1>1, <1>5, <2>1, Part
  <2> QED
    BY <2>1, <2>2
<1>7. ASSUME NEW i \in 1..l - 1, line[i] = CR, line[i + 1] = LF PROVE FALSE
  <2>1. i \in 1..l /\ i + 1 \in 1..l /\ i \in 1..n - 1 /\ ~(end <= i)
    BY <1>3, <1>4
  <2>2. i \in LineEnds
    BY <1>1, <1>6, <1>7, <2>1 DEF LineEnds
  <2> QED
    BY <1>3, <2>1, <2>2
<1>8. PICK new : new = Parsed(line, msg)
  OBVIOUS
<1>9. msg' = new /\ handled' = IF new.command = <<>> THEN handled ELSE Append(handled, new)
  <2>1. l = end - 1
    BY <1>4
  <2> QED
    BY <1>2, <1>5, <1>8, <2>1 DEF Extract, Dispatch
<1>10. CASE new.command = <<>>
  BY <1>9, <1>10 DEF HandledInv
<1>11. CASE new.command # <<>>
  <2>1. WellFormed(new)
    <3>1. \A i \in 1..Len(line) - 1 : ~(line[i] = CR /\ line[i + 1] = LF)
      BY <1>6, <1>7
    <3> QED
      BY <1>6, <1>8, <1>11, <3>1, ParsedWell
  <2>2. new \in Messages
    BY <2>1 DEF Messages, WellFormed, WellCut
  <2>3. handled' = Append(handled, new)
    BY <1>9, <1>11
  <2>4. Append(handled, new) \in Seq(Messages)
    BY <2>2, AppendProperties DEF HandledInv
  <2> QED
    BY <2>3, <2>4 DEF HandledInv
<1> QED
  BY <1>10, <1>11

LEMMA HandledStep ==
  ASSUME StreamInv, HandledInv, [Next]_vars
  PROVE  HandledInv'
<1>1. CASE UNCHANGED handled
  BY <1>1 DEF HandledInv
<1>2. Extract \/ UNCHANGED handled
  BY DEF Next, Send, Recv, Return, vars
<1> QED
  BY <1>1, <1>2, ExtractHandled

\* What parse makes of any line, toRawString writes as a line that parse makes the same
\* of, white space, colons and stray carriage returns and all.
THEOREM WrittenAsRead == Spec => []RoundTrip
<1>1. Init => StreamInv /\ RestInv /\ HandledInv
  BY StreamInit DEF Init, HandledInv
<1>2. StreamInv /\ RestInv /\ HandledInv /\ [Next]_vars => StreamInv' /\ RestInv' /\ HandledInv'
  BY StreamStep, HandledStep
<1>3. HandledInv => RoundTrip
  <2> SUFFICES ASSUME HandledInv, NEW k \in DOMAIN handled, Head(handled[k].command) # Colon
               PROVE  Parsed(ToRawString(handled[k]), NoMessage) = handled[k]
    BY DEF RoundTrip
  <2>1. handled[k] \in Messages
    BY LenProperties, ElementOfSeq DEF HandledInv
  <2>2. WellFormed(handled[k])
    BY <2>1 DEF Messages
  <2> QED
    BY <2>2, WrittenRead
<1> QED
  BY <1>1, <1>2, <1>3, PTL DEF Spec
============================================================================
