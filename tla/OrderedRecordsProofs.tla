------------------------ MODULE OrderedRecordsProofs ------------------------
(****************************************************************************)
(* What the operators on sequences of records preserve: the lemmas that    *)
(* the proofs about the queues cite.                                       *)
(****************************************************************************)
EXTENDS OrderedRecords, SequenceTheorems, TLAPS

\* What a call appends: the next n numbers, in a proper sequence.
LEMMA NewRecords ==
    ASSUME NEW n \in Nat, NEW a \in Nat
    PROVE  LET new == [i \in 1 .. n |-> a + i]
           IN  /\ new \in Seq(Record)
               /\ ToSet(new) = (a + 1) .. (a + n)
               /\ Increasing(new)
<1> DEFINE new == [i \in 1 .. n |-> a + i]
<1>1. new \in [1 .. n -> Record]
  BY DEF Record
<1>2. new \in Seq(Record) /\ Len(new) = n
  BY <1>1
<1>3. ASSUME NEW x \in (a + 1) .. (a + n) PROVE x \in ToSet(new)
  <2>1. new[x - a] = x /\ x - a \in 1 .. n
    OBVIOUS
  <2> QED BY <2>1, <1>2 DEF ToSet
<1>4. ToSet(new) \subseteq (a + 1) .. (a + n)
  BY <1>2 DEF ToSet
<1>5. Increasing(new)
  BY <1>2 DEF Increasing
<1> QED
  BY <1>2, <1>3, <1>4, <1>5

\* A concatenation holds what its parts hold.
LEMMA ToSetConcat ==
    ASSUME NEW S, NEW s \in Seq(S), NEW t \in Seq(S)
    PROVE  ToSet(s \o t) = ToSet(s) \cup ToSet(t)
<1>1. ToSet(s \o t) \subseteq ToSet(s) \cup ToSet(t)
  BY ConcatProperties, LenProperties DEF ToSet
<1>2. ToSet(s) \subseteq ToSet(s \o t)
  BY ConcatProperties, LenProperties DEF ToSet
<1>3. ASSUME NEW i \in 1 .. Len(t) PROVE t[i] \in ToSet(s \o t)
  <2>1. (s \o t)[Len(s) + i] = t[i] /\ Len(s) + i \in 1 .. Len(s \o t)
    BY ConcatProperties, LenProperties
  <2> QED
    BY <2>1, ConcatProperties, LenProperties DEF ToSet
<1> QED
  BY <1>1, <1>2, <1>3, LenProperties DEF ToSet

\* A nonempty sequence holds its head and what its tail holds.
LEMMA ToSetHeadTail ==
    ASSUME NEW S, NEW s \in Seq(S), s # <<>>
    PROVE  ToSet(s) = {Head(s)} \cup ToSet(Tail(s))
<1>0. s \in [1 .. Len(s) -> S] /\ Len(s) \in Nat /\ Len(s) # 0 /\ Head(s) = s[1]
  BY EmptySeq, LenProperties
<1>1. Len(Tail(s)) = Len(s) - 1 /\ Tail(s) \in Seq(S) /\ \A i \in 1 .. Len(s) - 1 : Tail(s)[i] = s[i + 1]
  BY HeadTailProperties
<1>2. ASSUME NEW i \in 1 .. Len(s) PROVE s[i] \in {Head(s)} \cup ToSet(Tail(s))
  <2>1. CASE i = 1
    BY <1>0, <2>1
  <2>2. CASE i # 1
    <3>1. i - 1 \in 1 .. Len(s) - 1 /\ Tail(s)[i - 1] = s[i]
      BY <1>0, <1>1, <2>2
    <3> QED
      BY <3>1, <1>1, LenProperties DEF ToSet
  <2> QED
    BY <2>1, <2>2
<1>3. ASSUME NEW i \in 1 .. Len(s) - 1 PROVE Tail(s)[i] \in ToSet(s)
  BY <1>0, <1>1 DEF ToSet
<1>4. Head(s) \in ToSet(s)
  BY <1>0 DEF ToSet
<1> QED
  BY <1>0, <1>1, <1>2, <1>3, <1>4, LenProperties DEF ToSet

\* Append adds one element.
LEMMA ToSetAppend ==
    ASSUME NEW S, NEW s \in Seq(S), NEW e \in S
    PROVE  Append(s, e) \in Seq(S) /\ ToSet(Append(s, e)) = ToSet(s) \cup {e}
<1>1. Append(s, e) \in Seq(S) /\ Len(Append(s, e)) = Len(s) + 1 /\ Len(s) \in Nat
  OBVIOUS
<1>2. \A i \in 1 .. Len(s) + 1 : Append(s, e)[i] = IF i <= Len(s) THEN s[i] ELSE e
  OBVIOUS
<1>3. Append(s, e)[Len(s) + 1] = e
  BY <1>1, <1>2
<1> QED
  BY <1>1, <1>2, <1>3, LenProperties DEF ToSet

\* Two increasing sequences, one before the other, concatenate to one.
LEMMA IncreasingConcat ==
    ASSUME NEW s \in Seq(Record), NEW t \in Seq(Record),
           Increasing(s), Increasing(t), Before(s, t)
    PROVE  Increasing(s \o t)
<1>1. ASSUME NEW i \in 1 .. Len(s \o t), NEW j \in 1 .. Len(s \o t), i < j
      PROVE  (s \o t)[i] < (s \o t)[j]
  <2>1. CASE j <= Len(s)
    BY <1>1, <2>1, ConcatProperties, LenProperties DEF Increasing
  <2>2. CASE i > Len(s)
    <3>1. (s \o t)[i] = t[i - Len(s)] /\ i - Len(s) \in 1 .. Len(t)
      BY <1>1, <2>2, ConcatProperties, LenProperties
    <3>2. (s \o t)[j] = t[j - Len(s)] /\ j - Len(s) \in 1 .. Len(t)
      BY <1>1, <2>2, ConcatProperties, LenProperties
    <3> QED
      BY <1>1, <3>1, <3>2, LenProperties DEF Increasing
  <2>3. CASE i <= Len(s) /\ j > Len(s)
    <3>1. (s \o t)[i] = s[i] /\ i \in 1 .. Len(s)
      BY <1>1, <2>3, ConcatProperties, LenProperties
    <3>2. (s \o t)[j] = t[j - Len(s)] /\ j - Len(s) \in 1 .. Len(t)
      BY <1>1, <2>3, ConcatProperties, LenProperties
    <3>3. s[i] \in ToSet(s) /\ t[j - Len(s)] \in ToSet(t)
      BY <3>1, <3>2, LenProperties DEF ToSet
    <3> QED
      BY <3>1, <3>2, <3>3 DEF Before
  <2> QED
    BY <2>1, <2>2, <2>3, LenProperties
<1> QED
  BY <1>1 DEF Increasing

\* The head of an increasing sequence comes before its tail.
LEMMA IncreasingTail ==
    ASSUME NEW s \in Seq(Record), s # <<>>, Increasing(s)
    PROVE  Increasing(Tail(s)) /\ Before(<<Head(s)>>, Tail(s))
<1>0. Len(s) \in Nat /\ Len(s) # 0 /\ Head(s) = s[1]
  BY EmptySeq, LenProperties
<1>1. Len(Tail(s)) = Len(s) - 1 /\ Tail(s) \in Seq(Record) /\ \A i \in 1 .. Len(s) - 1 : Tail(s)[i] = s[i + 1]
  BY HeadTailProperties
<1>2. Increasing(Tail(s))
  BY <1>0, <1>1 DEF Increasing
<1>3. ToSet(<<Head(s)>>) = {Head(s)}
  BY DEF ToSet
<1>4. \A i \in 1 .. Len(Tail(s)) : s[1] < Tail(s)[i]
  BY <1>0, <1>1 DEF Increasing
<1> QED
  BY <1>0, <1>1, <1>2, <1>3, <1>4, LenProperties DEF Before, ToSet

\* A record newer than all of an increasing sequence may be appended to it.
LEMMA IncreasingAppend ==
    ASSUME NEW s \in Seq(Record), NEW e \in Record,
           Increasing(s), \A x \in ToSet(s) : x < e
    PROVE  Increasing(Append(s, e))
<1>1. Len(Append(s, e)) = Len(s) + 1 /\ Len(s) \in Nat
  OBVIOUS
<1>2. \A i \in 1 .. Len(s) + 1 : Append(s, e)[i] = IF i <= Len(s) THEN s[i] ELSE e
  OBVIOUS
<1>3. \A i \in 1 .. Len(s) : s[i] < e
  BY LenProperties DEF ToSet
<1> QED
  BY <1>1, <1>2, <1>3 DEF Increasing

\* A concatenation extends its first part.
LEMMA PrefixOfConcat ==
    ASSUME NEW S, NEW s \in Seq(S), NEW t \in Seq(S)
    PROVE  IsPrefix(s, s \o t)
<1>1. Len(s) <= Len(s \o t) /\ Len(s) \in Nat
  BY ConcatProperties, LenProperties
<1>2. SubSeq(s \o t, 1, Len(s)) = SubSeq(s, 1, Len(s))
  BY ConcatProperties, LenProperties
<1> QED
  BY <1>1, <1>2 DEF IsPrefix
=============================================================================
