---------------------------- MODULE QueueLemmas ----------------------------
(***************************************************************************)
(* What List::Append and List::Remove (threads/list.cc) do to a queue, what *)
(* vector::erase does to one, and where a search from the start stops.     *)
(***************************************************************************)
EXTENDS SequencesExt, SequenceTheorems, WellFoundedInduction, TLAPS

\* Appending an element that is not on a queue (List::Append).
LEMMA AppendQueue ==
    ASSUME NEW S, NEW q \in Seq(S), NEW e \in S
    PROVE  /\ Append(q, e) \in Seq(S)
           /\ Append(q, e) # <<>>
           /\ Range(Append(q, e)) = Range(q) \cup {e}
           /\ IsInjective(q) /\ e \notin Range(q) => IsInjective(Append(q, e))
<1>1. /\ Append(q, e) \in Seq(S)
      /\ Append(q, e) # <<>>
      /\ Len(Append(q, e)) = Len(q) + 1
      /\ \A i \in 1..Len(q) : Append(q, e)[i] = q[i]
      /\ Append(q, e)[Len(q) + 1] = e
  BY AppendProperties
<1>2. Range(q) = {q[i] : i \in 1..Len(q)}
  BY RangeEquality
<1>3. Range(Append(q, e)) = {Append(q, e)[i] : i \in 1..(Len(q) + 1)}
  BY <1>1, RangeEquality
<1>4. Len(q) \in Nat
  BY LenProperties
<1>5. Range(Append(q, e)) = Range(q) \cup {e}
  BY <1>1, <1>2, <1>3, <1>4
<1>6. ASSUME IsInjective(q), e \notin Range(q)
      PROVE  IsInjective(Append(q, e))
  <2>1. DOMAIN q = 1..Len(q) /\ DOMAIN Append(q, e) = 1..(Len(q) + 1)
    BY <1>1, LenProperties
  <2>2. \A i, j \in 1..Len(q) : q[i] = q[j] => i = j
    BY <1>6, <2>1 DEF IsInjective
  <2>3. \A i \in 1..Len(q) : q[i] # e
    BY <1>2, <1>6
  <2> QED
    BY <1>1, <1>4, <2>1, <2>2, <2>3 DEF IsInjective
<1> QED
  BY <1>1, <1>5, <1>6

\* Removing the first element of a queue (List::Remove).
LEMMA RemoveQueue ==
    ASSUME NEW S, NEW q \in Seq(S), q # <<>>, IsInjective(q)
    PROVE  /\ Head(q) \in S
           /\ Head(q) \in Range(q)
           /\ Tail(q) \in Seq(S)
           /\ Range(Tail(q)) = Range(q) \ {Head(q)}
           /\ IsInjective(Tail(q))
<1>1. /\ Head(q) \in S
      /\ Tail(q) \in Seq(S)
      /\ Len(Tail(q)) = Len(q) - 1
      /\ \A i \in 1..Len(Tail(q)) : Tail(q)[i] = q[i + 1]
  BY HeadTailProperties
<1>2. Len(q) \in Nat /\ Len(q) # 0 /\ DOMAIN q = 1..Len(q)
  BY LenProperties, EmptySeq
<1>3. Head(q) = q[1]
  BY <1>2
<1>4. Range(q) = {q[i] : i \in 1..Len(q)}
  BY RangeEquality
<1>5. Range(Tail(q)) = {Tail(q)[i] : i \in 1..(Len(q) - 1)}
  BY <1>1, RangeEquality
<1>6. \A i, j \in 1..Len(q) : q[i] = q[j] => i = j
  BY <1>2 DEF IsInjective
<1>7. Head(q) \in Range(q)
  BY <1>2, <1>3, <1>4
<1>8. Range(Tail(q)) \subseteq Range(q) \ {Head(q)}
  <2> SUFFICES ASSUME NEW i \in 1..(Len(q) - 1)
               PROVE  Tail(q)[i] \in Range(q) /\ Tail(q)[i] # Head(q)
    BY <1>5
  <2> QED
    BY <1>1, <1>2, <1>3, <1>4, <1>6
<1>9. Range(q) \ {Head(q)} \subseteq Range(Tail(q))
  <2> SUFFICES ASSUME NEW i \in 1..Len(q), q[i] # Head(q)
               PROVE  q[i] \in Range(Tail(q))
    BY <1>4
  <2>1. i - 1 \in 1..(Len(q) - 1) /\ (i - 1) + 1 = i
    BY <1>2, <1>3
  <2>2. Tail(q)[i - 1] = q[i]
    BY <1>1, <2>1
  <2> QED
    BY <1>5, <2>1, <2>2
<1>10. IsInjective(Tail(q))
  <2>1. DOMAIN Tail(q) = 1..(Len(q) - 1)
    BY <1>1, LenProperties
  <2> QED
    BY <1>1, <1>2, <1>6, <2>1 DEF IsInjective
<1> QED
  BY <1>1, <1>7, <1>8, <1>9, <1>10

\* An empty queue holds nobody.
LEMMA EmptyQueue ==
    /\ IsInjective(<<>>)
    /\ Range(<<>>) = {}
    /\ \A S : <<>> \in Seq(S)
BY DEF IsInjective, Range

\* A queue that is not empty holds somebody.
LEMMA NonEmptyQueue ==
    ASSUME NEW S, NEW q \in Seq(S), Range(q) = {}
    PROVE  q = <<>>
<1> SUFFICES ASSUME q # <<>> PROVE FALSE
  OBVIOUS
<1>1. Range(q) = {q[i] : i \in 1..Len(q)}
  BY RangeEquality
<1>2. Len(q) \in Nat \ {0}
  BY EmptySeq
<1>3. 1 \in 1..Len(q)
  BY <1>2
<1>4. q[1] \in Range(q)
  BY <1>1, <1>3
<1> QED
  BY <1>4

\* Removing the first element of a queue that may hold an element twice.
LEMMA TailQueue ==
    ASSUME NEW S, NEW q \in Seq(S), q # <<>>
    PROVE  /\ Head(q) \in Range(q)
           /\ Head(q) \in S
           /\ Tail(q) \in Seq(S)
           /\ Range(Tail(q)) \subseteq Range(q)
<1>1. /\ Head(q) \in S
      /\ Tail(q) \in Seq(S)
      /\ Len(Tail(q)) = Len(q) - 1
      /\ \A i \in 1..Len(Tail(q)) : Tail(q)[i] = q[i + 1]
  BY HeadTailProperties
<1>2. Len(q) \in Nat /\ Len(q) # 0
  BY LenProperties, EmptySeq
<1>3. Range(q) = {q[i] : i \in 1..Len(q)}
  BY RangeEquality
<1>4. Range(Tail(q)) = {Tail(q)[i] : i \in 1..(Len(q) - 1)}
  BY <1>1, RangeEquality
<1>5. Head(q) = q[1]
  BY <1>2
<1> QED
  BY <1>1, <1>2, <1>3, <1>4, <1>5

\* Removing the element at an index (vector::erase).
LEMMA EraseQueue ==
    ASSUME NEW S, NEW q \in Seq(S), NEW k \in 1..Len(q)
    PROVE  /\ RemoveAt(q, k) \in Seq(S)
           /\ Range(RemoveAt(q, k)) \subseteq Range(q)
           /\ \A j \in 1..Len(q) : j # k => q[j] \in Range(RemoveAt(q, k))
<1> DEFINE front == SubSeq(q, 1, k - 1)
           back == SubSeq(q, k + 1, Len(q))
<1>1. Len(q) \in Nat /\ \A j \in 1..Len(q) : q[j] \in S
  BY LenProperties, ElementOfSeq
<1>2. /\ front \in Seq(S)
      /\ Len(front) = k - 1
      /\ \A j \in 1..(k - 1) : front[j] = q[j]
  BY <1>1, SubSeqProperties
<1>3. /\ back \in Seq(S)
      /\ Len(back) = Len(q) - k
      /\ \A j \in 1..(Len(q) - k) : back[j] = q[k + j]
  BY <1>1, SubSeqProperties
<1> HIDE DEF front, back
<1>4. RemoveAt(q, k) = front \o back
  BY DEF RemoveAt, front, back
<1>5. RemoveAt(q, k) \in Seq(S)
  BY <1>2, <1>3, <1>4, ConcatProperties
<1>6. Range(RemoveAt(q, k)) = Range(front) \cup Range(back)
  BY <1>2, <1>3, <1>4, RangeConcatenation
<1>7. /\ Range(q) = {q[j] : j \in 1..Len(q)}
      /\ Range(front) = {front[j] : j \in 1..(k - 1)}
      /\ Range(back) = {back[j] : j \in 1..(Len(q) - k)}
  BY <1>2, <1>3, RangeEquality
<1>8. Range(front) \subseteq Range(q) /\ Range(back) \subseteq Range(q)
  BY <1>1, <1>2, <1>3, <1>7
<1>9. ASSUME NEW j \in 1..Len(q), j # k
      PROVE  q[j] \in Range(front) \cup Range(back)
  <2>1. CASE j < k
    BY <1>2, <1>7, <2>1
  <2>2. CASE j > k
    <3>1. j - k \in 1..(Len(q) - k) /\ k + (j - k) = j
      BY <1>1, <2>2
    <3>2. back[j - k] = q[j]
      BY <1>3, <3>1
    <3> QED
      BY <1>7, <3>1, <3>2
  <2> QED
    BY <1>9, <2>1, <2>2
<1> QED
  BY <1>5, <1>6, <1>8, <1>9

\* A search that starts at 0 stops at the first index it looks for, if there is
\* one (BitMap::Find, the loops over unAckedMessages and msgQueue).
LEMMA MinOfNat ==
    ASSUME NEW S \in SUBSET Nat, S # {}
    PROVE  /\ Min(S) \in S
           /\ \A x \in S : Min(S) <= x
<1> DEFINE R == {ss \in Nat \X Nat : ss[1] < ss[2]}
<1>1. IsWellFoundedOn(R, Nat)
  BY NatLessThanWellFounded DEF OpToRel
<1> HIDE DEF R
<1>2. PICK x \in S : \A y \in S : ~(<<y, x>> \in R)
  BY <1>1, WFMin
<1>3. \A y \in S : x <= y
  <2> SUFFICES ASSUME NEW y \in S, y < x PROVE FALSE
    OBVIOUS
  <2>1. <<y, x>> \in R
    BY DEF R
  <2> QED
    BY <1>2, <2>1
<1> QED
  BY <1>3 DEF Min

=============================================================================
