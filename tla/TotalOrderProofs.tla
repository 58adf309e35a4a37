-------------------------- MODULE TotalOrderProofs --------------------------
(***************************************************************************)
(* Proofs about the total ordering of messages, for any number of members  *)
(* and of requests: the order in which NetworkThread passes messages to    *)
(* processMessage, and that no answer is counted that nobody waits for.    *)
(***************************************************************************)
EXTENDS TotalOrder, QueueLemmas, FiniteSetTheorems

USE GroupAssumption

-----------------------------------------------------------------------------
(* What the steps of the ordering do to a queue. *)

\* A packet, whatever the clock says.
Text == [from : Member, type : {"TIMESTAMP", "VERIFY", "ANSWER"}, timeStamp : Nat]

\* The stamps of a queue increase.
InOrder(q) ==
    \A i, j \in 1..Len(q) : i < j => q[i].timeStamp < q[j].timeStamp

LEMMA TextStamps ==
    ASSUME NEW q \in Seq(Text)
    PROVE  /\ Len(q) \in Nat
           /\ \A i \in 1..Len(q) : q[i] \in Text /\ q[i].timeStamp \in Nat
           /\ Range(q) = {q[i] : i \in 1..Len(q)}
<1>1. \A i \in 1..Len(q) : q[i] \in Text
  BY ElementOfSeq
<1>2. \A p \in Text : p.timeStamp \in Nat
  BY DEF Text
<1> QED
  BY <1>1, <1>2, LenProperties, RangeEquality

\* Where the search of steps 3 and 5 stops.
LEMMA FirstLaterPlace ==
    ASSUME NEW q \in Seq(Text), NEW stamp \in Nat
    PROVE  /\ FirstLater(q, stamp) \in 1..(Len(q) + 1)
           /\ \A i \in 1..Len(q) : i < FirstLater(q, stamp) => q[i].timeStamp <= stamp
           /\ FirstLater(q, stamp) <= Len(q) => q[FirstLater(q, stamp)].timeStamp > stamp
<1> DEFINE later == {i \in 1..Len(q) : q[i].timeStamp > stamp}
           S == later \cup {Len(q) + 1}
<1>1. Len(q) \in Nat /\ \A i \in 1..Len(q) : q[i].timeStamp \in Nat
  BY TextStamps
<1>2. S \in SUBSET Nat /\ S # {}
  BY <1>1
<1>3. FirstLater(q, stamp) = Min(S)
  BY DEF FirstLater
<1> HIDE DEF S
<1>4. Min(S) \in S /\ \A x \in S : Min(S) <= x
  BY <1>2, MinOfNat
<1> USE DEF S
<1>5. Min(S) \in 1..(Len(q) + 1)
  BY <1>1, <1>4
<1>6. ASSUME NEW i \in 1..Len(q), i < Min(S) PROVE q[i].timeStamp <= stamp
  <2>1. i \notin later
    BY <1>1, <1>4, <1>5, <1>6
  <2> QED
    BY <1>1, <2>1
<1>7. ASSUME Min(S) <= Len(q) PROVE q[Min(S)].timeStamp > stamp
  BY <1>1, <1>4, <1>7
<1> QED
  BY <1>3, <1>5, <1>6, <1>7

\* The two parts of a queue.
LEMMA Parts ==
    ASSUME NEW q \in Seq(Text), NEW f \in 1..(Len(q) + 1)
    PROVE  /\ SubSeq(q, 1, f - 1) \in Seq(Text)
           /\ Len(SubSeq(q, 1, f - 1)) = f - 1
           /\ \A i \in 1..(f - 1) : SubSeq(q, 1, f - 1)[i] = q[i]
           /\ SubSeq(q, f, Len(q)) \in Seq(Text)
           /\ Len(SubSeq(q, f, Len(q))) = Len(q) - f + 1
           /\ \A i \in 1..(Len(q) - f + 1) : SubSeq(q, f, Len(q))[i] = q[f + i - 1]
<1>1. Len(q) \in Nat /\ \A i \in 1..Len(q) : q[i] \in Text
  BY LenProperties, ElementOfSeq
<1>2. /\ SubSeq(q, 1, f - 1) \in Seq(Text)
      /\ Len(SubSeq(q, 1, f - 1)) = IF 1 <= f - 1 THEN f - 1 - 1 + 1 ELSE 0
      /\ \A i \in 1..(f - 1 - 1 + 1) : SubSeq(q, 1, f - 1)[i] = q[1 + i - 1]
  <2>1. 1 \in Int /\ f - 1 \in Int /\ \A i \in 1..(f - 1) : q[i] \in Text
    BY <1>1
  <2> QED
    BY <2>1, SubSeqProperties
<1>3. /\ SubSeq(q, f, Len(q)) \in Seq(Text)
      /\ Len(SubSeq(q, f, Len(q))) = IF f <= Len(q) THEN Len(q) - f + 1 ELSE 0
      /\ \A i \in 1..(Len(q) - f + 1) : SubSeq(q, f, Len(q))[i] = q[f + i - 1]
  <2>1. f \in Int /\ Len(q) \in Int /\ \A i \in f..Len(q) : q[i] \in Text
    BY <1>1
  <2> QED
    BY <2>1, SubSeqProperties
<1> QED
  BY <1>1, <1>2, <1>3

LEMMA PartRanges ==
    ASSUME NEW q \in Seq(Text), NEW f \in 1..(Len(q) + 1)
    PROVE  /\ Range(SubSeq(q, 1, f - 1)) = {q[i] : i \in 1..(f - 1)}
           /\ Range(SubSeq(q, f, Len(q))) = {q[i] : i \in f..Len(q)}
           /\ Range(q) = Range(SubSeq(q, 1, f - 1)) \cup Range(SubSeq(q, f, Len(q)))
<1> DEFINE front == SubSeq(q, 1, f - 1)
           back == SubSeq(q, f, Len(q))
<1>1. Len(q) \in Nat
  BY LenProperties
<1>2. /\ Range(q) = {q[i] : i \in 1..Len(q)}
      /\ Range(front) = {front[i] : i \in 1..(f - 1)}
      /\ Range(back) = {back[i] : i \in 1..(Len(q) - f + 1)}
  <2>1. /\ front \in Seq(Text) /\ Len(front) = f - 1
        /\ back \in Seq(Text) /\ Len(back) = Len(q) - f + 1
    BY Parts
  <2> HIDE DEF front, back
  <2>2. Range(front) = {front[i] : i \in 1..(f - 1)}
    BY <2>1, TextStamps
  <2>3. Range(back) = {back[i] : i \in 1..(Len(q) - f + 1)}
    BY <2>1, TextStamps
  <2> QED
    BY <2>2, <2>3, TextStamps
<1>3. Range(front) = {q[i] : i \in 1..(f - 1)}
  BY <1>2, Parts
<1>4. Range(back) = {q[i] : i \in f..Len(q)}
  <2>1. ASSUME NEW i \in f..Len(q) PROVE q[i] \in Range(back)
    <3>1. i - f + 1 \in 1..(Len(q) - f + 1) /\ f + (i - f + 1) - 1 = i
      BY <1>1
    <3>2. back[i - f + 1] = q[i]
      BY <3>1, Parts
    <3> QED
      BY <1>2, <3>1, <3>2
  <2>2. ASSUME NEW i \in 1..(Len(q) - f + 1) PROVE back[i] \in {q[j] : j \in f..Len(q)}
    <3>1. f + i - 1 \in f..Len(q)
      BY <1>1
    <3>2. back[i] = q[f + i - 1]
      BY Parts
    <3> QED
      BY <3>1, <3>2
  <2> QED
    BY <1>2, <2>1, <2>2
<1>5. 1..Len(q) = 1..(f - 1) \cup f..Len(q)
  BY <1>1
<1> HIDE DEF front, back
<1>6. Range(q) = Range(front) \cup Range(back)
  BY <1>2, <1>3, <1>4, <1>5
<1> QED
  BY <1>3, <1>4, <1>6 DEF front, back

\* Step 3 keeps the queue in order and loses nothing.
LEMMA InsertQueue ==
    ASSUME NEW q \in Seq(Text), InOrder(q), NEW msg \in Text,
           \A p \in Range(q) : p.timeStamp # msg.timeStamp
    PROVE  /\ Insert(q, msg) \in Seq(Text)
           /\ InOrder(Insert(q, msg))
           /\ Range(Insert(q, msg)) = Range(q) \cup {msg}
<1> DEFINE f == FirstLater(q, msg.timeStamp)
           front == SubSeq(q, 1, f - 1)
           back == SubSeq(q, f, Len(q))
           r == (front \o <<msg>>) \o back
<1>1. Len(q) \in Nat /\ msg.timeStamp \in Nat /\ \A i \in 1..Len(q) : q[i].timeStamp \in Nat
  <2>1. msg.timeStamp \in Nat
    BY DEF Text
  <2> QED
    BY <2>1, TextStamps
<1>2. /\ f \in 1..(Len(q) + 1)
      /\ \A i \in 1..Len(q) : i < f => q[i].timeStamp <= msg.timeStamp
      /\ f <= Len(q) => q[f].timeStamp > msg.timeStamp
  BY <1>1, FirstLaterPlace
<1>3. Insert(q, msg) = r
  BY DEF Insert, InsertAt
<1> HIDE DEF f
<1>4. /\ front \in Seq(Text) /\ Len(front) = f - 1
      /\ \A i \in 1..(f - 1) : front[i] = q[i]
      /\ back \in Seq(Text) /\ Len(back) = Len(q) - f + 1
      /\ \A i \in 1..(Len(q) - f + 1) : back[i] = q[f + i - 1]
  BY <1>2, Parts
<1>5. Range(q) = Range(front) \cup Range(back)
  BY <1>2, PartRanges
<1> HIDE DEF front, back
<1>6. /\ <<msg>> \in Seq(Text) /\ Len(<<msg>>) = 1 /\ <<msg>>[1] = msg
      /\ Range(<<msg>>) = {msg}
  <2>1. <<msg>> \in Seq(Text) /\ Len(<<msg>>) = 1 /\ <<msg>>[1] = msg
    OBVIOUS
  <2>2. Range(<<msg>>) = {<<msg>>[i] : i \in 1..1}
    BY <2>1, RangeEquality
  <2> QED
    BY <2>1, <2>2
<1>7. /\ front \o <<msg>> \in Seq(Text)
      /\ Len(front \o <<msg>>) = f
      /\ \A i \in 1..f : (front \o <<msg>>)[i] = IF i < f THEN q[i] ELSE msg
      /\ Range(front \o <<msg>>) = Range(front) \cup {msg}
  <2>1. /\ front \o <<msg>> \in Seq(Text)
        /\ Len(front \o <<msg>>) = (f - 1) + 1
        /\ \A i \in 1..((f - 1) + 1) : (front \o <<msg>>)[i] =
               IF i <= f - 1 THEN front[i] ELSE <<msg>>[i - (f - 1)]
    BY <1>4, <1>6, ConcatProperties
  <2>2. \A i \in 1..f : (front \o <<msg>>)[i] = IF i < f THEN q[i] ELSE msg
    BY <1>2, <1>4, <1>6, <2>1
  <2>3. Range(front \o <<msg>>) = Range(front) \cup Range(<<msg>>)
    <3>1. front \in Seq(Text) /\ <<msg>> \in Seq(Text)
      BY <1>4, <1>6
    <3> QED
      BY <3>1, RangeConcatenation, ZenonT(40)
  <2>4. (f - 1) + 1 = f
    BY <1>2
  <2> QED
    BY <1>6, <2>1, <2>2, <2>3, <2>4
<1>8. /\ r \in Seq(Text)
      /\ Len(r) = Len(q) + 1
      /\ \A i \in 1..(Len(q) + 1) : r[i] = IF i < f THEN q[i] ELSE IF i = f THEN msg ELSE q[i - 1]
  <2>1. /\ r \in Seq(Text)
        /\ Len(r) = f + (Len(q) - f + 1)
        /\ \A i \in 1..(f + (Len(q) - f + 1)) : r[i] =
               IF i <= f THEN (front \o <<msg>>)[i] ELSE back[i - f]
    BY <1>4, <1>7, ConcatProperties
  <2>2. f + (Len(q) - f + 1) = Len(q) + 1
    BY <1>1, <1>2
  <2>3. ASSUME NEW i \in 1..(Len(q) + 1), i > f PROVE r[i] = q[i - 1]
    <3>1. i - f \in 1..(Len(q) - f + 1) /\ f + (i - f) - 1 = i - 1
      BY <1>1, <1>2, <2>3
    <3> QED
      BY <1>2, <1>4, <2>1, <2>2, <2>3, <3>1
  <2> QED
    BY <1>2, <1>7, <2>1, <2>2, <2>3
<1>9. Range(r) = Range(q) \cup {msg}
  <2>1. Range(r) = Range(front \o <<msg>>) \cup Range(back)
    <3> DEFINE s == front \o <<msg>>
    <3>1. s \in Seq(Text) /\ back \in Seq(Text)
      BY <1>4, <1>7
    <3> HIDE DEF s
    <3>2. Range(s \o back) = Range(s) \cup Range(back)
      BY <3>1, RangeConcatenation
    <3> QED
      BY <3>2 DEF s
  <2> QED
    BY <1>5, <1>7, <2>1
<1> HIDE DEF r
<1>10. \A i \in 1..Len(q) : q[i] \in Range(q)
  BY RangeEquality
<1>11. ASSUME NEW i \in 1..(Len(q) + 1), NEW j \in 1..(Len(q) + 1), i < j
       PROVE  r[i].timeStamp < r[j].timeStamp
  <2>1. CASE j < f
    BY <1>1, <1>2, <1>8, <1>11, <2>1 DEF InOrder
  <2>2. CASE j = f
    <3>1. i \in 1..Len(q) /\ r[i] = q[i] /\ r[j] = msg
      BY <1>1, <1>2, <1>8, <1>11, <2>2
    <3>2. q[i].timeStamp <= msg.timeStamp /\ q[i].timeStamp # msg.timeStamp
      BY <1>2, <1>10, <1>11, <2>2, <3>1
    <3> QED
      BY <1>1, <3>1, <3>2
  <2>3. CASE j > f /\ i = f
    <3>1. f \in 1..Len(q) /\ j - 1 \in 1..Len(q) /\ f <= j - 1 /\ r[i] = msg /\ r[j] = q[j - 1]
      BY <1>1, <1>2, <1>8, <1>11, <2>3
    <3>2. q[f].timeStamp > msg.timeStamp /\ q[f].timeStamp <= q[j - 1].timeStamp
      BY <1>1, <1>2, <3>1 DEF InOrder
    <3> QED
      BY <1>1, <3>1, <3>2
  <2>4. CASE j > f /\ i < f
    <3>1. i \in 1..Len(q) /\ j - 1 \in 1..Len(q) /\ i < j - 1 /\ r[i] = q[i] /\ r[j] = q[j - 1]
      BY <1>1, <1>2, <1>8, <1>11, <2>4
    <3> QED
      BY <3>1 DEF InOrder
  <2>5. CASE j > f /\ i > f
    <3>1. i - 1 \in 1..Len(q) /\ j - 1 \in 1..Len(q) /\ i - 1 < j - 1 /\ r[i] = q[i - 1] /\ r[j] = q[j - 1]
      BY <1>1, <1>2, <1>8, <1>11, <2>5
    <3> QED
      BY <3>1 DEF InOrder
  <2> QED
    BY <1>2, <2>1, <2>2, <2>3, <2>4, <2>5
<1> QED
  BY <1>3, <1>8, <1>9, <1>11 DEF InOrder

\* Step 5 takes the messages that are early enough, and only those.
LEMMA SplitQueue ==
    ASSUME NEW q \in Seq(Text), InOrder(q), NEW e \in Nat
    PROVE  /\ Stable(q, e) \in Seq(Text) /\ Unstable(q, e) \in Seq(Text)
           /\ InOrder(Stable(q, e)) /\ InOrder(Unstable(q, e))
           /\ Range(q) = Range(Stable(q, e)) \cup Range(Unstable(q, e))
           /\ \A p \in Range(Stable(q, e)) : p.timeStamp <= e
           /\ \A p \in Range(Unstable(q, e)) : p.timeStamp > e
<1> DEFINE f == FirstLater(q, e)
<1>1. Len(q) \in Nat /\ \A i \in 1..Len(q) : q[i].timeStamp \in Nat
  BY TextStamps
<1>2. /\ f \in 1..(Len(q) + 1)
      /\ \A i \in 1..Len(q) : i < f => q[i].timeStamp <= e
      /\ f <= Len(q) => q[f].timeStamp > e
  BY FirstLaterPlace
<1>3. Stable(q, e) = SubSeq(q, 1, f - 1) /\ Unstable(q, e) = SubSeq(q, f, Len(q))
  BY DEF Stable, Unstable
<1> HIDE DEF f
<1>4. Stable(q, e) \in Seq(Text) /\ Unstable(q, e) \in Seq(Text)
  BY <1>2, <1>3, Parts
<1>5. InOrder(Stable(q, e))
  BY <1>1, <1>2, <1>3, Parts DEF InOrder
<1>6. InOrder(Unstable(q, e))
  <2>1. Len(Unstable(q, e)) = Len(q) - f + 1
    BY <1>2, <1>3, Parts
  <2>2. ASSUME NEW i \in 1..(Len(q) - f + 1), NEW j \in 1..(Len(q) - f + 1), i < j
        PROVE  Unstable(q, e)[i].timeStamp < Unstable(q, e)[j].timeStamp
    <3>1. f + i - 1 \in 1..Len(q) /\ f + j - 1 \in 1..Len(q) /\ f + i - 1 < f + j - 1
      BY <1>1, <1>2, <2>2
    <3>2. Unstable(q, e)[i] = q[f + i - 1] /\ Unstable(q, e)[j] = q[f + j - 1]
      BY <1>2, <1>3, Parts
    <3> QED
      BY <3>1, <3>2 DEF InOrder
  <2> QED
    BY <2>1, <2>2 DEF InOrder
<1>7. /\ Range(Stable(q, e)) = {q[i] : i \in 1..(f - 1)}
      /\ Range(Unstable(q, e)) = {q[i] : i \in f..Len(q)}
      /\ Range(q) = Range(Stable(q, e)) \cup Range(Unstable(q, e))
  BY <1>2, <1>3, PartRanges
<1>8. \A p \in Range(Stable(q, e)) : p.timeStamp <= e
  BY <1>1, <1>2, <1>7
<1>9. ASSUME NEW i \in f..Len(q) PROVE q[i].timeStamp > e
  <2>1. f \in 1..Len(q) /\ i \in 1..Len(q) /\ q[f].timeStamp > e
    BY <1>1, <1>2
  <2>2. i = f \/ q[f].timeStamp < q[i].timeStamp
    BY <1>1, <1>2, <2>1 DEF InOrder
  <2> QED
    BY <1>1, <2>1, <2>2
<1> QED
  BY <1>4, <1>5, <1>6, <1>7, <1>8, <1>9

-----------------------------------------------------------------------------
(* Sequences that grow and shrink at their ends. *)

\* The next message is taken from the mailbox.
LEMMA TakeMail ==
    ASSUME NEW q \in Seq(Text), InOrder(q), q # <<>>
    PROVE  /\ Head(q) \in Text
           /\ Tail(q) \in Seq(Text)
           /\ InOrder(Tail(q))
           /\ Range(q) = Range(Tail(q)) \cup {Head(q)}
           /\ \A p \in Range(Tail(q)) : Head(q).timeStamp < p.timeStamp
<1>1. /\ Head(q) \in Text /\ Head(q) = q[1]
      /\ Tail(q) \in Seq(Text)
      /\ Len(Tail(q)) = Len(q) - 1
      /\ \A i \in 1..(Len(q) - 1) : Tail(q)[i] = q[i + 1]
      /\ Len(q) \in Nat \ {0}
  BY HeadTailProperties, EmptySeq
<1>2. Range(q) = {q[i] : i \in 1..Len(q)} /\ Range(Tail(q)) = {Tail(q)[i] : i \in 1..(Len(q) - 1)}
  BY <1>1, RangeEquality
<1>3. ASSUME NEW i \in 1..(Len(q) - 1) PROVE i + 1 \in 1..Len(q) /\ 1 < i + 1
  BY <1>1
<1>4. InOrder(Tail(q))
  <2>1. ASSUME NEW i \in 1..(Len(q) - 1), NEW j \in 1..(Len(q) - 1), i < j
        PROVE  Tail(q)[i].timeStamp < Tail(q)[j].timeStamp
    <3>1. i + 1 \in 1..Len(q) /\ j + 1 \in 1..Len(q) /\ i + 1 < j + 1
      BY <1>1, <2>1
    <3>2. q[i + 1].timeStamp < q[j + 1].timeStamp
      BY <3>1 DEF InOrder
    <3> QED
      BY <1>1, <3>2
  <2> QED
    BY <1>1, <2>1 DEF InOrder
<1>5. \A p \in Range(Tail(q)) : Head(q).timeStamp < p.timeStamp
  <2>1. ASSUME NEW i \in 1..(Len(q) - 1) PROVE Head(q).timeStamp < Tail(q)[i].timeStamp
    <3>1. 1 \in 1..Len(q)
      BY <1>1
    <3>2. q[1].timeStamp < q[i + 1].timeStamp
      BY <1>3, <3>1 DEF InOrder
    <3> QED
      BY <1>1, <3>2
  <2> QED
    BY <1>2, <2>1
<1>6. Range(q) = Range(Tail(q)) \cup {Head(q)}
  <2>1. ASSUME NEW i \in 1..Len(q), i # 1 PROVE q[i] \in Range(Tail(q))
    <3>1. i - 1 \in 1..(Len(q) - 1) /\ (i - 1) + 1 = i
      BY <1>1, <2>1
    <3>2. Tail(q)[i - 1] = q[i]
      BY <1>1, <3>1
    <3> QED
      BY <1>2, <3>1, <3>2
  <2>2. ASSUME NEW i \in 1..(Len(q) - 1) PROVE Tail(q)[i] \in Range(q)
    BY <1>1, <1>2, <1>3
  <2>3. q[1] \in Range(q)
    BY <1>1, <1>2
  <2> QED
    BY <1>1, <1>2, <2>1, <2>2, <2>3
<1> QED
  BY <1>1, <1>4, <1>5, <1>6

\* A message with a new stamp is put into a mailbox.
LEMMA PutMail ==
    ASSUME NEW q \in Seq(Text), InOrder(q), NEW msg \in Text,
           \A p \in Range(q) : p.timeStamp < msg.timeStamp
    PROVE  /\ Append(q, msg) \in Seq(Text)
           /\ InOrder(Append(q, msg))
           /\ Range(Append(q, msg)) = Range(q) \cup {msg}
<1>1. /\ Append(q, msg) \in Seq(Text)
      /\ Len(Append(q, msg)) = Len(q) + 1
      /\ \A i \in 1..Len(q) : Append(q, msg)[i] = q[i]
      /\ Append(q, msg)[Len(q) + 1] = msg
  BY AppendProperties
<1>2. Len(q) \in Nat /\ \A i \in 1..Len(q) : q[i] \in Range(q)
  BY TextStamps
<1>3. InOrder(Append(q, msg))
  BY <1>1, <1>2 DEF InOrder
<1> QED
  BY <1>1, <1>3, AppendQueue

\* What is processed is added to the history.
Entry == [msg : Text, sure : BOOLEAN]

Entries(msgs, sure) == [i \in 1..Len(msgs) |-> [msg |-> msgs[i], sure |-> sure]]

LEMMA AddEntries ==
    ASSUME NEW h \in Seq(Entry), NEW msgs \in Seq(Text), NEW sure \in BOOLEAN
    PROVE  /\ h \o Entries(msgs, sure) \in Seq(Entry)
           /\ Len(h \o Entries(msgs, sure)) = Len(h) + Len(msgs)
           /\ \A i \in 1..Len(h) : (h \o Entries(msgs, sure))[i] = h[i]
           /\ \A i \in 1..Len(msgs) :
                 (h \o Entries(msgs, sure))[Len(h) + i] = [msg |-> msgs[i], sure |-> sure]
           /\ Range(h \o Entries(msgs, sure))
                 = Range(h) \cup {[msg |-> p, sure |-> sure] : p \in Range(msgs)}
<1> DEFINE s == Entries(msgs, sure)
<1>1. Len(msgs) \in Nat /\ Len(h) \in Nat /\ \A i \in 1..Len(msgs) : msgs[i] \in Text
  BY TextStamps, LenProperties
<1>2. /\ s \in [1..Len(msgs) -> Entry]
      /\ \A i \in 1..Len(msgs) : s[i] = [msg |-> msgs[i], sure |-> sure]
  BY <1>1 DEF Entries, Entry
<1> HIDE DEF s
<1>3. s \in Seq(Entry)
  BY <1>1, <1>2, SeqDef
<1>4. Len(s) = Len(msgs)
  BY <1>1, <1>2, <1>3, LenProperties
<1>5. /\ h \o s \in Seq(Entry)
      /\ Len(h \o s) = Len(h) + Len(msgs)
      /\ \A i \in 1..(Len(h) + Len(msgs)) : (h \o s)[i] = IF i <= Len(h) THEN h[i] ELSE s[i - Len(h)]
  BY <1>3, <1>4, ConcatProperties
<1>6. \A i \in 1..Len(h) : (h \o s)[i] = h[i]
  BY <1>1, <1>5
<1>7. ASSUME NEW i \in 1..Len(msgs) PROVE (h \o s)[Len(h) + i] = [msg |-> msgs[i], sure |-> sure]
  <2>1. Len(h) + i \in 1..(Len(h) + Len(msgs)) /\ ~(Len(h) + i <= Len(h)) /\ (Len(h) + i) - Len(h) = i
    BY <1>1
  <2> QED
    BY <1>2, <1>5, <2>1
<1>8. Range(h \o s) = Range(h) \cup Range(s)
  BY <1>3, RangeConcatenation
<1>9. Range(s) = {s[i] : i \in 1..Len(msgs)}
  BY <1>3, <1>4, RangeEquality
<1>10. Range(s) = {[msg |-> p, sure |-> sure] : p \in Range(msgs)}
  BY <1>2, <1>9, TextStamps, SMTT(30)
<1> QED
  BY <1>5, <1>6, <1>7, <1>8, <1>10 DEF s

-----------------------------------------------------------------------------
(* The invariant of the order. *)

\* What the variables hold, but for the bounds on stamps and answers.
Shape ==
    /\ clock \in Nat
    /\ mail \in [Member -> [Member -> Seq(Text)]]
    /\ out \in [Member -> Seq(Task)]
    /\ timeStamps \in [Member -> [Member -> Nat]]
    /\ msgQueue \in [Member -> Seq(Text)]
    /\ processed \in [Member -> Seq(Entry)]
    /\ heard \in [Member -> SUBSET Member]
    /\ requests \in 0..MaxRequests
    /\ waiting \in [Member -> Int]
    /\ halted \subseteq Member

\* Every stamp was read from the clock, and the table's, unless it is what the
\* table was created with.
Issued ==
    /\ \A m, k \in Member : \A p \in Range(mail[k][m]) : p.from = k /\ p.timeStamp \in Stamp
    /\ \A m \in Member : \A p \in Range(msgQueue[m]) : p.timeStamp \in Stamp
    /\ \A m \in Member : \A e \in Range(processed[m]) : e.msg.timeStamp \in Stamp
    /\ \A m \in Member : \A k \in heard[m] : timeStamps[m][k] \in Stamp
    /\ \A m, k \in Member : timeStamps[m][k] \in Uninitialised \cup Stamp

\* A mailbox keeps the order of each sender, and the queue that of the stamps.
Sorted == \A m \in Member : InOrder(msgQueue[m]) /\ \A k \in Member : InOrder(mail[k][m])

\* No two messages for a member have the same stamp.
NoTwins ==
    \A m, k \in Member : \A p \in Range(mail[k][m]) :
        /\ \A l \in Member : \A q \in Range(mail[l][m]) : q.timeStamp = p.timeStamp => k = l
        /\ \A q \in Range(msgQueue[m]) : q.timeStamp # p.timeStamp

\* What is on its way is later than the entry of the table for its sender ...
TableBehind ==
    \A m \in Member : \A k \in heard[m] : \A p \in Range(mail[k][m]) :
        timeStamps[m][k] < p.timeStamp

\* ... what is in the queue or was processed is not ...
Recorded ==
    \A m \in Member :
        /\ \A p \in Range(msgQueue[m]) :
              p.from \in heard[m] /\ p.timeStamp <= timeStamps[m][p.from]
        /\ \A e \in Range(processed[m]) :
              e.msg.from \in heard[m] /\ e.msg.timeStamp <= timeStamps[m][e.msg.from]

\* ... and what was processed for sure is not later than any entry.
SureRecorded ==
    \A m \in Member : \A e \in Range(processed[m]) :
        e.sure => heard[m] = Member /\ \A k \in Member : e.msg.timeStamp <= timeStamps[m][k]

\* What step 5 promises of a processed message and one that is not processed
\* before it.
Precedes(e, p) == e.sure \/ e.msg.from = p.from => e.msg.timeStamp < p.timeStamp

ProcessedFirst ==
    \A m \in Member : \A e \in Range(processed[m]) : \A p \in Range(msgQueue[m]) : Precedes(e, p)

ProcessedInOrder ==
    \A m \in Member : \A i, j \in 1..Len(processed[m]) :
        i < j => Precedes(processed[m][i], processed[m][j].msg)

OInv ==
    /\ Shape
    /\ Issued
    /\ Sorted
    /\ NoTwins
    /\ TableBehind
    /\ Recorded
    /\ SureRecorded
    /\ ProcessedFirst
    /\ ProcessedInOrder

LEMMA TasksTyped ==
    /\ TimeStampMessages \in Seq(Task)
    /\ \A m \in Member : VerifyMessages(m) \in Seq(Task)
    /\ \A msgs \in Seq(Text) : Work(msgs) \in Seq(Task)
<1>1. TimeStampMessages \in Seq(Task)
  <2>1. TimeStampMessages \in [1..N -> Task]
    BY DEF TimeStampMessages, Task, Member
  <2> QED
    BY <2>1, SeqDef
<1>2. ASSUME NEW m \in Member PROVE VerifyMessages(m) \in Seq(Task)
  <2>1. \A i \in 1..(N - 1) : (IF i < m THEN i ELSE i + 1) \in Member
    BY DEF Member
  <2>2. VerifyMessages(m) \in [1..(N - 1) -> Task]
    BY <2>1 DEF VerifyMessages, Task
  <2>3. N - 1 \in Nat
    OBVIOUS
  <2> QED
    BY <2>2, <2>3, SeqDef
<1>3. ASSUME NEW msgs \in Seq(Text) PROVE Work(msgs) \in Seq(Task)
  <2>1. Len(msgs) \in Nat /\ \A i \in 1..Len(msgs) : msgs[i].from \in Member
    <3>1. \A p \in Text : p.from \in Member
      BY DEF Text
    <3> QED
      BY <3>1, TextStamps
  <2>2. Work(msgs) \in [1..Len(msgs) -> Task]
    BY <2>1 DEF Work, Task
  <2> QED
    BY <2>1, <2>2, SeqDef
<1> QED
  BY <1>1, <1>2, <1>3

LEMMA InitOInv == Init => OInv
<1> SUFFICES ASSUME Init PROVE OInv
  OBVIOUS
<1>1. Range(<<>>) = {} /\ Len(<<>>) = 0
  BY EmptyQueue
<1>2. Shape
  <2> DEFINE Empty(S) == [m \in Member |-> [k \in Member |-> <<>>]] \in [Member -> [Member -> Seq(S)]]
             None(S) == [m \in Member |-> <<>>] \in [Member -> Seq(S)]
  <2>1. Empty(Text) /\ None(Text) /\ None(Task) /\ None(Entry)
    BY EmptyQueue
  <2>2. timeStamps \in [Member -> [Member -> Nat]]
    BY DEF Init
  <2>3. /\ [m \in Member |-> {}] \in [Member -> SUBSET Member]
        /\ [m \in Member |-> 0] \in [Member -> Int]
    OBVIOUS
  <2> QED
    BY <2>1, <2>2, <2>3 DEF Init, Shape
<1>3. Issued
  BY <1>1 DEF Init, Issued
<1>4. Sorted
  BY DEF Init, Sorted, InOrder
<1>5. NoTwins /\ TableBehind /\ Recorded /\ SureRecorded /\ ProcessedFirst
  BY <1>1 DEF Init, NoTwins, TableBehind, Recorded, SureRecorded, ProcessedFirst
<1>6. ProcessedInOrder
  BY DEF Init, ProcessedInOrder
<1> QED
  BY <1>2, <1>3, <1>4, <1>5, <1>6 DEF OInv

\* A request, and an answer that is counted, change nothing of this but what is
\* to be done.
LEMMA QuietOInv ==
    ASSUME OInv, UNCHANGED <<clock, mail, timeStamps, msgQueue, processed, heard>>, Shape'
    PROVE  OInv'
<1>1. Issued' /\ Sorted' /\ NoTwins'
  BY DEF OInv, Issued, Stamp, Sorted, InOrder, NoTwins
<1>2. TableBehind' /\ Recorded' /\ SureRecorded'
  BY DEF OInv, TableBehind, Recorded, SureRecorded
<1>3. ProcessedFirst' /\ ProcessedInOrder'
  BY DEF OInv, ProcessedFirst, ProcessedInOrder, Precedes
<1> QED
  BY <1>1, <1>2, <1>3 DEF OInv

LEMMA UserRequestOInv ==
    ASSUME OInv, NEW m \in Member, UserRequest(m)
    PROVE  OInv'
<1>1. TimeStampMessages \o VerifyMessages(m) \in Seq(Task)
  BY TasksTyped, ConcatProperties
<1>2. requests + 1 \in 0..MaxRequests
  BY DEF OInv, Shape, UserRequest
<1>3. waiting' \in [Member -> Int] /\ out' \in [Member -> Seq(Task)]
  BY <1>1 DEF OInv, Shape, UserRequest
<1>4. Shape'
  BY <1>2, <1>3 DEF OInv, Shape, UserRequest
<1> QED
  BY <1>4, QuietOInv DEF UserRequest

LEMMA CountOInv ==
    ASSUME OInv, NEW m \in Member, Count(m)
    PROVE  OInv'
<1>1. Tail(out[m]) \in Seq(Task)
  BY HeadTailProperties DEF Count, OInv, Shape
<1>2. waiting' \in [Member -> Int] /\ out' \in [Member -> Seq(Task)]
  BY <1>1 DEF OInv, Shape, Count
<1>3. Shape'
  BY <1>2 DEF OInv, Shape, Count
<1> QED
  BY <1>3, QuietOInv DEF Count

-----------------------------------------------------------------------------
\* The message pk goes from m to k, with a stamp that nothing had before.
Sent(m, k, pk) ==
    /\ Head(out[m]) = [to |-> k, type |-> pk.type]
    /\ out' = [out EXCEPT ![m] = Tail(@)] /\ Tail(out[m]) \in Seq(Task)
    /\ pk.from = m /\ pk.timeStamp = clock + 1
    /\ \A a, b \in Member : ~(a = m /\ b = k) => mail'[a][b] = mail[a][b]
    /\ mail' \in [Member -> [Member -> Seq(Text)]]
    /\ InOrder(mail'[m][k])
    /\ Range(mail'[m][k]) = Range(mail[m][k]) \cup {pk}
    /\ clock' = clock + 1
    /\ UNCHANGED <<timeStamps, msgQueue, processed, heard, requests, waiting, halted>>

LEMMA TransmitSent ==
    ASSUME OInv, NEW m \in Member, Transmit(m)
    PROVE  \E k \in Member, pk \in Text : Sent(m, k, pk)
<1>1. /\ out[m] \in Seq(Task) /\ out[m] # <<>> /\ clock \in Nat
      /\ mail \in [Member -> [Member -> Seq(Text)]]
  BY DEF OInv, Shape, Transmit
<1>2. Head(out[m]) \in Task /\ Tail(out[m]) \in Seq(Task)
  BY <1>1, HeadTailProperties
<1>3. PICK k : k = Head(out[m]).to
  OBVIOUS
<1>4. PICK pk : pk = [from |-> m, type |-> Head(out[m]).type, timeStamp |-> clock + 1]
  OBVIOUS
<1>5. /\ k \in Member /\ Head(out[m]) = [to |-> k, type |-> pk.type]
      /\ pk \in Text /\ pk.from = m /\ pk.timeStamp = clock + 1
  <2>1. Head(out[m]).type \in {"TIMESTAMP", "VERIFY", "ANSWER"}
    BY <1>2 DEF Task, Transmit
  <2>2. k \in Member /\ Head(out[m]) = [to |-> k, type |-> Head(out[m]).type]
    BY <1>2, <1>3 DEF Task
  <2> QED
    BY <1>1, <1>4, <2>1, <2>2 DEF Text
<1>6. mail' = [mail EXCEPT ![m][k] = Append(@, pk)]
  BY <1>3, <1>4 DEF Transmit
<1>7. mail'[m][k] = Append(mail[m][k], pk) /\ mail[m][k] \in Seq(Text)
  BY <1>1, <1>5, <1>6
<1>8. InOrder(mail[m][k]) /\ \A p \in Range(mail[m][k]) : p.timeStamp < pk.timeStamp
  BY <1>1, <1>5 DEF OInv, Sorted, Issued, Stamp
<1>9. /\ mail'[m][k] \in Seq(Text)
      /\ InOrder(mail'[m][k])
      /\ Range(mail'[m][k]) = Range(mail[m][k]) \cup {pk}
  BY <1>5, <1>7, <1>8, PutMail
<1>10. \A a, b \in Member : ~(a = m /\ b = k) => mail'[a][b] = mail[a][b]
  BY <1>1, <1>5, <1>6
<1>11. mail' \in [Member -> [Member -> Seq(Text)]]
  BY <1>1, <1>5, <1>6, <1>7, <1>9
<1>12. Sent(m, k, pk)
  BY <1>2, <1>5, <1>9, <1>10, <1>11 DEF Sent, Transmit
<1> QED
  BY <1>5, <1>12

LEMMA TransmitOInv ==
    ASSUME OInv, NEW m \in Member, Transmit(m)
    PROVE  OInv'
<1>1. PICK k \in Member, pk \in Text : Sent(m, k, pk)
  BY TransmitSent
<1>2. /\ clock \in Nat /\ clock' = clock + 1
      /\ pk.from = m /\ pk.timeStamp = clock + 1
      /\ UNCHANGED <<timeStamps, msgQueue, processed, heard>>
      /\ \A s \in Stamp : s \in Stamp' /\ s < pk.timeStamp
      /\ pk.timeStamp \in Stamp'
  <2>1. /\ clock \in Nat /\ clock' = clock + 1
        /\ pk.from = m /\ pk.timeStamp = clock + 1
        /\ UNCHANGED <<timeStamps, msgQueue, processed, heard>>
    BY <1>1 DEF OInv, Shape, Sent
  <2>2. /\ \A s \in 1..clock : s \in 1..(clock + 1) /\ s < clock + 1
        /\ clock + 1 \in 1..(clock + 1)
    BY <2>1
  <2>3. Stamp = 1..clock /\ Stamp' = 1..(clock + 1)
    BY <2>1 DEF Stamp
  <2> QED
    BY <2>1, <2>2, <2>3
<1>3. /\ \A a, b \in Member : \A p \in Range(mail'[a][b]) :
            p \in Range(mail[a][b]) \/ (p = pk /\ a = m /\ b = k)
      /\ \A a, b \in Member : ~(a = m /\ b = k) => mail'[a][b] = mail[a][b]
  BY <1>1 DEF Sent
<1>4. Shape'
  <2>1. out' \in [Member -> Seq(Task)]
    BY <1>1 DEF OInv, Shape, Sent
  <2>2. clock' \in Nat
    BY <1>2
  <2> QED
    BY <1>1, <2>1, <2>2 DEF OInv, Shape, Sent
<1>5. Issued'
  BY <1>2, <1>3 DEF OInv, Issued
<1>6. Sorted'
  BY <1>1, <1>2, <1>3 DEF OInv, Sorted, Sent
<1>7. NoTwins'
  <2>1. ASSUME NEW b \in Member, NEW a \in Member, NEW p \in Range(mail'[a][b]),
               NEW l \in Member, NEW q \in Range(mail'[l][b]), q.timeStamp = p.timeStamp
        PROVE  a = l
    <3>1. CASE p \in Range(mail[a][b]) /\ q \in Range(mail[l][b])
      BY <2>1, <3>1 DEF OInv, NoTwins
    <3>2. CASE p \in Range(mail[a][b]) /\ q = pk
      BY <1>2, <2>1, <3>2 DEF OInv, Issued, Stamp
    <3>3. CASE p = pk /\ q \in Range(mail[l][b])
      BY <1>2, <2>1, <3>3 DEF OInv, Issued, Stamp
    <3>4. CASE a = m /\ l = m
      BY <3>4
    <3> QED
      BY <1>3, <2>1, <3>1, <3>2, <3>3, <3>4
  <2>2. ASSUME NEW b \in Member, NEW a \in Member, NEW p \in Range(mail'[a][b]),
               NEW q \in Range(msgQueue[b])
        PROVE  q.timeStamp # p.timeStamp
    <3>1. CASE p \in Range(mail[a][b])
      BY <2>2, <3>1 DEF OInv, NoTwins
    <3>2. CASE p = pk
      BY <1>2, <2>2, <3>2 DEF OInv, Issued, Stamp
    <3> QED
      BY <1>3, <2>2, <3>1, <3>2
  <2> QED
    BY <1>2, <2>1, <2>2 DEF NoTwins
<1>8. TableBehind'
  <2>1. ASSUME NEW b \in Member, NEW a \in heard[b], NEW p \in Range(mail'[a][b])
        PROVE  timeStamps[b][a] < p.timeStamp
    <3>1. a \in Member
      BY <2>1 DEF OInv, Shape
    <3>2. CASE p \in Range(mail[a][b])
      BY <2>1, <3>2 DEF OInv, TableBehind
    <3>3. CASE p = pk
      BY <1>2, <2>1, <3>3 DEF OInv, Issued
    <3> QED
      BY <1>3, <2>1, <3>1, <3>2, <3>3
  <2> QED
    BY <1>2, <2>1 DEF TableBehind
<1>9. Recorded' /\ SureRecorded' /\ ProcessedFirst' /\ ProcessedInOrder'
  BY <1>2 DEF OInv, Recorded, SureRecorded, ProcessedFirst, ProcessedInOrder, Precedes
<1> QED
  BY <1>4, <1>5, <1>6, <1>7, <1>8, <1>9 DEF OInv

-----------------------------------------------------------------------------
\* Step 4: the stamp is not later than any entry, once no entry is 0.
LEMMA EarliestIsFirst ==
    ASSUME NEW table \in [Member -> Nat]
    PROVE  /\ Earliest(table) \in Nat
           /\ (\A k \in Member : table[k] > 0) => \A k \in Member : Earliest(table) <= table[k]
<1> DEFINE S == {table[1]} \cup {table[k] : k \in {k \in 2..N : table[k] > 0}}
<1>1. 1 \in Member /\ \A k \in 2..N : k \in Member
  BY DEF Member
<1>2. S \in SUBSET Nat /\ S # {}
  BY <1>1
<1>3. Earliest(table) = Min(S)
  BY DEF Earliest
<1>4. ASSUME \A k \in Member : table[k] > 0, NEW k \in Member
      PROVE  table[k] \in S
  BY <1>4 DEF Member
<1> HIDE DEF S
<1>5. Min(S) \in S /\ \A x \in S : Min(S) <= x
  BY <1>2, MinOfNat
<1> QED
  BY <1>2, <1>3, <1>4, <1>5

\* The message msg of k is taken; the table records its stamp, the messages
\* stable leave the queue and rest stays there.
Passed(m, k, msg, stable, rest, sure) ==
    /\ out[m] = <<>>
    /\ mail' = [mail EXCEPT ![k][m] = Tail(@)]
    /\ Tail(mail[k][m]) \in Seq(Text)
    /\ InOrder(Tail(mail[k][m]))
    /\ Range(mail[k][m]) = Range(Tail(mail[k][m])) \cup {msg}
    /\ \A p \in Range(Tail(mail[k][m])) : msg.timeStamp < p.timeStamp
    /\ timeStamps' = [timeStamps EXCEPT ![m] = [@ EXCEPT ![k] = msg.timeStamp]]
    /\ heard' = [heard EXCEPT ![m] = @ \cup {k}]
    /\ InOrder(stable) /\ InOrder(rest)
    /\ Range(stable) \cup Range(rest)
          = Range(msgQueue[m]) \cup (IF msg.type = "TIMESTAMP" THEN {} ELSE {msg})
    /\ \A p \in Range(stable), q \in Range(rest) : p.timeStamp < q.timeStamp
    /\ msgQueue' = [msgQueue EXCEPT ![m] = rest]
    /\ processed' = [processed EXCEPT ![m] = @ \o Entries(stable, sure)]
    /\ sure => heard'[m] = Member /\ \A p \in Range(stable), l \in Member :
                                         p.timeStamp <= timeStamps'[m][l]
    /\ out' = [out EXCEPT ![m] =
          (IF msg.type = "TIMESTAMP" THEN <<>> ELSE TimeStampMessages) \o Work(stable)]
    /\ halted' \subseteq halted \cup {m}
    /\ UNCHANGED <<clock, requests, waiting>>

LEMMA ReceivePassed ==
    ASSUME OInv, NEW m \in Member, NEW k \in Member, Receive(m, k)
    PROVE  \E msg \in Text, stable, rest \in Seq(Text), sure \in BOOLEAN :
              Passed(m, k, msg, stable, rest, sure)
<1> DEFINE msg == Head(mail[k][m])
           table == [timeStamps[m] EXCEPT ![k] = msg.timeStamp]
           queue == IF msg.type = "TIMESTAMP" THEN msgQueue[m] ELSE Insert(msgQueue[m], msg)
           e == Earliest(table)
           stable == Stable(queue, e)
           rest == Unstable(queue, e)
           sure == heard[m] \cup {k} = Member
<1>1. /\ mail[k][m] \in Seq(Text) /\ InOrder(mail[k][m]) /\ mail[k][m] # <<>>
      /\ msgQueue[m] \in Seq(Text) /\ InOrder(msgQueue[m])
      /\ timeStamps[m] \in [Member -> Nat] /\ timeStamps \in [Member -> [Member -> Nat]]
      /\ heard[m] \subseteq Member /\ heard \in [Member -> SUBSET Member]
  BY DEF OInv, Shape, Sorted, Receive
<1>2. /\ msg \in Text
      /\ Tail(mail[k][m]) \in Seq(Text)
      /\ InOrder(Tail(mail[k][m]))
      /\ Range(mail[k][m]) = Range(Tail(mail[k][m])) \cup {msg}
      /\ \A p \in Range(Tail(mail[k][m])) : msg.timeStamp < p.timeStamp
  BY <1>1, TakeMail
<1>3. /\ timeStamps' = [timeStamps EXCEPT ![m] = table]
      /\ heard' = [heard EXCEPT ![m] = @ \cup {k}]
      /\ msgQueue' = [msgQueue EXCEPT ![m] = rest]
      /\ processed' = [processed EXCEPT ![m] = @ \o Entries(stable, sure)]
      /\ out' = [out EXCEPT ![m] =
            (IF msg.type = "TIMESTAMP" THEN <<>> ELSE TimeStampMessages) \o Work(stable)]
      /\ halted' \subseteq halted \cup {m}
      /\ mail' = [mail EXCEPT ![k][m] = Tail(@)]
      /\ UNCHANGED <<clock, requests, waiting>>
      /\ out[m] = <<>>
  BY DEF Receive, Entries
<1> HIDE DEF msg
<1>4. msg.timeStamp \in Nat /\ msg.timeStamp \in Stamp
  BY <1>2 DEF OInv, Issued, Text
<1>5. table \in [Member -> Nat]
  BY <1>1, <1>4
<1>6. sure => \A l \in Member : table[l] > 0
  BY <1>1, <1>4 DEF OInv, Issued, Stamp
<1> HIDE DEF table
<1>7. e \in Nat /\ (sure => \A l \in Member : e <= table[l])
  BY <1>5, <1>6, EarliestIsFirst
<1>8. /\ queue \in Seq(Text)
      /\ InOrder(queue)
      /\ Range(queue) = Range(msgQueue[m]) \cup (IF msg.type = "TIMESTAMP" THEN {} ELSE {msg})
  <2>1. CASE msg.type = "TIMESTAMP"
    BY <1>1, <2>1
  <2>2. CASE msg.type # "TIMESTAMP"
    <3>1. \A p \in Range(msgQueue[m]) : p.timeStamp # msg.timeStamp
      BY <1>2 DEF OInv, NoTwins
    <3> QED
      BY <1>1, <1>2, <2>2, <3>1, InsertQueue
  <2> QED
    BY <2>1, <2>2
<1> HIDE DEF queue, e
<1>9. /\ stable \in Seq(Text) /\ rest \in Seq(Text)
      /\ InOrder(stable) /\ InOrder(rest)
      /\ Range(queue) = Range(stable) \cup Range(rest)
      /\ \A p \in Range(stable) : p.timeStamp <= e
      /\ \A p \in Range(rest) : p.timeStamp > e
  BY <1>7, <1>8, SplitQueue
<1> HIDE DEF stable, rest
<1>10. \A p \in Range(stable), q \in Range(rest) : p.timeStamp < q.timeStamp
  <2>1. \A p \in Range(stable) : p.timeStamp \in Nat
    BY <1>9, TextStamps
  <2>2. \A p \in Range(rest) : p.timeStamp \in Nat
    BY <1>9, TextStamps
  <2> QED
    BY <1>7, <1>9, <2>1, <2>2
<1>11. sure => heard'[m] = Member /\ \A p \in Range(stable), l \in Member :
                                         p.timeStamp <= timeStamps'[m][l]
  <2>1. \A p \in Range(stable) : p.timeStamp \in Nat
    BY <1>9, TextStamps
  <2>2. timeStamps'[m] = table /\ heard'[m] = heard[m] \cup {k}
    BY <1>1, <1>3
  <2> QED
    BY <1>5, <1>7, <1>9, <2>1, <2>2
<1>12. timeStamps' = [timeStamps EXCEPT ![m] = [@ EXCEPT ![k] = msg.timeStamp]]
  BY <1>3 DEF table
<1> HIDE DEF sure
<1>13. Passed(m, k, msg, stable, rest, sure)
  BY <1>2, <1>3, <1>8, <1>9, <1>10, <1>11, <1>12 DEF Passed
<1>14. sure \in BOOLEAN
  BY DEF sure
<1> QED
  BY <1>2, <1>9, <1>13, <1>14

\* The same, one variable and one member at a time.
LEMMA PassedParts ==
    ASSUME OInv, NEW m \in Member, NEW k \in Member, NEW msg \in Text,
           NEW stable \in Seq(Text), NEW rest \in Seq(Text), NEW sure \in BOOLEAN,
           Passed(m, k, msg, stable, rest, sure)
    PROVE  /\ msg \in Range(mail[k][m]) /\ msg.from = k
           /\ msg.timeStamp \in Stamp /\ msg.timeStamp \in Nat
           /\ \A a, b \in Member : Range(mail'[a][b]) \subseteq Range(mail[a][b])
           /\ \A a, b \in Member : InOrder(mail'[a][b])
           /\ \A p \in Range(mail'[k][m]) : msg.timeStamp < p.timeStamp
           /\ \A b \in Member \ {m} : /\ timeStamps'[b] = timeStamps[b]
                                      /\ heard'[b] = heard[b]
                                      /\ msgQueue'[b] = msgQueue[b]
                                      /\ processed'[b] = processed[b]
           /\ timeStamps'[m][k] = msg.timeStamp
           /\ \A l \in Member \ {k} : timeStamps'[m][l] = timeStamps[m][l]
           /\ heard'[m] = heard[m] \cup {k}
           /\ msgQueue'[m] = rest
           /\ processed'[m] = processed[m] \o Entries(stable, sure)
           /\ \A p \in Range(stable) \cup Range(rest) : p \in Range(msgQueue[m]) \/ p = msg
           /\ Shape'
<1> USE DEF Passed
<1>1. /\ mail \in [Member -> [Member -> Seq(Text)]]
      /\ timeStamps \in [Member -> [Member -> Nat]]
      /\ heard \in [Member -> SUBSET Member]
      /\ msgQueue \in [Member -> Seq(Text)]
      /\ processed \in [Member -> Seq(Entry)]
      /\ out \in [Member -> Seq(Task)]
  BY DEF OInv, Shape
<1>2. msg \in Range(mail[k][m]) /\ msg.from = k /\ msg.timeStamp \in Stamp /\ msg.timeStamp \in Nat
  <2>1. msg \in Range(mail[k][m])
    OBVIOUS
  <2>2. msg.timeStamp \in Nat
    BY DEF Text
  <2> QED
    BY <2>1, <2>2 DEF OInv, Issued
<1>3. /\ mail'[k][m] = Tail(mail[k][m])
      /\ \A a, b \in Member : ~(a = k /\ b = m) => mail'[a][b] = mail[a][b]
      /\ mail' \in [Member -> [Member -> Seq(Text)]]
  BY <1>1
<1>4. /\ \A a, b \in Member : Range(mail'[a][b]) \subseteq Range(mail[a][b])
      /\ \A p \in Range(mail'[k][m]) : msg.timeStamp < p.timeStamp
  BY <1>3
<1>5. \A a, b \in Member : InOrder(mail'[a][b])
  BY <1>3 DEF OInv, Sorted
<1>6. /\ timeStamps'[m][k] = msg.timeStamp
      /\ \A l \in Member \ {k} : timeStamps'[m][l] = timeStamps[m][l]
      /\ \A b \in Member \ {m} : timeStamps'[b] = timeStamps[b]
      /\ timeStamps' \in [Member -> [Member -> Nat]]
  BY <1>1, <1>2
<1>7. /\ heard'[m] = heard[m] \cup {k}
      /\ \A b \in Member \ {m} : heard'[b] = heard[b]
      /\ heard' \in [Member -> SUBSET Member]
  BY <1>1
<1>8. /\ msgQueue'[m] = rest
      /\ \A b \in Member \ {m} : msgQueue'[b] = msgQueue[b]
      /\ msgQueue' \in [Member -> Seq(Text)]
  BY <1>1
<1>9. processed[m] \o Entries(stable, sure) \in Seq(Entry)
  BY <1>1, AddEntries
<1>10. /\ processed'[m] = processed[m] \o Entries(stable, sure)
       /\ \A b \in Member \ {m} : processed'[b] = processed[b]
       /\ processed' \in [Member -> Seq(Entry)]
  BY <1>1, <1>9
<1>11. \A p \in Range(stable) \cup Range(rest) : p \in Range(msgQueue[m]) \/ p = msg
  OBVIOUS
<1>12. out' \in [Member -> Seq(Task)]
  <2>1. (IF msg.type = "TIMESTAMP" THEN <<>> ELSE TimeStampMessages) \o Work(stable) \in Seq(Task)
    BY TasksTyped, ConcatProperties, EmptySeq
  <2> QED
    BY <1>1, <2>1
<1>13. /\ clock' \in Nat /\ requests' \in 0..MaxRequests
       /\ waiting' \in [Member -> Int] /\ halted' \subseteq Member
  BY DEF OInv, Shape
<1> HIDE DEF Passed
<1>14. Shape'
  BY <1>3, <1>6, <1>7, <1>8, <1>10, <1>12, <1>13 DEF Shape
<1> QED
  BY <1>2, <1>4, <1>5, <1>6, <1>7, <1>8, <1>10, <1>11, <1>14

LEMMA PassedOInv ==
    ASSUME OInv, NEW m \in Member, NEW k \in Member, NEW msg \in Text,
           NEW stable \in Seq(Text), NEW rest \in Seq(Text), NEW sure \in BOOLEAN,
           Passed(m, k, msg, stable, rest, sure)
    PROVE  OInv'
<1>1. /\ msg \in Range(mail[k][m]) /\ msg.from = k
      /\ msg.timeStamp \in Stamp /\ msg.timeStamp \in Nat
      /\ \A a, b \in Member : Range(mail'[a][b]) \subseteq Range(mail[a][b])
      /\ \A a, b \in Member : InOrder(mail'[a][b])
      /\ \A p \in Range(mail'[k][m]) : msg.timeStamp < p.timeStamp
      /\ \A b \in Member \ {m} : /\ timeStamps'[b] = timeStamps[b]
                                 /\ heard'[b] = heard[b]
                                 /\ msgQueue'[b] = msgQueue[b]
                                 /\ processed'[b] = processed[b]
      /\ timeStamps'[m][k] = msg.timeStamp
      /\ \A l \in Member \ {k} : timeStamps'[m][l] = timeStamps[m][l]
      /\ heard'[m] = heard[m] \cup {k}
      /\ msgQueue'[m] = rest
      /\ processed'[m] = processed[m] \o Entries(stable, sure)
      /\ \A p \in Range(stable) \cup Range(rest) : p \in Range(msgQueue[m]) \/ p = msg
      /\ Shape'
  BY PassedParts
<1>2. Stamp' = Stamp /\ Stamp \subseteq Nat
  BY DEF Passed, Stamp
<1>3. /\ processed[m] \in Seq(Entry) /\ Len(processed[m]) \in Nat /\ Len(stable) \in Nat
      /\ Len(processed'[m]) = Len(processed[m]) + Len(stable)
      /\ \A i \in 1..Len(processed[m]) : processed'[m][i] = processed[m][i]
      /\ \A i \in 1..Len(stable) :
            processed'[m][Len(processed[m]) + i] = [msg |-> stable[i], sure |-> sure]
  <2>1. processed[m] \in Seq(Entry)
    BY DEF OInv, Shape
  <2>2. Len(processed[m]) \in Nat /\ Len(stable) \in Nat
    BY <2>1, TextStamps, LenProperties
  <2> QED
    BY <1>1, <2>1, <2>2, AddEntries
<1>4. Range(processed'[m]) = Range(processed[m]) \cup {[msg |-> p, sure |-> sure] : p \in Range(stable)}
  BY <1>1, <1>3, AddEntries
<1>5. /\ heard[m] \subseteq Member
      /\ \A l \in Member : timeStamps[m][l] \in Nat /\ timeStamps'[m][l] \in Nat
      /\ \A p \in Range(msgQueue[m]) : p \in Text /\ p.timeStamp \in Nat /\ p.timeStamp \in Stamp
      /\ \A e \in Range(processed[m]) : e.msg \in Text /\ e.msg.timeStamp \in Stamp /\ e.msg.timeStamp \in Nat
  <2>1. \A p \in Text : p.timeStamp \in Nat
    BY DEF Text
  <2>2. Range(msgQueue[m]) \subseteq Text
    <3>1. msgQueue[m] \in Seq(Text)
      BY DEF OInv, Shape
    <3> QED
      BY <3>1, TextStamps
  <2>3. \A e \in Range(processed[m]) : e.msg \in Text
    <3>1. Range(processed[m]) = {processed[m][i] : i \in 1..Len(processed[m])}
      BY <1>3, RangeEquality
    <3>2. \A i \in 1..Len(processed[m]) : processed[m][i] \in Entry
      BY <1>3, ElementOfSeq
    <3> QED
      BY <3>1, <3>2 DEF Entry
  <2> QED
    BY <1>1, <1>2, <2>1, <2>2, <2>3 DEF OInv, Shape, Issued
<1>6. \A l \in heard[m] : timeStamps[m][l] <= timeStamps'[m][l]
  <2>1. k \in heard[m] => timeStamps[m][k] < timeStamps'[m][k]
    BY <1>1 DEF OInv, TableBehind
  <2>2. ASSUME NEW l \in heard[m] PROVE timeStamps[m][l] <= timeStamps'[m][l]
    <3>1. timeStamps[m][l] \in Nat /\ timeStamps'[m][l] \in Nat
      BY <1>5
    <3>2. l = k \/ timeStamps'[m][l] = timeStamps[m][l]
      BY <1>1, <1>5
    <3> QED
      BY <2>1, <3>1, <3>2
  <2> QED
    BY <2>2
<1>7. ASSUME NEW p, p \in Range(msgQueue[m]) \/ p = msg
      PROVE  p.from \in heard'[m] /\ p.timeStamp <= timeStamps'[m][p.from]
  <2>1. CASE p \in Range(msgQueue[m])
    <3>1. p.from \in heard[m] /\ p.timeStamp <= timeStamps[m][p.from]
      BY <2>1 DEF OInv, Recorded
    <3> QED
      BY <1>1, <1>5, <1>6, <2>1, <3>1
  <2>2. CASE p = msg
    <3>1. p.from = k /\ k \in heard'[m] /\ timeStamps'[m][k] = p.timeStamp /\ p.timeStamp \in Nat
      BY <1>1, <2>2
    <3> QED
      BY <3>1
  <2> QED
    BY <1>7, <2>1, <2>2
<1>8. ASSUME NEW e \in Range(processed[m])
      PROVE  /\ e.msg.from \in heard'[m] /\ e.msg.timeStamp <= timeStamps'[m][e.msg.from]
             /\ e.sure => heard'[m] = Member /\ \A l \in Member : e.msg.timeStamp <= timeStamps'[m][l]
  <2>1. e.msg.from \in heard[m] /\ e.msg.timeStamp <= timeStamps[m][e.msg.from]
    BY <1>8 DEF OInv, Recorded
  <2>2. e.sure => heard[m] = Member /\ \A l \in Member : e.msg.timeStamp <= timeStamps[m][l]
    BY <1>8 DEF OInv, SureRecorded
  <2>3. e.msg.from \in Member /\ e.msg.timeStamp \in Nat
    BY <1>5, <1>8, <2>1
  <2>4. e.msg.from \in heard'[m] /\ e.msg.timeStamp <= timeStamps'[m][e.msg.from]
    <3>1. timeStamps[m][e.msg.from] <= timeStamps'[m][e.msg.from]
      BY <1>6, <2>1
    <3> QED
      BY <1>1, <1>5, <2>1, <2>3, <3>1
  <2>5. ASSUME e.sure, NEW l \in Member PROVE e.msg.timeStamp <= timeStamps'[m][l]
    <3>1. l \in heard[m] /\ e.msg.timeStamp <= timeStamps[m][l]
      BY <2>2, <2>5
    <3>2. timeStamps[m][l] <= timeStamps'[m][l]
      BY <1>6, <3>1
    <3> QED
      BY <1>5, <2>3, <3>1, <3>2
  <2>6. e.sure => heard'[m] = Member
    BY <1>1, <2>2
  <2> QED
    BY <2>4, <2>5, <2>6
<1>9. ASSUME NEW e \in Range(processed[m]), NEW p, p \in Range(msgQueue[m]) \/ p = msg
      PROVE  Precedes(e, p)
  <2>1. CASE p \in Range(msgQueue[m])
    BY <1>9, <2>1 DEF OInv, ProcessedFirst
  <2>2. CASE p = msg
    <3>1. ASSUME e.sure \/ e.msg.from = k
          PROVE  k \in heard[m] /\ e.msg.timeStamp <= timeStamps[m][k]
      BY <1>9, <3>1 DEF OInv, Recorded, SureRecorded
    <3>2. k \in heard[m] => timeStamps[m][k] < msg.timeStamp
      BY <1>1 DEF OInv, TableBehind
    <3> QED
      BY <1>1, <1>2, <1>5, <1>9, <2>2, <3>1, <3>2 DEF Precedes
  <2> QED
    BY <1>9, <2>1, <2>2
<1>10. Issued'
  <2>1. \A b \in Member : \A p \in Range(msgQueue'[b]) : p.timeStamp \in Stamp
    BY <1>1, <1>5 DEF OInv, Issued
  <2>2. \A b \in Member : \A e \in Range(processed'[b]) : e.msg.timeStamp \in Stamp
    <3>1. ASSUME NEW e \in Range(processed'[m]) PROVE e.msg.timeStamp \in Stamp
      <4>1. CASE e \in Range(processed[m])
        BY <1>5, <4>1
      <4>2. ASSUME NEW p \in Range(stable), e = [msg |-> p, sure |-> sure]
            PROVE  e.msg.timeStamp \in Stamp
        BY <1>1, <1>5, <4>2
      <4> QED
        BY <1>4, <3>1, <4>1, <4>2
    <3> QED
      BY <1>1, <3>1 DEF OInv, Issued
  <2>3. \A b, a \in Member : \A p \in Range(mail'[a][b]) : p.from = a /\ p.timeStamp \in Stamp
    BY <1>1 DEF OInv, Issued
  <2>4. \A b \in Member : \A l \in heard'[b] : timeStamps'[b][l] \in Stamp
    BY <1>1, <1>5, ZenonT(40) DEF OInv, Issued
  <2>5. \A b, l \in Member : timeStamps'[b][l] \in Uninitialised \cup Stamp
    BY <1>1 DEF OInv, Issued
  <2> QED
    BY <1>2, <2>1, <2>2, <2>3, <2>4, <2>5 DEF Issued
<1>11. Sorted'
  BY <1>1 DEF OInv, Sorted, Passed
<1>12. NoTwins'
  <2>1. ASSUME NEW b \in Member, NEW a \in Member, NEW l \in Member,
               NEW p \in Range(mail'[a][b]), NEW q \in Range(mail'[l][b])
        PROVE  q.timeStamp = p.timeStamp => a = l
    <3>1. p \in Range(mail[a][b]) /\ q \in Range(mail[l][b])
      BY <1>1
    <3> QED
      BY <3>1 DEF OInv, NoTwins
  <2>2. ASSUME NEW b \in Member, NEW a \in Member, NEW p \in Range(mail'[a][b]),
               NEW q \in Range(msgQueue'[b])
        PROVE  q.timeStamp # p.timeStamp
    <3>1. p \in Range(mail[a][b])
      BY <1>1
    <3>2. CASE q \in Range(msgQueue[b])
      BY <3>1, <3>2 DEF OInv, NoTwins
    <3>3. CASE b = m /\ q = msg
      <4>1. q.timeStamp = p.timeStamp => a = k
        BY <1>1, <3>1, <3>3 DEF OInv, NoTwins
      <4>2. a = k => msg.timeStamp < p.timeStamp
        BY <1>1, <3>3
      <4> QED
        BY <1>1, <3>3, <4>1, <4>2
    <3> QED
      BY <1>1, <3>2, <3>3
  <2> QED
    BY <2>1, <2>2 DEF NoTwins
<1>13. TableBehind'
  <2>1. ASSUME NEW b \in Member, NEW a \in heard'[b], NEW p \in Range(mail'[a][b])
        PROVE  timeStamps'[b][a] < p.timeStamp
    <3>1. a \in Member
      BY <1>1 DEF Shape
    <3>2. CASE b = m /\ a = k
      BY <1>1, <3>2
    <3>3. CASE ~(b = m /\ a = k)
      <4>1. a \in heard[b] /\ p \in Range(mail[a][b]) /\ timeStamps'[b][a] = timeStamps[b][a]
        BY <1>1, <2>1, <3>1, <3>3
      <4> QED
        BY <4>1 DEF OInv, TableBehind
    <3> QED
      BY <3>2, <3>3
  <2> QED
    BY <2>1 DEF TableBehind
<1>14. Recorded'
  <2>1. ASSUME NEW b \in Member, NEW p \in Range(msgQueue'[b])
        PROVE  p.from \in heard'[b] /\ p.timeStamp <= timeStamps'[b][p.from]
    <3>1. CASE b = m
      BY <1>1, <1>7, <3>1
    <3>2. CASE b # m
      BY <1>1, <3>2 DEF OInv, Recorded
    <3> QED
      BY <3>1, <3>2
  <2>2. ASSUME NEW b \in Member, NEW e \in Range(processed'[b])
        PROVE  e.msg.from \in heard'[b] /\ e.msg.timeStamp <= timeStamps'[b][e.msg.from]
    <3>1. CASE b = m
      <4>1. CASE e \in Range(processed[m])
        BY <1>8, <3>1, <4>1
      <4>2. ASSUME NEW p \in Range(stable), e = [msg |-> p, sure |-> sure]
            PROVE  e.msg.from \in heard'[b] /\ e.msg.timeStamp <= timeStamps'[b][e.msg.from]
        BY <1>1, <1>7, <3>1, <4>2
      <4> QED
        BY <1>4, <2>2, <3>1, <4>1, <4>2
    <3>2. CASE b # m
      BY <1>1, <3>2 DEF OInv, Recorded
    <3> QED
      BY <3>1, <3>2
  <2> QED
    BY <2>1, <2>2 DEF Recorded
<1>15. SureRecorded'
  <2>1. ASSUME NEW b \in Member, NEW e \in Range(processed'[b]), e.sure
        PROVE  heard'[b] = Member /\ \A l \in Member : e.msg.timeStamp <= timeStamps'[b][l]
    <3>1. CASE b # m
      BY <1>1, <2>1, <3>1 DEF OInv, SureRecorded
    <3>2. CASE b = m /\ e \in Range(processed[m])
      BY <1>8, <2>1, <3>2
    <3>3. ASSUME b = m, NEW p \in Range(stable), e = [msg |-> p, sure |-> sure]
          PROVE  heard'[b] = Member /\ \A l \in Member : e.msg.timeStamp <= timeStamps'[b][l]
      BY <2>1, <3>3 DEF Passed
    <3> QED
      BY <1>4, <3>1, <3>2, <3>3
  <2> QED
    BY <2>1 DEF SureRecorded
<1>16. ProcessedFirst'
  <2>1. ASSUME NEW b \in Member, NEW e \in Range(processed'[b]), NEW p \in Range(msgQueue'[b])
        PROVE  Precedes(e, p)
    <3>1. CASE b # m
      BY <1>1, <2>1, <3>1 DEF OInv, ProcessedFirst
    <3>2. CASE b = m /\ e \in Range(processed[m])
      BY <1>1, <1>9, <2>1, <3>2
    <3>3. ASSUME b = m, NEW s \in Range(stable), e = [msg |-> s, sure |-> sure]
          PROVE  Precedes(e, p)
      BY <1>1, <2>1, <3>3 DEF Precedes, Passed
    <3> QED
      BY <1>4, <2>1, <3>1, <3>2, <3>3
  <2> QED
    BY <2>1 DEF ProcessedFirst, Precedes
<1>17. ProcessedInOrder'
  <2>1. ASSUME NEW i \in 1..Len(processed'[m]), NEW j \in 1..Len(processed'[m]), i < j
        PROVE  Precedes(processed'[m][i], processed'[m][j].msg)
    <3> DEFINE n == Len(processed[m])
    <3>1. CASE j <= n
      <4>1. i \in 1..n /\ j \in 1..n
        BY <1>3, <2>1, <3>1
      <4> QED
        BY <1>1, <1>3, <2>1, <4>1 DEF OInv, ProcessedInOrder
    <3>2. CASE j > n
      <4>1. j - n \in 1..Len(stable) /\ n + (j - n) = j
        BY <1>3, <2>1, <3>2
      <4>2. processed'[m][j] = [msg |-> stable[j - n], sure |-> sure]
        BY <1>3, <4>1
      <4>3. CASE i <= n
        <5>1. i \in 1..n /\ processed'[m][i] = processed[m][i]
          BY <1>3, <2>1, <4>3
        <5>2. processed[m][i] \in Range(processed[m])
          BY <1>3, <5>1, RangeEquality
        <5>3. stable[j - n] \in Range(stable)
          BY <4>1, TextStamps
        <5> QED
          BY <1>1, <1>9, <4>2, <5>1, <5>2, <5>3
      <4>4. CASE i > n
        <5>1. i - n \in 1..Len(stable) /\ n + (i - n) = i /\ i - n < j - n
          BY <1>3, <2>1, <3>2, <4>4
        <5>2. processed'[m][i] = [msg |-> stable[i - n], sure |-> sure]
          BY <1>3, <5>1
        <5>3. stable[i - n].timeStamp < stable[j - n].timeStamp
          BY <4>1, <5>1 DEF Passed, InOrder
        <5> QED
          BY <4>2, <5>2, <5>3 DEF Precedes
      <4> QED
        BY <1>3, <2>1, <4>3, <4>4
    <3> QED
      BY <1>3, <2>1, <3>1, <3>2
  <2>2. ASSUME NEW b \in Member \ {m}, NEW i \in 1..Len(processed'[b]), NEW j \in 1..Len(processed'[b]), i < j
        PROVE  Precedes(processed'[b][i], processed'[b][j].msg)
    BY <1>1, <2>2 DEF OInv, ProcessedInOrder
  <2> QED
    BY <2>1, <2>2 DEF ProcessedInOrder, Precedes
<1> QED
  BY <1>1, <1>10, <1>11, <1>12, <1>13, <1>14, <1>15, <1>16, <1>17 DEF OInv

LEMMA NextOInv == OInv /\ [Next]_vars => OInv'
<1> SUFFICES ASSUME OInv, [Next]_vars PROVE OInv'
  OBVIOUS
<1>1. CASE UNCHANGED vars
  <2>1. Shape'
    BY <1>1 DEF vars, OInv, Shape
  <2> QED
    BY <1>1, <2>1, QuietOInv DEF vars
<1>2. ASSUME NEW m \in Member, UserRequest(m) PROVE OInv'
  BY <1>2, UserRequestOInv
<1>3. ASSUME NEW m \in Member, Transmit(m) PROVE OInv'
  BY <1>3, TransmitOInv
<1>4. ASSUME NEW m \in Member, Count(m) PROVE OInv'
  BY <1>4, CountOInv
<1>5. ASSUME NEW m \in Member, NEW k \in Member, Receive(m, k) PROVE OInv'
  BY <1>5, ReceivePassed, PassedOInv
<1> QED
  BY <1>1, <1>2, <1>3, <1>4, <1>5 DEF Next

\* Steps 2 to 5 of NetworkThread (system.cc:640-720): processMessage is called
\* with the messages of one member in the order of their stamps.
THEOREM SenderOrder == Spec => []MemberOrder
<1>1. OInv => MemberOrder
  BY DEF OInv, ProcessedInOrder, Precedes, MemberOrder
<1> QED
  BY <1>1, InitOInv, NextOInv, PTL DEF Spec

-----------------------------------------------------------------------------
(* Where an answer is, from the request to the count. *)

\* Two lists of tasks, one after the other.
LEMMA TwoLists ==
    ASSUME NEW s \in Seq(Task), NEW t \in Seq(Task), IsInjective(s), IsInjective(t),
           Range(s) \cap Range(t) = {}
    PROVE  /\ s \o t \in Seq(Task)
           /\ Range(s \o t) = Range(s) \cup Range(t)
           /\ IsInjective(s \o t)
<1>1. /\ Len(s) \in Nat /\ Len(t) \in Nat
      /\ DOMAIN s = 1..Len(s) /\ DOMAIN t = 1..Len(t)
      /\ Range(s) = {s[i] : i \in 1..Len(s)} /\ Range(t) = {t[i] : i \in 1..Len(t)}
  BY LenProperties, RangeEquality
<1>2. /\ s \o t \in Seq(Task)
      /\ Len(s \o t) = Len(s) + Len(t)
      /\ \A i \in 1..(Len(s) + Len(t)) : (s \o t)[i] = IF i <= Len(s) THEN s[i] ELSE t[i - Len(s)]
  BY ConcatProperties
<1>3. DOMAIN (s \o t) = 1..(Len(s) + Len(t))
  BY <1>2, LenProperties
<1>4. ASSUME NEW i \in 1..(Len(s) + Len(t)), NEW j \in 1..(Len(s) + Len(t)),
             (s \o t)[i] = (s \o t)[j]
      PROVE  i = j
  <2>1. CASE i <= Len(s) /\ j <= Len(s)
    BY <1>1, <1>2, <1>4, <2>1 DEF IsInjective
  <2>2. CASE i > Len(s) /\ j > Len(s)
    <3>1. i - Len(s) \in 1..Len(t) /\ j - Len(s) \in 1..Len(t)
      BY <1>1, <2>2
    <3>2. t[i - Len(s)] = t[j - Len(s)]
      BY <1>1, <1>2, <1>4, <2>2
    <3>3. i - Len(s) = j - Len(s)
      BY <1>1, <3>1, <3>2 DEF IsInjective
    <3> QED
      BY <1>1, <3>3
  <2>3. ASSUME NEW x \in 1..(Len(s) + Len(t)), NEW y \in 1..(Len(s) + Len(t)),
               x <= Len(s), y > Len(s)
        PROVE  (s \o t)[x] # (s \o t)[y]
    <3>1. x \in 1..Len(s) /\ y - Len(s) \in 1..Len(t)
      BY <1>1, <2>3
    <3>2. (s \o t)[x] = s[x] /\ (s \o t)[y] = t[y - Len(s)]
      BY <1>1, <1>2, <2>3
    <3> QED
      BY <1>1, <3>1, <3>2
  <2> QED
    BY <1>1, <1>4, <2>1, <2>2, <2>3
<1> QED
  BY <1>2, <1>3, <1>4, RangeConcatenation DEF IsInjective

LEMMA Broadcasts ==
    /\ IsInjective(TimeStampMessages)
    /\ \A x \in Range(TimeStampMessages) : x.type = "TIMESTAMP"
    /\ \A m \in Member : IsInjective(VerifyMessages(m))
    /\ \A m \in Member : Range(VerifyMessages(m)) = {[to |-> k, type |-> "VERIFY"] : k \in Member \ {m}}
<1>1. TimeStampMessages \in Seq(Task) /\ \A m \in Member : VerifyMessages(m) \in Seq(Task)
  BY TasksTyped
<1>2. /\ DOMAIN TimeStampMessages = Member
      /\ \A k \in Member : TimeStampMessages[k] = [to |-> k, type |-> "TIMESTAMP"]
  BY DEF TimeStampMessages
<1>3. IsInjective(TimeStampMessages)
  BY <1>2 DEF IsInjective
<1>4. \A x \in Range(TimeStampMessages) : x.type = "TIMESTAMP"
  BY <1>2 DEF Range
<1>5. ASSUME NEW m \in Member
      PROVE  /\ IsInjective(VerifyMessages(m))
             /\ Range(VerifyMessages(m)) = {[to |-> k, type |-> "VERIFY"] : k \in Member \ {m}}
  <2> DEFINE other(i) == IF i < m THEN i ELSE i + 1
  <2>1. /\ DOMAIN VerifyMessages(m) = 1..(N - 1)
        /\ \A i \in 1..(N - 1) : VerifyMessages(m)[i] = [to |-> other(i), type |-> "VERIFY"]
    BY DEF VerifyMessages
  <2>2. m \in 1..N /\ Member = 1..N
    BY DEF Member
  <2>3. \A i, j \in 1..(N - 1) : other(i) = other(j) => i = j
    BY <2>2
  <2>4. \A i \in 1..(N - 1) : other(i) \in Member \ {m}
    BY <2>2
  <2>5. ASSUME NEW k \in Member \ {m} PROVE \E i \in 1..(N - 1) : other(i) = k
    <3>1. CASE k < m
      <4>1. k \in 1..(N - 1) /\ other(k) = k
        BY <2>2, <3>1
      <4> QED
        BY <4>1
    <3>2. CASE k > m
      <4>1. k - 1 \in 1..(N - 1) /\ other(k - 1) = k
        BY <2>2, <3>2
      <4> QED
        BY <4>1
    <3> QED
      BY <2>2, <3>1, <3>2
  <2> HIDE DEF other
  <2>6. IsInjective(VerifyMessages(m))
    <3>1. ASSUME NEW i \in 1..(N - 1), NEW j \in 1..(N - 1), VerifyMessages(m)[i] = VerifyMessages(m)[j]
          PROVE  i = j
      <4>1. [to |-> other(i), type |-> "VERIFY"].to = [to |-> other(j), type |-> "VERIFY"].to
        BY <2>1, <3>1
      <4> QED
        BY <2>3, <4>1
    <3> QED
      BY <2>1, <3>1 DEF IsInjective
  <2>7. Range(VerifyMessages(m)) = {VerifyMessages(m)[i] : i \in 1..(N - 1)}
    BY <2>1 DEF Range
  <2>8. Range(VerifyMessages(m)) = {[to |-> other(i), type |-> "VERIFY"] : i \in 1..(N - 1)}
    BY <2>1, <2>7
  <2>9. {[to |-> other(i), type |-> "VERIFY"] : i \in 1..(N - 1)}
            = {[to |-> k, type |-> "VERIFY"] : k \in Member \ {m}}
    BY <2>4, <2>5
  <2> QED
    BY <2>6, <2>8, <2>9
<1> QED
  BY <1>3, <1>4, <1>5

\* What the messages that were processed give to do.
Reaction(p) == [to |-> p.from, type |-> IF p.type = "VERIFY" THEN "ANSWER" ELSE "COUNT"]

LEMMA Reactions ==
    ASSUME NEW msgs \in Seq(Text), InOrder(msgs),
           \A p \in Range(msgs) : p.type # "TIMESTAMP",
           \A p, q \in Range(msgs) : p.from = q.from /\ p.type = q.type => p = q
    PROVE  /\ IsInjective(Work(msgs))
           /\ Range(Work(msgs)) = {Reaction(p) : p \in Range(msgs)}
<1>1. /\ Len(msgs) \in Nat
      /\ \A i \in 1..Len(msgs) : msgs[i] \in Text /\ msgs[i].timeStamp \in Nat
      /\ Range(msgs) = {msgs[i] : i \in 1..Len(msgs)}
  BY TextStamps
<1>2. /\ DOMAIN Work(msgs) = 1..Len(msgs)
      /\ \A i \in 1..Len(msgs) : Work(msgs)[i] = Reaction(msgs[i])
  BY DEF Work, Reaction
<1>3. Range(Work(msgs)) = {Work(msgs)[i] : i \in 1..Len(msgs)}
  BY <1>2 DEF Range
<1>4. Range(Work(msgs)) = {Reaction(p) : p \in Range(msgs)}
  BY <1>1, <1>2, <1>3
<1>5. ASSUME NEW p \in Range(msgs), NEW q \in Range(msgs), Reaction(p) = Reaction(q)
      PROVE  p = q
  <2>1. p \in Text /\ q \in Text
    BY <1>1
  <2>2. p.type \in {"VERIFY", "ANSWER"} /\ q.type \in {"VERIFY", "ANSWER"}
    BY <2>1 DEF Text
  <2>3. Reaction(p).to = Reaction(q).to /\ Reaction(p).type = Reaction(q).type
    BY <1>5
  <2>4. p.from = q.from
    BY <2>3 DEF Reaction
  <2>5. p.type = q.type
    BY <2>2, <2>3 DEF Reaction
  <2> QED
    BY <2>4, <2>5
<1>6. ASSUME NEW i \in 1..Len(msgs), NEW j \in 1..Len(msgs), Work(msgs)[i] = Work(msgs)[j]
      PROVE  i = j
  <2>1. msgs[i] = msgs[j]
    BY <1>1, <1>2, <1>5, <1>6
  <2>2. ~(i < j) /\ ~(j < i)
    BY <1>1, <2>1 DEF InOrder
  <2> QED
    BY <1>1, <2>2
<1> QED
  BY <1>2, <1>4, <1>6 DEF IsInjective

\* What k has from m and did not process, and what m has to do for k.
From(m, k) == {p \in Range(mail[m][k]) \cup Range(msgQueue[k]) : p.from = m}

Has(m, k, type) == \E p \in From(m, k) : p.type = type

Do(m, k, type) == [to |-> k, type |-> type] \in Range(out[m])

\* The way of the answer of k that the user program of m waits for.
ToAsk(m, k)    == Do(m, k, "VERIFY")
Asked(m, k)    == Has(m, k, "VERIFY")
ToAnswer(m, k) == Do(k, m, "ANSWER")
Answered(m, k) == Has(k, m, "ANSWER")
ToCount(m, k)  == Do(m, k, "COUNT")

OnePlace(m, k) ==
    /\ ToAsk(m, k) => ~Asked(m, k) /\ ~ToAnswer(m, k) /\ ~Answered(m, k) /\ ~ToCount(m, k)
    /\ Asked(m, k) => ~ToAnswer(m, k) /\ ~Answered(m, k) /\ ~ToCount(m, k)
    /\ ToAnswer(m, k) => ~Answered(m, k) /\ ~ToCount(m, k)
    /\ Answered(m, k) => ~ToCount(m, k)

InPlay(m, k) ==
    ToAsk(m, k) \/ Asked(m, k) \/ ToAnswer(m, k) \/ Answered(m, k) \/ ToCount(m, k)

\* The members whose answers m waits for.
Due(m) == {k \in Member : InPlay(m, k)}

\* No thread has the same to do twice, and none has two messages of one type
\* from the same member; a user program waits for the answers on the way.
TInv ==
    /\ \A m \in Member : IsInjective(out[m])
    /\ \A m, k \in Member : \A p, q \in From(m, k) :
           p.type = q.type /\ p.type # "TIMESTAMP" => p = q
    /\ \A m \in Member : \A p \in Range(msgQueue[m]) : p.type # "TIMESTAMP"
    /\ \A m, k \in Member : OnePlace(m, k)
    /\ \A m \in Member : ~InPlay(m, m)
    /\ \A m \in Member : waiting[m] = Cardinality(Due(m))

\* The number of answers that are due.
LEMMA DueBounds ==
    ASSUME NEW m \in Member, ~InPlay(m, m)
    PROVE  /\ IsFiniteSet(Due(m))
           /\ Cardinality(Due(m)) \in 0..(N - 1)
           /\ Cardinality(Due(m)) = 0 => Due(m) = {}
           /\ Cardinality(Member \ {m}) = N - 1
<1>1. IsFiniteSet(Member) /\ Cardinality(Member) = N
  BY FS_Interval DEF Member
<1>2. IsFiniteSet(Member \ {m}) /\ Cardinality(Member \ {m}) = N - 1
  BY <1>1, FS_RemoveElement
<1>3. Due(m) \in SUBSET (Member \ {m})
  BY DEF Due
<1>4. IsFiniteSet(Due(m)) /\ Cardinality(Due(m)) <= N - 1
  BY <1>2, <1>3, FS_Subset
<1>5. Cardinality(Due(m)) \in Nat
  BY <1>4, FS_CardinalityType
<1>6. Cardinality(Due(m)) = 0 => Due(m) = {}
  BY <1>4, FS_EmptySet
<1> QED
  BY <1>2, <1>4, <1>5, <1>6

\* A step that takes every answer at most one place further keeps each in one
\* place, and loses none.
Carried(m, k) ==
    /\ ToAsk(m, k)' => ToAsk(m, k)
    /\ ToAsk(m, k) => ToAsk(m, k)' \/ Asked(m, k)'
    /\ Asked(m, k)' => Asked(m, k) \/ (ToAsk(m, k) /\ ~ToAsk(m, k)')
    /\ Asked(m, k) => Asked(m, k)' \/ ToAnswer(m, k)'
    /\ ToAnswer(m, k)' => ToAnswer(m, k) \/ (Asked(m, k) /\ ~Asked(m, k)')
    /\ ToAnswer(m, k) => ToAnswer(m, k)' \/ Answered(m, k)'
    /\ Answered(m, k)' => Answered(m, k) \/ (ToAnswer(m, k) /\ ~ToAnswer(m, k)')
    /\ Answered(m, k) => Answered(m, k)' \/ ToCount(m, k)'
    /\ ToCount(m, k)' => ToCount(m, k) \/ (Answered(m, k) /\ ~Answered(m, k)')
    /\ ToCount(m, k) => ToCount(m, k)'

LEMMA CarriedOn ==
    ASSUME NEW m \in Member, NEW k \in Member, OnePlace(m, k), Carried(m, k)
    PROVE  OnePlace(m, k)' /\ (InPlay(m, k)' <=> InPlay(m, k))
BY DEF OnePlace, Carried, InPlay

LEMMA CarriedTInv ==
    ASSUME TInv, \A m, k \in Member : Carried(m, k), UNCHANGED waiting,
           \A m \in Member : IsInjective(out'[m]),
           \A m, k \in Member : \A p, q \in From(m, k)' :
               p.type = q.type /\ p.type # "TIMESTAMP" => p = q,
           \A m \in Member : \A p \in Range(msgQueue'[m]) : p.type # "TIMESTAMP"
    PROVE  TInv'
<1>1. \A m, k \in Member : OnePlace(m, k)' /\ (InPlay(m, k)' <=> InPlay(m, k))
  BY CarriedOn DEF TInv
<1>2. \A m \in Member : Due(m)' = Due(m)
  BY <1>1 DEF Due
<1> QED
  BY <1>1, <1>2 DEF TInv

LEMMA InitTInv == Init => TInv
<1> SUFFICES ASSUME Init PROVE TInv
  OBVIOUS
<1>1. /\ \A m \in Member : out[m] = <<>> /\ msgQueue[m] = <<>> /\ waiting[m] = 0
      /\ \A m, k \in Member : mail[m][k] = <<>>
      /\ IsInjective(<<>>) /\ Range(<<>>) = {}
  BY EmptyQueue DEF Init
<1>2. \A m, k \in Member : From(m, k) = {}
  BY <1>1 DEF From
<1>3. \A m, k \in Member : ~InPlay(m, k)
  BY <1>1, <1>2 DEF InPlay, ToAsk, Asked, ToAnswer, Answered, ToCount, Has, Do
<1>4. \A m \in Member : Cardinality(Due(m)) = 0
  BY <1>3, FS_EmptySet DEF Due
<1> QED
  BY <1>1, <1>2, <1>3, <1>4 DEF TInv, OnePlace, InPlay

LEMMA UserRequestTInv ==
    ASSUME OInv, TInv, NEW m \in Member, UserRequest(m)
    PROVE  TInv'
<1>1. /\ out[m] = <<>> /\ waiting[m] = 0 /\ Range(<<>>) = {}
      /\ out'[m] = TimeStampMessages \o VerifyMessages(m)
      /\ \A a \in Member \ {m} : out'[a] = out[a]
      /\ waiting'[m] = N - 1 /\ \A a \in Member \ {m} : waiting'[a] = waiting[a]
      /\ UNCHANGED <<mail, msgQueue>>
  BY EmptyQueue DEF UserRequest, OInv, Shape
<1>2. /\ IsInjective(out'[m])
      /\ \A x \in Range(out'[m]) : x.type \in {"TIMESTAMP", "VERIFY"}
      /\ \A b \in Member : [to |-> b, type |-> "VERIFY"] \in Range(out'[m]) <=> b # m
  <2>1. TimeStampMessages \in Seq(Task) /\ VerifyMessages(m) \in Seq(Task)
    BY TasksTyped
  <2>2. /\ IsInjective(TimeStampMessages) /\ IsInjective(VerifyMessages(m))
        /\ \A x \in Range(TimeStampMessages) : x.type = "TIMESTAMP"
        /\ Range(VerifyMessages(m)) = {[to |-> k, type |-> "VERIFY"] : k \in Member \ {m}}
    BY Broadcasts
  <2>3. Range(TimeStampMessages) \cap Range(VerifyMessages(m)) = {}
    BY <2>2
  <2>4. /\ IsInjective(out'[m])
        /\ Range(out'[m]) = Range(TimeStampMessages) \cup Range(VerifyMessages(m))
    BY <1>1, <2>1, <2>2, <2>3, TwoLists
  <2>5. \A x \in Range(VerifyMessages(m)) : x.type = "VERIFY" /\ x.to \in Member \ {m}
    BY <2>2
  <2>6. ASSUME NEW b \in Member
        PROVE [to |-> b, type |-> "VERIFY"] \in Range(out'[m]) <=> b # m
    <3>1. PICK x : x = [to |-> b, type |-> "VERIFY"]
      OBVIOUS
    <3>2. x.to = b /\ x.type = "VERIFY"
      BY <3>1
    <3> QED
      BY <2>2, <2>4, <2>5, <3>1, <3>2
  <2> QED
    BY <2>2, <2>4, <2>5, <2>6
<1>3. \A b \in Member : ~InPlay(m, b)
  <2>1. Due(m) = {}
    BY <1>1, DueBounds DEF TInv
  <2> QED
    BY <2>1 DEF Due
<1>4. /\ \A a, b \in Member : \A s \in {"VERIFY", "ANSWER"} : Has(a, b, s)' <=> Has(a, b, s)
      /\ \A a, b \in Member : From(a, b)' = From(a, b)
  BY <1>1 DEF Has, From
<1>5. /\ \A a \in Member \ {m}, b \in Member : \A s \in {"VERIFY", "ANSWER", "COUNT"} :
             Do(a, b, s)' <=> Do(a, b, s)
      /\ \A b \in Member : \A s \in {"ANSWER", "COUNT"} : ~Do(m, b, s) /\ ~Do(m, b, s)'
      /\ \A b \in Member : Do(m, b, "VERIFY")' <=> b # m
  <2>1. \A a \in Member \ {m}, b \in Member : \A s \in {"VERIFY", "ANSWER", "COUNT"} :
             Do(a, b, s)' <=> Do(a, b, s)
    BY <1>1 DEF Do
  <2>2. \A b \in Member : \A s \in {"ANSWER", "COUNT"} : ~Do(m, b, s)
    BY <1>1 DEF Do
  <2>3. ASSUME NEW b \in Member, NEW s \in {"ANSWER", "COUNT"}, Do(m, b, s)' PROVE FALSE
    <3>1. PICK x : x = [to |-> b, type |-> s]
      OBVIOUS
    <3>2. x \in Range(out'[m]) /\ x.type = s
      BY <2>3, <3>1 DEF Do
    <3> QED
      BY <1>2, <3>2
  <2>4. \A b \in Member : Do(m, b, "VERIFY")' <=> b # m
    BY <1>2 DEF Do
  <2> QED
    BY <2>1, <2>2, <2>3, <2>4
<1>6. ASSUME NEW a \in Member, NEW b \in Member, a # m
      PROVE  OnePlace(a, b)' /\ (InPlay(a, b)' <=> InPlay(a, b))
  <2>1. Carried(a, b)
    BY <1>4, <1>5, <1>6 DEF Carried, ToAsk, Asked, ToAnswer, Answered, ToCount
  <2> QED
    BY <2>1, CarriedOn DEF TInv
<1>7. ASSUME NEW b \in Member
      PROVE  OnePlace(m, b)' /\ (InPlay(m, b)' <=> b # m)
  <2>1. ~Asked(m, b)' /\ ~ToAnswer(m, b)' /\ ~Answered(m, b)' /\ ~ToCount(m, b)'
    <3>1. ~Asked(m, b) /\ ~ToAnswer(m, b) /\ ~Answered(m, b)
      BY <1>3 DEF InPlay
    <3>2. (Asked(m, b)' <=> Asked(m, b)) /\ (Answered(m, b)' <=> Answered(m, b))
      BY <1>4 DEF Asked, Answered
    <3>3. ~ToAnswer(m, b)' /\ ~ToCount(m, b)'
      BY <1>5, <3>1 DEF ToAnswer, ToCount
    <3> QED
      BY <3>1, <3>2, <3>3
  <2>2. ToAsk(m, b)' <=> b # m
    BY <1>5 DEF ToAsk
  <2> QED
    BY <2>1, <2>2 DEF OnePlace, InPlay
<1>8. ASSUME NEW a \in Member PROVE waiting'[a] = Cardinality(Due(a)')
  <2>1. CASE a = m
    <3>1. Due(a)' = Member \ {m}
      BY <1>7, <2>1 DEF Due
    <3> QED
      BY <1>1, <2>1, <3>1, DueBounds DEF TInv
  <2>2. CASE a # m
    <3>1. Due(a)' = Due(a)
      BY <1>6, <2>2 DEF Due
    <3> QED
      BY <1>1, <2>2, <3>1 DEF TInv
  <2> QED
    BY <2>1, <2>2
<1>9. \A a, b \in Member : OnePlace(a, b)'
  BY <1>6, <1>7
<1>10. \A a \in Member : ~InPlay(a, a)'
  BY <1>6, <1>7 DEF TInv
<1>11. \A a \in Member : IsInjective(out'[a])
  BY <1>1, <1>2 DEF TInv
<1> QED
  BY <1>1, <1>4, <1>8, <1>9, <1>10, <1>11 DEF TInv

\* The first task of m is done.
LEMMA DoneTask ==
    ASSUME OInv, TInv, NEW m \in Member, out[m] # <<>>,
           out'[m] = Tail(out[m]), \A a \in Member \ {m} : out'[a] = out[a],
           NEW k \in Member, NEW s \in {"TIMESTAMP", "VERIFY", "ANSWER", "COUNT"},
           Head(out[m]).to = k, Head(out[m]).type = s
    PROVE  /\ \A a \in Member : IsInjective(out'[a])
           /\ Do(m, k, s)
           /\ \A a, b \in Member : \A x \in {"VERIFY", "ANSWER", "COUNT"} :
                 Do(a, b, x)' <=> Do(a, b, x) /\ ~(a = m /\ b = k /\ x = s)
<1>1. out \in [Member -> Seq(Task)] /\ out[m] \in Seq(Task) /\ IsInjective(out[m])
  BY DEF OInv, Shape, TInv
<1>2. /\ Head(out[m]) \in Range(out[m])
      /\ Range(Tail(out[m])) = Range(out[m]) \ {Head(out[m])}
      /\ IsInjective(Tail(out[m]))
  BY <1>1, RemoveQueue
<1>3. /\ out'[m] = Tail(out[m]) /\ \A a \in Member \ {m} : out'[a] = out[a]
      /\ Head(out[m]) = [to |-> k, type |-> s]
  <2>1. Head(out[m]) \in Task
    BY <1>1, HeadTailProperties
  <2> QED
    BY <2>1 DEF Task
<1>4. ASSUME NEW b \in Member, NEW x \in {"VERIFY", "ANSWER", "COUNT"}
      PROVE  Do(m, b, x)' <=> Do(m, b, x) /\ ~(b = k /\ x = s)
  <2>1. PICK t : t = [to |-> b, type |-> x]
    OBVIOUS
  <2>2. t = Head(out[m]) <=> b = k /\ x = s
    <3>1. t.to = b /\ t.type = x /\ Head(out[m]).to = k /\ Head(out[m]).type = s
      BY <2>1
    <3> QED
      BY <1>3, <2>1, <3>1
  <2>3. Do(m, b, x) <=> t \in Range(out[m])
    BY <2>1 DEF Do
  <2>4. Do(m, b, x)' <=> t \in Range(out'[m])
    BY <2>1 DEF Do
  <2> QED
    BY <1>2, <1>3, <2>2, <2>3, <2>4
<1>5. \A a \in Member \ {m}, b \in Member : \A x \in {"VERIFY", "ANSWER", "COUNT"} :
          Do(a, b, x)' <=> Do(a, b, x)
  BY <1>3 DEF Do
<1>6. \A a \in Member : IsInjective(out'[a])
  BY <1>2, <1>3 DEF TInv
<1>7. Do(m, k, s)
  BY <1>2, <1>3 DEF Do
<1> QED
  BY <1>4, <1>5, <1>6, <1>7

LEMMA CountTInv ==
    ASSUME OInv, TInv, NEW m \in Member, Count(m)
    PROVE  TInv'
<1>1. /\ out[m] # <<>> /\ Head(out[m]).type = "COUNT"
      /\ out'[m] = Tail(out[m]) /\ \A a \in Member \ {m} : out'[a] = out[a]
      /\ waiting'[m] = waiting[m] - 1 /\ \A a \in Member \ {m} : waiting'[a] = waiting[a]
      /\ UNCHANGED <<mail, msgQueue>>
  BY DEF Count, OInv, Shape
<1>2. PICK k \in Member : Head(out[m]).to = k /\ Head(out[m]).type = "COUNT"
  <2>1. out[m] \in Seq(Task)
    BY DEF OInv, Shape
  <2>2. Head(out[m]) \in Task
    BY <1>1, <2>1, HeadTailProperties
  <2> QED
    BY <1>1, <2>2 DEF Task
<1>3. /\ \A a \in Member : IsInjective(out'[a])
      /\ Do(m, k, "COUNT")
      /\ \A a, b \in Member : \A x \in {"VERIFY", "ANSWER", "COUNT"} :
            Do(a, b, x)' <=> Do(a, b, x) /\ ~(a = m /\ b = k /\ x = "COUNT")
  BY <1>1, <1>2, DoneTask
<1>4. /\ \A a, b \in Member : \A s \in {"VERIFY", "ANSWER"} : Has(a, b, s)' <=> Has(a, b, s)
      /\ \A a, b \in Member : From(a, b)' = From(a, b)
  BY <1>1 DEF Has, From
<1>5. ASSUME NEW a \in Member, NEW b \in Member
      PROVE  OnePlace(a, b)' /\ (InPlay(a, b)' <=> InPlay(a, b) /\ ~(a = m /\ b = k))
  <2>1. /\ ToAsk(a, b)' <=> ToAsk(a, b)
        /\ Asked(a, b)' <=> Asked(a, b)
        /\ ToAnswer(a, b)' <=> ToAnswer(a, b)
        /\ Answered(a, b)' <=> Answered(a, b)
        /\ ToCount(a, b)' <=> ToCount(a, b) /\ ~(a = m /\ b = k)
        /\ a = m /\ b = k => ToCount(a, b)
    BY <1>3, <1>4 DEF ToAsk, Asked, ToAnswer, Answered, ToCount
  <2>2. OnePlace(a, b)
    BY DEF TInv
  <2> QED
    BY <2>1, <2>2 DEF OnePlace, InPlay
<1>6. k \in Due(m)
  BY <1>3 DEF Due, InPlay, ToCount
<1>7. ASSUME NEW a \in Member PROVE waiting'[a] = Cardinality(Due(a)')
  <2>1. CASE a = m
    <3>1. Due(a)' = Due(a) \ {k}
      BY <1>5, <2>1 DEF Due
    <3>2. IsFiniteSet(Due(a)) /\ waiting[a] = Cardinality(Due(a))
      BY DueBounds DEF TInv
    <3>3. Cardinality(Due(a) \ {k}) = Cardinality(Due(a)) - 1
      BY <1>6, <2>1, <3>2, FS_RemoveElement
    <3> QED
      BY <1>1, <2>1, <3>1, <3>2, <3>3
  <2>2. CASE a # m
    <3>1. Due(a)' = Due(a)
      BY <1>5, <2>2 DEF Due
    <3> QED
      BY <1>1, <2>2, <3>1 DEF TInv
  <2> QED
    BY <2>1, <2>2
<1>8. \A a \in Member : ~InPlay(a, a)'
  BY <1>5 DEF TInv
<1> QED
  BY <1>1, <1>3, <1>4, <1>5, <1>7, <1>8 DEF TInv

LEMMA TransmitTInv ==
    ASSUME OInv, TInv, NEW m \in Member, Transmit(m)
    PROVE  TInv'
<1>1. PICK k \in Member, pk \in Text : Sent(m, k, pk)
  BY TransmitSent
<1>2. /\ out[m] # <<>>
      /\ out'[m] = Tail(out[m]) /\ \A a \in Member \ {m} : out'[a] = out[a]
      /\ pk.type \in {"TIMESTAMP", "VERIFY", "ANSWER"}
      /\ Head(out[m]) = [to |-> k, type |-> pk.type]
      /\ UNCHANGED <<waiting, msgQueue>>
      /\ pk.from = m
      /\ \A a, b \in Member : ~(a = m /\ b = k) => mail'[a][b] = mail[a][b]
      /\ Range(mail'[m][k]) = Range(mail[m][k]) \cup {pk}
  <2>1. pk.type \in {"TIMESTAMP", "VERIFY", "ANSWER"}
    BY DEF Text
  <2>2. out'[m] = Tail(out[m]) /\ \A a \in Member \ {m} : out'[a] = out[a]
    BY <1>1 DEF Sent, OInv, Shape
  <2> QED
    BY <1>1, <2>1, <2>2 DEF Sent, Transmit
<1>3. /\ \A a \in Member : IsInjective(out'[a])
      /\ Do(m, k, pk.type)
      /\ \A a, b \in Member : \A x \in {"VERIFY", "ANSWER", "COUNT"} :
            Do(a, b, x)' <=> Do(a, b, x) /\ ~(a = m /\ b = k /\ x = pk.type)
  <2>1. PICK s \in {"TIMESTAMP", "VERIFY", "ANSWER", "COUNT"} : s = pk.type
    BY <1>2
  <2>2. Head(out[m]).to = k /\ Head(out[m]).type = s
    BY <1>2, <2>1
  <2>3. out[m] # <<>> /\ out'[m] = Tail(out[m]) /\ \A a \in Member \ {m} : out'[a] = out[a]
    BY <1>2
  <2>4. /\ \A a \in Member : IsInjective(out'[a])
        /\ Do(m, k, s)
        /\ \A a, b \in Member : \A x \in {"VERIFY", "ANSWER", "COUNT"} :
              Do(a, b, x)' <=> Do(a, b, x) /\ ~(a = m /\ b = k /\ x = s)
    BY <2>2, <2>3, DoneTask
  <2> QED
    BY <2>1, <2>4
<1>4. pk.type \in {"TIMESTAMP", "VERIFY", "ANSWER"}
  BY <1>2
<1>5. /\ From(m, k)' = From(m, k) \cup {pk}
      /\ \A a, b \in Member : ~(a = m /\ b = k) => From(a, b)' = From(a, b)
  BY <1>2 DEF From
<1>6. \A a, b \in Member : \A s \in {"VERIFY", "ANSWER"} :
          Has(a, b, s)' <=> Has(a, b, s) \/ (a = m /\ b = k /\ s = pk.type)
  <2>1. ASSUME NEW s \in {"VERIFY", "ANSWER"} PROVE Has(m, k, s)' <=> Has(m, k, s) \/ s = pk.type
    BY <1>5 DEF Has
  <2>2. \A a, b \in Member : \A s \in {"VERIFY", "ANSWER"} :
            ~(a = m /\ b = k) => (Has(a, b, s)' <=> Has(a, b, s))
    BY <1>5 DEF Has
  <2> QED
    BY <2>1, <2>2
<1>7. ASSUME NEW a \in Member, NEW b \in Member PROVE Carried(a, b)
  BY <1>3, <1>4, <1>6 DEF Carried, ToAsk, Asked, ToAnswer, Answered, ToCount
<1>8. pk.type # "TIMESTAMP" => ~Has(m, k, pk.type)
  <2>1. CASE pk.type = "VERIFY"
    BY <1>3, <2>1 DEF TInv, OnePlace, ToAsk, Asked
  <2>2. CASE pk.type = "ANSWER"
    BY <1>3, <2>2 DEF TInv, OnePlace, ToAnswer, Answered
  <2> QED
    BY <1>4, <2>1, <2>2
<1>9. ASSUME NEW a \in Member, NEW b \in Member, NEW p \in From(a, b)', NEW q \in From(a, b)',
             p.type = q.type, p.type # "TIMESTAMP"
      PROVE  p = q
  <2>1. CASE p \in From(a, b) /\ q \in From(a, b)
    BY <1>9, <2>1 DEF TInv
  <2>2. CASE a = m /\ b = k /\ (p = pk \/ q = pk)
    BY <1>5, <1>8, <1>9, <2>2 DEF Has
  <2> QED
    BY <1>5, <1>9, <2>1, <2>2
<1>10. \A a \in Member : \A p \in Range(msgQueue'[a]) : p.type # "TIMESTAMP"
  BY <1>2 DEF TInv
<1> QED
  BY <1>2, <1>3, <1>7, <1>9, <1>10, CarriedTInv

LEMMA PassedTInv ==
    ASSUME OInv, TInv, NEW m \in Member, NEW k \in Member, NEW msg \in Text,
           NEW stable \in Seq(Text), NEW rest \in Seq(Text), NEW sure \in BOOLEAN,
           Passed(m, k, msg, stable, rest, sure)
    PROVE  TInv'
<1> DEFINE Took(b, s) == \E p \in Range(stable) : p.from = b /\ p.type = s
<1>1. /\ out[m] = <<>> /\ Range(<<>>) = {} /\ UNCHANGED waiting
      /\ \A a \in Member \ {m} : out'[a] = out[a]
      /\ out'[m] = (IF msg.type = "TIMESTAMP" THEN <<>> ELSE TimeStampMessages) \o Work(stable)
  BY EmptyQueue DEF Passed, OInv, Shape
<1>2. /\ msg \in Range(mail[k][m]) /\ msg.from = k
      /\ Range(mail[k][m]) = Range(mail'[k][m]) \cup {msg}
      /\ msg \notin Range(mail'[k][m])
      /\ \A a, b \in Member : ~(a = k /\ b = m) => mail'[a][b] = mail[a][b]
      /\ \A b \in Member \ {m} : msgQueue'[b] = msgQueue[b]
      /\ msgQueue'[m] = rest
      /\ InOrder(stable)
      /\ Range(stable) \cup Range(rest)
            = Range(msgQueue[m]) \cup (IF msg.type = "TIMESTAMP" THEN {} ELSE {msg})
      /\ Range(stable) \cap Range(rest) = {}
  <2>1. /\ mail'[k][m] = Tail(mail[k][m])
        /\ \A a, b \in Member : ~(a = k /\ b = m) => mail'[a][b] = mail[a][b]
    BY DEF Passed, OInv, Shape
  <2>2. /\ msg \in Range(mail[k][m]) /\ msg.from = k /\ msg.timeStamp \in Nat
        /\ \A p \in Range(mail'[k][m]) : msg.timeStamp < p.timeStamp
        /\ \A b \in Member \ {m} : msgQueue'[b] = msgQueue[b]
        /\ msgQueue'[m] = rest
    BY PassedParts
  <2>3. msg \notin Range(mail'[k][m])
    BY <2>2
  <2>4. /\ InOrder(stable)
        /\ Range(stable) \cup Range(rest)
              = Range(msgQueue[m]) \cup (IF msg.type = "TIMESTAMP" THEN {} ELSE {msg})
        /\ Range(mail[k][m]) = Range(mail'[k][m]) \cup {msg}
    BY <2>1 DEF Passed
  <2>5. Range(stable) \cap Range(rest) = {}
    <3>1. \A p \in Range(stable) : p.timeStamp \in Nat
      BY TextStamps
    <3>2. \A p \in Range(stable), q \in Range(rest) : p.timeStamp < q.timeStamp
      BY DEF Passed
    <3>3. ASSUME NEW p, p \in Range(stable), p \in Range(rest) PROVE FALSE
      BY <3>1, <3>2, <3>3
    <3> QED
      BY <3>3
  <2> QED
    BY <2>1, <2>2, <2>3, <2>4, <2>5
<1>3. /\ \A a, b \in Member : From(a, b)' \subseteq From(a, b)
      /\ \A a \in Member, b \in Member \ {m} : From(a, b)' = From(a, b)
      /\ \A p \in Range(stable) \cup Range(rest) : p \in From(p.from, m) /\ p.type # "TIMESTAMP"
      /\ \A b \in Member : \A p \in From(b, m) :
            p.type # "TIMESTAMP" => p \in From(b, m)' \/ p \in Range(stable)
      /\ \A b \in Member : \A p \in From(b, m)' : p \notin Range(stable)
  <2>1. \A p \in Range(stable) \cup Range(rest) : p \in From(p.from, m) /\ p.type # "TIMESTAMP"
    BY <1>2 DEF From, TInv
  <2>2. ASSUME NEW a \in Member, NEW b \in Member PROVE From(a, b)' \subseteq From(a, b)
    BY <1>2 DEF From
  <2>3. \A a \in Member, b \in Member \ {m} : From(a, b)' = From(a, b)
    BY <1>2 DEF From
  <2>4. ASSUME NEW b \in Member, NEW p \in From(b, m), p.type # "TIMESTAMP"
        PROVE  p \in From(b, m)' \/ p \in Range(stable)
    <3>1. p.from = b /\ (p \in Range(mail[b][m]) \/ p \in Range(msgQueue[m]))
      BY <2>4 DEF From
    <3>2. p \in Range(mail'[b][m]) \/ p \in Range(stable) \/ p \in Range(rest)
      BY <1>2, <2>4, <3>1
    <3> QED
      BY <1>2, <3>1, <3>2 DEF From
  <2>5. ASSUME NEW b \in Member, NEW p \in From(b, m)', p \in Range(stable)
        PROVE  FALSE
    <3>1. p \in Range(mail'[b][m])
      BY <1>2, <2>5 DEF From
    <3>2. p \in Range(mail[b][m])
      BY <1>2, <3>1
    <3>3. p \in Range(msgQueue[m]) \/ p = msg
      BY <1>2, <2>5
    <3>4. p # msg
      <4>1. b = k => p # msg
        BY <1>2, <3>1
      <4>2. b # k => p # msg
        BY <1>2, <3>2 DEF OInv, Issued
      <4> QED
        BY <4>1, <4>2
    <3> QED
      BY <3>2, <3>3, <3>4 DEF OInv, NoTwins
  <2> QED
    BY <2>1, <2>2, <2>3, <2>4, <2>5
<1>4. \A p, q \in Range(stable) : p.from = q.from /\ p.type = q.type => p = q
  <2>1. \A p \in Range(stable) : p.from \in Member
    <3>1. \A p \in Text : p.from \in Member
      BY DEF Text
    <3> QED
      BY <3>1, TextStamps
  <2> QED
    BY <1>3, <2>1 DEF TInv
<1>5. /\ IsInjective(out'[m])
      /\ \A x \in Range(out'[m]) : x.type # "TIMESTAMP" => x \in {Reaction(p) : p \in Range(stable)}
      /\ \A p \in Range(stable) : Reaction(p) \in Range(out'[m])
  <2> DEFINE first == IF msg.type = "TIMESTAMP" THEN <<>> ELSE TimeStampMessages
  <2>1. /\ first \in Seq(Task) /\ Work(stable) \in Seq(Task)
        /\ IsInjective(first) /\ \A x \in Range(first) : x.type = "TIMESTAMP"
    BY TasksTyped, Broadcasts, EmptyQueue
  <2>2. /\ IsInjective(Work(stable))
        /\ Range(Work(stable)) = {Reaction(p) : p \in Range(stable)}
    BY <1>2, <1>3, <1>4, Reactions
  <2>3. out'[m] = first \o Work(stable)
    BY <1>1
  <2> HIDE DEF first
  <2>4. \A x \in Range(Work(stable)) : x.type # "TIMESTAMP"
    BY <2>2 DEF Reaction
  <2>5. /\ Range(first \o Work(stable)) = Range(first) \cup Range(Work(stable))
        /\ IsInjective(first \o Work(stable))
    BY <2>1, <2>2, <2>4, TwoLists
  <2> QED
    BY <2>1, <2>2, <2>3, <2>4, <2>5
<1>6. /\ \A b \in Member : \A s \in {"VERIFY", "ANSWER"} :
             /\ Has(b, m, s) <=> Has(b, m, s)' \/ Took(b, s)
             /\ ~(Has(b, m, s)' /\ Took(b, s))
      /\ \A a \in Member, b \in Member \ {m} : \A s \in {"VERIFY", "ANSWER"} :
             Has(a, b, s)' <=> Has(a, b, s)
  <2>1. ASSUME NEW b \in Member, NEW s \in {"VERIFY", "ANSWER"}
        PROVE  Has(b, m, s) <=> Has(b, m, s)' \/ Took(b, s)
    <3>1. ASSUME Has(b, m, s) PROVE Has(b, m, s)' \/ Took(b, s)
      <4>1. PICK p \in From(b, m) : p.type = s
        BY <3>1 DEF Has
      <4>2. p.from = b
        BY DEF From
      <4> QED
        BY <1>3, <4>1, <4>2 DEF Has
    <3>2. ASSUME Has(b, m, s)' \/ Took(b, s) PROVE Has(b, m, s)
      BY <1>3, <3>2 DEF Has
    <3> QED
      BY <3>1, <3>2
  <2>2. ASSUME NEW b \in Member, NEW s \in {"VERIFY", "ANSWER"}, Has(b, m, s)', Took(b, s)
        PROVE  FALSE
    <3>1. PICK p \in From(b, m)' : p.type = s
      BY <2>2 DEF Has
    <3>2. PICK q \in Range(stable) : q.from = b /\ q.type = s
      BY <2>2
    <3>3. p \in From(b, m) /\ q \in From(b, m) /\ p # q
      BY <1>3, <3>1, <3>2
    <3> QED
      BY <3>1, <3>2, <3>3 DEF TInv
  <2>3. \A a \in Member, b \in Member \ {m} : \A s \in {"VERIFY", "ANSWER"} :
             Has(a, b, s)' <=> Has(a, b, s)
    BY <1>3 DEF Has
  <2> QED
    BY <2>1, <2>2, <2>3
<1>7. /\ \A b \in Member : \A s \in {"VERIFY", "ANSWER", "COUNT"} : ~Do(m, b, s)
      /\ \A b \in Member : ~Do(m, b, "VERIFY")'
      /\ \A b \in Member : Do(m, b, "ANSWER")' <=> Took(b, "VERIFY")
      /\ \A b \in Member : Do(m, b, "COUNT")' <=> Took(b, "ANSWER")
      /\ \A a \in Member \ {m}, b \in Member : \A s \in {"VERIFY", "ANSWER", "COUNT"} :
             Do(a, b, s)' <=> Do(a, b, s)
  <2>1. \A p \in Range(stable) : p.type \in {"VERIFY", "ANSWER"}
    <3>1. \A p \in Text : p.type \in {"TIMESTAMP", "VERIFY", "ANSWER"}
      BY DEF Text
    <3> QED
      BY <1>3, <3>1, TextStamps
  <2>2. ASSUME NEW b \in Member, NEW s \in {"VERIFY", "ANSWER", "COUNT"}
        PROVE  Do(m, b, s)' <=> \E p \in Range(stable) : Reaction(p) = [to |-> b, type |-> s]
    <3>1. PICK x : x = [to |-> b, type |-> s]
      OBVIOUS
    <3>2. x.type # "TIMESTAMP"
      BY <3>1
    <3>3. Do(m, b, s)' <=> x \in Range(out'[m])
      BY <3>1 DEF Do
    <3> QED
      BY <1>5, <3>1, <3>2, <3>3
  <2>3. ASSUME NEW b \in Member, NEW s \in {"VERIFY", "ANSWER", "COUNT"}, NEW p \in Range(stable)
        PROVE  Reaction(p) = [to |-> b, type |-> s]
                  <=> p.from = b /\ s = IF p.type = "VERIFY" THEN "ANSWER" ELSE "COUNT"
    <3>1. PICK x : x = [to |-> b, type |-> s]
      OBVIOUS
    <3>2. PICK y : y = Reaction(p)
      OBVIOUS
    <3>3. x.to = b /\ x.type = s /\ y.to = p.from /\ y.type = IF p.type = "VERIFY" THEN "ANSWER" ELSE "COUNT"
      BY <3>1, <3>2 DEF Reaction
    <3> QED
      BY <3>1, <3>2, <3>3 DEF Reaction
  <2>4. ASSUME NEW b \in Member
        PROVE  /\ ~Do(m, b, "VERIFY")'
               /\ Do(m, b, "ANSWER")' <=> Took(b, "VERIFY")
               /\ Do(m, b, "COUNT")' <=> Took(b, "ANSWER")
    BY <2>1, <2>2, <2>3
  <2>5. \A b \in Member : \A s \in {"VERIFY", "ANSWER", "COUNT"} : ~Do(m, b, s)
    BY <1>1 DEF Do
  <2>6. \A a \in Member \ {m}, b \in Member : \A s \in {"VERIFY", "ANSWER", "COUNT"} :
             Do(a, b, s)' <=> Do(a, b, s)
    BY <1>1 DEF Do
  <2> QED
    BY <2>4, <2>5, <2>6
<1> HIDE DEF Took
<1>8. ASSUME NEW a \in Member, NEW b \in Member PROVE Carried(a, b)
  <2>1. (ToAsk(a, b)' <=> ToAsk(a, b)) \/ (a = m /\ ~ToAsk(a, b) /\ ~ToAsk(a, b)')
    BY <1>7 DEF ToAsk
  <2>2. CASE a = m /\ b = m
    BY <1>6, <1>7, <2>2 DEF Carried, ToAsk, Asked, ToAnswer, Answered, ToCount
  <2>3. CASE a = m /\ b # m
    BY <1>6, <1>7, <2>3 DEF Carried, ToAsk, Asked, ToAnswer, Answered, ToCount
  <2>4. CASE a # m /\ b = m
    BY <1>6, <1>7, <2>4 DEF Carried, ToAsk, Asked, ToAnswer, Answered, ToCount
  <2>5. CASE a # m /\ b # m
    BY <1>6, <1>7, <2>5 DEF Carried, ToAsk, Asked, ToAnswer, Answered, ToCount
  <2> QED
    BY <2>2, <2>3, <2>4, <2>5
<1>9. \A a \in Member : IsInjective(out'[a])
  BY <1>1, <1>5 DEF TInv
<1>10. \A a, b \in Member : \A p, q \in From(a, b)' :
           p.type = q.type /\ p.type # "TIMESTAMP" => p = q
  BY <1>3 DEF TInv
<1>11. \A a \in Member : \A p \in Range(msgQueue'[a]) : p.type # "TIMESTAMP"
  BY <1>2, <1>3 DEF TInv
<1> QED
  BY <1>1, <1>8, <1>9, <1>10, <1>11, CarriedTInv

LEMMA NextTInv == OInv /\ TInv /\ [Next]_vars => TInv'
<1> SUFFICES ASSUME OInv, TInv, [Next]_vars PROVE TInv'
  OBVIOUS
<1>1. CASE UNCHANGED vars
  <2>1. \A m, k \in Member : Carried(m, k)
    BY <1>1 DEF vars, Carried, ToAsk, Asked, ToAnswer, Answered, ToCount, Has, Do, From
  <2>2. \A m, k \in Member : From(m, k)' = From(m, k)
    BY <1>1 DEF vars, From
  <2>3. UNCHANGED <<waiting, out, msgQueue>>
    BY <1>1 DEF vars
  <2> QED
    BY <2>1, <2>2, <2>3, CarriedTInv DEF TInv
<1>2. ASSUME NEW m \in Member, UserRequest(m) PROVE TInv'
  BY <1>2, UserRequestTInv
<1>3. ASSUME NEW m \in Member, Transmit(m) PROVE TInv'
  BY <1>3, TransmitTInv
<1>4. ASSUME NEW m \in Member, Count(m) PROVE TInv'
  BY <1>4, CountTInv
<1>5. ASSUME NEW m \in Member, NEW k \in Member, Receive(m, k) PROVE TInv'
  BY <1>5, ReceivePassed, PassedTInv
<1> QED
  BY <1>1, <1>2, <1>3, <1>4, <1>5 DEF Next

\* With the stamps issued by the clock and the answers counted, every variable
\* has its type.
LEMMA Typed == OInv /\ TInv => TypeOK
<1> SUFFICES ASSUME OInv, TInv PROVE TypeOK
  OBVIOUS
<1>1. ASSUME NEW q \in Seq(Text), \A p \in Range(q) : p.timeStamp \in Stamp
      PROVE  q \in Seq(Packet)
  <2>1. Range(q) = {q[i] : i \in 1..Len(q)} /\ \A i \in 1..Len(q) : q[i] \in Text
    BY TextStamps
  <2>2. \A p \in Text : p.timeStamp \in Stamp => p \in Packet
    BY DEF Text, Packet
  <2>3. Range(q) \subseteq Packet
    BY <1>1, <2>1, <2>2
  <2>4. q \in Seq(Range(q))
    BY SeqOfRange
  <2> QED
    BY <2>3, <2>4, SeqMonotonic
<1>2. ASSUME NEW h \in Seq(Entry), \A e \in Range(h) : e.msg.timeStamp \in Stamp
      PROVE  h \in Seq([msg : Packet, sure : BOOLEAN])
  <2>1. Range(h) = {h[i] : i \in 1..Len(h)} /\ \A i \in 1..Len(h) : h[i] \in Entry
    BY RangeEquality, ElementOfSeq
  <2>2. \A p \in Text : p.timeStamp \in Stamp => p \in Packet
    BY DEF Text, Packet
  <2>3. \A e \in Entry : e.msg.timeStamp \in Stamp => e \in [msg : Packet, sure : BOOLEAN]
    BY <2>2 DEF Entry
  <2>4. Range(h) \subseteq [msg : Packet, sure : BOOLEAN]
    BY <1>2, <2>1, <2>3
  <2>5. h \in Seq(Range(h))
    BY SeqOfRange
  <2> QED
    BY <2>4, <2>5, SeqMonotonic
<1>3. /\ mail \in [Member -> [Member -> Seq(Text)]]
      /\ msgQueue \in [Member -> Seq(Text)]
      /\ processed \in [Member -> Seq(Entry)]
      /\ timeStamps \in [Member -> [Member -> Nat]]
      /\ waiting \in [Member -> Int]
  BY DEF OInv, Shape
<1>4. \A m, k \in Member : mail[m][k] \in Seq(Packet)
  BY <1>1, <1>3 DEF OInv, Issued
<1>5. \A m \in Member : msgQueue[m] \in Seq(Packet)
  BY <1>1, <1>3 DEF OInv, Issued
<1>6. \A m \in Member : processed[m] \in Seq([msg : Packet, sure : BOOLEAN])
  BY <1>2, <1>3 DEF OInv, Issued
<1>7. \A m, k \in Member : timeStamps[m][k] \in Uninitialised \cup Stamp
  BY DEF OInv, Issued
<1>8. \A m \in Member : waiting[m] \in 0..(N - 1)
  BY DueBounds DEF TInv
<1> HIDE DEF Packet, Stamp
<1>9. /\ mail \in [Member -> [Member -> Seq(Packet)]]
      /\ msgQueue \in [Member -> Seq(Packet)]
  BY <1>3, <1>4, <1>5
<1>10. processed \in [Member -> Seq([msg : Packet, sure : BOOLEAN])]
  BY <1>3, <1>6
<1>11. timeStamps \in [Member -> [Member -> Uninitialised \cup Stamp]]
  BY <1>3, <1>7
<1>12. waiting \in [Member -> 0..(N - 1)]
  BY <1>3, <1>8
<1> QED
  BY <1>9, <1>10, <1>11, <1>12 DEF TypeOK, OInv, Shape

\* Steps 2 to 5 of NetworkThread (system.cc:640-720) and processMessage
\* (netcall.cc:455-600): once a thread has heard from every member, what it
\* processes is earlier than all it will process afterwards, and no user program
\* gets an answer it does not wait for.
THEOREM TotallyOrdered == Spec => []OrderSound
<1>1. Init => OInv /\ TInv
  BY InitOInv, InitTInv
<1>2. (OInv /\ TInv) /\ [Next]_vars => (OInv /\ TInv)'
  BY NextOInv, NextTInv
<1>3. OInv => OrderedOnceHeard
  <2> SUFFICES ASSUME OInv, NEW m \in Member, NEW i \in 1..Len(processed[m]), processed[m][i].sure
               PROVE  /\ \A j \in (i + 1)..Len(processed[m]) :
                            processed[m][i].msg.timeStamp < processed[m][j].msg.timeStamp
                      /\ \A j \in 1..Len(msgQueue[m]) :
                            processed[m][i].msg.timeStamp < msgQueue[m][j].timeStamp
    BY DEF OrderedOnceHeard
  <2>1. /\ processed[m] \in Seq(Entry) /\ msgQueue[m] \in Seq(Text)
        /\ Len(processed[m]) \in Nat
    BY LenProperties DEF OInv, Shape
  <2>2. ASSUME NEW j \in (i + 1)..Len(processed[m])
        PROVE  processed[m][i].msg.timeStamp < processed[m][j].msg.timeStamp
    <3>1. j \in 1..Len(processed[m]) /\ i < j
      BY <2>1
    <3> QED
      BY <3>1 DEF OInv, ProcessedInOrder, Precedes
  <2>3. ASSUME NEW j \in 1..Len(msgQueue[m])
        PROVE  processed[m][i].msg.timeStamp < msgQueue[m][j].timeStamp
    <3>1. processed[m][i] \in Range(processed[m]) /\ msgQueue[m][j] \in Range(msgQueue[m])
      BY <2>1, RangeEquality
    <3> QED
      BY <3>1 DEF OInv, ProcessedFirst, Precedes
  <2> QED
    BY <2>2, <2>3
<1>4. OInv /\ TInv => OrderSound
  BY <1>3, Typed DEF OrderSound
<1> QED
  BY <1>1, <1>2, <1>4, PTL DEF Spec
=============================================================================
