-------------------------- MODULE PostOfficeProofs --------------------------
(***************************************************************************)
(* Proofs about acknowledged messages, for any number of nodes, messages,  *)
(* copies on the wire and renumbered messages: nothing is given up before  *)
(* it is accepted, and nothing is accepted twice or with another text.     *)
(* The counters stay within their bounds, and the first message of a       *)
(* thread for another is accepted before all that follow.                  *)
(***************************************************************************)
EXTENDS PostOffice, QueueLemmas

USE PostAssumption

-----------------------------------------------------------------------------
(* The inductive invariant *)

Packet == [from : Node, timeStamp : Nat, data : Seq(Int)]
Message == [to : Node, timeStamp : Nat, data : Seq(Int)]
ResendType == [pc : {"idle", "scan", "calling", "sending"}, i : Nat \ {0},
               locked : BOOLEAN, msg : Message \cup {NoMessage}]

\* What is recorded of a message that n sent.
SentBy(n, to, ts) == [from |-> n, to |-> to, timeStamp |-> ts, data |-> <<REQUEST>>]

WasSent(m) ==
    /\ m.from \in Node /\ m.to \in Node /\ m.timeStamp \in 1..clock
    /\ m = SentBy(m.from, m.to, m.timeStamp)

\* The types that the proof needs: also the lists and the wire are sequences.
PostTypes ==
    /\ clock \in Nat
    /\ \A m \in sent : WasSent(m)
    /\ wire \in [Node -> Seq(Packet)]
    /\ unAckedMessages \in [Node -> Seq(Message)]
    /\ receivedMessages \in [Node -> Seq(Packet)]
    /\ sendCounters \in [Node -> [Node -> Int]]
    /\ resendCounters \in [Node -> [Node -> Int]]
    /\ resend \in [Node -> ResendType]
    /\ \A n \in Node : resend[n].pc = "calling" => resend[n].msg \in Message

\* A time stamp is given once.
OneStamp == \A k, m \in sent : k.timeStamp = m.timeStamp => k = m

\* The text of a message behind one counter: it was not renumbered.
AsSent(data) == Tail(data) = <<REQUEST>> /\ data[2] = REQUEST

\* A message that is resent was sent, and unless it is as it was sent it has been
\* accepted: only then does the resend thread renumber it.
GoodMessage(n, m) ==
    /\ SentBy(n, m.to, m.timeStamp) \in sent
    /\ AsSent(m.data) \/ Redundant(m.to, n, m.timeStamp)

\* A packet is such a message or the acknowledgement of one that was accepted.
GoodPacket(n, p) ==
    \/ /\ SentBy(p.from, n, p.timeStamp) \in sent
       /\ AsSent(p.data) \/ Redundant(n, p.from, p.timeStamp)
    \/ /\ p.data = <<-1, ACK>>
       /\ SentBy(n, p.from, p.timeStamp) \in sent
       /\ Redundant(p.from, n, p.timeStamp)

GoodLists == \A n \in Node : \A m \in Range(unAckedMessages[n]) : GoodMessage(n, m)
GoodCalls == \A n \in Node : resend[n].pc = "calling" => GoodMessage(n, resend[n].msg)
GoodWire == \A n \in Node : \A p \in Range(wire[n]) : GoodPacket(n, p)

IInv ==
    /\ PostTypes
    /\ OneStamp
    /\ GoodLists
    /\ GoodCalls
    /\ GoodWire
    /\ AckedWasReceived
    /\ ReceivedAsSent

LEMMA InitIInv == Init => IInv
<1> SUFFICES ASSUME Init PROVE IInv
  OBVIOUS
<1> USE DEF Init
<1>1. PostTypes
  BY EmptyQueue DEF PostTypes, Idle, ResendType, None
<1>2. GoodLists /\ GoodCalls /\ GoodWire
  BY EmptyQueue DEF GoodLists, GoodCalls, GoodWire, Idle
<1>3. OneStamp /\ AckedWasReceived /\ ReceivedAsSent
  BY DEF OneStamp, AckedWasReceived, ReceivedAsSent
<1> QED
  BY <1>1, <1>2, <1>3 DEF IInv

-----------------------------------------------------------------------------
(* The operators of the model *)

\* Network::Send puts at most this packet on the wire, at its destination.
LEMMA TransmitWire ==
    ASSUME PostTypes, NEW n \in Node, NEW msg \in Message, NEW ok \in BOOLEAN
    PROVE  LET packet == [from |-> n, timeStamp |-> msg.timeStamp, data |-> msg.data]
           IN  /\ Transmit(n, msg, ok) \in [Node -> Seq(Packet)]
               /\ \A q \in Node : \A p \in Range(Transmit(n, msg, ok)[q]) :
                     p \in Range(wire[q]) \/ (q = msg.to /\ p = packet)
               /\ \A q \in Node : q # msg.to => Transmit(n, msg, ok)[q] = wire[q]
<1> DEFINE packet == [from |-> n, timeStamp |-> msg.timeStamp, data |-> msg.data]
           new == Append(wire[msg.to], packet)
<1>1. packet \in Packet /\ msg.to \in Node /\ wire[msg.to] \in Seq(Packet)
  BY DEF Message, Packet, PostTypes
<1>2. new \in Seq(Packet) /\ Range(new) = Range(wire[msg.to]) \cup {packet}
  BY <1>1, AppendQueue
<1>3. \/ Transmit(n, msg, ok) = [wire EXCEPT ![msg.to] = new]
      \/ Transmit(n, msg, ok) = wire
  BY DEF Transmit
<1> HIDE DEF new, packet
<1>4. CASE Transmit(n, msg, ok) = [wire EXCEPT ![msg.to] = new]
  <2>1. wire \in [Node -> Seq(Packet)]
    BY DEF PostTypes
  <2>2. Transmit(n, msg, ok) \in [Node -> Seq(Packet)]
    BY <1>1, <1>2, <1>4, <2>1
  <2>3. \A q \in Node : Transmit(n, msg, ok)[q] = IF q = msg.to THEN new ELSE wire[q]
    BY <1>4, <2>1
  <2> QED
    BY <1>2, <2>2, <2>3 DEF packet
<1>5. CASE Transmit(n, msg, ok) = wire
  BY <1>5 DEF PostTypes
<1> QED
  BY <1>3, <1>4, <1>5

\* Erase takes the entry off the list that it finds: no other is lost, and
\* none comes.
LEMMA EraseList ==
    ASSUME PostTypes, NEW n \in Node, NEW to, NEW ts
    PROVE  /\ Erase(n, to, ts) \in [Node -> Seq(Message)]
           /\ \A q \in Node : Range(Erase(n, to, ts)[q]) \subseteq Range(unAckedMessages[q])
           /\ \A q \in Node : \A e \in Range(unAckedMessages[q]) :
                 e \in Range(Erase(n, to, ts)[q]) \/ (q = n /\ e.to = to /\ e.timeStamp = ts)
<1> DEFINE k == Min(Matches(n, to, ts))
           q == unAckedMessages[n]
<1>1. q \in Seq(Message)
  BY DEF PostTypes
<1>2. CASE Matches(n, to, ts) = {}
  BY <1>2 DEF Erase, PostTypes
<1>3. CASE Matches(n, to, ts) # {}
  <2>1. Matches(n, to, ts) \in SUBSET Nat
    BY <1>1, LenProperties DEF Matches
  <2>2. k \in Matches(n, to, ts)
    BY <1>3, <2>1, MinOfNat
  <2>3. k \in 1..Len(q) /\ q[k].to = to /\ q[k].timeStamp = ts
    BY <2>2 DEF Matches
  <2>4. Erase(n, to, ts) = [unAckedMessages EXCEPT ![n] = RemoveAt(q, k)]
    BY <1>3 DEF Erase
  <2> HIDE DEF k
  <2>5. /\ RemoveAt(q, k) \in Seq(Message)
        /\ Range(RemoveAt(q, k)) \subseteq Range(q)
        /\ \A j \in 1..Len(q) : j # k => q[j] \in Range(RemoveAt(q, k))
    BY <1>1, <2>3, EraseQueue
  <2>6. Range(q) = {q[j] : j \in 1..Len(q)}
    BY <1>1, RangeEquality
  <2>7. \A e \in Range(q) : e \in Range(RemoveAt(q, k)) \/ (e.to = to /\ e.timeStamp = ts)
    BY <2>3, <2>5, <2>6
  <2> QED
    BY <2>4, <2>5, <2>7 DEF PostTypes
<1> QED
  BY <1>2, <1>3

\* The search for a message finds something if the list has an entry for it.
LEMMA MatchesRange ==
    ASSUME PostTypes, NEW n \in Node, NEW to, NEW ts
    PROVE  Matches(n, to, ts) = {}
              <=> \A e \in Range(unAckedMessages[n]) : ~(e.to = to /\ e.timeStamp = ts)
<1>1. Range(unAckedMessages[n]) = {unAckedMessages[n][j] : j \in 1..Len(unAckedMessages[n])}
  BY RangeEquality DEF PostTypes
<1> QED
  BY <1>1 DEF Matches

LEMMA MatchesRangeNext ==
    ASSUME PostTypes', NEW n \in Node, NEW to, NEW ts
    PROVE  Matches(n, to, ts)' = {}
              <=> \A e \in Range(unAckedMessages'[n]) : ~(e.to = to /\ e.timeStamp = ts)
<1>1. Range(unAckedMessages'[n]) = {unAckedMessages'[n][j] : j \in 1..Len(unAckedMessages'[n])}
  BY RangeEquality DEF PostTypes
<1> QED
  BY <1>1 DEF Matches

-----------------------------------------------------------------------------
(* What a step may do to history: accepted messages stay accepted *)

\* The messages that were sent and accepted are still there.
Grows ==
    /\ sent \subseteq sent'
    /\ \A n, m \in Node, ts \in Nat : Redundant(n, m, ts) => Redundant(n, m, ts)'

LEMMA GrowsMessage ==
    ASSUME Grows, NEW n \in Node, NEW m \in Message, GoodMessage(n, m)
    PROVE  GoodMessage(n, m)'
BY DEF Grows, GoodMessage, SentBy, Message

LEMMA GrowsPacket ==
    ASSUME Grows, NEW n \in Node, NEW p \in Packet, GoodPacket(n, p)
    PROVE  GoodPacket(n, p)'
BY DEF Grows, GoodPacket, SentBy, Packet

LEMMA SameGrows ==
    ASSUME sent \subseteq sent', UNCHANGED receivedMessages
    PROVE  Grows
BY DEF Grows, Redundant

\* Lists, calls and wire stay good when they get only good messages.
LEMMA GoodStep ==
    ASSUME IInv, PostTypes', Grows,
           \A n \in Node : \A m \in Range(unAckedMessages'[n]) :
              m \in Range(unAckedMessages[n]) \/ GoodMessage(n, m)',
           \A n \in Node : \A p \in Range(wire'[n]) :
              p \in Range(wire[n]) \/ GoodPacket(n, p)',
           \A n \in Node : resend'[n].pc = "calling" =>
              \/ resend[n].pc = "calling" /\ resend'[n].msg = resend[n].msg
              \/ resend'[n].msg \in Range(unAckedMessages[n])
    PROVE  GoodLists' /\ GoodCalls' /\ GoodWire'
<1>1. \A n \in Node : /\ \A m \in Range(unAckedMessages[n]) : m \in Message
                      /\ \A p \in Range(wire[n]) : p \in Packet
  <2> SUFFICES ASSUME NEW n \in Node
               PROVE  /\ Range(unAckedMessages[n]) \in SUBSET Message
                      /\ Range(wire[n]) \in SUBSET Packet
    OBVIOUS
  <2>1. unAckedMessages[n] \in Seq(Message) /\ wire[n] \in Seq(Packet)
    BY DEF IInv, PostTypes
  <2> QED
    BY <2>1, RangeOfSeq
<1>2. GoodLists'
  BY <1>1, GrowsMessage DEF IInv, GoodLists
<1>3. GoodWire'
  BY <1>1, GrowsPacket DEF IInv, GoodWire
<1>4. GoodCalls'
  <2> SUFFICES ASSUME NEW n \in Node, NEW m, resend'[n].pc = "calling", resend'[n].msg = m
               PROVE  GoodMessage(n, m)'
    BY DEF GoodCalls
  <2>1. m \in Message /\ GoodMessage(n, m)
    <3>1. CASE resend[n].pc = "calling" /\ m = resend[n].msg
      BY <3>1 DEF IInv, PostTypes, GoodCalls
    <3>2. CASE m \in Range(unAckedMessages[n])
      BY <1>1, <3>2 DEF IInv, GoodLists
    <3> QED
      BY <3>1, <3>2
  <2> QED
    BY <2>1, GrowsMessage
<1> QED
  BY <1>2, <1>3, <1>4

\* A message that was acknowledged before, or leaves the list now, is accepted.
LEMMA AckedStep ==
    ASSUME IInv, PostTypes', Grows, UNCHANGED sent,
           \A n \in Node : \A e \in Range(unAckedMessages[n]) :
              e \in Range(unAckedMessages'[n]) \/ Redundant(e.to, n, e.timeStamp)'
    PROVE  AckedWasReceived'
<1> SUFFICES ASSUME NEW m \in sent, Matches(m.from, m.to, m.timeStamp)' = {}
             PROVE  Redundant(m.to, m.from, m.timeStamp)'
  BY DEF AckedWasReceived, Accepted, Redundant
<1>1. m.from \in Node /\ m.to \in Node /\ m.timeStamp \in Nat
  BY DEF IInv, PostTypes, WasSent
<1>2. CASE Matches(m.from, m.to, m.timeStamp) = {}
  <2>1. Redundant(m.to, m.from, m.timeStamp)
    BY <1>2 DEF IInv, AckedWasReceived, Accepted, Redundant
  <2> QED
    BY <1>1, <2>1 DEF Grows
<1>3. CASE Matches(m.from, m.to, m.timeStamp) # {}
  <2>1. PostTypes
    BY DEF IInv
  <2>2. PICK e \in Range(unAckedMessages[m.from]) : e.to = m.to /\ e.timeStamp = m.timeStamp
    BY <1>1, <1>3, <2>1, MatchesRange
  <2>3. e \notin Range(unAckedMessages'[m.from])
    BY <1>1, <2>2, MatchesRangeNext
  <2> QED
    BY <1>1, <2>2, <2>3
<1> QED
  BY <1>2, <1>3

LEMMA SameHistory ==
    ASSUME IInv, UNCHANGED <<sent, receivedMessages>>
    PROVE  OneStamp' /\ ReceivedAsSent'
BY DEF IInv, OneStamp, ReceivedAsSent

-----------------------------------------------------------------------------
(* One lemma per action *)

LEMMA SendStep ==
    ASSUME IInv, NEW n \in Node, NEW to \in Node, NEW ok \in BOOLEAN, Send(n, to, ok)
    PROVE  IInv'
<1> DEFINE counter == sendCounters[n][to] + 1
           msg == [to |-> to, timeStamp |-> clock + 1, data |-> <<counter, REQUEST>>]
           packet == [from |-> n, timeStamp |-> msg.timeStamp, data |-> msg.data]
           new == SentBy(n, to, clock + 1)
<1>1. /\ sendCounters' = [sendCounters EXCEPT ![n][to] = counter]
      /\ unAckedMessages' = [unAckedMessages EXCEPT ![n] = Append(@, msg)]
      /\ wire' = Transmit(n, msg, ok)
      /\ sent' = sent \cup {new}
      /\ clock' = clock + 1
      /\ UNCHANGED <<resendCounters, receiveCounters, receivedMessages, resend>>
  BY DEF Send, SentBy
<1>2. PostTypes /\ clock \in Nat /\ counter \in Int
  <2>1. PostTypes
    BY DEF IInv
  <2>2. sendCounters[n][to] \in Int
    BY <2>1 DEF PostTypes
  <2> QED
    BY <2>1, <2>2 DEF PostTypes
<1>3. /\ msg \in Message
      /\ msg.to = to /\ msg.timeStamp = clock + 1 /\ AsSent(msg.data)
      /\ packet.from = n /\ packet.timeStamp = clock + 1 /\ AsSent(packet.data)
      /\ packet = [from |-> n, timeStamp |-> msg.timeStamp, data |-> msg.data]
  BY <1>2 DEF Message, REQUEST, AsSent
<1>4. /\ new.from = n /\ new.to = to /\ new.timeStamp = clock + 1
      /\ new = SentBy(new.from, new.to, new.timeStamp)
  BY DEF SentBy
<1> HIDE DEF counter, msg, packet
<1>5. /\ wire' \in [Node -> Seq(Packet)]
      /\ \A q \in Node : \A p \in Range(wire'[q]) :
            p \in Range(wire[q]) \/ (q = to /\ p = packet)
  BY <1>1, <1>2, <1>3, TransmitWire
<1>6. /\ Append(unAckedMessages[n], msg) \in Seq(Message)
      /\ Range(Append(unAckedMessages[n], msg)) = Range(unAckedMessages[n]) \cup {msg}
  <2>1. unAckedMessages[n] \in Seq(Message)
    BY <1>2 DEF PostTypes
  <2> QED
    BY <1>3, <2>1, AppendQueue
<1>7. /\ unAckedMessages' \in [Node -> Seq(Message)]
      /\ \A q \in Node : Range(unAckedMessages'[q])
            = IF q = n THEN Range(unAckedMessages[n]) \cup {msg} ELSE Range(unAckedMessages[q])
  BY <1>1, <1>2, <1>6 DEF PostTypes
<1>8. PostTypes'
  <2>1. \A m \in sent' : WasSent(m)'
    <3> SUFFICES ASSUME NEW m \in sent' PROVE WasSent(m)'
      OBVIOUS
    <3>1. clock' = clock + 1
      BY <1>1
    <3>2. CASE m \in sent
      <4>1. WasSent(m)
        BY <1>2, <3>2 DEF PostTypes
      <4> QED
        BY <1>2, <3>1, <4>1 DEF WasSent
    <3>3. CASE m = new
      <4>1. clock + 1 \in 1..(clock + 1)
        BY <1>2
      <4> QED
        BY <1>4, <3>1, <3>3, <4>1 DEF WasSent
    <3> QED
      BY <1>1, <3>2, <3>3
  <2>2. sendCounters' \in [Node -> [Node -> Int]]
    BY <1>1, <1>2 DEF PostTypes
  <2> QED
    BY <1>1, <1>2, <1>5, <1>7, <2>1, <2>2 DEF PostTypes
<1>9. Grows
  BY <1>1, SameGrows
<1>10. new \in sent'
  BY <1>1
<1>11. \A m : m = msg => GoodMessage(n, m)'
  BY <1>3, <1>10 DEF GoodMessage, SentBy
<1>12. \A p : p = packet => GoodPacket(to, p)'
  BY <1>3, <1>10 DEF GoodPacket, SentBy
<1>13. GoodLists' /\ GoodCalls' /\ GoodWire'
  BY <1>1, <1>5, <1>7, <1>8, <1>9, <1>11, <1>12, GoodStep
<1>14. OneStamp'
  <2>1. \A m \in sent : m.timeStamp \in 1..clock
    BY <1>2 DEF PostTypes, WasSent
  <2>2. new.timeStamp = clock + 1
    BY DEF SentBy
  <2> QED
    BY <1>1, <1>2, <2>1, <2>2 DEF IInv, OneStamp
<1>15. AckedWasReceived'
  <2> SUFFICES ASSUME NEW m \in sent', Matches(m.from, m.to, m.timeStamp)' = {}
               PROVE  Redundant(m.to, m.from, m.timeStamp)'
    BY DEF AckedWasReceived, Accepted, Redundant
  <2>1. m.from \in Node /\ m.to \in Node /\ m.timeStamp \in Nat
    BY <1>8 DEF PostTypes, WasSent
  <2>2. \A e \in Range(unAckedMessages'[m.from]) : ~(e.to = m.to /\ e.timeStamp = m.timeStamp)
    BY <1>8, <2>1, MatchesRangeNext
  <2>3. m # new
    BY <1>3, <1>7, <2>1, <2>2 DEF SentBy
  <2>4. m \in sent
    BY <1>1, <2>3
  <2>5. Matches(m.from, m.to, m.timeStamp) = {}
    BY <1>2, <1>7, <2>1, <2>2, MatchesRange
  <2>6. Redundant(m.to, m.from, m.timeStamp)
    BY <2>4, <2>5 DEF IInv, AckedWasReceived, Accepted, Redundant
  <2> QED
    BY <1>9, <2>1, <2>6 DEF Grows
<1>16. ReceivedAsSent'
  BY <1>1 DEF IInv, ReceivedAsSent
<1> QED
  BY <1>8, <1>13, <1>14, <1>15, <1>16 DEF IInv

\* What a call of Send by the resend thread begins with: an entry of the list, and
\* the lock, unless fewer than MaxRenumbers messages were renumbered.
PickedEntry(n, r) ==
    /\ r.msg \in Message
    /\ r.msg \in Range(unAckedMessages[n])
    /\ r.locked \/ resendCounters[n][r.msg.to] + 1 < MaxRenumbers

LEMMA ResendEntry ==
    ASSUME IInv, NEW n \in Node,
           \/ ResendStart(n) \/ ResendReturn(n) \/ ResendEnd(n)
           \/ \E j \in 1..Len(unAckedMessages[n]) : ResendPick(n, j)
    PROVE  \E r \in ResendType :
              /\ resend' = [resend EXCEPT ![n] = r]
              /\ r.pc = "calling" => PickedEntry(n, r)
<1>1. Idle \in ResendType /\ Idle.pc = "idle"
  BY DEF Idle, ResendType
<1>2. /\ resend \in [Node -> ResendType]
      /\ resend[n] \in ResendType
  BY DEF IInv, PostTypes
<1>3. CASE ResendStart(n)
  <2> DEFINE r == [Idle EXCEPT !.pc = "scan", !.locked = TRUE]
  <2>1. r \in ResendType /\ r.pc = "scan"
    BY <1>1 DEF ResendType
  <2>2. resend' = [resend EXCEPT ![n] = r]
    BY <1>3 DEF ResendStart
  <2> QED
    BY <2>1, <2>2
<1>4. CASE ResendReturn(n)
  <2> DEFINE r == [pc |-> "scan", i |-> resend[n].i + 1, locked |-> resend[n].locked,
                   msg |-> NoMessage]
  <2>1. r \in ResendType /\ r.pc = "scan"
    BY <1>2 DEF ResendType
  <2>2. resend' = [resend EXCEPT ![n] = r]
    BY <1>2, <1>4 DEF ResendReturn, ResendType
  <2> QED
    BY <2>1, <2>2
<1>5. CASE ResendEnd(n)
  BY <1>1, <1>5 DEF ResendEnd
<1>6. ASSUME NEW j \in 1..Len(unAckedMessages[n]), ResendPick(n, j)
      PROVE  \E r \in ResendType :
                /\ resend' = [resend EXCEPT ![n] = r]
                /\ r.pc = "calling" => PickedEntry(n, r)
  <2> DEFINE m == unAckedMessages[n][j]
             full == resendCounters[n][m.to] + 1 >= MaxRenumbers
             busy == resend[n].locked \/ full
             r == [resend[n] EXCEPT !.pc = "calling", !.i = j, !.locked = busy, !.msg = m]
  <2>1. m \in Message /\ m \in Range(unAckedMessages[n]) /\ j \in Nat \ {0}
    <3>1. unAckedMessages[n] \in Seq(Message)
      BY DEF IInv, PostTypes
    <3> QED
      BY <3>1, RangeEquality, ElementOfSeq, LenProperties
  <2>2. busy \in BOOLEAN
    BY <1>2 DEF ResendType
  <2>3. resend' = [resend EXCEPT ![n].pc = "calling", ![n].i = j, ![n].locked = busy,
                                 ![n].msg = m]
    BY <1>6 DEF ResendPick
  <2> HIDE DEF m, busy
  <2>4. r \in ResendType /\ r.msg = m /\ r.locked = busy
    BY <1>2, <2>1, <2>2 DEF ResendType
  <2>5. resend' = [resend EXCEPT ![n] = r]
    BY <1>2, <2>3 DEF ResendType
  <2>6. full \/ resendCounters[n][r.msg.to] + 1 < MaxRenumbers
    <3>1. resendCounters[n][m.to] \in Int
      BY <2>1 DEF IInv, PostTypes, Message
    <3> QED
      BY <2>4, <3>1 DEF full, PostAssumption
  <2> HIDE DEF full, r
  <2>7. PickedEntry(n, r)
    BY <2>1, <2>4, <2>6 DEF busy, PickedEntry
  <2> QED
    BY <2>4, <2>5, <2>7
<1> QED
  BY <1>3, <1>4, <1>5, <1>6

\* The steps of the resend thread that only move its index.
LEMMA ResendLoopStep ==
    ASSUME IInv, NEW n \in Node,
           \/ ResendStart(n) \/ ResendReturn(n) \/ ResendEnd(n)
           \/ \E j \in 1..Len(unAckedMessages[n]) : ResendPick(n, j)
    PROVE  IInv'
<1>1. UNCHANGED <<clock, sent, wire, unAckedMessages, sendCounters,
                  resendCounters, receiveCounters, receivedMessages>>
  BY DEF ResendStart, ResendReturn, ResendEnd, ResendPick
<1>2. PostTypes
  BY DEF IInv
<1>3. PICK r \in ResendType :
         /\ resend' = [resend EXCEPT ![n] = r]
         /\ r.pc = "calling" => r.msg \in Message /\ r.msg \in Range(unAckedMessages[n])
  BY ResendEntry DEF PickedEntry
<1>7. /\ PostTypes'
      /\ \A q \in Node : resend'[q].pc = "calling" =>
            \/ resend[q].pc = "calling" /\ resend'[q].msg = resend[q].msg
            \/ resend'[q].msg \in Range(unAckedMessages[q])
  <2>1. \A q \in Node : resend'[q] = IF q = n THEN r ELSE resend[q]
    BY <1>2, <1>3 DEF PostTypes
  <2>2. resend' \in [Node -> ResendType]
    BY <1>2, <1>3 DEF PostTypes
  <2>3. \A q \in Node : resend'[q].pc = "calling" => resend'[q].msg \in Message
    BY <1>2, <1>3, <2>1 DEF PostTypes
  <2>4. PostTypes'
    BY <1>1, <1>2, <2>2, <2>3 DEF PostTypes, WasSent
  <2> QED
    BY <1>3, <2>1, <2>4
<1>4. Grows
  BY <1>1, SameGrows
<1>5. GoodLists' /\ GoodCalls' /\ GoodWire'
  BY <1>1, <1>4, <1>7, GoodStep
<1>6. AckedWasReceived'
  BY <1>1, <1>4, <1>7, AckedStep
<1> QED
  BY <1>1, <1>5, <1>6, <1>7, SameHistory DEF IInv

\* A message of the resend thread that is not on the list has been accepted,
\* also when the thread renumbers it.
LEMMA ResendSendStep ==
    ASSUME IInv, NEW n \in Node, NEW ok \in BOOLEAN, ResendSend(n, ok)
    PROVE  IInv'
<1>1. PICK msg \in Message : msg = resend[n].msg /\ GoodMessage(n, msg)
  BY DEF ResendSend, IInv, PostTypes, GoodCalls
<1> DEFINE counter == resendCounters[n][msg.to] + 1
           again == [msg EXCEPT !.data = <<counter>> \o @]
<1>2. /\ resend' = [resend EXCEPT ![n].pc = "sending", ![n].locked = FALSE]
      /\ UNCHANGED <<clock, sent, sendCounters, receiveCounters, receivedMessages>>
      /\ \/ /\ wire' = Transmit(n, msg, ok)
            /\ UNCHANGED <<unAckedMessages, resendCounters>>
         \/ /\ Matches(n, msg.to, msg.timeStamp) = {}
            /\ wire' = Transmit(n, again, ok)
            /\ unAckedMessages' = [unAckedMessages EXCEPT ![n] = Append(@, again)]
            /\ resendCounters' = [resendCounters EXCEPT ![n][msg.to] = counter]
  BY <1>1 DEF ResendSend
<1>3. PostTypes
  BY DEF IInv
<1>4. Grows
  BY <1>2, SameGrows
<1>5. resend' \in [Node -> ResendType] /\ \A q \in Node : resend'[q].pc = "calling" =>
         resend[q].pc = "calling" /\ resend'[q].msg = resend[q].msg
  <2> DEFINE r == [resend[n] EXCEPT !.pc = "sending", !.locked = FALSE]
  <2>1. resend \in [Node -> ResendType] /\ resend[n] \in ResendType
    BY <1>3 DEF PostTypes
  <2>2. r \in ResendType /\ r.pc = "sending"
    BY <2>1 DEF ResendType
  <2>3. resend' = [resend EXCEPT ![n] = r]
    BY <1>2, <2>1 DEF ResendType
  <2> HIDE DEF r
  <2>4. \A q \in Node : resend'[q] = IF q = n THEN r ELSE resend[q]
    BY <2>1, <2>3
  <2> QED
    BY <2>1, <2>2, <2>3, <2>4
<1>6. msg.to \in Node /\ msg.timeStamp \in Nat /\ msg.data \in Seq(Int)
  BY DEF Message
\* What goes out: the message as it is, or with another counter.
<1>7. PICK out \in Message :
         /\ GoodMessage(n, out)
         /\ wire' = Transmit(n, out, ok)
         /\ \/ UNCHANGED <<unAckedMessages, resendCounters>>
            \/ /\ unAckedMessages' = [unAckedMessages EXCEPT ![n] = Append(@, out)]
               /\ resendCounters' = [resendCounters EXCEPT ![n][msg.to] = counter]
  <2>1. CASE Matches(n, msg.to, msg.timeStamp) # {}
    BY <1>1, <1>2, <2>1
  <2>2. CASE Matches(n, msg.to, msg.timeStamp) = {}
    <3>1. counter \in Int
      BY <1>3, <1>6 DEF PostTypes
    <3>2. again \in Message /\ again.to = msg.to /\ again.timeStamp = msg.timeStamp
      <4> DEFINE data == <<counter>> \o msg.data
      <4>1. <<counter>> \in Seq(Int)
        BY <3>1
      <4>2. data \in Seq(Int)
        BY <1>6, <4>1, ConcatProperties
      <4>3. again = [msg EXCEPT !.data = data]
        BY DEF Message
      <4> HIDE DEF data
      <4> QED
        BY <4>2, <4>3 DEF Message
    <3>3. SentBy(n, msg.to, msg.timeStamp) \in sent
      BY <1>1 DEF GoodMessage
    <3>4. Redundant(msg.to, n, msg.timeStamp)
      BY <2>2, <3>3 DEF IInv, AckedWasReceived, Accepted, Redundant, SentBy
    <3>5. GoodMessage(n, again)
      BY <3>2, <3>3, <3>4 DEF GoodMessage
    <3> HIDE DEF again, counter
    <3> QED
      BY <1>1, <1>2, <3>2, <3>5
  <2> QED
    BY <2>1, <2>2
<1> HIDE DEF again
<1>8. /\ wire' \in [Node -> Seq(Packet)]
      /\ \A q \in Node : \A p \in Range(wire'[q]) :
            p \in Range(wire[q])
               \/ (q = out.to /\ p = [from |-> n, timeStamp |-> out.timeStamp, data |-> out.data])
  BY <1>3, <1>7, TransmitWire
<1>9. /\ unAckedMessages' \in [Node -> Seq(Message)]
      /\ resendCounters' \in [Node -> [Node -> Int]]
      /\ \A q \in Node : \A m \in Range(unAckedMessages[q]) : m \in Range(unAckedMessages'[q])
      /\ \A q \in Node : \A m \in Range(unAckedMessages'[q]) :
            m \in Range(unAckedMessages[q]) \/ (q = n /\ m = out)
  <2>1. CASE UNCHANGED <<unAckedMessages, resendCounters>>
    BY <1>3, <2>1 DEF PostTypes
  <2>2. CASE /\ unAckedMessages' = [unAckedMessages EXCEPT ![n] = Append(@, out)]
             /\ resendCounters' = [resendCounters EXCEPT ![n][msg.to] = counter]
    <3>1. unAckedMessages \in [Node -> Seq(Message)] /\ unAckedMessages[n] \in Seq(Message)
      BY <1>3 DEF PostTypes
    <3>2. /\ Append(unAckedMessages[n], out) \in Seq(Message)
          /\ Range(Append(unAckedMessages[n], out)) = Range(unAckedMessages[n]) \cup {out}
      BY <3>1, AppendQueue
    <3>3. resendCounters' \in [Node -> [Node -> Int]]
      BY <1>3, <1>6, <2>2 DEF PostTypes
    <3> HIDE DEF counter
    <3>4. \A q \in Node : unAckedMessages'[q] = IF q = n THEN Append(unAckedMessages[n], out)
                                                ELSE unAckedMessages[q]
      BY <2>2, <3>1
    <3>5. unAckedMessages' \in [Node -> Seq(Message)]
      BY <2>2, <3>1, <3>2
    <3> QED
      BY <3>2, <3>3, <3>4, <3>5
  <2> QED
    BY <1>7, <2>1, <2>2
<1>10. PostTypes'
  BY <1>2, <1>3, <1>5, <1>8, <1>9 DEF PostTypes, WasSent
<1>11. \A p : p = [from |-> n, timeStamp |-> out.timeStamp, data |-> out.data]
                 => GoodPacket(out.to, p)'
  BY <1>2, <1>7 DEF GoodMessage, GoodPacket, Redundant
<1>12. GoodMessage(n, out)'
  BY <1>4, <1>7, GrowsMessage
<1>13. GoodLists' /\ GoodCalls' /\ GoodWire'
  BY <1>4, <1>5, <1>8, <1>9, <1>10, <1>11, <1>12, GoodStep
<1>14. AckedWasReceived'
  BY <1>2, <1>4, <1>9, <1>10, AckedStep
<1> QED
  BY <1>2, <1>10, <1>13, <1>14, SameHistory DEF IInv

\* The packet that Receive takes is a good one, and the others stay.
LEMMA ReceivedPacket ==
    ASSUME IInv, NEW n \in Node, wire[n] # <<>>
    PROVE  /\ Head(wire[n]) \in Packet
           /\ GoodPacket(n, Head(wire[n]))
           /\ Tail(wire[n]) \in Seq(Packet)
           /\ Range(Tail(wire[n])) \subseteq Range(wire[n])
<1>1. wire[n] \in Seq(Packet)
  BY DEF IInv, PostTypes
<1> QED
  BY <1>1, TailQueue DEF IInv, GoodWire

\* Receive discards a message.
LEMMA DiscardStep ==
    ASSUME IInv, NEW n \in Node, Discard(n)
    PROVE  IInv'
<1>1. /\ wire[n] # <<>>
      /\ wire' = [wire EXCEPT ![n] = Tail(@)]
      /\ UNCHANGED <<clock, sent, unAckedMessages, sendCounters, resendCounters,
                     receiveCounters, receivedMessages, resend>>
  BY DEF Discard
<1>2. PostTypes
  BY DEF IInv
<1>3. /\ wire' \in [Node -> Seq(Packet)]
      /\ \A q \in Node : Range(wire'[q]) \subseteq Range(wire[q])
  <2>1. wire \in [Node -> Seq(Packet)]
    BY <1>2 DEF PostTypes
  <2>2. \A q \in Node : wire'[q] = IF q = n THEN Tail(wire[n]) ELSE wire[q]
    BY <1>1, <2>1
  <2> QED
    BY <1>1, <2>1, <2>2, ReceivedPacket
<1>4. PostTypes'
  BY <1>1, <1>2, <1>3 DEF PostTypes, WasSent
<1>5. Grows
  BY <1>1, SameGrows
<1>6. GoodLists' /\ GoodCalls' /\ GoodWire'
  BY <1>1, <1>3, <1>4, <1>5, GoodStep
<1>7. AckedWasReceived'
  BY <1>1, <1>4, <1>5, AckedStep
<1> QED
  BY <1>1, <1>4, <1>6, <1>7, SameHistory DEF IInv

\* An acknowledgement takes a message off the list that has been accepted.  A
\* packet that the resend thread renumbered could pass for one; it is of a
\* message that was accepted, and as time stamps are given once, of this one.
LEMMA ReceiveAckStep ==
    ASSUME IInv, NEW n \in Node, ReceiveAck(n)
    PROVE  IInv'
<1> DEFINE p == Head(wire[n])
<1>1. /\ wire[n] # <<>>
      /\ p.data[2] = ACK
      /\ unAckedMessages' = Erase(n, p.from, p.timeStamp)
      /\ wire' = [wire EXCEPT ![n] = Tail(@)]
      /\ UNCHANGED <<clock, sent, sendCounters, resendCounters, receivedMessages, resend>>
  BY DEF ReceiveAck
<1>2. PostTypes
  BY DEF IInv
<1>3. p \in Packet /\ GoodPacket(n, p) /\ p.from \in Node /\ p.timeStamp \in Nat
  <2>1. p \in Packet /\ GoodPacket(n, p)
    BY <1>1, ReceivedPacket
  <2> HIDE DEF p
  <2> QED
    BY <2>1 DEF Packet
<1>4. /\ wire' \in [Node -> Seq(Packet)]
      /\ \A q \in Node : Range(wire'[q]) \subseteq Range(wire[q])
  <2>1. wire \in [Node -> Seq(Packet)]
    BY <1>2 DEF PostTypes
  <2>2. \A q \in Node : wire'[q] = IF q = n THEN Tail(wire[n]) ELSE wire[q]
    BY <1>1, <2>1
  <2> QED
    BY <1>1, <2>1, <2>2, ReceivedPacket
<1> HIDE DEF p
<1>5. /\ unAckedMessages' \in [Node -> Seq(Message)]
      /\ \A q \in Node : Range(unAckedMessages'[q]) \subseteq Range(unAckedMessages[q])
      /\ \A q \in Node : \A e \in Range(unAckedMessages[q]) :
            \/ e \in Range(unAckedMessages'[q])
            \/ q = n /\ e.to = p.from /\ e.timeStamp = p.timeStamp
  <2>1. PICK to, ts : to = p.from /\ ts = p.timeStamp
    OBVIOUS
  <2>2. unAckedMessages' = Erase(n, to, ts)
    BY <1>1, <2>1
  <2>3. Erase(n, to, ts) \in [Node -> Seq(Message)]
    BY <1>2, EraseList
  <2>4. \A q \in Node : Range(Erase(n, to, ts)[q]) \subseteq Range(unAckedMessages[q])
    BY <1>2, EraseList
  <2>5. \A q \in Node : \A e \in Range(unAckedMessages[q]) :
           e \in Range(Erase(n, to, ts)[q]) \/ (q = n /\ e.to = to /\ e.timeStamp = ts)
    BY <1>2, EraseList
  <2> QED
    BY <2>1, <2>2, <2>3, <2>4, <2>5
<1>6. PostTypes'
  BY <1>1, <1>2, <1>4, <1>5 DEF PostTypes, WasSent
<1>7. Grows
  BY <1>1, SameGrows
<1>8. GoodLists' /\ GoodCalls' /\ GoodWire'
  BY <1>1, <1>4, <1>5, <1>6, <1>7, GoodStep
<1>9. ASSUME NEW e \in Range(unAckedMessages[n]), e.to = p.from, e.timeStamp = p.timeStamp
      PROVE  Redundant(p.from, n, p.timeStamp)
  <2>1. SentBy(n, p.from, p.timeStamp) \in sent
    BY <1>9 DEF IInv, GoodLists, GoodMessage
  <2>2. CASE p.data = <<-1, ACK>> /\ Redundant(p.from, n, p.timeStamp)
    BY <2>2
  <2>3. CASE /\ SentBy(p.from, n, p.timeStamp) \in sent
             /\ AsSent(p.data) \/ Redundant(n, p.from, p.timeStamp)
    <3>1. ~AsSent(p.data)
      BY <1>1 DEF AsSent, ACK, REQUEST
    <3>2. SentBy(p.from, n, p.timeStamp) = SentBy(n, p.from, p.timeStamp)
      BY <2>1, <2>3 DEF IInv, OneStamp, SentBy
    <3>3. p.from = n
      BY <3>2 DEF SentBy
    <3> QED
      BY <2>3, <3>1, <3>3
  <2> QED
    BY <1>3, <2>2, <2>3 DEF GoodPacket
<1>10. \A q \in Node : \A e \in Range(unAckedMessages[q]) :
          e \in Range(unAckedMessages'[q]) \/ Redundant(e.to, q, e.timeStamp)'
  BY <1>3, <1>5, <1>7, <1>9 DEF Grows
<1>11. AckedWasReceived'
  BY <1>1, <1>6, <1>7, <1>10, AckedStep
<1> QED
  BY <1>1, <1>6, <1>8, <1>11, SameHistory DEF IInv

\* ReceivedAsSent of one node: its messages are as they were sent, and there is
\* one of each.
Recorded(n, r) ==
    [from |-> r.from, to |-> n, timeStamp |-> r.timeStamp, data |-> r.data] \in sent

Same(r, s) == r.from = s.from /\ r.timeStamp = s.timeStamp

Sound(n, q) ==
    /\ \A i \in 1..Len(q) : Recorded(n, q[i])
    /\ \A i, j \in 1..Len(q) : Same(q[j], q[i]) => j = i

LEMMA SoundNow == ReceivedAsSent => \A n \in Node : Sound(n, receivedMessages[n])
BY DEF ReceivedAsSent, Sound, Recorded, Same

LEMMA SoundNext ==
    (UNCHANGED sent /\ \A n \in Node : Sound(n, receivedMessages'[n])) => ReceivedAsSent'
BY DEF ReceivedAsSent, Sound, Recorded, Same

\* A message is kept unless it is redundant, and then it is as it was sent.
LEMMA KeepStep ==
    ASSUME IInv, UNCHANGED sent, NEW n \in Node, NEW p \in Packet,
           SentBy(p.from, n, p.timeStamp) \in sent,
           AsSent(p.data) \/ Redundant(n, p.from, p.timeStamp),
           receivedMessages' =
              IF Redundant(n, p.from, p.timeStamp) THEN receivedMessages
              ELSE [receivedMessages EXCEPT
                      ![n] = Append(@, [from |-> p.from, timeStamp |-> p.timeStamp,
                                        data |-> Tail(p.data)])]
    PROVE  /\ receivedMessages' \in [Node -> Seq(Packet)]
           /\ Grows
           /\ Redundant(n, p.from, p.timeStamp)'
           /\ ReceivedAsSent'
<1>1. receivedMessages \in [Node -> Seq(Packet)] /\ receivedMessages[n] \in Seq(Packet)
  BY DEF IInv, PostTypes
<1>2. CASE Redundant(n, p.from, p.timeStamp)
  <2>1. receivedMessages' = receivedMessages
    BY <1>2
  <2> QED
    BY <1>1, <1>2, <2>1, SameGrows DEF IInv, ReceivedAsSent, Redundant
<1>3. CASE ~Redundant(n, p.from, p.timeStamp)
  <2> DEFINE r == [from |-> p.from, timeStamp |-> p.timeStamp, data |-> <<REQUEST>>]
             old == receivedMessages[n]
  <2>1. /\ r \in Packet /\ r.from = p.from /\ r.timeStamp = p.timeStamp
        /\ [from |-> r.from, to |-> n, timeStamp |-> r.timeStamp, data |-> r.data] \in sent
    BY DEF Packet, SentBy, REQUEST
  <2>2. receivedMessages' = [receivedMessages EXCEPT ![n] = Append(old, r)]
    BY <1>3 DEF AsSent
  <2> HIDE DEF r
  <2>3. receivedMessages'[n] = Append(old, r)
    BY <1>1, <2>2
  <2>4. \A q \in Node : q # n => receivedMessages'[q] = receivedMessages[q]
    BY <1>1, <2>2
  <2>5. /\ Append(old, r) \in Seq(Packet)
        /\ Len(Append(old, r)) = Len(old) + 1
        /\ \A i \in 1..Len(old) : Append(old, r)[i] = old[i]
        /\ Append(old, r)[Len(old) + 1] = r
        /\ Len(old) \in Nat
    BY <1>1, <2>1, AppendProperties, LenProperties
  <2>6. receivedMessages' \in [Node -> Seq(Packet)]
    BY <1>1, <2>2, <2>5
  <2>7. Redundant(n, p.from, p.timeStamp)'
    BY <2>1, <2>3, <2>5 DEF Redundant
  <2>8. Grows
    <3> SUFFICES ASSUME NEW q \in Node, NEW m \in Node, NEW ts \in Nat, Redundant(q, m, ts)
                 PROVE  Redundant(q, m, ts)'
      BY DEF Grows
    <3>1. CASE q = n
      BY <2>3, <2>5, <3>1 DEF Redundant
    <3>2. CASE q # n
      BY <2>4, <3>2 DEF Redundant
    <3> QED
      BY <3>1, <3>2
  <2>9. ReceivedAsSent'
    <3>1. \A q \in Node : Sound(q, receivedMessages[q])
      BY SoundNow DEF IInv
    <3>2. Sound(n, Append(old, r))
      <4>1. \A j \in 1..Len(old) : ~Same(old[j], r) /\ ~Same(r, old[j])
        BY <1>3, <2>1 DEF Redundant, Same
      <4>2. Recorded(n, r)
        BY <2>1 DEF Recorded
      <4> QED
        BY <2>5, <3>1, <4>1, <4>2 DEF Sound
    <3> QED
      BY <2>3, <2>4, <3>1, <3>2, SoundNext
  <2> QED
    BY <2>6, <2>7, <2>8, <2>9
<1> QED
  BY <1>2, <1>3

\* What becomes of the wire and of the list of the receiver when a message is taken:
\* at most its acknowledgement goes out, or its own entry goes.
Taken(n, p) ==
    /\ wire' \in [Node -> Seq(Packet)]
    /\ \A q \in Node : \A e \in Range(wire'[q]) :
          \/ e \in Range(wire[q])
          \/ q = p.from /\ e = [from |-> n, timeStamp |-> p.timeStamp, data |-> <<-1, ACK>>]
    /\ unAckedMessages' \in [Node -> Seq(Message)]
    /\ \A q \in Node : Range(unAckedMessages'[q]) \subseteq Range(unAckedMessages[q])
    /\ \A q \in Node : \A e \in Range(unAckedMessages[q]) :
          \/ e \in Range(unAckedMessages'[q])
          \/ q = n /\ e.to = n /\ e.timeStamp = p.timeStamp /\ p.from = n

LEMMA RequestTaken ==
    ASSUME IInv, NEW n \in Node, NEW ok \in BOOLEAN, NEW p \in Packet,
           p = Head(wire[n]), ReceiveRequest(n, ok)
    PROVE  Taken(n, p)
<1> DEFINE ack == [to |-> p.from, timeStamp |-> p.timeStamp, data |-> <<-1, ACK>>]
<1>1. p.from \in Node /\ p.timeStamp \in Nat
  BY DEF Packet
<1>2. /\ wire[n] # <<>>
      /\ \/ /\ p.from = n
            /\ unAckedMessages' = Erase(n, n, p.timeStamp)
            /\ wire' = [wire EXCEPT ![n] = Tail(@)]
         \/ /\ p.from # n
            /\ wire' = [Transmit(n, ack, ok) EXCEPT ![n] = Tail(@)]
            /\ UNCHANGED unAckedMessages
  BY DEF ReceiveRequest
<1>3. PostTypes
  BY DEF IInv
<1>4. ack \in Message /\ ack.to = p.from /\ ack.timeStamp = p.timeStamp /\ ack.data = <<-1, ACK>>
  BY <1>1 DEF Message, ACK
<1> HIDE DEF ack
<1>5. /\ wire' \in [Node -> Seq(Packet)]
      /\ \A q \in Node : \A e \in Range(wire'[q]) :
            \/ e \in Range(wire[q])
            \/ q = p.from /\ e = [from |-> n, timeStamp |-> p.timeStamp, data |-> <<-1, ACK>>]
  <2>1. /\ Tail(wire[n]) \in Seq(Packet)
        /\ Range(Tail(wire[n])) \subseteq Range(wire[n])
    BY <1>2, ReceivedPacket
  <2>2. wire \in [Node -> Seq(Packet)]
    BY <1>3 DEF PostTypes
  <2>3. CASE wire' = [wire EXCEPT ![n] = Tail(@)]
    <3>1. \A q \in Node : wire'[q] = IF q = n THEN Tail(wire[n]) ELSE wire[q]
      BY <2>2, <2>3
    <3> QED
      BY <2>1, <2>2, <2>3, <3>1
  <2>4. CASE p.from # n /\ wire' = [Transmit(n, ack, ok) EXCEPT ![n] = Tail(@)]
    <3>1. PICK a \in Message : a = ack
      BY <1>4
    <3>2. PICK packet : packet = [from |-> n, timeStamp |-> a.timeStamp, data |-> a.data]
      OBVIOUS
    <3>3. /\ Transmit(n, a, ok) \in [Node -> Seq(Packet)]
          /\ \A q \in Node : \A e \in Range(Transmit(n, a, ok)[q]) :
                e \in Range(wire[q]) \/ (q = a.to /\ e = packet)
          /\ \A q \in Node : q # a.to => Transmit(n, a, ok)[q] = wire[q]
      BY <1>3, <3>2, TransmitWire
    <3>4. PICK w : w = Transmit(n, a, ok)
      OBVIOUS
    <3>5. w[n] = wire[n] /\ wire' = [w EXCEPT ![n] = Tail(wire[n])]
      BY <1>4, <2>4, <3>1, <3>3, <3>4
    <3>6. \A q \in Node : wire'[q] = IF q = n THEN Tail(wire[n]) ELSE w[q]
      BY <3>3, <3>4, <3>5
    <3>7. wire' \in [Node -> Seq(Packet)]
      BY <2>1, <3>3, <3>4, <3>5
    <3>8. packet = [from |-> n, timeStamp |-> p.timeStamp, data |-> <<-1, ACK>>] /\ a.to = p.from
      BY <1>4, <3>1, <3>2
    <3> QED
      BY <2>1, <3>3, <3>4, <3>6, <3>7, <3>8
  <2> QED
    BY <1>2, <2>3, <2>4
<1>6. /\ unAckedMessages' \in [Node -> Seq(Message)]
      /\ \A q \in Node : Range(unAckedMessages'[q]) \subseteq Range(unAckedMessages[q])
      /\ \A q \in Node : \A e \in Range(unAckedMessages[q]) :
            \/ e \in Range(unAckedMessages'[q])
            \/ q = n /\ e.to = n /\ e.timeStamp = p.timeStamp /\ p.from = n
  <2>1. CASE UNCHANGED unAckedMessages
    BY <1>3, <2>1 DEF PostTypes
  <2>2. CASE p.from = n /\ unAckedMessages' = Erase(n, n, p.timeStamp)
    <3>1. PICK ts : ts = p.timeStamp
      OBVIOUS
    <3>2. unAckedMessages' = Erase(n, n, ts)
      BY <2>2, <3>1
    <3>3. Erase(n, n, ts) \in [Node -> Seq(Message)]
      BY <1>3, EraseList
    <3>4. \A q \in Node : Range(Erase(n, n, ts)[q]) \subseteq Range(unAckedMessages[q])
      BY <1>3, EraseList
    <3>5. \A q \in Node : \A e \in Range(unAckedMessages[q]) :
             e \in Range(Erase(n, n, ts)[q]) \/ (q = n /\ e.to = n /\ e.timeStamp = ts)
      BY <1>3, EraseList
    <3> QED
      BY <2>2, <3>1, <3>2, <3>3, <3>4, <3>5
  <2> QED
    BY <1>2, <2>1, <2>2
<1> QED
  BY <1>5, <1>6 DEF Taken

\* A message is acknowledged as it is accepted: when the receiver is its sender by
\* taking it off the list, otherwise by a packet that says so.
LEMMA ReceiveRequestStep ==
    ASSUME IInv, NEW n \in Node, NEW ok \in BOOLEAN, ReceiveRequest(n, ok)
    PROVE  IInv'
<1>1. PICK p \in Packet : p = Head(wire[n]) /\ GoodPacket(n, p) /\ p.from \in Node /\ p.timeStamp \in Nat
  <2>1. Head(wire[n]) \in Packet /\ GoodPacket(n, Head(wire[n]))
    BY ReceivedPacket DEF ReceiveRequest
  <2> QED
    BY <2>1 DEF Packet
<1>2. /\ p.data[2] # ACK
      /\ receivedMessages' =
            IF Redundant(n, p.from, p.timeStamp) THEN receivedMessages
            ELSE [receivedMessages EXCEPT
                    ![n] = Append(@, [from |-> p.from, timeStamp |-> p.timeStamp,
                                      data |-> Tail(p.data)])]
      /\ UNCHANGED <<clock, sent, sendCounters, resendCounters, resend>>
  BY <1>1 DEF ReceiveRequest
<1>3. PostTypes
  BY DEF IInv
<1>4. /\ SentBy(p.from, n, p.timeStamp) \in sent
      /\ AsSent(p.data) \/ Redundant(n, p.from, p.timeStamp)
  <2>1. p.data # <<-1, ACK>>
    BY <1>2
  <2> QED
    BY <1>1, <2>1 DEF GoodPacket
<1>5. /\ receivedMessages' \in [Node -> Seq(Packet)]
      /\ Grows
      /\ Redundant(n, p.from, p.timeStamp)'
      /\ ReceivedAsSent'
  BY <1>2, <1>4, KeepStep
<1>6. /\ wire' \in [Node -> Seq(Packet)]
      /\ \A q \in Node : \A e \in Range(wire'[q]) :
            \/ e \in Range(wire[q])
            \/ q = p.from /\ e = [from |-> n, timeStamp |-> p.timeStamp, data |-> <<-1, ACK>>]
      /\ unAckedMessages' \in [Node -> Seq(Message)]
      /\ \A q \in Node : Range(unAckedMessages'[q]) \subseteq Range(unAckedMessages[q])
      /\ \A q \in Node : \A e \in Range(unAckedMessages[q]) :
            \/ e \in Range(unAckedMessages'[q])
            \/ q = n /\ e.to = n /\ e.timeStamp = p.timeStamp /\ p.from = n
  <2>1. Taken(n, p)
    BY <1>1, RequestTaken
  <2> QED
    BY <2>1 DEF Taken
<1>7. PostTypes'
  BY <1>2, <1>3, <1>5, <1>6 DEF PostTypes, WasSent
<1>8. \A e : e = [from |-> n, timeStamp |-> p.timeStamp, data |-> <<-1, ACK>>]
                 => GoodPacket(p.from, e)'
  BY <1>2, <1>4, <1>5 DEF GoodPacket
<1>9. GoodLists' /\ GoodCalls' /\ GoodWire'
  BY <1>2, <1>5, <1>6, <1>7, <1>8, GoodStep
<1>10. AckedWasReceived'
  BY <1>2, <1>5, <1>6, <1>7, AckedStep
<1>11. OneStamp'
  BY <1>2 DEF IInv, OneStamp
<1> QED
  BY <1>5, <1>7, <1>9, <1>10, <1>11 DEF IInv

-----------------------------------------------------------------------------
(* The theorems *)

\* Every step, of the network thread or of the resend thread, keeps the
\* invariant.
LEMMA NextIInv == IInv /\ [Next]_vars => IInv'
<1> SUFFICES ASSUME IInv, [Next]_vars PROVE IInv'
  OBVIOUS
<1>1. ASSUME NEW n \in Node, NEW to \in Node, NEW ok \in BOOLEAN, Send(n, to, ok)
      PROVE  IInv'
  BY <1>1, SendStep
<1>2. ASSUME NEW n \in Node, NEW ok \in BOOLEAN, Receive(n, ok)
      PROVE  IInv'
  BY <1>2, DiscardStep, ReceiveAckStep, ReceiveRequestStep DEF Receive
<1>3. ASSUME NEW n \in Node, ResendStep(n)
      PROVE  IInv'
  BY <1>3, ResendLoopStep, ResendSendStep DEF ResendStep
<1>4. ASSUME UNCHANGED vars
      PROVE  IInv'
  <2> USE <1>4 DEF vars
  <2>1. PostTypes'
    BY DEF IInv, PostTypes, WasSent
  <2>2. GoodLists' /\ GoodCalls' /\ GoodWire'
    BY DEF IInv, GoodLists, GoodCalls, GoodWire, GoodMessage, GoodPacket, Redundant
  <2>3. AckedWasReceived'
    BY DEF IInv, AckedWasReceived, Matches, Accepted
  <2> QED
    BY <2>1, <2>2, <2>3, SameHistory DEF IInv
<1> QED
  BY <1>1, <1>2, <1>3, <1>4 DEF Next

\* The lists, the calls of Send that the resend thread makes and the packets on the
\* wire stay good in every run of the post offices.
THEOREM Invariance == Spec => []IInv
<1> QED
  BY InitIInv, NextIInv, PTL DEF Spec

\* Nothing is given up too early: a message that is no longer on its sender's list,
\* so that MsgResendInterruptHandler will not send it again, has been accepted.
THEOREM NothingIsGivenUp == Spec => []AckedWasReceived
<1>1. IInv => AckedWasReceived
  BY DEF IInv
<1> QED
  BY <1>1, Invariance, PTL

\* messageIsRedundant does its work: a message is accepted once, and with the text
\* it was sent with, although the resend thread renumbers some.
THEOREM AcceptedOnceAsSent == Spec => []ReceivedAsSent
<1>1. IInv => ReceivedAsSent
  BY DEF IInv
<1> QED
  BY <1>1, Invariance, PTL

-----------------------------------------------------------------------------
(* The counters: a second invariant, on top of the first *)

\* No message of the thread for the other was sent before this time.
FirstSent(from, to, ts) ==
    \A m \in sent : m.from = from /\ m.to = to => ts <= m.timeStamp

\* The counter in front of a text.  Only the first message of a thread for
\* another has counter 0 in front of the text it was sent with.
Numbered(from, to, ts, data) ==
    /\ Len(data) >= 2
    /\ ts \in 1..clock
    /\ data[1] \in -1..(clock + MaxRenumbers)
    /\ AsSent(data) => data[1] >= 0
    /\ AsSent(data) /\ data[1] = 0 => FirstSent(from, to, ts)

NumberedLists ==
    \A n \in Node : \A m \in Range(unAckedMessages[n]) :
        Numbered(n, m.to, m.timeStamp, m.data)
NumberedCalls ==
    \A n \in Node : resend[n].pc = "calling" =>
        Numbered(n, resend[n].msg.to, resend[n].msg.timeStamp, resend[n].msg.data)
NumberedWire ==
    \A n \in Node : \A p \in Range(wire[n]) : Numbered(p.from, n, p.timeStamp, p.data)

\* A thread has a table entry for another when it has accepted a message of it,
\* and then it has accepted the first one.
Unknown(n, m) ==
    receiveCounters[n][m] = None => \A ts \in Nat : ~Redundant(n, m, ts)
Known(n, m) ==
    receiveCounters[n][m] # None =>
        \E ts \in Nat : SentBy(m, n, ts) \in sent /\ FirstSent(m, n, ts) /\ Redundant(n, m, ts)

CounterTypes ==
    /\ clock \in 0..MaxSends
    /\ receiveCounters \in [Node -> [Node -> -1..(clock + MaxRenumbers)]]
    /\ resendCounters \in [Node -> [Node -> -1..(MaxRenumbers - 1)]]
    /\ sendCounters \in [Node -> [Node -> -1..(clock - 1)]]

\* A thread that has no counter for another has sent it nothing.
Unsent == \A n, m \in Node : sendCounters[n][m] = None => \A k \in sent : ~(k.from = n /\ k.to = m)

\* A call of Send that may lose its entry is within the bound of renumbered
\* messages; one that holds the lock finds its entry.
Bound(n) ==
    resend[n].pc = "calling" =>
        IF resend[n].locked
        THEN Matches(n, resend[n].msg.to, resend[n].msg.timeStamp) # {}
        ELSE resendCounters[n][resend[n].msg.to] + 1 < MaxRenumbers

CInv ==
    /\ CounterTypes
    /\ Unsent
    /\ \A n \in Node : Bound(n)
    /\ NumberedLists
    /\ NumberedCalls
    /\ NumberedWire
    /\ \A n, m \in Node : Unknown(n, m) /\ Known(n, m)

LEMMA InitCInv == Init => CInv
<1> SUFFICES ASSUME Init PROVE CInv
  OBVIOUS
<1> USE DEF Init
<1>1. CounterTypes
  BY DEF CounterTypes, None
<1>2. NumberedLists /\ NumberedCalls /\ NumberedWire
  BY EmptyQueue DEF NumberedLists, NumberedCalls, NumberedWire, Idle
<1>3. Unsent /\ \A n \in Node : Bound(n)
  BY DEF Unsent, Bound, Idle
<1>4. \A n, m \in Node : Unknown(n, m) /\ Known(n, m)
  BY DEF Unknown, Known, Redundant
<1> QED
  BY <1>1, <1>2, <1>3, <1>4 DEF CInv

\* Time goes on, and what is sent has a later time stamp than everything before.
Later ==
    /\ clock \in Nat /\ clock' \in Nat /\ clock <= clock'
    /\ \A m \in sent' : m \in sent \/ (m.timeStamp \in Nat /\ m.timeStamp > clock)

LEMMA SameLater ==
    ASSUME IInv, UNCHANGED <<clock, sent>>
    PROVE  Later
BY DEF IInv, PostTypes, Later

LEMMA FirstStep ==
    ASSUME Later, NEW from, NEW to, NEW ts \in 1..clock, FirstSent(from, to, ts)
    PROVE  FirstSent(from, to, ts)'
BY DEF Later, FirstSent

LEMMA NumberedStep ==
    ASSUME Later, NEW from, NEW to, NEW ts, NEW data,
           Numbered(from, to, ts, data)
    PROVE  Numbered(from, to, ts, data)'
<1>1. clock \in Nat /\ clock' \in Nat /\ clock <= clock'
  BY DEF Later
<1>2. ts \in 1..clock /\ ts \in 1..clock' /\ data[1] \in -1..(clock' + MaxRenumbers)
  BY <1>1 DEF Numbered
<1>3. AsSent(data) /\ data[1] = 0 => FirstSent(from, to, ts)'
  BY <1>2, FirstStep DEF Numbered
<1> QED
  BY <1>2, <1>3 DEF Numbered, AsSent

\* The lists, the calls and the wire stay numbered when they get only packets and
\* messages that are.
LEMMA NumberedAll ==
    ASSUME IInv, CInv, Later,
           \A n \in Node : \A m \in Range(unAckedMessages'[n]) :
              m \in Range(unAckedMessages[n]) \/ Numbered(n, m.to, m.timeStamp, m.data)',
           \A n \in Node : \A p \in Range(wire'[n]) :
              p \in Range(wire[n]) \/ Numbered(p.from, n, p.timeStamp, p.data)',
           \A n \in Node : resend'[n].pc = "calling" =>
              \/ resend[n].pc = "calling" /\ resend'[n].msg = resend[n].msg
              \/ resend'[n].msg \in Range(unAckedMessages[n])
    PROVE  NumberedLists' /\ NumberedCalls' /\ NumberedWire'
<1>1. \A from, to, ts, data :
         Numbered(from, to, ts, data) => Numbered(from, to, ts, data)'
  BY NumberedStep
<1>2. NumberedLists'
  BY <1>1 DEF CInv, NumberedLists
<1>3. NumberedWire'
  BY <1>1 DEF CInv, NumberedWire
<1>4. NumberedCalls'
  <2> SUFFICES ASSUME NEW n \in Node, NEW m, resend'[n].pc = "calling", resend'[n].msg = m
               PROVE  Numbered(n, m.to, m.timeStamp, m.data)'
    BY DEF NumberedCalls
  <2>1. Numbered(n, m.to, m.timeStamp, m.data)
    BY DEF CInv, NumberedLists, NumberedCalls
  <2> QED
    BY <1>1, <2>1
<1> QED
  BY <1>2, <1>3, <1>4

\* Once a thread has accepted the first message of another, it always has.
LEMMA KnownKept ==
    ASSUME IInv, CInv, Later, Grows, NEW n \in Node, NEW m \in Node,
           receiveCounters[n][m] # None, receiveCounters'[n][m] # None
    PROVE  Unknown(n, m)' /\ Known(n, m)'
<1>1. PICK ts \in Nat : SentBy(m, n, ts) \in sent /\ FirstSent(m, n, ts) /\ Redundant(n, m, ts)
  BY DEF CInv, Known
<1>2. ts \in 1..clock
  BY <1>1 DEF IInv, PostTypes, WasSent, SentBy
<1>3. FirstSent(m, n, ts)'
  BY <1>1, <1>2, FirstStep
<1>4. SentBy(m, n, ts) \in sent' /\ Redundant(n, m, ts)'
  BY <1>1 DEF Grows
<1> QED
  BY <1>3, <1>4 DEF Unknown, Known, SentBy

\* Nothing changes for a thread and another when the first accepts nothing of
\* the second and keeps its counter.
LEMMA KnownStep ==
    ASSUME IInv, CInv, Later, Grows, NEW n \in Node, NEW m \in Node,
           receiveCounters'[n][m] = receiveCounters[n][m],
           \A ts \in Nat : Redundant(n, m, ts)' => Redundant(n, m, ts)
    PROVE  Unknown(n, m)' /\ Known(n, m)'
<1>1. CASE receiveCounters[n][m] # None
  BY <1>1, KnownKept
<1>2. CASE receiveCounters[n][m] = None
  BY <1>2 DEF CInv, Unknown, Known
<1> QED
  BY <1>1, <1>2

LEMMA SameKnown ==
    ASSUME IInv, CInv, Later, Grows, UNCHANGED <<receiveCounters, receivedMessages>>
    PROVE  \A n, m \in Node : Unknown(n, m)' /\ Known(n, m)'
<1> SUFFICES ASSUME NEW n \in Node, NEW m \in Node
             PROVE  Unknown(n, m)' /\ Known(n, m)'
  OBVIOUS
<1>1. \A ts \in Nat : Redundant(n, m, ts)' => Redundant(n, m, ts)
  BY DEF Redundant
<1> QED
  BY <1>1, KnownStep

\* A call that holds the lock finds its entry as long as none is taken off.
LEMMA BoundKept ==
    ASSUME IInv, IInv', CInv, NEW n \in Node,
           resend'[n] = resend[n],
           resendCounters'[n] = resendCounters[n],
           resend[n].locked =>
              Range(unAckedMessages[n]) \subseteq Range(unAckedMessages'[n])
    PROVE  Bound(n)'
<1> SUFFICES ASSUME resend[n].pc = "calling" PROVE Bound(n)'
  BY DEF Bound
<1>1. PICK dest, ts : dest = resend[n].msg.to /\ ts = resend[n].msg.timeStamp
  OBVIOUS
<1>2. CASE resend[n].locked
  <2>1. PostTypes /\ PostTypes'
    BY DEF IInv
  <2>2. Matches(n, dest, ts) # {}
    BY <1>1, <1>2 DEF CInv, Bound
  <2>3. PICK e \in Range(unAckedMessages[n]) : e.to = dest /\ e.timeStamp = ts
    BY <2>1, <2>2, MatchesRange
  <2>4. Matches(n, dest, ts)' # {}
    BY <1>2, <2>1, <2>3, MatchesRangeNext
  <2> QED
    BY <1>1, <1>2, <2>4 DEF Bound, Matches
<1>3. CASE ~resend[n].locked
  BY <1>3 DEF CInv, Bound
<1> QED
  BY <1>2, <1>3

-----------------------------------------------------------------------------
(* One lemma per action *)

LEMMA SendCounted ==
    ASSUME IInv, IInv', CInv, NEW n \in Node, NEW to \in Node, NEW ok \in BOOLEAN,
           Send(n, to, ok)
    PROVE  CInv'
<1> PICK counter, stamp : counter = sendCounters[n][to] + 1 /\ stamp = clock + 1
  OBVIOUS
<1> DEFINE msg == [to |-> to, timeStamp |-> stamp, data |-> <<counter, REQUEST>>]
           packet == [from |-> n, timeStamp |-> msg.timeStamp, data |-> msg.data]
           new == SentBy(n, to, stamp)
<1>1. /\ clock < MaxSends
      /\ counter = sendCounters[n][to] + 1
      /\ stamp = clock + 1
      /\ ~resend[n].locked
      /\ sendCounters' = [sendCounters EXCEPT ![n][to] = counter]
      /\ unAckedMessages' = [unAckedMessages EXCEPT ![n] = Append(@, msg)]
      /\ wire' = Transmit(n, msg, ok)
      /\ sent' = sent \cup {new}
      /\ clock' = clock + 1
      /\ UNCHANGED <<resendCounters, receiveCounters, receivedMessages, resend>>
  BY DEF Send, SentBy, HeldByResend
<1>2. /\ PostTypes /\ CounterTypes /\ clock \in Nat
      /\ counter \in 0..clock
      /\ \A m \in sent : m.timeStamp \in 1..clock
  <2>1. PostTypes /\ CounterTypes
    BY DEF IInv, CInv
  <2>2. sendCounters[n][to] \in -1..(clock - 1)
    BY <2>1 DEF CounterTypes
  <2>3. clock \in Nat
    BY <2>1 DEF PostTypes
  <2>4. counter \in 0..clock
    <3>1. PICK old \in -1..(clock - 1) : old = sendCounters[n][to]
      BY <2>2
    <3>2. counter = old + 1
      BY <1>1, <3>1
    <3> QED
      BY <2>3, <3>1, <3>2
  <2>5. \A m \in sent : m.timeStamp \in 1..clock
    BY <2>1 DEF PostTypes, WasSent
  <2> QED
    BY <2>1, <2>3, <2>4, <2>5
<1>3. new.from = n /\ new.to = to /\ new.timeStamp = stamp
  BY DEF SentBy
<1>4. Later
  BY <1>1, <1>2, <1>3 DEF Later
<1>5. Grows
  BY <1>1, SameGrows
<1>6. CounterTypes'
  <2>1. clock' \in 0..MaxSends
    BY <1>1, <1>2 DEF PostAssumption
  <2>2. receiveCounters' \in [Node -> [Node -> -1..(clock' + MaxRenumbers)]]
    <3>1. \A i \in -1..(clock + MaxRenumbers) : i \in -1..(clock' + MaxRenumbers)
      BY <1>1, <1>2 DEF PostAssumption
    <3>2. receiveCounters \in [Node -> [Node -> -1..(clock + MaxRenumbers)]]
      BY <1>2 DEF CounterTypes
    <3>3. receiveCounters' = receiveCounters
      BY <1>1
    <3> QED
      BY <3>1, <3>2, <3>3
  <2>3. sendCounters' \in [Node -> [Node -> -1..(clock' - 1)]]
    <3>1. counter \in -1..(clock' - 1) /\ \A i \in -1..(clock - 1) : i \in -1..(clock' - 1)
      <4>1. clock' = clock + 1 /\ clock \in Nat /\ counter \in 0..clock
        BY <1>1, <1>2
      <4> QED
        BY <4>1
    <3>2. sendCounters \in [Node -> [Node -> -1..(clock' - 1)]]
      BY <1>2, <3>1 DEF CounterTypes
    <3> QED
      BY <1>1, <3>1, <3>2
  <2> QED
    BY <1>1, <1>2, <2>1, <2>2, <2>3 DEF CounterTypes
<1>7. Unsent'
  <2> SUFFICES ASSUME NEW q \in Node, NEW m \in Node, sendCounters'[q][m] = None,
                      NEW k \in sent', k.from = q, k.to = m
               PROVE  FALSE
    BY DEF Unsent
  <2>1. sendCounters \in [Node -> [Node -> Int]]
    BY <1>2 DEF PostTypes
  <2>2. CASE q = n /\ m = to
    BY <1>1, <1>2, <2>1, <2>2 DEF None
  <2>3. CASE ~(q = n /\ m = to)
    <3>1. sendCounters'[q][m] = sendCounters[q][m]
      BY <1>1, <2>1, <2>3
    <3>2. k \in sent
      BY <1>1, <1>3, <2>3
    <3> QED
      BY <3>1, <3>2 DEF CInv, Unsent
  <2> QED
    BY <2>2, <2>3
<1>8. /\ msg \in Message
      /\ msg.to = to /\ msg.timeStamp = stamp /\ msg.data = <<counter, REQUEST>>
      /\ packet.from = n /\ packet.timeStamp = stamp /\ packet.data = <<counter, REQUEST>>
      /\ packet = [from |-> n, timeStamp |-> msg.timeStamp, data |-> msg.data]
  BY <1>2 DEF Message, REQUEST
\* The first message that n sends to the other gets counter 0.
<1>9. Numbered(n, to, stamp, <<counter, REQUEST>>)'
  <2>1. counter = 0 => FirstSent(n, to, stamp)'
    <3> SUFFICES ASSUME counter = 0, NEW m \in sent', m.from = n, m.to = to
                 PROVE  stamp <= m.timeStamp
      BY DEF FirstSent
    <3>1. sendCounters[n][to] = None
      <4>1. sendCounters[n][to] \in Int
        BY <1>2 DEF PostTypes
      <4> QED
        BY <1>1, <4>1 DEF None
    <3>2. m \notin sent
      BY <3>1 DEF CInv, Unsent
    <3> QED
      BY <1>1, <1>2, <1>3, <3>2
  <2>2. counter \in -1..(clock' + MaxRenumbers) /\ stamp \in 1..clock' /\ counter >= 0
    <3>1. clock' = clock + 1 /\ stamp = clock + 1 /\ clock \in Nat /\ counter \in 0..clock /\ MaxRenumbers \in Nat
      BY <1>1, <1>2 DEF PostAssumption
    <3> QED
      BY <3>1
  <2> QED
    BY <2>1, <2>2 DEF Numbered
<1> HIDE DEF msg, packet
<1>10. \A q \in Node : \A p \in Range(wire'[q]) :
          p \in Range(wire[q]) \/ (q = to /\ p = packet)
  <2>1. PostTypes
    BY <1>2
  <2>2. PICK a \in Message : a = msg
    BY <1>8
  <2>3. PICK pk : pk = [from |-> n, timeStamp |-> a.timeStamp, data |-> a.data]
    OBVIOUS
  <2>4. \A q \in Node : \A p \in Range(Transmit(n, a, ok)[q]) :
          p \in Range(wire[q]) \/ (q = a.to /\ p = pk)
    BY <2>1, <2>3, TransmitWire
  <2>5. wire' = Transmit(n, a, ok) /\ a.to = to
    BY <1>1, <1>8, <2>2
  <2>6. packet = pk
    BY <1>8, <2>2, <2>3
  <2> QED
    BY <2>4, <2>5, <2>6
<1>11. \A q \in Node : Range(unAckedMessages'[q])
            = IF q = n THEN Range(unAckedMessages[n]) \cup {msg} ELSE Range(unAckedMessages[q])
  <2>1. unAckedMessages[n] \in Seq(Message)
    BY <1>2 DEF PostTypes
  <2>2. Range(Append(unAckedMessages[n], msg)) = Range(unAckedMessages[n]) \cup {msg}
    BY <1>8, <2>1, AppendQueue
  <2> QED
    BY <1>1, <1>2, <2>2 DEF PostTypes
<1>12. /\ \A p : p = packet => Numbered(p.from, to, p.timeStamp, p.data)'
       /\ \A m : m = msg => Numbered(n, m.to, m.timeStamp, m.data)'
  BY <1>1, <1>8, <1>9
<1>13. NumberedLists' /\ NumberedCalls' /\ NumberedWire'
  BY <1>1, <1>4, <1>10, <1>11, <1>12, NumberedAll
<1>14. \A q \in Node : Bound(q)'
  BY <1>1, <1>11, BoundKept
<1>15. \A q, m \in Node : Unknown(q, m)' /\ Known(q, m)'
  BY <1>1, <1>4, <1>5, SameKnown
<1> QED
  BY <1>6, <1>7, <1>13, <1>14, <1>15 DEF CInv

\* The steps of the resend thread that only move its index: it calls Send without
\* the lock only while fewer than MaxRenumbers messages were renumbered.
LEMMA ResendLoopCounted ==
    ASSUME IInv, IInv', CInv, NEW n \in Node,
           \/ ResendStart(n) \/ ResendReturn(n) \/ ResendEnd(n)
           \/ \E j \in 1..Len(unAckedMessages[n]) : ResendPick(n, j)
    PROVE  CInv'
<1>1. UNCHANGED <<clock, sent, wire, unAckedMessages, sendCounters,
                  resendCounters, receiveCounters, receivedMessages>>
  BY DEF ResendStart, ResendReturn, ResendEnd, ResendPick
<1>2. PostTypes /\ PostTypes'
  BY DEF IInv
<1>3. PICK r \in ResendType :
         /\ resend' = [resend EXCEPT ![n] = r]
         /\ r.pc = "calling" => PickedEntry(n, r)
  BY ResendEntry
<1>4. \A q \in Node : resend'[q] = IF q = n THEN r ELSE resend[q]
  BY <1>2, <1>3 DEF PostTypes
<1>5. \A q \in Node : Bound(q)'
  <2> SUFFICES ASSUME NEW q \in Node, resend'[q].pc = "calling" PROVE Bound(q)'
    BY DEF Bound
  <2>1. CASE q # n
    BY <1>1, <1>4, <2>1, BoundKept
  <2>2. CASE q = n
    <3>1. PICK m \in Range(unAckedMessages'[n]) : m = r.msg
      BY <1>1, <1>3, <1>4, <2>2 DEF PickedEntry
    <3>2. Matches(n, m.to, m.timeStamp)' # {}
      BY <1>2, <3>1, MatchesRangeNext
    <3>3. resend'[n].locked \/ resendCounters'[n][m.to] + 1 < MaxRenumbers
      BY <1>1, <1>3, <1>4, <2>2, <3>1 DEF PickedEntry
    <3>4. resend'[n].msg = m
      BY <1>4, <3>1
    <3> QED
      BY <2>2, <3>2, <3>3, <3>4 DEF Bound, Matches
  <2> QED
    BY <2>1, <2>2
<1>6. Later /\ Grows
  BY <1>1, SameLater, SameGrows
<1>7. NumberedLists' /\ NumberedCalls' /\ NumberedWire'
  BY <1>1, <1>3, <1>4, <1>6, NumberedAll DEF PickedEntry
<1>8. \A q, m \in Node : Unknown(q, m)' /\ Known(q, m)'
  BY <1>1, <1>6, SameKnown
<1>9. CounterTypes' /\ Unsent'
  BY <1>1 DEF CInv, CounterTypes, Unsent
<1> QED
  BY <1>5, <1>7, <1>8, <1>9 DEF CInv

\* A call that has lost its entry does not hold the lock, so its counter is within the
\* bound; the text it renumbers no longer is a text as it was sent.
LEMMA ResendSendCounted ==
    ASSUME IInv, IInv', CInv, NEW n \in Node, NEW ok \in BOOLEAN, ResendSend(n, ok)
    PROVE  CInv'
<1>1. PICK msg \in Message :
         /\ msg = resend[n].msg
         /\ Numbered(n, msg.to, msg.timeStamp, msg.data)
  BY DEF ResendSend, IInv, PostTypes, CInv, NumberedCalls
<1>2. PICK counter : counter = resendCounters[n][msg.to] + 1
  OBVIOUS
<1> DEFINE again == [msg EXCEPT !.data = <<counter>> \o @]
<1>3. /\ resend[n].pc = "calling"
      /\ resend' = [resend EXCEPT ![n].pc = "sending", ![n].locked = FALSE]
      /\ UNCHANGED <<clock, sent, sendCounters, receiveCounters, receivedMessages>>
      /\ \/ /\ wire' = Transmit(n, msg, ok)
            /\ UNCHANGED <<unAckedMessages, resendCounters>>
         \/ /\ Matches(n, msg.to, msg.timeStamp) = {}
            /\ wire' = Transmit(n, again, ok)
            /\ unAckedMessages' = [unAckedMessages EXCEPT ![n] = Append(@, again)]
            /\ resendCounters' = [resendCounters EXCEPT ![n][msg.to] = counter]
  BY <1>1, <1>2 DEF ResendSend
<1>4. PostTypes /\ CounterTypes
  BY DEF IInv, CInv
<1>5. Later /\ Grows
  BY <1>3, SameLater, SameGrows
<1>6. \A q \in Node :
         IF q = n THEN resend'[q].pc = "sending" ELSE resend'[q] = resend[q]
  <2> DEFINE r == [resend[n] EXCEPT !.pc = "sending", !.locked = FALSE]
  <2>1. resend \in [Node -> ResendType] /\ resend[n] \in ResendType
    BY <1>4 DEF PostTypes
  <2>2. r.pc = "sending"
    BY <2>1 DEF ResendType
  <2>3. resend' = [resend EXCEPT ![n] = r]
    BY <1>3, <2>1 DEF ResendType
  <2> HIDE DEF r
  <2> QED
    BY <2>1, <2>2, <2>3
<1>7. msg.to \in Node /\ msg.timeStamp \in Nat /\ msg.data \in Seq(Int)
  BY DEF Message
\* What goes out, and how often a message was renumbered.
<1>8. PICK out \in Message :
         /\ Numbered(n, out.to, out.timeStamp, out.data)
         /\ wire' = Transmit(n, out, ok)
         /\ \/ UNCHANGED <<unAckedMessages, resendCounters>>
            \/ /\ unAckedMessages' = [unAckedMessages EXCEPT ![n] = Append(@, out)]
               /\ counter \in -1..(MaxRenumbers - 1)
               /\ resendCounters' = [resendCounters EXCEPT ![n][msg.to] = counter]
  <2>1. CASE wire' = Transmit(n, msg, ok) /\ UNCHANGED <<unAckedMessages, resendCounters>>
    BY <1>1, <2>1
  <2>2. CASE /\ Matches(n, msg.to, msg.timeStamp) = {}
             /\ wire' = Transmit(n, again, ok)
             /\ unAckedMessages' = [unAckedMessages EXCEPT ![n] = Append(@, again)]
             /\ resendCounters' = [resendCounters EXCEPT ![n][msg.to] = counter]
    <3>1. resendCounters[n][msg.to] \in -1..(MaxRenumbers - 1)
      BY <1>4, <1>7 DEF CounterTypes
    <3>2. resendCounters[n][msg.to] + 1 < MaxRenumbers
      BY <1>1, <1>3, <2>2 DEF CInv, Bound
    <3>3. counter \in 0..(MaxRenumbers - 1)
      <4>1. PICK old \in -1..(MaxRenumbers - 1) : old = resendCounters[n][msg.to]
        BY <3>1
      <4>2. counter = old + 1 /\ counter < MaxRenumbers
        BY <1>2, <3>2, <4>1
      <4> QED
        BY <4>1, <4>2 DEF PostAssumption
    <3> DEFINE data == <<counter>> \o msg.data
    <3>4. <<counter>> \in Seq(Int)
      BY <3>3
    <3>5. /\ data \in Seq(Int)
          /\ Len(data) = Len(msg.data) + 1
          /\ data[1] = counter
      BY <1>7, <3>4, ConcatProperties
    <3>6. /\ again = [msg EXCEPT !.data = data]
          /\ again \in Message /\ again.to = msg.to /\ again.timeStamp = msg.timeStamp
          /\ again.data = data
      <4>1. again = [msg EXCEPT !.data = data]
        BY DEF Message
      <4> HIDE DEF data
      <4> QED
        BY <3>5, <4>1 DEF Message
    <3> HIDE DEF data
    <3>7. Len(msg.data) \in Nat /\ Len(msg.data) >= 2
      BY <1>1, <1>7, LenProperties DEF Numbered
    <3>8. ~AsSent(data)
      <4>1. data # <<>>
        BY <3>5, <3>7, EmptySeq
      <4>2. Len(Tail(data)) = Len(data) - 1
        BY <3>5, <4>1, HeadTailProperties
      <4>3. Len(<<REQUEST>>) = 1
        OBVIOUS
      <4> QED
        BY <3>5, <3>7, <4>2, <4>3 DEF AsSent
    <3>9. Numbered(n, msg.to, msg.timeStamp, data)
      <4>1. msg.timeStamp \in 1..clock /\ clock \in Nat
        BY <1>1, <1>4 DEF Numbered, PostTypes
      <4>2. data[1] \in -1..(clock + MaxRenumbers)
        BY <3>3, <3>5, <4>1 DEF PostAssumption
      <4>3. Len(data) >= 2
        BY <3>5, <3>7
      <4> QED
        BY <3>8, <4>1, <4>2, <4>3 DEF Numbered
    <3>10. counter \in -1..(MaxRenumbers - 1)
      BY <3>3 DEF PostAssumption
    <3> HIDE DEF again
    <3> QED
      BY <2>2, <3>6, <3>9, <3>10
  <2> QED
    BY <1>3, <2>1, <2>2
<1> HIDE DEF again
<1>9. \A q \in Node : \A p \in Range(wire'[q]) :
         p \in Range(wire[q])
            \/ (q = out.to /\ p = [from |-> n, timeStamp |-> out.timeStamp, data |-> out.data])
  BY <1>4, <1>8, TransmitWire
<1>10. CounterTypes'
  <2>1. resendCounters' \in [Node -> [Node -> -1..(MaxRenumbers - 1)]]
    <3>1. PICK S : S = -1..(MaxRenumbers - 1)
      OBVIOUS
    <3>2. resendCounters \in [Node -> [Node -> S]]
      BY <1>4, <3>1 DEF CounterTypes
    <3>3. \/ resendCounters' = resendCounters
          \/ counter \in S /\ resendCounters' = [resendCounters EXCEPT ![n][msg.to] = counter]
      BY <1>8, <3>1
    <3>4. PICK to \in Node : to = msg.to
      BY <1>7
    <3>5. resendCounters' \in [Node -> [Node -> S]]
      BY <3>2, <3>3, <3>4
    <3> QED
      BY <3>1, <3>5
  <2> QED
    BY <1>3, <1>4, <2>1 DEF CounterTypes
<1>11. \A q \in Node : /\ q # n => resendCounters'[q] = resendCounters[q]
                       /\ q # n => unAckedMessages'[q] = unAckedMessages[q]
  BY <1>4, <1>8 DEF CounterTypes, PostTypes
<1>12. \A m \in Range(unAckedMessages'[n]) : m \in Range(unAckedMessages[n]) \/ m = out
  <2>1. unAckedMessages \in [Node -> Seq(Message)] /\ unAckedMessages[n] \in Seq(Message)
    BY <1>4 DEF PostTypes
  <2>2. Range(Append(unAckedMessages[n], out)) = Range(unAckedMessages[n]) \cup {out}
    BY <2>1, AppendQueue
  <2>3. unAckedMessages'[n] \in {unAckedMessages[n], Append(unAckedMessages[n], out)}
    BY <1>8, <2>1
  <2> QED
    BY <2>2, <2>3
<1>13. \A q \in Node : Bound(q)'
  <2> SUFFICES ASSUME NEW q \in Node, q # n PROVE Bound(q)'
    BY <1>6 DEF Bound
  <2> QED
    BY <1>6, <1>11, BoundKept
<1>14. /\ Numbered(n, out.to, out.timeStamp, out.data)'
       /\ \A p : p = [from |-> n, timeStamp |-> out.timeStamp, data |-> out.data]
                   => Numbered(p.from, out.to, p.timeStamp, p.data)'
  BY <1>5, <1>8, NumberedStep
<1>15. NumberedLists' /\ NumberedCalls' /\ NumberedWire'
  BY <1>5, <1>6, <1>9, <1>11, <1>12, <1>14, NumberedAll
<1>16. \A q, m \in Node : Unknown(q, m)' /\ Known(q, m)'
  BY <1>3, <1>5, SameKnown
<1>17. Unsent'
  BY <1>3 DEF CInv, Unsent
<1> QED
  BY <1>10, <1>13, <1>15, <1>16, <1>17 DEF CInv

LEMMA DiscardCounted ==
    ASSUME IInv, IInv', CInv, NEW n \in Node, Discard(n)
    PROVE  CInv'
<1>1. /\ wire[n] # <<>>
      /\ wire' = [wire EXCEPT ![n] = Tail(@)]
      /\ UNCHANGED <<clock, sent, unAckedMessages, sendCounters, resendCounters,
                     receiveCounters, receivedMessages, resend>>
  BY DEF Discard
<1>2. \A q \in Node : Range(wire'[q]) \subseteq Range(wire[q])
  <2>1. wire \in [Node -> Seq(Packet)]
    BY DEF IInv, PostTypes
  <2>2. \A q \in Node : wire'[q] = IF q = n THEN Tail(wire[n]) ELSE wire[q]
    BY <1>1, <2>1
  <2> QED
    BY <1>1, <2>2, ReceivedPacket
<1>3. Later /\ Grows
  BY <1>1, SameLater, SameGrows
<1>4. NumberedLists' /\ NumberedCalls' /\ NumberedWire'
  BY <1>1, <1>2, <1>3, NumberedAll
<1>5. \A q, m \in Node : Unknown(q, m)' /\ Known(q, m)'
  BY <1>1, <1>3, SameKnown
<1>6. \A q \in Node : Bound(q)'
  BY <1>1, BoundKept
<1>7. CounterTypes' /\ Unsent'
  BY <1>1 DEF CInv, CounterTypes, Unsent
<1> QED
  BY <1>4, <1>5, <1>6, <1>7 DEF CInv

\* The table of counters after Receive: only the entry of the sender changes, and the
\* entry of a thread that was not known only for a packet with counter 0.
LEMMA CountedStep ==
    ASSUME IInv, CInv, NEW n \in Node, NEW p \in Range(wire[n]), p \in Packet,
           receiveCounters' = Counted(n, p.from, p.data[1]), UNCHANGED clock
    PROVE  /\ receiveCounters' \in [Node -> [Node -> -1..(clock + MaxRenumbers)]]
           /\ \A q, m \in Node : q # n \/ m # p.from =>
                 receiveCounters'[q][m] = receiveCounters[q][m]
           /\ receiveCounters[n][p.from] # None => receiveCounters'[n][p.from] # None
           /\ receiveCounters[n][p.from] = None =>
                 receiveCounters'[n][p.from] = IF p.data[1] = 0 THEN 0 ELSE None
<1>1. PICK from, counter : from = p.from /\ counter = p.data[1]
  OBVIOUS
<1>2. PICK S : S = -1..(clock + MaxRenumbers)
  OBVIOUS
<1>3. from \in Node /\ counter \in S
  BY <1>1, <1>2 DEF CInv, NumberedWire, Numbered, Packet
<1>4. receiveCounters \in [Node -> [Node -> S]]
  BY <1>2 DEF CInv, CounterTypes
<1>5. PICK old \in S : old = receiveCounters[n][from]
  BY <1>3, <1>4
<1>6. clock \in Nat
  BY DEF IInv, PostTypes
<1>7. \A i \in S : i \in Int /\ i >= -1
  BY <1>2, <1>6 DEF PostAssumption
<1>8. \/ /\ receiveCounters' = [receiveCounters EXCEPT ![n][from] = old + 1]
         /\ \/ old = None /\ counter = 0
            \/ old # None /\ counter = old + 1
      \/ /\ receiveCounters' = receiveCounters
         /\ ~(old = None /\ counter = 0)
  BY <1>1, <1>3, <1>4, <1>5 DEF Counted
<1>9. CASE /\ receiveCounters' = [receiveCounters EXCEPT ![n][from] = old + 1]
           /\ \/ old = None /\ counter = 0
              \/ old # None /\ counter = old + 1
  <2>1. old + 1 = counter /\ counter # None
    BY <1>5, <1>7, <1>9 DEF None
  <2>2. receiveCounters' = [receiveCounters EXCEPT ![n][from] = counter]
    BY <1>9, <2>1
  <2>3. receiveCounters' \in [Node -> [Node -> S]]
    BY <1>3, <1>4, <2>2
  <2>4. receiveCounters'[n][from] = counter
    BY <1>3, <1>4, <2>2
  <2>5. \A q, m \in Node : q # n \/ m # from => receiveCounters'[q][m] = receiveCounters[q][m]
    BY <1>3, <1>4, <2>2
  <2>6. old = None => counter = 0
    BY <1>9
  <2> QED
    BY <1>1, <1>2, <1>5, <2>1, <2>3, <2>4, <2>5, <2>6
<1>10. CASE receiveCounters' = receiveCounters /\ ~(old = None /\ counter = 0)
  BY <1>1, <1>2, <1>4, <1>5, <1>10
<1> QED
  BY <1>8, <1>9, <1>10

\* An acknowledgement, or a packet that passes for one, never is the first message
\* that is accepted from a thread.
LEMMA ReceiveAckCounted ==
    ASSUME IInv, IInv', CInv, NEW n \in Node, ReceiveAck(n)
    PROVE  CInv'
<1>1. PICK p \in Packet : p = Head(wire[n]) /\ p \in Range(wire[n]) /\ GoodPacket(n, p)
  <2>1. wire[n] \in Seq(Packet) /\ wire[n] # <<>>
    BY DEF IInv, PostTypes, ReceiveAck
  <2> QED
    BY <2>1, TailQueue, ReceivedPacket
<1>2. /\ wire[n] # <<>>
      /\ ~resend[n].locked
      /\ p.data[2] = ACK
      /\ receiveCounters' = Counted(n, p.from, p.data[1])
      /\ unAckedMessages' = Erase(n, p.from, p.timeStamp)
      /\ wire' = [wire EXCEPT ![n] = Tail(@)]
      /\ UNCHANGED <<clock, sent, sendCounters, resendCounters, receivedMessages, resend>>
  BY <1>1 DEF ReceiveAck, HeldByResend
<1>3. PostTypes /\ PostTypes' /\ p.from \in Node /\ p.timeStamp \in Nat
  BY DEF IInv, Packet
<1>4. \A q \in Node : Range(wire'[q]) \subseteq Range(wire[q])
  <2>1. wire \in [Node -> Seq(Packet)]
    BY <1>3 DEF PostTypes
  <2>2. \A q \in Node : wire'[q] = IF q = n THEN Tail(wire[n]) ELSE wire[q]
    BY <1>2, <2>1
  <2> QED
    BY <1>2, <2>2, ReceivedPacket
<1>5. /\ \A q \in Node : Range(unAckedMessages'[q]) \subseteq Range(unAckedMessages[q])
      /\ \A q \in Node : q # n => Range(unAckedMessages[q]) \subseteq Range(unAckedMessages'[q])
  <2>1. PICK to, ts : to = p.from /\ ts = p.timeStamp
    OBVIOUS
  <2>2. unAckedMessages' = Erase(n, to, ts)
    BY <1>2, <2>1
  <2>3. \A q \in Node : Range(Erase(n, to, ts)[q]) \subseteq Range(unAckedMessages[q])
    BY <1>3, EraseList
  <2>4. \A q \in Node : \A e \in Range(unAckedMessages[q]) :
           e \in Range(Erase(n, to, ts)[q]) \/ (q = n /\ e.to = to /\ e.timeStamp = ts)
    BY <1>3, EraseList
  <2> QED
    BY <2>2, <2>3, <2>4
<1>6. Later /\ Grows
  BY <1>2, SameLater, SameGrows
<1>7. NumberedLists' /\ NumberedCalls' /\ NumberedWire'
  BY <1>2, <1>4, <1>5, <1>6, NumberedAll
<1>8. \A q \in Node : Bound(q)'
  BY <1>2, <1>5, BoundKept
<1>9. CounterTypes' /\ Unsent'
  <2>1. receiveCounters' \in [Node -> [Node -> -1..(clock + MaxRenumbers)]]
    BY <1>1, <1>2, CountedStep
  <2> QED
    BY <1>2, <2>1 DEF CInv, CounterTypes, Unsent
<1>10. receiveCounters[n][p.from] = None => p.data[1] # 0
  <2> SUFFICES ASSUME receiveCounters[n][p.from] = None PROVE p.data[1] # 0
    OBVIOUS
  <2>1. ~Redundant(n, p.from, p.timeStamp)
    BY <1>3 DEF CInv, Unknown
  <2>2. ~AsSent(p.data)
    BY <1>2 DEF AsSent, ACK, REQUEST
  <2> QED
    BY <1>1, <2>1, <2>2 DEF GoodPacket
<1>11. \A q, m \in Node : Unknown(q, m)' /\ Known(q, m)'
  <2> SUFFICES ASSUME NEW q \in Node, NEW m \in Node
               PROVE  Unknown(q, m)' /\ Known(q, m)'
    OBVIOUS
  <2>1. \A ts \in Nat : Redundant(q, m, ts)' => Redundant(q, m, ts)
    BY <1>2 DEF Redundant
  <2>2. CASE receiveCounters'[q][m] = receiveCounters[q][m]
    BY <1>6, <2>1, <2>2, KnownStep
  <2>3. CASE receiveCounters'[q][m] # receiveCounters[q][m]
    <3>1. q = n /\ m = p.from
      BY <1>1, <1>2, <2>3, CountedStep
    <3>2. receiveCounters[q][m] # None
      BY <1>1, <1>2, <1>10, <2>3, <3>1, CountedStep
    <3>3. receiveCounters'[q][m] # None
      BY <1>1, <1>2, <3>1, <3>2, CountedStep
    <3> QED
      BY <1>6, <3>2, <3>3, KnownKept
  <2> QED
    BY <2>2, <2>3
<1> QED
  BY <1>7, <1>8, <1>9, <1>11 DEF CInv

\* The message of a thread that was not known has counter 0, and as it cannot have
\* been renumbered yet it is the first that the thread sent.
LEMMA ReceiveRequestCounted ==
    ASSUME IInv, IInv', CInv, NEW n \in Node, NEW ok \in BOOLEAN, ReceiveRequest(n, ok)
    PROVE  CInv'
<1>1. PICK p \in Packet : p = Head(wire[n]) /\ p \in Range(wire[n]) /\ GoodPacket(n, p)
  <2>1. wire[n] \in Seq(Packet) /\ wire[n] # <<>>
    BY DEF IInv, PostTypes, ReceiveRequest
  <2> QED
    BY <2>1, TailQueue, ReceivedPacket
<1>2. /\ wire[n] # <<>>
      /\ ~resend[n].locked
      /\ Accepts(n, p.from, p.data[1])
      /\ p.data[2] # ACK
      /\ receiveCounters' = Counted(n, p.from, p.data[1])
      /\ receivedMessages' =
            IF Redundant(n, p.from, p.timeStamp) THEN receivedMessages
            ELSE [receivedMessages EXCEPT
                    ![n] = Append(@, [from |-> p.from, timeStamp |-> p.timeStamp,
                                      data |-> Tail(p.data)])]
      /\ UNCHANGED <<clock, sent, sendCounters, resendCounters, resend>>
  BY <1>1 DEF ReceiveRequest, HeldByResend
<1>3. PostTypes /\ PostTypes' /\ p.from \in Node /\ p.timeStamp \in Nat
  BY DEF IInv, Packet
<1>4. /\ SentBy(p.from, n, p.timeStamp) \in sent
      /\ AsSent(p.data) \/ Redundant(n, p.from, p.timeStamp)
  <2>1. p.data # <<-1, ACK>>
    BY <1>2
  <2> QED
    BY <1>1, <2>1 DEF GoodPacket
<1>5. Grows /\ Redundant(n, p.from, p.timeStamp)'
  BY <1>2, <1>4, KeepStep
<1>6. /\ \A q \in Node : \A e \in Range(wire'[q]) :
            \/ e \in Range(wire[q])
            \/ q = p.from /\ e = [from |-> n, timeStamp |-> p.timeStamp, data |-> <<-1, ACK>>]
      /\ \A q \in Node : Range(unAckedMessages'[q]) \subseteq Range(unAckedMessages[q])
      /\ \A q \in Node : q # n => Range(unAckedMessages[q]) \subseteq Range(unAckedMessages'[q])
  <2>1. Taken(n, p)
    BY <1>1, RequestTaken
  <2> QED
    BY <2>1 DEF Taken
<1>7. Later
  BY <1>2, SameLater
<1>8. Numbered(p.from, n, p.timeStamp, p.data)
  BY <1>1 DEF CInv, NumberedWire
<1>9. \A e : e = [from |-> n, timeStamp |-> p.timeStamp, data |-> <<-1, ACK>>]
                => Numbered(e.from, p.from, e.timeStamp, e.data)'
  <2>1. clock' = clock /\ clock \in Nat /\ p.timeStamp \in 1..clock
    BY <1>2, <1>3, <1>8 DEF Numbered, PostTypes
  <2>2. -1 \in -1..(clock + MaxRenumbers)
    BY <2>1 DEF PostAssumption
  <2>3. ~AsSent(<<-1, ACK>>)
    BY DEF AsSent, ACK, REQUEST
  <2> QED
    BY <2>1, <2>2, <2>3 DEF Numbered
<1>10. NumberedLists' /\ NumberedCalls' /\ NumberedWire'
  BY <1>2, <1>6, <1>7, <1>9, NumberedAll
<1>11. \A q \in Node : Bound(q)'
  BY <1>2, <1>6, BoundKept
<1>12. CounterTypes' /\ Unsent'
  <2>1. receiveCounters' \in [Node -> [Node -> -1..(clock + MaxRenumbers)]]
    BY <1>1, <1>2, CountedStep
  <2> QED
    BY <1>2, <2>1 DEF CInv, CounterTypes, Unsent
\* Only messages of p's sender are accepted.
<1>13. \A q, m \in Node, ts \in Nat :
          (q # n \/ m # p.from) => (Redundant(q, m, ts)' => Redundant(q, m, ts))
  <2> SUFFICES ASSUME NEW q \in Node, NEW m \in Node, NEW ts \in Nat,
                      q # n \/ m # p.from, Redundant(q, m, ts)'
               PROVE  Redundant(q, m, ts)
    OBVIOUS
  <2> DEFINE r == [from |-> p.from, timeStamp |-> p.timeStamp, data |-> <<REQUEST>>]
             old == receivedMessages[n]
  <2>1. receivedMessages \in [Node -> Seq(Packet)] /\ old \in Seq(Packet)
    BY <1>3 DEF PostTypes
  <2>2. \/ receivedMessages' = receivedMessages
        \/ receivedMessages' = [receivedMessages EXCEPT ![n] = Append(old, r)]
    BY <1>2, <1>4 DEF AsSent
  <2>3. r \in Packet /\ r.from = p.from
    BY <1>3 DEF Packet, REQUEST
  <2> HIDE DEF r
  <2>4. /\ Len(Append(old, r)) = Len(old) + 1
        /\ \A i \in 1..Len(old) : Append(old, r)[i] = old[i]
        /\ Append(old, r)[Len(old) + 1] = r
        /\ Len(old) \in Nat
    BY <2>1, <2>3, AppendProperties, LenProperties
  <2>5. CASE receivedMessages' = receivedMessages
    BY <2>5 DEF Redundant
  <2>6. CASE q # n /\ receivedMessages' = [receivedMessages EXCEPT ![n] = Append(old, r)]
    <3>1. receivedMessages'[q] = receivedMessages[q]
      BY <2>1, <2>6
    <3> QED
      BY <3>1 DEF Redundant
  <2>7. CASE q = n /\ receivedMessages' = [receivedMessages EXCEPT ![n] = Append(old, r)]
    <3>1. receivedMessages'[n] = Append(old, r)
      BY <2>1, <2>7
    <3>2. PICK i \in 1..(Len(old) + 1) :
             Append(old, r)[i].from = m /\ Append(old, r)[i].timeStamp = ts
      BY <2>4, <2>7, <3>1 DEF Redundant
    <3>3. i \in 1..Len(old)
      BY <2>3, <2>4, <2>7, <3>2
    <3> QED
      BY <2>4, <2>7, <3>2, <3>3 DEF Redundant
  <2> QED
    BY <2>2, <2>5, <2>6, <2>7
\* The first message that is accepted of a thread.
<1>14. ASSUME receiveCounters[n][p.from] = None
       PROVE  /\ receiveCounters'[n][p.from] = 0
              /\ FirstSent(p.from, n, p.timeStamp)
  <2>1. ~Redundant(n, p.from, p.timeStamp)
    BY <1>3, <1>14 DEF CInv, Unknown
  <2>2. AsSent(p.data)
    BY <1>4, <2>1
  <2>3. p.data[1] \in Int /\ p.data[1] >= 0
    <3>1. clock \in Nat /\ p.data[1] \in -1..(clock + MaxRenumbers)
      BY <1>3, <1>8 DEF PostTypes, Numbered
    <3> QED
      BY <1>8, <2>2, <3>1 DEF Numbered, PostAssumption
  <2>4. p.data[1] = 0
    BY <1>2, <1>14, <2>3 DEF Accepts
  <2>5. receiveCounters'[n][p.from] = 0
    BY <1>1, <1>2, <1>14, <2>4, CountedStep
  <2> QED
    BY <1>8, <2>2, <2>4, <2>5 DEF Numbered
<1>15. \A q, m \in Node : Unknown(q, m)' /\ Known(q, m)'
  <2> SUFFICES ASSUME NEW q \in Node, NEW m \in Node
               PROVE  Unknown(q, m)' /\ Known(q, m)'
    OBVIOUS
  <2>1. CASE q # n \/ m # p.from
    <3>1. receiveCounters'[q][m] = receiveCounters[q][m]
      BY <1>1, <1>2, <2>1, CountedStep
    <3> QED
      BY <1>5, <1>7, <1>13, <2>1, <3>1, KnownStep
  <2>2. CASE q = n /\ m = p.from /\ receiveCounters[q][m] # None
    <3>1. receiveCounters'[q][m] # None
      BY <1>1, <1>2, <2>2, CountedStep
    <3> QED
      BY <1>5, <1>7, <2>2, <3>1, KnownKept
  <2>3. CASE q = n /\ m = p.from /\ receiveCounters[q][m] = None
    <3>1. receiveCounters'[q][m] = 0 /\ FirstSent(m, q, p.timeStamp)
      BY <1>14, <2>3
    <3>2. p.timeStamp \in 1..clock
      BY <1>8 DEF Numbered
    <3>3. PICK ts \in Nat : ts = p.timeStamp
      BY <1>3
    <3>4. FirstSent(m, q, ts)'
      BY <1>7, <3>1, <3>2, <3>3, FirstStep
    <3>5. SentBy(m, q, ts) \in sent' /\ Redundant(q, m, ts)'
      BY <1>2, <1>4, <1>5, <2>3, <3>3
    <3> QED
      BY <3>1, <3>4, <3>5 DEF Unknown, Known, None, SentBy
  <2> QED
    BY <2>1, <2>2, <2>3
<1> QED
  BY <1>10, <1>11, <1>12, <1>15 DEF CInv

-----------------------------------------------------------------------------
(* The theorem about the counters *)

LEMMA NextCInv == IInv /\ IInv' /\ CInv /\ [Next]_vars => CInv'
<1> SUFFICES ASSUME IInv, IInv', CInv, [Next]_vars PROVE CInv'
  OBVIOUS
<1>1. ASSUME NEW n \in Node, NEW to \in Node, NEW ok \in BOOLEAN, Send(n, to, ok)
      PROVE  CInv'
  BY <1>1, SendCounted
<1>2. ASSUME NEW n \in Node, NEW ok \in BOOLEAN, Receive(n, ok)
      PROVE  CInv'
  BY <1>2, DiscardCounted, ReceiveAckCounted, ReceiveRequestCounted DEF Receive
<1>3. ASSUME NEW n \in Node, ResendStep(n)
      PROVE  CInv'
  BY <1>3, ResendLoopCounted, ResendSendCounted DEF ResendStep
<1>4. ASSUME UNCHANGED vars
      PROVE  CInv'
  <2> USE <1>4 DEF vars
  <2>1. Later /\ Grows
    BY SameLater, SameGrows
  <2>2. NumberedLists' /\ NumberedCalls' /\ NumberedWire'
    BY <2>1, NumberedAll
  <2>3. \A n, m \in Node : Unknown(n, m)' /\ Known(n, m)'
    BY <2>1, SameKnown
  <2>4. \A n \in Node : Bound(n)'
    BY BoundKept
  <2>5. CounterTypes' /\ Unsent'
    BY DEF CInv, CounterTypes, Unsent
  <2> QED
    BY <2>2, <2>3, <2>4, <2>5 DEF CInv
<1> QED
  BY <1>1, <1>2, <1>3, <1>4 DEF Next

\* A message is accepted from a thread: then it is known, and its first message has
\* been accepted.
LEMMA FirstAccepted == IInv /\ CInv => FirstInOrder
<1> SUFFICES ASSUME IInv, CInv, NEW k \in sent, NEW m \in sent,
                    IsFirst(k), m.from = k.from, m.to = k.to, Accepted(m.to, m)
             PROVE  Accepted(k.to, k)
  BY DEF FirstInOrder
<1>1. /\ k.from \in Node /\ k.to \in Node /\ k.timeStamp \in Nat
      /\ m.timeStamp \in Nat
      /\ \A j \in sent : j.timeStamp \in Nat
  BY SMTT(30) DEF IInv, PostTypes, WasSent
<1>2. Redundant(k.to, k.from, m.timeStamp)
  BY DEF Accepted, Redundant
<1>3. PICK ts \in Nat :
         /\ SentBy(k.from, k.to, ts) \in sent
         /\ FirstSent(k.from, k.to, ts)
         /\ Redundant(k.to, k.from, ts)
  BY <1>1, <1>2 DEF CInv, Known, Unknown
<1>4. ts <= k.timeStamp
  BY <1>3 DEF FirstSent
<1>5. k.timeStamp <= ts
  BY <1>3 DEF IsFirst, SentBy
<1>6. ts = k.timeStamp
  BY <1>1, <1>3, <1>4, <1>5
<1> QED
  BY <1>3, <1>6 DEF Accepted, Redundant

LEMMA TypesFollow == IInv /\ CInv => TypeOK
<1> SUFFICES ASSUME IInv, CInv PROVE TypeOK
  OBVIOUS
<1>1. PostTypes /\ CounterTypes
  BY DEF IInv, CInv
<1>2. clock \in 0..MaxSends
  BY <1>1 DEF CounterTypes
<1>3. sent \subseteq [from : Node, to : Node, timeStamp : 1..MaxSends, data : {<<REQUEST>>}]
  <2> SUFFICES ASSUME NEW m \in sent
               PROVE  m \in [from : Node, to : Node, timeStamp : 1..MaxSends,
                             data : {<<REQUEST>>}]
    OBVIOUS
  <2>1. m.from \in Node /\ m.to \in Node /\ m.timeStamp \in 1..clock
    BY <1>1 DEF PostTypes, WasSent
  <2>2. m = [from |-> m.from, to |-> m.to, timeStamp |-> m.timeStamp, data |-> <<REQUEST>>]
    BY <1>1 DEF PostTypes, WasSent, SentBy
  <2>3. m.timeStamp \in 1..MaxSends
    BY <1>2, <2>1 DEF PostAssumption
  <2> QED
    BY <2>1, <2>2, <2>3
<1>4. ASSUME NEW n \in Node, NEW i \in 1..Len(wire[n])
      PROVE  /\ wire[n][i].from \in Node
             /\ wire[n][i].timeStamp \in 1..clock
             /\ wire[n][i].data[1] \in -1..(clock + MaxRenumbers)
             /\ Len(wire[n][i].data) >= 2
  <2>1. wire[n] \in Seq(Packet)
    BY <1>1 DEF PostTypes
  <2>2. wire[n][i] \in Packet /\ wire[n][i] \in Range(wire[n])
    BY <2>1, ElementOfSeq, RangeEquality
  <2>3. PICK p \in Packet : p = wire[n][i] /\ p \in Range(wire[n])
    BY <2>2
  <2>4. Numbered(p.from, n, p.timeStamp, p.data)
    BY <2>3 DEF CInv, NumberedWire
  <2> QED
    BY <2>3, <2>4 DEF Numbered, Packet
<1>5. ASSUME NEW n \in Node, NEW i \in 1..Len(unAckedMessages[n])
      PROVE  /\ unAckedMessages[n][i].to \in Node
             /\ unAckedMessages[n][i].timeStamp \in 1..clock
  <2>1. unAckedMessages[n] \in Seq(Message)
    BY <1>1 DEF PostTypes
  <2>2. unAckedMessages[n][i] \in Message /\ unAckedMessages[n][i] \in Range(unAckedMessages[n])
    BY <2>1, ElementOfSeq, RangeEquality
  <2>3. PICK m \in Message : m = unAckedMessages[n][i] /\ m \in Range(unAckedMessages[n])
    BY <2>2
  <2>4. Numbered(n, m.to, m.timeStamp, m.data)
    BY <2>3 DEF CInv, NumberedLists
  <2> QED
    BY <2>3, <2>4 DEF Numbered, Message
<1>6. \A n, m \in Node :
         /\ sendCounters[n][m] \in -1..(clock - 1)
         /\ resendCounters[n][m] \in -1..(MaxRenumbers - 1)
         /\ receiveCounters[n][m] \in -1..(clock + MaxRenumbers)
  BY <1>1 DEF CounterTypes
<1>7. \A n \in Node : resend[n].pc \in {"idle", "scan", "calling", "sending"}
  BY <1>1 DEF PostTypes, ResendType
<1> QED
  BY <1>2, <1>3, <1>4, <1>5, <1>6, <1>7 DEF TypeOK

\* The counters of Send, Receive and the resend thread (post.cc) stay within their
\* bounds while messages are lost and renumbered, and the first message of a thread
\* for another is accepted before any other of them: Receive takes no message of a
\* thread it does not know unless its counter is 0.
THEOREM CountersStaySound == Spec => []CountersSound
<1>1. IInv /\ CInv => CountersSound
  BY TypesFollow, FirstAccepted DEF CountersSound
<1> QED
  BY <1>1, InitCInv, Invariance, NextCInv, PTL DEF Spec

=============================================================================
