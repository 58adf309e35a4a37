---------------------------- MODULE NetcallProofs ----------------------------
(***************************************************************************)
(* Proofs about network/netcall.cc.                                        *)
(*                                                                         *)
(* First, that registration is sound (GroupsSound of module Registration), *)
(* for any number of members that one GROUPINFO can name, and any number   *)
(* of lost and of repeated messages.                                       *)
(*                                                                         *)
(* Then, that the tables of processMessage are (module DistributedLocks):  *)
(* that locks are consistent and handed over in order in any group, on any *)
(* placement of its members on machines; and, in a group of one, that      *)
(* replies and tables stay sound.                                          *)
(***************************************************************************)
EXTENDS Registration, DistributedLocks, QueueLemmas, FiniteSetTheorems

-----------------------------------------------------------------------------
(* The inductive invariant *)

Kind == {"REGNETTHREAD", "REGNETTHREADRESPONSE", "GROUPINFO", "REQUEST", "ACK"}
Packet == [from : Node, to : Node, counter : Nat, type : Kind, info : Seq(Nat)]
Phase == {"registering", "sending", "waiting", "complete",
          "idle", "response", "info", "finished"}

Types ==
    /\ wire \in [Node -> Seq(Packet)]
    /\ unAcked \in [Node -> SUBSET Packet]
    /\ sent \in [Node -> [Node -> Nat]]
    /\ known \in [Node -> SUBSET Node]
    /\ received \in [Node -> SUBSET Packet]
    /\ phase \in [Node -> Phase]
    /\ registered \in Seq(Member)
    /\ toSend \in Seq([to : Member, info : Seq(Nat)])
    /\ expected \in [Member -> Nat]
    /\ group \in [Member -> Seq(Member)]
    /\ losses \in 0..MaxLosses
    /\ early \in 0..MaxEarly

Full == Len(registered) = N

\* What is true of a message from when it is sent, and of an acknowledgement.
Good(p) ==
    /\ p.from # p.to
    /\ p.type = "ACK" => p.counter < sent[p.to][p.from]
    /\ p.type # "ACK" => p.counter < sent[p.from][p.to]
    /\ p.from = Server => p.type \in {"ACK", "REGNETTHREADRESPONSE", "GROUPINFO"}
    /\ p.type = "REGNETTHREAD" => phase[p.from] # "idle"
    /\ p.type = "REGNETTHREADRESPONSE" =>
          p.from = Server /\ p.info = <<1>> /\ phase[p.to] # "idle"
    /\ p.type = "GROUPINFO" =>
          p.from = Server /\ p.counter > 0 /\ p.info = registered /\ Full

GoodWire == \A n \in Node : \A p \in ToSet(wire[n]) : p.to = n /\ Good(p)

GoodLists == \A n \in Node : \A msg \in unAcked[n] :
                msg.from = n /\ msg.type # "ACK" /\ Good(msg)

Recorded == \A n \in Node :
    /\ n \notin known[n]
    /\ \A p \in received[n] : p.to = n /\ p.from \in known[n]

\* The counter of a message of the server that is not acknowledged says which
\* message it is.
OneCounter == \A msg \in unAcked[Server] :
    /\ \A q \in unAcked[Server] : q.to = msg.to /\ q.counter = msg.counter => q = msg
    /\ \A p \in ToSet(wire[msg.to]) :
          p.from = Server /\ p.type # "ACK" /\ p.counter = msg.counter => p = msg

\* Only a member that has finished acknowledges a GROUPINFO.
AckMeansFinished ==
    \A p \in ToSet(wire[Server]) : \A msg \in unAcked[Server] :
        msg.type = "GROUPINFO" /\ p = AckOf(msg) => phase[msg.to] = "finished"

ServerSound ==
    /\ phase[Server] \in {"registering", "sending", "waiting", "complete"}
    /\ IsInjective(registered)
    /\ Len(registered) <= N
    /\ phase[Server] = "registering" <=> ~Full
    /\ \A m \in Range(registered) : phase[m] # "idle" /\ sent[Server][m] > 0
    /\ phase[Server] = "sending" <=> toSend # <<>>
    /\ \A e \in Range(toSend) : e.info = registered
    /\ phase[Server] = "complete" => \A m \in Member : phase[m] = "finished"

\* Once all have registered, each member has what it needs, or is sent it until
\* it acknowledges it, or is still to be sent it.
Owed == Full => \A m \in Member :
    \/ phase[m] = "finished"
    \/ \E msg \in unAcked[Server] : msg.to = m /\ msg.type = "GROUPINFO"
    \/ \E e \in Range(toSend) : e.to = m

MemberSound(m) ==
    /\ phase[m] \in {"idle", "response", "info", "finished"}
    /\ phase[m] \in {"idle", "response"} =>
          group[m] = <<>> /\ expected[m] = 0 /\ Server \notin known[m]
    /\ phase[m] = "info" => group[m] = <<>> /\ expected[m] = 1
    /\ phase[m] = "finished" => group[m] = registered /\ Full /\ expected[m] = 0

MembersSound == \A m \in Member : MemberSound(m)

IInv ==
    /\ Types
    /\ GoodWire
    /\ GoodLists
    /\ Recorded
    /\ OneCounter
    /\ AckMeansFinished
    /\ ServerSound
    /\ Owed
    /\ MembersSound

-----------------------------------------------------------------------------
(* The operators of the model *)

LEMMA Nodes ==
    /\ Server \in Node /\ Server \notin Member
    /\ Member \subseteq Node /\ Member \subseteq Nat
    /\ \A n \in Node : n \in Member <=> n # Server
    /\ N \in Nat \ {0} /\ ThreadsPerMessage \in Nat \ {0}
    /\ MaxLosses \in Nat /\ MaxEarly \in Nat
    /\ Member = 1..N
BY RegistrationAssumption DEF Server, Member, Node

\* The sets that SequencesExt and Functions call ToSet and Range are the same.
LEMMA ToSetRange == \A q : ToSet(q) = Range(q)
BY DEF ToSet, Range

\* When as many threads have registered as there are, all have.
LEMMA AllRegistered ==
    ASSUME NEW q \in Seq(Member), IsInjective(q), Len(q) = N
    PROVE  Range(q) = Member /\ \A m \in Member : \E i \in 1..N : q[i] = m
<1>1. DOMAIN q = 1..N /\ q \in [1..N -> Member]
  BY LenProperties
<1>2. q \in Injection(1..N, Member)
  BY <1>1 DEF Injection, IsInjective
<1>3. IsFiniteSet(Member) /\ Cardinality(Member) = Cardinality(1..N)
  BY Nodes, FS_Interval
<1>4. q \in Surjection(1..N, Member)
  BY <1>2, <1>3, FS_Injection
<1> QED
  BY <1>1, <1>4 DEF Surjection, Range

LEMMA FullGroup ==
    ASSUME Types, ServerSound, Full
    PROVE  Range(registered) = Member
BY AllRegistered DEF Types, ServerSound, Full

\* What is left of a queue when its first element is taken.
LEMMA RestOfQueue ==
    ASSUME NEW S, NEW q \in Seq(S), q # <<>>, NEW e \in Range(q), e # Head(q)
    PROVE  e \in Range(Tail(q))
<1>1. /\ Tail(q) \in Seq(S)
      /\ Len(Tail(q)) = Len(q) - 1
      /\ \A i \in 1..Len(Tail(q)) : Tail(q)[i] = q[i + 1]
  BY HeadTailProperties
<1>2. Len(q) \in Nat /\ Head(q) = q[1]
  BY LenProperties, EmptySeq
<1>3. PICK i \in 1..Len(q) : q[i] = e
  BY RangeEquality
<1>4. i - 1 \in 1..Len(Tail(q)) /\ (i - 1) + 1 = i
  BY <1>1, <1>2, <1>3
<1>5. Tail(q)[i - 1] = e
  BY <1>1, <1>3, <1>4
<1> QED
  BY <1>1, <1>4, <1>5, RangeEquality

\* One GROUPINFO is enough.
LEMMA OneMessage ==
    ASSUME N <= ThreadsPerMessage
    PROVE  NumMessages = 1
BY Nodes DEF NumMessages

LEMMA Quotient == ASSUME NEW a \in Nat, NEW n \in Nat \ {0}, a < n
                  PROVE  a \div n = 0 /\ a % n = a
OBVIOUS

\* It goes to every thread and names them all.
LEMMA GroupInfoIs ==
    ASSUME N <= ThreadsPerMessage, NEW threads \in Seq(Member), Len(threads) = N
    PROVE  /\ GroupInfo(threads) \in Seq([to : Member, info : Seq(Nat)])
           /\ GroupInfo(threads) # <<>>
           /\ \A e \in Range(GroupInfo(threads)) : e.info = threads
           /\ \A i \in 1..N : \E e \in Range(GroupInfo(threads)) : e.to = threads[i]
<1> DEFINE entry(i) ==
        LET chunk == (i - 1) \div N IN
        [to |-> threads[((i - 1) % N) + 1],
         info |-> SubSeq(threads, chunk * ThreadsPerMessage + 1,
                         Min({(chunk + 1) * ThreadsPerMessage, N}))]
<1>1. GroupInfo(threads) = [i \in 1..N |-> entry(i)]
  BY OneMessage, Nodes DEF GroupInfo
<1>2. \A i \in 1..N : threads[i] \in Member
  BY ElementOfSeq
<1>3. Min({(0 + 1) * ThreadsPerMessage, N}) = N
  <2>1. (0 + 1) * ThreadsPerMessage = ThreadsPerMessage
    BY Nodes
  <2>2. Min({ThreadsPerMessage, N}) \in {ThreadsPerMessage, N}
    BY Nodes, MinOfNat
  <2> QED
    BY <2>1, <2>2, Nodes DEF Min
<1>4. SubSeq(threads, 1, N) = threads
  <2>1. /\ SubSeq(threads, 1, N) \in Seq(Member)
        /\ Len(SubSeq(threads, 1, N)) = N
        /\ \A i \in 1..N : SubSeq(threads, 1, N)[i] = threads[i]
    BY <1>2, Nodes, SubSeqProperties
  <2> QED
    BY <2>1, SeqEqual
<1>5. ASSUME NEW i \in 1..N
      PROVE  entry(i) = [to |-> threads[i], info |-> threads]
  <2>1. i - 1 \in Nat /\ i - 1 < N /\ (i - 1) + 1 = i
    BY Nodes
  <2>2. (i - 1) \div N = 0 /\ (i - 1) % N = i - 1
    BY <2>1, Nodes, Quotient
  <2>3. 0 * ThreadsPerMessage + 1 = 1
    BY Nodes
  <2> QED
    BY <1>3, <1>4, <2>1, <2>2, <2>3
<1>6. threads \in Seq(Nat)
  BY Nodes
<1> HIDE DEF entry
<1>7. /\ GroupInfo(threads) = [i \in 1..N |-> [to |-> threads[i], info |-> threads]]
      /\ DOMAIN GroupInfo(threads) = 1..N
  BY <1>1, <1>5
<1>8. GroupInfo(threads) \in Seq([to : Member, info : Seq(Nat)])
  BY <1>2, <1>6, <1>7, Nodes, IsASeq
<1>9. 1 \in 1..N
  BY Nodes
<1>10. GroupInfo(threads) # <<>>
  <2>1. DOMAIN <<>> = {}
    OBVIOUS
  <2> QED
    BY <1>7, <1>9, <2>1
<1>11. \A e \in Range(GroupInfo(threads)) : e.info = threads
  BY <1>7 DEF Range
<1>12. \A i \in 1..N : \E e \in Range(GroupInfo(threads)) : e.to = threads[i]
  BY <1>7 DEF Range
<1> QED
  BY <1>8, <1>10, <1>11, <1>12

\* Network::Send puts at most this packet on the wire, at its destination.
LEMMA SendOneWire ==
    ASSUME NEW w \in [Node -> Seq(Packet)], NEW n \in 0..MaxLosses, NEW p \in Packet,
           SendOne(w, n, p)
    PROVE  /\ wire' \in [Node -> Seq(Packet)]
           /\ losses' \in 0..MaxLosses
           /\ \A k \in Node : \A q \in ToSet(wire'[k]) :
                 q \in ToSet(w[k]) \/ (q = p /\ k = p.to)
<1> DEFINE new == Append(w[p.to], p)
<1>1. p.to \in Node /\ w[p.to] \in Seq(Packet)
  BY DEF Packet
<1>2. new \in Seq(Packet) /\ Range(new) = Range(w[p.to]) \cup {p}
  BY <1>1, AppendQueue
<1>3. Put(w, p) = [w EXCEPT ![p.to] = new]
  BY DEF Put
<1> HIDE DEF new
<1>4. CASE wire' = Put(w, p) /\ losses' = n
  <2>1. wire' \in [Node -> Seq(Packet)]
    BY <1>1, <1>2, <1>3, <1>4
  <2>2. \A k \in Node : wire'[k] = IF k = p.to THEN new ELSE w[k]
    BY <1>3, <1>4
  <2> QED
    BY <1>2, <1>4, <2>1, <2>2, ToSetRange
<1>5. CASE wire' = w /\ n < MaxLosses /\ losses' = n + 1
  <2>1. losses' \in 0..MaxLosses
    BY <1>5, Nodes
  <2> QED
    BY <1>5, <2>1
<1> QED
  BY <1>4, <1>5 DEF SendOne

\* PostOffice::Receive takes the first packet.
LEMMA TakenWire ==
    ASSUME Types, NEW n \in Node, wire[n] # <<>>
    PROVE  /\ Taken(n) \in [Node -> Seq(Packet)]
           /\ \A k \in Node : ToSet(Taken(n)[k]) \subseteq ToSet(wire[k])
           /\ Head(wire[n]) \in ToSet(wire[n])
<1>1. wire \in [Node -> Seq(Packet)]
  BY DEF Types
<1>2. /\ Tail(wire[n]) \in Seq(Packet)
      /\ Head(wire[n]) \in Range(wire[n])
      /\ Range(Tail(wire[n])) \subseteq Range(wire[n])
  BY <1>1, TailQueue
<1> QED
  BY <1>1, <1>2, ToSetRange DEF Taken

\* What a step may add to the wire: packets of S, each at its destination.
Arrivals(S) ==
    /\ wire' \in [Node -> Seq(Packet)]
    /\ losses' \in 0..MaxLosses
    /\ \A k \in Node : \A q \in ToSet(wire'[k]) :
          q \in ToSet(wire[k]) \/ (q \in S /\ q.to = k)

LEMMA TransmitArrives ==
    ASSUME Types, NEW p \in Packet,
           \/ Transmit(wire, p)
           \/ \E n \in Node : wire[n] # <<>> /\ Transmit(Taken(n), p)
    PROVE  Arrivals({p})
<1>1. wire \in [Node -> Seq(Packet)] /\ losses \in 0..MaxLosses
  BY DEF Types
<1>2. CASE Transmit(wire, p)
  <2>1. SendOne(wire, losses, p)
    BY <1>2 DEF Transmit
  <2>2. /\ wire' \in [Node -> Seq(Packet)]
        /\ losses' \in 0..MaxLosses
        /\ \A k \in Node : \A q \in ToSet(wire'[k]) :
              q \in ToSet(wire[k]) \/ (q = p /\ k = p.to)
    BY <1>1, <2>1, SendOneWire
  <2> QED
    BY <2>2 DEF Arrivals
<1>3. ASSUME NEW n \in Node, wire[n] # <<>>, Transmit(Taken(n), p)
      PROVE  Arrivals({p})
  <2> DEFINE w == Taken(n)
  <2>1. /\ w \in [Node -> Seq(Packet)]
        /\ \A k \in Node : ToSet(w[k]) \subseteq ToSet(wire[k])
    BY <1>3, TakenWire
  <2> HIDE DEF w
  <2>2. SendOne(w, losses, p)
    BY <1>3 DEF Transmit, w
  <2>3. /\ wire' \in [Node -> Seq(Packet)]
        /\ losses' \in 0..MaxLosses
        /\ \A k \in Node : \A q \in ToSet(wire'[k]) :
              q \in ToSet(w[k]) \/ (q = p /\ k = p.to)
    BY <1>1, <2>1, <2>2, SendOneWire
  <2> QED
    BY <2>1, <2>3 DEF Arrivals
<1> QED
  BY <1>2, <1>3

LEMMA TransmitBothArrives ==
    ASSUME Types, NEW n \in Node, wire[n] # <<>>, NEW p \in Packet, NEW q \in Packet,
           TransmitBoth(Taken(n), p, q)
    PROVE  Arrivals({p, q})
<1> DEFINE w == Taken(n)
           new == Append(w[p.to], p)
<1>1. losses \in 0..MaxLosses
  BY DEF Types
<1>2. /\ w \in [Node -> Seq(Packet)]
      /\ \A k \in Node : ToSet(w[k]) \subseteq ToSet(wire[k])
  BY TakenWire
<1> HIDE DEF w
<1>3. SendOne(Put(w, p), losses, q) \/ (losses < MaxLosses /\ SendOne(w, losses + 1, q))
  BY DEF TransmitBoth, w
<1>4. p.to \in Node /\ w[p.to] \in Seq(Packet)
  BY <1>2 DEF Packet
<1>5. new \in Seq(Packet) /\ Range(new) = Range(w[p.to]) \cup {p}
  BY <1>4, AppendQueue
<1>6. Put(w, p) = [w EXCEPT ![p.to] = new]
  BY DEF Put
<1> HIDE DEF new
<1>7. /\ Put(w, p) \in [Node -> Seq(Packet)]
      /\ \A k \in Node : \A r \in ToSet(Put(w, p)[k]) :
            r \in ToSet(w[k]) \/ (r = p /\ k = p.to)
  <2>1. \A k \in Node : Put(w, p)[k] = IF k = p.to THEN new ELSE w[k]
    BY <1>2, <1>4, <1>6
  <2>2. Put(w, p) \in [Node -> Seq(Packet)]
    BY <1>2, <1>4, <1>5, <1>6
  <2> QED
    BY <1>5, <2>1, <2>2, ToSetRange
<1>8. CASE SendOne(Put(w, p), losses, q)
  <2> DEFINE v == Put(w, p)
  <2>1. v \in [Node -> Seq(Packet)] /\ SendOne(v, losses, q)
    BY <1>7, <1>8
  <2> HIDE DEF v
  <2>2. /\ wire' \in [Node -> Seq(Packet)]
        /\ losses' \in 0..MaxLosses
        /\ \A k \in Node : \A r \in ToSet(wire'[k]) :
              r \in ToSet(v[k]) \/ (r = q /\ k = q.to)
    BY <1>1, <2>1, SendOneWire
  <2>3. \A k \in Node : \A r \in ToSet(v[k]) :
              r \in ToSet(wire[k]) \/ (r = p /\ k = p.to)
    BY <1>2, <1>7 DEF v
  <2> QED
    BY <2>2, <2>3 DEF Arrivals
<1>9. CASE losses < MaxLosses /\ SendOne(w, losses + 1, q)
  <2>1. losses + 1 \in 0..MaxLosses
    BY <1>1, <1>9, Nodes
  <2>2. /\ wire' \in [Node -> Seq(Packet)]
        /\ losses' \in 0..MaxLosses
        /\ \A k \in Node : \A r \in ToSet(wire'[k]) :
              r \in ToSet(w[k]) \/ (r = q /\ k = q.to)
    BY <1>2, <1>9, <2>1, SendOneWire
  <2> QED
    BY <1>2, <2>2 DEF Arrivals
<1> QED
  BY <1>3, <1>8, <1>9

-----------------------------------------------------------------------------
(* What stays true of the packets *)

\* Counters grow, a registration does not go back, and the list of the server
\* is not changed once it is full.
Onward ==
    /\ \A a, b \in Node : sent'[a][b] >= sent[a][b]
    /\ \A n \in Node : phase[n] # "idle" => phase'[n] # "idle"
    /\ \A m \in Member : phase[m] = "finished" => phase'[m] = "finished"
    /\ registered' = registered \/ ~Full

LEMMA GoodStays ==
    ASSUME Types, Types', Onward, NEW p \in Packet, Good(p)
    PROVE  Good(p)'
<1>1. p.from \in Node /\ p.to \in Node /\ p.counter \in Nat
  BY DEF Packet
<1>2. /\ sent[p.from][p.to] \in Nat /\ sent'[p.from][p.to] \in Nat
      /\ sent[p.to][p.from] \in Nat /\ sent'[p.to][p.from] \in Nat
  BY <1>1 DEF Types
<1>3. /\ sent'[p.from][p.to] >= sent[p.from][p.to]
      /\ sent'[p.to][p.from] >= sent[p.to][p.from]
      /\ phase[p.from] # "idle" => phase'[p.from] # "idle"
      /\ phase[p.to] # "idle" => phase'[p.to] # "idle"
      /\ Full => registered' = registered
  BY <1>1 DEF Onward
<1>4. /\ p.type = "ACK" => p.counter < sent'[p.to][p.from]
      /\ p.type # "ACK" => p.counter < sent'[p.from][p.to]
  BY <1>1, <1>2, <1>3 DEF Good
<1>5. p.type = "GROUPINFO" => p.info = registered' /\ Full'
  BY <1>3 DEF Good, Full
<1> QED
  BY <1>3, <1>4, <1>5 DEF Good

\* A step puts packets of S on the wire and messages of F, at most one, on a
\* list; a message of the server on the wire is on its list, and a GROUPINFO is
\* acknowledged by a member that has finished.
Posts(S, F) ==
    /\ S \subseteq Packet /\ F \subseteq Packet
    /\ Arrivals(S)
    /\ \A q \in S \cup F : Good(q)'
    /\ \A n \in Node : \A msg \in unAcked'[n] :
          msg \in unAcked[n] \/ (msg \in F /\ msg.from = n /\ msg.type # "ACK")
    /\ \A msg, q \in F : msg = q
    /\ \A msg \in F : msg.counter = sent[msg.from][msg.to]
    /\ \A q \in S : q.from = Server /\ q.type # "ACK" => q \in unAcked'[Server]
    /\ \A q \in S : \A msg \in unAcked'[Server] :
          q.type = "ACK" /\ msg.type = "GROUPINFO" /\ q = AckOf(msg)
             => phase'[msg.to] = "finished"

PacketsSound == GoodWire /\ GoodLists /\ OneCounter /\ AckMeansFinished

LEMMA InTransit ==
    ASSUME IInv, NEW n \in Node, NEW p \in ToSet(wire[n])
    PROVE  p \in Packet /\ p.to = n /\ Good(p)
<1>1. wire[n] \in Seq(Packet)
  BY DEF IInv, Types
<1>2. p \in Packet
  BY <1>1, ElementOfSeq, RangeEquality, ToSetRange DEF Range
<1> QED
  BY <1>2 DEF IInv, GoodWire

LEMMA OnList ==
    ASSUME IInv, NEW n \in Node, NEW msg \in unAcked[n]
    PROVE  msg \in Packet /\ msg.from = n /\ msg.type # "ACK" /\ Good(msg)
BY DEF IInv, Types, GoodLists

LEMMA PostsGood ==
    ASSUME IInv, Types', Onward, NEW S, NEW F, Posts(S, F)
    PROVE  GoodWire' /\ GoodLists'
<1>1. ASSUME NEW n \in Node, NEW p \in ToSet(wire'[n])
      PROVE  p.to = n /\ Good(p)'
  <2>1. CASE p \in ToSet(wire[n])
    <3>1. p \in Packet /\ p.to = n /\ Good(p)
      BY <2>1, InTransit
    <3> QED
      BY <3>1, GoodStays DEF IInv
  <2>2. CASE p \in S /\ p.to = n
    BY <2>2 DEF Posts
  <2> QED
    BY <1>1, <2>1, <2>2 DEF Posts, Arrivals
<1>2. ASSUME NEW n \in Node, NEW msg \in unAcked'[n]
      PROVE  msg.from = n /\ msg.type # "ACK" /\ Good(msg)'
  <2>1. CASE msg \in unAcked[n]
    <3>1. msg \in Packet /\ msg.from = n /\ msg.type # "ACK" /\ Good(msg)
      BY <2>1, OnList
    <3> QED
      BY <3>1, GoodStays DEF IInv
  <2>2. CASE msg \in F /\ msg.from = n /\ msg.type # "ACK"
    BY <2>2 DEF Posts
  <2> QED
    BY <1>2, <2>1, <2>2 DEF Posts
<1> QED
  BY <1>1, <1>2 DEF GoodWire, GoodLists

LEMMA PostsCounted ==
    ASSUME IInv, NEW S, NEW F, Posts(S, F)
    PROVE  OneCounter'
<1> SUFFICES ASSUME NEW msg \in unAcked'[Server]
             PROVE  /\ \A q \in unAcked'[Server] :
                          q.to = msg.to /\ q.counter = msg.counter => q = msg
                    /\ \A p \in ToSet(wire'[msg.to]) :
                          p.from = Server /\ p.type # "ACK" /\ p.counter = msg.counter => p = msg
  BY DEF OneCounter
<1>1. \A q \in unAcked'[Server] :
         q \in unAcked[Server] \/ (q \in F /\ q.from = Server)
  BY Nodes DEF Posts
<1>2. ASSUME NEW q \in unAcked[Server]
      PROVE  q \in Packet /\ q.from = Server /\ q.counter < sent[Server][q.to]
  BY <1>2, Nodes, OnList DEF Good
<1>3. ASSUME NEW q \in unAcked'[Server], q.from = Server, q \in F
      PROVE  q \in Packet /\ q.counter = sent[Server][q.to]
  BY <1>3 DEF Posts
<1>4. \A q, r \in F : q = r
  BY DEF Posts
<1>5. \A q \in Packet : q.to \in Node /\ q.counter \in Nat /\ sent[Server][q.to] \in Nat
  <2>1. \A q \in Packet : q.to \in Node /\ q.counter \in Nat
    BY DEF Packet
  <2>2. \A n \in Node : sent[Server][n] \in Nat
    BY Nodes DEF IInv, Types
  <2> QED
    BY <2>1, <2>2
<1>6. \A q \in unAcked'[Server] :
         q.to = msg.to /\ q.counter = msg.counter => q = msg
  BY <1>1, <1>2, <1>3, <1>4, <1>5 DEF IInv, OneCounter
<1>7. ASSUME NEW p \in ToSet(wire'[msg.to]),
             p.from = Server, p.type # "ACK", p.counter = msg.counter
      PROVE  p = msg
  <2>1. msg.to \in Node
    BY <1>1, <1>2, <1>3, <1>5
  <2>2. CASE p \in ToSet(wire[msg.to])
    <3>1. p \in Packet /\ p.to = msg.to /\ p.counter < sent[Server][p.to]
      BY <1>7, <2>1, <2>2, InTransit DEF Good
    <3>2. msg \in unAcked[Server]
      BY <1>1, <1>3, <1>5, <1>7, <3>1
    <3> QED
      BY <1>7, <2>2, <3>2 DEF IInv, OneCounter
  <2>3. CASE p \in S /\ p.to = msg.to
    <3>1. p \in unAcked'[Server]
      BY <1>7, <2>3 DEF Posts
    <3> QED
      BY <1>6, <1>7, <2>3, <3>1
  <2> QED
    BY <1>7, <2>1, <2>2, <2>3 DEF Posts, Arrivals
<1> QED
  BY <1>6, <1>7

LEMMA PostsAcked ==
    ASSUME IInv, Onward, NEW S, NEW F, Posts(S, F)
    PROVE  AckMeansFinished'
<1> SUFFICES ASSUME NEW p \in ToSet(wire'[Server]), NEW msg \in unAcked'[Server],
                    msg.type = "GROUPINFO", p = AckOf(msg)
             PROVE  phase'[msg.to] = "finished"
  BY DEF AckMeansFinished
<1>1. p.type = "ACK" /\ p.from = msg.to /\ p.counter = msg.counter
  BY DEF AckOf
<1>2. CASE p \in S
  BY <1>1, <1>2 DEF Posts
<1>3. CASE p \in ToSet(wire[Server])
  <2>1. p \in Packet /\ p.counter < sent[Server][p.from]
    <3>1. p \in Packet /\ p.to = Server /\ Good(p)
      BY <1>3, InTransit, Nodes
    <3> QED
      BY <1>1, <3>1 DEF Good
  <2>2. p.counter \in Nat /\ sent[Server][p.from] \in Nat
    <3>1. p.from \in Node /\ p.counter \in Nat
      BY <2>1 DEF Packet
    <3>2. sent \in [Node -> [Node -> Nat]]
      BY DEF IInv, Types
    <3> QED
      BY <3>1, <3>2, Nodes
  <2>3. msg \in unAcked[Server]
    BY <1>1, <2>1, <2>2, Nodes DEF Posts
  <2>4. phase[msg.to] = "finished"
    BY <1>3, <2>3 DEF IInv, AckMeansFinished
  <2>5. msg.to \in Member
    <3>1. msg \in Packet /\ msg.from = Server /\ msg.from # msg.to
      BY <2>3, OnList, Nodes DEF Good
    <3> QED
      BY <3>1, Nodes DEF Packet
  <2> QED
    BY <2>4, <2>5 DEF Onward
<1> QED
  BY <1>2, <1>3, Nodes DEF Posts, Arrivals

LEMMA PostsSound ==
    ASSUME IInv, Types', Onward, NEW S, NEW F, Posts(S, F)
    PROVE  PacketsSound'
BY PostsGood, PostsCounted, PostsAcked DEF PacketsSound

-----------------------------------------------------------------------------
(* What stays true of the threads that a step does not concern *)

LEMMA MemberFrame ==
    ASSUME IInv, Onward, NEW m \in Member,
           phase'[m] = phase[m], group'[m] = group[m], expected'[m] = expected[m],
           Server \in known'[m] => Server \in known[m]
    PROVE  MemberSound(m)'
<1>1. MemberSound(m)
  BY DEF IInv, MembersSound
<1>2. Full => registered' = registered
  BY DEF Onward
<1> QED
  BY <1>1, <1>2 DEF MemberSound, Full

LEMMA RangeOfRegistered ==
    ASSUME IInv
    PROVE  Range(registered) \subseteq Member
<1>1. registered \in Seq(Member)
  BY DEF IInv, Types
<1>2. Range(registered) = {registered[i] : i \in 1..Len(registered)}
  BY <1>1, RangeEquality
<1>3. \A i \in 1..Len(registered) : registered[i] \in Member
  BY <1>1, ElementOfSeq
<1> QED
  BY <1>2, <1>3

LEMMA ServerFrame ==
    ASSUME IInv, Types', Onward,
           registered' = registered, toSend' = toSend, phase'[Server] = phase[Server]
    PROVE  ServerSound'
<1>1. \A m \in Range(registered) : m \in Member
  BY RangeOfRegistered
<1>2. ASSUME NEW m \in Range(registered)
      PROVE  phase'[m] # "idle" /\ sent'[Server][m] > 0
  <2>1. m \in Node /\ phase[m] # "idle" /\ sent[Server][m] > 0
    BY <1>1, Nodes DEF IInv, ServerSound
  <2>2. sent[Server][m] \in Nat /\ sent'[Server][m] \in Nat
    BY <2>1, Nodes DEF IInv, Types
  <2>3. sent'[Server][m] >= sent[Server][m] /\ phase'[m] # "idle"
    BY <2>1, Nodes DEF Onward
  <2> QED
    BY <2>1, <2>2, <2>3
<1>3. phase'[Server] = "complete" => \A m \in Member : phase'[m] = "finished"
  BY DEF IInv, ServerSound, Onward
<1> QED
  BY <1>2, <1>3 DEF IInv, ServerSound, Full

LEMMA OwedFrame ==
    ASSUME IInv, Onward, registered' = registered, toSend' = toSend,
           \A msg \in unAcked[Server] : msg.type = "GROUPINFO" => msg \in unAcked'[Server]
    PROVE  Owed'
BY DEF IInv, Owed, Full, Onward

LEMMA RecordedFrame ==
    ASSUME IInv, UNCHANGED <<known, received>>
    PROVE  Recorded'
BY DEF IInv, Recorded

-----------------------------------------------------------------------------
(* A message that is accepted *)

LEMMA Accepting ==
    ASSUME IInv, NEW n \in Node, NEW p \in ToSet(wire[n]), Accept(n, p)
    PROVE  /\ wire[n] # <<>> /\ phase[n] # "sending"
           /\ p \in Packet /\ p.to = n /\ p.from \in Node /\ p.from # n
           /\ p.type # "ACK" /\ Good(p)
           /\ p.from = Server => p.type \in {"REGNETTHREADRESPONSE", "GROUPINFO"}
           /\ AckOf(p) \in Packet
           /\ known' \in [Node -> SUBSET Node] /\ received' \in [Node -> SUBSET Packet]
           /\ \A k \in Node : known'[k] = IF k = n THEN known[n] \cup {p.from} ELSE known[k]
           /\ early' \in 0..MaxEarly
           /\ Recorded'
<1>1. p \in Packet /\ p.to = n /\ Good(p)
  BY InTransit
<1>2. p.from \in Node /\ p.counter \in Nat
  BY <1>1 DEF Packet
<1>3. /\ wire[n] # <<>> /\ phase[n] # "sending" /\ p.type # "ACK"
      /\ known' = [known EXCEPT ![n] = @ \cup {p.from}]
      /\ received' = [received EXCEPT ![n] = @ \cup {p}]
      /\ early' = early
  BY DEF Accept, Incoming
<1>4. p.from # n /\ (p.from = Server => p.type \in {"REGNETTHREADRESPONSE", "GROUPINFO"})
  BY <1>1, <1>3 DEF Good
<1>5. AckOf(p) \in Packet
  <2>1. <<>> \in Seq(Nat)
    BY EmptyQueue
  <2>2. p.to \in Node
    BY <1>1
  <2>3. AckOf(p) = [from |-> p.to, to |-> p.from, counter |-> p.counter, type |-> "ACK",
                    info |-> <<>>]
    BY DEF AckOf
  <2> QED
    BY <1>2, <2>1, <2>2, <2>3 DEF Packet, Kind
<1>6. /\ known' \in [Node -> SUBSET Node] /\ received' \in [Node -> SUBSET Packet]
      /\ \A k \in Node : known'[k] = IF k = n THEN known[n] \cup {p.from} ELSE known[k]
      /\ \A k \in Node : received'[k] = IF k = n THEN received[n] \cup {p} ELSE received[k]
  BY <1>1, <1>2, <1>3 DEF IInv, Types
<1>7. Recorded'
  BY <1>1, <1>4, <1>6 DEF IInv, Recorded
<1> QED
  BY <1>1, <1>2, <1>3, <1>4, <1>5, <1>6, <1>7 DEF IInv, Types

\* A GROUPINFO is accepted by a member that waits for it or has it.
LEMMA GroupInfoAccepted ==
    ASSUME IInv, NEW n \in Node, NEW p \in ToSet(wire[n]), Accept(n, p), p.type = "GROUPINFO"
    PROVE  n \in Member /\ phase[n] \in {"info", "finished"}
<1>1. p.to = n /\ p.from = Server /\ n \in Member /\ p.counter > 0 /\ p.counter \in Nat /\ Full
  <2>1. p \in Packet /\ p.to = n /\ p.from # n /\ Good(p)
    BY Accepting
  <2> QED
    BY <2>1, Nodes DEF Good, Packet
<1>2. phase[n] # "idle"
  BY <1>1, FullGroup DEF IInv, ServerSound
<1>3. phase[n] # "response"
  <2> SUFFICES ASSUME phase[n] = "response" PROVE FALSE
    OBVIOUS
  <2>1. Server \notin known[n]
    BY <1>1 DEF IInv, MembersSound, MemberSound
  <2>2. Returns(n, p)
    BY DEF Accept
  <2> QED
    BY <1>1, <2>1, <2>2 DEF Returns
<1> QED
  BY <1>1, <1>2, <1>3 DEF IInv, MembersSound, MemberSound

\* A member that has not heard of the server accepts from it only the answer
\* it waits for.
LEMMA FirstFromServer ==
    ASSUME IInv, NEW n \in Member, NEW p \in ToSet(wire[n]), Accept(n, p), p.from = Server,
           phase[n] \in {"idle", "response"}
    PROVE  p.type = "REGNETTHREADRESPONSE" /\ phase[n] = "response"
<1>1. n \in Node
  BY Nodes
<1>2. p.type \in {"REGNETTHREADRESPONSE", "GROUPINFO"} /\ Good(p) /\ p.to = n
  BY <1>1, Accepting
<1>3. p.type # "GROUPINFO"
  BY <1>1, GroupInfoAccepted
<1> QED
  BY <1>2, <1>3 DEF Good

\* The acknowledgement of what is accepted does no harm.
LEMMA AcceptPosts ==
    ASSUME IInv, Types', Onward, NEW n \in Node, NEW p \in ToSet(wire[n]), Accept(n, p),
           unAcked' = unAcked, Transmit(Taken(n), AckOf(p)),
           p.type = "GROUPINFO" => phase'[n] = "finished"
    PROVE  PacketsSound' /\ losses' \in 0..MaxLosses
<1> DEFINE ack == AckOf(p)
<1>1. /\ wire[n] # <<>> /\ p \in Packet /\ p.to = n /\ p.from \in Node /\ p.from # n
      /\ p.type # "ACK" /\ Good(p) /\ ack \in Packet
  BY Accepting
<1>2. ack.from = n /\ ack.to = p.from /\ ack.counter = p.counter /\ ack.type = "ACK"
  BY <1>1 DEF AckOf
<1>3. Good(ack)
  BY <1>1, <1>2 DEF Good
<1>4. ASSUME NEW msg \in unAcked[Server], msg.type = "GROUPINFO", ack = AckOf(msg)
      PROVE  phase'[msg.to] = "finished"
  <2>1. msg.to = n /\ msg.counter = p.counter /\ msg.from = p.from
    BY <1>1, <1>2, <1>4 DEF AckOf
  <2>2. msg.from = Server
    BY <1>4, OnList, Nodes
  <2>3. p = msg
    BY <1>1, <1>4, <2>1, <2>2 DEF IInv, OneCounter
  <2> QED
    BY <1>4, <2>1, <2>3
<1> HIDE DEF ack
<1>5. Arrivals({ack})
  <2>1. Transmit(Taken(n), ack)
    BY DEF ack
  <2> QED
    BY <1>1, <2>1, TransmitArrives DEF IInv
<1>6. Good(ack)'
  BY <1>1, <1>3, GoodStays DEF IInv
<1>7. Posts({ack}, {})
  BY <1>1, <1>2, <1>4, <1>5, <1>6 DEF Posts
<1> QED
  BY <1>5, <1>7, PostsSound DEF Arrivals

-----------------------------------------------------------------------------
(* Initially *)

LEMMA InitIInv == Init => IInv
<1> SUFFICES ASSUME Init PROVE IInv
  OBVIOUS
<1> USE DEF Init
<1>1. \A S : <<>> \in Seq(S)
  BY EmptyQueue
<1>2. ToSet(<<>>) = {} /\ Range(<<>>) = {} /\ IsInjective(<<>>) /\ Len(<<>>) = 0
  BY EmptyQueue, ToSetRange, EmptySeq
<1>3. Types
  BY <1>1, Nodes DEF Types, Phase
<1>4. GoodWire /\ GoodLists /\ Recorded
  BY <1>2, Nodes DEF GoodWire, GoodLists, Recorded
<1>5. OneCounter /\ AckMeansFinished
  BY Nodes DEF OneCounter, AckMeansFinished
<1>6. ~Full /\ phase[Server] = "registering"
  BY <1>2, Nodes DEF Full
<1>7. ServerSound
  BY <1>2, <1>6, Nodes DEF ServerSound
<1>8. Owed
  BY <1>6 DEF Owed
<1>9. MembersSound
  <2>1. \A m \in Member : /\ phase[m] = "idle" /\ group[m] = <<>> /\ expected[m] = 0
                          /\ Server \notin known[m]
    BY Nodes
  <2> QED
    BY <2>1 DEF MembersSound, MemberSound
<1> QED
  BY <1>3, <1>4, <1>5, <1>7, <1>8, <1>9 DEF IInv

-----------------------------------------------------------------------------
(* One lemma per action *)

LEMMA DiscardStep ==
    ASSUME IInv, NEW n \in Node, Discard(n)
    PROVE  IInv'
<1>1. wire[n] # <<>> /\ wire' = Taken(n)
      /\ UNCHANGED <<unAcked, sent, known, received, phase, registered, toSend,
                     expected, group, processed, losses, early>>
  BY DEF Discard, Incoming
<1>2. /\ wire' \in [Node -> Seq(Packet)]
      /\ \A k \in Node : ToSet(wire'[k]) \subseteq ToSet(wire[k])
  BY <1>1, TakenWire DEF IInv
<1>3. Types'
  BY <1>1, <1>2 DEF IInv, Types
<1>4. Onward
  BY <1>1 DEF Onward, IInv, Types
<1>5. Posts({}, {})
  BY <1>1, <1>2, <1>3 DEF Posts, Arrivals, Types
<1>6. PacketsSound'
  BY <1>3, <1>4, <1>5, PostsSound
<1>7. Recorded' /\ ServerSound' /\ Owed'
  BY <1>1, <1>3, <1>4, RecordedFrame, ServerFrame, OwedFrame
<1>8. MembersSound'
  BY <1>1, <1>4, MemberFrame DEF MembersSound
<1> QED
  BY <1>3, <1>6, <1>7, <1>8 DEF IInv, PacketsSound

LEMMA ReceiveAckStep ==
    ASSUME IInv, NEW n \in Node, ReceiveAck(n)
    PROVE  IInv'
<1>1. PICK p \in ToSet(wire[n]) :
         /\ Incoming(n, p) /\ p.type = "ACK"
         /\ unAcked' = [unAcked EXCEPT ![n] = {msg \in @ : AckOf(msg) # p}]
  BY DEF ReceiveAck
<1>2. /\ phase' = IF phase[n] = "waiting" /\ unAcked'[n] = {}
                  THEN [phase EXCEPT ![n] = "complete"] ELSE phase
      /\ wire' = Taken(n)
      /\ UNCHANGED <<sent, known, received, registered, toSend, expected, group,
                     processed, losses, early>>
  BY DEF ReceiveAck
<1>3. wire[n] # <<>>
  BY <1>1 DEF Incoming
<1>4. /\ wire' \in [Node -> Seq(Packet)]
      /\ \A k \in Node : ToSet(wire'[k]) \subseteq ToSet(wire[k])
  BY <1>2, <1>3, TakenWire DEF IInv
<1>5. /\ unAcked' \in [Node -> SUBSET Packet]
      /\ \A k \in Node : unAcked'[k] =
            IF k = n THEN {msg \in unAcked[n] : AckOf(msg) # p} ELSE unAcked[k]
  BY <1>1 DEF IInv, Types
<1>6. \A m \in Member : phase[m] # "waiting"
  BY DEF IInv, MembersSound, MemberSound
<1>7. /\ phase' \in [Node -> Phase]
      /\ \A m \in Member : phase'[m] = phase[m]
      /\ phase'[Server] = phase[Server]
            \/ (n = Server /\ phase[Server] = "waiting" /\ unAcked'[Server] = {}
                  /\ phase'[Server] = "complete")
  <2>1. CASE phase[n] = "waiting" /\ unAcked'[n] = {}
    <3>1. n = Server
      BY <1>6, <2>1, Nodes
    <3> QED
      BY <1>2, <2>1, <3>1, Nodes DEF IInv, Types, Phase
  <2>2. CASE ~(phase[n] = "waiting" /\ unAcked'[n] = {})
    BY <1>2, <2>2 DEF IInv, Types
  <2> QED
    BY <2>1, <2>2
<1>8. Types'
  BY <1>2, <1>4, <1>5, <1>7 DEF IInv, Types
<1>9. Onward
  <2>1. \A k \in Node : phase[k] # "idle" => phase'[k] # "idle"
    BY <1>7, Nodes
  <2>2. \A a, b \in Node : sent'[a][b] >= sent[a][b]
    BY <1>2 DEF IInv, Types
  <2> QED
    BY <1>2, <1>7, <2>1, <2>2 DEF Onward
<1>10. Posts({}, {})
  BY <1>2, <1>4, <1>5, <1>8 DEF Posts, Arrivals, Types
<1>11. PacketsSound'
  BY <1>8, <1>9, <1>10, PostsSound
<1>12. Recorded'
  BY <1>2, RecordedFrame
<1>13. Owed'
  <2> SUFFICES ASSUME Full', NEW m \in Member, phase'[m] # "finished",
                      ~ \E e \in Range(toSend') : e.to = m
               PROVE  \E msg \in unAcked'[Server] : msg.to = m /\ msg.type = "GROUPINFO"
    BY DEF Owed
  <2>1. Full /\ phase[m] # "finished" /\ ~ \E e \in Range(toSend) : e.to = m
    BY <1>2, <1>7 DEF Full
  <2>2. PICK msg \in unAcked[Server] : msg.to = m /\ msg.type = "GROUPINFO"
    BY <2>1 DEF IInv, Owed
  <2>3. n = Server => AckOf(msg) # p
    BY <2>1, <2>2 DEF IInv, AckMeansFinished
  <2>4. msg \in unAcked'[Server]
    BY <1>5, <2>2, <2>3, Nodes
  <2> QED
    BY <2>2, <2>4
<1>14. ServerSound'
  <2>1. CASE phase'[Server] = phase[Server]
    BY <1>2, <1>8, <1>9, <2>1, ServerFrame
  <2>2. CASE phase[Server] = "waiting" /\ unAcked'[Server] = {} /\ phase'[Server] = "complete"
    <3>1. Full /\ toSend = <<>>
      BY <2>2 DEF IInv, ServerSound
    <3>2. Full' /\ toSend' = <<>> /\ Range(toSend') = {}
      BY <1>2, <3>1, EmptyQueue DEF Full
    <3>3. \A m \in Member : phase'[m] = "finished"
      BY <1>13, <2>2, <3>2 DEF Owed
    <3>4. \A m \in Range(registered) : phase'[m] # "idle"
      BY <1>7, RangeOfRegistered DEF IInv, ServerSound
    <3> QED
      BY <1>2, <2>2, <3>2, <3>3, <3>4 DEF IInv, ServerSound
  <2> QED
    BY <1>7, <2>1, <2>2
<1>15. MembersSound'
  BY <1>2, <1>7, <1>9, MemberFrame DEF MembersSound
<1> QED
  BY <1>8, <1>11, <1>12, <1>13, <1>14, <1>15 DEF IInv, PacketsSound

LEMMA SwallowStep ==
    ASSUME IInv, NEW n \in Node, Swallow(n)
    PROVE  IInv'
<1>1. PICK p \in ToSet(wire[n]) :
         /\ phase[n] # "finished" /\ p.type \notin Awaited(n)
         /\ Accept(n, p) /\ Transmit(Taken(n), AckOf(p))
         /\ UNCHANGED <<unAcked, sent, phase, registered, toSend, expected, group, processed>>
  BY DEF Swallow
<1>2. /\ wire[n] # <<>> /\ AckOf(p) \in Packet
      /\ known' \in [Node -> SUBSET Node] /\ received' \in [Node -> SUBSET Packet]
      /\ \A k \in Node : known'[k] = IF k = n THEN known[n] \cup {p.from} ELSE known[k]
      /\ early' \in 0..MaxEarly
      /\ Recorded'
  BY <1>1, Accepting
<1>3. Arrivals({AckOf(p)})
  BY <1>1, <1>2, TransmitArrives DEF IInv
<1>4. Types'
  BY <1>1, <1>2, <1>3 DEF IInv, Types, Arrivals
<1>5. Onward
  BY <1>1 DEF Onward, IInv, Types
<1>6. p.type # "GROUPINFO"
  <2>1. phase[n] = "info" => Awaited(n) = {"GROUPINFO"}
    BY DEF Awaited
  <2> QED
    BY <1>1, <2>1, GroupInfoAccepted
<1>7. PacketsSound'
  BY <1>1, <1>4, <1>5, <1>6, AcceptPosts
<1>8. ServerSound' /\ Owed'
  BY <1>1, <1>4, <1>5, ServerFrame, OwedFrame
<1>9. ASSUME NEW m \in Member
      PROVE  MemberSound(m)'
  <2>1. CASE Server \in known'[m] => Server \in known[m]
    BY <1>1, <1>5, <2>1, MemberFrame
  <2>2. CASE Server \in known'[m] /\ Server \notin known[m]
    <3>1. m = n /\ p.from = Server
      BY <1>2, <2>2, Nodes
    <3>2. phase[n] = "response" => Awaited(n) = {"REGNETTHREADRESPONSE"}
      BY DEF Awaited
    <3>3. phase[n] \notin {"idle", "response"}
      BY <1>1, <3>1, <3>2, FirstFromServer
    <3>4. MemberSound(m)
      BY DEF IInv, MembersSound
    <3> QED
      BY <1>1, <3>1, <3>3, <3>4 DEF MemberSound, Full
  <2> QED
    BY <2>1, <2>2
<1> QED
  BY <1>2, <1>4, <1>7, <1>8, <1>9 DEF IInv, PacketsSound, MembersSound

LEMMA ResendStep ==
    ASSUME IInv, NEW n \in Node, NEW msg \in unAcked[n], Resend(n, msg)
    PROVE  IInv'
<1>1. /\ early' \in {early, early + 1} /\ early' <= MaxEarly
      /\ Transmit(wire, msg)
      /\ UNCHANGED <<unAcked, sent, known, received, phase, registered, toSend,
                     expected, group, processed>>
  BY DEF Resend
<1>2. msg \in Packet /\ msg.from = n /\ msg.type # "ACK" /\ Good(msg)
  BY OnList
<1>3. Arrivals({msg})
  BY <1>1, <1>2, TransmitArrives DEF IInv
<1>4. Types'
  <2>1. early \in 0..MaxEarly
    BY DEF IInv, Types
  <2>2. early' \in 0..MaxEarly
    BY <1>1, <2>1, Nodes
  <2> QED
    BY <1>1, <1>3, <2>2 DEF IInv, Types, Arrivals
<1>5. Onward
  BY <1>1 DEF Onward, IInv, Types
<1>6. Good(msg)'
  BY <1>2, <1>4, <1>5, GoodStays DEF IInv
<1>7. Posts({msg}, {})
  BY <1>1, <1>2, <1>3, <1>6 DEF Posts
<1>8. PacketsSound'
  BY <1>4, <1>5, <1>7, PostsSound
<1>9. Recorded' /\ ServerSound' /\ Owed'
  BY <1>1, <1>4, <1>5, RecordedFrame, ServerFrame, OwedFrame
<1>10. MembersSound'
  BY <1>1, <1>5, MemberFrame DEF MembersSound
<1> QED
  BY <1>4, <1>8, <1>9, <1>10 DEF IInv, PacketsSound

\* A new message gets the next counter, and is on the list of its sender.
LEMMA Keeping ==
    ASSUME IInv, NEW msg \in Packet, msg.counter = sent[msg.from][msg.to], Keep(msg)
    PROVE  /\ msg.counter < sent'[msg.from][msg.to]
           /\ sent' \in [Node -> [Node -> Nat]]
           /\ \A a, b \in Node : sent'[a][b] >= sent[a][b]
           /\ unAcked' \in [Node -> SUBSET Packet]
           /\ \A j \in Node : unAcked'[j] =
                 IF j = msg.from THEN unAcked[j] \cup {msg} ELSE unAcked[j]
<1> DEFINE n == msg.from
           k == msg.to
<1>1. n \in Node /\ k \in Node
  BY DEF Packet
<1>2. msg.counter = sent[n][k]
  OBVIOUS
<1>3. sent' = [sent EXCEPT ![n][k] = @ + 1] /\ unAcked' = [unAcked EXCEPT ![n] = @ \cup {msg}]
  BY DEF Keep
<1> HIDE DEF n, k
<1>4. /\ sent \in [Node -> [Node -> Nat]]
      /\ unAcked \in [Node -> SUBSET Packet]
      /\ sent[n][k] \in Nat
  BY <1>1 DEF IInv, Types
<1>5. /\ sent' \in [Node -> [Node -> Nat]]
      /\ sent'[n][k] = sent[n][k] + 1
      /\ \A a, b \in Node : sent'[a][b] = sent[a][b] \/ sent'[a][b] = sent[a][b] + 1
  BY <1>1, <1>3, <1>4
<1>6. ASSUME NEW a \in Node, NEW b \in Node
      PROVE  sent'[a][b] >= sent[a][b]
  <2>1. sent[a][b] \in Nat
    BY <1>4
  <2>2. sent'[a][b] = sent[a][b] \/ sent'[a][b] = sent[a][b] + 1
    BY <1>5
  <2> QED
    BY <2>1, <2>2
<1>7. /\ unAcked' \in [Node -> SUBSET Packet]
      /\ \A j \in Node : unAcked'[j] =
            IF j = n THEN unAcked[j] \cup {msg} ELSE unAcked[j]
  BY <1>1, <1>3, <1>4
<1>8. msg.counter < sent'[n][k]
  BY <1>2, <1>4, <1>5
<1> QED
  BY <1>5, <1>6, <1>7, <1>8 DEF n, k

\* It does no harm, sent alone or after the acknowledgement of another.
LEMMA KeepPosts ==
    ASSUME IInv, Types', Onward, NEW msg \in Packet, msg.type # "ACK",
           msg.counter = sent[msg.from][msg.to],
           \A j \in Node : unAcked'[j] =
              IF j = msg.from THEN unAcked[j] \cup {msg} ELSE unAcked[j],
           Good(msg)',
           NEW S \in SUBSET Packet, Arrivals(S),
           \A q \in S : q = msg \/ (q.type = "ACK" /\ q.to # Server /\ Good(q)')
    PROVE  PacketsSound'
<1>1. \A j \in Node : \A m \in unAcked'[j] :
         m \in unAcked[j] \/ (m = msg /\ m.from = j)
  OBVIOUS
<1>2. \A q \in S : q.from = Server /\ q.type # "ACK" => q \in unAcked'[Server]
  BY Nodes
<1>3. ASSUME NEW q \in S, NEW m \in unAcked'[Server], q.type = "ACK", q = AckOf(m)
      PROVE  FALSE
  <2>1. m.from = Server
    BY <1>1, Nodes, OnList
  <2>2. q.to = Server
    BY <1>3, <2>1 DEF AckOf
  <2> QED
    BY <1>3, <2>2
<1>4. \A q \in S \cup {msg} : Good(q)'
  OBVIOUS
<1>5. Posts(S, {msg})
  BY <1>1, <1>2, <1>3, <1>4 DEF Posts
<1> QED
  BY <1>5, PostsSound

LEMMA StartStep ==
    ASSUME IInv, NEW m \in Member, Start(m)
    PROVE  IInv'
<1>1. PICK msg : msg = Message(m, Server, "REGNETTHREAD", <<m>>)
  OBVIOUS
<1>2. /\ phase[m] = "idle" /\ phase' = [phase EXCEPT ![m] = "response"]
      /\ Keep(msg) /\ Transmit(wire, msg)
      /\ UNCHANGED <<known, received, registered, toSend, expected, group, processed, early>>
  BY <1>1 DEF Start
<1>3. /\ m \in Node /\ m # Server /\ Server \in Node /\ <<m>> \in Seq(Nat)
      /\ "REGNETTHREAD" \in Kind
  BY Nodes DEF Kind
<1>4. /\ msg \in Packet
      /\ msg.from = m /\ msg.to = Server /\ msg.type = "REGNETTHREAD"
      /\ msg.counter = sent[m][Server]
  <2>1. sent[m][Server] \in Nat
    BY <1>3 DEF IInv, Types
  <2> QED
    BY <1>1, <1>3, <2>1 DEF Message, Packet
<1>5. /\ msg.counter < sent'[m][Server]
      /\ sent' \in [Node -> [Node -> Nat]]
      /\ \A a, b \in Node : sent'[a][b] >= sent[a][b]
      /\ unAcked' \in [Node -> SUBSET Packet]
      /\ \A j \in Node : unAcked'[j] = IF j = m THEN unAcked[j] \cup {msg} ELSE unAcked[j]
  <2>1. msg.counter = sent[msg.from][msg.to] /\ Keep(msg)
    BY <1>2, <1>4
  <2> QED
    BY <1>4, <2>1, Keeping
<1>6. Arrivals({msg})
  BY <1>2, <1>4, TransmitArrives DEF IInv
<1>7. /\ phase' \in [Node -> Phase]
      /\ \A j \in Node : phase'[j] = IF j = m THEN "response" ELSE phase[j]
  BY <1>2, <1>3 DEF IInv, Types, Phase
<1>8. Types'
  BY <1>2, <1>5, <1>6, <1>7 DEF IInv, Types, Arrivals
<1>9. Onward
  BY <1>2, <1>5, <1>7, Nodes DEF Onward
<1>10. Good(msg)'
  BY <1>3, <1>5, <1>7, <1>4 DEF Good
<1>11. PacketsSound'
  BY <1>5, <1>6, <1>4, <1>8, <1>9, <1>10, KeepPosts
<1>12. Recorded' /\ ServerSound' /\ Owed'
  BY <1>2, <1>3, <1>5, <1>7, <1>8, <1>9, RecordedFrame, ServerFrame, OwedFrame
<1>13. ASSUME NEW j \in Member PROVE MemberSound(j)'
  <2>1. CASE j = m
    BY <1>2, <1>7, <2>1, Nodes DEF IInv, MembersSound, MemberSound
  <2>2. CASE j # m
    BY <1>2, <1>7, <1>9, <2>2, Nodes, MemberFrame
  <2> QED
    BY <2>1, <2>2
<1> QED
  BY <1>8, <1>11, <1>12, <1>13 DEF IInv, PacketsSound, MembersSound

LEMMA RequestStep ==
    ASSUME IInv, NEW m \in Member, NEW k \in Member, Request(m, k)
    PROVE  IInv'
<1>1. PICK msg : msg = Message(m, k, "REQUEST", <<>>)
  OBVIOUS
<1>2. /\ k # m /\ Keep(msg) /\ Transmit(wire, msg)
      /\ UNCHANGED <<known, received, phase, registered, toSend, expected, group,
                     processed, early>>
  BY <1>1 DEF Request
<1>3. /\ m \in Node /\ k \in Node /\ m # Server /\ <<>> \in Seq(Nat)
      /\ "REQUEST" \in Kind
  BY Nodes, EmptyQueue DEF Kind
<1>4. /\ msg \in Packet
      /\ msg.from = m /\ msg.to = k /\ msg.type = "REQUEST"
      /\ msg.counter = sent[m][k]
  <2>1. sent[m][k] \in Nat
    BY <1>3 DEF IInv, Types
  <2> QED
    BY <1>1, <1>3, <2>1 DEF Message, Packet
<1>5. /\ msg.counter < sent'[m][k]
      /\ sent' \in [Node -> [Node -> Nat]]
      /\ \A a, b \in Node : sent'[a][b] >= sent[a][b]
      /\ unAcked' \in [Node -> SUBSET Packet]
      /\ \A j \in Node : unAcked'[j] = IF j = m THEN unAcked[j] \cup {msg} ELSE unAcked[j]
  <2>1. msg.counter = sent[msg.from][msg.to] /\ Keep(msg)
    BY <1>2, <1>4
  <2> QED
    BY <1>4, <2>1, Keeping
<1>6. Arrivals({msg})
  BY <1>2, <1>4, TransmitArrives DEF IInv
<1>7. Types'
  BY <1>2, <1>5, <1>6 DEF IInv, Types, Arrivals
<1>8. Onward
  BY <1>2, <1>5 DEF Onward
<1>9. Good(msg)'
  BY <1>2, <1>3, <1>5, <1>4 DEF Good
<1>10. PacketsSound'
  BY <1>5, <1>6, <1>4, <1>7, <1>8, <1>9, KeepPosts
<1>11. Recorded' /\ ServerSound' /\ Owed'
  <2>1. \A q \in unAcked[Server] : q \in unAcked'[Server]
    BY <1>3, <1>5, Nodes
  <2>2. ServerSound'
    BY <1>2, <1>7, <1>8, ServerFrame
  <2> QED
    BY <1>2, <1>8, <2>1, <2>2, RecordedFrame, OwedFrame
<1>12. MembersSound'
  BY <1>2, <1>8, MemberFrame DEF MembersSound
<1> QED
  BY <1>7, <1>10, <1>11, <1>12 DEF IInv, PacketsSound

LEMMA SendGroupInfoStep ==
    ASSUME IInv, SendGroupInfo
    PROVE  IInv'
<1> DEFINE h == Head(toSend)
<1>1. PICK msg : msg = Message(Server, Head(toSend).to, "GROUPINFO", Head(toSend).info)
  OBVIOUS
<1>2. /\ phase[Server] = "sending"
      /\ Keep(msg) /\ Transmit(wire, msg)
      /\ toSend' = Tail(toSend)
      /\ phase' = IF toSend' = <<>> THEN [phase EXCEPT ![Server] = "waiting"] ELSE phase
      /\ UNCHANGED <<known, received, registered, expected, group, processed, early>>
  BY <1>1 DEF SendGroupInfo
<1>3. Full /\ toSend # <<>>
  BY <1>2 DEF IInv, ServerSound
<1>4. toSend \in Seq([to : Member, info : Seq(Nat)])
  BY DEF IInv, Types
<1>5. /\ h \in Range(toSend) /\ h.to \in Member /\ h.info \in Seq(Nat)
      /\ toSend' \in Seq([to : Member, info : Seq(Nat)])
      /\ Range(toSend') \subseteq Range(toSend)
      /\ \A e \in Range(toSend) : e = h \/ e \in Range(toSend')
  <2> DEFINE T == [to : Member, info : Seq(Nat)]
  <2>1. toSend \in Seq(T) /\ toSend' = Tail(toSend)
    BY <1>2, <1>4
  <2>2. h \in T => h.to \in Member /\ h.info \in Seq(Nat)
    OBVIOUS
  <2> HIDE DEF T
  <2>3. /\ h \in Range(toSend) /\ h \in T
        /\ Tail(toSend) \in Seq(T)
        /\ Range(Tail(toSend)) \subseteq Range(toSend)
    BY <1>3, <2>1, TailQueue
  <2>4. \A e \in Range(toSend) : e = h \/ e \in Range(Tail(toSend))
    BY <1>3, <2>1, RestOfQueue
  <2> QED
    BY <2>1, <2>2, <2>3, <2>4 DEF T
<1>6. h.info = registered
  BY <1>5 DEF IInv, ServerSound
<1>7. h.to \in Node /\ h.to # Server /\ Server \in Node /\ "GROUPINFO" \in Kind
  BY <1>5, Nodes DEF Kind
<1>8. sent[Server][h.to] \in Nat /\ sent[Server][h.to] > 0
  BY <1>3, <1>5, <1>7, FullGroup, SMTT(30) DEF IInv, Types, ServerSound
<1>9. /\ msg \in Packet
      /\ msg.from = Server /\ msg.to = h.to /\ msg.type = "GROUPINFO"
      /\ msg.info = registered /\ msg.counter = sent[Server][h.to] /\ msg.counter > 0
  BY <1>1, <1>5, <1>6, <1>7, <1>8 DEF Message, Packet
<1> HIDE DEF h
<1>10. /\ msg.counter < sent'[Server][h.to]
       /\ sent' \in [Node -> [Node -> Nat]]
       /\ \A a, b \in Node : sent'[a][b] >= sent[a][b]
       /\ unAcked' \in [Node -> SUBSET Packet]
       /\ \A j \in Node : unAcked'[j] = IF j = Server THEN unAcked[j] \cup {msg} ELSE unAcked[j]
  <2>1. msg.counter = sent[msg.from][msg.to] /\ Keep(msg)
    BY <1>2, <1>9
  <2> QED
    BY <1>9, <2>1, Keeping
<1>11. Arrivals({msg})
  BY <1>2, <1>9, TransmitArrives DEF IInv
<1>12. /\ phase' \in [Node -> Phase]
       /\ phase'[Server] = IF toSend' = <<>> THEN "waiting" ELSE "sending"
       /\ \A m \in Member : phase'[m] = phase[m]
  BY <1>2, Nodes DEF IInv, Types, Phase
<1>13. Types'
  BY <1>2, <1>5, <1>10, <1>11, <1>12 DEF IInv, Types, Arrivals
<1>14. Onward
  <2>1. \A n \in Node : phase'[n] # "idle" \/ phase'[n] = phase[n]
    BY <1>12, Nodes
  <2> QED
    BY <1>2, <1>10, <1>12, <2>1, Nodes DEF Onward
<1>15. Good(msg)'
  BY <1>2, <1>3, <1>7, <1>9, <1>10 DEF Good, Full
<1>16. PacketsSound'
  BY <1>9, <1>10, <1>11, <1>13, <1>14, <1>15, KeepPosts
<1>17. Recorded'
  BY <1>2, RecordedFrame
<1>18. ServerSound'
  <2>1. \A m \in Range(registered) : phase'[m] # "idle" /\ sent'[Server][m] > 0
    <3> SUFFICES ASSUME NEW m \in Range(registered)
                 PROVE  phase'[m] # "idle" /\ sent'[Server][m] > 0
      OBVIOUS
    <3>1. m \in Member /\ m \in Node
      BY RangeOfRegistered, Nodes
    <3>2. phase[m] # "idle" /\ sent[Server][m] > 0
      BY DEF IInv, ServerSound
    <3>3. sent[Server][m] \in Nat /\ sent'[Server][m] \in Nat
      BY <1>10, <3>1, Nodes DEF IInv, Types
    <3>4. sent'[Server][m] >= sent[Server][m]
      BY <1>10, <3>1, Nodes
    <3>5. sent'[Server][m] > 0
      BY <3>2, <3>3, <3>4
    <3> QED
      BY <1>12, <3>1, <3>2, <3>5
  <2>2. IsInjective(registered) /\ Len(registered) <= N
    BY DEF IInv, ServerSound
  <2>3. \A e \in Range(toSend') : e.info = registered
    BY <1>5 DEF IInv, ServerSound
  <2> QED
    BY <1>2, <1>3, <1>12, <2>1, <2>2, <2>3 DEF ServerSound, Full
<1>19. Owed'
  <2> SUFFICES ASSUME NEW m \in Member, phase'[m] # "finished",
                      ~ \E e \in Range(toSend') : e.to = m
               PROVE  \E q \in unAcked'[Server] : q.to = m /\ q.type = "GROUPINFO"
    BY DEF Owed
  <2>1. \/ \E q \in unAcked[Server] : q.to = m /\ q.type = "GROUPINFO"
        \/ \E e \in Range(toSend) : e.to = m
    BY <1>3, <1>12 DEF IInv, Owed
  <2>2. CASE \E e \in Range(toSend) : e.to = m
    BY <1>5, <1>7, <1>9, <1>10, <2>2
  <2> QED
    BY <1>7, <1>10, <2>1, <2>2
<1>20. MembersSound'
  BY <1>2, <1>12, <1>14, MemberFrame DEF MembersSound
<1> QED
  BY <1>13, <1>16, <1>17, <1>18, <1>19, <1>20 DEF IInv, PacketsSound

LEMMA ReceiveResponseStep ==
    ASSUME IInv, NEW m \in Member, ReceiveResponse(m)
    PROVE  IInv'
<1>1. PICK p \in ToSet(wire[m]) :
         /\ phase[m] = "response" /\ p.type = "REGNETTHREADRESPONSE"
         /\ Accept(m, p)
         /\ expected' = [expected EXCEPT ![m] = p.info[1]]
         /\ phase' = [phase EXCEPT ![m] = "info"]
         /\ Transmit(Taken(m), AckOf(p))
         /\ UNCHANGED <<unAcked, sent, registered, toSend, group, processed>>
  BY DEF ReceiveResponse
<1>2. m \in Node /\ m # Server /\ Server \in Node
  BY Nodes
<1>3. /\ wire[m] # <<>> /\ AckOf(p) \in Packet /\ Good(p)
      /\ known' \in [Node -> SUBSET Node] /\ received' \in [Node -> SUBSET Packet]
      /\ \A k \in Node : known'[k] = IF k = m THEN known[m] \cup {p.from} ELSE known[k]
      /\ early' \in 0..MaxEarly
      /\ Recorded'
  BY <1>1, <1>2, Accepting
<1>4. Arrivals({AckOf(p)})
  BY <1>1, <1>2, <1>3, TransmitArrives DEF IInv
<1>5. p.info = <<1>>
  BY <1>1, <1>3 DEF Good
<1>6. /\ expected' \in [Member -> Nat]
      /\ \A j \in Member : expected'[j] = IF j = m THEN 1 ELSE expected[j]
  BY <1>1, <1>5 DEF IInv, Types
<1>7. /\ phase' \in [Node -> Phase]
      /\ \A j \in Node : phase'[j] = IF j = m THEN "info" ELSE phase[j]
  BY <1>1, <1>2 DEF IInv, Types, Phase
<1>8. Types'
  BY <1>1, <1>3, <1>4, <1>6, <1>7 DEF IInv, Types, Arrivals
<1>9. Onward
  <2>1. \A a, b \in Node : sent'[a][b] >= sent[a][b]
    BY <1>1 DEF IInv, Types
  <2> QED
    BY <1>1, <1>7, <2>1, Nodes DEF Onward
<1>10. PacketsSound'
  BY <1>1, <1>2, <1>8, <1>9, AcceptPosts
<1>11. ServerSound' /\ Owed'
  <2>1. phase'[Server] = phase[Server]
    BY <1>2, <1>7
  <2> QED
    BY <1>1, <1>8, <1>9, <2>1, ServerFrame, OwedFrame
<1>12. ASSUME NEW j \in Member PROVE MemberSound(j)'
  <2>1. CASE j = m
    <3>1. MemberSound(m)
      BY DEF IInv, MembersSound
    <3> QED
      BY <1>1, <1>2, <1>6, <1>7, <2>1, <3>1 DEF MemberSound
  <2>2. CASE j # m
    <3>1. /\ phase'[j] = phase[j] /\ expected'[j] = expected[j]
          /\ known'[j] = known[j] /\ group'[j] = group[j]
      BY <1>1, <1>3, <1>6, <1>7, <2>2, Nodes
    <3> QED
      BY <1>9, <3>1, MemberFrame
  <2> QED
    BY <2>1, <2>2
<1> QED
  BY <1>3, <1>8, <1>10, <1>11, <1>12 DEF IInv, PacketsSound, MembersSound

LEMMA ReceiveGroupInfoStep ==
    ASSUME IInv, NEW m \in Member, ReceiveGroupInfo(m)
    PROVE  IInv'
<1>1. PICK p \in ToSet(wire[m]) :
         /\ phase[m] = "info" /\ p.type = "GROUPINFO"
         /\ Accept(m, p)
         /\ group' = [group EXCEPT ![m] = @ \o p.info]
         /\ expected' = [expected EXCEPT ![m] = @ - 1]
         /\ phase' = IF expected'[m] = 0 THEN [phase EXCEPT ![m] = "finished"] ELSE phase
         /\ Transmit(Taken(m), AckOf(p))
         /\ UNCHANGED <<unAcked, sent, registered, toSend, processed>>
  BY DEF ReceiveGroupInfo
<1>2. m \in Node /\ m # Server /\ Server \in Node
  BY Nodes
<1>3. /\ wire[m] # <<>> /\ AckOf(p) \in Packet /\ Good(p)
      /\ known' \in [Node -> SUBSET Node] /\ received' \in [Node -> SUBSET Packet]
      /\ \A k \in Node : known'[k] = IF k = m THEN known[m] \cup {p.from} ELSE known[k]
      /\ early' \in 0..MaxEarly
      /\ Recorded'
  BY <1>1, <1>2, Accepting
<1>4. Arrivals({AckOf(p)})
  BY <1>1, <1>2, <1>3, TransmitArrives DEF IInv
<1>5. p.info = registered /\ Full /\ registered \in Seq(Member)
  BY <1>1, <1>3 DEF Good, IInv, Types
<1>6. group[m] = <<>> /\ expected[m] = 1
  BY <1>1 DEF IInv, MembersSound, MemberSound
<1>7. group[m] \o p.info = registered
  BY <1>5, <1>6, ConcatEmptySeq
<1>8. /\ group' \in [Member -> Seq(Member)]
      /\ \A j \in Member : group'[j] = IF j = m THEN registered ELSE group[j]
  BY <1>1, <1>5, <1>7 DEF IInv, Types
<1>9. /\ expected' \in [Member -> Nat]
      /\ \A j \in Member : expected'[j] = IF j = m THEN 0 ELSE expected[j]
  BY <1>1, <1>6 DEF IInv, Types
<1>10. /\ phase' \in [Node -> Phase]
       /\ \A j \in Node : phase'[j] = IF j = m THEN "finished" ELSE phase[j]
  BY <1>1, <1>2, <1>9 DEF IInv, Types, Phase
<1>11. Types'
  BY <1>1, <1>3, <1>4, <1>8, <1>9, <1>10 DEF IInv, Types, Arrivals
<1>12. Onward
  <2>1. \A a, b \in Node : sent'[a][b] >= sent[a][b]
    BY <1>1 DEF IInv, Types
  <2> QED
    BY <1>1, <1>10, <2>1, Nodes DEF Onward
<1>13. PacketsSound'
  BY <1>1, <1>2, <1>10, <1>11, <1>12, AcceptPosts
<1>14. ServerSound' /\ Owed'
  <2>1. phase'[Server] = phase[Server]
    BY <1>2, <1>10
  <2> QED
    BY <1>1, <1>11, <1>12, <2>1, ServerFrame, OwedFrame
<1>15. ASSUME NEW j \in Member PROVE MemberSound(j)'
  <2>1. CASE j = m
    BY <1>1, <1>2, <1>5, <1>8, <1>9, <1>10, <2>1 DEF MemberSound, Full
  <2>2. CASE j # m
    <3>1. /\ phase'[j] = phase[j] /\ expected'[j] = expected[j]
          /\ known'[j] = known[j] /\ group'[j] = group[j]
      BY <1>3, <1>8, <1>9, <1>10, <2>2, Nodes
    <3> QED
      BY <1>12, <3>1, MemberFrame
  <2> QED
    BY <2>1, <2>2
<1> QED
  BY <1>3, <1>11, <1>13, <1>14, <1>15 DEF IInv, PacketsSound, MembersSound

LEMMA ProcessStep ==
    ASSUME IInv, NEW m \in Member, Process(m)
    PROVE  IInv'
<1>1. PICK p \in ToSet(wire[m]) :
         /\ phase[m] = "finished"
         /\ Accept(m, p)
         /\ Transmit(Taken(m), AckOf(p))
         /\ UNCHANGED <<unAcked, sent, phase, registered, toSend, expected, group>>
  BY DEF Process
<1>2. m \in Node
  BY Nodes
<1>3. /\ wire[m] # <<>> /\ AckOf(p) \in Packet
      /\ known' \in [Node -> SUBSET Node] /\ received' \in [Node -> SUBSET Packet]
      /\ \A k \in Node : known'[k] = IF k = m THEN known[m] \cup {p.from} ELSE known[k]
      /\ early' \in 0..MaxEarly
      /\ Recorded'
  BY <1>1, <1>2, Accepting
<1>4. Arrivals({AckOf(p)})
  BY <1>1, <1>2, <1>3, TransmitArrives DEF IInv
<1>5. Types'
  BY <1>1, <1>3, <1>4 DEF IInv, Types, Arrivals
<1>6. Onward
  BY <1>1 DEF Onward, IInv, Types
<1>7. PacketsSound'
  BY <1>1, <1>2, <1>5, <1>6, AcceptPosts
<1>8. ServerSound' /\ Owed'
  BY <1>1, <1>5, <1>6, ServerFrame, OwedFrame
<1>9. ASSUME NEW j \in Member PROVE MemberSound(j)'
  <2>1. MemberSound(j)
    BY DEF IInv, MembersSound
  <2>2. CASE j = m
    BY <1>1, <2>1, <2>2 DEF MemberSound, Full
  <2>3. CASE j # m
    BY <1>1, <1>3, <1>6, <2>3, Nodes, MemberFrame
  <2> QED
    BY <2>2, <2>3
<1> QED
  BY <1>3, <1>5, <1>7, <1>8, <1>9 DEF IInv, PacketsSound, MembersSound

LEMMA RegisterStep ==
    ASSUME N <= ThreadsPerMessage, IInv, Register
    PROVE  IInv'
<1>1. PICK p, response, threads :
         /\ p \in ToSet(wire[Server])
         /\ response = Message(Server, p.from, "REGNETTHREADRESPONSE", <<NumMessages>>)
         /\ threads = IF HasRegistered(p.from) THEN registered ELSE Append(registered, p.from)
         /\ phase[Server] = "registering"
         /\ p.type = "REGNETTHREAD"
         /\ Accept(Server, p)
         /\ registered' = threads
         /\ Keep(response)
         /\ TransmitBoth(Taken(Server), AckOf(p), response)
         /\ IF Len(threads) = N
            THEN /\ phase' = [phase EXCEPT ![Server] = "sending"]
                 /\ toSend' = GroupInfo(threads)
            ELSE UNCHANGED <<phase, toSend>>
         /\ UNCHANGED <<expected, group, processed>>
  BY DEF Register
<1> DEFINE ack == AckOf(p)
<1>2. Server \in Node
  BY Nodes
<1>3. /\ wire[Server] # <<>> /\ p \in Packet /\ p.to = Server
      /\ p.from \in Node /\ p.from # Server /\ Good(p) /\ ack \in Packet
      /\ known' \in [Node -> SUBSET Node] /\ received' \in [Node -> SUBSET Packet]
      /\ \A k \in Node : known'[k] = IF k = Server THEN known[Server] \cup {p.from} ELSE known[k]
      /\ early' \in 0..MaxEarly
      /\ Recorded'
  BY <1>1, <1>2, Accepting, ZenonT(40)
<1>4. p.from \in Member /\ phase[p.from] # "idle"
  BY <1>1, <1>3, Nodes DEF Good
<1>5. ~Full /\ toSend = <<>>
  BY <1>1 DEF IInv, ServerSound
<1>6. /\ registered \in Seq(Member) /\ IsInjective(registered)
      /\ Len(registered) \in Nat /\ Len(registered) < N
  <2>1. registered \in Seq(Member) /\ IsInjective(registered) /\ Len(registered) <= N
    BY DEF IInv, Types, ServerSound
  <2>2. Len(registered) \in Nat /\ Len(registered) # N
    BY <1>5, <2>1, LenProperties DEF Full
  <2> QED
    BY <2>1, <2>2, Nodes
<1>7. /\ threads \in Seq(Member) /\ IsInjective(threads) /\ Len(threads) <= N
      /\ Range(threads) = Range(registered) \cup {p.from}
  <2>1. CASE HasRegistered(p.from)
    <3>1. threads = registered /\ p.from \in Range(registered)
      BY <1>1, <2>1, ToSetRange DEF HasRegistered
    <3>2. Range(registered) \cup {p.from} = Range(registered) /\ Len(registered) <= N
      BY <1>6, <3>1, Nodes
    <3> QED
      BY <1>6, <3>1, <3>2
  <2>2. CASE ~HasRegistered(p.from)
    <3>1. threads = Append(registered, p.from) /\ p.from \notin Range(registered)
      BY <1>1, <2>2, ToSetRange DEF HasRegistered
    <3>2. Len(threads) = Len(registered) + 1
      BY <1>4, <1>6, <3>1, AppendProperties
    <3>3. Len(threads) <= N
      BY <1>6, <3>2, Nodes
    <3> QED
      BY <1>4, <1>6, <3>1, <3>3, AppendQueue
  <2> QED
    BY <2>1, <2>2
<1>8. <<NumMessages>> = <<1>> /\ <<1>> \in Seq(Nat) /\ "REGNETTHREADRESPONSE" \in Kind
  BY OneMessage DEF Kind
<1>9. /\ response \in Packet
      /\ response.from = Server /\ response.to = p.from
      /\ response.type = "REGNETTHREADRESPONSE" /\ response.info = <<1>>
      /\ response.counter = sent[Server][p.from]
  <2>1. sent[Server][p.from] \in Nat
    BY <1>2, <1>3 DEF IInv, Types
  <2> QED
    BY <1>1, <1>2, <1>3, <1>8, <2>1 DEF Message, Packet
<1>10. /\ response.counter < sent'[Server][p.from]
       /\ sent' \in [Node -> [Node -> Nat]]
       /\ \A a, b \in Node : sent'[a][b] >= sent[a][b]
       /\ unAcked' \in [Node -> SUBSET Packet]
       /\ \A j \in Node : unAcked'[j] =
             IF j = Server THEN unAcked[j] \cup {response} ELSE unAcked[j]
  <2>1. response.counter = sent[response.from][response.to] /\ Keep(response)
    BY <1>1, <1>9
  <2> QED
    BY <1>9, <2>1, Keeping
<1>11. ack.from = Server /\ ack.to = p.from /\ ack.counter = p.counter /\ ack.type = "ACK"
  BY <1>3 DEF AckOf
<1>12. Good(ack)
  BY <1>1, <1>3, <1>11 DEF Good
<1>13. TransmitBoth(Taken(Server), ack, response)
  BY <1>1
<1> HIDE DEF ack
<1>14. Arrivals({ack, response})
  BY <1>2, <1>3, <1>9, <1>13, TransmitBothArrives DEF IInv
<1>15. /\ phase' \in [Node -> Phase]
       /\ \A m \in Member : phase'[m] = phase[m]
       /\ phase'[Server] = IF Len(threads) = N THEN "sending" ELSE "registering"
  BY <1>1, <1>2, Nodes DEF IInv, Types, Phase
<1>16. /\ toSend' \in Seq([to : Member, info : Seq(Nat)])
       /\ Len(threads) = N <=> toSend' # <<>>
       /\ \A e \in Range(toSend') : e.info = threads
       /\ Len(threads) = N => \A m \in Member : \E e \in Range(toSend') : e.to = m
  <2>1. CASE Len(threads) = N
    <3>1. toSend' = GroupInfo(threads)
      BY <1>1, <2>1
    <3>2. \A m \in Member : \E i \in 1..N : threads[i] = m
      BY <1>7, <2>1, AllRegistered
    <3>3. /\ GroupInfo(threads) \in Seq([to : Member, info : Seq(Nat)])
          /\ GroupInfo(threads) # <<>>
          /\ \A e \in Range(GroupInfo(threads)) : e.info = threads
          /\ \A i \in 1..N : \E e \in Range(GroupInfo(threads)) : e.to = threads[i]
      BY <1>7, <2>1, GroupInfoIs
    <3> QED
      BY <2>1, <3>1, <3>2, <3>3
  <2>2. CASE Len(threads) # N
    <3>1. toSend' = toSend
      BY <1>1, <2>2
    <3> QED
      BY <1>5, <2>2, <3>1, EmptyQueue
  <2> QED
    BY <2>1, <2>2
<1>17. Types'
  BY <1>1, <1>3, <1>7, <1>10, <1>14, <1>15, <1>16 DEF IInv, Types, Arrivals
<1>18. Onward
  <2>1. \A n \in Node : phase'[n] # "idle" \/ phase'[n] = phase[n]
    BY <1>15, Nodes
  <2> QED
    BY <1>5, <1>10, <1>15, <2>1, Nodes DEF Onward
<1>19. Good(ack)'
  BY <1>3, <1>12, <1>17, <1>18, GoodStays DEF IInv
<1>20. Good(response)'
  <2>1. phase'[p.from] # "idle"
    BY <1>4, <1>15
  <2> QED
    BY <1>3, <1>9, <1>10, <2>1 DEF Good
<1>21. PacketsSound'
  <2> DEFINE S == {ack, response}
  <2>1. S \in SUBSET Packet /\ Arrivals(S)
    BY <1>3, <1>9, <1>14
  <2>2. \A q \in S : q = response \/ (q.type = "ACK" /\ q.to # Server /\ Good(q)')
    BY <1>3, <1>11, <1>19
  <2> HIDE DEF S
  <2> QED
    BY <1>9, <1>10, <1>17, <1>18, <1>20, <2>1, <2>2, KeepPosts
<1>22. ServerSound'
  <2>1. \A m \in Range(threads) : phase'[m] # "idle" /\ sent'[Server][m] > 0
    <3> SUFFICES ASSUME NEW m \in Range(threads)
                 PROVE  phase'[m] # "idle" /\ sent'[Server][m] > 0
      OBVIOUS
    <3>1. CASE m = p.from
      <4>1. response.counter \in Nat
        BY <1>9 DEF Packet
      <4>2. sent'[Server][p.from] \in Nat /\ response.counter < sent'[Server][p.from]
        BY <1>2, <1>3, <1>10
      <4>3. sent'[Server][p.from] > 0
        BY <4>1, <4>2
      <4> QED
        BY <1>4, <1>15, <3>1, <4>3
    <3>2. CASE m \in Range(registered)
      <4>1. m \in Member /\ m \in Node
        BY <3>2, RangeOfRegistered, Nodes
      <4>2. phase[m] # "idle" /\ sent[Server][m] > 0
        BY <3>2 DEF IInv, ServerSound
      <4>3. sent[Server][m] \in Nat /\ sent'[Server][m] \in Nat
        BY <1>2, <1>10, <4>1 DEF IInv, Types
      <4>4. sent'[Server][m] >= sent[Server][m]
        BY <1>2, <1>10, <4>1
      <4>5. sent'[Server][m] > 0
        BY <4>2, <4>3, <4>4
      <4> QED
        BY <1>15, <4>1, <4>2, <4>5
    <3> QED
      BY <1>7, <3>1, <3>2
  <2>2. Full' <=> Len(threads) = N
    BY <1>1 DEF Full
  <2> QED
    BY <1>1, <1>7, <1>15, <1>16, <2>1, <2>2 DEF ServerSound
<1>23. Owed'
  BY <1>1, <1>16 DEF Owed, Full
<1>24. ASSUME NEW m \in Member PROVE MemberSound(m)'
  <2>1. /\ phase'[m] = phase[m] /\ expected'[m] = expected[m]
        /\ known'[m] = known[m] /\ group'[m] = group[m]
    BY <1>1, <1>3, <1>15, Nodes
  <2> QED
    BY <1>18, <2>1, MemberFrame
<1> QED
  BY <1>3, <1>17, <1>21, <1>22, <1>23, <1>24 DEF IInv, PacketsSound, MembersSound

-----------------------------------------------------------------------------
(* The theorem *)

LEMMA NextIInv ==
    ASSUME N <= ThreadsPerMessage, IInv, [Next]_vars
    PROVE  IInv'
<1>1. CASE UNCHANGED vars
  <2>1. UNCHANGED <<wire, unAcked, sent, known, received, phase, registered, toSend,
                    expected, group, losses, early>>
    BY <1>1 DEF vars
  <2>2. Types' /\ Recorded'
    BY <2>1 DEF IInv, Types, Recorded
  <2>3. Onward
    BY <2>1 DEF Onward, IInv, Types
  <2>4. Posts({}, {})
    BY <2>1, <2>2 DEF Posts, Arrivals, Types
  <2>5. PacketsSound'
    BY <2>2, <2>3, <2>4, PostsSound
  <2>6. ServerSound' /\ Owed'
    BY <2>1, <2>2, <2>3, ServerFrame, OwedFrame
  <2>7. MembersSound'
    BY <2>1, <2>3, MemberFrame DEF MembersSound
  <2> QED
    BY <2>2, <2>5, <2>6, <2>7 DEF IInv, PacketsSound
<1>2. CASE SendGroupInfo
  BY <1>2, SendGroupInfoStep
<1>3. CASE \E n \in Node : Receive(n)
  <2>1. PICK n \in Node : Receive(n)
    BY <1>3
  <2>2. CASE Discard(n) \/ ReceiveAck(n) \/ Swallow(n)
    BY <2>2, DiscardStep, ReceiveAckStep, SwallowStep
  <2>3. CASE n = Server /\ Register
    BY <2>3, RegisterStep
  <2>4. CASE n # Server /\ (ReceiveResponse(n) \/ ReceiveGroupInfo(n) \/ Process(n))
    BY <2>4, Nodes, ReceiveResponseStep, ReceiveGroupInfoStep, ProcessStep
  <2> QED
    BY <2>1, <2>2, <2>3, <2>4 DEF Receive
<1>4. CASE \E n \in Node : \E msg \in unAcked[n] : Resend(n, msg)
  BY <1>4, ResendStep
<1>5. CASE \E m \in Member : Start(m) \/ \E k \in Member : Request(m, k)
  BY <1>5, StartStep, RequestStep
<1> QED
  BY <1>1, <1>2, <1>3, <1>4, <1>5 DEF Next

LEMMA IInvGroups ==
    ASSUME N <= ThreadsPerMessage, IInv
    PROVE  GroupsSound
<1>1. TypeOK
  <2>1. ASSUME NEW n \in Node
        PROVE  /\ \A p \in ToSet(wire[n]) : p.to = n /\ p.from \in Node \ {n}
               /\ \A msg \in unAcked[n] : msg.from = n /\ msg.to \in Node \ {n}
               /\ known[n] \subseteq Node \ {n}
               /\ \A p \in received[n] : p.to = n /\ p.from \in known[n]
               /\ sent[n] \in [Node -> Nat]
    <3>1. \A p \in ToSet(wire[n]) : p \in Packet /\ p.to = n /\ p.from # p.to
      BY InTransit DEF Good
    <3>2. \A msg \in unAcked[n] : msg \in Packet /\ msg.from = n /\ msg.from # msg.to
      BY OnList DEF Good
    <3>3. \A p \in Packet : p.from \in Node /\ p.to \in Node
      BY DEF Packet
    <3>4. /\ known[n] \subseteq Node /\ n \notin known[n]
          /\ \A p \in received[n] : p.to = n /\ p.from \in known[n]
          /\ sent[n] \in [Node -> Nat]
      BY DEF IInv, Types, Recorded
    <3> QED
      BY <3>1, <3>2, <3>3, <3>4
  <2>2. \A i \in 1..Len(toSend) : toSend[i].to \in Member
    <3> DEFINE T == [to : Member, info : Seq(Nat)]
    <3>1. toSend \in Seq(T)
      BY DEF IInv, Types
    <3>2. \A e \in T : e.to \in Member
      OBVIOUS
    <3> HIDE DEF T
    <3> QED
      BY <3>1, <3>2, ElementOfSeq
  <2>3. expected \in [Member -> 0..NumMessages]
    <3>1. \A m \in Member : expected[m] \in 0..1
      BY DEF IInv, MembersSound, MemberSound
    <3>2. expected \in [Member -> Nat]
      BY DEF IInv, Types
    <3> QED
      BY <3>1, <3>2, OneMessage
  <2>4. /\ phase[Server] \in {"registering", "sending", "waiting", "complete"}
        /\ \A m \in Member : phase[m] \in {"idle", "response", "info", "finished"}
    BY DEF IInv, ServerSound, MembersSound, MemberSound
  <2> QED
    BY <2>1, <2>2, <2>3, <2>4 DEF IInv, Types, TypeOK
<1>2. GroupsAgree
  <2> SUFFICES ASSUME NEW m \in Member, phase[m] = "finished"
               PROVE  group[m] = registered /\ Len(group[m]) = N /\ ToSet(group[m]) = Member
    BY DEF GroupsAgree
  <2>1. group[m] = registered /\ Full
    BY DEF IInv, MembersSound, MemberSound
  <2> QED
    BY <2>1, FullGroup, ToSetRange DEF IInv, Full
<1>3. CompleteMeansAll
  BY DEF IInv, ServerSound, CompleteMeansAll
<1> QED
  BY <1>1, <1>2, <1>3 DEF GroupsSound

\* In a group that one GROUPINFO can name, whatever its size, every member that
\* has registered has the same table of all members, and the server says that
\* the registration is complete only then (RegServer, threads/system.cc
\* 171-320, and RegisterNetworkThread, 340-513), however many messages are lost
\* or sent again (Network::Send; the resend thread of network/post.cc).
THEOREM RegistrationSound ==
    ASSUME N <= ThreadsPerMessage
    PROVE  Spec => []GroupsSound
<1>1. Init => IInv
  BY InitIInv
<1>2. IInv /\ [Next]_vars => IInv'
  BY NextIInv
<1>3. IInv => GroupsSound
  BY IInvGroups
<1> QED
  BY <1>1, <1>2, <1>3, PTL DEF Spec

-----------------------------------------------------------------------------
(* Distributed locks: the inductive invariant                               *)

\* The lists of a machine and the mailboxes are sequences of whatever is in
\* them.
IsList(q) == q \in Seq(Range(q))

\* The clients in a queue: none of them is NoOwner.
QueueOK(q) == IsList(q) /\ \A e \in Range(q) : e.to \in Nat \X Int

LockOK(lock) ==
    /\ lock = [name |-> lock.name, globalId |-> lock.globalId, free |-> lock.free,
               owner |-> lock.owner, waitQueue |-> lock.waitQueue]
    /\ lock.free \in BOOLEAN
    /\ lock.free <=> lock.owner = NoOwner
    /\ lock.free => lock.waitQueue = <<>>
    /\ QueueOK(lock.waitQueue)

VariableOK(variable) ==
    /\ variable = [name |-> variable.name, globalId |-> variable.globalId,
                   firstLock |-> variable.firstLock, waitQueue |-> variable.waitQueue]
    /\ QueueOK(variable.waitQueue)

Kinds == {"lock", "cv", "mv"}

TableOK(table) ==
    /\ table = [next |-> table.next, at |-> table.at]
    /\ table.next \in Int
    /\ table.at = [k \in DOMAIN table.at |-> table.at[k]]

TablesOK(tab) ==
    /\ tab = [kind \in Kinds |-> tab[kind]]
    /\ \A kind \in Kinds : TableOK(tab[kind])
    /\ \A k \in DOMAIN tab["lock"].at : LockOK(tab["lock"].at[k])
    /\ \A k \in DOMAIN tab["cv"].at : VariableOK(tab["cv"].at[k])

LetterOK(msg) ==
    /\ msg = [type |-> msg.type, client |-> msg.client, arg |-> msg.arg,
              from |-> msg.from, via |-> msg.via]
    /\ msg.client \in Int \cup {None}
    /\ msg.from \in Int \X Int
    /\ msg.via \in 0..Members

MailOK(mail) ==
    /\ mail = [n \in Thread |-> mail[n]]
    /\ \A n \in Thread : IsList(mail[n]) /\ \A msg \in Range(mail[n]) : LetterOK(msg)

\* The state that a call of processMessage works on.
IsState(s) ==
    s = [tab |-> s.tab, arr |-> s.arr, clock |-> s.clock, netMail |-> s.netMail,
         userMail |-> s.userMail, ended |-> s.ended]

StateOK(s) ==
    /\ IsState(s)
    /\ TablesOK(s.tab)
    /\ MailOK(s.netMail)
    /\ MailOK(s.userMail)
    /\ s.ended \in BOOLEAN

LocksInv ==
    /\ LocksTypeOK
    /\ server = [m \in Machine |-> server[m]]
    /\ client = [m \in Machine |-> client[m]]
    /\ \A m \in Machine : TablesOK(server[m])
    /\ MailOK(netMail)
    /\ MailOK(userMail)

\* What a call may do to the locks of its machine.
InOrder(before, after) ==
    \A k \in DOMAIN before \cap DOMAIN after :
        ~before[k].free /\ ~after[k].free /\ after[k].owner # before[k].owner
        => /\ before[k].waitQueue # <<>>
           /\ after[k].owner = Head(before[k].waitQueue).to
           /\ after[k].waitQueue = Tail(before[k].waitQueue)

LocksOf(s) == s.tab["lock"].at
Handled(s, t) == StateOK(t) /\ InOrder(LocksOf(s), LocksOf(t))

\* The locks are left alone.
Kept(s, t) == StateOK(t) /\ LocksOf(t) = LocksOf(s)

-----------------------------------------------------------------------------
(* Lists, addresses, numbers                                                *)

LEMMA EmptyList == IsList(<<>>) /\ QueueOK(<<>>) /\ Range(<<>>) = {}
BY EmptyQueue DEF IsList, QueueOK

LEMMA AppendList ==
    ASSUME NEW q, IsList(q), NEW e
    PROVE  /\ IsList(Append(q, e))
           /\ Range(Append(q, e)) = Range(q) \cup {e}
           /\ Append(q, e) # <<>>
           /\ Len(Append(q, e)) = Len(q) + 1
<1> DEFINE S == Range(q) \cup {e}
<1>1. q \in Seq(S)
  BY SeqMonotonic DEF IsList
<1>2. e \in S
  OBVIOUS
<1> HIDE DEF S
<1>3. /\ Append(q, e) \in Seq(S)
      /\ Range(Append(q, e)) = Range(q) \cup {e}
      /\ Append(q, e) # <<>>
  BY <1>1, <1>2, AppendQueue
<1>4. Len(Append(q, e)) = Len(q) + 1
  BY <1>1, <1>2, AppendProperties
<1> QED
  BY <1>3, <1>4 DEF IsList, S

LEMMA TailList ==
    ASSUME NEW q, IsList(q), q # <<>>
    PROVE  /\ IsList(Tail(q))
           /\ Range(Tail(q)) \subseteq Range(q)
           /\ Head(q) \in Range(q)
<1>1. /\ Tail(q) \in Seq(Range(q))
      /\ Range(Tail(q)) \subseteq Range(q)
      /\ Head(q) \in Range(q)
  BY TailQueue DEF IsList
<1> QED
  BY <1>1, SeqOfRange DEF IsList

LEMMA RemoveList ==
    ASSUME NEW q, IsList(q), NEW i \in DOMAIN q
    PROVE  /\ IsList(RemoveAt(q, i))
           /\ Range(RemoveAt(q, i)) \subseteq Range(q)
           /\ q[i] \in Range(q)
<1>1. i \in 1..Len(q)
  BY LenProperties DEF IsList
<1>2. /\ RemoveAt(q, i) \in Seq(Range(q))
      /\ Range(RemoveAt(q, i)) \subseteq Range(q)
  BY <1>1, EraseQueue DEF IsList
<1> QED
  BY <1>2, SeqOfRange DEF IsList, Range

LEMMA AppendWaiter ==
    ASSUME NEW q, QueueOK(q), NEW e, e.to \in Nat \X Int
    PROVE  QueueOK(Append(q, e)) /\ Append(q, e) # <<>>
BY AppendList DEF QueueOK

LEMMA TailWaiter ==
    ASSUME NEW q, QueueOK(q), q # <<>>
    PROVE  QueueOK(Tail(q)) /\ Head(q).to \in Nat \X Int
BY TailList DEF QueueOK

LEMMA NetIsPlace ==
    ASSUME NEW c \in Int
    PROVE  NetOf(c) \in Nat \X Int /\ UserOf(c) \in Nat \X Int
<1>1. c >= 0 => c \div 100 \in Nat
  OBVIOUS
<1>2. (c + 100) % 100 \in Int
  OBVIOUS
<1>3. (IF c < 0 THEN 0 ELSE c \div 100) \in Nat
  BY <1>1
<1> QED
  BY <1>2, <1>3 DEF NetOf, UserOf

LEMMA PlaceIsSomebody ==
    ASSUME NEW p \in Nat \X Int
    PROVE  p # NoOwner
BY DEF NoOwner

LEMMA ClientIsNumber ==
    ASSUME NEW msg, LetterOK(msg)
    PROVE  clientNum(msg) \in Int /\ msg.from[2] \in Int
BY DEF LetterOK, clientNum

LEMMA Placed ==
    ASSUME mach \in Placements
    PROVE  /\ Thread = 1..serverCount
           /\ serverCount \in 1..Members
           /\ \A n \in Thread : mach[n] \in Machine /\ mach[n] \in Int /\ Box(n) \in Int
           /\ mach[1] = 0
<1>1. PICK k \in 1..Members : mach \in [1..k -> Machine] /\ mach[1] = 0
  BY DEF Placements
<1>2. k \in Nat /\ Thread = 1..k
  BY <1>1, DistributedLocksAssumption DEF Thread
<1>3. serverCount = k
  BY <1>1, <1>2 DEF serverCount
<1>4. Machine \subseteq Int
  BY DistributedLocksAssumption
<1>5. ASSUME NEW n \in Thread PROVE Box(n) \in Int
  <2> DEFINE S == {j \in 1..n - 1 : mach[j] = mach[n]}
  <2>1. IsFiniteSet(S)
    BY <1>2, <1>5, FS_Interval, FS_Subset
  <2>2. Cardinality(S) \in Nat
    BY <2>1, FS_CardinalityType
  <2> QED
    BY <2>2 DEF Box
<1> QED
  BY <1>1, <1>2, <1>3, <1>4, <1>5

-----------------------------------------------------------------------------
(* What the helpers of processMessage do to the state                       *)

LEMMA Assigned ==
    ASSUME NEW f, NEW k, NEW v
    PROVE  /\ DOMAIN Assign(f, k, v) = DOMAIN f \cup {k}
           /\ Assign(f, k, v)[k] = v
           /\ \A i \in DOMAIN f : i # k => Assign(f, k, v)[i] = f[i]
           /\ Assign(f, k, v) = [i \in DOMAIN Assign(f, k, v) |-> Assign(f, k, v)[i]]
BY DEF Assign

\* Any change to one table.
LEMMA TableChanged ==
    ASSUME NEW s, StateOK(s), NEW kind \in Kinds, NEW table, TableOK(table),
           kind = "lock" => \A k \in DOMAIN table.at : LockOK(table.at[k]),
           kind = "cv" => \A k \in DOMAIN table.at : VariableOK(table.at[k])
    PROVE  LET t == [s EXCEPT !.tab = [@ EXCEPT ![kind] = table]]
           IN  /\ StateOK(t)
               /\ t.tab[kind] = table
               /\ \A other \in Kinds \ {kind} : t.tab[other] = s.tab[other]
               /\ t.arr = s.arr /\ t.netMail = s.netMail /\ t.userMail = s.userMail
               /\ t.ended = s.ended
<1> DEFINE tab == [s.tab EXCEPT ![kind] = table]
           t == [s EXCEPT !.tab = tab]
<1>1. /\ tab[kind] = table
      /\ \A other \in Kinds \ {kind} : tab[other] = s.tab[other]
      /\ tab = [j \in Kinds |-> tab[j]]
  BY DEF StateOK, TablesOK
<1>2. TablesOK(tab)
  BY <1>1 DEF StateOK, TablesOK, Kinds
<1>3. /\ t.tab = tab /\ t.arr = s.arr /\ t.netMail = s.netMail /\ t.userMail = s.userMail
      /\ t.ended = s.ended /\ t.clock = s.clock
      /\ IsState(t)
  <2> HIDE DEF tab
  <2> QED
    BY DEF StateOK, IsState
<1>4. StateOK(t)
  <2> HIDE DEF tab, t
  <2> QED
    BY <1>2, <1>3 DEF StateOK
<1> QED
  BY <1>1, <1>3, <1>4

LEMMA AtChanged ==
    ASSUME NEW table, TableOK(table), NEW at
    PROVE  /\ [table EXCEPT !.at = at] = [next |-> table.next, at |-> at]
           /\ table.next \in Int
BY DEF TableOK

LEMMA TableChangedTo ==
    ASSUME NEW table, TableOK(table), NEW at
    PROVE  /\ [table EXCEPT !.at = at, !.next = @ - 1] = [next |-> table.next - 1, at |-> at]
           /\ table.next \in Int
<1> DEFINE u == [table EXCEPT !.at = at]
<1>1. u = [next |-> table.next, at |-> at] /\ table.next \in Int
  BY AtChanged
<1> HIDE DEF u
<1>2. [u EXCEPT !.next = table.next - 1] = [next |-> table.next - 1, at |-> at]
  BY <1>1
<1> QED
  BY <1>1, <1>2 DEF u

LEMMA ObjectPut ==
    ASSUME NEW s, StateOK(s), NEW kind \in Kinds, NEW k, NEW object,
           kind = "lock" => LockOK(object),
           kind = "cv" => VariableOK(object)
    PROVE  LET t == PutObject(s, kind, k, object)
           IN  /\ StateOK(t)
               /\ t.tab[kind].at = Assign(s.tab[kind].at, k, object)
               /\ t.tab[kind].next = s.tab[kind].next
               /\ \A other \in Kinds \ {kind} : t.tab[other] = s.tab[other]
               /\ t.arr = s.arr /\ t.netMail = s.netMail /\ t.userMail = s.userMail
               /\ t.ended = s.ended
<1> DEFINE at == Assign(s.tab[kind].at, k, object)
           table == [s.tab[kind] EXCEPT !.at = at]
           t == [s EXCEPT !.tab = [@ EXCEPT ![kind] = table]]
<1>1. PutObject(s, kind, k, object) = t
  BY DEF PutObject, StateOK, TablesOK
<1>2. /\ table = [next |-> s.tab[kind].next, at |-> at]
      /\ s.tab[kind].next \in Int
  <2> HIDE DEF at
  <2>1. TableOK(s.tab[kind])
    BY DEF StateOK, TablesOK
  <2> QED
    BY <2>1, AtChanged
<1>3. /\ DOMAIN at = DOMAIN s.tab[kind].at \cup {k}
      /\ at[k] = object
      /\ \A i \in DOMAIN s.tab[kind].at : i # k => at[i] = s.tab[kind].at[i]
      /\ at = [i \in DOMAIN at |-> at[i]]
  BY DEF Assign
<1>4. /\ table.at = at /\ table.next = s.tab[kind].next /\ TableOK(table)
  <2> HIDE DEF at, table
  <2> QED
    BY <1>2, <1>3 DEF TableOK
<1>5. /\ kind = "lock" => \A i \in DOMAIN table.at : LockOK(table.at[i])
      /\ kind = "cv" => \A i \in DOMAIN table.at : VariableOK(table.at[i])
  <2> HIDE DEF at, table
  <2> QED
    BY <1>3, <1>4 DEF StateOK, TablesOK
<1>6. /\ StateOK(t)
      /\ t.tab[kind] = table
      /\ \A other \in Kinds \ {kind} : t.tab[other] = s.tab[other]
      /\ t.arr = s.arr /\ t.netMail = s.netMail /\ t.userMail = s.userMail
      /\ t.ended = s.ended
  <2> HIDE DEF at, table
  <2> QED
    BY <1>4, <1>5, TableChanged
<1> HIDE DEF at, table, t
<1>7. /\ StateOK(t)
      /\ t.tab[kind].at = at
      /\ t.tab[kind].next = s.tab[kind].next
      /\ \A other \in Kinds \ {kind} : t.tab[other] = s.tab[other]
      /\ t.arr = s.arr /\ t.netMail = s.netMail /\ t.userMail = s.userMail
      /\ t.ended = s.ended
  BY <1>4, <1>6
<1> QED
  BY <1>1, <1>7 DEF at

LEMMA EndChanged ==
    ASSUME NEW s, IsState(s), NEW end
    PROVE  [s EXCEPT !.ended = end] =
               [tab |-> s.tab, arr |-> s.arr, clock |-> s.clock, netMail |-> s.netMail,
                userMail |-> s.userMail, ended |-> end]
BY DEF IsState

LEMMA ClientSet ==
    ASSUME NEW s, StateOK(s), NEW c, NEW r
    PROVE  LET t == SetClient(s, c, r)
           IN  /\ StateOK(t)
               /\ t.tab = s.tab /\ t.netMail = s.netMail /\ t.userMail = s.userMail
               /\ t.ended = s.ended
<1> DEFINE arr == Assign(s.arr, c, r)
           t == [s EXCEPT !.arr = arr]
<1>1. /\ t.tab = s.tab /\ t.netMail = s.netMail /\ t.userMail = s.userMail
      /\ t.ended = s.ended /\ t.clock = s.clock /\ t.arr = arr
      /\ IsState(t)
  <2> HIDE DEF arr
  <2> QED
    BY DEF StateOK, IsState
<1>2. SetClient(s, c, r) = t
  BY DEF SetClient, StateOK
<1> HIDE DEF t
<1>3. StateOK(t)
  BY <1>1 DEF StateOK
<1> QED
  BY <1>1, <1>2, <1>3

LEMMA Aborted ==
    ASSUME NEW s, StateOK(s)
    PROVE  LET t == Abort(s)
           IN  /\ StateOK(t)
               /\ t.tab = s.tab /\ t.netMail = s.netMail /\ t.userMail = s.userMail
               /\ t.ended
<1> DEFINE t == [s EXCEPT !.ended = TRUE]
<1>1. /\ t.tab = s.tab /\ t.netMail = s.netMail /\ t.userMail = s.userMail
      /\ t.ended = TRUE /\ t.clock = s.clock /\ t.arr = s.arr
      /\ IsState(t)
  <2>1. IsState(s)
    BY DEF StateOK
  <2>2. t = [tab |-> s.tab, arr |-> s.arr, clock |-> s.clock, netMail |-> s.netMail,
             userMail |-> s.userMail, ended |-> TRUE]
    BY <2>1, EndChanged
  <2> HIDE DEF t
  <2> QED
    BY <2>2 DEF IsState
<1>2. Abort(s) = t
  BY DEF Abort
<1> HIDE DEF t
<1>3. StateOK(t)
  BY <1>1 DEF StateOK
<1> QED
  BY <1>1, <1>2, <1>3

LEMMA LetterMade ==
    ASSUME mach \in Placements, NEW n \in Thread, NEW from \in Int, NEW type,
           NEW c \in Int \cup {None}, NEW arg
    PROVE  LetterOK(Letter(n, from, type, c, arg))
<1>1. mach[n] \in Int /\ n \in 0..Members
  BY Placed, DistributedLocksAssumption
<1> QED
  BY <1>1 DEF Letter, LetterOK

LEMMA MailReached ==
    ASSUME NEW mail, MailOK(mail), NEW address, NEW to, NEW msg, LetterOK(msg)
    PROVE  MailOK(Reached(mail, address, to, msg))
<1> DEFINE new == Reached(mail, address, to, msg)
<1>1. new = [k \in Thread |-> new[k]]
  BY DEF Reached
<1>2. ASSUME NEW k \in Thread
      PROVE  IsList(new[k]) /\ \A x \in Range(new[k]) : LetterOK(x)
  <2>1. new[k] = Append(mail[k], msg) \/ new[k] = mail[k]
    BY DEF Reached
  <2>2. IsList(mail[k]) /\ \A x \in Range(mail[k]) : LetterOK(x)
    BY DEF MailOK
  <2>3. IsList(Append(mail[k], msg)) /\ Range(Append(mail[k], msg)) = Range(mail[k]) \cup {msg}
    BY <2>2, AppendList
  <2> HIDE DEF new
  <2> QED
    BY <2>1, <2>2, <2>3
<1> HIDE DEF new
<1> QED
  BY <1>1, <1>2 DEF MailOK, new

LEMMA Sent ==
    ASSUME NEW s, StateOK(s), NEW to, NEW msg, LetterOK(msg)
    PROVE  LET t == Send(s, to, msg)
           IN  /\ StateOK(t)
               /\ t.tab = s.tab
<1> DEFINE boxes == {address \in to : address[2] \in 0..99}
           net == Reached(s.netMail, [k \in Thread |-> NetAddress(k)], boxes, msg)
           user == Reached(s.userMail, [k \in Thread |-> UserAddress(k)], boxes, msg)
           end == s.ended \/ boxes # to
           t == [s EXCEPT !.netMail = net, !.userMail = user, !.ended = end]
<1>1. Send(s, to, msg) = t
  BY DEF Send, StateOK
<1>2. end \in BOOLEAN
  BY DEF StateOK
<1> HIDE DEF net, user, end
<1>3. /\ t.tab = s.tab /\ t.netMail = net /\ t.userMail = user
      /\ t.ended = end /\ t.clock = s.clock /\ t.arr = s.arr
      /\ IsState(t)
  <2> DEFINE u == [s EXCEPT !.netMail = net]
             v == [u EXCEPT !.userMail = user]
  <2>1. IsState(s)
    BY DEF StateOK
  <2>2. u = [tab |-> s.tab, arr |-> s.arr, clock |-> s.clock, netMail |-> net,
             userMail |-> s.userMail, ended |-> s.ended]
    BY <2>1 DEF IsState
  <2> HIDE DEF u
  <2>3. v = [tab |-> s.tab, arr |-> s.arr, clock |-> s.clock, netMail |-> net,
             userMail |-> user, ended |-> s.ended]
    BY <2>2
  <2> HIDE DEF v
  <2>4. [v EXCEPT !.ended = end] =
            [tab |-> s.tab, arr |-> s.arr, clock |-> s.clock, netMail |-> net,
             userMail |-> user, ended |-> end]
    BY <2>3
  <2>5. t = [v EXCEPT !.ended = end]
    BY DEF u, v
  <2> HIDE DEF t
  <2> QED
    BY <2>4, <2>5 DEF IsState
<1>4. MailOK(net) /\ MailOK(user)
  BY MailReached DEF StateOK, net, user
<1> HIDE DEF t
<1>5. StateOK(t)
  BY <1>2, <1>3, <1>4 DEF StateOK
<1> QED
  BY <1>1, <1>3, <1>5

LEMMA Posted ==
    ASSUME mach \in Placements, NEW s, StateOK(s), NEW n \in Thread, NEW from \in Int, NEW to,
           NEW type, NEW c \in Int \cup {None}, NEW arg
    PROVE  LET t == Post(s, n, from, to, type, c, arg)
           IN  StateOK(t) /\ t.tab = s.tab /\ Kept(s, t)
<1>1. /\ StateOK(Post(s, n, from, to, type, c, arg))
      /\ Post(s, n, from, to, type, c, arg).tab = s.tab
  BY LetterMade, Sent DEF Post
<1> QED
  BY <1>1 DEF Kept, LocksOf

LEMMA Replied ==
    ASSUME mach \in Placements, NEW s, StateOK(s), NEW n \in Thread, NEW from \in Int,
           NEW to, NEW value
    PROVE  LET t == Reply(s, n, from, to, value)
           IN  StateOK(t) /\ t.tab = s.tab /\ Kept(s, t)
<1>1. None \in Int \cup {None}
  OBVIOUS
<1>2. Reply(s, n, from, to, value) = Post(s, n, from, to, "REPLY", None, <<value>>)
  BY DEF Reply
<1>3. ASSUME NEW type, NEW arg
      PROVE  /\ StateOK(Post(s, n, from, to, type, None, arg))
             /\ Post(s, n, from, to, type, None, arg).tab = s.tab
  <2>1. LetterOK(Letter(n, from, type, None, arg))
    BY <1>1, LetterMade
  <2> QED
    BY <2>1, Sent DEF Post
<1>4. /\ StateOK(Reply(s, n, from, to, value))
      /\ Reply(s, n, from, to, value).tab = s.tab
  BY <1>2, <1>3
<1> QED
  BY <1>4 DEF Kept, LocksOf

LEMMA RepliedToUser ==
    ASSUME mach \in Placements, NEW s, StateOK(s), NEW n \in Thread, NEW c, NEW value
    PROVE  LET t == ReplyToUser(s, n, c, value)
           IN  StateOK(t) /\ t.tab = s.tab /\ Kept(s, t)
BY Placed, Replied DEF ReplyToUser

LEMMA RepliedToOwnUser ==
    ASSUME mach \in Placements, NEW s, StateOK(s), NEW n \in Thread, NEW value
    PROVE  LET t == ReplyToOwnUser(s, n, value)
           IN  StateOK(t) /\ t.tab = s.tab /\ Kept(s, t)
BY Placed, Replied DEF ReplyToOwnUser

LEMMA RepliedToNet ==
    ASSUME mach \in Placements, NEW s, StateOK(s), NEW n \in Thread, NEW c, NEW value
    PROVE  LET t == ReplyToNet(s, n, c, value)
           IN  StateOK(t) /\ t.tab = s.tab /\ Kept(s, t)
BY Placed, Replied DEF ReplyToNet

LEMMA Verified ==
    ASSUME mach \in Placements, NEW s, StateOK(s), NEW n \in Thread, NEW type,
           NEW c \in Int \cup {None}, NEW arg
    PROVE  /\ StateOK(CreateVerify(s, n, type, c, arg))
           /\ CreateVerify(s, n, type, c, arg).tab = s.tab
<1> DEFINE to == {NetAddress(k) : k \in Thread \ {n}}
           msg == Letter(n, Box(n), type, c, arg)
           posted == Send(s, to, msg)
           r == [Client(posted, c) EXCEPT !.verifyResponses = 0]
<1>1. CreateVerify(s, n, type, c, arg) = SetClient(posted, c, r)
  BY DEF CreateVerify
<1>2. LetterOK(msg)
  BY Placed, LetterMade
<1> HIDE DEF to, msg
<1>3. StateOK(posted) /\ posted.tab = s.tab
  BY <1>2, Sent
<1> HIDE DEF posted, r
<1> QED
  BY <1>1, <1>3, ClientSet

\* Deleting an object.
Without(f, k) == [i \in DOMAIN f \ {k} |-> f[i]]

LEMMA Deleted ==
    ASSUME NEW s, StateOK(s), NEW kind \in Kinds, NEW k
    PROVE  LET t == Delete(s, kind, k)
           IN  /\ StateOK(t)
               /\ t.tab[kind].at = Without(s.tab[kind].at, k)
               /\ t.tab[kind].next = s.tab[kind].next - 1
               /\ \A other \in Kinds \ {kind} : t.tab[other] = s.tab[other]
               /\ t.arr = s.arr /\ t.netMail = s.netMail /\ t.userMail = s.userMail
               /\ t.ended = s.ended
<1> DEFINE at == Without(s.tab[kind].at, k)
           table == [s.tab[kind] EXCEPT !.at = at, !.next = @ - 1]
           t == [s EXCEPT !.tab = [@ EXCEPT ![kind] = table]]
<1>1. Delete(s, kind, k) = t
  BY DEF Delete, Without
<1>2. /\ table = [next |-> s.tab[kind].next - 1, at |-> at]
      /\ s.tab[kind].next \in Int
  <2> HIDE DEF at
  <2>1. TableOK(s.tab[kind])
    BY DEF StateOK, TablesOK
  <2> QED
    BY <2>1, TableChangedTo
<1>3. /\ DOMAIN at = DOMAIN s.tab[kind].at \ {k}
      /\ \A i \in DOMAIN at : at[i] = s.tab[kind].at[i]
      /\ at = [i \in DOMAIN at |-> at[i]]
  BY DEF Without
<1>4. /\ table.at = at /\ table.next = s.tab[kind].next - 1 /\ TableOK(table)
  <2> HIDE DEF at, table
  <2> QED
    BY <1>2, <1>3 DEF TableOK
<1>5. /\ kind = "lock" => \A i \in DOMAIN table.at : LockOK(table.at[i])
      /\ kind = "cv" => \A i \in DOMAIN table.at : VariableOK(table.at[i])
  <2> HIDE DEF at, table
  <2> QED
    BY <1>3, <1>4 DEF StateOK, TablesOK
<1>6. /\ StateOK(t)
      /\ t.tab[kind] = table
      /\ \A other \in Kinds \ {kind} : t.tab[other] = s.tab[other]
      /\ t.arr = s.arr /\ t.netMail = s.netMail /\ t.userMail = s.userMail
      /\ t.ended = s.ended
  <2> HIDE DEF at, table
  <2> QED
    BY <1>4, <1>5, TableChanged
<1> HIDE DEF at, table, t
<1>7. /\ StateOK(t)
      /\ t.tab[kind].at = at
      /\ t.tab[kind].next = s.tab[kind].next - 1
      /\ \A other \in Kinds \ {kind} : t.tab[other] = s.tab[other]
      /\ t.arr = s.arr /\ t.netMail = s.netMail /\ t.userMail = s.userMail
      /\ t.ended = s.ended
  BY <1>4, <1>6
<1> QED
  BY <1>1, <1>7 DEF at

\* Making an object.
LEMMA NewObject ==
    ASSUME NEW name, NEW id, NEW junk
    PROVE  LockOK(New("lock", name, id, junk)) /\ VariableOK(New("cv", name, id, junk))
<1> DEFINE lock == [name |-> name, globalId |-> id, free |-> TRUE, owner |-> NoOwner,
                    waitQueue |-> <<>>]
           variable == [name |-> name, globalId |-> id, firstLock |-> 0, waitQueue |-> <<>>]
<1>1. New("lock", name, id, junk) = lock /\ New("cv", name, id, junk) = variable
  BY DEF New
<1>2. LockOK(lock)
  BY EmptyList DEF LockOK
<1>3. VariableOK(variable)
  BY EmptyList DEF VariableOK
<1> QED
  BY <1>1, <1>2, <1>3

LEMMA NextChanged ==
    ASSUME NEW table, TableOK(table), NEW next \in Int
    PROVE  LET new == [table EXCEPT !.next = next]
           IN  TableOK(new) /\ new.next = next /\ new.at = table.at
BY DEF TableOK

LEMMA Created ==
    ASSUME NEW s, StateOK(s), NEW kind \in Kinds, NEW n, NEW name, NEW junk
    PROVE  LET t == Create(s, n, kind, name, junk)
               k == s.tab[kind].next
               id == uniqueGlobalID(n) * Multiple[kind] + k
           IN  /\ StateOK(t)
               /\ t.tab[kind].at = Assign(s.tab[kind].at, k, New(kind, name, id, junk))
               /\ t.tab[kind].next = k + 1
               /\ \A other \in Kinds \ {kind} : t.tab[other] = s.tab[other]
               /\ t.netMail = s.netMail /\ t.userMail = s.userMail
               /\ t.ended = s.ended
<1> DEFINE k == s.tab[kind].next
           id == uniqueGlobalID(n) * Multiple[kind] + k
           object == New(kind, name, id, junk)
           u == PutObject(s, kind, k, object)
           table == [u.tab[kind] EXCEPT !.next = k + 1]
           t == [u EXCEPT !.tab = [@ EXCEPT ![kind] = table]]
<1>1. /\ kind = "lock" => LockOK(object)
      /\ kind = "cv" => VariableOK(object)
  BY NewObject
<1>2. k \in Int
  BY DEF StateOK, TablesOK, TableOK
<1>3. Create(s, n, kind, name, junk) = [u EXCEPT !.tab[kind].next = k + 1]
  BY DEF Create
<1> HIDE DEF k, object
<1>4. /\ StateOK(u)
      /\ u.tab[kind].at = Assign(s.tab[kind].at, k, object)
      /\ \A other \in Kinds \ {kind} : u.tab[other] = s.tab[other]
      /\ u.netMail = s.netMail /\ u.userMail = s.userMail /\ u.ended = s.ended
  BY <1>1, ObjectPut
<1> HIDE DEF u
<1>5. [u EXCEPT !.tab[kind].next = k + 1] = t
  OBVIOUS
<1>6. TableOK(u.tab[kind])
  BY <1>4 DEF StateOK, TablesOK
<1>7. TableOK(table) /\ table.next = k + 1 /\ table.at = u.tab[kind].at
  BY <1>2, <1>6, NextChanged
<1> HIDE DEF table
<1>8. /\ kind = "lock" => \A i \in DOMAIN table.at : LockOK(table.at[i])
      /\ kind = "cv" => \A i \in DOMAIN table.at : VariableOK(table.at[i])
  BY <1>4, <1>7 DEF StateOK, TablesOK
<1>9. /\ StateOK(t)
      /\ t.tab[kind] = table
      /\ \A other \in Kinds \ {kind} : t.tab[other] = u.tab[other]
      /\ t.netMail = u.netMail /\ t.userMail = u.userMail /\ t.ended = u.ended
  BY <1>4, <1>7, <1>8, TableChanged
<1> HIDE DEF t
<1>10. /\ StateOK(t)
       /\ t.tab[kind].at = Assign(s.tab[kind].at, k, object)
       /\ t.tab[kind].next = k + 1
       /\ \A other \in Kinds \ {kind} : t.tab[other] = s.tab[other]
       /\ t.netMail = s.netMail /\ t.userMail = s.userMail /\ t.ended = s.ended
  BY <1>4, <1>7, <1>9
<1> QED
  BY <1>3, <1>5, <1>10 DEF k, object

-----------------------------------------------------------------------------
(* Locks pass in order                                                      *)

LEMMA OrderAssigned ==
    ASSUME NEW at, NEW k, NEW lock,
           k \in DOMAIN at /\ ~at[k].free /\ ~lock.free /\ lock.owner # at[k].owner
           => /\ at[k].waitQueue # <<>>
              /\ lock.owner = Head(at[k].waitQueue).to
              /\ lock.waitQueue = Tail(at[k].waitQueue)
    PROVE  InOrder(at, Assign(at, k, lock))
BY DEF InOrder, Assign

LEMMA OrderDeleted ==
    ASSUME NEW at, NEW k
    PROVE  InOrder(at, Without(at, k))
BY DEF InOrder, Without

LEMMA OrderKept == \A at : InOrder(at, at)
BY DEF InOrder

LEMMA KeptThenKept ==
    ASSUME NEW s, NEW t, NEW u, Kept(s, t), Kept(t, u)
    PROVE  Kept(s, u)
BY DEF Kept

LEMMA KeptIsHandled ==
    ASSUME NEW s, NEW t, Kept(s, t)
    PROVE  Handled(s, t)
BY OrderKept DEF Kept, Handled

\* What keeps the locks may come before or after.
LEMMA KeptThenHandled ==
    ASSUME NEW s, NEW t, NEW u, Kept(s, t), Handled(t, u)
    PROVE  Handled(s, u)
BY DEF Kept, Handled

LEMMA HandledThenKept ==
    ASSUME NEW s, NEW t, NEW u, Handled(s, t), Kept(t, u)
    PROVE  Handled(s, u)
BY DEF Kept, Handled

\* A lock with another state and owner.
LEMMA OwnerChanged ==
    ASSUME NEW lock, LockOK(lock), NEW free \in BOOLEAN, NEW owner
    PROVE  [lock EXCEPT !.free = free, !.owner = owner] =
               [name |-> lock.name, globalId |-> lock.globalId, free |-> free,
                owner |-> owner, waitQueue |-> lock.waitQueue]
<1> DEFINE u == [lock EXCEPT !.free = free]
<1>1. u = [name |-> lock.name, globalId |-> lock.globalId, free |-> free,
           owner |-> lock.owner, waitQueue |-> lock.waitQueue]
  <2>1. lock = [name |-> lock.name, globalId |-> lock.globalId, free |-> lock.free,
                owner |-> lock.owner, waitQueue |-> lock.waitQueue]
    BY DEF LockOK
  <2> QED
    BY ONLY <2>1, SMT DEF u
<1> HIDE DEF u
<1>2. [u EXCEPT !.owner = owner] =
          [name |-> lock.name, globalId |-> lock.globalId, free |-> free,
           owner |-> owner, waitQueue |-> lock.waitQueue]
  BY ONLY <1>1
<1> QED
  BY ONLY <1>2 DEF u

LEMMA FreedLock ==
    ASSUME NEW lock, LockOK(lock), lock.waitQueue = <<>>
    PROVE  LET new == [lock EXCEPT !.free = TRUE, !.owner = NoOwner]
           IN  LockOK(new) /\ new.free
<1> DEFINE new == [lock EXCEPT !.free = TRUE, !.owner = NoOwner]
<1>1. new = [name |-> lock.name, globalId |-> lock.globalId, free |-> TRUE,
             owner |-> NoOwner, waitQueue |-> lock.waitQueue]
  BY OwnerChanged
<1> HIDE DEF new
<1>2. LockOK(new) /\ new.free
  BY <1>1, EmptyList DEF LockOK
<1> QED
  BY <1>2 DEF new

LEMMA TakenLock ==
    ASSUME NEW lock, LockOK(lock), NEW to \in Nat \X Int
    PROVE  LET new == [lock EXCEPT !.free = FALSE, !.owner = to]
           IN  /\ LockOK(new) /\ ~new.free /\ new.owner = to
               /\ new.waitQueue = lock.waitQueue
<1> DEFINE new == [lock EXCEPT !.free = FALSE, !.owner = to]
<1>1. new = [name |-> lock.name, globalId |-> lock.globalId, free |-> FALSE,
             owner |-> to, waitQueue |-> lock.waitQueue]
  BY OwnerChanged
<1>2. to # NoOwner /\ QueueOK(lock.waitQueue)
  BY PlaceIsSomebody DEF LockOK
<1> HIDE DEF new
<1>3. /\ LockOK(new) /\ ~new.free /\ new.owner = to
      /\ new.waitQueue = lock.waitQueue
  BY <1>1, <1>2 DEF LockOK
<1> QED
  BY <1>3 DEF new

LEMMA QueueChanged ==
    ASSUME NEW lock, LockOK(lock), ~lock.free, NEW queue, QueueOK(queue)
    PROVE  LET new == [lock EXCEPT !.waitQueue = queue]
           IN  /\ LockOK(new) /\ ~new.free /\ new.owner = lock.owner
               /\ new.waitQueue = queue
<1> DEFINE new == [lock EXCEPT !.waitQueue = queue]
<1>1. new = [name |-> lock.name, globalId |-> lock.globalId, free |-> lock.free,
             owner |-> lock.owner, waitQueue |-> queue]
  BY DEF LockOK
<1> HIDE DEF new
<1>2. /\ LockOK(new) /\ ~new.free /\ new.owner = lock.owner
      /\ new.waitQueue = queue
  BY <1>1 DEF LockOK
<1> QED
  BY <1>2 DEF new

LEMMA GivenLock ==
    ASSUME NEW lock, LockOK(lock), lock.waitQueue # <<>>
    PROVE  LET reply == Head(lock.waitQueue)
               new == [lock EXCEPT !.free = FALSE, !.owner = reply.to, !.waitQueue = Tail(@)]
           IN  /\ LockOK(new) /\ ~new.free
               /\ new.owner = Head(lock.waitQueue).to
               /\ new.waitQueue = Tail(lock.waitQueue)
<1> DEFINE to == Head(lock.waitQueue).to
           rest == Tail(lock.waitQueue)
           taken == [lock EXCEPT !.free = FALSE, !.owner = to]
           new == [taken EXCEPT !.waitQueue = rest]
<1>1. to \in Nat \X Int /\ QueueOK(rest)
  BY TailWaiter DEF LockOK
<1> HIDE DEF to, rest
<1>2. LockOK(taken) /\ ~taken.free /\ taken.owner = to
  BY <1>1, TakenLock
<1>3. [lock EXCEPT !.free = FALSE, !.owner = to, !.waitQueue = rest] = new
  OBVIOUS
<1> HIDE DEF taken
<1>4. /\ LockOK(new) /\ ~new.free /\ new.owner = to
      /\ new.waitQueue = rest
  BY <1>1, <1>2, QueueChanged
<1> QED
  BY <1>3, <1>4 DEF to, rest

LEMMA LockPut ==
    ASSUME NEW s, StateOK(s), NEW k, NEW lock, LockOK(lock),
           k \in DOMAIN LocksOf(s) /\ ~LocksOf(s)[k].free /\ ~lock.free
               /\ lock.owner # LocksOf(s)[k].owner
           => /\ LocksOf(s)[k].waitQueue # <<>>
              /\ lock.owner = Head(LocksOf(s)[k].waitQueue).to
              /\ lock.waitQueue = Tail(LocksOf(s)[k].waitQueue)
    PROVE  Handled(s, PutObject(s, "lock", k, lock))
<1> DEFINE t == PutObject(s, "lock", k, lock)
<1>1. StateOK(t) /\ LocksOf(t) = Assign(LocksOf(s), k, lock)
  BY ObjectPut DEF Kinds, LocksOf
<1> HIDE DEF t
<1>2. InOrder(LocksOf(s), LocksOf(t))
  BY <1>1, OrderAssigned
<1> QED
  BY <1>1, <1>2 DEF Handled, t

LEMMA OtherPut ==
    ASSUME NEW s, StateOK(s), NEW k, NEW object
    PROVE  /\ VariableOK(object) => Kept(s, PutObject(s, "cv", k, object))
           /\ Kept(s, PutObject(s, "mv", k, object))
BY ObjectPut DEF Kinds, LocksOf, Kept

LEMMA LockIsOK ==
    ASSUME NEW s, StateOK(s), NEW k, Has(s, "lock", k)
    PROVE  /\ LockOK(Object(s, "lock", k))
           /\ Object(s, "lock", k) = LocksOf(s)[k]
           /\ k \in DOMAIN LocksOf(s)
BY DEF StateOK, TablesOK, Has, Object, LocksOf

LEMMA VariableIsOK ==
    ASSUME NEW s, StateOK(s), NEW i, Has(s, "cv", i)
    PROVE  VariableOK(Object(s, "cv", i))
BY DEF StateOK, TablesOK, Has, Object

\* HandOver: a lock with an empty queue becomes free, another goes to the
\* first in its queue.
LEMMA HandOverOK ==
    ASSUME mach \in Placements, NEW s, StateOK(s), NEW n \in Thread, NEW k,
           Has(s, "lock", k)
    PROVE  Handled(s, HandOver(s, n, k))
<1> DEFINE lock == Object(s, "lock", k)
           reply == Head(lock.waitQueue)
           freed == [lock EXCEPT !.free = TRUE, !.owner = NoOwner]
           given == [lock EXCEPT !.free = FALSE, !.owner = reply.to, !.waitQueue = Tail(@)]
           t == PutObject(s, "lock", k, given)
<1>1. LockOK(lock) /\ lock = LocksOf(s)[k]
  BY LockIsOK
<1>2. CASE lock.waitQueue = <<>>
  <2>1. HandOver(s, n, k) = PutObject(s, "lock", k, freed)
    BY <1>2 DEF HandOver
  <2>2. LockOK(freed) /\ freed.free
    BY <1>1, <1>2, FreedLock
  <2> HIDE DEF freed
  <2> QED
    BY <2>1, <2>2, LockPut
<1>3. CASE lock.waitQueue # <<>>
  <2>1. HandOver(s, n, k) = Reply(t, n, mach[n], reply.to, reply.value)
    BY <1>3 DEF HandOver
  <2>2. /\ LockOK(given) /\ ~given.free
        /\ given.owner = Head(lock.waitQueue).to
        /\ given.waitQueue = Tail(lock.waitQueue)
    BY <1>1, <1>3, GivenLock
  <2> HIDE DEF given
  <2>3. Handled(s, t)
    BY <1>1, <1>3, <2>2, LockPut
  <2> HIDE DEF t
  <2>4. StateOK(t) /\ mach[n] \in Int
    BY <2>3, Placed DEF Handled
  <2> HIDE DEF reply
  <2>5. Kept(t, Reply(t, n, mach[n], reply.to, reply.value))
    BY <2>4, Replied
  <2> QED
    BY <2>1, <2>3, <2>5, HandledThenKept
<1> QED
  BY <1>2, <1>3

\* Acquire: a free lock is taken, for another one the client joins the queue.
LEMMA AcquireOK ==
    ASSUME mach \in Placements, NEW s, StateOK(s), NEW n \in Thread, NEW c \in Int, NEW id
    PROVE  /\ Handled(s, Acquire(s, n, c, id))
           /\ Acquire(s, n, c, id).tab["cv"] = s.tab["cv"]
           /\ \A k \in DOMAIN LocksOf(s) :
                  /\ k \in DOMAIN LocksOf(Acquire(s, n, c, id))
                  /\ k = id % Multiple["lock"] /\ ~LocksOf(s)[k].free
                     => /\ ~LocksOf(Acquire(s, n, c, id))[k].free
                        /\ LocksOf(Acquire(s, n, c, id))[k].owner = LocksOf(s)[k].owner
                  /\ k # id % Multiple["lock"]
                     => LocksOf(Acquire(s, n, c, id))[k] = LocksOf(s)[k]
<1> DEFINE k == id % Multiple["lock"]
           lock == Object(s, "lock", k)
           waiter == [to |-> NetOf(c), value |-> lock.globalId]
           queue == Append(lock.waitQueue, waiter)
           queued == [lock EXCEPT !.waitQueue = queue]
           taken == [lock EXCEPT !.free = FALSE, !.owner = NetOf(c)]
           t == PutObject(s, "lock", k, taken)
           u == PutObject(s, "lock", k, queued)
<1>1. CASE ~InRange("lock", id) \/ ~Has(s, "lock", k)
  <2>1. Acquire(s, n, c, id) = s
    BY <1>1 DEF Acquire
  <2>2. Kept(s, s)
    BY DEF Kept
  <2> QED
    BY <2>1, <2>2, KeptIsHandled
<1> SUFFICES ASSUME InRange("lock", id), Has(s, "lock", k)
             PROVE  /\ Handled(s, Acquire(s, n, c, id))
                    /\ Acquire(s, n, c, id).tab["cv"] = s.tab["cv"]
                    /\ \A j \in DOMAIN LocksOf(s) :
                           /\ j \in DOMAIN LocksOf(Acquire(s, n, c, id))
                           /\ j = k /\ ~LocksOf(s)[j].free
                              => /\ ~LocksOf(Acquire(s, n, c, id))[j].free
                                 /\ LocksOf(Acquire(s, n, c, id))[j].owner
                                        = LocksOf(s)[j].owner
                           /\ j # k
                              => LocksOf(Acquire(s, n, c, id))[j] = LocksOf(s)[j]
  BY <1>1
<1>2. LockOK(lock) /\ lock = LocksOf(s)[k] /\ k \in DOMAIN LocksOf(s)
  BY LockIsOK
<1>3. NetOf(c) \in Nat \X Int
  BY NetIsPlace
<1> HIDE DEF k
<1>4. CASE ~IsFree(s, k)
  <2>1. Acquire(s, n, c, id) = u
    BY <1>4 DEF Acquire, k
  <2>2. ~lock.free
    BY <1>4 DEF IsFree
  <2>3. QueueOK(queue)
    BY <1>2, <1>3, AppendWaiter DEF LockOK
  <2> HIDE DEF queue
  <2>4. LockOK(queued) /\ ~queued.free /\ queued.owner = lock.owner
    BY <1>2, <2>2, <2>3, QueueChanged
  <2> HIDE DEF queued
  <2>5. Handled(s, u)
    BY <1>2, <2>4, LockPut
  <2>6. LocksOf(u) = Assign(LocksOf(s), k, queued) /\ u.tab["cv"] = s.tab["cv"]
    BY <2>4, ObjectPut DEF Kinds, LocksOf
  <2>7. /\ DOMAIN LocksOf(u) = DOMAIN LocksOf(s) \cup {k}
        /\ LocksOf(u)[k] = queued
        /\ \A j \in DOMAIN LocksOf(s) : j # k => LocksOf(u)[j] = LocksOf(s)[j]
    BY <2>6 DEF Assign
  <2> HIDE DEF u
  <2> QED
    BY <1>2, <2>1, <2>4, <2>5, <2>6, <2>7
<1>5. CASE IsFree(s, k)
  <2>1. Acquire(s, n, c, id) = ReplyToUser(t, n, c, lock.globalId)
    BY <1>5 DEF Acquire, k
  <2>2. lock.free
    BY <1>5 DEF IsFree
  <2>3. LockOK(taken)
    BY <1>2, <1>3, TakenLock
  <2> HIDE DEF taken
  <2>4. Handled(s, t)
    BY <1>2, <2>2, <2>3, LockPut
  <2>5. LocksOf(t) = Assign(LocksOf(s), k, taken) /\ t.tab["cv"] = s.tab["cv"]
    BY <2>3, ObjectPut DEF Kinds, LocksOf
  <2>6. /\ DOMAIN LocksOf(t) = DOMAIN LocksOf(s) \cup {k}
        /\ \A j \in DOMAIN LocksOf(s) : j # k => LocksOf(t)[j] = LocksOf(s)[j]
    BY <2>5 DEF Assign
  <2> HIDE DEF t
  <2>7. /\ Kept(t, ReplyToUser(t, n, c, lock.globalId))
        /\ ReplyToUser(t, n, c, lock.globalId).tab = t.tab
    BY <2>4, RepliedToUser DEF Handled
  <2>8. LocksOf(Acquire(s, n, c, id)) = LocksOf(t)
    BY <2>1, <2>7 DEF Kept
  <2> QED
    BY <1>2, <2>1, <2>2, <2>4, <2>5, <2>6, <2>7, <2>8, HandledThenKept
<1> QED
  BY <1>4, <1>5

\* Release, DestroyLock.
LEMMA ReleaseOK ==
    ASSUME mach \in Placements, NEW s, StateOK(s), NEW n \in Thread, NEW c, NEW id
    PROVE  Handled(s, Release(s, n, c, id))
<1> DEFINE k == id % Multiple["lock"]
           t == ReplyToUser(s, n, c, Object(s, "lock", k).globalId)
<1>1. CASE ~InRange("lock", id) \/ ~Has(s, "lock", k)
  BY <1>1, KeptIsHandled DEF Release, Kept
<1>2. CASE InRange("lock", id) /\ Has(s, "lock", k)
  <2>1. Release(s, n, c, id) = HandOver(t, n, k)
    BY <1>2 DEF Release
  <2>2. StateOK(t) /\ t.tab = s.tab /\ Kept(s, t)
    BY RepliedToUser
  <2>3. Has(t, "lock", k)
    BY <1>2, <2>2 DEF Has
  <2> HIDE DEF t, k
  <2>4. Handled(t, HandOver(t, n, k))
    BY <2>2, <2>3, HandOverOK
  <2> QED
    BY <2>1, <2>2, <2>4, KeptThenHandled
<1> QED
  BY <1>1, <1>2

LEMMA DeleteOK ==
    ASSUME NEW s, StateOK(s), NEW k
    PROVE  /\ Handled(s, Delete(s, "lock", k))
           /\ Kept(s, Delete(s, "cv", k))
           /\ Kept(s, Delete(s, "mv", k))
<1>1. Handled(s, Delete(s, "lock", k))
  BY Deleted, OrderDeleted DEF Kinds, Handled, LocksOf
<1>2. Kept(s, Delete(s, "cv", k)) /\ Kept(s, Delete(s, "mv", k))
  BY Deleted DEF Kinds, Kept, LocksOf
<1> QED
  BY <1>1, <1>2

LEMMA DestroyLockOK ==
    ASSUME mach \in Placements, NEW s, StateOK(s), NEW n \in Thread, NEW c, NEW id
    PROVE  Handled(s, DestroyLock(s, n, c, id))
<1> DEFINE k == id % Multiple["lock"]
           t == Delete(s, "lock", k)
           u == ReplyToUser(t, n, c, Object(s, "lock", k).globalId)
<1>1. DestroyLock(s, n, c, id) = s \/ DestroyLock(s, n, c, id) = u
  BY DEF DestroyLock
<1>2. Handled(s, s)
  BY KeptIsHandled DEF Kept
<1>3. Handled(s, t)
  BY DeleteOK
<1> HIDE DEF t
<1>4. Kept(t, u)
  BY <1>3, RepliedToUser DEF Handled
<1> HIDE DEF u
<1> QED
  BY <1>1, <1>2, <1>3, <1>4, HandledThenKept

\* Monitor variables and the destruction of condition variables.
LEMMA VariablesOK ==
    ASSUME mach \in Placements, NEW s, StateOK(s), NEW n \in Thread, NEW c, NEW id, NEW value
    PROVE  /\ Kept(s, SetMV(s, n, c, id, value))
           /\ Kept(s, DestroyMV(s, n, c, id))
           /\ Kept(s, DestroyCV(s, n, c, id))
<1>1. Kept(s, s)
  BY DEF Kept
<1>2. Kept(s, SetMV(s, n, c, id, value))
  <2> DEFINE k == id % Multiple["mv"]
             t == PutObject(s, "mv", k, [Object(s, "mv", k) EXCEPT !.value = value])
             u == ReplyToUser(t, n, c, 0)
  <2>1. SetMV(s, n, c, id, value) = s \/ SetMV(s, n, c, id, value) = u
    BY DEF SetMV
  <2>2. Kept(s, t)
    BY OtherPut
  <2> HIDE DEF t
  <2>3. Kept(t, u)
    BY <2>2, RepliedToUser DEF Kept
  <2> HIDE DEF u
  <2> QED
    BY <1>1, <2>1, <2>2, <2>3, KeptThenKept
<1>3. Kept(s, DestroyMV(s, n, c, id))
  <2> DEFINE k == id % Multiple["mv"]
             t == Delete(s, "mv", k)
             u == ReplyToNet(t, n, c, Object(s, "mv", k).globalId)
  <2>1. DestroyMV(s, n, c, id) = s \/ DestroyMV(s, n, c, id) = u
    BY DEF DestroyMV
  <2>2. Kept(s, t)
    BY DeleteOK
  <2> HIDE DEF t
  <2>3. Kept(t, u)
    BY <2>2, RepliedToNet DEF Kept
  <2> HIDE DEF u
  <2> QED
    BY <1>1, <2>1, <2>2, <2>3, KeptThenKept
<1>4. Kept(s, DestroyCV(s, n, c, id))
  <2> DEFINE i == id % Multiple["cv"]
             t == Delete(s, "cv", i)
             u == ReplyToNet(t, n, c, i)
  <2>1. DestroyCV(s, n, c, id) = s \/ DestroyCV(s, n, c, id) = u
    BY DEF DestroyCV
  <2>2. Kept(s, t)
    BY DeleteOK
  <2> HIDE DEF t
  <2>3. Kept(t, u)
    BY <2>2, RepliedToNet DEF Kept
  <2> HIDE DEF u
  <2> QED
    BY <1>1, <2>1, <2>2, <2>3, KeptThenKept
<1> QED
  BY <1>2, <1>3, <1>4

-----------------------------------------------------------------------------
(* Condition variables                                                      *)

LEMMA VariableChanged ==
    ASSUME NEW variable, VariableOK(variable), NEW first, NEW queue, QueueOK(queue)
    PROVE  /\ VariableOK([variable EXCEPT !.firstLock = first, !.waitQueue = queue])
           /\ VariableOK([variable EXCEPT !.firstLock = first])
           /\ VariableOK([variable EXCEPT !.waitQueue = queue])
           /\ [variable EXCEPT !.waitQueue = queue].waitQueue = queue
<1> DEFINE u == [variable EXCEPT !.firstLock = first]
           v == [variable EXCEPT !.waitQueue = queue]
           w == [u EXCEPT !.waitQueue = queue]
<1>1. /\ variable = [name |-> variable.name, globalId |-> variable.globalId,
                     firstLock |-> variable.firstLock, waitQueue |-> variable.waitQueue]
      /\ QueueOK(variable.waitQueue)
  BY DEF VariableOK
<1>2. u = [name |-> variable.name, globalId |-> variable.globalId,
           firstLock |-> first, waitQueue |-> variable.waitQueue]
  BY ONLY <1>1 DEF u
<1>3. v = [name |-> variable.name, globalId |-> variable.globalId,
           firstLock |-> variable.firstLock, waitQueue |-> queue]
  BY ONLY <1>1 DEF v
<1>4. w = [variable EXCEPT !.firstLock = first, !.waitQueue = queue]
  OBVIOUS
<1> HIDE DEF u, v
<1>5. w = [name |-> variable.name, globalId |-> variable.globalId,
           firstLock |-> first, waitQueue |-> queue]
  BY ONLY <1>2 DEF w
<1> HIDE DEF w
<1>6. VariableOK(u) /\ VariableOK(v) /\ VariableOK(w) /\ v.waitQueue = queue
  BY <1>1, <1>2, <1>3, <1>5 DEF VariableOK
<1> QED
  BY <1>4, <1>6 DEF u, v

\* A waiter joins the queue of a condition variable.
Joined(variable, first, c, value) ==
    [variable EXCEPT !.firstLock = first,
                     !.waitQueue = Append(@, [to |-> NetOf(c), value |-> value])]

LEMMA WaiterJoined ==
    ASSUME NEW s, StateOK(s), NEW i, Has(s, "cv", i), NEW first, NEW c \in Int, NEW value
    PROVE  LET t == PutObject(s, "cv", i, Joined(Object(s, "cv", i), first, c, value))
           IN  Kept(s, t) /\ t.tab["lock"] = s.tab["lock"]
<1> DEFINE variable == Object(s, "cv", i)
           waiter == [to |-> NetOf(c), value |-> value]
           queue == Append(variable.waitQueue, waiter)
           new == [variable EXCEPT !.firstLock = first, !.waitQueue = queue]
<1>1. VariableOK(variable)
  BY VariableIsOK
<1>2. QueueOK(queue)
  BY <1>1, NetIsPlace, AppendWaiter DEF VariableOK
<1> HIDE DEF queue
<1>3. VariableOK(new)
  BY <1>1, <1>2, VariableChanged
<1> HIDE DEF new
<1>4. Kept(s, PutObject(s, "cv", i, new))
  BY <1>3, OtherPut
<1>5. PutObject(s, "cv", i, new).tab["lock"] = s.tab["lock"]
  BY <1>3, ObjectPut DEF Kinds
<1> QED
  BY <1>4, <1>5 DEF new, queue, Joined

LEMMA WaitOK ==
    ASSUME mach \in Placements, NEW s, StateOK(s), NEW n \in Thread, NEW msg, LetterOK(msg),
           NEW c \in Int, NEW cv, NEW id
    PROVE  Handled(s, Wait(s, n, msg, c, cv, id))
<1> DEFINE k == id % Multiple["lock"]
           i == cv % Multiple["cv"]
           variable == Object(s, "cv", i)
           first == IF variable.waitQueue = <<>> THEN id ELSE variable.firstLock
           t == PutObject(s, "cv", i, Joined(variable, first, c, cv))
           u == Post(s, n, msg.from[2], <<0, 0>>, "WAITCV", None,
                     <<c, i + uniqueGlobalID(n) * Multiple["lock"], id>>)
<1>1. \/ Wait(s, n, msg, c, cv, id) = s
      \/ Wait(s, n, msg, c, cv, id) = u
      \/ /\ Wait(s, n, msg, c, cv, id) = HandOver(t, n, k)
         /\ Has(s, "lock", k) /\ Has(s, "cv", i)
  BY DEF Wait, Joined
<1>2. CASE Wait(s, n, msg, c, cv, id) = s
  BY <1>2, KeptIsHandled DEF Kept
<1>3. CASE Wait(s, n, msg, c, cv, id) = u
  <2>1. msg.from[2] \in Int /\ None \in Int \cup {None}
    BY ClientIsNumber
  <2>2. ASSUME NEW to, NEW type, NEW arg
        PROVE  Kept(s, Post(s, n, msg.from[2], to, type, None, arg))
    BY <2>1, Posted
  <2> QED
    BY <1>3, <2>2, KeptIsHandled
<1>4. CASE /\ Wait(s, n, msg, c, cv, id) = HandOver(t, n, k)
           /\ Has(s, "lock", k) /\ Has(s, "cv", i)
  <2> HIDE DEF k, i, first
  <2>1. Kept(s, t) /\ t.tab["lock"] = s.tab["lock"]
    BY <1>4, WaiterJoined
  <2> HIDE DEF t
  <2>2. Has(t, "lock", k)
    BY <1>4, <2>1 DEF Has
  <2>3. Handled(t, HandOver(t, n, k))
    BY <2>1, <2>2, HandOverOK DEF Kept
  <2> QED
    BY <1>4, <2>1, <2>3, KeptThenHandled
<1> QED
  BY <1>1, <1>2, <1>3, <1>4

LEMMA ForgetOK ==
    ASSUME NEW s, StateOK(s), NEW i, Has(s, "cv", i)
    PROVE  Kept(s, Forget(s, i))
<1> DEFINE new == [Object(s, "cv", i) EXCEPT !.firstLock = -1]
<1>1. VariableOK(new)
  BY VariableIsOK, EmptyList, VariableChanged
<1>2. Forget(s, i) = s \/ Forget(s, i) = PutObject(s, "cv", i, new)
  BY DEF Forget
<1> HIDE DEF new
<1> QED
  BY <1>1, <1>2, OtherPut DEF Kept

\* Every lock that is held stays with its owner.
StillHeld(before, after) ==
    \A k \in DOMAIN before :
        /\ k \in DOMAIN after
        /\ ~before[k].free => ~after[k].free /\ after[k].owner = before[k].owner

\* The first waiter asks for the lock; if that is held, nothing changes hands.
LEMMA WakeFirstOK ==
    ASSUME mach \in Placements, NEW s, StateOK(s), NEW n \in Thread, NEW i, Has(s, "cv", i),
           Object(s, "cv", i).waitQueue # <<>>, NEW id
    PROVE  LET t == WakeFirst(s, n, i, id)
               k == id % Multiple["lock"]
           IN  /\ Handled(s, t)
               /\ Has(t, "cv", i)
               /\ Object(t, "cv", i).waitQueue = Tail(Object(s, "cv", i).waitQueue)
               /\ k \in DOMAIN LocksOf(s) /\ ~LocksOf(s)[k].free
                  => StillHeld(LocksOf(s), LocksOf(t))
<1> DEFINE variable == Object(s, "cv", i)
           to == Head(variable.waitQueue).to
           c == 100 * to[1] + to[2] - 1
           new == [variable EXCEPT !.waitQueue = Tail(@)]
           u == PutObject(s, "cv", i, new)
           t == Acquire(u, n, c, id)
           k == id % Multiple["lock"]
<1>1. WakeFirst(s, n, i, id) = t
  BY DEF WakeFirst
<1>2. VariableOK(variable) /\ QueueOK(Tail(variable.waitQueue)) /\ to \in Nat \X Int
  BY VariableIsOK, TailWaiter DEF VariableOK
<1>3. c \in Int
  BY <1>2
<1>4. VariableOK(new) /\ new.waitQueue = Tail(variable.waitQueue)
  BY <1>2, VariableChanged
<1> HIDE DEF c, new, k
<1>5. Kept(s, u)
  BY <1>4, OtherPut
<1>6. u.tab["cv"].at = Assign(s.tab["cv"].at, i, new)
  BY <1>4, ObjectPut DEF Kinds
<1>7. Has(u, "cv", i) /\ Object(u, "cv", i) = new
  BY <1>6 DEF Has, Object, Assign
<1> HIDE DEF u
<1>8. Handled(u, t) /\ t.tab["cv"] = u.tab["cv"]
  BY <1>3, <1>5, AcquireOK DEF Kept
<1>9. ASSUME k \in DOMAIN LocksOf(s), ~LocksOf(s)[k].free
      PROVE  StillHeld(LocksOf(s), LocksOf(t))
  <2>1. LocksOf(u) = LocksOf(s) /\ StateOK(u)
    BY <1>5 DEF Kept
  <2>2. \A j \in DOMAIN LocksOf(u) :
            /\ j \in DOMAIN LocksOf(t)
            /\ j = k /\ ~LocksOf(u)[j].free
               => ~LocksOf(t)[j].free /\ LocksOf(t)[j].owner = LocksOf(u)[j].owner
            /\ j # k => LocksOf(t)[j] = LocksOf(u)[j]
    BY <1>3, <2>1, AcquireOK DEF k
  <2> HIDE DEF t
  <2> QED
    BY <1>9, <2>1, <2>2 DEF StillHeld
<1> HIDE DEF t
<1>10. Handled(s, t)
  BY <1>5, <1>8, KeptThenHandled
<1>11. Has(t, "cv", i) /\ Object(t, "cv", i).waitQueue = Tail(variable.waitQueue)
  BY <1>4, <1>7, <1>8 DEF Has, Object
<1> QED
  BY <1>1, <1>9, <1>10, <1>11 DEF k

\* The states after each of the waiters that Broadcast wakes.
LEMMA WokenExists ==
    ASSUME NEW s, NEW n, NEW i, NEW id, NEW count \in Nat
    PROVE  \E w : w = [j \in 0..count |->
                           IF j = 0 THEN s ELSE WakeFirst(w[j - 1], n, i, id)]
<1> DEFINE Made(m) == \E w : w = [j \in 0..m |->
                                     IF j = 0 THEN s ELSE WakeFirst(w[j - 1], n, i, id)]
           Bad == {m \in Nat : ~Made(m)}
<1> SUFFICES Bad = {}
  OBVIOUS
<1> SUFFICES ASSUME Bad # {} PROVE FALSE
  OBVIOUS
<1>1. PICK m \in Bad : \A x \in Bad : m <= x
  <2> HIDE DEF Made
  <2>1. Bad \in SUBSET Nat
    OBVIOUS
  <2> QED
    BY <2>1, MinOfNat
<1>2. m \in Nat /\ ~Made(m)
  OBVIOUS
<1>3. m # 0
  <2>1. [j \in {0} |-> s] = [j \in 0..0 |-> IF j = 0 THEN s
                               ELSE WakeFirst([x \in {0} |-> s][j - 1], n, i, id)]
    <3>1. 0..0 = {0}
      OBVIOUS
    <3> QED
      BY <3>1
  <2>2. Made(0)
    BY <2>1
  <2> QED
    BY <1>2, <2>2
<1>4. Made(m - 1)
  <2> HIDE DEF Made
  <2>1. m - 1 \in Nat /\ ~(m <= m - 1)
    BY <1>2, <1>3
  <2> QED
    BY <1>1, <2>1
<1>5. PICK w : w = [j \in 0..m - 1 |->
                        IF j = 0 THEN s ELSE WakeFirst(w[j - 1], n, i, id)]
  BY <1>4
<1> DEFINE v == [j \in 0..m |-> IF j = m THEN WakeFirst(w[m - 1], n, i, id) ELSE w[j]]
<1>6. v = [j \in 0..m |-> IF j = 0 THEN s ELSE WakeFirst(v[j - 1], n, i, id)]
  <2>1. ASSUME NEW j \in 0..m
        PROVE  v[j] = IF j = 0 THEN s ELSE WakeFirst(v[j - 1], n, i, id)
    <3>1. CASE j = m
      <4>1. v[j] = WakeFirst(w[m - 1], n, i, id) /\ v[j - 1] = w[m - 1] /\ j # 0
        BY <1>2, <1>3, <3>1
      <4> QED
        BY <3>1, <4>1
    <3>2. CASE j # m
      <4>1. j \in 0..m - 1 /\ v[j] = w[j]
        BY <1>2, <3>2
      <4>2. j # 0 => v[j - 1] = w[j - 1]
        BY <1>2, <3>2
      <4>3. w[j] = IF j = 0 THEN s ELSE WakeFirst(w[j - 1], n, i, id)
        BY <1>5, <4>1
      <4> QED
        BY <4>1, <4>2, <4>3
    <3> QED
      BY <3>1, <3>2
  <2> QED
    BY <2>1
<1>7. Made(m)
  BY <1>6
<1> QED
  BY <1>2, <1>7

LEMMA WokenStates ==
    ASSUME NEW s, NEW n, NEW i, NEW id, NEW count \in Nat
    PROVE  LET woken == Woken(s, n, i, id, count)
           IN  /\ woken[0] = s
               /\ \A j \in 1..count : woken[j] = WakeFirst(woken[j - 1], n, i, id)
<1> DEFINE woken == Woken(s, n, i, id, count)
<1>1. woken = [j \in 0..count |-> IF j = 0 THEN s ELSE WakeFirst(woken[j - 1], n, i, id)]
  BY WokenExists DEF Woken
<1> HIDE DEF woken
<1>2. /\ woken[0] = s
      /\ \A j \in 1..count : woken[j] = WakeFirst(woken[j - 1], n, i, id)
  BY <1>1
<1> QED
  BY <1>2 DEF woken

\* A signal or a broadcast leaves a lock with its owner.
LEMMA HeldIsOwned ==
    ASSUME NEW s, StateOK(s), NEW i, NEW k, CanSignal(s, i, k)
    PROVE  /\ Has(s, "lock", k) /\ Has(s, "cv", i)
           /\ k \in DOMAIN LocksOf(s) /\ ~LocksOf(s)[k].free
<1>1. Has(s, "lock", k) /\ Has(s, "cv", i) /\ HasOwner(s, k)
  BY DEF CanSignal
<1>2. /\ LockOK(LocksOf(s)[k]) /\ k \in DOMAIN LocksOf(s)
      /\ LocksOf(s)[k].owner # NoOwner
  BY <1>1, LockIsOK DEF HasOwner
<1> QED
  BY <1>1, <1>2 DEF LockOK

LEMMA SignalOK ==
    ASSUME mach \in Placements, NEW s, StateOK(s), NEW n \in Thread, NEW c, NEW cv, NEW id
    PROVE  Handled(s, Signal(s, n, c, cv, id))
<1> DEFINE k == id % Multiple["lock"]
           i == cv % Multiple["cv"]
           answered == ReplyToNet(s, n, c, i)
           variable == Object(s, "cv", i)
           woken == WakeFirst(answered, n, i, id)
<1>1. \/ Signal(s, n, c, cv, id) = s
      \/ /\ CanSignal(s, i, k)
         /\ \/ Signal(s, n, c, cv, id) = Forget(answered, i)
            \/ Signal(s, n, c, cv, id) = answered
            \/ Signal(s, n, c, cv, id) = Forget(woken, i) /\ variable.waitQueue # <<>>
  BY DEF Signal
<1> HIDE DEF i, k
<1>2. Kept(s, answered) /\ answered.tab = s.tab /\ StateOK(answered)
  BY RepliedToNet
<1>3. CASE Signal(s, n, c, cv, id) = s
  BY <1>3, KeptIsHandled DEF Kept
<1> SUFFICES ASSUME CanSignal(s, i, k), Signal(s, n, c, cv, id) # s
             PROVE  Handled(s, Signal(s, n, c, cv, id))
  BY <1>1, <1>3
<1>4. Has(answered, "cv", i) /\ Object(answered, "cv", i) = variable
  BY <1>2, HeldIsOwned DEF Has, Object
<1> HIDE DEF answered, variable
<1>5. Kept(answered, Forget(answered, i))
  BY <1>2, <1>4, ForgetOK
<1>6. CASE Signal(s, n, c, cv, id) = Forget(answered, i)
  BY <1>2, <1>5, <1>6, KeptThenKept, KeptIsHandled
<1>7. CASE Signal(s, n, c, cv, id) = answered
  BY <1>2, <1>7, KeptIsHandled
<1>8. CASE Signal(s, n, c, cv, id) = Forget(woken, i) /\ variable.waitQueue # <<>>
  <2>1. Handled(answered, woken) /\ Has(woken, "cv", i)
    BY <1>2, <1>4, <1>8, WakeFirstOK
  <2> HIDE DEF woken
  <2>2. Kept(woken, Forget(woken, i))
    BY <2>1, ForgetOK DEF Handled
  <2>3. Handled(answered, Forget(woken, i))
    BY <2>1, <2>2, HandledThenKept
  <2> QED
    BY <1>2, <1>8, <2>3, KeptThenHandled
<1> QED
  BY <1>1, <1>6, <1>7, <1>8

LEMMA StillHeldThen ==
    ASSUME NEW a, NEW b, NEW d, StillHeld(a, b), StillHeld(b, d)
    PROVE  StillHeld(a, d)
BY DEF StillHeld

LEMMA StillHeldInOrder ==
    ASSUME NEW a, NEW b, StillHeld(a, b)
    PROVE  InOrder(a, b)
BY DEF StillHeld, InOrder

\* Broadcast: all waiters join the queue of the lock that is held.
LEMMA AllWoken ==
    ASSUME mach \in Placements, NEW s, StateOK(s), NEW n \in Thread, NEW i, NEW id,
           NEW k, k = id % Multiple["lock"], CanSignal(s, i, k), NEW count \in Nat,
           count = Len(Object(s, "cv", i).waitQueue)
    PROVE  LET woken == Woken(s, n, i, id, count)
           IN  /\ StateOK(woken[count])
               /\ Has(woken[count], "cv", i)
               /\ StillHeld(LocksOf(s), LocksOf(woken[count]))
<1> DEFINE woken == Woken(s, n, i, id, count)
           Fine(t, j) == /\ StateOK(t)
                         /\ Has(t, "cv", i)
                         /\ Len(Object(t, "cv", i).waitQueue) = count - j
                         /\ StillHeld(LocksOf(s), LocksOf(t))
<1>1. /\ woken[0] = s
      /\ \A j \in 1..count : woken[j] = WakeFirst(woken[j - 1], n, i, id)
  BY WokenStates
<1> HIDE DEF woken
<1>2. /\ Has(s, "cv", i) /\ k \in DOMAIN LocksOf(s) /\ ~LocksOf(s)[k].free
  BY HeldIsOwned
<1>3. Fine(woken[0], 0)
  <2>1. StillHeld(LocksOf(s), LocksOf(s))
    BY DEF StillHeld
  <2> QED
    BY <1>1, <1>2, <2>1
<1>4. ASSUME NEW j \in 1..count, Fine(woken[j - 1], j - 1)
      PROVE  Fine(woken[j], j)
  <2> DEFINE t == woken[j - 1]
             queue == Object(t, "cv", i).waitQueue
  <2>1. woken[j] = WakeFirst(t, n, i, id)
    BY <1>1
  <2>2. /\ StateOK(t) /\ Has(t, "cv", i)
        /\ Len(queue) = count - (j - 1)
        /\ StillHeld(LocksOf(s), LocksOf(t))
    BY <1>4
  <2> HIDE DEF t, Fine
  <2>3. QueueOK(queue)
    BY <2>2, VariableIsOK DEF VariableOK
  <2>4. queue # <<>> /\ Len(Tail(queue)) = Len(queue) - 1
    <3>1. queue \in Seq(Range(queue))
      BY <2>3 DEF QueueOK, IsList
    <3>2. Len(queue) # 0
      BY <2>2
    <3> QED
      BY <3>1, <3>2, EmptySeq, HeadTailProperties
  <2>5. k \in DOMAIN LocksOf(t) /\ ~LocksOf(t)[k].free
    BY <1>2, <2>2 DEF StillHeld
  <2>6. /\ Handled(t, WakeFirst(t, n, i, id))
        /\ Has(WakeFirst(t, n, i, id), "cv", i)
        /\ Object(WakeFirst(t, n, i, id), "cv", i).waitQueue = Tail(queue)
        /\ StillHeld(LocksOf(t), LocksOf(WakeFirst(t, n, i, id)))
    BY <2>2, <2>4, <2>5, WakeFirstOK
  <2>7. /\ StateOK(woken[j]) /\ Has(woken[j], "cv", i)
        /\ Len(Object(woken[j], "cv", i).waitQueue) = count - j
    <3>1. Len(Tail(queue)) = count - j
      BY <2>2, <2>4
    <3> QED
      BY <2>1, <2>6, <3>1 DEF Handled
  <2>8. StillHeld(LocksOf(s), LocksOf(woken[j]))
    BY <2>1, <2>2, <2>6, StillHeldThen
  <2> QED
    BY <2>7, <2>8 DEF Fine
<1>5. \A j \in 0..count : Fine(woken[j], j)
  <2> HIDE DEF Fine
  <2> DEFINE Bad == {j \in 0..count : ~Fine(woken[j], j)}
  <2> SUFFICES ASSUME Bad # {} PROVE FALSE
    OBVIOUS
  <2>1. PICK m \in Bad : \A x \in Bad : m <= x
    <3>1. Bad \in SUBSET Nat
      OBVIOUS
    <3> QED
      BY <3>1, MinOfNat
  <2>2. m \in 1..count
    BY <1>3
  <2>3. m - 1 \in 0..count /\ ~(m <= m - 1)
    BY <2>2
  <2>4. Fine(woken[m - 1], m - 1)
    BY <2>1, <2>3
  <2> QED
    BY <1>4, <2>2, <2>4
<1>6. Fine(woken[count], count)
  BY <1>5
<1> QED
  BY <1>6 DEF woken

LEMMA BroadcastOK ==
    ASSUME mach \in Placements, NEW s, StateOK(s), NEW n \in Thread, NEW msg, NEW cv, NEW id
    PROVE  Handled(s, Broadcast(s, n, msg, cv, id))
<1> DEFINE answered == Reply(s, n, mach[n], msg.from, cv)
           variable == Object(s, "cv", cv)
           count == Len(variable.waitQueue)
           woken == Woken(answered, n, cv, id, count)[count]
<1>1. \/ Broadcast(s, n, msg, cv, id) = s
      \/ /\ CanSignal(s, cv, id) /\ id \in 0..Multiple["lock"] - 1
         /\ \/ Broadcast(s, n, msg, cv, id) = answered
            \/ Broadcast(s, n, msg, cv, id) = Forget(woken, cv)
  BY DEF Broadcast
<1>2. Kept(s, answered) /\ answered.tab = s.tab /\ StateOK(answered)
  BY Placed, Replied
<1>3. CASE Broadcast(s, n, msg, cv, id) = s
  BY <1>3, KeptIsHandled DEF Kept
<1> SUFFICES ASSUME CanSignal(s, cv, id), id \in 0..Multiple["lock"] - 1,
                    Broadcast(s, n, msg, cv, id) # s
             PROVE  Handled(s, Broadcast(s, n, msg, cv, id))
  BY <1>1, <1>3
<1>4. CanSignal(answered, cv, id) /\ Object(answered, "cv", cv) = variable
  BY <1>2 DEF CanSignal, Has, HasOwner, Object
<1>5. id = id % Multiple["lock"]
  BY DEF Multiple
<1>6. count \in Nat
  <2>1. Has(s, "cv", cv)
    BY HeldIsOwned
  <2>2. QueueOK(variable.waitQueue)
    BY <2>1, VariableIsOK DEF VariableOK
  <2> QED
    BY <2>2, LenProperties DEF QueueOK, IsList
<1> HIDE DEF answered, variable
<1>7. /\ StateOK(woken)
      /\ Has(woken, "cv", cv)
      /\ StillHeld(LocksOf(answered), LocksOf(woken))
  BY <1>2, <1>4, <1>5, <1>6, AllWoken
<1> HIDE DEF woken
<1>8. Handled(answered, woken)
  BY <1>7, StillHeldInOrder DEF Handled
<1>9. Kept(woken, Forget(woken, cv))
  BY <1>7, ForgetOK
<1>10. Handled(s, Forget(woken, cv))
  BY <1>2, <1>8, <1>9, HandledThenKept, KeptThenHandled
<1> QED
  BY <1>1, <1>2, <1>10, KeptIsHandled

-----------------------------------------------------------------------------
(* Creation                                                                 *)

LEMMA StepsKeep ==
    ASSUME mach \in Placements, NEW s, StateOK(s), NEW n \in Thread
    PROVE  /\ Kept(s, s) /\ Kept(s, Abort(s))
           /\ \A c, r : Kept(s, SetClient(s, c, r))
           /\ \A c : Kept(s, Done(s, c))
<1>1. Kept(s, s) /\ Kept(s, Abort(s))
  BY Aborted DEF Kept, LocksOf
<1>2. ASSUME NEW c, NEW r PROVE Kept(s, SetClient(s, c, r))
  BY ClientSet DEF Kept, LocksOf
<1>3. ASSUME NEW c PROVE Kept(s, Done(s, c))
  BY <1>2 DEF Done
<1> QED
  BY <1>1, <1>2, <1>3

LEMMA VerifyKeeps ==
    ASSUME mach \in Placements, NEW s, StateOK(s), NEW n \in Thread, NEW type,
           NEW c \in Int \cup {None}, NEW arg
    PROVE  Kept(s, CreateVerify(s, n, type, c, arg))
BY Verified DEF Kept, LocksOf

LEMMA ReplyCreatedKeeps ==
    ASSUME mach \in Placements, NEW s, StateOK(s), NEW n \in Thread, NEW kind \in Kinds,
           NEW c, NEW id
    PROVE  Kept(s, ReplyCreated(s, n, kind, c, id))
<1>1. CASE kind = "lock"
  BY <1>1, RepliedToUser DEF ReplyCreated
<1>2. CASE kind = "cv"
  BY <1>2, RepliedToNet DEF ReplyCreated
<1>3. CASE kind = "mv"
  BY <1>3, RepliedToOwnUser DEF ReplyCreated
<1> QED
  BY <1>1, <1>2, <1>3 DEF Kinds

\* A new object takes no lock from anybody.
LEMMA CreateOK ==
    ASSUME NEW s, StateOK(s), NEW kind \in Kinds, NEW n, NEW name, NEW junk
    PROVE  Handled(s, Create(s, n, kind, name, junk))
<1> DEFINE t == Create(s, n, kind, name, junk)
           k == s.tab[kind].next
           id == uniqueGlobalID(n) * Multiple[kind] + k
           object == New(kind, name, id, junk)
<1>1. /\ StateOK(t)
      /\ t.tab[kind].at = Assign(s.tab[kind].at, k, object)
      /\ \A other \in Kinds \ {kind} : t.tab[other] = s.tab[other]
  BY Created
<1>2. kind = "lock" => object.free
  BY DEF New
<1> HIDE DEF t, object
<1>3. CASE kind = "lock"
  <2>1. LocksOf(t) = Assign(LocksOf(s), k, object)
    BY <1>1, <1>3 DEF LocksOf
  <2>2. InOrder(LocksOf(s), LocksOf(t))
    BY <1>2, <1>3, <2>1, OrderAssigned
  <2> QED
    BY <1>1, <2>2 DEF Handled, t
<1>4. CASE kind # "lock"
  <2>1. Kept(s, t)
    BY <1>1, <1>4 DEF Kinds, Kept, LocksOf
  <2> QED
    BY <2>1, KeptIsHandled DEF t
<1> QED
  BY <1>3, <1>4

LEMMA CreateRequestOK ==
    ASSUME mach \in Placements, NEW s, StateOK(s), NEW n \in Thread, NEW kind \in Kinds,
           NEW c \in Int, NEW name, NEW found, NEW verify, NEW junk
    PROVE  Handled(s, CreateRequest(s, n, kind, c, name, found, verify, junk))
<1> DEFINE r == [Client(s, c) EXCEPT !.lockName = name, !.localLockIndex = found]
           noted == SetClient(s, c, r)
           given == ReplyCreated(noted, n, kind, c, Object(s, kind, found).globalId)
           made == Create(noted, n, kind, name, junk)
           answered == ReplyCreated(made, n, kind, c, LastId(made, kind))
           asked == CreateVerify(noted, n, verify, c, <<name>>)
           t == CreateRequest(s, n, kind, c, name, found, verify, junk)
<1>1. t = Done(given, c) \/ t = asked \/ t = Done(answered, c)
  BY DEF CreateRequest
<1> HIDE DEF r, t
<1>2. Kept(s, noted)
  BY StepsKeep
<1> HIDE DEF noted
<1>3. Kept(noted, given) /\ Kept(noted, asked)
  BY <1>2, ReplyCreatedKeeps, VerifyKeeps DEF Kept
<1>4. Handled(noted, made)
  BY <1>2, CreateOK DEF Kept
<1> HIDE DEF made, given, asked
<1>5. Kept(made, answered)
  BY <1>4, ReplyCreatedKeeps DEF Handled
<1> HIDE DEF answered
<1>6. Kept(given, Done(given, c)) /\ Kept(answered, Done(answered, c))
  BY <1>3, <1>5, StepsKeep DEF Kept
<1>7. Handled(s, Done(given, c)) /\ Handled(s, asked)
  BY <1>2, <1>3, <1>6, KeptThenKept, KeptIsHandled
<1>8. Handled(s, Done(answered, c))
  BY <1>2, <1>4, <1>5, <1>6, KeptThenHandled, HandledThenKept
<1> QED
  BY <1>1, <1>7, <1>8 DEF t

LEMMA ClockTicked ==
    ASSUME NEW s, StateOK(s)
    PROVE  LET t == [s EXCEPT !.clock = @ + 1]
           IN  /\ Kept(s, t)
               /\ t.tab = s.tab /\ t.netMail = s.netMail /\ t.userMail = s.userMail
               /\ t.ended = s.ended
<1> DEFINE t == [s EXCEPT !.clock = @ + 1]
<1>1. IsState(s)
  BY DEF StateOK
<1>2. t = [tab |-> s.tab, arr |-> s.arr, clock |-> s.clock + 1, netMail |-> s.netMail,
           userMail |-> s.userMail, ended |-> s.ended]
  BY ONLY <1>1 DEF IsState, t
<1> HIDE DEF t
<1>3. /\ t.tab = s.tab /\ t.netMail = s.netMail /\ t.userMail = s.userMail
      /\ t.ended = s.ended /\ IsState(t)
  BY ONLY <1>2 DEF IsState
<1>4. Kept(s, t)
  BY <1>3 DEF Kept, StateOK, LocksOf
<1> QED
  BY <1>3, <1>4 DEF t

LEMMA CreateLockRequestOK ==
    ASSUME mach \in Placements, NEW s, StateOK(s), NEW n \in Thread, NEW msg, LetterOK(msg),
           NEW junk
    PROVE  Handled(s, CreateLockRequest(s, n, msg, junk))
<1> DEFINE c == clientNum(msg)
           name == msg.arg[1]
           found == Max(Named(s, "lock", name) \cup {-1})
           r == [Client(s, c) EXCEPT !.lockCreationState = MAYBE,
                                     !.lockCreationTimeStamp = s.clock + 1]
           noted == SetClient(s, c, r)
           timed == [noted EXCEPT !.clock = @ + 1]
           t == CreateLockRequest(s, n, msg, junk)
<1>1. \/ t = s
      \/ t = Abort(s)
      \/ t = CreateRequest(s, n, "lock", c, name, found, "CREATELOCKVERIFY", junk)
      \/ t = CreateRequest(timed, n, "lock", c, name, found, "CREATELOCKVERIFY", junk)
  BY DEF CreateLockRequest
<1>2. c \in Int
  BY ClientIsNumber
<1> HIDE DEF c, name, found, r, t
<1>3. Kept(s, s) /\ Kept(s, Abort(s)) /\ Kept(s, noted)
  BY StepsKeep
<1> HIDE DEF noted
<1>4. Kept(noted, timed)
  BY <1>3, ClockTicked DEF Kept
<1> HIDE DEF timed
<1>5. Kept(s, timed)
  BY <1>3, <1>4, KeptThenKept
<1>6. ASSUME NEW verify
      PROVE  /\ Handled(s, CreateRequest(s, n, "lock", c, name, found, verify, junk))
             /\ Handled(timed, CreateRequest(timed, n, "lock", c, name, found, verify, junk))
  BY <1>2, <1>5, CreateRequestOK DEF Kept, Kinds
<1> QED
  BY <1>1, <1>3, <1>5, <1>6, KeptIsHandled, KeptThenHandled DEF t

LEMMA CreateVariableRequestsOK ==
    ASSUME mach \in Placements, NEW s, StateOK(s), NEW n \in Thread, NEW msg, LetterOK(msg),
           NEW junk
    PROVE  /\ Handled(s, CreateCVRequest(s, n, msg, junk))
           /\ Handled(s, CreateMVRequest(s, n, msg, junk))
<1> DEFINE c == clientNum(msg)
           name == msg.arg[1]
<1>1. c \in Int
  BY ClientIsNumber
<1>2. Kept(s, s) /\ Kept(s, Abort(s))
  BY StepsKeep
<1>3. Handled(s, CreateCVRequest(s, n, msg, junk))
  <2> DEFINE found == Max(Named(s, "cv", name) \cup {-1})
             t == CreateCVRequest(s, n, msg, junk)
  <2>1. \/ t = s \/ t = Abort(s)
        \/ t = CreateRequest(s, n, "cv", c, name, found, "CREATECVVERIFY", junk)
    BY DEF CreateCVRequest
  <2> HIDE DEF c, name, found, t
  <2>2. ASSUME NEW verify
        PROVE  Handled(s, CreateRequest(s, n, "cv", c, name, found, verify, junk))
    BY <1>1, CreateRequestOK DEF Kinds
  <2> QED
    BY <1>2, <2>1, <2>2, KeptIsHandled DEF t
<1>4. Handled(s, CreateMVRequest(s, n, msg, junk))
  <2> DEFINE found == IF Named(s, "mv", name) = {} THEN -1 ELSE Min(Named(s, "mv", name))
             t == CreateMVRequest(s, n, msg, junk)
  <2>1. \/ t = s \/ t = Abort(s)
        \/ t = CreateRequest(s, n, "mv", c, name, found, "CREATEMVVERIFY", junk)
    BY DEF CreateMVRequest
  <2> HIDE DEF c, name, found, t
  <2>2. ASSUME NEW verify
        PROVE  Handled(s, CreateRequest(s, n, "mv", c, name, found, verify, junk))
    BY <1>1, CreateRequestOK DEF Kinds
  <2> QED
    BY <1>2, <2>1, <2>2, KeptIsHandled DEF t
<1> QED
  BY <1>3, <1>4

LEMMA AnswerVerifyOK ==
    ASSUME mach \in Placements, NEW s, StateOK(s), NEW n \in Thread, NEW msg, LetterOK(msg),
           NEW junk
    PROVE  /\ Kept(s, AnswerLockVerify(s, n, msg, junk))
           /\ Kept(s, AnswerCVVerify(s, n, msg, junk))
           /\ Kept(s, AnswerMVVerify(s, n, msg, junk))
<1>1. mach[n] \in Int /\ Box(n) \in Int /\ msg.client \in Int \cup {None}
  BY Placed DEF LetterOK
<1>2. ASSUME NEW type, NEW arg
      PROVE  /\ Kept(s, Post(s, n, Box(n), msg.from, type, msg.client, arg))
             /\ Kept(s, Post(s, n, mach[n], msg.from, type, msg.client, arg))
  BY <1>1, Posted
<1>3. Kept(s, Abort(s))
  BY StepsKeep
<1>4. Kept(s, AnswerLockVerify(s, n, msg, junk))
  <2>1. \/ AnswerLockVerify(s, n, msg, junk) = Abort(s)
        \/ \E arg : AnswerLockVerify(s, n, msg, junk) =
               Post(s, n, Box(n), msg.from, "CREATELOCKANSWER", msg.client, arg)
    BY Zenon DEF AnswerLockVerify
  <2> QED
    BY <1>2, <1>3, <2>1
<1>5. Kept(s, AnswerCVVerify(s, n, msg, junk))
  <2>1. \/ AnswerCVVerify(s, n, msg, junk) = Abort(s)
        \/ \E arg : AnswerCVVerify(s, n, msg, junk) =
               Post(s, n, mach[n], msg.from, "CREATECVANSWER", msg.client, arg)
    BY Zenon DEF AnswerCVVerify
  <2> QED
    BY <1>2, <1>3, <2>1
<1>6. Kept(s, AnswerMVVerify(s, n, msg, junk))
  <2>1. \/ AnswerMVVerify(s, n, msg, junk) = Abort(s)
        \/ \E arg : AnswerMVVerify(s, n, msg, junk) =
               Post(s, n, mach[n], msg.from, "CREATEMVANSWER", msg.client, arg)
    BY Zenon DEF AnswerMVVerify
  <2> QED
    BY <1>2, <1>3, <2>1
<1> QED
  BY <1>4, <1>5, <1>6

LEMMA KnownElsewhereOK ==
    ASSUME mach \in Placements, NEW s, StateOK(s), NEW n \in Thread, NEW c, NEW id, NEW junk
    PROVE  Handled(s, KnownElsewhere(s, n, c, id, junk))
<1> DEFINE r == Client(s, c)
           k == s.tab.lock.next
           object == New("lock", r.lockName, id, junk)
           made == PutObject(s, "lock", k, object)
           told == ReplyToOwnUser(made, n, id)
           later == [r EXCEPT !.lockCreationState = YES, !.verifyResponses = @ + 1]
           t == SetClient(told, c, later)
<1>1. KnownElsewhere(s, n, c, id, junk) = t
  BY DEF KnownElsewhere
<1>2. LockOK(object) /\ object.free
  BY NewObject DEF New
<1> HIDE DEF object, later, k
<1>3. Handled(s, made)
  BY <1>2, LockPut
<1> HIDE DEF made
<1>4. Kept(made, told)
  BY <1>3, RepliedToOwnUser DEF Handled
<1> HIDE DEF told
<1>5. Kept(told, t)
  BY <1>4, StepsKeep DEF Kept
<1> QED
  BY <1>1, <1>3, <1>4, <1>5, HandledThenKept

LEMMA NotElsewhereOK ==
    ASSUME mach \in Placements, NEW s, StateOK(s), NEW n \in Thread,
           NEW c \in Int \cup {None}, NEW stamp, NEW junk
    PROVE  Handled(s, NotElsewhere(s, n, c, stamp, junk))
<1> DEFINE r == [Client(s, c) EXCEPT !.verifyResponses = @ + 1]
           counted == SetClient(s, c, r)
           noted == SetClient(s, c, [r EXCEPT !.lockCreationState = YES])
           made == Create(noted, n, "lock", r.lockName, junk)
           told == CreateVerify(made, n, "CREATELOCKANSWER", c, <<YES, LastId(made, "lock")>>)
           answered == ReplyToOwnUser(told, n, LastId(made, "lock"))
           last == [Client(told, c) EXCEPT !.localLockIndex = -1]
           t == NotElsewhere(s, n, c, stamp, junk)
<1>1. t = s \/ t = counted \/ t = SetClient(answered, c, last)
  BY DEF NotElsewhere
<1>2. Kept(s, s) /\ Kept(s, counted) /\ Kept(s, noted)
  BY StepsKeep
<1> HIDE DEF r, last, t, counted, noted
<1>3. Handled(noted, made)
  BY <1>2, CreateOK DEF Kept, Kinds
<1> HIDE DEF made
<1>4. Kept(made, told)
  <2>1. StateOK(made)
    BY <1>3 DEF Handled
  <2>2. ASSUME NEW type, NEW arg
        PROVE  Kept(made, CreateVerify(made, n, type, c, arg))
    BY <2>1, VerifyKeeps
  <2> QED
    BY <2>2
<1> HIDE DEF told
<1>5. Kept(told, answered)
  BY <1>4, RepliedToOwnUser DEF Kept
<1> HIDE DEF answered
<1>6. Kept(answered, SetClient(answered, c, last))
  BY <1>5, StepsKeep DEF Kept
<1>7. Handled(s, SetClient(answered, c, last))
  BY <1>2, <1>3, <1>4, <1>5, <1>6, KeptThenHandled, HandledThenKept
<1> QED
  BY <1>1, <1>2, <1>7, KeptIsHandled DEF t

LEMMA LockAnswerOK ==
    ASSUME mach \in Placements, NEW s, StateOK(s), NEW n \in Thread, NEW msg, LetterOK(msg),
           NEW junk
    PROVE  Handled(s, LockAnswer(s, n, msg, junk))
<1> DEFINE c == msg.client
           slot == Client(s, uniqueGlobalID(n)).verifyResponses
           r == [Client(s, c) EXCEPT !.verifyBuffer = Assign(@, slot, msg.arg)]
           stored == SetClient(s, c, r)
           answer == AnswerIn(r, r.verifyResponses)
           number == IF Len(answer) > 1 THEN answer[2] ELSE 0
           t == LockAnswer(s, n, msg, junk)
<1>1. \/ t = stored
      \/ t = KnownElsewhere(stored, n, c, number, junk)
      \/ t = NotElsewhere(stored, n, c, number, junk)
  BY DEF LockAnswer
<1>2. c \in Int \cup {None}
  BY DEF LetterOK
<1> HIDE DEF c, r, number, t
<1>3. Kept(s, stored)
  BY StepsKeep
<1> HIDE DEF stored
<1>4. /\ Handled(stored, KnownElsewhere(stored, n, c, number, junk))
      /\ Handled(stored, NotElsewhere(stored, n, c, number, junk))
  BY <1>2, <1>3, KnownElsewhereOK, NotElsewhereOK DEF Kept
<1> QED
  BY <1>1, <1>3, <1>4, KeptIsHandled, KeptThenHandled DEF t

LEMMA CollectAnswerOK ==
    ASSUME mach \in Placements, NEW s, StateOK(s), NEW n \in Thread, NEW kind \in Kinds,
           NEW msg, NEW junk
    PROVE  Handled(s, CollectAnswer(s, n, kind, msg, junk))
<1> DEFINE c == msg.client
           old == Client(s, c)
           r == [old EXCEPT !.verifyResponses = @ + 1,
                    !.verifyBuffer = IF junk = 1
                                     THEN Assign(@, old.verifyResponses, msg.arg) ELSE @]
           counted == SetClient(s, c, r)
           positive == {i \in 0..serverCount - 2 : AnswerIn(r, i)[1] # -1}
           other == IF positive = {} THEN -1 ELSE AnswerIn(r, Min(positive))[1]
           made == Create(counted, n, kind, r.lockName, junk)
           answered == ReplyToOwnUser(made, n, LastId(made, kind))
           id == Object(s, kind, r.localLockIndex).globalId
           Told(value) == ReplyToOwnUser(counted, n, value)
           t == CollectAnswer(s, n, kind, msg, junk)
<1>1. \/ t = counted
      \/ t = Done(answered, c)
      \/ \E value : t = Done(Told(value), c)
      \/ t = Abort(s)
  BY Zenon DEF CollectAnswer
<1> HIDE DEF c, old, r, other, id, t
<1>2. Kept(s, s) /\ Kept(s, Abort(s)) /\ Kept(s, counted)
  BY StepsKeep
<1> HIDE DEF counted
<1>3. Handled(counted, made)
  BY <1>2, CreateOK DEF Kept
<1> HIDE DEF made
<1>4. Kept(made, answered)
  BY <1>3, RepliedToOwnUser DEF Handled
<1> HIDE DEF answered
<1>5. Kept(answered, Done(answered, c))
  BY <1>4, StepsKeep DEF Kept
<1>6. Handled(s, Done(answered, c))
  BY <1>2, <1>3, <1>4, <1>5, KeptThenHandled, HandledThenKept
<1>7. ASSUME NEW value PROVE Handled(s, Done(Told(value), c))
  <2>1. Kept(counted, Told(value))
    BY <1>2, RepliedToOwnUser DEF Kept
  <2>2. Kept(Told(value), Done(Told(value), c))
    BY <2>1, StepsKeep DEF Kept
  <2> QED
    BY <1>2, <2>1, <2>2, KeptThenKept, KeptIsHandled
<1> QED
  BY <1>1, <1>2, <1>6, <1>7, KeptIsHandled DEF t

-----------------------------------------------------------------------------
(* Requests on objects                                                      *)

LEMMA ForwardKeeps ==
    ASSUME mach \in Placements, NEW s, StateOK(s), NEW n \in Thread, NEW msg, LetterOK(msg)
    PROVE  \A to, type, arg : Kept(s, Post(s, n, msg.from[2], to, type, clientNum(msg), arg))
<1>1. msg.from[2] \in Int /\ clientNum(msg) \in Int \cup {None}
  BY ClientIsNumber
<1> QED
  BY <1>1, Posted

LEMMA LockRequestsOK ==
    ASSUME mach \in Placements, NEW s, StateOK(s), NEW n \in Thread, NEW msg, LetterOK(msg),
           NEW junk
    PROVE  /\ Handled(s, AcquireRequest(s, n, msg, junk))
           /\ Handled(s, ReleaseRequest(s, n, msg, junk))
           /\ Handled(s, DestroyLockRequest(s, n, msg, junk))
           /\ Handled(s, WaitRequest(s, n, msg, junk))
<1> DEFINE c == clientNum(msg)
<1>1. c \in Int
  BY ClientIsNumber
<1>2. ASSUME NEW to, NEW type, NEW arg
      PROVE  Handled(s, Post(s, n, msg.from[2], to, type, c, arg))
  BY ForwardKeeps, KeptIsHandled
<1>3. ASSUME NEW id, NEW cv
      PROVE  /\ Handled(s, Acquire(s, n, c, id))
             /\ Handled(s, Release(s, n, c, id))
             /\ Handled(s, DestroyLock(s, n, c, id))
             /\ Handled(s, Wait(s, n, msg, c, cv, id))
  <2> HIDE DEF c
  <2>1. Handled(s, Acquire(s, n, c, id))
    BY <1>1, AcquireOK
  <2>2. Handled(s, Release(s, n, c, id)) /\ Handled(s, DestroyLock(s, n, c, id))
    BY ReleaseOK, DestroyLockOK
  <2>3. Handled(s, Wait(s, n, msg, c, cv, id))
    BY <1>1, WaitOK
  <2> QED
    BY <2>1, <2>2, <2>3
<1>4. Handled(s, AcquireRequest(s, n, msg, junk))
  <2>1. \/ \E id : AcquireRequest(s, n, msg, junk) = Acquire(s, n, c, id)
        \/ \E to, arg : AcquireRequest(s, n, msg, junk) =
               Post(s, n, msg.from[2], to, "ACQUIRE", c, arg)
    BY Zenon DEF AcquireRequest
  <2> QED
    BY <1>2, <1>3, <2>1
<1>5. Handled(s, ReleaseRequest(s, n, msg, junk))
  <2>1. \/ \E id : ReleaseRequest(s, n, msg, junk) = Release(s, n, c, id)
        \/ \E to, type, arg : ReleaseRequest(s, n, msg, junk) =
               Post(s, n, msg.from[2], to, type, c, arg)
    BY Zenon DEF ReleaseRequest, ForwardAnywhere
  <2> QED
    BY <1>2, <1>3, <2>1
<1>6. Handled(s, DestroyLockRequest(s, n, msg, junk))
  <2>1. \/ \E id : DestroyLockRequest(s, n, msg, junk) = DestroyLock(s, n, c, id)
        \/ \E to, arg : DestroyLockRequest(s, n, msg, junk) =
               Post(s, n, msg.from[2], to, "DESTROYLOCK", c, arg)
    BY Zenon DEF DestroyLockRequest, ForwardToOwner
  <2> QED
    BY <1>2, <1>3, <2>1
<1>7. Handled(s, WaitRequest(s, n, msg, junk))
  <2>1. \/ \E id, cv : WaitRequest(s, n, msg, junk) = Wait(s, n, msg, c, cv, id)
        \/ \E to, arg : WaitRequest(s, n, msg, junk) =
               Post(s, n, msg.from[2], to, "SIGNAL", c, arg)
    BY Zenon DEF WaitRequest, ForwardToOwner
  <2> QED
    BY <1>2, <1>3, <2>1
<1> QED
  BY <1>4, <1>5, <1>6, <1>7

LEMMA MVRequestsOK ==
    ASSUME mach \in Placements, NEW s, StateOK(s), NEW n \in Thread, NEW msg, LetterOK(msg),
           NEW junk
    PROVE  /\ Handled(s, SetMVRequest(s, n, msg, junk))
           /\ Handled(s, GetMVRequest(s, n, msg, junk))
           /\ Handled(s, DestroyMVRequest(s, n, msg, junk))
<1> DEFINE c == clientNum(msg)
<1>1. ASSUME NEW to, NEW type, NEW arg
      PROVE  Handled(s, Post(s, n, msg.from[2], to, type, c, arg))
  BY ForwardKeeps, KeptIsHandled
<1>2. ASSUME NEW id, NEW value
      PROVE  /\ Handled(s, SetMV(s, n, c, id, value))
             /\ Handled(s, DestroyMV(s, n, c, id))
  BY VariablesOK, KeptIsHandled
<1>3. ASSUME NEW id PROVE Handled(s, GetMV(s, n, msg, id))
  <2>1. ASSUME NEW to, NEW value
        PROVE  Handled(s, Reply(s, n, mach[n], to, value))
    BY Placed, Replied, KeptIsHandled
  <2> QED
    BY <2>1 DEF GetMV
<1>4. Handled(s, SetMVRequest(s, n, msg, junk))
  <2>1. \/ \E id, value : SetMVRequest(s, n, msg, junk) = SetMV(s, n, c, id, value)
        \/ \E to, type, arg : SetMVRequest(s, n, msg, junk) =
               Post(s, n, msg.from[2], to, type, c, arg)
    BY Zenon DEF SetMVRequest, ForwardAnywhere
  <2> QED
    BY <1>1, <1>2, <2>1
<1>5. Handled(s, GetMVRequest(s, n, msg, junk))
  <2>1. \/ \E id : GetMVRequest(s, n, msg, junk) = GetMV(s, n, msg, id)
        \/ \E to, type, arg : GetMVRequest(s, n, msg, junk) =
               Post(s, n, msg.from[2], to, type, c, arg)
    BY Zenon DEF GetMVRequest, ForwardAnywhere
  <2> QED
    BY <1>1, <1>3, <2>1
<1>6. Handled(s, DestroyMVRequest(s, n, msg, junk))
  <2>1. \/ \E id : DestroyMVRequest(s, n, msg, junk) = DestroyMV(s, n, c, id)
        \/ \E to, type, arg : DestroyMVRequest(s, n, msg, junk) =
               Post(s, n, msg.from[2], to, type, c, arg)
    BY Zenon DEF DestroyMVRequest, ForwardAnywhere
  <2> QED
    BY <1>1, <1>2, <2>1
<1> QED
  BY <1>4, <1>5, <1>6

LEMMA CVRequestsOK ==
    ASSUME mach \in Placements, NEW s, StateOK(s), NEW n \in Thread, NEW msg, LetterOK(msg),
           NEW junk
    PROVE  /\ Handled(s, SignalRequest(s, n, msg, junk))
           /\ Handled(s, BroadcastRequest(s, n, msg, junk))
           /\ Handled(s, DestroyCVRequest(s, n, msg, junk))
           /\ Handled(s, WaitResponse(s, n, msg, junk))
<1> DEFINE c == clientNum(msg)
<1>1. ASSUME NEW to, NEW type, NEW arg
      PROVE  Handled(s, Post(s, n, msg.from[2], to, type, c, arg))
  BY ForwardKeeps, KeptIsHandled
<1>2. Handled(s, Abort(s))
  BY StepsKeep, KeptIsHandled
<1>3. Handled(s, SignalRequest(s, n, msg, junk))
  <2>1. \/ SignalRequest(s, n, msg, junk) = Abort(s)
        \/ \E cv, id : SignalRequest(s, n, msg, junk) = Signal(s, n, msg.client, cv, id)
        \/ \E to, type, arg : SignalRequest(s, n, msg, junk) =
               Post(s, n, msg.from[2], to, type, c, arg)
    BY Zenon DEF SignalRequest, ForwardAnywhere
  <2> QED
    BY <1>1, <1>2, <2>1, SignalOK
<1>4. Handled(s, BroadcastRequest(s, n, msg, junk))
  <2>1. \/ \E cv, id : BroadcastRequest(s, n, msg, junk) = Broadcast(s, n, msg, cv, id)
        \/ \E to, arg : BroadcastRequest(s, n, msg, junk) =
               Post(s, n, msg.from[2], to, "BROADCAST", c, arg)
    BY Zenon DEF BroadcastRequest, ForwardToOwner
  <2> QED
    BY <1>1, <2>1, BroadcastOK
<1>5. Handled(s, DestroyCVRequest(s, n, msg, junk))
  <2>1. \/ \E cv : DestroyCVRequest(s, n, msg, junk) = DestroyCV(s, n, c, cv)
        \/ \E to, arg : DestroyCVRequest(s, n, msg, junk) =
               Post(s, n, msg.from[2], to, "DESTROYCV", c, arg)
    BY Zenon DEF DestroyCVRequest, ForwardToOwner
  <2> QED
    BY <1>1, <2>1, VariablesOK, KeptIsHandled
<1> QED
  BY <1>2, <1>3, <1>4, <1>5 DEF WaitResponse

LEMMA WaitCVRequestOK ==
    ASSUME mach \in Placements, NEW s, StateOK(s), NEW n \in Thread, NEW msg, LetterOK(msg),
           NEW junk
    PROVE  Handled(s, WaitCVRequest(s, n, msg, junk))
<1> DEFINE c == clientNum(msg)
           i == msg.arg[1] % Multiple["cv"]
           variable == Object(s, "cv", i)
           first == IF variable.waitQueue = <<>> THEN msg.arg[2] ELSE variable.firstLock
           t == IF Has(s, "cv", i)
                THEN PutObject(s, "cv", i, Joined(variable, first, c, msg.arg[1])) ELSE s
           u == Post(t, n, mach[n], NetOf(c), "WAITRESPONSE", None, <<>>)
<1>1. WaitCVRequest(s, n, msg, junk) = u
  BY DEF WaitCVRequest, Joined
<1>2. c \in Int /\ mach[n] \in Int /\ None \in Int \cup {None}
  BY ClientIsNumber, Placed
<1> HIDE DEF c, i, first
<1>3. Kept(s, t)
  BY <1>2, WaiterJoined DEF Kept
<1> HIDE DEF t
<1>4. ASSUME NEW to, NEW type, NEW arg
      PROVE  Kept(t, Post(t, n, mach[n], to, type, None, arg))
  <2>1. StateOK(t)
    BY <1>3 DEF Kept
  <2> QED
    BY <1>2, <2>1, Posted
<1>5. Kept(t, u)
  BY <1>4
<1> QED
  BY <1>1, <1>3, <1>5, KeptThenKept, KeptIsHandled

LEMMA NumberRequestOK ==
    ASSUME mach \in Placements, NEW s, StateOK(s), NEW n \in Thread, NEW msg, LetterOK(msg),
           NEW junk
    PROVE  Handled(s, NumberRequest(s, n, msg, junk))
<1>1. ASSUME NEW arg PROVE LetterOK([msg EXCEPT !.arg = arg])
  <2> DEFINE new == [msg EXCEPT !.arg = arg]
  <2>1. new = [type |-> msg.type, client |-> msg.client, arg |-> arg, from |-> msg.from,
               via |-> msg.via]
    BY DEF LetterOK
  <2> HIDE DEF new
  <2>2. LetterOK(new)
    BY <2>1 DEF LetterOK
  <2> QED
    BY <2>2 DEF new
<1>2. ASSUME NEW arg
      PROVE  /\ Handled(s, CreateLockRequest(s, n, [msg EXCEPT !.arg = arg], junk))
             /\ Handled(s, AcquireRequest(s, n, [msg EXCEPT !.arg = arg], junk))
  <2> DEFINE new == [msg EXCEPT !.arg = arg]
  <2>1. LetterOK(new)
    BY <1>1
  <2> HIDE DEF new
  <2>2. /\ Handled(s, CreateLockRequest(s, n, new, junk))
        /\ Handled(s, AcquireRequest(s, n, new, junk))
    BY <2>1, CreateLockRequestOK, LockRequestsOK
  <2> QED
    BY <2>2 DEF new
<1>3. Handled(s, s)
  BY KeptIsHandled DEF Kept
<1>4. CASE msg.arg[1] = 0
  BY <1>2, <1>4 DEF NumberRequest
<1>5. CASE msg.arg[1] = 1
  BY <1>2, <1>5 DEF NumberRequest
<1>6. CASE msg.arg[1] \notin {0, 1}
  BY <1>3, <1>6 DEF NumberRequest
<1> QED
  BY <1>4, <1>5, <1>6

-----------------------------------------------------------------------------
(* Every step keeps the invariant and the order                             *)

\* A call of processMessage that leads to state s.
LEMMA ReceivedState ==
    ASSUME LocksInv, NEW n \in Thread, NEW i \in DOMAIN netMail[n]
    PROVE  /\ StateOK(State(n, i))
           /\ State(n, i).tab = server[mach[n]]
           /\ LetterOK(netMail[n][i])
<1> DEFINE rest == [netMail EXCEPT ![n] = RemoveAt(@, i)]
<1>1. mach \in Placements /\ mach[n] \in Machine
  BY Placed DEF LocksInv, LocksTypeOK
<1>2. TablesOK(server[mach[n]])
  BY <1>1 DEF LocksInv
<1>3. /\ MailOK(netMail) /\ MailOK(userMail)
      /\ IsList(netMail[n]) /\ \A msg \in Range(netMail[n]) : LetterOK(msg)
  BY DEF LocksInv, MailOK
<1>4. /\ IsList(RemoveAt(netMail[n], i))
      /\ Range(RemoveAt(netMail[n], i)) \subseteq Range(netMail[n])
      /\ netMail[n][i] \in Range(netMail[n])
  BY <1>3, RemoveList
<1>5. MailOK(rest)
  <2>1. /\ rest = [k \in Thread |-> rest[k]]
        /\ rest[n] = RemoveAt(netMail[n], i)
        /\ \A k \in Thread \ {n} : rest[k] = netMail[k]
    BY <1>3 DEF MailOK
  <2> HIDE DEF rest
  <2> QED
    BY <1>3, <1>4, <2>1 DEF MailOK
<1> HIDE DEF rest
<1>6. /\ IsState(State(n, i))
      /\ State(n, i).tab = server[mach[n]] /\ State(n, i).netMail = rest
      /\ State(n, i).userMail = userMail /\ State(n, i).ended = FALSE
  BY DEF State, IsState, rest
<1> QED
  BY <1>2, <1>3, <1>4, <1>5, <1>6 DEF StateOK

LEMMA HandledStep ==
    ASSUME LocksInv, NEW n \in Thread, NEW i \in DOMAIN netMail[n], NEW s,
           Handled(State(n, i), s), Handles(n, s)
    PROVE  LocksInv' /\ QueueOrder
<1>1. mach \in Placements /\ mach[n] \in Machine
  BY Placed DEF LocksInv, LocksTypeOK
<1>2. StateOK(s) /\ InOrder(LocksOf(State(n, i)), LocksOf(s))
  BY DEF Handled
<1>3. State(n, i).tab = server[mach[n]]
  BY ReceivedState
<1>4. /\ server' = [m \in Machine |-> server'[m]]
      /\ server'[mach[n]] = s.tab
      /\ \A m \in Machine : m # mach[n] => server'[m] = server[m]
  BY <1>1 DEF LocksInv, Handles
<1>5. client' = [m \in Machine |-> client'[m]]
  BY DEF LocksInv, Handles
<1>6. \A m \in Machine : TablesOK(server'[m])
  BY <1>2, <1>4 DEF LocksInv, StateOK
<1>7. mach' = mach /\ Thread' = Thread
  BY DEF Handles, Thread
<1>8. MailOK(s.netMail) /\ MailOK(s.userMail)
  BY <1>2 DEF StateOK
<1>9. MailOK(netMail)' /\ MailOK(userMail)'
  BY <1>7, <1>8 DEF MailOK, Handles
<1>10. LocksTypeOK'
  <2>1. \A k \in Thread : \A j \in DOMAIN s.netMail[k] : s.netMail[k][j].via \in 0..Members
    BY <1>8 DEF MailOK, LetterOK, Range
  <2>2. \A m \in Machine : \A kind \in Kinds : server'[m][kind].next \in Int
    BY <1>6 DEF TablesOK, TableOK
  <2>3. DOMAIN Multiple = Kinds
    BY DEF Multiple, Kinds
  <2>4. ended' \subseteq Machine
    BY <1>1 DEF Handles, LocksInv, LocksTypeOK
  <2>5. /\ mach' \in Placements
        /\ request' \in [Thread' -> CallTypes \cup {None}]
        /\ requests' \in 0..MaxRequests /\ others' \in 0..requests'
    BY <1>7 DEF Handles, LocksInv, LocksTypeOK
  <2>6. \A k \in Thread' : \A j \in DOMAIN netMail'[k] : netMail'[k][j].via \in 0..Members
    BY <1>7, <2>1 DEF Handles
  <2>7. Placements' = Placements
    BY DEF Placements
  <2> QED
    BY <2>2, <2>3, <2>4, <2>5, <2>6, <2>7 DEF LocksTypeOK
<1>11. LocksInv'
  BY <1>4, <1>5, <1>6, <1>9, <1>10 DEF LocksInv
<1>12. QueueOrder
  <2> SUFFICES ASSUME NEW m \in Machine
               PROVE  InOrder(server[m]["lock"].at, server'[m]["lock"].at)
    BY DEF QueueOrder, InOrder
  <2>1. CASE m = mach[n]
    BY <1>2, <1>3, <1>4, <2>1 DEF LocksOf
  <2>2. CASE m # mach[n]
    BY <1>4, <2>2, OrderKept
  <2> QED
    BY <2>1, <2>2
<1> QED
  BY <1>11, <1>12

LEMMA NetStep ==
    ASSUME LocksInv, NEW n \in Thread, Net(n)
    PROVE  LocksInv' /\ QueueOrder
<1>1. mach \in Placements
  BY DEF LocksInv, LocksTypeOK
<1>2. ASSUME NEW i \in DOMAIN netMail[n], NEW s, Handled(State(n, i), s), Handles(n, s)
      PROVE  LocksInv' /\ QueueOrder
  BY <1>2, HandledStep
<1>3. \A i \in DOMAIN netMail[n] : StateOK(State(n, i)) /\ LetterOK(netMail[n][i])
  BY ReceivedState
<1>4. CASE ProcessCreateLock(n)
  <2>1. PICK i \in DOMAIN netMail[n], junk \in Junk :
            Handles(n, CreateLockRequest(State(n, i), n, netMail[n][i], junk))
    BY <1>4 DEF ProcessCreateLock, ProcessMessage, Deliverable
  <2>2. Handled(State(n, i), CreateLockRequest(State(n, i), n, netMail[n][i], junk))
    BY <1>1, <1>3, CreateLockRequestOK
  <2> QED
    BY <1>2, <2>1, <2>2
<1>5. CASE ProcessCreateLockVerify(n)
  <2>1. PICK i \in DOMAIN netMail[n], junk \in Junk :
            Handles(n, AnswerLockVerify(State(n, i), n, netMail[n][i], junk))
    BY <1>5 DEF ProcessCreateLockVerify, ProcessMessage, Deliverable
  <2>2. Handled(State(n, i), AnswerLockVerify(State(n, i), n, netMail[n][i], junk))
    BY <1>1, <1>3, AnswerVerifyOK, KeptIsHandled
  <2> QED
    BY <1>2, <2>1, <2>2
<1>6. CASE ProcessCreateLockAnswer(n)
  <2>1. PICK i \in DOMAIN netMail[n], junk \in Junk :
            Handles(n, LockAnswer(State(n, i), n, netMail[n][i], junk))
    BY <1>6 DEF ProcessCreateLockAnswer, ProcessMessage, Deliverable
  <2>2. Handled(State(n, i), LockAnswer(State(n, i), n, netMail[n][i], junk))
    BY <1>1, <1>3, LockAnswerOK
  <2> QED
    BY <1>2, <2>1, <2>2
<1>7. CASE ProcessCreateCV(n)
  <2>1. PICK i \in DOMAIN netMail[n], junk \in Junk :
            Handles(n, CreateCVRequest(State(n, i), n, netMail[n][i], junk))
    BY <1>7 DEF ProcessCreateCV, ProcessMessage, Deliverable
  <2>2. Handled(State(n, i), CreateCVRequest(State(n, i), n, netMail[n][i], junk))
    BY <1>1, <1>3, CreateVariableRequestsOK
  <2> QED
    BY <1>2, <2>1, <2>2
<1>8. CASE ProcessCreateCVVerify(n)
  <2>1. PICK i \in DOMAIN netMail[n], junk \in Junk :
            Handles(n, AnswerCVVerify(State(n, i), n, netMail[n][i], junk))
    BY <1>8 DEF ProcessCreateCVVerify, ProcessMessage, Deliverable
  <2>2. Handled(State(n, i), AnswerCVVerify(State(n, i), n, netMail[n][i], junk))
    BY <1>1, <1>3, AnswerVerifyOK, KeptIsHandled
  <2> QED
    BY <1>2, <2>1, <2>2
<1>9. CASE ProcessCreateCVAnswer(n)
  <2>1. PICK i \in DOMAIN netMail[n], junk \in Junk :
            Handles(n, CVAnswer(State(n, i), n, netMail[n][i], junk))
    BY <1>9 DEF ProcessCreateCVAnswer, ProcessMessage, Deliverable
  <2>2. Handled(State(n, i), CVAnswer(State(n, i), n, netMail[n][i], junk))
    BY <1>1, <1>3, CollectAnswerOK DEF Kinds, CVAnswer
  <2> QED
    BY <1>2, <2>1, <2>2
<1>10. CASE ProcessCreateMV(n)
  <2>1. PICK i \in DOMAIN netMail[n], junk \in Junk :
            Handles(n, CreateMVRequest(State(n, i), n, netMail[n][i], junk))
    BY <1>10 DEF ProcessCreateMV, ProcessMessage, Deliverable
  <2>2. Handled(State(n, i), CreateMVRequest(State(n, i), n, netMail[n][i], junk))
    BY <1>1, <1>3, CreateVariableRequestsOK
  <2> QED
    BY <1>2, <2>1, <2>2
<1>11. CASE ProcessCreateMVVerify(n)
  <2>1. PICK i \in DOMAIN netMail[n], junk \in Junk :
            Handles(n, AnswerMVVerify(State(n, i), n, netMail[n][i], junk))
    BY <1>11 DEF ProcessCreateMVVerify, ProcessMessage, Deliverable
  <2>2. Handled(State(n, i), AnswerMVVerify(State(n, i), n, netMail[n][i], junk))
    BY <1>1, <1>3, AnswerVerifyOK, KeptIsHandled
  <2> QED
    BY <1>2, <2>1, <2>2
<1>12. CASE ProcessCreateMVAnswer(n)
  <2>1. PICK i \in DOMAIN netMail[n], junk \in Junk :
            Handles(n, MVAnswer(State(n, i), n, netMail[n][i], junk))
    BY <1>12 DEF ProcessCreateMVAnswer, ProcessMessage, Deliverable
  <2>2. Handled(State(n, i), MVAnswer(State(n, i), n, netMail[n][i], junk))
    BY <1>1, <1>3, CollectAnswerOK DEF Kinds, MVAnswer
  <2> QED
    BY <1>2, <2>1, <2>2
<1>13. CASE ProcessAcquire(n)
  <2>1. PICK i \in DOMAIN netMail[n], junk \in Junk :
            Handles(n, AcquireRequest(State(n, i), n, netMail[n][i], junk))
    BY <1>13 DEF ProcessAcquire, ProcessMessage, Deliverable
  <2>2. Handled(State(n, i), AcquireRequest(State(n, i), n, netMail[n][i], junk))
    BY <1>1, <1>3, LockRequestsOK
  <2> QED
    BY <1>2, <2>1, <2>2
<1>14. CASE ProcessRelease(n)
  <2>1. PICK i \in DOMAIN netMail[n], junk \in Junk :
            Handles(n, ReleaseRequest(State(n, i), n, netMail[n][i], junk))
    BY <1>14 DEF ProcessRelease, ProcessMessage, Deliverable
  <2>2. Handled(State(n, i), ReleaseRequest(State(n, i), n, netMail[n][i], junk))
    BY <1>1, <1>3, LockRequestsOK
  <2> QED
    BY <1>2, <2>1, <2>2
<1>15. CASE ProcessDestroyLock(n)
  <2>1. PICK i \in DOMAIN netMail[n], junk \in Junk :
            Handles(n, DestroyLockRequest(State(n, i), n, netMail[n][i], junk))
    BY <1>15 DEF ProcessDestroyLock, ProcessMessage, Deliverable
  <2>2. Handled(State(n, i), DestroyLockRequest(State(n, i), n, netMail[n][i], junk))
    BY <1>1, <1>3, LockRequestsOK
  <2> QED
    BY <1>2, <2>1, <2>2
<1>16. CASE ProcessSetMV(n)
  <2>1. PICK i \in DOMAIN netMail[n], junk \in Junk :
            Handles(n, SetMVRequest(State(n, i), n, netMail[n][i], junk))
    BY <1>16 DEF ProcessSetMV, ProcessMessage, Deliverable
  <2>2. Handled(State(n, i), SetMVRequest(State(n, i), n, netMail[n][i], junk))
    BY <1>1, <1>3, MVRequestsOK
  <2> QED
    BY <1>2, <2>1, <2>2
<1>17. CASE ProcessGetMV(n)
  <2>1. PICK i \in DOMAIN netMail[n], junk \in Junk :
            Handles(n, GetMVRequest(State(n, i), n, netMail[n][i], junk))
    BY <1>17 DEF ProcessGetMV, ProcessMessage, Deliverable
  <2>2. Handled(State(n, i), GetMVRequest(State(n, i), n, netMail[n][i], junk))
    BY <1>1, <1>3, MVRequestsOK
  <2> QED
    BY <1>2, <2>1, <2>2
<1>18. CASE ProcessDestroyMV(n)
  <2>1. PICK i \in DOMAIN netMail[n], junk \in Junk :
            Handles(n, DestroyMVRequest(State(n, i), n, netMail[n][i], junk))
    BY <1>18 DEF ProcessDestroyMV, ProcessMessage, Deliverable
  <2>2. Handled(State(n, i), DestroyMVRequest(State(n, i), n, netMail[n][i], junk))
    BY <1>1, <1>3, MVRequestsOK
  <2> QED
    BY <1>2, <2>1, <2>2
<1>19. CASE ProcessWait(n)
  <2>1. PICK i \in DOMAIN netMail[n], junk \in Junk :
            Handles(n, WaitRequest(State(n, i), n, netMail[n][i], junk))
    BY <1>19 DEF ProcessWait, ProcessMessage, Deliverable
  <2>2. Handled(State(n, i), WaitRequest(State(n, i), n, netMail[n][i], junk))
    BY <1>1, <1>3, LockRequestsOK
  <2> QED
    BY <1>2, <2>1, <2>2
<1>20. CASE ProcessWaitCV(n)
  <2>1. PICK i \in DOMAIN netMail[n], junk \in Junk :
            Handles(n, WaitCVRequest(State(n, i), n, netMail[n][i], junk))
    BY <1>20 DEF ProcessWaitCV, ProcessMessage, Deliverable
  <2>2. Handled(State(n, i), WaitCVRequest(State(n, i), n, netMail[n][i], junk))
    BY <1>1, <1>3, WaitCVRequestOK
  <2> QED
    BY <1>2, <2>1, <2>2
<1>21. CASE ProcessWaitResponse(n)
  <2>1. PICK i \in DOMAIN netMail[n], junk \in Junk :
            Handles(n, WaitResponse(State(n, i), n, netMail[n][i], junk))
    BY <1>21 DEF ProcessWaitResponse, ProcessMessage, Deliverable
  <2>2. Handled(State(n, i), WaitResponse(State(n, i), n, netMail[n][i], junk))
    BY <1>1, <1>3, CVRequestsOK
  <2> QED
    BY <1>2, <2>1, <2>2
<1>22. CASE ProcessSignal(n)
  <2>1. PICK i \in DOMAIN netMail[n], junk \in Junk :
            Handles(n, SignalRequest(State(n, i), n, netMail[n][i], junk))
    BY <1>22 DEF ProcessSignal, ProcessMessage, Deliverable
  <2>2. Handled(State(n, i), SignalRequest(State(n, i), n, netMail[n][i], junk))
    BY <1>1, <1>3, CVRequestsOK
  <2> QED
    BY <1>2, <2>1, <2>2
<1>23. CASE ProcessBroadcast(n)
  <2>1. PICK i \in DOMAIN netMail[n], junk \in Junk :
            Handles(n, BroadcastRequest(State(n, i), n, netMail[n][i], junk))
    BY <1>23 DEF ProcessBroadcast, ProcessMessage, Deliverable
  <2>2. Handled(State(n, i), BroadcastRequest(State(n, i), n, netMail[n][i], junk))
    BY <1>1, <1>3, CVRequestsOK
  <2> QED
    BY <1>2, <2>1, <2>2
<1>24. CASE ProcessDestroyCV(n)
  <2>1. PICK i \in DOMAIN netMail[n], junk \in Junk :
            Handles(n, DestroyCVRequest(State(n, i), n, netMail[n][i], junk))
    BY <1>24 DEF ProcessDestroyCV, ProcessMessage, Deliverable
  <2>2. Handled(State(n, i), DestroyCVRequest(State(n, i), n, netMail[n][i], junk))
    BY <1>1, <1>3, CVRequestsOK
  <2> QED
    BY <1>2, <2>1, <2>2
<1>25. CASE ProcessNumber(n)
  <2>1. PICK i \in DOMAIN netMail[n], junk \in Junk :
            Handles(n, NumberRequest(State(n, i), n, netMail[n][i], junk))
    BY <1>25 DEF ProcessNumber, ProcessMessage, Deliverable
  <2>2. Handled(State(n, i), NumberRequest(State(n, i), n, netMail[n][i], junk))
    BY <1>1, <1>3, NumberRequestOK
  <2> QED
    BY <1>2, <2>1, <2>2
<1> QED
  BY <1>4, <1>5, <1>6, <1>7, <1>8, <1>9, <1>10, <1>11, <1>12, <1>13, <1>14, <1>15, <1>16,
     <1>17, <1>18, <1>19, <1>20, <1>21, <1>22, <1>23, <1>24, <1>25 DEF Net

LEMMA TablesAlone ==
    ASSUME LocksInv, UNCHANGED <<mach, server, client, ended>>,
           MailOK(netMail)', MailOK(userMail)',
           request' \in [Thread -> CallTypes \cup {None}],
           requests' \in 0..MaxRequests, others' \in 0..requests'
    PROVE  LocksInv' /\ QueueOrder
<1>1. Thread' = Thread /\ Placements' = Placements
  BY DEF Thread, Placements
<1>2. \A n \in Thread : \A i \in DOMAIN netMail'[n] : netMail'[n][i].via \in 0..Members
  BY <1>1 DEF MailOK, LetterOK, Range
<1>3. LocksTypeOK'
  BY <1>1, <1>2 DEF LocksInv, LocksTypeOK
<1>4. LocksInv'
  BY <1>3 DEF LocksInv
<1>5. QueueOrder
  <2> SUFFICES ASSUME NEW m \in Machine
               PROVE  InOrder(server[m]["lock"].at, server'[m]["lock"].at)
    BY DEF QueueOrder, InOrder
  <2> QED
    BY OrderKept
<1> QED
  BY <1>4, <1>5

LEMMA CallStep ==
    ASSUME LocksInv, NEW n \in Thread, NEW type \in CallTypes, NEW arg, Call(n, type, arg)
    PROVE  LocksInv' /\ QueueOrder
<1> DEFINE msg == [type |-> type, client |-> None, arg |-> arg, from |-> UserAddress(n),
                   via |-> 0]
           box == Append(netMail[n], msg)
<1>1. mach \in Placements /\ mach[n] \in Int /\ Box(n) \in Int
  BY Placed DEF LocksInv, LocksTypeOK
<1>2. LetterOK(msg)
  <2>1. UserAddress(n) \in Int \X Int
    BY <1>1 DEF UserAddress
  <2>2. 0 \in 0..Members
    BY DistributedLocksAssumption
  <2> QED
    BY <2>1, <2>2 DEF LetterOK
<1>3. netMail' = [netMail EXCEPT ![n] = box] /\ userMail' = userMail
      /\ UNCHANGED <<mach, server, client, ended>>
  BY DEF Call
<1>4. /\ request' \in [Thread -> CallTypes \cup {None}]
      /\ requests' \in 0..MaxRequests /\ others' \in 0..requests'
  <2>1. /\ request \in [Thread -> CallTypes \cup {None}]
        /\ requests \in 0..MaxRequests /\ others \in 0..requests
    BY DEF LocksInv, LocksTypeOK
  <2>2. /\ request' = [request EXCEPT ![n] = type] /\ requests' = requests + 1
        /\ requests < MaxRequests
        /\ others' = others \/ others' = others + 1
    BY DEF Call
  <2> QED
    BY <2>1, <2>2, DistributedLocksAssumption
<1> HIDE DEF msg
<1>5. IsList(netMail[n]) /\ netMail = [k \in Thread |-> netMail[k]]
      /\ \A k \in Thread : IsList(netMail[k]) /\ \A m \in Range(netMail[k]) : LetterOK(m)
  BY DEF LocksInv, MailOK
<1>6. IsList(box) /\ Range(box) = Range(netMail[n]) \cup {msg}
  BY <1>5, AppendList
<1> HIDE DEF box
<1>7. Thread' = Thread
  BY <1>3 DEF Thread
<1>8. MailOK(netMail)'
  BY <1>2, <1>3, <1>5, <1>6, <1>7 DEF MailOK
<1>9. MailOK(userMail)'
  BY <1>3, <1>7 DEF LocksInv, MailOK
<1> QED
  BY <1>3, <1>4, <1>8, <1>9, TablesAlone

LEMMA TakeReplyStep ==
    ASSUME LocksInv, NEW n \in Thread, TakeReply(n)
    PROVE  LocksInv' /\ QueueOrder
<1> DEFINE box == Tail(userMail[n])
<1>1. /\ userMail' = [userMail EXCEPT ![n] = box] /\ netMail' = netMail
      /\ userMail[n] # <<>>
      /\ UNCHANGED <<mach, server, client, ended>>
  BY DEF TakeReply
<1>2. /\ request' \in [Thread -> CallTypes \cup {None}]
      /\ requests' \in 0..MaxRequests /\ others' \in 0..requests'
  <2>1. /\ request \in [Thread -> CallTypes \cup {None}]
        /\ requests \in 0..MaxRequests /\ others \in 0..requests
    BY DEF LocksInv, LocksTypeOK
  <2>2. requests' = requests /\ others' = others
    BY DEF TakeReply
  <2>3. \E r \in {request[n], None} : request' = [request EXCEPT ![n] = r]
    BY DEF TakeReply
  <2> QED
    BY <2>1, <2>2, <2>3
<1>3. /\ userMail = [k \in Thread |-> userMail[k]]
      /\ \A k \in Thread : IsList(userMail[k]) /\ \A m \in Range(userMail[k]) : LetterOK(m)
  BY DEF LocksInv, MailOK
<1>4. IsList(box) /\ Range(box) \subseteq Range(userMail[n])
  BY <1>1, <1>3, TailList
<1> HIDE DEF box
<1>5. Thread' = Thread
  BY <1>1 DEF Thread
<1>6. MailOK(userMail)'
  BY <1>1, <1>3, <1>4, <1>5 DEF MailOK
<1>7. MailOK(netMail)'
  BY <1>1, <1>5 DEF LocksInv, MailOK
<1> QED
  BY <1>1, <1>2, <1>6, <1>7, TablesAlone

LEMMA LocksStep ==
    ASSUME LocksInv, [LocksNext]_locksVars
    PROVE  LocksInv' /\ QueueOrder
<1>1. CASE UNCHANGED locksVars
  <2>1. request \in [Thread -> CallTypes \cup {None}]
    BY DEF LocksInv, LocksTypeOK
  <2>2. Thread' = Thread
    BY <1>1 DEF Thread, locksVars
  <2>3. MailOK(netMail)' /\ MailOK(userMail)'
    BY <1>1, <2>2 DEF locksVars, LocksInv, MailOK
  <2>4. requests \in 0..MaxRequests /\ others \in 0..requests
    BY DEF LocksInv, LocksTypeOK
  <2> QED
    BY <1>1, <2>1, <2>3, <2>4, TablesAlone DEF locksVars
<1>2. ASSUME NEW n \in Thread, Net(n)
      PROVE  LocksInv' /\ QueueOrder
  BY <1>2, NetStep
<1>3. ASSUME NEW n \in Thread, User(n)
      PROVE  LocksInv' /\ QueueOrder
  <2>1. CASE TakeReply(n)
    BY <2>1, TakeReplyStep
  <2>2. CASE \E type \in CallTypes : \E arg : Call(n, type, arg)
    BY <2>2, CallStep
  <2>3. User(n) => TakeReply(n) \/ \E type \in CallTypes : \E arg : Call(n, type, arg)
    BY Zenon DEF User, CallCreate, CallLock, CallMV, CallCV, CallTypes, LockCalls
  <2> QED
    BY <1>3, <2>1, <2>2, <2>3
<1> QED
  BY <1>1, <1>2, <1>3 DEF LocksNext

LEMMA LocksStart ==
    ASSUME LocksInit
    PROVE  LocksInv
<1>1. MailOK([n \in Thread |-> <<>>])
  BY EmptyList DEF MailOK
<1>2. TablesOK(NewServer)
  <2>1. DOMAIN Multiple = Kinds
    BY DEF Multiple, Kinds
  <2>2. NewServer = [kind \in Kinds |-> [next |-> 0, at |-> <<>>]]
    BY <2>1 DEF NewServer
  <2>3. \A kind \in Kinds : NewServer[kind] = [next |-> 0, at |-> <<>>]
    BY <2>2
  <2>4. DOMAIN <<>> = {} /\ <<>> = [k \in DOMAIN <<>> |-> <<>>[k]]
    OBVIOUS
  <2>5. "lock" \in Kinds /\ "cv" \in Kinds
    BY DEF Kinds
  <2>6. \A kind \in Kinds : /\ NewServer[kind].next = 0 /\ NewServer[kind].at = <<>>
                            /\ TableOK(NewServer[kind])
    BY <2>3, <2>4 DEF TableOK
  <2>7. NewServer = [kind \in Kinds |-> NewServer[kind]]
    BY <2>2, <2>3
  <2> HIDE DEF NewServer
  <2> QED
    BY <2>4, <2>5, <2>6, <2>7 DEF TablesOK
<1>3. LocksTypeOK
  <2>1. \A n \in Thread : DOMAIN netMail[n] = {}
    BY DEF LocksInit
  <2>2. \A m \in Machine : \A kind \in DOMAIN Multiple : server[m][kind].next \in Int
    BY DEF LocksInit, NewServer
  <2>3. requests \in 0..MaxRequests /\ others \in 0..requests
    BY DistributedLocksAssumption DEF LocksInit
  <2>4. request \in [Thread -> CallTypes \cup {None}]
    BY DEF LocksInit
  <2> QED
    BY <2>1, <2>2, <2>3, <2>4 DEF LocksInit, LocksTypeOK
<1>4. /\ server = [m \in Machine |-> server[m]] /\ client = [m \in Machine |-> client[m]]
      /\ \A m \in Machine : server[m] = NewServer
  BY DEF LocksInit
<1>5. MailOK(netMail) /\ MailOK(userMail)
  BY <1>1 DEF LocksInit
<1> QED
  BY <1>2, <1>3, <1>4, <1>5 DEF LocksInv

LEMMA LocksInvariant == LocksSpec => []LocksInv /\ [][QueueOrder]_locksVars
<1>1. LocksInit => LocksInv
  BY LocksStart
<1>2. LocksInv /\ [LocksNext]_locksVars => LocksInv' /\ [QueueOrder]_locksVars
  BY LocksStep
<1> QED
  BY <1>1, <1>2, PTL DEF LocksSpec

LEMMA LocksAgree ==
    ASSUME LocksInv
    PROVE  LockStateAgrees
BY DEF LocksInv, TablesOK, LockOK, LockStateAgrees

\* Every lock of every machine, whatever is sent and whatever the group: free
\* exactly if it has no owner, and nobody waits for a free one.
THEOREM LocksAreConsistent == LocksSpec => []LockStateAgrees
BY LocksInvariant, LocksAgree, PTL

\* A lock that is held only passes to the first in its queue.
THEOREM LocksHandedOver == LocksSpec => HandedOverInOrder
BY LocksInvariant, PTL DEF HandedOverInOrder

-----------------------------------------------------------------------------
(* A group of one: the inductive invariant                                  *)

Alone == mach \in Placements /\ serverCount = 1

IsEntry(object) == {"name", "globalId"} \subseteq DOMAIN object

\* The objects of a table, when entries are only made after those before them.
ObjectsSound(table) ==
    /\ \A k \in DOMAIN table.at : IsEntry(table.at[k])
    /\ DOMAIN table.at \subseteq 0..Capacity - 1
    /\ table.next = Cardinality(DOMAIN table.at)
    /\ \A k \in DOMAIN table.at : table.at[k].globalId = k
    /\ \A j, k \in DOMAIN table.at : table.at[j].name = table.at[k].name => j = k

NobodyWaits(tab) ==
    /\ \A k \in DOMAIN tab["lock"].at : tab["lock"].at[k].waitQueue = <<>>
    /\ \A k \in DOMAIN tab["cv"].at : tab["cv"].at[k].waitQueue = <<>>

\* A reply that went to the network thread itself.
OwnNumber(msg) == msg.client = None /\ msg.from = <<0, 0>> /\ msg.type = "REPLY"

\* A call of the program of the group.
OwnCall(msg) ==
    /\ msg.client = None
    /\ msg.from = <<0, 1>>
    /\ msg.type \in CallTypes
    /\ msg.type \in {"CREATELOCK", "CREATECV", "CREATEMV"} \/ msg.arg[1] \in 0..1
    /\ msg.type \in {"WAIT", "BROADCAST"} => msg.arg[2] \in 0..1

\* The program waits for an answer that will not come.
Stuck == request[1] # None /\ netMail[1] = <<>> /\ userMail[1] = <<>>

LoneInv ==
    serverCount = 1 =>
        /\ Len(netMail[1]) + Len(userMail[1]) <= 1
        /\ request[1] = None => netMail[1] = <<>> /\ userMail[1] = <<>>
        /\ \A m \in Machine \ {0} : server[m] = NewServer
        /\ ended \subseteq {0}
        /\ ended = {} =>
             /\ \A kind \in Kinds : ObjectsSound(server[0][kind])
             /\ \A msg \in Range(netMail[1]) : OwnNumber(msg) \/ OwnCall(msg)
             /\ ~Stuck => NobodyWaits(server[0])

\* Before and after a call of processMessage.
Silent(s) == s.netMail[1] = <<>> /\ s.userMail[1] = <<>>

AllSound(s) == \A kind \in Kinds : ObjectsSound(s.tab[kind])

Well(s) == StateOK(s) /\ AllSound(s) /\ NobodyWaits(s.tab)

Begun(s) == Well(s) /\ Silent(s)

OneLetter(s) ==
    /\ Len(s.netMail[1]) + Len(s.userMail[1]) <= 1
    /\ \A msg \in Range(s.netMail[1]) : OwnNumber(msg)

Finished(s) ==
    /\ OneLetter(s)
    /\ ~s.ended => AllSound(s) /\ (Silent(s) \/ NobodyWaits(s.tab))

-----------------------------------------------------------------------------
(* A group of one: addresses, tables, replies                               *)

LEMMA AloneAt ==
    ASSUME Alone
    PROVE  /\ Thread = {1} /\ mach[1] = 0
           /\ Box(1) = 0 /\ NetAddress(1) = <<0, 0>> /\ UserAddress(1) = <<0, 1>>
           /\ uniqueGlobalID(1) = 0
<1>1. Thread = {1} /\ mach[1] = 0
  BY Placed DEF Alone
<1>2. {k \in 1..1 - 1 : mach[k] = mach[1]} = {}
  OBVIOUS
<1>3. Box(1) = 0
  BY <1>2, FS_EmptySet DEF Box
<1> QED
  BY <1>1, <1>3 DEF NetAddress, UserAddress, uniqueGlobalID

LEMMA OwnIds ==
    ASSUME Alone, NEW id \in 0..1, NEW kind \in Kinds
    PROVE  IsOwn(1, kind, id) /\ id % Multiple[kind] = id
<1>1. uniqueGlobalID(1) = 0
  BY AloneAt
<1>2. Multiple[kind] = 100 \/ Multiple[kind] = 500
  BY DEF Multiple, Kinds
<1>3. id \div 100 = 0 /\ id \div 500 = 0 /\ id % 100 = id /\ id % 500 = id
  OBVIOUS
<1> QED
  BY <1>1, <1>2, <1>3 DEF IsOwn, Owner

LEMMA FiniteObjects ==
    ASSUME NEW table, ObjectsSound(table)
    PROVE  IsFiniteSet(DOMAIN table.at)
<1>1. IsFiniteSet(0..Capacity - 1)
  <2>1. 0 \in Int /\ Capacity - 1 \in Int
    BY DistributedLocksAssumption
  <2> QED
    BY <2>1, FS_Interval
<1>2. DOMAIN table.at \in SUBSET (0..Capacity - 1)
  BY DEF ObjectsSound
<1> QED
  BY <1>1, <1>2, FS_Subset

LEMMA SoundPut ==
    ASSUME NEW table, ObjectsSound(table), NEW k \in DOMAIN table.at, NEW object, IsEntry(object),
           object.globalId = table.at[k].globalId, object.name = table.at[k].name,
           NEW new, new.at = Assign(table.at, k, object), new.next = table.next
    PROVE  ObjectsSound(new)
<1>1. /\ DOMAIN new.at = DOMAIN table.at
      /\ new.at[k] = object
      /\ \A i \in DOMAIN table.at : i # k => new.at[i] = table.at[i]
  BY DEF Assign
<1> QED
  BY <1>1 DEF ObjectsSound

LEMMA SoundDelete ==
    ASSUME NEW table, ObjectsSound(table), NEW k \in DOMAIN table.at,
           NEW new, new.at = Without(table.at, k), new.next = table.next - 1
    PROVE  ObjectsSound(new)
<1>1. /\ DOMAIN new.at = DOMAIN table.at \ {k}
      /\ \A i \in DOMAIN new.at : new.at[i] = table.at[i]
  BY DEF Without
<1>2. IsFiniteSet(DOMAIN table.at)
  BY FiniteObjects
<1>3. Cardinality(DOMAIN new.at) = Cardinality(DOMAIN table.at) - 1
  BY <1>1, <1>2, FS_RemoveElement
<1> QED
  BY <1>1, <1>3 DEF ObjectsSound

\* Without holes, the entries are those below the next one.
LEMMA NoHoles ==
    ASSUME NEW table, ObjectsSound(table),
           (0..table.next - 1) \ DOMAIN table.at = {}
    PROVE  DOMAIN table.at = 0..table.next - 1 /\ table.next \in Nat
<1>1. IsFiniteSet(DOMAIN table.at)
  BY FiniteObjects
<1>2. table.next \in Nat
  BY <1>1, FS_CardinalityType DEF ObjectsSound
<1>3. Cardinality(0..table.next - 1) = table.next
  BY <1>2, FS_Interval
<1>4. 0..table.next - 1 \subseteq DOMAIN table.at
  OBVIOUS
<1> QED
  BY <1>1, <1>2, <1>3, <1>4, FS_Subset DEF ObjectsSound

LEMMA SoundCreate ==
    ASSUME NEW table, ObjectsSound(table),
           (0..table.next - 1) \ DOMAIN table.at = {}, table.next \in 0..Capacity - 1,
           NEW object, IsEntry(object), object.globalId = table.next,
           \A k \in DOMAIN table.at : table.at[k].name # object.name,
           NEW new, new.at = Assign(table.at, table.next, object), new.next = table.next + 1
    PROVE  ObjectsSound(new)
<1>1. DOMAIN table.at = 0..table.next - 1 /\ table.next \in Nat
  BY NoHoles
<1>2. /\ DOMAIN new.at = DOMAIN table.at \cup {table.next}
      /\ new.at[table.next] = object
      /\ \A i \in DOMAIN table.at : i # table.next => new.at[i] = table.at[i]
  BY DEF Assign
<1>3. DOMAIN new.at = 0..table.next
  BY <1>1, <1>2
<1>4. Cardinality(0..table.next) = table.next + 1
  <2>1. Cardinality(0..table.next) = IF 0 > table.next THEN 0 ELSE table.next - 0 + 1
    BY <1>1, FS_Interval
  <2> QED
    BY <1>1, <2>1
<1>5. \A i \in DOMAIN table.at : i # table.next /\ new.at[i] = table.at[i]
  BY <1>1, <1>2
<1> QED
  BY <1>1, <1>2, <1>3, <1>4, <1>5, DistributedLocksAssumption DEF ObjectsSound

LEMMA EmptyMail ==
    ASSUME Alone, NEW mail, mail[1] = <<>>, NEW address, NEW to, NEW msg
    PROVE  \/ Reached(mail, address, to, msg)[1] = <<>>
           \/ /\ address[1] \in to
              /\ Reached(mail, address, to, msg)[1] = <<msg>>
<1>1. Thread = {1}
  BY AloneAt
<1>2. Reached(mail, address, to, msg)[1]
      = IF address[1] \in to THEN Append(mail[1], msg) ELSE mail[1]
  BY <1>1 DEF Reached
<1> QED
  BY <1>2

LEMMA OneLetterSent ==
    ASSUME Alone, NEW s, StateOK(s), Silent(s), NEW to, NEW value
    PROVE  LET t == Reply(s, 1, 0, to, value)
           IN  StateOK(t) /\ t.tab = s.tab /\ OneLetter(t)
<1> DEFINE msg == [type |-> "REPLY", client |-> None, arg |-> <<value>>,
                   from |-> <<0, 0>>, via |-> 1]
           boxes == {address \in {to} : address[2] \in 0..99}
           net == Reached(s.netMail, [k \in Thread |-> NetAddress(k)], boxes, msg)
           user == Reached(s.userMail, [k \in Thread |-> UserAddress(k)], boxes, msg)
           t == Reply(s, 1, 0, to, value)
<1>1. Thread = {1} /\ mach[1] = 0 /\ NetAddress(1) = <<0, 0>> /\ UserAddress(1) = <<0, 1>>
  BY AloneAt
<1>2. StateOK(t) /\ t.tab = s.tab
  BY <1>1, Replied DEF Alone
<1>3. t.netMail = net /\ t.userMail = user
  <2>1. Letter(1, 0, "REPLY", None, <<value>>) = msg
    BY <1>1 DEF Letter
  <2>2. t = [s EXCEPT !.netMail = net, !.userMail = user, !.ended = @ \/ boxes # {to}]
    BY <2>1 DEF Reply, Post, Send, StateOK, IsState
  <2> HIDE DEF net, user, boxes, t
  <2> QED
    BY <2>2 DEF StateOK, IsState
<1> DEFINE netAt == [k \in Thread |-> NetAddress(k)]
           userAt == [k \in Thread |-> UserAddress(k)]
<1>4. netAt[1] = <<0, 0>> /\ userAt[1] = <<0, 1>>
  BY <1>1
<1>5. ~(netAt[1] \in boxes /\ userAt[1] \in boxes)
  BY <1>4
<1>6. OwnNumber(msg)
  BY DEF OwnNumber
<1> HIDE DEF msg, boxes, netAt, userAt
<1>7. net[1] = <<>> \/ (netAt[1] \in boxes /\ net[1] = <<msg>>)
  BY EmptyMail DEF Silent, netAt
<1>8. user[1] = <<>> \/ (userAt[1] \in boxes /\ user[1] = <<msg>>)
  BY EmptyMail DEF Silent, userAt
<1> HIDE DEF net, user
<1>9. Len(net[1]) + Len(user[1]) <= 1
  <2>1. Len(<<>>) = 0 /\ Len(<<msg>>) = 1
    OBVIOUS
  <2>2. net[1] = <<>> \/ user[1] = <<>>
    BY <1>5, <1>7, <1>8
  <2>3. /\ Len(net[1]) = 0 \/ Len(net[1]) = 1
        /\ Len(user[1]) = 0 \/ Len(user[1]) = 1
        /\ Len(net[1]) = 0 \/ Len(user[1]) = 0
    BY ONLY <1>7, <1>8, <2>1, <2>2, Zenon
  <2> DEFINE j == Len(net[1])
             k == Len(user[1])
  <2> HIDE DEF j, k
  <2>4. (j = 0 \/ j = 1) /\ (k = 0 \/ k = 1) /\ (j = 0 \/ k = 0)
    BY ONLY <2>3, Zenon DEF j, k
  <2>5. j + k <= 1
    BY <2>4
  <2> QED
    BY <2>5 DEF j, k
<1>10. \A letter \in Range(net[1]) : OwnNumber(letter)
  BY <1>6, <1>7 DEF Range
<1> QED
  BY <1>2, <1>3, <1>9, <1>10 DEF OneLetter

-----------------------------------------------------------------------------
(* A group of one: what a call of processMessage does                       *)

\* What was said of the mail, of states with the same mail.
LEMMA EntryKept ==
    ASSUME NEW object, IsEntry(object), NEW a
    PROVE  /\ LET new == [object EXCEPT !.value = a]
              IN  /\ IsEntry(new)
                  /\ new.name = object.name /\ new.globalId = object.globalId
           /\ LET new == [object EXCEPT !.waitQueue = a]
              IN  /\ IsEntry(new)
                  /\ new.name = object.name /\ new.globalId = object.globalId
           /\ LET new == [object EXCEPT !.firstLock = a]
              IN  /\ IsEntry(new)
                  /\ new.name = object.name /\ new.globalId = object.globalId
BY DEF IsEntry

LEMMA WaitingEntry ==
    ASSUME NEW object, IsEntry(object), NEW first, NEW queue
    PROVE  LET new == [object EXCEPT !.firstLock = first, !.waitQueue = queue]
           IN  /\ IsEntry(new)
               /\ new.name = object.name /\ new.globalId = object.globalId
BY DEF IsEntry

LEMMA ForgottenVariable ==
    ASSUME NEW variable, VariableOK(variable), NEW first
    PROVE  LET new == [variable EXCEPT !.firstLock = first]
           IN  VariableOK(new) /\ new.waitQueue = variable.waitQueue
<1> DEFINE new == [variable EXCEPT !.firstLock = first]
<1>1. new = [name |-> variable.name, globalId |-> variable.globalId,
             firstLock |-> first, waitQueue |-> variable.waitQueue]
  BY DEF VariableOK
<1> HIDE DEF new
<1>2. VariableOK(new) /\ new.waitQueue = variable.waitQueue
  BY <1>1 DEF VariableOK
<1> QED
  BY <1>2 DEF new

LEMMA OwnerEntry ==
    ASSUME NEW object, IsEntry(object), NEW free \in BOOLEAN, NEW owner
    PROVE  LET new == [object EXCEPT !.free = free, !.owner = owner]
           IN  /\ IsEntry(new)
               /\ new.name = object.name /\ new.globalId = object.globalId
BY DEF IsEntry

LEMMA SameMail ==
    ASSUME NEW s, NEW t, t.netMail = s.netMail, t.userMail = s.userMail
    PROVE  (Silent(t) <=> Silent(s)) /\ (OneLetter(t) <=> OneLetter(s))
BY DEF Silent, OneLetter

LEMMA SameTables ==
    ASSUME NEW s, Well(s), NEW t, StateOK(t), t.tab = s.tab
    PROVE  Well(t)
BY DEF Well, AllSound

LEMMA SilentIsOneLetter ==
    ASSUME NEW s, Silent(s)
    PROVE  OneLetter(s)
<1>1. Len(<<>>) = 0 /\ Range(<<>>) = {}
  BY EmptyList
<1>2. Len(s.netMail[1]) = 0 /\ Len(s.userMail[1]) = 0 /\ Range(s.netMail[1]) = {}
  BY <1>1, Zenon DEF Silent
<1> QED
  BY <1>2 DEF OneLetter

LEMMA WellFinishes ==
    ASSUME NEW s, Well(s), OneLetter(s)
    PROVE  Finished(s)
BY DEF Well, Finished

LEMMA NothingFinishes ==
    ASSUME NEW s, Begun(s)
    PROVE  Finished(s)
BY SilentIsOneLetter DEF Begun, Well, Finished

LEMMA AbortFinishes ==
    ASSUME NEW s, Begun(s)
    PROVE  Finished(Abort(s))
<1>1. Abort(s) = [tab |-> s.tab, arr |-> s.arr, clock |-> s.clock, netMail |-> s.netMail,
                  userMail |-> s.userMail, ended |-> TRUE]
  BY EndChanged DEF Abort, Begun, Well, StateOK
<1>2. OneLetter(Abort(s))
  BY <1>1, SilentIsOneLetter, SameMail DEF Begun
<1> QED
  BY <1>1, <1>2 DEF Finished

LEMMA PutSound ==
    ASSUME NEW s, Well(s), NEW kind \in Kinds, NEW k, Has(s, kind, k), NEW object,
           kind = "lock" => LockOK(object),
           kind = "cv" => VariableOK(object),
           IsEntry(object), object.globalId = Object(s, kind, k).globalId,
           object.name = Object(s, kind, k).name
    PROVE  LET t == PutObject(s, kind, k, object)
           IN  /\ StateOK(t) /\ AllSound(t)
               /\ t.netMail = s.netMail /\ t.userMail = s.userMail
               /\ kind = "mv" \/ object.waitQueue = <<>> => Well(t)
<1> DEFINE t == PutObject(s, kind, k, object)
<1>1. /\ StateOK(t)
      /\ t.tab[kind].at = Assign(s.tab[kind].at, k, object)
      /\ t.tab[kind].next = s.tab[kind].next
      /\ \A other \in Kinds \ {kind} : t.tab[other] = s.tab[other]
      /\ t.netMail = s.netMail /\ t.userMail = s.userMail
  BY ObjectPut DEF Well
<1> HIDE DEF t
<1>2. k \in DOMAIN s.tab[kind].at /\ Object(s, kind, k) = s.tab[kind].at[k]
  BY DEF Has, Object
<1>3. ObjectsSound(s.tab[kind])
  BY DEF Well, AllSound
<1>4. ObjectsSound(t.tab[kind])
  BY <1>1, <1>2, <1>3, SoundPut
<1>5. AllSound(t)
  BY <1>1, <1>4 DEF Well, AllSound
<1>6. ASSUME kind = "mv" \/ object.waitQueue = <<>>
      PROVE  NobodyWaits(t.tab)
  <2>1. \A i \in DOMAIN t.tab[kind].at :
            i = k \/ (i \in DOMAIN s.tab[kind].at /\ t.tab[kind].at[i] = s.tab[kind].at[i])
    BY <1>1 DEF Assign
  <2>2. k \in DOMAIN t.tab[kind].at => t.tab[kind].at[k] = object
    BY <1>1 DEF Assign
  <2>3. NobodyWaits(s.tab)
    BY DEF Well
  <2> QED
    BY <1>1, <1>6, <2>1, <2>2, <2>3 DEF NobodyWaits, Kinds
<1> QED
  BY <1>1, <1>5, <1>6 DEF Well, t

LEMMA DeleteSound ==
    ASSUME NEW s, Well(s), NEW kind \in Kinds, NEW k, Has(s, kind, k)
    PROVE  LET t == Delete(s, kind, k)
           IN  Well(t) /\ t.netMail = s.netMail /\ t.userMail = s.userMail
<1> DEFINE t == Delete(s, kind, k)
<1>1. /\ StateOK(t)
      /\ t.tab[kind].at = Without(s.tab[kind].at, k)
      /\ t.tab[kind].next = s.tab[kind].next - 1
      /\ \A other \in Kinds \ {kind} : t.tab[other] = s.tab[other]
      /\ t.netMail = s.netMail /\ t.userMail = s.userMail
  BY Deleted DEF Well
<1> HIDE DEF t
<1>2. k \in DOMAIN s.tab[kind].at
  BY DEF Has
<1>3. ObjectsSound(s.tab[kind])
  BY DEF Well, AllSound
<1>4. ObjectsSound(t.tab[kind])
  BY <1>1, <1>2, <1>3, SoundDelete
<1>5. AllSound(t)
  BY <1>1, <1>4 DEF Well, AllSound
<1>6. NobodyWaits(t.tab)
  <2>1. \A i \in DOMAIN t.tab[kind].at :
            i \in DOMAIN s.tab[kind].at /\ t.tab[kind].at[i] = s.tab[kind].at[i]
    BY <1>1 DEF Without
  <2>2. NobodyWaits(s.tab)
    BY DEF Well
  <2> QED
    BY <1>1, <2>1, <2>2 DEF NobodyWaits, Kinds
<1> QED
  BY <1>1, <1>5, <1>6 DEF Well, t

\* The lookup found nothing, and no hole.
LEMMA CreateSound ==
    ASSUME Alone, NEW s, Well(s), NEW kind \in Kinds, NEW name, NEW junk,
           ~TableFull(s, kind), Holes(s, kind) = {}, Named(s, kind, name) = {}
    PROVE  LET t == Create(s, 1, kind, name, junk)
           IN  Well(t) /\ t.netMail = s.netMail /\ t.userMail = s.userMail
<1> DEFINE t == Create(s, 1, kind, name, junk)
           k == s.tab[kind].next
           id == uniqueGlobalID(1) * Multiple[kind] + k
           object == New(kind, name, id, junk)
<1>1. /\ StateOK(t)
      /\ t.tab[kind].at = Assign(s.tab[kind].at, k, object)
      /\ t.tab[kind].next = k + 1
      /\ \A other \in Kinds \ {kind} : t.tab[other] = s.tab[other]
      /\ t.netMail = s.netMail /\ t.userMail = s.userMail
  BY Created DEF Well
<1>2. k \in 0..Capacity - 1 /\ (0..k - 1) \ DOMAIN s.tab[kind].at = {}
  BY DEF TableFull, Holes
<1>3. id = k
  <2>1. uniqueGlobalID(1) = 0
    BY AloneAt
  <2>2. Multiple[kind] \in Int
    BY DEF Multiple, Kinds
  <2>3. k \in Int
    BY <1>2, DistributedLocksAssumption
  <2> QED
    BY <2>1, <2>2, <2>3
<1>4. /\ object.globalId = id /\ object.name = name /\ IsEntry(object)
      /\ kind # "mv" => object.waitQueue = <<>>
  BY DEF New, Kinds, IsEntry
<1>5. ObjectsSound(s.tab[kind])
  BY DEF Well, AllSound
<1>6. \A i \in DOMAIN s.tab[kind].at : s.tab[kind].at[i].name # name
  <2>1. DOMAIN s.tab[kind].at = 0..k - 1
    BY <1>2, <1>5, NoHoles
  <2> QED
    BY <2>1 DEF Named, Holes, Object
<1> HIDE DEF t, object
<1>7. ObjectsSound(t.tab[kind])
  BY <1>1, <1>2, <1>3, <1>4, <1>5, <1>6, SoundCreate
<1>8. AllSound(t)
  BY <1>1, <1>7 DEF Well, AllSound
<1>9. NobodyWaits(t.tab)
  <2>1. \A i \in DOMAIN t.tab[kind].at :
            \/ t.tab[kind].at[i] = object
            \/ i \in DOMAIN s.tab[kind].at /\ t.tab[kind].at[i] = s.tab[kind].at[i]
    BY <1>1 DEF Assign
  <2>2. NobodyWaits(s.tab)
    BY DEF Well
  <2> QED
    BY <1>1, <1>4, <2>1, <2>2 DEF NobodyWaits, Kinds
<1> QED
  BY <1>1, <1>8, <1>9 DEF Well, t

Answered(s) == Well(s) /\ OneLetter(s)

LEMMA LoneAnswers ==
    ASSUME Alone, NEW s, Begun(s), NEW value, NEW c, NEW to
    PROVE  /\ Answered(ReplyToUser(s, 1, c, value))
           /\ Answered(ReplyToNet(s, 1, c, value))
           /\ Answered(ReplyToOwnUser(s, 1, value))
           /\ Answered(Reply(s, 1, mach[1], to, value))
<1>1. mach[1] = 0 /\ Box(1) = 0
  BY AloneAt
<1>2. ASSUME NEW place
      PROVE  Answered(Reply(s, 1, 0, place, value))
  <2>1. StateOK(s) /\ Silent(s) /\ Well(s)
    BY DEF Begun, Well
  <2> DEFINE t == Reply(s, 1, 0, place, value)
  <2>2. StateOK(t) /\ t.tab = s.tab /\ OneLetter(t)
    BY <2>1, OneLetterSent
  <2> HIDE DEF t
  <2> QED
    BY <2>1, <2>2, SameTables DEF Answered, t
<1> QED
  BY <1>1, <1>2 DEF ReplyToUser, ReplyToNet, ReplyToOwnUser

LEMMA AnsweredFinishes ==
    ASSUME NEW s, Answered(s)
    PROVE  Finished(s)
BY WellFinishes DEF Answered

LEMMA EntryAt ==
    ASSUME NEW s, Well(s), NEW kind \in Kinds, NEW k, Has(s, kind, k)
    PROVE  /\ IsEntry(Object(s, kind, k))
           /\ kind # "mv" => Object(s, kind, k).waitQueue = <<>>
<1>1. ObjectsSound(s.tab[kind]) /\ NobodyWaits(s.tab)
  BY DEF Well, AllSound
<1> QED
  BY <1>1 DEF ObjectsSound, NobodyWaits, Has, Object, Kinds

LEMMA LoneAcquire ==
    ASSUME Alone, NEW s, Begun(s), NEW c \in Int, NEW id
    PROVE  Finished(Acquire(s, 1, c, id))
<1> DEFINE k == id % Multiple["lock"]
           lock == Object(s, "lock", k)
           waiter == [to |-> NetOf(c), value |-> lock.globalId]
           queue == Append(lock.waitQueue, waiter)
           queued == [lock EXCEPT !.waitQueue = queue]
           taken == [lock EXCEPT !.free = FALSE, !.owner = NetOf(c)]
           t == PutObject(s, "lock", k, taken)
           u == PutObject(s, "lock", k, queued)
<1>1. CASE ~InRange("lock", id) \/ ~Has(s, "lock", k)
  BY <1>1, NothingFinishes DEF Acquire
<1> SUFFICES ASSUME InRange("lock", id), Has(s, "lock", k)
             PROVE  Finished(Acquire(s, 1, c, id))
  BY <1>1
<1>2. Well(s) /\ StateOK(s) /\ Silent(s) /\ "lock" \in Kinds
  BY DEF Begun, Well, Kinds
<1>3. LockOK(lock) /\ IsEntry(lock) /\ lock.waitQueue = <<>>
  BY <1>2, LockIsOK, EntryAt
<1>4. NetOf(c) \in Nat \X Int
  BY NetIsPlace
<1>5. CASE ~IsFree(s, k)
  <2>1. Acquire(s, 1, c, id) = u
    BY <1>5 DEF Acquire
  <2>2. ~lock.free
    BY <1>5 DEF IsFree
  <2>3. QueueOK(queue)
    BY <1>3, <1>4, AppendWaiter DEF LockOK
  <2> HIDE DEF queue, k
  <2>4. LockOK(queued)
    BY <1>3, <2>2, <2>3, QueueChanged
  <2>5. IsEntry(queued) /\ queued.name = lock.name /\ queued.globalId = lock.globalId
    BY <1>3, EntryKept
  <2> HIDE DEF queued
  <2>6. /\ AllSound(u) /\ u.netMail = s.netMail /\ u.userMail = s.userMail
    BY <1>2, <2>4, <2>5, PutSound
  <2> HIDE DEF u
  <2>7. Silent(u)
    BY <1>2, <2>6, SameMail
  <2> QED
    BY <2>1, <2>6, <2>7, SilentIsOneLetter DEF Finished
<1>6. CASE IsFree(s, k)
  <2>1. Acquire(s, 1, c, id) = ReplyToUser(t, 1, c, lock.globalId)
    BY <1>6 DEF Acquire
  <2> HIDE DEF k
  <2>2. LockOK(taken) /\ taken.waitQueue = lock.waitQueue
    BY <1>3, <1>4, TakenLock
  <2>3. IsEntry(taken) /\ taken.name = lock.name /\ taken.globalId = lock.globalId
    BY <1>3, OwnerEntry
  <2> HIDE DEF taken
  <2>4. Well(t) /\ t.netMail = s.netMail /\ t.userMail = s.userMail
    BY <1>2, <1>3, <2>2, <2>3, PutSound
  <2> HIDE DEF t
  <2>5. Begun(t)
    BY <1>2, <2>4, SameMail DEF Begun
  <2> QED
    BY <2>1, <2>5, LoneAnswers, AnsweredFinishes
<1> QED
  BY <1>5, <1>6

\* A lock nobody waits for is freed.
LEMMA LoneHandOver ==
    ASSUME Alone, NEW s, StateOK(s), AllSound(s), NEW k, Has(s, "lock", k),
           Object(s, "lock", k).waitQueue = <<>>
    PROVE  LET t == HandOver(s, 1, k)
           IN  /\ StateOK(t) /\ AllSound(t)
               /\ t.netMail = s.netMail /\ t.userMail = s.userMail
               /\ Well(s) => Well(t)
<1> DEFINE lock == Object(s, "lock", k)
           freed == [lock EXCEPT !.free = TRUE, !.owner = NoOwner]
           t == PutObject(s, "lock", k, freed)
<1>1. HandOver(s, 1, k) = t
  BY DEF HandOver
<1>2. LockOK(lock)
  BY LockIsOK
<1>3. k \in DOMAIN s.tab["lock"].at /\ lock = s.tab["lock"].at[k]
  BY DEF Has, Object
<1>4. ObjectsSound(s.tab["lock"]) /\ "lock" \in Kinds
  BY DEF AllSound, Kinds
<1>5. IsEntry(lock)
  BY <1>3, <1>4 DEF ObjectsSound
<1>6. LockOK(freed)
  BY <1>2, FreedLock
<1>7. /\ IsEntry(freed) /\ freed.name = lock.name /\ freed.globalId = lock.globalId
  BY <1>5, OwnerEntry
<1>8. freed.waitQueue = lock.waitQueue
  BY <1>2, OwnerChanged
<1> HIDE DEF freed, lock
<1>9. /\ StateOK(t)
      /\ t.tab["lock"].at = Assign(s.tab["lock"].at, k, freed)
      /\ t.tab["lock"].next = s.tab["lock"].next
      /\ \A other \in Kinds \ {"lock"} : t.tab[other] = s.tab[other]
      /\ t.netMail = s.netMail /\ t.userMail = s.userMail
  BY <1>4, <1>6, ObjectPut
<1> HIDE DEF t
<1>10. ObjectsSound(t.tab["lock"])
  BY <1>3, <1>4, <1>7, <1>9, SoundPut
<1>11. AllSound(t)
  BY <1>9, <1>10 DEF AllSound
<1>12. ASSUME Well(s) PROVE Well(t)
  BY <1>4, <1>6, <1>7, <1>8, <1>12, PutSound DEF lock, t
<1> QED
  BY <1>1, <1>9, <1>11, <1>12

LEMMA LoneRelease ==
    ASSUME Alone, NEW s, Begun(s), NEW c, NEW id
    PROVE  Finished(Release(s, 1, c, id))
<1> DEFINE k == id % Multiple["lock"]
           lock == Object(s, "lock", k)
           t == ReplyToUser(s, 1, c, lock.globalId)
           u == HandOver(t, 1, k)
<1>1. CASE ~InRange("lock", id) \/ ~Has(s, "lock", k)
  BY <1>1, NothingFinishes DEF Release
<1>2. CASE InRange("lock", id) /\ Has(s, "lock", k)
  <2>1. Release(s, 1, c, id) = u
    BY <1>2 DEF Release
  <2>2. Answered(t)
    BY LoneAnswers
  <2>3. Well(s) /\ StateOK(s) /\ "lock" \in Kinds
    BY DEF Begun, Well, Kinds
  <2>4. t.tab = s.tab
    BY <2>3, AloneAt, RepliedToUser DEF Alone
  <2>5. lock.waitQueue = <<>>
    BY <1>2, <2>3, EntryAt
  <2>6. Has(t, "lock", k) /\ Object(t, "lock", k).waitQueue = <<>>
    BY <1>2, <2>4, <2>5 DEF Has, Object
  <2> HIDE DEF t, k
  <2>7. Well(u) /\ u.netMail = t.netMail /\ u.userMail = t.userMail
    BY <2>2, <2>6, LoneHandOver DEF Answered, Well
  <2> HIDE DEF u
  <2>8. Answered(u)
    BY <2>2, <2>7, SameMail DEF Answered
  <2> QED
    BY <2>1, <2>8, AnsweredFinishes
<1> QED
  BY <1>1, <1>2

\* What is destroyed is gone, and the index of the next entry counts down.
LEMMA LoneDestroys ==
    ASSUME Alone, NEW s, Begun(s), NEW c, NEW id
    PROVE  /\ Finished(DestroyLock(s, 1, c, id))
           /\ Finished(DestroyMV(s, 1, c, id))
           /\ Finished(DestroyCV(s, 1, c, id))
<1>1. ASSUME NEW kind \in Kinds, NEW k, Has(s, kind, k)
      PROVE  Begun(Delete(s, kind, k))
  <2> DEFINE t == Delete(s, kind, k)
  <2>1. Well(s) /\ Silent(s)
    BY DEF Begun
  <2>2. Well(t) /\ t.netMail = s.netMail /\ t.userMail = s.userMail
    BY <1>1, <2>1, DeleteSound
  <2> HIDE DEF t
  <2>3. Begun(t)
    BY <2>1, <2>2, SameMail DEF Begun
  <2> QED
    BY <2>3 DEF t
<1>2. Finished(s)
  BY NothingFinishes
<1>3. Finished(DestroyLock(s, 1, c, id))
  <2> DEFINE k == id % Multiple["lock"]
             t == Delete(s, "lock", k)
             value == Object(s, "lock", k).globalId
  <2>1. \/ DestroyLock(s, 1, c, id) = s
        \/ /\ Has(s, "lock", k)
           /\ DestroyLock(s, 1, c, id) = ReplyToUser(t, 1, c, value)
    BY DEF DestroyLock
  <2>2. Has(s, "lock", k) => Begun(t)
    BY <1>1 DEF Kinds
  <2> HIDE DEF t, value
  <2> QED
    BY <1>2, <2>1, <2>2, LoneAnswers, AnsweredFinishes
<1>4. Finished(DestroyMV(s, 1, c, id))
  <2> DEFINE k == id % Multiple["mv"]
             t == Delete(s, "mv", k)
             value == Object(s, "mv", k).globalId
  <2>1. \/ DestroyMV(s, 1, c, id) = s
        \/ /\ Has(s, "mv", k)
           /\ DestroyMV(s, 1, c, id) = ReplyToNet(t, 1, c, value)
    BY DEF DestroyMV
  <2>2. Has(s, "mv", k) => Begun(t)
    BY <1>1 DEF Kinds
  <2> HIDE DEF t, value
  <2> QED
    BY <1>2, <2>1, <2>2, LoneAnswers, AnsweredFinishes
<1>5. Finished(DestroyCV(s, 1, c, id))
  <2> DEFINE k == id % Multiple["cv"]
             t == Delete(s, "cv", k)
  <2>1. \/ DestroyCV(s, 1, c, id) = s
        \/ /\ Has(s, "cv", k)
           /\ DestroyCV(s, 1, c, id) = ReplyToNet(t, 1, c, k)
    BY DEF DestroyCV
  <2>2. Has(s, "cv", k) => Begun(t)
    BY <1>1 DEF Kinds
  <2> HIDE DEF t, k
  <2> QED
    BY <1>2, <2>1, <2>2, LoneAnswers, AnsweredFinishes
<1> QED
  BY <1>3, <1>4, <1>5

LEMMA LoneVariables ==
    ASSUME Alone, NEW s, Begun(s), NEW c, NEW id, NEW value, NEW msg
    PROVE  /\ Finished(SetMV(s, 1, c, id, value))
           /\ Finished(GetMV(s, 1, msg, id))
<1>1. Finished(SetMV(s, 1, c, id, value))
  <2> DEFINE k == id % Multiple["mv"]
             object == [Object(s, "mv", k) EXCEPT !.value = value]
             t == PutObject(s, "mv", k, object)
  <2>1. CASE ~InRange("mv", id) \/ ~Has(s, "mv", k)
    BY <2>1, NothingFinishes DEF SetMV
  <2>2. CASE InRange("mv", id) /\ Has(s, "mv", k)
    <3>1. SetMV(s, 1, c, id, value) = ReplyToUser(t, 1, c, 0)
      BY <2>2 DEF SetMV
    <3>2. Well(s) /\ Silent(s) /\ "mv" \in Kinds
      BY DEF Begun, Kinds
    <3> HIDE DEF k
    <3>3. IsEntry(Object(s, "mv", k))
      BY <2>2, <3>2, EntryAt
    <3>4. IsEntry(object) /\ object.name = Object(s, "mv", k).name
          /\ object.globalId = Object(s, "mv", k).globalId
      BY <3>3, EntryKept
    <3> HIDE DEF object
    <3>5. Well(t) /\ t.netMail = s.netMail /\ t.userMail = s.userMail
      BY <2>2, <3>2, <3>4, PutSound
    <3> HIDE DEF t
    <3>6. Begun(t)
      BY <3>2, <3>5, SameMail DEF Begun
    <3>7. Answered(ReplyToUser(t, 1, c, 0))
      BY <3>6, LoneAnswers
    <3> QED
      BY <3>1, <3>7, AnsweredFinishes
  <2> QED
    BY <2>1, <2>2
<1>2. Finished(GetMV(s, 1, msg, id))
  <2>1. \E v : GetMV(s, 1, msg, id) = Reply(s, 1, mach[1], msg.from, v)
    BY Zenon DEF GetMV
  <2> QED
    BY <2>1, LoneAnswers, AnsweredFinishes
<1> QED
  BY <1>1, <1>2

\* The program that waits is told nothing, and nobody else runs.
LEMMA LoneWait ==
    ASSUME Alone, NEW s, Begun(s), NEW msg, NEW c \in Int, NEW cv \in 0..1, NEW id
    PROVE  Finished(Wait(s, 1, msg, c, cv, id))
<1> DEFINE k == id % Multiple["lock"]
           i == cv % Multiple["cv"]
           variable == Object(s, "cv", i)
           first == IF variable.waitQueue = <<>> THEN id ELSE variable.firstLock
           waiter == [to |-> NetOf(c), value |-> cv]
           queue == Append(variable.waitQueue, waiter)
           waiting == [variable EXCEPT !.firstLock = first, !.waitQueue = queue]
           t == PutObject(s, "cv", i, waiting)
           u == HandOver(t, 1, k)
<1>1. IsOwn(1, "cv", cv)
  BY OwnIds DEF Kinds
<1>2. \/ Wait(s, 1, msg, c, cv, id) = s
      \/ /\ Wait(s, 1, msg, c, cv, id) = u
         /\ Has(s, "lock", k) /\ Has(s, "cv", i)
  BY <1>1 DEF Wait
<1>3. CASE Wait(s, 1, msg, c, cv, id) = s
  BY <1>3, NothingFinishes
<1>4. CASE /\ Wait(s, 1, msg, c, cv, id) = u
           /\ Has(s, "lock", k) /\ Has(s, "cv", i)
  <2>1. Well(s) /\ StateOK(s) /\ Silent(s) /\ "lock" \in Kinds /\ "cv" \in Kinds
    BY DEF Begun, Well, Kinds
  <2>2. NetOf(c) \in Nat \X Int
    BY NetIsPlace
  <2> HIDE DEF k, i, first
  <2>3. VariableOK(variable) /\ IsEntry(variable)
    BY <1>4, <2>1, VariableIsOK, EntryAt
  <2>4. QueueOK(queue)
    BY <2>2, <2>3, AppendWaiter DEF VariableOK
  <2>5. Object(s, "lock", k).waitQueue = <<>>
    BY <1>4, <2>1, EntryAt
  <2> HIDE DEF queue, variable
  <2>6. /\ IsEntry(waiting) /\ waiting.name = variable.name
        /\ waiting.globalId = variable.globalId
    BY <2>3, WaitingEntry
  <2>7. VariableOK(waiting)
    BY <2>3, <2>4, VariableChanged
  <2> HIDE DEF waiting
  <2>8. StateOK(t) /\ AllSound(t) /\ t.netMail = s.netMail /\ t.userMail = s.userMail
    BY <1>4, <2>1, <2>6, <2>7, PutSound DEF variable
  <2>9. t.tab["lock"] = s.tab["lock"]
    BY <2>1, <2>7, ObjectPut
  <2> HIDE DEF t
  <2>10. Has(t, "lock", k) /\ Object(t, "lock", k).waitQueue = <<>>
    BY <1>4, <2>5, <2>9 DEF Has, Object
  <2>11. /\ AllSound(u) /\ u.netMail = t.netMail /\ u.userMail = t.userMail
    BY <2>8, <2>10, LoneHandOver
  <2> HIDE DEF u
  <2>12. Silent(u)
    BY <2>1, <2>8, <2>11, SameMail
  <2> QED
    BY <1>4, <2>11, <2>12, SilentIsOneLetter DEF Finished
<1> QED
  BY <1>2, <1>3, <1>4

\* Nobody waits, so nobody is woken.
LEMMA LoneBroadcast ==
    ASSUME Alone, NEW s, Begun(s), NEW msg, NEW cv, NEW id
    PROVE  Finished(Broadcast(s, 1, msg, cv, id))
<1> DEFINE answered == Reply(s, 1, mach[1], msg.from, cv)
           variable == Object(s, "cv", cv)
           count == Len(variable.waitQueue)
           woken == Woken(answered, 1, cv, id, count)[count]
           first == -1
           forgotten == [Object(answered, "cv", cv) EXCEPT !.firstLock = first]
           t == PutObject(answered, "cv", cv, forgotten)
<1>1. \/ Broadcast(s, 1, msg, cv, id) = s
      \/ /\ Has(s, "cv", cv)
         /\ \/ Broadcast(s, 1, msg, cv, id) = answered
            \/ Broadcast(s, 1, msg, cv, id) = Forget(woken, cv)
  BY DEF Broadcast, CanSignal
<1>2. Well(s) /\ StateOK(s) /\ "cv" \in Kinds /\ 1 \in Thread
  BY AloneAt DEF Begun, Well, Kinds
<1>3. Answered(answered)
  BY LoneAnswers
<1>4. answered.tab = s.tab
  BY <1>2, Placed, Replied DEF Alone
<1>5. CASE Has(s, "cv", cv)
  <2>1. IsEntry(variable) /\ variable.waitQueue = <<>>
    BY <1>2, <1>5, EntryAt
  <2>2. count = 0
    BY <2>1
  <2>3. woken = answered
    BY <2>2, WokenStates
  <2>4. Has(answered, "cv", cv) /\ Object(answered, "cv", cv) = variable
    BY <1>4, <1>5 DEF Has, Object
  <2>5. Forget(woken, cv) = t
    BY <2>1, <2>3, <2>4 DEF Forget
  <2>6. VariableOK(variable)
    BY <1>2, <1>5, VariableIsOK
  <2> HIDE DEF answered, variable, first
  <2>7. /\ IsEntry(forgotten) /\ forgotten.name = variable.name
        /\ forgotten.globalId = variable.globalId
    BY <2>1, <2>4, EntryKept
  <2>8. VariableOK(forgotten) /\ forgotten.waitQueue = <<>>
    BY <2>1, <2>4, <2>6, ForgottenVariable
  <2> HIDE DEF forgotten
  <2>9. Well(t) /\ t.netMail = answered.netMail /\ t.userMail = answered.userMail
    BY <1>2, <1>3, <2>4, <2>7, <2>8, PutSound DEF Answered
  <2> HIDE DEF t
  <2>10. Answered(t)
    BY <1>3, <2>9, SameMail DEF Answered
  <2> QED
    BY <1>1, <1>3, <2>5, <2>10, AnsweredFinishes, NothingFinishes
<1> QED
  BY <1>1, <1>5, NothingFinishes

LEMMA DoneAnswers ==
    ASSUME NEW s, Answered(s), NEW c
    PROVE  Finished(Done(s, c))
<1>1. Well(s) /\ StateOK(s) /\ OneLetter(s)
  BY DEF Answered, Well
<1>2. ASSUME NEW r
      PROVE  Finished(SetClient(s, c, r))
  <2> DEFINE t == SetClient(s, c, r)
  <2>1. StateOK(t) /\ t.tab = s.tab /\ t.netMail = s.netMail /\ t.userMail = s.userMail
    BY <1>1, ClientSet
  <2> HIDE DEF t
  <2>2. Finished(t)
    BY <1>1, <2>1, SameMail, SameTables, WellFinishes
  <2> QED
    BY <2>2 DEF t
<1> QED
  BY <1>2 DEF Done

LEMMA LoneCreated ==
    ASSUME Alone, NEW s, Begun(s), NEW kind \in Kinds, NEW c, NEW id
    PROVE  Finished(Done(ReplyCreated(s, 1, kind, c, id), c))
<1>1. Answered(ReplyCreated(s, 1, kind, c, id))
  BY LoneAnswers DEF ReplyCreated, Kinds
<1> QED
  BY <1>1, DoneAnswers

LEMMA LoneCreate ==
    ASSUME Alone, NEW s, Begun(s), NEW kind \in Kinds, NEW c, NEW name, NEW found,
           NEW verify, NEW junk, ~TableFull(s, kind),
           found # -1 \/ (Holes(s, kind) = {} /\ Named(s, kind, name) = {})
    PROVE  Finished(CreateRequest(s, 1, kind, c, name, found, verify, junk))
<1> DEFINE r == [Client(s, c) EXCEPT !.lockName = name, !.localLockIndex = found]
           noted == SetClient(s, c, r)
           value == Object(s, kind, found).globalId
           made == Create(noted, 1, kind, name, junk)
           last == LastId(made, kind)
           t == CreateRequest(s, 1, kind, c, name, found, verify, junk)
<1>1. \/ found # -1 /\ t = Done(ReplyCreated(noted, 1, kind, c, value), c)
      \/ found = -1 /\ t = Done(ReplyCreated(made, 1, kind, c, last), c)
  BY DEF CreateRequest, Alone
<1>2. Well(s) /\ StateOK(s) /\ Silent(s)
  BY DEF Begun, Well
<1> HIDE DEF r, t, value, last
<1>3. StateOK(noted) /\ noted.tab = s.tab /\ noted.netMail = s.netMail
      /\ noted.userMail = s.userMail
  BY <1>2, ClientSet
<1> HIDE DEF noted
<1>4. Begun(noted)
  BY <1>2, <1>3, SameMail, SameTables DEF Begun
<1>5. CASE found # -1
  BY <1>1, <1>4, <1>5, LoneCreated DEF t
<1>6. CASE found = -1
  <2>1. /\ ~TableFull(noted, kind) /\ Holes(noted, kind) = {}
        /\ Named(noted, kind, name) = {}
    BY <1>3, <1>6 DEF TableFull, Holes, Named, Object
  <2>2. Well(made) /\ made.netMail = noted.netMail /\ made.userMail = noted.userMail
    BY <1>4, <2>1, CreateSound DEF Begun
  <2> HIDE DEF made
  <2>3. Begun(made)
    BY <1>4, <2>2, SameMail DEF Begun
  <2> QED
    BY <1>1, <1>6, <2>3, LoneCreated DEF t
<1> QED
  BY <1>5, <1>6

\* What the lookups find.
LEMMA Lookups ==
    ASSUME NEW s, Well(s), NEW kind \in Kinds, NEW name
    PROVE  /\ Max(Named(s, kind, name) \cup {-1}) = -1 => Named(s, kind, name) = {}
           /\ Named(s, kind, name) # {} => Min(Named(s, kind, name)) # -1
<1>1. Named(s, kind, name) \subseteq 0..1
  <2>1. ObjectsSound(s.tab[kind])
    BY DEF Well, AllSound
  <2>2. Named(s, kind, name) \subseteq DOMAIN s.tab[kind].at
    BY DEF Named, Holes
  <2> QED
    BY <2>1, <2>2, DistributedLocksAssumption DEF ObjectsSound
<1>2. ASSUME NEW S \in SUBSET (0..1)
      PROVE  /\ Max(S \cup {-1}) = -1 => S = {}
             /\ S # {} => Min(S) # -1
  <2> DEFINE T == S \cup {-1}
  <2>1. \E x \in T : \A y \in T : x >= y
    <3>1. 1 \in S => \A y \in T : 1 >= y
      OBVIOUS
    <3>2. 1 \notin S /\ 0 \in S => \A y \in T : 0 >= y
      OBVIOUS
    <3>3. 1 \notin S /\ 0 \notin S => \A y \in T : -1 >= y
      OBVIOUS
    <3> QED
      BY <3>1, <3>2, <3>3
  <2>2. S # {} => \E x \in S : \A y \in S : x <= y
    <3>1. 0 \in S => \A y \in S : 0 <= y
      OBVIOUS
    <3>2. 0 \notin S => \A y \in S : y = 1 /\ 1 <= y
      OBVIOUS
    <3>3. CASE 0 \in S
      BY <3>1, <3>3
    <3>4. CASE 0 \notin S
      BY <3>2, <3>4
    <3> QED
      BY <3>3, <3>4
  <2> HIDE DEF T
  <2>3. Max(T) \in T /\ \A y \in T : Max(T) >= y
    BY <2>1 DEF Max
  <2>4. S # {} => Min(S) \in S
    BY <2>2 DEF Min
  <2> QED
    BY <2>3, <2>4 DEF T
<1> QED
  BY <1>1, <1>2

LEMMA LoneCreateRequests ==
    ASSUME Alone, NEW s, Begun(s), NEW msg, NEW junk
    PROVE  /\ Finished(CreateLockRequest(s, 1, msg, junk))
           /\ Finished(CreateCVRequest(s, 1, msg, junk))
           /\ Finished(CreateMVRequest(s, 1, msg, junk))
<1> DEFINE c == clientNum(msg)
           name == msg.arg[1]
           Latest(kind) == Max(Named(s, kind, name) \cup {-1})
           first == IF Named(s, "mv", name) = {} THEN -1 ELSE Min(Named(s, "mv", name))
<1>1. Finished(s) /\ Finished(Abort(s)) /\ Well(s)
  BY NothingFinishes, AbortFinishes DEF Begun
<1>2. "lock" \in Kinds /\ "cv" \in Kinds /\ "mv" \in Kinds
  BY DEF Kinds
<1>3. Finished(CreateLockRequest(s, 1, msg, junk))
  <2> DEFINE t == CreateLockRequest(s, 1, msg, junk)
  <2>1. \/ t = s \/ t = Abort(s)
        \/ /\ ~TableFull(s, "lock") /\ Holes(s, "lock") = {}
           /\ t = CreateRequest(s, 1, "lock", c, name, Latest("lock"), "CREATELOCKVERIFY", junk)
    BY DEF CreateLockRequest, Alone
  <2>2. Latest("lock") # -1 \/ Named(s, "lock", name) = {}
    BY <1>1, <1>2, Lookups
  <2> HIDE DEF c, name, t
  <2>3. ASSUME NEW verify, ~TableFull(s, "lock"), Holes(s, "lock") = {}
        PROVE  Finished(CreateRequest(s, 1, "lock", c, name, Latest("lock"), verify, junk))
    BY <1>2, <2>2, <2>3, LoneCreate
  <2> QED
    BY <1>1, <2>1, <2>3 DEF t
<1>4. Finished(CreateCVRequest(s, 1, msg, junk))
  <2> DEFINE t == CreateCVRequest(s, 1, msg, junk)
  <2>1. \/ t = s \/ t = Abort(s)
        \/ /\ ~TableFull(s, "cv") /\ Holes(s, "cv") = {}
           /\ t = CreateRequest(s, 1, "cv", c, name, Latest("cv"), "CREATECVVERIFY", junk)
    BY DEF CreateCVRequest
  <2>2. Latest("cv") # -1 \/ Named(s, "cv", name) = {}
    BY <1>1, <1>2, Lookups
  <2> HIDE DEF c, name, t
  <2>3. ASSUME NEW verify, ~TableFull(s, "cv"), Holes(s, "cv") = {}
        PROVE  Finished(CreateRequest(s, 1, "cv", c, name, Latest("cv"), verify, junk))
    BY <1>2, <2>2, <2>3, LoneCreate
  <2> QED
    BY <1>1, <2>1, <2>3 DEF t
<1>5. Finished(CreateMVRequest(s, 1, msg, junk))
  <2> DEFINE t == CreateMVRequest(s, 1, msg, junk)
  <2>1. \/ t = s \/ t = Abort(s)
        \/ /\ ~TableFull(s, "mv") /\ StopsBefore(s, "mv", name)
           /\ t = CreateRequest(s, 1, "mv", c, name, first, "CREATEMVVERIFY", junk)
    BY DEF CreateMVRequest
  <2>2. StopsBefore(s, "mv", name)
        => first # -1 \/ (Holes(s, "mv") = {} /\ Named(s, "mv", name) = {})
    BY <1>1, <1>2, Lookups DEF StopsBefore
  <2> HIDE DEF c, name, t, first
  <2>3. ASSUME NEW verify, ~TableFull(s, "mv"), StopsBefore(s, "mv", name)
        PROVE  Finished(CreateRequest(s, 1, "mv", c, name, first, verify, junk))
    BY <1>2, <2>2, <2>3, LoneCreate
  <2> QED
    BY <1>1, <2>1, <2>3 DEF t
<1> QED
  BY <1>3, <1>4, <1>5

-----------------------------------------------------------------------------
(* A group of one: the requests                                             *)

LEMMA LoneLockRequests ==
    ASSUME Alone, NEW s, Begun(s), NEW msg, LetterOK(msg), msg.arg[1] \in 0..1, NEW junk
    PROVE  /\ Finished(AcquireRequest(s, 1, msg, junk))
           /\ Finished(ReleaseRequest(s, 1, msg, junk))
           /\ Finished(DestroyLockRequest(s, 1, msg, junk))
           /\ Finished(SetMVRequest(s, 1, msg, junk))
           /\ Finished(GetMVRequest(s, 1, msg, junk))
           /\ Finished(DestroyMVRequest(s, 1, msg, junk))
           /\ Finished(DestroyCVRequest(s, 1, msg, junk))
<1> DEFINE c == clientNum(msg)
           id == msg.arg[1]
<1>1. IsOwn(1, "lock", id) /\ IsOwn(1, "cv", id) /\ IsOwn(1, "mv", id)
  BY OwnIds DEF Kinds
<1>2. c \in Int
  BY ClientIsNumber
<1>3. AcquireRequest(s, 1, msg, junk) = Acquire(s, 1, c, id)
  BY <1>1 DEF AcquireRequest
<1>4. ReleaseRequest(s, 1, msg, junk) = Release(s, 1, c, id)
  BY <1>1 DEF ReleaseRequest
<1>5. DestroyLockRequest(s, 1, msg, junk) = DestroyLock(s, 1, c, id)
  BY <1>1 DEF DestroyLockRequest
<1>6. SetMVRequest(s, 1, msg, junk) = SetMV(s, 1, c, id, msg.arg[2])
  BY <1>1 DEF SetMVRequest
<1>7. GetMVRequest(s, 1, msg, junk) = GetMV(s, 1, msg, id)
  BY <1>1 DEF GetMVRequest
<1>8. DestroyMVRequest(s, 1, msg, junk) = DestroyMV(s, 1, c, id)
  BY <1>1 DEF DestroyMVRequest
<1>9. DestroyCVRequest(s, 1, msg, junk) = DestroyCV(s, 1, c, id)
  BY <1>1 DEF DestroyCVRequest
<1> HIDE DEF c, id
<1>10. /\ Finished(Acquire(s, 1, c, id)) /\ Finished(Release(s, 1, c, id))
       /\ Finished(DestroyLock(s, 1, c, id)) /\ Finished(DestroyMV(s, 1, c, id))
       /\ Finished(DestroyCV(s, 1, c, id))
  BY <1>2, LoneAcquire, LoneRelease, LoneDestroys
<1>11. /\ \A value : Finished(SetMV(s, 1, c, id, value))
       /\ Finished(GetMV(s, 1, msg, id))
  BY LoneVariables
<1> QED
  BY <1>3, <1>4, <1>5, <1>6, <1>7, <1>8, <1>9, <1>10, <1>11

LEMMA LoneVariableRequests ==
    ASSUME Alone, NEW s, Begun(s), NEW msg, LetterOK(msg), NEW junk
    PROVE  /\ msg.arg[1] \in 0..1 /\ msg.arg[2] \in 0..1
              => /\ Finished(WaitRequest(s, 1, msg, junk))
                 /\ Finished(BroadcastRequest(s, 1, msg, junk))
           /\ msg.client = None => Finished(SignalRequest(s, 1, msg, junk))
<1> DEFINE c == clientNum(msg)
           cv == msg.arg[1]
           id == msg.arg[2]
<1>1. c \in Int
  BY ClientIsNumber
<1>2. ASSUME cv \in 0..1, id \in 0..1
      PROVE  /\ Finished(WaitRequest(s, 1, msg, junk))
             /\ Finished(BroadcastRequest(s, 1, msg, junk))
  <2>1. IsOwn(1, "lock", id) /\ IsOwn(1, "cv", cv)
    BY <1>2, OwnIds DEF Kinds
  <2>2. WaitRequest(s, 1, msg, junk) = Wait(s, 1, msg, c, cv, id)
    BY <2>1 DEF WaitRequest
  <2>3. BroadcastRequest(s, 1, msg, junk) = Broadcast(s, 1, msg, cv, id)
    BY <2>1 DEF BroadcastRequest
  <2> HIDE DEF c, cv, id
  <2>4. Finished(Wait(s, 1, msg, c, cv, id)) /\ Finished(Broadcast(s, 1, msg, cv, id))
    BY <1>1, <1>2, LoneWait, LoneBroadcast
  <2> QED
    BY <2>2, <2>3, <2>4
<1>3. ASSUME msg.client = None
      PROVE  Finished(SignalRequest(s, 1, msg, junk))
  BY <1>3, AbortFinishes DEF SignalRequest
<1> QED
  BY <1>2, <1>3

LEMMA LoneNumber ==
    ASSUME Alone, NEW s, Begun(s), NEW msg, LetterOK(msg), NEW junk
    PROVE  Finished(NumberRequest(s, 1, msg, junk))
<1>1. ASSUME NEW arg, arg[1] \in 0..1
      PROVE  Finished(AcquireRequest(s, 1, [msg EXCEPT !.arg = arg], junk))
  <2> DEFINE new == [msg EXCEPT !.arg = arg]
  <2>1. new = [type |-> msg.type, client |-> msg.client, arg |-> arg, from |-> msg.from,
               via |-> msg.via]
    BY DEF LetterOK
  <2> HIDE DEF new
  <2>2. LetterOK(new) /\ new.arg = arg
    BY <2>1 DEF LetterOK
  <2>3. Finished(AcquireRequest(s, 1, new, junk))
    BY <1>1, <2>2, LoneLockRequests
  <2> QED
    BY <2>3 DEF new
<1>2. ASSUME NEW arg
      PROVE  Finished(CreateLockRequest(s, 1, [msg EXCEPT !.arg = arg], junk))
  <2> DEFINE new == [msg EXCEPT !.arg = arg]
  <2> HIDE DEF new
  <2>1. Finished(CreateLockRequest(s, 1, new, junk))
    BY LoneCreateRequests
  <2> QED
    BY <2>1 DEF new
<1>3. Finished(AcquireRequest(s, 1, [msg EXCEPT !.arg = <<0>>], junk))
  <2> DEFINE arg == <<0>>
  <2>1. arg[1] \in 0..1
    OBVIOUS
  <2> HIDE DEF arg
  <2>2. Finished(AcquireRequest(s, 1, [msg EXCEPT !.arg = arg], junk))
    BY <1>1, <2>1
  <2> QED
    BY <2>2 DEF arg
<1>4. Finished(s)
  BY NothingFinishes
<1>5. Finished(CreateLockRequest(s, 1, [msg EXCEPT !.arg = <<"">>], junk))
  BY <1>2, Zenon
<1> QED
  BY <1>3, <1>4, <1>5, Zenon DEF NumberRequest

LEMMA LoneReceived ==
    ASSUME LocksInv, LoneInv, serverCount = 1, Running(1), NEW i \in DOMAIN netMail[1]
    PROVE  /\ Alone /\ ended = {} /\ request[1] # None
           /\ Begun(State(1, i))
           /\ LetterOK(netMail[1][i])
           /\ OwnNumber(netMail[1][i]) \/ OwnCall(netMail[1][i])
<1>1. Alone
  BY DEF LocksInv, LocksTypeOK, Alone
<1>2. Thread = {1} /\ mach[1] = 0
  BY <1>1, AloneAt
<1>3. IsList(netMail[1]) /\ IsList(userMail[1]) /\ netMail = [n \in Thread |-> netMail[n]]
  BY <1>2 DEF LocksInv, MailOK
<1>4. /\ Len(netMail[1]) + Len(userMail[1]) <= 1
      /\ request[1] = None => netMail[1] = <<>>
      /\ ended = {}
  BY <1>2 DEF LoneInv, Running
<1>5. Len(netMail[1]) \in Nat /\ Len(userMail[1]) \in Nat /\ DOMAIN netMail[1] = 1..Len(netMail[1])
  BY <1>3, LenProperties DEF IsList
<1>6. Len(netMail[1]) = 1 /\ Len(userMail[1]) = 0 /\ i = 1
  <2> DEFINE j == Len(netMail[1])
             k == Len(userMail[1])
  <2>1. j \in Nat /\ k \in Nat /\ j + k <= 1 /\ i \in 1..j
    BY ONLY <1>4, <1>5, i \in DOMAIN netMail[1]
  <2> HIDE DEF j, k
  <2>2. j = 1 /\ k = 0 /\ i = 1
    BY ONLY <2>1
  <2> QED
    BY <2>2 DEF j, k
<1>7. netMail[1] # <<>>
  BY <1>6
<1>8. userMail[1] = <<>>
  BY <1>3, <1>6, EmptySeq DEF IsList
<1>9. RemoveAt(netMail[1], i) = <<>>
  <2>1. SubSeq(netMail[1], 1, 0) = <<>> /\ SubSeq(netMail[1], 2, 1) = <<>>
    BY <1>3, <1>6, SubSeqProperties, EmptySeq DEF IsList
  <2> QED
    BY <1>6, <2>1 DEF RemoveAt
<1>10. StateOK(State(1, i)) /\ State(1, i).tab = server[0] /\ LetterOK(netMail[1][i])
  BY <1>2, ReceivedState
<1>11. Silent(State(1, i))
  BY <1>2, <1>3, <1>8, <1>9 DEF State, Silent
<1>12. /\ \A kind \in Kinds : ObjectsSound(server[0][kind])
       /\ \A msg \in Range(netMail[1]) : OwnNumber(msg) \/ OwnCall(msg)
       /\ NobodyWaits(server[0])
  BY <1>4, <1>7 DEF LoneInv, Stuck
<1>13. netMail[1][i] \in Range(netMail[1])
  BY DEF Range
<1>14. Begun(State(1, i))
  BY <1>10, <1>11, <1>12 DEF Begun, Well, AllSound
<1> QED
  BY <1>1, <1>4, <1>7, <1>10, <1>12, <1>13, <1>14

LEMMA LoneHandled ==
    ASSUME LocksInv, LoneInv, serverCount = 1, Running(1), NEW i \in DOMAIN netMail[1],
           NEW s, Finished(s), Handles(1, s)
    PROVE  LoneInv'
<1>1. Alone /\ ended = {} /\ request[1] # None
  BY LoneReceived
<1>2. mach[1] = 0 /\ 0 \in Machine
  BY <1>1, AloneAt, DistributedLocksAssumption
<1>3. server' = [server EXCEPT ![0] = s.tab] /\ netMail' = s.netMail
      /\ userMail' = s.userMail /\ request' = request
      /\ ended' = IF s.ended THEN {0} ELSE {}
  BY <1>1, <1>2 DEF Handles
<1>4. /\ server'[0] = s.tab
      /\ \A m \in Machine \ {0} : server'[m] = server[m]
  BY <1>2, <1>3 DEF LocksInv
<1>5. \A m \in Machine \ {0} : server'[m] = NewServer
  BY <1>4 DEF LoneInv
<1>6. OneLetter(s) /\ (~s.ended => AllSound(s) /\ (Silent(s) \/ NobodyWaits(s.tab)))
  BY DEF Finished
<1>7. ASSUME ended' = {}
      PROVE  /\ \A kind \in Kinds : ObjectsSound(server'[0][kind])
             /\ \A msg \in Range(netMail'[1]) : OwnNumber(msg) \/ OwnCall(msg)
             /\ ~Stuck' => NobodyWaits(server'[0])
  <2>1. ~s.ended
    BY <1>3, <1>7
  <2>2. AllSound(s) /\ (Silent(s) \/ NobodyWaits(s.tab))
    BY <1>6, <2>1
  <2>3. Silent(s) => Stuck'
    BY <1>1, <1>3 DEF Silent, Stuck
  <2> QED
    BY <1>3, <1>4, <1>6, <2>2, <2>3 DEF AllSound, OneLetter
<1>8. Len(netMail'[1]) + Len(userMail'[1]) <= 1 /\ request'[1] # None /\ ended' \subseteq {0}
  BY <1>1, <1>3, <1>6 DEF OneLetter
<1> QED
  BY <1>5, <1>7, <1>8 DEF LoneInv, NewServer

LEMMA LoneNetStep ==
    ASSUME LocksInv, LoneInv, serverCount = 1, Net(1)
    PROVE  LoneInv'
<1>1. ASSUME NEW i \in DOMAIN netMail[1], NEW s, Running(1), Finished(s), Handles(1, s)
      PROVE  LoneInv'
  BY <1>1, LoneHandled
<1>2. ASSUME Running(1), NEW i \in DOMAIN netMail[1]
      PROVE  /\ Alone /\ Begun(State(1, i)) /\ LetterOK(netMail[1][i])
             /\ OwnNumber(netMail[1][i]) \/ OwnCall(netMail[1][i])
  BY <1>2, LoneReceived
<1>3. ASSUME NEW msg, OwnNumber(msg) \/ OwnCall(msg)
      PROVE  /\ msg.client = None
             /\ msg.type = "REPLY" \/ msg.type \in CallTypes
             /\ msg.type \in CallTypes \ {"CREATELOCK", "CREATECV", "CREATEMV"}
                => msg.arg[1] \in 0..1
             /\ msg.type \in {"WAIT", "BROADCAST"} => msg.arg[2] \in 0..1
  BY <1>3 DEF OwnNumber, OwnCall, CallTypes, LockCalls
<1>4. CASE ProcessCreateLock(1)
  <2>1. PICK i \in DOMAIN netMail[1], junk \in Junk :
            /\ Running(1) /\ netMail[1][i].type = "CREATELOCK"
            /\ Handles(1, CreateLockRequest(State(1, i), 1, netMail[1][i], junk))
    BY <1>4 DEF ProcessCreateLock, ProcessMessage, Deliverable
  <2>2. /\ Alone /\ Begun(State(1, i)) /\ LetterOK(netMail[1][i])
        /\ OwnNumber(netMail[1][i]) \/ OwnCall(netMail[1][i])
    BY <1>2, <2>1
  <2>3. Finished(CreateLockRequest(State(1, i), 1, netMail[1][i], junk))
    BY <2>2, LoneCreateRequests
  <2> QED
    BY <1>1, <2>1, <2>3
<1>5. CASE ProcessCreateCV(1)
  <2>1. PICK i \in DOMAIN netMail[1], junk \in Junk :
            /\ Running(1) /\ netMail[1][i].type = "CREATECV"
            /\ Handles(1, CreateCVRequest(State(1, i), 1, netMail[1][i], junk))
    BY <1>5 DEF ProcessCreateCV, ProcessMessage, Deliverable
  <2>2. /\ Alone /\ Begun(State(1, i)) /\ LetterOK(netMail[1][i])
        /\ OwnNumber(netMail[1][i]) \/ OwnCall(netMail[1][i])
    BY <1>2, <2>1
  <2>3. Finished(CreateCVRequest(State(1, i), 1, netMail[1][i], junk))
    BY <2>2, LoneCreateRequests
  <2> QED
    BY <1>1, <2>1, <2>3
<1>6. CASE ProcessCreateMV(1)
  <2>1. PICK i \in DOMAIN netMail[1], junk \in Junk :
            /\ Running(1) /\ netMail[1][i].type = "CREATEMV"
            /\ Handles(1, CreateMVRequest(State(1, i), 1, netMail[1][i], junk))
    BY <1>6 DEF ProcessCreateMV, ProcessMessage, Deliverable
  <2>2. /\ Alone /\ Begun(State(1, i)) /\ LetterOK(netMail[1][i])
        /\ OwnNumber(netMail[1][i]) \/ OwnCall(netMail[1][i])
    BY <1>2, <2>1
  <2>3. Finished(CreateMVRequest(State(1, i), 1, netMail[1][i], junk))
    BY <2>2, LoneCreateRequests
  <2> QED
    BY <1>1, <2>1, <2>3
<1>7. CASE ProcessAcquire(1)
  <2>1. PICK i \in DOMAIN netMail[1], junk \in Junk :
            /\ Running(1) /\ netMail[1][i].type = "ACQUIRE"
            /\ Handles(1, AcquireRequest(State(1, i), 1, netMail[1][i], junk))
    BY <1>7 DEF ProcessAcquire, ProcessMessage, Deliverable
  <2>2. /\ Alone /\ Begun(State(1, i)) /\ LetterOK(netMail[1][i])
        /\ OwnNumber(netMail[1][i]) \/ OwnCall(netMail[1][i])
    BY <1>2, <2>1
  <2>3. netMail[1][i].arg[1] \in 0..1
    BY <1>3, <2>1, <2>2 DEF CallTypes, LockCalls
  <2>4. Finished(AcquireRequest(State(1, i), 1, netMail[1][i], junk))
    BY <2>2, <2>3, LoneLockRequests
  <2> QED
    BY <1>1, <2>1, <2>4
<1>8. CASE ProcessRelease(1)
  <2>1. PICK i \in DOMAIN netMail[1], junk \in Junk :
            /\ Running(1) /\ netMail[1][i].type = "RELEASE"
            /\ Handles(1, ReleaseRequest(State(1, i), 1, netMail[1][i], junk))
    BY <1>8 DEF ProcessRelease, ProcessMessage, Deliverable
  <2>2. /\ Alone /\ Begun(State(1, i)) /\ LetterOK(netMail[1][i])
        /\ OwnNumber(netMail[1][i]) \/ OwnCall(netMail[1][i])
    BY <1>2, <2>1
  <2>3. netMail[1][i].arg[1] \in 0..1
    BY <1>3, <2>1, <2>2 DEF CallTypes, LockCalls
  <2>4. Finished(ReleaseRequest(State(1, i), 1, netMail[1][i], junk))
    BY <2>2, <2>3, LoneLockRequests
  <2> QED
    BY <1>1, <2>1, <2>4
<1>9. CASE ProcessDestroyLock(1)
  <2>1. PICK i \in DOMAIN netMail[1], junk \in Junk :
            /\ Running(1) /\ netMail[1][i].type = "DESTROYLOCK"
            /\ Handles(1, DestroyLockRequest(State(1, i), 1, netMail[1][i], junk))
    BY <1>9 DEF ProcessDestroyLock, ProcessMessage, Deliverable
  <2>2. /\ Alone /\ Begun(State(1, i)) /\ LetterOK(netMail[1][i])
        /\ OwnNumber(netMail[1][i]) \/ OwnCall(netMail[1][i])
    BY <1>2, <2>1
  <2>3. netMail[1][i].arg[1] \in 0..1
    BY <1>3, <2>1, <2>2 DEF CallTypes, LockCalls
  <2>4. Finished(DestroyLockRequest(State(1, i), 1, netMail[1][i], junk))
    BY <2>2, <2>3, LoneLockRequests
  <2> QED
    BY <1>1, <2>1, <2>4
<1>10. CASE ProcessSetMV(1)
  <2>1. PICK i \in DOMAIN netMail[1], junk \in Junk :
            /\ Running(1) /\ netMail[1][i].type = "SETMV"
            /\ Handles(1, SetMVRequest(State(1, i), 1, netMail[1][i], junk))
    BY <1>10 DEF ProcessSetMV, ProcessMessage, Deliverable
  <2>2. /\ Alone /\ Begun(State(1, i)) /\ LetterOK(netMail[1][i])
        /\ OwnNumber(netMail[1][i]) \/ OwnCall(netMail[1][i])
    BY <1>2, <2>1
  <2>3. netMail[1][i].arg[1] \in 0..1
    BY <1>3, <2>1, <2>2 DEF CallTypes, LockCalls
  <2>4. Finished(SetMVRequest(State(1, i), 1, netMail[1][i], junk))
    BY <2>2, <2>3, LoneLockRequests
  <2> QED
    BY <1>1, <2>1, <2>4
<1>11. CASE ProcessGetMV(1)
  <2>1. PICK i \in DOMAIN netMail[1], junk \in Junk :
            /\ Running(1) /\ netMail[1][i].type = "GETMV"
            /\ Handles(1, GetMVRequest(State(1, i), 1, netMail[1][i], junk))
    BY <1>11 DEF ProcessGetMV, ProcessMessage, Deliverable
  <2>2. /\ Alone /\ Begun(State(1, i)) /\ LetterOK(netMail[1][i])
        /\ OwnNumber(netMail[1][i]) \/ OwnCall(netMail[1][i])
    BY <1>2, <2>1
  <2>3. netMail[1][i].arg[1] \in 0..1
    BY <1>3, <2>1, <2>2 DEF CallTypes, LockCalls
  <2>4. Finished(GetMVRequest(State(1, i), 1, netMail[1][i], junk))
    BY <2>2, <2>3, LoneLockRequests
  <2> QED
    BY <1>1, <2>1, <2>4
<1>12. CASE ProcessDestroyMV(1)
  <2>1. PICK i \in DOMAIN netMail[1], junk \in Junk :
            /\ Running(1) /\ netMail[1][i].type = "DESTROYMV"
            /\ Handles(1, DestroyMVRequest(State(1, i), 1, netMail[1][i], junk))
    BY <1>12 DEF ProcessDestroyMV, ProcessMessage, Deliverable
  <2>2. /\ Alone /\ Begun(State(1, i)) /\ LetterOK(netMail[1][i])
        /\ OwnNumber(netMail[1][i]) \/ OwnCall(netMail[1][i])
    BY <1>2, <2>1
  <2>3. netMail[1][i].arg[1] \in 0..1
    BY <1>3, <2>1, <2>2 DEF CallTypes, LockCalls
  <2>4. Finished(DestroyMVRequest(State(1, i), 1, netMail[1][i], junk))
    BY <2>2, <2>3, LoneLockRequests
  <2> QED
    BY <1>1, <2>1, <2>4
<1>13. CASE ProcessDestroyCV(1)
  <2>1. PICK i \in DOMAIN netMail[1], junk \in Junk :
            /\ Running(1) /\ netMail[1][i].type = "DESTROYCV"
            /\ Handles(1, DestroyCVRequest(State(1, i), 1, netMail[1][i], junk))
    BY <1>13 DEF ProcessDestroyCV, ProcessMessage, Deliverable
  <2>2. /\ Alone /\ Begun(State(1, i)) /\ LetterOK(netMail[1][i])
        /\ OwnNumber(netMail[1][i]) \/ OwnCall(netMail[1][i])
    BY <1>2, <2>1
  <2>3. netMail[1][i].arg[1] \in 0..1
    BY <1>3, <2>1, <2>2 DEF CallTypes, LockCalls
  <2>4. Finished(DestroyCVRequest(State(1, i), 1, netMail[1][i], junk))
    BY <2>2, <2>3, LoneLockRequests
  <2> QED
    BY <1>1, <2>1, <2>4
<1>14. CASE ProcessWait(1)
  <2>1. PICK i \in DOMAIN netMail[1], junk \in Junk :
            /\ Running(1) /\ netMail[1][i].type = "WAIT"
            /\ Handles(1, WaitRequest(State(1, i), 1, netMail[1][i], junk))
    BY <1>14 DEF ProcessWait, ProcessMessage, Deliverable
  <2>2. /\ Alone /\ Begun(State(1, i)) /\ LetterOK(netMail[1][i])
        /\ OwnNumber(netMail[1][i]) \/ OwnCall(netMail[1][i])
    BY <1>2, <2>1
  <2>3. netMail[1][i].arg[1] \in 0..1 /\ netMail[1][i].arg[2] \in 0..1
    BY <1>3, <2>1, <2>2 DEF CallTypes, LockCalls
  <2>4. Finished(WaitRequest(State(1, i), 1, netMail[1][i], junk))
    BY <2>2, <2>3, LoneVariableRequests
  <2> QED
    BY <1>1, <2>1, <2>4
<1>15. CASE ProcessBroadcast(1)
  <2>1. PICK i \in DOMAIN netMail[1], junk \in Junk :
            /\ Running(1) /\ netMail[1][i].type = "BROADCAST"
            /\ Handles(1, BroadcastRequest(State(1, i), 1, netMail[1][i], junk))
    BY <1>15 DEF ProcessBroadcast, ProcessMessage, Deliverable
  <2>2. /\ Alone /\ Begun(State(1, i)) /\ LetterOK(netMail[1][i])
        /\ OwnNumber(netMail[1][i]) \/ OwnCall(netMail[1][i])
    BY <1>2, <2>1
  <2>3. netMail[1][i].arg[1] \in 0..1 /\ netMail[1][i].arg[2] \in 0..1
    BY <1>3, <2>1, <2>2 DEF CallTypes, LockCalls
  <2>4. Finished(BroadcastRequest(State(1, i), 1, netMail[1][i], junk))
    BY <2>2, <2>3, LoneVariableRequests
  <2> QED
    BY <1>1, <2>1, <2>4
<1>16. CASE ProcessSignal(1)
  <2>1. PICK i \in DOMAIN netMail[1], junk \in Junk :
            /\ Running(1) /\ netMail[1][i].type = "SIGNAL"
            /\ Handles(1, SignalRequest(State(1, i), 1, netMail[1][i], junk))
    BY <1>16 DEF ProcessSignal, ProcessMessage, Deliverable
  <2>2. /\ Alone /\ Begun(State(1, i)) /\ LetterOK(netMail[1][i])
        /\ OwnNumber(netMail[1][i]) \/ OwnCall(netMail[1][i])
    BY <1>2, <2>1
  <2>3. netMail[1][i].client = None
    BY <1>3, <2>2
  <2>4. Finished(SignalRequest(State(1, i), 1, netMail[1][i], junk))
    BY <2>2, <2>3, LoneVariableRequests
  <2> QED
    BY <1>1, <2>1, <2>4
<1>17. CASE ProcessNumber(1)
  <2>1. PICK i \in DOMAIN netMail[1], junk \in Junk :
            /\ Running(1) /\ netMail[1][i].type = "REPLY"
            /\ Handles(1, NumberRequest(State(1, i), 1, netMail[1][i], junk))
    BY <1>17 DEF ProcessNumber, ProcessMessage, Deliverable
  <2>2. /\ Alone /\ Begun(State(1, i)) /\ LetterOK(netMail[1][i])
        /\ OwnNumber(netMail[1][i]) \/ OwnCall(netMail[1][i])
    BY <1>2, <2>1
  <2>3. Finished(NumberRequest(State(1, i), 1, netMail[1][i], junk))
    BY <2>2, LoneNumber
  <2> QED
    BY <1>1, <2>1, <2>3
<1>18. ASSUME Running(1), NEW i \in Deliverable(1)
      PROVE  netMail[1][i].type \in CallTypes \cup {"REPLY"}
  BY <1>2, <1>3, <1>18 DEF Deliverable
<1>19. ~(\/ ProcessCreateLockVerify(1) \/ ProcessCreateLockAnswer(1)
         \/ ProcessCreateCVVerify(1) \/ ProcessCreateCVAnswer(1)
         \/ ProcessCreateMVVerify(1) \/ ProcessCreateMVAnswer(1)
         \/ ProcessWaitCV(1) \/ ProcessWaitResponse(1))
  BY <1>18, Zenon
  DEF CallTypes, LockCalls, ProcessMessage, ProcessCreateLockVerify, ProcessCreateLockAnswer,
      ProcessCreateCVVerify, ProcessCreateCVAnswer, ProcessCreateMVVerify,
      ProcessCreateMVAnswer, ProcessWaitCV, ProcessWaitResponse
<1> QED
  BY <1>4, <1>5, <1>6, <1>7, <1>8, <1>9, <1>10, <1>11, <1>12, <1>13, <1>14, <1>15, <1>16, <1>17,
     <1>19 DEF Net

\* The numbers that the program can know are those of its own objects.
LEMMA LoneKnown ==
    ASSUME Alone, LoneInv, ended = {}, NEW kind \in Kinds
    PROVE  Known(kind) \subseteq 0..1
<1>1. \A m \in Machine \ {0} : DOMAIN server[m][kind].at = {}
  <2>1. DOMAIN Multiple = Kinds
    BY DEF Multiple, Kinds
  <2>2. NewServer[kind].at = <<>>
    BY <2>1 DEF NewServer
  <2>3. \A m \in Machine \ {0} : server[m] = NewServer
    BY DEF LoneInv, Alone
  <2> QED
    BY <2>2, <2>3
<1>2. ObjectsSound(server[0][kind])
  BY DEF LoneInv, Alone
<1>3. \A k \in DOMAIN server[0][kind].at : server[0][kind].at[k].globalId \in 0..1
  BY <1>2, DistributedLocksAssumption DEF ObjectsSound
<1> QED
  BY <1>1, <1>3 DEF Known

LEMMA LoneCallStep ==
    ASSUME LocksInv, LoneInv, serverCount = 1, NEW type \in CallTypes, NEW arg,
           type \in {"CREATELOCK", "CREATECV", "CREATEMV"} \/ arg[1] \in 0..1,
           type \in {"WAIT", "BROADCAST"} => arg[2] \in 0..1,
           Call(1, type, arg)
    PROVE  LoneInv'
<1> DEFINE msg == [type |-> type, client |-> None, arg |-> arg, from |-> <<0, 1>>, via |-> 0]
<1>1. Alone
  BY DEF LocksInv, LocksTypeOK, Alone
<1>2. Thread = {1} /\ mach[1] = 0 /\ UserAddress(1) = <<0, 1>>
  BY <1>1, AloneAt
<1>3. netMail = [n \in Thread |-> netMail[n]] /\ request \in [Thread -> CallTypes \cup {None}]
  BY DEF LocksInv, LocksTypeOK, MailOK
<1>4. /\ request[1] = None /\ request' = [request EXCEPT ![1] = type]
      /\ netMail' = [netMail EXCEPT ![1] = Append(@, msg)]
      /\ UNCHANGED <<server, userMail, ended>>
      /\ ended = {}
  BY <1>2 DEF Call, Running, LoneInv
<1>5. netMail[1] = <<>> /\ userMail[1] = <<>>
  BY <1>4 DEF LoneInv
<1>6. OwnCall(msg)
  BY DEF OwnCall
<1> HIDE DEF msg
<1>7. netMail'[1] = <<msg>> /\ userMail'[1] = <<>> /\ request'[1] # None
  <2>1. type # None
    BY DistributedLocksAssumption
  <2>2. netMail'[1] = Append(netMail[1], msg) /\ request'[1] = type
    BY <1>2, <1>3, <1>4
  <2>3. Append(<<>>, msg) = <<msg>>
    OBVIOUS
  <2> QED
    BY <1>4, <1>5, <2>1, <2>2, <2>3, Zenon
<1>8. Len(netMail'[1]) + Len(userMail'[1]) <= 1
  <2>1. Len(<<msg>>) = 1 /\ Len(<<>>) = 0
    OBVIOUS
  <2>2. Len(netMail'[1]) = 1 /\ Len(userMail'[1]) = 0
    BY <1>7, <2>1, Zenon
  <2> QED
    BY <2>2
<1>9. \A letter \in Range(netMail'[1]) : OwnCall(letter)
  BY <1>6, <1>7 DEF Range
<1>10. /\ \A m \in Machine \ {0} : server[m] = NewServer
       /\ \A kind \in Kinds : ObjectsSound(server[0][kind])
       /\ NobodyWaits(server[0])
  BY <1>4 DEF LoneInv, Stuck
<1>11. server' = server /\ ended' = ended /\ NewServer' = NewServer
  BY <1>4 DEF NewServer
<1> QED
  BY <1>4, <1>7, <1>8, <1>9, <1>10, <1>11 DEF LoneInv

LEMMA LoneTakeReplyStep ==
    ASSUME LocksInv, LoneInv, serverCount = 1, TakeReply(1)
    PROVE  LoneInv'
<1>1. Alone
  BY DEF LocksInv, LocksTypeOK, Alone
<1>2. Thread = {1} /\ mach[1] = 0
  BY <1>1, AloneAt
<1>3. IsList(netMail[1]) /\ IsList(userMail[1]) /\ userMail = [n \in Thread |-> userMail[n]]
  BY <1>2 DEF LocksInv, MailOK
<1>4. /\ userMail[1] # <<>> /\ userMail' = [userMail EXCEPT ![1] = Tail(@)]
      /\ UNCHANGED <<server, netMail, ended>>
      /\ ended = {}
  BY <1>2 DEF TakeReply, Running, LoneInv
<1>5. /\ Len(netMail[1]) + Len(userMail[1]) <= 1
      /\ \A m \in Machine \ {0} : server[m] = NewServer
      /\ \A kind \in Kinds : ObjectsSound(server[0][kind])
      /\ NobodyWaits(server[0])
  BY <1>4 DEF LoneInv, Stuck
<1>6. netMail[1] = <<>> /\ Tail(userMail[1]) = <<>>
  <2> DEFINE j == Len(netMail[1])
             k == Len(userMail[1])
  <2>1. j \in Nat /\ k \in Nat
    BY <1>3, LenProperties DEF IsList
  <2>2. k # 0
    BY <1>3, <1>4, EmptySeq DEF IsList
  <2>3. j + k <= 1
    BY <1>5
  <2> HIDE DEF j, k
  <2>4. j = 0 /\ k = 1
    BY ONLY <2>1, <2>2, <2>3
  <2>5. netMail[1] = <<>>
    BY <1>3, <2>4, EmptySeq DEF IsList, j
  <2>6. Tail(userMail[1]) \in Seq(Range(userMail[1])) /\ Len(Tail(userMail[1])) = 0
    <3>1. Len(Tail(userMail[1])) = k - 1 /\ Tail(userMail[1]) \in Seq(Range(userMail[1]))
      BY <1>3, <1>4, HeadTailProperties DEF IsList, k
    <3> QED
      BY <2>4, <3>1
  <2> QED
    BY <2>5, <2>6, EmptySeq
<1>7. netMail'[1] = <<>> /\ userMail'[1] = <<>>
  BY <1>2, <1>3, <1>4, <1>6
<1>8. Len(netMail'[1]) + Len(userMail'[1]) <= 1 /\ Range(netMail'[1]) = {}
  <2>1. Len(<<>>) = 0 /\ Range(<<>>) = {}
    BY EmptyList
  <2>2. Len(netMail'[1]) = 0 /\ Len(userMail'[1]) = 0 /\ Range(netMail'[1]) = {}
    BY <1>7, <2>1, Zenon
  <2> QED
    BY <2>2
<1>9. server' = server /\ ended' = ended /\ NewServer' = NewServer
  BY <1>4 DEF NewServer
<1> QED
  BY <1>4, <1>5, <1>7, <1>8, <1>9 DEF LoneInv

LEMMA LoneUserStep ==
    ASSUME LocksInv, LoneInv, serverCount = 1, User(1)
    PROVE  LoneInv'
<1>1. Alone
  BY DEF LocksInv, LocksTypeOK, Alone
<1>2. ASSUME Running(1)
      PROVE  /\ Known("lock") \subseteq 0..1 /\ Known("cv") \subseteq 0..1
             /\ Known("mv") \subseteq 0..1
  <2>1. ended = {}
    BY <1>1, <1>2, AloneAt DEF Running, LoneInv
  <2> QED
    BY <1>1, <2>1, LoneKnown DEF Kinds
<1>3. CASE CallCreate(1)
  <2>1. PICK type \in {"CREATELOCK", "CREATECV", "CREATEMV"}, name \in Name :
            Call(1, type, <<name>>)
    BY <1>3 DEF CallCreate
  <2> DEFINE arg == <<name>>
  <2> HIDE DEF arg
  <2>2. type \in CallTypes /\ type \notin {"WAIT", "BROADCAST"}
    BY DEF CallTypes, LockCalls
  <2> QED
    BY <2>1, <2>2, LoneCallStep DEF arg
<1>4. ASSUME NEW type \in {"ACQUIRE", "RELEASE", "DESTROYLOCK", "GETMV", "DESTROYMV", "SETMV",
                           "DESTROYCV"},
             NEW arg, arg[1] \in 0..1, Call(1, type, arg)
      PROVE  LoneInv'
  <2>1. type \in CallTypes /\ type \notin {"WAIT", "BROADCAST"}
    BY DEF CallTypes, LockCalls
  <2> QED
    BY <1>4, <2>1, LoneCallStep
<1>5. ASSUME NEW type \in {"WAIT", "SIGNAL", "BROADCAST"},
             NEW arg, arg[1] \in 0..1, arg[2] \in 0..1, Call(1, type, arg)
      PROVE  LoneInv'
  <2>1. type \in CallTypes
    BY DEF CallTypes, LockCalls
  <2> QED
    BY <1>5, <2>1, LoneCallStep
<1>6. ASSUME NEW type, NEW arg, Call(1, type, arg)
      PROVE  Running(1)
  BY <1>6 DEF Call
<1>7. CASE CallLock(1)
  <2>1. PICK type \in {"ACQUIRE", "RELEASE", "DESTROYLOCK"}, id \in Known("lock") :
            Call(1, type, <<id>>)
    BY <1>7 DEF CallLock
  <2> DEFINE arg == <<id>>
  <2>2. arg[1] = id
    OBVIOUS
  <2>3. id \in 0..1
    BY <1>2, <1>6, <2>1
  <2>4. Call(1, type, arg)
    BY <2>1
  <2> HIDE DEF arg
  <2> QED
    BY <1>4, <2>2, <2>3, <2>4
<1>8. CASE CallMV(1)
  <2>1. PICK id \in Known("mv") :
            \E type \in {"GETMV", "DESTROYMV", "SETMV"} :
               \E arg : Call(1, type, arg) /\ arg[1] = id
    <3>1. \A number, value : <<number, value>>[1] = number
      OBVIOUS
    <3> QED
      BY <1>8 DEF CallMV
  <2>2. id \in 0..1
    BY <1>2, <1>6, <2>1
  <2> QED
    BY <1>4, <2>1, <2>2
<1>9. CASE CallCV(1)
  <2>1. PICK cv \in Known("cv") :
            \/ \E arg : arg[1] = cv /\ Call(1, "DESTROYCV", arg)
            \/ \E type \in {"WAIT", "SIGNAL", "BROADCAST"}, id \in Known("lock") :
                  \E arg : arg[1] = cv /\ arg[2] = id /\ Call(1, type, arg)
    BY <1>9 DEF CallCV
  <2>2. cv \in 0..1 /\ Known("lock") \subseteq 0..1
    BY <1>2, <1>6, <2>1
  <2> QED
    BY <1>4, <1>5, <2>1, <2>2
<1> QED
  BY <1>3, <1>7, <1>8, <1>9, LoneTakeReplyStep DEF User

LEMMA GroupStays ==
    ASSUME [LocksNext]_locksVars
    PROVE  mach' = mach
<1>1. CASE UNCHANGED locksVars
  BY <1>1 DEF locksVars
<1>2. ASSUME NEW n \in Thread, User(n)
      PROVE  mach' = mach
  BY <1>2, Zenon DEF User, CallCreate, CallLock, CallMV, CallCV, Call, TakeReply
<1>3. ASSUME NEW n \in Thread, Net(n)
      PROVE  mach' = mach
  BY <1>3, Zenon
  DEF Net, ProcessMessage, Handles, ProcessCreateLock, ProcessCreateLockVerify,
      ProcessCreateLockAnswer, ProcessCreateCV, ProcessCreateCVVerify, ProcessCreateCVAnswer,
      ProcessCreateMV, ProcessCreateMVVerify, ProcessCreateMVAnswer, ProcessAcquire,
      ProcessRelease, ProcessDestroyLock, ProcessSetMV, ProcessGetMV, ProcessDestroyMV,
      ProcessWait, ProcessWaitCV, ProcessWaitResponse, ProcessSignal, ProcessBroadcast,
      ProcessDestroyCV, ProcessNumber
<1> QED
  BY <1>1, <1>2, <1>3 DEF LocksNext

LEMMA LoneStep ==
    ASSUME LocksInv, LoneInv, [LocksNext]_locksVars
    PROVE  LoneInv'
<1>1. serverCount' = serverCount
  BY GroupStays DEF serverCount
<1>2. CASE serverCount # 1
  BY <1>1, <1>2 DEF LoneInv
<1>3. CASE serverCount = 1 /\ UNCHANGED locksVars
  BY <1>1, <1>3 DEF LoneInv, locksVars, Stuck, NewServer
<1>4. CASE serverCount = 1 /\ LocksNext
  <2>1. Thread = {1}
    BY <1>4, AloneAt DEF LocksInv, LocksTypeOK, Alone
  <2>2. Net(1) \/ User(1)
    BY <1>4, <2>1 DEF LocksNext
  <2> QED
    BY <1>4, <2>2, LoneNetStep, LoneUserStep
<1> QED
  BY <1>2, <1>3, <1>4

LEMMA LoneStart ==
    ASSUME LocksInit
    PROVE  LoneInv
<1> SUFFICES ASSUME serverCount = 1
             PROVE  LoneInv
  BY DEF LoneInv
<1>1. Alone
  BY DEF LocksInit, Alone
<1>2. Thread = {1}
  BY <1>1, AloneAt
<1>3. netMail[1] = <<>> /\ userMail[1] = <<>> /\ request[1] = None /\ ended = {}
  BY <1>2 DEF LocksInit
<1>4. server = [m \in Machine |-> NewServer] /\ 0 \in Machine
  BY DistributedLocksAssumption DEF LocksInit
<1>5. server[0] = NewServer /\ \A m \in Machine : server[m] = NewServer
  BY <1>4
<1>6. \A kind \in Kinds : NewServer[kind] = [next |-> 0, at |-> <<>>]
  <2>1. DOMAIN Multiple = Kinds
    BY DEF Multiple, Kinds
  <2> QED
    BY <2>1 DEF NewServer
<1>7. \A kind \in Kinds : /\ NewServer[kind].next = 0
                          /\ NewServer[kind].at = <<>> /\ DOMAIN NewServer[kind].at = {}
  BY <1>6
<1>8. Cardinality({}) = 0
  BY FS_EmptySet
<1>9. \A kind \in Kinds : ObjectsSound(NewServer[kind])
  BY <1>7, <1>8 DEF ObjectsSound
<1>10. NobodyWaits(NewServer)
  BY <1>7 DEF NobodyWaits, Kinds
<1>11. Len(netMail[1]) + Len(userMail[1]) <= 1 /\ Range(netMail[1]) = {}
  <2>1. Len(<<>>) = 0 /\ Range(<<>>) = {}
    BY EmptyList
  <2>2. Len(netMail[1]) = 0 /\ Len(userMail[1]) = 0 /\ Range(netMail[1]) = {}
    BY <1>3, <2>1, Zenon
  <2> QED
    BY <2>2
<1> HIDE DEF NewServer
<1> QED
  BY <1>3, <1>5, <1>9, <1>10, <1>11 DEF LoneInv

LEMMA ServersAreSound ==
    ASSUME LocksInv, LoneInv
    PROVE  ServersSound
<1>1. LocksTypeOK
  BY DEF LocksInv
<1>2. RepliesMatch
  <2> SUFFICES ASSUME serverCount = 1
               PROVE  /\ Len(userMail[1]) <= 1
                      /\ userMail[1] # <<>> => request[1] # None /\ netMail[1] = <<>>
    BY DEF RepliesMatch
  <2>1. Thread = {1}
    BY <1>1, AloneAt DEF LocksTypeOK, Alone
  <2>2. IsList(netMail[1]) /\ IsList(userMail[1])
    BY <2>1 DEF LocksInv, MailOK
  <2>3. /\ Len(netMail[1]) + Len(userMail[1]) <= 1
        /\ request[1] = None => userMail[1] = <<>>
    BY DEF LoneInv
  <2> DEFINE j == Len(netMail[1])
             k == Len(userMail[1])
  <2>4. j \in Nat /\ k \in Nat /\ j + k <= 1
    BY <2>2, <2>3, LenProperties DEF IsList
  <2>5. (j = 0 => netMail[1] = <<>>) /\ (k = 0 => userMail[1] = <<>>)
    BY <2>2, EmptySeq DEF IsList
  <2> HIDE DEF j, k
  <2>6. k <= 1 /\ (k = 0 \/ j = 0)
    BY <2>4
  <2> QED
    BY <2>3, <2>5, <2>6 DEF k
<1>3. TablesSound
  <2> SUFFICES ASSUME serverCount = 1, ended = {}, NEW kind \in Kinds
               PROVE  LET objects == server[0][kind].at
                      IN  /\ server[0][kind].next = Cardinality(DOMAIN objects)
                          /\ server[0][kind].next <= Capacity
                          /\ \A k \in DOMAIN objects : objects[k].globalId % Multiple[kind] = k
                          /\ \A j, k \in DOMAIN objects :
                                 objects[j].name = objects[k].name => j = k
    BY DEF TablesSound, Multiple, Kinds
  <2> DEFINE table == server[0][kind]
  <2>1. ObjectsSound(table)
    BY DEF LoneInv
  <2> HIDE DEF table
  <2>2. table.next <= Capacity
    <3>1. IsFiniteSet(0..Capacity - 1) /\ Cardinality(0..Capacity - 1) = Capacity
      <4>1. 0 \in Int /\ Capacity - 1 \in Int /\ Capacity - 1 >= 0
        BY DistributedLocksAssumption
      <4>2. /\ IsFiniteSet(0..Capacity - 1)
            /\ Cardinality(0..Capacity - 1)
               = IF 0 > Capacity - 1 THEN 0 ELSE (Capacity - 1) - 0 + 1
        BY <4>1, FS_Interval
      <4> QED
        BY <4>1, <4>2, DistributedLocksAssumption
    <3>2. DOMAIN table.at \in SUBSET (0..Capacity - 1)
      BY <2>1 DEF ObjectsSound
    <3>3. Cardinality(DOMAIN table.at) <= Capacity
      BY <3>1, <3>2, FS_Subset
    <3> QED
      BY <2>1, <3>3 DEF ObjectsSound
  <2>3. \A k \in DOMAIN table.at : table.at[k].globalId % Multiple[kind] = k
    <3>1. \A k \in DOMAIN table.at : k \in 0..1 /\ table.at[k].globalId = k
      BY <2>1, DistributedLocksAssumption DEF ObjectsSound
    <3>2. Multiple[kind] = 100 \/ Multiple[kind] = 500
      BY DEF Multiple, Kinds
    <3> QED
      BY <3>1, <3>2
  <2> QED
    BY <2>1, <2>2, <2>3 DEF ObjectsSound, table
<1> QED
  BY <1>1, <1>2, <1>3 DEF ServersSound

\* The tables of processMessage are sound in every group, and in a group of one
\* a program never gets a reply that is not to the call it waits in, and the
\* numbers of what it has created lead to it, through any sequence of
\* creations, destructions and calls.
THEOREM ServersStaySound == LocksSpec => []ServersSound
<1>1. LocksInit => LoneInv
  BY LoneStart
<1>2. LocksInv /\ LoneInv /\ [LocksNext]_locksVars => LoneInv'
  BY LoneStep
<1>3. LocksInv /\ LoneInv => ServersSound
  BY ServersAreSound
<1> QED
  BY <1>1, <1>2, <1>3, LocksInvariant, PTL DEF LocksSpec

=============================================================================
