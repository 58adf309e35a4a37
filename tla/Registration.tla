---------------------------- MODULE Registration ----------------------------
(***************************************************************************)
(* How the network threads of a group find each other: RegServer,          *)
(* RegisterNetworkThread and the first part of the loop of NetworkThread   *)
(* (threads/system.cc), over a network that loses packets.                 *)
(*                                                                         *)
(* A node is a process with one thread that receives: the registration     *)
(* server or a member.  A message is identified by its two ends and its    *)
(* counter, as no two have the same time stamp.  What resending does while *)
(* a message is being acknowledged is in module PostOffice; here a message *)
(* is either on the list when the resend thread comes to it or not.        *)
(*                                                                         *)
(* REQUEST stands for every message that network threads exchange once     *)
(* they have registered; what the receiver does with it is in modules      *)
(* TotalOrder and DistributedLocks.                                        *)
(***************************************************************************)
EXTENDS Integers, SequencesExt, FiniteSetsExt

CONSTANTS N,                  \* totalNumNetworkThreads
          ThreadsPerMessage,  \* members named in one GROUPINFO
          MaxLosses,          \* bound: packets that the network loses
          MaxEarly,           \* bound: messages resent though nothing was lost
          Requesters          \* bound: the members that send a request, one to each other

Server == 0
Member == 1..N
Node == {Server} \cup Member

ASSUME RegistrationAssumption ==
    /\ N \in 1..99
    /\ ThreadsPerMessage \in Nat \ {0}
    /\ MaxLosses \in Nat
    /\ MaxEarly \in Nat
    /\ Requesters \subseteq Member

VARIABLES
    wire,             \* packets on their way to each node, in order
    unAcked,          \* unAckedMessages of each node
    sent,             \* sendCounters: number of messages to each other node
    known,            \* receiveCounters: the threads with an entry
    received,         \* receivedMessages of each node
    phase,            \* where each thread is in its registration
    registered,       \* serverNetThreadInfo
    toSend,           \* what the server still has to send
    expected,         \* GROUPINFO messages a member still waits for
    group,            \* localNetThreadInfo of each member
    processed,        \* history: requests that a member processed
    losses,           \* packets lost so far
    early             \* messages resent too early so far

vars == <<wire, unAcked, sent, known, received, phase, registered, toSend,
          expected, group, processed, losses, early>>

Init ==
    /\ wire = [n \in Node |-> <<>>]
    /\ unAcked = [n \in Node |-> {}]
    /\ sent = [n \in Node |-> [k \in Node |-> 0]]
    /\ known = [n \in Node |-> {}]
    /\ received = [n \in Node |-> {}]
    /\ phase = [n \in Node |-> IF n = Server THEN "registering" ELSE "idle"]
    /\ registered = <<>>
    /\ toSend = <<>>
    /\ expected = [m \in Member |-> 0]
    /\ group = [m \in Member |-> <<>>]
    /\ processed = [m \in Member |-> {}]
    /\ losses = 0
    /\ early = 0

-----------------------------------------------------------------------------
(* Sending *)

\* A new message of n to k; its counter is the number of those before it.
Message(n, k, type, info) ==
    [from |-> n, to |-> k, counter |-> sent[n][k], type |-> type, info |-> info]

\* Ack: an acknowledgement carries the time stamp of the message.
AckOf(msg) ==
    [from |-> msg.to, to |-> msg.from, counter |-> msg.counter, type |-> "ACK",
     info |-> <<>>]

\* Network::Send of a packet, when the mailboxes hold w and n packets were lost
\* so far: it reaches its destination or is lost.
Put(w, p) == [w EXCEPT ![p.to] = Append(@, p)]

SendOne(w, n, p) ==
    \/ wire' = Put(w, p) /\ losses' = n
    \/ wire' = w /\ n < MaxLosses /\ losses' = n + 1

Transmit(w, p) == SendOne(w, losses, p)

TransmitBoth(w, p, q) ==
    \/ SendOne(Put(w, p), losses, q)
    \/ losses < MaxLosses /\ SendOne(w, losses + 1, q)

\* PostOffice::Send of a new message: it is numbered and kept on the list.
Keep(msg) ==
    /\ sent' = [sent EXCEPT ![msg.from][msg.to] = @ + 1]
    /\ unAcked' = [unAcked EXCEPT ![msg.from] = @ \cup {msg}]

\* A copy of the message, or of its acknowledgement, is on its way.
OnItsWay(msg) ==
    \/ msg \in ToSet(wire[msg.to])
    \/ AckOf(msg) \in ToSet(wire[msg.from])

\* The resend thread sends a message again that was not acknowledged in time.
Resend(n, msg) ==
    /\ msg \in unAcked[n]
    /\ early' = IF OnItsWay(msg) THEN early + 1 ELSE early
    /\ early' <= MaxEarly
    /\ Transmit(wire, msg)
    /\ UNCHANGED <<unAcked, sent, known, received, phase, registered, toSend,
                   expected, group, processed>>

-----------------------------------------------------------------------------
(* Receiving *)

\* Mutant: the first message from a thread need not have counter 0.
ReturnsAny(n, p) == TRUE

\* PostOffice::Receive returns a message to its caller, or discards it.
Returns(n, p) ==
    \/ p.type = "ACK"
    \/ p.counter = 0
    \/ p.from \in known[n]

\* The next packet of node n, which takes no packet while it sends GROUPINFO.
Incoming(n, p) ==
    /\ wire[n] # <<>>
    /\ p = Head(wire[n])
    /\ phase[n] # "sending"

Taken(n) == [wire EXCEPT ![n] = Tail(@)]

Discard(n) ==
    /\ \E p \in ToSet(wire[n]) : Incoming(n, p) /\ ~Returns(n, p)
    /\ wire' = Taken(n)
    /\ UNCHANGED <<unAcked, sent, known, received, phase, registered, toSend,
                   expected, group, processed, losses, early>>

\* processAck takes the message off the list.  When that was the last message
\* the server has waited for, its registration is over.
ReceiveAck(n) ==
    /\ \E p \in ToSet(wire[n]) :
        /\ Incoming(n, p) /\ p.type = "ACK"
        /\ unAcked' = [unAcked EXCEPT ![n] = {msg \in @ : AckOf(msg) # p}]
    /\ phase' = IF phase[n] = "waiting" /\ unAcked'[n] = {}
                THEN [phase EXCEPT ![n] = "complete"] ELSE phase
    /\ wire' = Taken(n)
    /\ UNCHANGED <<sent, known, received, registered, toSend, expected, group,
                   processed, losses, early>>

\* Any other message that Receive returns is acknowledged and recorded.
Accept(n, p) ==
    /\ Incoming(n, p) /\ p.type # "ACK" /\ Returns(n, p)
    /\ known' = [known EXCEPT ![n] = @ \cup {p.from}]
    /\ received' = [received EXCEPT ![n] = @ \cup {p}]
    /\ early' = early

\* messageIsRedundant
Redundant(n, p) == p \in received[n]

\* Mutant: every REGNETTHREAD adds an entry.
NeverRegistered(m) == FALSE

\* threadHasRegistered
HasRegistered(m) == m \in ToSet(registered)

-----------------------------------------------------------------------------
(* The registration server *)

\* The number of GROUPINFO messages for each member, and all of them in the
\* order in which they are sent: the first to every member, then the second.
NumMessages == (N + ThreadsPerMessage - 1) \div ThreadsPerMessage

GroupInfo(threads) ==
    [i \in 1..(NumMessages * N) |->
        LET chunk == (i - 1) \div N IN
        [to |-> threads[((i - 1) % N) + 1],
         info |-> SubSeq(threads, chunk * ThreadsPerMessage + 1,
                         Min({(chunk + 1) * ThreadsPerMessage, N}))]]

\* A REGNETTHREAD, also one that arrives again, is answered; the last thread
\* that was missing ends the loop.
Register ==
    \E p \in ToSet(wire[Server]) :
        LET response == Message(Server, p.from, "REGNETTHREADRESPONSE", <<NumMessages>>)
            threads == IF HasRegistered(p.from) THEN registered
                       ELSE Append(registered, p.from)
        IN  /\ phase[Server] = "registering"
            /\ p.type = "REGNETTHREAD"
            /\ Accept(Server, p)
            /\ registered' = threads
            /\ Keep(response)
            /\ TransmitBoth(Taken(Server), AckOf(p), response)
            /\ IF Len(threads) = N
               THEN /\ phase' = [phase EXCEPT ![Server] = "sending"]
                    /\ toSend' = GroupInfo(threads)
               ELSE UNCHANGED <<phase, toSend>>
            /\ UNCHANGED <<expected, group, processed>>

\* The next GROUPINFO; after the last one the server waits for the ACKs.
SendGroupInfo ==
    /\ phase[Server] = "sending"
    /\ LET msg == Message(Server, Head(toSend).to, "GROUPINFO", Head(toSend).info)
       IN  Keep(msg) /\ Transmit(wire, msg)
    /\ toSend' = Tail(toSend)
    /\ phase' = IF toSend' = <<>> THEN [phase EXCEPT ![Server] = "waiting"] ELSE phase
    /\ UNCHANGED <<known, received, registered, expected, group, processed, early>>

-----------------------------------------------------------------------------
(* A member *)

\* The user program wants to start: register with the server.
Start(m) ==
    /\ phase[m] = "idle"
    /\ phase' = [phase EXCEPT ![m] = "response"]
    /\ LET msg == Message(m, Server, "REGNETTHREAD", <<m>>)
       IN  Keep(msg) /\ Transmit(wire, msg)
    /\ UNCHANGED <<known, received, registered, toSend, expected, group,
                   processed, early>>

\* The number of GROUPINFO messages to wait for.
ReceiveResponse(m) ==
    \E p \in ToSet(wire[m]) :
        /\ phase[m] = "response"
        /\ p.type = "REGNETTHREADRESPONSE"
        /\ Accept(m, p)
        /\ expected' = [expected EXCEPT ![m] = p.info[1]]
        /\ phase' = [phase EXCEPT ![m] = "info"]
        /\ Transmit(Taken(m), AckOf(p))
        /\ UNCHANGED <<unAcked, sent, registered, toSend, group, processed>>

\* A GROUPINFO, also one that arrives again: its members are added, and the
\* last one expected ends the registration.  serverCount is then the length of
\* the group, and the user program may proceed.
ReceiveGroupInfo(m) ==
    \E p \in ToSet(wire[m]) :
        /\ phase[m] = "info"
        /\ p.type = "GROUPINFO"
        /\ Accept(m, p)
        /\ group' = [group EXCEPT ![m] = @ \o p.info]
        /\ expected' = [expected EXCEPT ![m] = @ - 1]
        /\ phase' = IF expected'[m] = 0 THEN [phase EXCEPT ![m] = "finished"] ELSE phase
        /\ Transmit(Taken(m), AckOf(p))
        /\ UNCHANGED <<unAcked, sent, registered, toSend, processed>>

\* A member that has registered sends to another member of its group.
Request(m, k) ==
    /\ m \in Requesters /\ phase[m] = "finished"
    /\ k \in ToSet(group[m]) \ {m}
    /\ sent[m][k] = 0
    /\ LET msg == Message(m, k, "REQUEST", <<>>)
       IN  Keep(msg) /\ Transmit(wire, msg)
    /\ UNCHANGED <<known, received, phase, registered, toSend, expected, group,
                   processed, early>>

\* The loop of NetworkThread: a message is processed unless it is redundant.
Process(m) ==
    \E p \in ToSet(wire[m]) :
        /\ phase[m] = "finished"
        /\ Accept(m, p)
        /\ processed' = IF Redundant(m, p) THEN processed
                        ELSE [processed EXCEPT ![m] = @ \cup {p}]
        /\ Transmit(Taken(m), AckOf(p))
        /\ UNCHANGED <<unAcked, sent, phase, registered, toSend, expected, group>>

\* What the loops of each phase wait for.
Awaited(n) ==
    CASE phase[n] = "registering" -> {"REGNETTHREAD"}
      [] phase[n] = "response" -> {"REGNETTHREADRESPONSE"}
      [] phase[n] = "info" -> {"GROUPINFO"}
      [] OTHER -> {}

\* Any other message that arrives while the server waits for a REGNETTHREAD or
\* for ACKs, or a member for the server's messages, is acknowledged, and lost
\* for good.
Swallow(n) ==
    \E p \in ToSet(wire[n]) :
        /\ phase[n] # "finished"
        /\ p.type \notin Awaited(n)
        /\ Accept(n, p)
        /\ Transmit(Taken(n), AckOf(p))
        /\ UNCHANGED <<unAcked, sent, phase, registered, toSend, expected, group,
                       processed>>

-----------------------------------------------------------------------------
Receive(n) ==
    \/ Discard(n)
    \/ ReceiveAck(n)
    \/ Swallow(n)
    \/ n = Server /\ Register
    \/ n # Server /\ (ReceiveResponse(n) \/ ReceiveGroupInfo(n) \/ Process(n))

Next ==
    \/ SendGroupInfo
    \/ \E n \in Node : Receive(n) \/ \E msg \in unAcked[n] : Resend(n, msg)
    \/ \E m \in Member : Start(m) \/ \E k \in Member : Request(m, k)

Spec == Init /\ [][Next]_vars

\* All threads run: each user program starts, the server goes on sending, and
\* whoever has mail takes it.  A resend thread comes round to every message
\* that nothing else would move.  The first message to a thread is named on its
\* own, as until it has arrived the others are resent and discarded for ever.
Fairness ==
    /\ WF_vars(SendGroupInfo)
    /\ \A m \in Member : WF_vars(Start(m))
    /\ \A n \in Node : WF_vars(Receive(n))
    /\ \A n, k \in Node :
        /\ WF_vars(\E msg \in unAcked[n] : /\ msg.to = k /\ msg.counter = 0
                                           /\ ~OnItsWay(msg) /\ Resend(n, msg))
        /\ WF_vars(\E msg \in unAcked[n] : /\ msg.to = k /\ msg.counter > 0
                                           /\ ~OnItsWay(msg) /\ Resend(n, msg))

FairSpec == Spec /\ Fairness

-----------------------------------------------------------------------------
(* Properties *)

\* Every variable keeps its type.
TypeOK ==
    /\ \A n \in Node :
        /\ \A p \in ToSet(wire[n]) : p.to = n /\ p.from \in Node \ {n}
        /\ \A msg \in unAcked[n] : msg.from = n /\ msg.to \in Node \ {n}
        /\ known[n] \subseteq Node \ {n}
        /\ \A p \in received[n] : p.to = n /\ p.from \in known[n]
        /\ sent[n] \in [Node -> Nat]
    /\ phase[Server] \in {"registering", "sending", "waiting", "complete"}
    /\ \A m \in Member : phase[m] \in {"idle", "response", "info", "finished"}
    /\ registered \in Seq(Member)
    /\ \A i \in 1..Len(toSend) : toSend[i].to \in Member
    /\ expected \in [Member -> 0..NumMessages]
    /\ group \in [Member -> Seq(Member)]
    /\ losses \in 0..MaxLosses /\ early \in 0..MaxEarly

\* Every member that has registered knows each member of the group once, in the
\* order in which they came to the server.  So all agree on the order of the
\* table of time stamps, and serverCount is right, as an assertion in
\* network/netcall.cc demands: however often messages are lost, resent and
\* answered again.
GroupsAgree ==
    \A m \in Member : phase[m] = "finished" =>
        /\ group[m] = registered
        /\ Len(group[m]) = N
        /\ ToSet(group[m]) = Member

\* RegServer says it is complete only when every member has what it needs: a
\* GROUPINFO is never acknowledged by a thread that does not yet wait for it.
CompleteMeansAll ==
    phase[Server] = "complete" => \A m \in Member : phase[m] = "finished"

GroupsSound == TypeOK /\ GroupsAgree /\ CompleteMeansAll

\* The registration ends for everyone, and nothing is resent for ever.
RegistrationEnds ==
    <>[](/\ phase[Server] = "complete"
         /\ \A m \in Member : phase[m] = "finished"
         /\ \A n \in Node : unAcked[n] = {})

\* A request to a member that has started to register is processed in the end.
\* It is not when it arrives before that member's last GROUPINFO.
RequestsProcessed ==
    \A m, k \in Member :
        (sent[m][k] > 0) ~> (\E p \in processed[k] : p.from = m)

=============================================================================
