----------------------------- MODULE PostOffice -----------------------------
(***************************************************************************)
(* Acknowledged messages between network threads: PostOffice::Send and     *)
(* Receive (network/post.cc), the acknowledgements (Ack and processAck in  *)
(* network/netcall.cc), the resend thread and the filter for messages that *)
(* arrive again (MsgResendInterruptHandler and messageIsRedundant in       *)
(* threads/system.cc), over a network that loses packets                   *)
(* (machine/network.cc).                                                   *)
(*                                                                         *)
(* A node is a machine with one network thread and its resend thread.  The *)
(* critical sections under unAckedMessagesLock are single steps, except    *)
(* where the resend thread loses the lock: the Release inside the Send it  *)
(* calls gives up the lock that its own loop acquired.                     *)
(*                                                                         *)
(* The text of a message is the sequence of the numbers that are joined    *)
(* with `_' in it: Send puts a counter in front, Receive takes the first   *)
(* number off.                                                             *)
(***************************************************************************)
EXTENDS Integers, SequencesExt

CONSTANTS Node,
          MaxSends,     \* bound: messages sent, not counting what is resent
          MaxCopies,    \* bound: copies of one packet on their way at once
          MaxRenumbers  \* bound: messages that a resend thread renumbers

ASSUME PostAssumption ==
    /\ MaxSends \in Nat
    /\ MaxCopies \in Nat
    /\ MaxRenumbers \in Nat

VARIABLES
    clock,              \* gettimeofday: the time of the last Send
    sent,               \* history: every message that was sent, as sent
    wire,               \* socket, network device and mailbox of each node
    unAckedMessages,    \* of each node
    sendCounters,       \* Thread::sendCounters of the network thread
    resendCounters,     \* Thread::sendCounters of the resend thread
    receiveCounters,    \* Thread::receiveCounters of the network thread
    receivedMessages,   \* what the network thread has accepted, in order
    resend              \* the resend thread: pc, index, lock and message

vars == <<clock, sent, wire, unAckedMessages, sendCounters, resendCounters,
          receiveCounters, receivedMessages, resend>>

\* Request types (network/netcall.h): the acknowledgement, and one other.
ACK == 29
REQUEST == 1

None == -1                  \* no entry in a table of counters

NoMessage == [to |-> None, timeStamp |-> 0, data |-> <<>>]

Idle == [pc |-> "idle", i |-> 1, locked |-> FALSE, msg |-> NoMessage]

Init ==
    /\ clock = 0
    /\ sent = {}
    /\ wire = [n \in Node |-> <<>>]
    /\ unAckedMessages = [n \in Node |-> <<>>]
    /\ sendCounters = [n \in Node |-> [m \in Node |-> None]]
    /\ resendCounters = [n \in Node |-> [m \in Node |-> None]]
    /\ receiveCounters = [n \in Node |-> [m \in Node |-> None]]
    /\ receivedMessages = [n \in Node |-> <<>>]
    /\ resend = [n \in Node |-> Idle]

-----------------------------------------------------------------------------
\* Network::Send: the packet reaches the socket of its destination or is lost.
\* So is a copy of a packet that is on its way MaxCopies times already.
Transmit(n, msg, ok) ==
    LET packet == [from |-> n, timeStamp |-> msg.timeStamp, data |-> msg.data]
        copies == {i \in 1..Len(wire[msg.to]) : wire[msg.to][i] = packet}
    IN  IF ok /\ Cardinality(copies) < MaxCopies
        THEN [wire EXCEPT ![msg.to] = Append(@, packet)]
        ELSE wire

\* The entries of unAckedMessages that processAck, Ack and Send look for: they
\* compare addresses and time stamp.
Matches(n, to, timeStamp) ==
    {i \in 1..Len(unAckedMessages[n]) :
        /\ unAckedMessages[n][i].to = to
        /\ unAckedMessages[n][i].timeStamp = timeStamp}

\* unAckedMessages without the first entry that matches.
Erase(n, to, timeStamp) ==
    IF Matches(n, to, timeStamp) = {}
    THEN unAckedMessages
    ELSE [unAckedMessages EXCEPT ![n] = RemoveAt(@, Min(Matches(n, to, timeStamp)))]

\* unAckedMessagesLock of node n is held by the resend thread.
HeldByResend(n) == resend[n].locked

\* Mutant: the counter is not put in front of the text.
SendUnnumbered(n, to, ok) ==
    /\ clock < MaxSends
    /\ ~HeldByResend(n)
    /\ LET msg == [to |-> to, timeStamp |-> clock + 1, data |-> <<REQUEST>>]
       IN  /\ sendCounters' = [sendCounters EXCEPT ![n][to] = @ + 1]
           /\ unAckedMessages' = [unAckedMessages EXCEPT ![n] = Append(@, msg)]
           /\ wire' = Transmit(n, msg, ok)
           /\ sent' = sent \cup {[from |-> n, to |-> to, timeStamp |-> clock + 1,
                                  data |-> <<REQUEST>>]}
    /\ clock' = clock + 1
    /\ UNCHANGED <<resendCounters, receiveCounters, receivedMessages, resend>>

\* PostOffice::Send of a new message by the network thread: number it, keep it
\* until it is acknowledged, transmit it.  Time stamps are in microseconds and
\* no two messages have the same one.
Send(n, to, ok) ==
    /\ clock < MaxSends
    /\ ~HeldByResend(n)
    /\ LET counter == sendCounters[n][to] + 1
           msg == [to |-> to, timeStamp |-> clock + 1, data |-> <<counter, REQUEST>>]
       IN  /\ sendCounters' = [sendCounters EXCEPT ![n][to] = counter]
           /\ unAckedMessages' = [unAckedMessages EXCEPT ![n] = Append(@, msg)]
           /\ wire' = Transmit(n, msg, ok)
           /\ sent' = sent \cup {[from |-> n, to |-> to, timeStamp |-> clock + 1,
                                  data |-> <<REQUEST>>]}
    /\ clock' = clock + 1
    /\ UNCHANGED <<resendCounters, receiveCounters, receivedMessages, resend>>

-----------------------------------------------------------------------------
(* The resend thread *)

\* A round begins: acquire the lock, look at the first entry.
ResendStart(n) ==
    /\ resend[n].pc = "idle"
    /\ unAckedMessages[n] # <<>>
    /\ resend' = [resend EXCEPT ![n] = [Idle EXCEPT !.pc = "scan", !.locked = TRUE]]
    /\ UNCHANGED <<clock, sent, wire, unAckedMessages, sendCounters,
                   resendCounters, receiveCounters, receivedMessages>>

\* The next entry that was sent too long ago, j, becomes the argument of a call
\* of Send.  Two seconds may or may not have passed for any of them.  Without
\* the lock, others may get it before this call of Send does; once MaxRenumbers
\* messages have been lost that way the model keeps the others out.
ResendPick(n, j) ==
    /\ resend[n].pc = "scan"
    /\ j \in resend[n].i .. Len(unAckedMessages[n])
    /\ resend' = [resend EXCEPT ![n].pc = "calling",
                                ![n].i = j,
                                ![n].locked = @ \/ resendCounters[n][unAckedMessages[n][j].to] + 1
                                                      >= MaxRenumbers,
                                ![n].msg = unAckedMessages[n][j]]
    /\ UNCHANGED <<clock, sent, wire, unAckedMessages, sendCounters,
                   resendCounters, receiveCounters, receivedMessages>>

\* Mutant: a message is resent only once, it is taken off the list.
ResendErases(n, ok) ==
    /\ resend[n].pc = "calling"
    /\ LET msg == resend[n].msg IN
       /\ wire' = Transmit(n, msg, ok)
       /\ unAckedMessages' = Erase(n, msg.to, msg.timeStamp)
    /\ resend' = [resend EXCEPT ![n].pc = "sending", ![n].locked = FALSE]
    /\ UNCHANGED <<clock, sent, sendCounters, resendCounters, receiveCounters,
                   receivedMessages>>

\* PostOffice::Send called by the resend thread.  When the entry is found the
\* packet is transmitted as it is.  When it was acknowledged before Send had
\* the lock, the message is taken for a new one: it gets a second counter, of
\* the resend thread, and is put back on the list.  Either way Send releases
\* the lock.
ResendSend(n, ok) ==
    /\ resend[n].pc = "calling"
    /\ LET msg == resend[n].msg
           counter == resendCounters[n][msg.to] + 1
           again == [msg EXCEPT !.data = <<counter>> \o @]
       IN  \/ /\ Matches(n, msg.to, msg.timeStamp) # {}
              /\ wire' = Transmit(n, msg, ok)
              /\ UNCHANGED <<unAckedMessages, resendCounters>>
           \/ /\ Matches(n, msg.to, msg.timeStamp) = {}
              /\ wire' = Transmit(n, again, ok)
              /\ unAckedMessages' = [unAckedMessages EXCEPT ![n] = Append(@, again)]
              /\ resendCounters' = [resendCounters EXCEPT ![n][msg.to] = counter]
    /\ resend' = [resend EXCEPT ![n].pc = "sending", ![n].locked = FALSE]
    /\ UNCHANGED <<clock, sent, sendCounters, receiveCounters, receivedMessages>>

\* The packet is out (messageSent->P returned): the loop goes on, without the
\* lock, at the next index.
ResendReturn(n) ==
    /\ resend[n].pc = "sending"
    /\ resend' = [resend EXCEPT ![n].pc = "scan",
                                ![n].i = @ + 1,
                                ![n].msg = NoMessage]
    /\ UNCHANGED <<clock, sent, wire, unAckedMessages, sendCounters,
                   resendCounters, receiveCounters, receivedMessages>>

\* No other entry is due: Release, and yield for a while.
ResendEnd(n) ==
    /\ resend[n].pc = "scan"
    /\ resend' = [resend EXCEPT ![n] = Idle]
    /\ UNCHANGED <<clock, sent, wire, unAckedMessages, sendCounters,
                   resendCounters, receiveCounters, receivedMessages>>

-----------------------------------------------------------------------------
(* Receive *)

\* Mutant: the first message from a thread need not have counter 0.
AcceptsAny(n, from, counter) == TRUE

\* PostOffice::Receive returns a message with this counter to its caller, or
\* discards it and waits for another.  Once a thread is known, all its
\* messages are returned, whatever their counter; an acknowledgement has
\* counter -1.
Accepts(n, from, counter) ==
    \/ counter < 0
    \/ counter = 0
    \/ receiveCounters[n][from] # None

\* The table of counters after that call: a thread that was not known gets an
\* entry, and a counter that was expected is counted.
Counted(n, from, counter) ==
    IF \/ receiveCounters[n][from] = None /\ counter = 0
       \/ receiveCounters[n][from] # None /\ counter = receiveCounters[n][from] + 1
    THEN [receiveCounters EXCEPT ![n][from] = @ + 1]
    ELSE receiveCounters

\* Mutant: nothing is taken for redundant.
NeverRedundant(n, from, timeStamp) == FALSE

\* messageIsRedundant: the addresses and the time stamp are known already.
Redundant(n, from, timeStamp) ==
    \E i \in 1..Len(receivedMessages[n]) :
        /\ receivedMessages[n][i].from = from
        /\ receivedMessages[n][i].timeStamp = timeStamp

\* Mutant: a message is acknowledged also when Receive discards it.
DiscardAcks(n) ==
    /\ wire[n] # <<>>
    /\ LET p == Head(wire[n]) IN
       /\ ~Accepts(n, p.from, p.data[1])
       /\ wire' = [Transmit(n, [to |-> p.from, timeStamp |-> p.timeStamp,
                                data |-> <<-1, ACK>>], TRUE)
                     EXCEPT ![n] = Tail(@)]
    /\ UNCHANGED <<clock, sent, unAckedMessages, sendCounters, resendCounters,
                   receiveCounters, receivedMessages, resend>>

\* A message that Receive does not return.
Discard(n) ==
    /\ wire[n] # <<>>
    /\ LET p == Head(wire[n]) IN ~Accepts(n, p.from, p.data[1])
    /\ wire' = [wire EXCEPT ![n] = Tail(@)]
    /\ UNCHANGED <<clock, sent, unAckedMessages, sendCounters, resendCounters,
                   receiveCounters, receivedMessages, resend>>

\* Mutant: processAck leaves the message on the list.
AckIgnored(n) ==
    /\ wire[n] # <<>>
    /\ ~HeldByResend(n)
    /\ LET p == Head(wire[n]) IN
       /\ Accepts(n, p.from, p.data[1])
       /\ p.data[2] = ACK
       /\ receiveCounters' = Counted(n, p.from, p.data[1])
    /\ wire' = [wire EXCEPT ![n] = Tail(@)]
    /\ UNCHANGED <<clock, sent, unAckedMessages, sendCounters, resendCounters,
                   receivedMessages, resend>>

\* An acknowledgement: processAck takes the message off the list, if it finds
\* it.
ReceiveAck(n) ==
    /\ wire[n] # <<>>
    /\ ~HeldByResend(n)
    /\ LET p == Head(wire[n]) IN
       /\ Accepts(n, p.from, p.data[1])
       /\ p.data[2] = ACK
       /\ receiveCounters' = Counted(n, p.from, p.data[1])
       /\ unAckedMessages' = Erase(n, p.from, p.timeStamp)
    /\ wire' = [wire EXCEPT ![n] = Tail(@)]
    /\ UNCHANGED <<clock, sent, sendCounters, resendCounters, receivedMessages,
                   resend>>

\* Any other message: acknowledge it (a message of the node itself by taking
\* it off the list, another one by an ACK with the same time stamp, which is
\* not resent), then keep it unless it is redundant.
ReceiveRequest(n, ok) ==
    /\ wire[n] # <<>>
    /\ ~HeldByResend(n)
    /\ LET p == Head(wire[n])
           ack == [to |-> p.from, timeStamp |-> p.timeStamp, data |-> <<-1, ACK>>]
       IN  /\ Accepts(n, p.from, p.data[1])
           /\ p.data[2] # ACK
           /\ receiveCounters' = Counted(n, p.from, p.data[1])
           /\ \/ /\ p.from = n
                 /\ unAckedMessages' = Erase(n, n, p.timeStamp)
                 /\ wire' = [wire EXCEPT ![n] = Tail(@)]
              \/ /\ p.from # n
                 /\ wire' = [Transmit(n, ack, ok) EXCEPT ![n] = Tail(@)]
                 /\ UNCHANGED unAckedMessages
           /\ receivedMessages' =
                IF Redundant(n, p.from, p.timeStamp) THEN receivedMessages
                ELSE [receivedMessages EXCEPT
                        ![n] = Append(@, [from |-> p.from, timeStamp |-> p.timeStamp,
                                          data |-> Tail(p.data)])]
    /\ UNCHANGED <<clock, sent, sendCounters, resendCounters, resend>>

-----------------------------------------------------------------------------
Receive(n, ok) == Discard(n) \/ ReceiveAck(n) \/ ReceiveRequest(n, ok)

ResendStep(n) ==
    \/ ResendStart(n)
    \/ \E j \in 1..Len(unAckedMessages[n]) : ResendPick(n, j)
    \/ \E ok \in BOOLEAN : ResendSend(n, ok)
    \/ ResendReturn(n)
    \/ ResendEnd(n)

Next ==
    \E n \in Node :
        \/ \E to \in Node, ok \in BOOLEAN : Send(n, to, ok)
        \/ \E ok \in BOOLEAN : Receive(n, ok)
        \/ ResendStep(n)

Spec == Init /\ [][Next]_vars

\* The threads of a node run, and unAckedMessagesLock is handed to the thread
\* that waits for it (HandOff in module Synch).  A message that stays on the list is due in some
\* round, and of the packets that are transmitted again and again (a message
\* by the resend thread, its ACK by the receiver) not all are lost: the network
\* drops each with the same probability, less than 1.
Fairness ==
    /\ \A n \in Node :
        /\ SF_vars(\E ok \in BOOLEAN : Receive(n, ok))
        /\ WF_vars(ResendStep(n))
    /\ \A timeStamp \in 1..MaxSends :
        /\ SF_vars(\E n \in Node : \E j \in 1..Len(unAckedMessages[n]) :
                      /\ unAckedMessages[n][j].timeStamp = timeStamp
                      /\ ResendPick(n, j))
        /\ SF_vars(\E n \in Node : /\ resend[n].msg.timeStamp = timeStamp
                                   /\ ResendSend(n, TRUE))
        /\ SF_vars(\E n \in Node : /\ wire[n] # <<>>
                                   /\ Head(wire[n]).timeStamp = timeStamp
                                   /\ ReceiveRequest(n, TRUE))

FairSpec == Spec /\ Fairness

-----------------------------------------------------------------------------
(* Properties *)

\* Every variable keeps its type.
TypeOK ==
    /\ clock \in 0..MaxSends
    /\ sent \subseteq [from : Node, to : Node, timeStamp : 1..MaxSends, data : {<<REQUEST>>}]
    /\ \A n \in Node :
        /\ \A i \in 1..Len(wire[n]) :
            /\ wire[n][i].from \in Node
            /\ wire[n][i].timeStamp \in 1..clock
            /\ wire[n][i].data[1] \in -1..(clock + MaxRenumbers)
            /\ Len(wire[n][i].data) >= 2
        /\ \A i \in 1..Len(unAckedMessages[n]) :
            /\ unAckedMessages[n][i].to \in Node
            /\ unAckedMessages[n][i].timeStamp \in 1..clock
        /\ \A m \in Node :
            /\ sendCounters[n][m] \in -1..(clock - 1)
            /\ resendCounters[n][m] \in -1..(MaxRenumbers - 1)
            /\ receiveCounters[n][m] \in -1..(clock + MaxRenumbers)
        /\ resend[n].pc \in {"idle", "scan", "calling", "sending"}

Accepted(n, m) ==
    \E i \in 1..Len(receivedMessages[n]) :
        /\ receivedMessages[n][i].from = m.from
        /\ receivedMessages[n][i].timeStamp = m.timeStamp

\* A message leaves the sender's list only after the receiver has accepted it,
\* so it is resent until then.
AckedWasReceived ==
    \A m \in sent :
        Matches(m.from, m.to, m.timeStamp) = {} => Accepted(m.to, m)

\* A network thread accepts every message once, and with the text it was sent
\* with: what the resend thread renumbers by mistake is never accepted.
ReceivedAsSent ==
    \A n \in Node : \A i \in 1..Len(receivedMessages[n]) :
        LET r == receivedMessages[n][i] IN
        /\ [from |-> r.from, to |-> n, timeStamp |-> r.timeStamp, data |-> r.data] \in sent
        /\ \A j \in 1..Len(receivedMessages[n]) :
              receivedMessages[n][j].from = r.from
                 /\ receivedMessages[n][j].timeStamp = r.timeStamp => j = i

\* The first message a thread sent to another.
IsFirst(k) ==
    \A m \in sent : m.from = k.from /\ m.to = k.to => k.timeStamp <= m.timeStamp

\* The first message that is accepted from a thread is the first it sent: the
\* one place where the counters do keep order.
FirstInOrder ==
    \A k, m \in sent :
        /\ IsFirst(k) /\ m.from = k.from /\ m.to = k.to
        /\ Accepted(m.to, m)
        => Accepted(k.to, k)

\* The counters and lists of PostOffice::Send and Receive keep their shape while
\* messages are renumbered, and the first message of a thread is not overtaken.
CountersSound == TypeOK /\ FirstInOrder

\* Every message that is sent is accepted in the end, and the lists of
\* unacknowledged messages run empty, however many packets are lost.
EventuallyReceived ==
    \A n, to \in Node, ts \in 1..MaxSends :
        [from |-> n, to |-> to, timeStamp |-> ts, data |-> <<REQUEST>>] \in sent
            ~> Accepted(to, [from |-> n, timeStamp |-> ts])

EventuallyAcked ==
    \A n \in Node : []<>(unAckedMessages[n] = <<>>)

\* The comment in PostOffice::Receive: a message whose counter is not the next
\* is ignored `so we receive it in order' (post.cc:461-462).
InOrder ==
    \A n \in Node : \A i, j \in 1..Len(receivedMessages[n]) :
        /\ i < j
        /\ receivedMessages[n][i].from = receivedMessages[n][j].from
        => receivedMessages[n][i].timeStamp < receivedMessages[n][j].timeStamp

=============================================================================
