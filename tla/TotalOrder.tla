----------------------------- MODULE TotalOrder -----------------------------
(***************************************************************************)
(* The total ordering of messages in the loop of NetworkThread             *)
(* (threads/system.cc): the table of last time stamps, the queue of        *)
(* messages in the order of their stamps, and the TIMESTAMP messages that  *)
(* keep the tables moving.                                                 *)
(*                                                                         *)
(* The members of the group have registered and know each other in the     *)
(* same order.  Between two members messages are neither lost nor          *)
(* reordered, but take any time: PostOffice says when the code provides    *)
(* that.  All members read one clock, the host's.                          *)
(*                                                                         *)
(* Of processMessage only the traffic is kept: a create request of the     *)
(* user program is broadcast as a VERIFY message to the other members and  *)
(* each of them answers.  A user program waits for its answers.            *)
(***************************************************************************)
EXTENDS Integers, Sequences, SequencesExt, FiniteSetsExt

CONSTANTS N,             \* number of network threads in the group
          MaxRequests,   \* bound: requests of all user programs together
          Requesters,    \* bound: the members whose user programs make them
          Uninitialised  \* what a new NetThreadInfoEntry may have as timeStamp

Member == 1..N

ASSUME GroupAssumption ==
    /\ N \in Nat \ {0}
    /\ MaxRequests \in Nat
    /\ Requesters \subseteq Member
    /\ Uninitialised \subseteq Nat

VARIABLES
    clock,       \* gettimeofday at the last Send
    mail,        \* messages on their way, from each member to each other
    out,         \* what each thread still has to send, or to count, in this
                 \* iteration of its loop
    timeStamps,  \* localNetThreadInfo of each thread: last stamp by member
    msgQueue,    \* of each thread
    processed,   \* history: what each thread passes to processMessage
    heard,       \* history: the members whose stamps a thread has recorded
    requests,    \* number of requests made so far
    waiting,     \* number of answers each user program waits for
    halted       \* threads whose loop is ended by an exception

vars == <<clock, mail, out, timeStamps, msgQueue, processed, heard, requests,
          waiting, halted>>

Init ==
    /\ clock = 0
    /\ mail = [m \in Member |-> [k \in Member |-> <<>>]]
    /\ out = [m \in Member |-> <<>>]
    /\ timeStamps \in [Member -> [Member -> Uninitialised]]
    /\ msgQueue = [m \in Member |-> <<>>]
    /\ processed = [m \in Member |-> <<>>]
    /\ heard = [m \in Member |-> {}]
    /\ requests = 0
    /\ waiting = [m \in Member |-> 0]
    /\ halted = {}

-----------------------------------------------------------------------------
\* Mutant: nobody is told that the clock has advanced.
NoTimeStampMessages == <<>>

\* sendTimeStampMessage: to every member, the thread itself included.
TimeStampMessages ==
    [k \in Member |-> [to |-> k, type |-> "TIMESTAMP"]]

\* CreateVerify: to every member but the thread itself.
VerifyMessages(m) ==
    [i \in 1..(N - 1) |-> [to |-> IF i < m THEN i ELSE i + 1, type |-> "VERIFY"]]

\* A request of the user program of m: NetworkThread announces its time, then
\* processMessage broadcasts.
UserRequest(m) ==
    /\ m \in Requesters \ halted
    /\ out[m] = <<>>
    /\ waiting[m] = 0
    /\ requests < MaxRequests
    /\ requests' = requests + 1
    /\ waiting' = [waiting EXCEPT ![m] = N - 1]
    /\ out' = [out EXCEPT ![m] = TimeStampMessages \o VerifyMessages(m)]
    /\ UNCHANGED <<clock, mail, timeStamps, msgQueue, processed, heard, halted>>

\* PostOffice::Send of the next message of this iteration.  Each call reads the
\* clock again, so the copies of one broadcast differ in their stamps.  What an
\* iteration sends, it sends before step 5 may end it.
Transmit(m) ==
    /\ out[m] # <<>>
    /\ Head(out[m]).type # "COUNT"
    /\ LET msg == Head(out[m]) IN
         mail' = [mail EXCEPT ![m][msg.to] =
                    Append(@, [from |-> m, type |-> msg.type, timeStamp |-> clock + 1])]
    /\ clock' = clock + 1
    /\ out' = [out EXCEPT ![m] = Tail(@)]
    /\ UNCHANGED <<timeStamps, msgQueue, processed, heard, requests, waiting, halted>>

\* processMessage on an answer to the request of the user program.
Count(m) ==
    /\ out[m] # <<>>
    /\ Head(out[m]).type = "COUNT"
    /\ waiting' = [waiting EXCEPT ![m] = @ - 1]
    /\ out' = [out EXCEPT ![m] = Tail(@)]
    /\ UNCHANGED <<clock, mail, timeStamps, msgQueue, processed, heard, requests, halted>>

-----------------------------------------------------------------------------
(* The steps of the ordering, as they are numbered in NetworkThread *)

\* The first message of the queue with a stamp later than this one; the place
\* after the last message when there is none.
FirstLater(queue, stamp) ==
    Min({i \in 1..Len(queue) : queue[i].timeStamp > stamp} \cup {Len(queue) + 1})

\* Mutant: the comparison of stamps is the wrong way round.
InsertBackwards(queue, msg) ==
    LET earlier == {i \in 1..Len(queue) : queue[i].timeStamp < msg.timeStamp}
    IN  InsertAt(queue, Min(earlier \cup {Len(queue) + 1}), msg)

\* Step 3: the message goes in front of the first one with a later stamp.
Insert(queue, msg) == InsertAt(queue, FirstLater(queue, msg.timeStamp), msg)

\* Mutant: the latest stamp instead of the earliest.
Latest(table) == Max({table[k] : k \in Member})

\* Step 4: the earliest stamp of the table.  A stamp 0 is skipped, except in
\* the first entry.
Earliest(table) ==
    Min({table[1]} \cup {table[k] : k \in {k \in 2..N : table[k] > 0}})

\* Step 5: what may be processed.  The queue is in order, so these are the
\* messages in front of the first one that is too late.  The loop tests entry i
\* of the table along with message i of the queue; as what is processed leaves
\* the queue, i is 0 whenever a message is early enough, and entry 0 is then
\* not 0, or no message would be.
Stable(queue, earliest) == SubSeq(queue, 1, FirstLater(queue, earliest) - 1)

Unstable(queue, earliest) ==
    SubSeq(queue, FirstLater(queue, earliest), Len(queue))

\* processMessage on each of them: a VERIFY is answered, an answer is counted.
Work(msgs) ==
    [i \in 1..Len(msgs) |->
        [to |-> msgs[i].from,
         type |-> IF msgs[i].type = "VERIFY" THEN "ANSWER" ELSE "COUNT"]]

\* An iteration of NetworkThread on a message of another network thread, or of
\* its own.  The loop of step 5 goes through all that stays in the queue, and
\* at(i) throws when that is longer than the table.
Receive(m, k) ==
    /\ m \notin halted
    /\ out[m] = <<>>
    /\ mail[k][m] # <<>>
    /\ LET msg == Head(mail[k][m])
           table == [timeStamps[m] EXCEPT ![k] = msg.timeStamp]
           queue == IF msg.type = "TIMESTAMP" THEN msgQueue[m]
                    ELSE Insert(msgQueue[m], msg)
           stable == Stable(queue, Earliest(table))
           rest == Unstable(queue, Earliest(table))
           sure == heard[m] \cup {k} = Member
       IN  /\ timeStamps' = [timeStamps EXCEPT ![m] = table]
           /\ heard' = [heard EXCEPT ![m] = @ \cup {k}]
           /\ msgQueue' = [msgQueue EXCEPT ![m] = rest]
           /\ processed' = [processed EXCEPT ![m] =
                 @ \o [i \in 1..Len(stable) |-> [msg |-> stable[i], sure |-> sure]]]
           /\ out' = [out EXCEPT ![m] =
                 (IF msg.type = "TIMESTAMP" THEN <<>> ELSE TimeStampMessages)
                    \o Work(stable)]
           /\ halted' = IF Len(rest) > N THEN halted \cup {m} ELSE halted
    /\ mail' = [mail EXCEPT ![k][m] = Tail(@)]
    /\ UNCHANGED <<clock, requests, waiting>>

Next ==
    \E m \in Member :
        \/ UserRequest(m)
        \/ Transmit(m)
        \/ Count(m)
        \/ \E k \in Member : Receive(m, k)

Spec == Init /\ [][Next]_vars

\* A thread goes on with its iteration, and the mailbox is a queue: a message that has
\* arrived is received after those before it.
FairSpec ==
    /\ Spec
    /\ \A m \in Member : WF_vars(Transmit(m) \/ Count(m))
    /\ \A m, k \in Member : SF_vars(Receive(m, k))

-----------------------------------------------------------------------------
Stamp == 1..clock

\* What is on the network, and what a thread has to do about it.
Packet == [from : Member, type : {"TIMESTAMP", "VERIFY", "ANSWER"}, timeStamp : Stamp]

Task == [to : Member, type : {"TIMESTAMP", "VERIFY", "ANSWER", "COUNT"}]

\* The state of the threads keeps the shape the code gives it; no user program
\* gets more answers than it waits for.
TypeOK ==
    /\ clock \in Nat
    /\ mail \in [Member -> [Member -> Seq(Packet)]]
    /\ out \in [Member -> Seq(Task)]
    /\ timeStamps \in [Member -> [Member -> Uninitialised \cup Stamp]]
    /\ msgQueue \in [Member -> Seq(Packet)]
    /\ processed \in [Member -> Seq([msg : Packet, sure : BOOLEAN])]
    /\ heard \in [Member -> SUBSET Member]
    /\ requests \in 0..MaxRequests
    /\ waiting \in [Member -> 0..(N - 1)]
    /\ halted \subseteq Member

\* Steps 2 to 5 of NetworkThread: once a thread has heard from every member,
\* what it passes to processMessage is earlier than everything it will pass
\* there afterwards, in the queue and on the way.
OrderedOnceHeard ==
    \A m \in Member : \A i \in 1..Len(processed[m]) :
        processed[m][i].sure =>
            /\ \A j \in (i + 1)..Len(processed[m]) :
                  processed[m][i].msg.timeStamp < processed[m][j].msg.timeStamp
            /\ \A j \in 1..Len(msgQueue[m]) :
                  processed[m][i].msg.timeStamp < msgQueue[m][j].timeStamp

\* No user program gets more answers than it waits for, and what NetworkThread
\* passes on is in order once it has heard from everybody.
OrderSound == TypeOK /\ OrderedOnceHeard

\* WRITEUP: "Messages from a single group member are received in timestamp
\* order": processMessage is called with the messages of one member in the
\* order of their stamps, whatever the table says about the others.
MemberOrder ==
    \A m \in Member : \A i, j \in 1..Len(processed[m]) :
        i < j /\ processed[m][i].msg.from = processed[m][j].msg.from =>
            processed[m][i].msg.timeStamp < processed[m][j].msg.timeStamp

\* WRITEUP: the network thread replies "Immediately for: CreateLock, ...": the
\* answers a request needs are all passed to processMessage in the end.
EventuallyAnswered == \A m \in Member : (waiting[m] > 0) ~> (waiting[m] = 0)

\* The same for groups whose state space is too large for a liveness check:
\* when no message is on its way and none is to be sent, no answer is missing.
AnsweredWhenQuiet ==
    (\A m \in Member : out[m] = <<>> /\ \A k \in Member : mail[k][m] = <<>>)
        => \A m \in Member : waiting[m] = 0

=============================================================================
