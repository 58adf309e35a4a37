-------------------------- MODULE DistributedLocks --------------------------
(***************************************************************************)
(* The locks, condition variables and monitor variables that network       *)
(* threads keep for user programs on several machines (network/netcall.cc).*)
(* Each network thread serves one user program, and owns what was created  *)
(* through it; the network threads of one machine share its tables.        *)
(*                                                                         *)
(* A call of processMessage is one step.  What Send gives to the post      *)
(* office reaches a mailbox once and, from one sender, in order; a mailbox *)
(* that nobody reads, or a machine that does not run, loses it.  A text    *)
(* that is only a number is read as the number of a request type when a    *)
(* network thread receives it.                                             *)
(***************************************************************************)
EXTENDS Integers, Sequences, SequencesExt, FiniteSets, FiniteSetsExt

CONSTANTS Members,     \* bound: network threads in a group
          Machine,     \* machines they may run on
          Name,        \* names that user programs create things under
          Value,       \* values that user programs give to monitor variables
          Junk,        \* what an uninitialised variable may hold, plus one
          Capacity,    \* bound: objects of a kind that a table takes
          MaxRequests, \* bound: calls of the user programs together
          MaxOthers,   \* bound: those of them that are not about locks
          None         \* no client, no call

\* The requests that user programs make.
LockCalls == {"CREATELOCK", "ACQUIRE", "RELEASE", "DESTROYLOCK"}
CallTypes == LockCalls \cup {"CREATECV", "CREATEMV", "GETMV", "SETMV", "DESTROYMV",
                            "DESTROYCV", "WAIT", "SIGNAL", "BROADCAST"}

ASSUME DistributedLocksAssumption ==
    /\ Members \in Nat \ {0}
    /\ 0 \in Machine /\ Machine \subseteq 0..9
    /\ Value \subseteq Nat
    /\ Junk \subseteq Nat
    /\ Capacity \in 1..2   \* the numbers of CREATELOCK and ACQUIRE are 0 and 1
    /\ MaxRequests \in Nat /\ MaxOthers \in Nat
    /\ None \notin CallTypes

VARIABLES
    mach,      \* the machine of each network thread
    server,    \* dlocks, cvs, mvs and the index of the next entry, by machine
    client,    \* the arrays over client numbers that the machines keep
    netMail,   \* mailbox of each network thread
    userMail,  \* mailbox of each user program
    request,   \* the call each user program waits in
    requests,  \* number of calls made so far
    others,    \* number of those that are not about locks
    clock,     \* gettimeofday
    ended      \* machines whose program has aborted

locksVars == <<mach, server, client, netMail, userMail, request, requests, others, clock,
               ended>>

Thread == DOMAIN mach

\* serverCount: every thread has registered before the first call is made.
serverCount == Len(mach)

-----------------------------------------------------------------------------
(* Addresses and numbers *)

\* Threads get the mailboxes of their machine in pairs: network, user program.
Box(n) == 2 * Cardinality({k \in 1..n - 1 : mach[k] = mach[n]})
NetAddress(n) == <<mach[n], Box(n)>>
UserAddress(n) == <<mach[n], Box(n) + 1>>

uniqueGlobalID(n) == 100 * mach[n] + Box(n)

\* Division and remainder of C: a client number may be negative.
NetOf(c) == <<IF c < 0 THEN 0 ELSE c \div 100, (c + 100) % 100>>
UserOf(c) == <<NetOf(c)[1], NetOf(c)[2] + 1>>

Multiple == [lock |-> 100, cv |-> 100, mv |-> 500]   \* MAX_DLOCK, MAX_DCV, MAX_DMV
MAX_NUM_GLOBAL_IDS == 1000
ACK == 29
INVALIDTYPE == 31
NO == 0
MAYBE == 1
YES == 2
NoOwner == <<-1, -1>>

Owner(kind, id) == id \div Multiple[kind]
IsOwn(n, kind, id) == Owner(kind, id) = uniqueGlobalID(n)
InRange(kind, id) == id \in 0..MAX_NUM_GLOBAL_IDS * Multiple[kind] - 1

-----------------------------------------------------------------------------
(* What a machine keeps for a client number *)

\* The arrays are zero at first.
NewClient ==
    [lockName |-> "", localLockIndex |-> 0, verifyResponses |-> 0,
     verifyBuffer |-> <<>>, lockCreationState |-> NO, lockCreationTimeStamp |-> 0]

\* Objects that live in the tables, by their index.
NewServer == [kind \in DOMAIN Multiple |-> [next |-> 0, at |-> <<>>]]

Placements == {m \in UNION {[1..k -> Machine] : k \in 1..Members} : m[1] = 0}

LocksInit ==
    /\ mach \in Placements
    /\ server = [m \in Machine |-> NewServer]
    /\ client = [m \in Machine |-> <<>>]
    /\ netMail = [n \in Thread |-> <<>>]
    /\ userMail = [n \in Thread |-> <<>>]
    /\ request = [n \in Thread |-> None]
    /\ requests = 0
    /\ others = 0
    /\ clock = 0
    /\ ended = {}

-----------------------------------------------------------------------------
(* A call of processMessage works on the tables and arrays of its machine   *)
(* and sends to mailboxes.  It begins when message i has been received.     *)

State(n, i) ==
    [tab |-> server[mach[n]], arr |-> client[mach[n]], clock |-> clock,
     netMail |-> [netMail EXCEPT ![n] = RemoveAt(@, i)], userMail |-> userMail,
     ended |-> FALSE]

\* A table or an array, with one entry assigned.
Assign(f, k, v) == [i \in DOMAIN f \cup {k} |-> IF i = k THEN v ELSE f[i]]

Abort(s) == [s EXCEPT !.ended = TRUE]

Client(s, c) == IF c \in DOMAIN s.arr THEN s.arr[c] ELSE NewClient
SetClient(s, c, r) == [s EXCEPT !.arr = Assign(@, c, r)]

Object(s, kind, k) == s.tab[kind].at[k]
Has(s, kind, k) == k \in DOMAIN s.tab[kind].at
PutObject(s, kind, k, object) == [s EXCEPT !.tab[kind].at = Assign(@, k, object)]

\* The text is what parseValue, atoi and the handlers read of it.
Letter(n, from, type, c, arg) ==
    [type |-> type, client |-> c, arg |-> arg, from |-> <<mach[n], from>>, via |-> n]

Reached(mail, address, to, msg) ==
    [k \in Thread |-> IF address[k] \in to THEN Append(mail[k], msg) ELSE mail[k]]

\* Send, to each of some addresses.  PostOffice::Send asserts that the mailbox
\* exists.
Send(s, to, msg) ==
    LET boxes == {address \in to : address[2] \in 0..99}
    IN  [s EXCEPT !.netMail = Reached(@, [k \in Thread |-> NetAddress(k)], boxes, msg),
                  !.userMail = Reached(@, [k \in Thread |-> UserAddress(k)], boxes, msg),
                  !.ended = @ \/ boxes # to]

Post(s, n, from, to, type, c, arg) == Send(s, {to}, Letter(n, from, type, c, arg))

\* A reply is a number.
Reply(s, n, from, to, value) == Post(s, n, from, to, "REPLY", None, <<value>>)

ReplyToUser(s, n, c, value) == Reply(s, n, Box(n), UserOf(c), value)
ReplyToOwnUser(s, n, value) == Reply(s, n, Box(n), UserAddress(n), value)
ReplyToNet(s, n, c, value) == Reply(s, n, mach[n], NetOf(c), value)

\* CreateVerify: to every thread of the group but the sender.
CreateVerify(s, n, type, c, arg) ==
    LET sent == Send(s, {NetAddress(k) : k \in Thread \ {n}},
                     Letter(n, Box(n), type, c, arg))
    IN  SetClient(sent, c, [Client(sent, c) EXCEPT !.verifyResponses = 0])

\* The client of a message: the one it names after two underscores, or else
\* its sender, taken for a user program.
clientNum(msg) ==
    IF msg.client = None THEN 100 * msg.from[1] + msg.from[2] - 1 ELSE msg.client

-----------------------------------------------------------------------------
(* Creation *)

\* The lookups run over the entries below the next one; an entry that was
\* deleted is a null pointer for strcmp.
Holes(s, kind) == (0..s.tab[kind].next - 1) \ DOMAIN s.tab[kind].at

Named(s, kind, name) ==
    {k \in (0..s.tab[kind].next - 1) \ Holes(s, kind) :
        Object(s, kind, k).name = name}

\* A lookup that stops at the first match meets only the holes before it.
StopsBefore(s, kind, name) ==
    \/ Holes(s, kind) = {}
    \/ /\ Named(s, kind, name) # {}
       /\ Min(Named(s, kind, name)) < Min(Holes(s, kind))

\* Constructors of DistributedLock, DistributedCV and DistributedMV.  The
\* value of a monitor variable is not initialised.
New(kind, name, id, junk) ==
    CASE kind = "lock" -> [name |-> name, globalId |-> id, free |-> TRUE,
                           owner |-> NoOwner, waitQueue |-> <<>>]
      [] kind = "cv" -> [name |-> name, globalId |-> id, firstLock |-> 0,
                         waitQueue |-> <<>>]
      [] kind = "mv" -> [name |-> name, globalId |-> id, value |-> junk - 1]

\* Creates the next object of a kind; its number is the owner's and the index.
Create(s, n, kind, name, junk) ==
    LET k == s.tab[kind].next
        id == uniqueGlobalID(n) * Multiple[kind] + k
    IN  [PutObject(s, kind, k, New(kind, name, id, junk)) EXCEPT !.tab[kind].next = k + 1]

LastId(s, kind) == Object(s, kind, s.tab[kind].next - 1).globalId

\* The counters are reset once the client has its answer.
Done(s, c) ==
    SetClient(s, c, [Client(s, c) EXCEPT !.verifyResponses = 0, !.localLockIndex = -1])

\* Mutant: indices count from 1.
FullOffByOne(s, kind) == s.tab[kind].next \notin 1..Capacity

\* The limit is looked at when the request arrives, not when the object is made.
TableFull(s, kind) == s.tab[kind].next \notin 0..Capacity - 1

\* Who gets the number of a new object: the user program of the client, for a
\* condition variable the client's network thread, for a monitor variable the
\* thread's own user program.
ReplyCreated(s, n, kind, c, id) ==
    CASE kind = "lock" -> ReplyToUser(s, n, c, id)
      [] kind = "cv" -> ReplyToNet(s, n, c, id)
      [] kind = "mv" -> ReplyToOwnUser(s, n, id)

\* What the three create requests share, once the lookup has found an index.
CreateRequest(s, n, kind, c, name, found, verify, junk) ==
    LET noted == SetClient(s, c, [Client(s, c) EXCEPT !.lockName = name,
                                                     !.localLockIndex = found])
    IN  IF found # -1 THEN Done(ReplyCreated(noted, n, kind, c, Object(s, kind, found).globalId), c)
        ELSE IF serverCount > 1 THEN CreateVerify(noted, n, verify, c, <<name>>)
        ELSE LET made == Create(noted, n, kind, name, junk)
             IN  Done(ReplyCreated(made, n, kind, c, LastId(made, kind)), c)

CreateLockRequest(s, n, msg, junk) ==
    LET c == clientNum(msg)
        name == msg.arg[1]
        found == Max(Named(s, "lock", name) \cup {-1})
        asked == IF found # -1 \/ serverCount = 1 THEN s
                 ELSE [SetClient(s, c, [Client(s, c) EXCEPT
                          !.lockCreationState = MAYBE,
                          !.lockCreationTimeStamp = s.clock + 1])
                       EXCEPT !.clock = @ + 1]
    IN  IF TableFull(s, "lock") THEN s
        ELSE IF Holes(s, "lock") # {} THEN Abort(s)
        ELSE CreateRequest(asked, n, "lock", c, name, found, "CREATELOCKVERIFY", junk)

CreateCVRequest(s, n, msg, junk) ==
    LET c == clientNum(msg)
        found == Max(Named(s, "cv", msg.arg[1]) \cup {-1})
    IN  IF TableFull(s, "cv") THEN s
        ELSE IF Holes(s, "cv") # {} THEN Abort(s)
        ELSE CreateRequest(s, n, "cv", c, msg.arg[1], found, "CREATECVVERIFY", junk)

CreateMVRequest(s, n, msg, junk) ==
    LET c == clientNum(msg)
        named == Named(s, "mv", msg.arg[1])
        found == IF named = {} THEN -1 ELSE Min(named)
    IN  IF TableFull(s, "mv") THEN s
        ELSE IF ~StopsBefore(s, "mv", msg.arg[1]) THEN Abort(s)
        ELSE CreateRequest(s, n, "mv", c, msg.arg[1], found, "CREATEMVVERIFY", junk)

\* A thread that is creating a lock itself answers MAYBE, with the time at
\* which it last began to create one.  It looks at the state of the client who
\* asks, so only a thread that shares the asking thread's machine does so.
AnswerLockVerify(s, n, msg, junk) ==
    LET c == msg.client
        named == Named(s, "lock", msg.arg[1])
        Answer(arg) == Post(s, n, Box(n), msg.from, "CREATELOCKANSWER", c, arg)
    IN  IF ~StopsBefore(s, "lock", msg.arg[1]) THEN Abort(s)
        ELSE IF Client(s, c).lockCreationState = MAYBE
             THEN Answer(<<MAYBE, Client(s, uniqueGlobalID(n)).lockCreationTimeStamp>>)
        ELSE IF named = {} THEN Answer(<<NO>>)
        ELSE Answer(<<YES, Object(s, "lock", Min(named)).globalId>>)

\* The name is copied to an index that was never set: unless that is 0, the
\* lookup is for another name.
AnswerCVVerify(s, n, msg, junk) ==
    LET named == IF junk = 1 THEN Named(s, "cv", msg.arg[1]) ELSE {}
        id == IF named = {} THEN -1 ELSE Object(s, "cv", Max(named)).globalId
    IN  IF Holes(s, "cv") # {} THEN Abort(s)
        ELSE Post(s, n, mach[n], msg.from, "CREATECVANSWER", msg.client, <<id>>)

AnswerMVVerify(s, n, msg, junk) ==
    LET named == IF junk = 1 THEN Named(s, "mv", msg.arg[1]) ELSE {}
        id == IF named = {} THEN -1 ELSE Object(s, "mv", Min(named)).globalId
    IN  IF (named = {} /\ Holes(s, "mv") # {}) \/ ~StopsBefore(s, "mv", msg.arg[1])
        THEN Abort(s)
        ELSE Post(s, n, mach[n], msg.from, "CREATEMVANSWER", msg.client, <<id>>)

\* The text in a slot of verifyBuffer.
AnswerIn(r, slot) == IF slot \in DOMAIN r.verifyBuffer THEN r.verifyBuffer[slot] ELSE <<0>>

\* YES: another thread owns the lock.  An entry with its number is made, but
\* not counted.
KnownElsewhere(s, n, c, id, junk) ==
    LET r == Client(s, c)
        k == s.tab.lock.next
        made == PutObject(s, "lock", k, New("lock", r.lockName, id, junk))
    IN  SetClient(ReplyToOwnUser(made, n, id), c,
                  [r EXCEPT !.lockCreationState = YES, !.verifyResponses = @ + 1])

\* NO or MAYBE: counted if the answer is younger than the request; a NO carries
\* no time.  The last one creates the lock and tells the others.
NotElsewhere(s, n, c, stamp, junk) ==
    LET r == [Client(s, c) EXCEPT !.verifyResponses = @ + 1]
        counted == SetClient(s, c, r)
        made == Create(SetClient(s, c, [r EXCEPT !.lockCreationState = YES]),
                       n, "lock", r.lockName, junk)
        told == CreateVerify(made, n, "CREATELOCKANSWER", c, <<YES, LastId(made, "lock")>>)
    IN  IF Client(s, c).lockCreationTimeStamp >= stamp THEN s
        ELSE IF r.verifyResponses # serverCount - 1 THEN counted
        ELSE SetClient(ReplyToOwnUser(told, n, LastId(made, "lock")), c,
                       [Client(told, c) EXCEPT !.localLockIndex = -1])

\* The answer is stored in the slot of this thread's own client and read from
\* the slot of the client it names.
LockAnswer(s, n, msg, junk) ==
    LET c == msg.client
        slot == Client(s, uniqueGlobalID(n)).verifyResponses
        r == [Client(s, c) EXCEPT !.verifyBuffer = Assign(@, slot, msg.arg)]
        stored == SetClient(s, c, r)
        answer == AnswerIn(r, r.verifyResponses)
        number == IF Len(answer) > 1 THEN answer[2] ELSE 0
    IN  IF r.localLockIndex # -1 THEN stored
        ELSE IF answer[1] = YES THEN KnownElsewhere(stored, n, c, number, junk)
        ELSE IF answer[1] \in {NO, MAYBE} THEN NotElsewhere(stored, n, c, number, junk)
        ELSE stored

\* The first answer that is not -1 names the object.  The answers are stored
\* at an index that was never set: unless that is 0, the slot keeps its text.
CollectAnswer(s, n, kind, msg, junk) ==
    LET c == msg.client
        old == Client(s, c)
        r == [old EXCEPT !.verifyResponses = @ + 1,
                 !.verifyBuffer = IF junk = 1 THEN Assign(@, old.verifyResponses, msg.arg)
                                  ELSE @]
        counted == SetClient(s, c, r)
        positive == {i \in 0..serverCount - 2 : AnswerIn(r, i)[1] # -1}
        other == IF positive = {} THEN -1 ELSE AnswerIn(r, Min(positive))[1]
        made == Create(counted, n, kind, r.lockName, junk)
    IN  IF r.verifyResponses # serverCount - 1 THEN counted
        ELSE IF r.localLockIndex = -1 /\ other = -1
             THEN Done(ReplyToOwnUser(made, n, LastId(made, kind)), c)
        ELSE IF r.localLockIndex = -1 THEN Done(ReplyToOwnUser(counted, n, other), c)
        ELSE IF other # -1 THEN Done(ReplyToOwnUser(counted, n, -1), c)
        ELSE IF Has(s, kind, r.localLockIndex)
             THEN Done(ReplyToOwnUser(counted, n,
                           Object(s, kind, r.localLockIndex).globalId), c)
        ELSE Abort(s)

CVAnswer(s, n, msg, junk) == CollectAnswer(s, n, "cv", msg, junk)

MVAnswer(s, n, msg, junk) == CollectAnswer(s, n, "mv", msg, junk)

-----------------------------------------------------------------------------
(* Locks *)

\* Mutant: a lock is granted whoever holds it.
GrantAlways(s, k) == TRUE

IsFree(s, k) == Object(s, "lock", k).free

\* Mutant: nobody is taken from the queue.
OnlyFree(s, n, k) ==
    PutObject(s, "lock", k, [Object(s, "lock", k) EXCEPT !.free = TRUE, !.owner = NoOwner])

\* Frees the lock, and gives it to the first in its queue if there is one: the
\* reply that was made when the request was queued is sent.
HandOver(s, n, k) ==
    LET lock == Object(s, "lock", k)
        reply == Head(lock.waitQueue)
        given == PutObject(s, "lock", k, [lock EXCEPT !.free = FALSE, !.owner = reply.to,
                                                !.waitQueue = Tail(@)])
    IN  IF lock.waitQueue = <<>>
        THEN PutObject(s, "lock", k, [lock EXCEPT !.free = TRUE, !.owner = NoOwner])
        ELSE Reply(given, n, mach[n], reply.to, reply.value)

\* Acquire.  The reply to a client who must wait is addressed to its network
\* thread.
Acquire(s, n, c, id) ==
    LET k == id % Multiple["lock"]
        lock == Object(s, "lock", k)
        queued == [lock EXCEPT !.waitQueue =
                      Append(@, [to |-> NetOf(c), value |-> lock.globalId])]
        taken == [lock EXCEPT !.free = FALSE, !.owner = NetOf(c)]
    IN  IF ~InRange("lock", id) \/ ~Has(s, "lock", k) THEN s
        ELSE IF ~IsFree(s, k) THEN PutObject(s, "lock", k, queued)
        ELSE ReplyToUser(PutObject(s, "lock", k, taken), n, c, lock.globalId)

\* Release: by whoever asks.
Release(s, n, c, id) ==
    LET k == id % Multiple["lock"]
        lock == Object(s, "lock", k)
    IN  IF ~InRange("lock", id) \/ ~Has(s, "lock", k) THEN s
        ELSE HandOver(ReplyToUser(s, n, c, lock.globalId), n, k)

\* Mutant: the index of the next entry stays.
DeleteOnly(s, kind, k) == [s EXCEPT !.tab[kind].at = [i \in DOMAIN @ \ {k} |-> @[i]]]

\* Deletes an object and counts down the index of the next one.
Delete(s, kind, k) ==
    [s EXCEPT !.tab[kind].at = [i \in DOMAIN @ \ {k} |-> @[i]], !.tab[kind].next = @ - 1]

DestroyLock(s, n, c, id) ==
    LET k == id % Multiple["lock"]
    IN  IF ~InRange("lock", id) \/ ~Has(s, "lock", k) THEN s
        ELSE ReplyToUser(Delete(s, "lock", k), n, c, Object(s, "lock", k).globalId)

-----------------------------------------------------------------------------
(* Monitor variables *)

SetMV(s, n, c, id, value) ==
    LET k == id % Multiple["mv"]
    IN  IF ~InRange("mv", id) \/ ~Has(s, "mv", k) THEN s
        ELSE ReplyToUser(PutObject(s, "mv", k, [Object(s, "mv", k) EXCEPT !.value = value]),
                         n, c, 0)     \* atoi("SetMV[...")

GetMV(s, n, msg, id) ==
    LET k == id % Multiple["mv"]
        found == InRange("mv", id) /\ Has(s, "mv", k)
    IN  Reply(s, n, mach[n], msg.from, IF found THEN Object(s, "mv", k).value ELSE 999)

DestroyMV(s, n, c, id) ==
    LET k == id % Multiple["mv"]
    IN  IF ~InRange("mv", id) \/ ~Has(s, "mv", k) THEN s
        ELSE ReplyToNet(Delete(s, "mv", k), n, c, Object(s, "mv", k).globalId)

-----------------------------------------------------------------------------
(* Condition variables *)

HasOwner(s, k) == Object(s, "lock", k).owner # NoOwner

\* Wait on a lock of this thread.  With a condition variable of another thread
\* a WAITCV is sent; by then the number of the variable has been reduced to its
\* index, and both the machine and the mailbox are always 0.
Wait(s, n, msg, c, cv, id) ==
    LET k == id % Multiple["lock"]
        i == cv % Multiple["cv"]
        variable == Object(s, "cv", i)
        waiting == [variable EXCEPT
                       !.firstLock = IF variable.waitQueue = <<>> THEN id ELSE @,
                       !.waitQueue = Append(@, [to |-> NetOf(c), value |-> cv])]
    IN  IF ~InRange("lock", id) \/ ~InRange("cv", cv) \/ ~Has(s, "lock", k) THEN s
        ELSE IF ~HasOwner(s, k) THEN s
        ELSE IF ~IsOwn(n, "cv", cv)
             THEN Post(s, n, msg.from[2], <<0, 0>>, "WAITCV", None,
                       <<c, i + uniqueGlobalID(n) * Multiple["lock"], id>>)
        ELSE IF ~Has(s, "cv", i) THEN s
        ELSE HandOver(PutObject(s, "cv", i, waiting), n, k)

\* The first of the waiters asks for the lock again.  Its client number is
\* computed from the address of its network thread as if that were a user's.
WakeFirst(s, n, i, id) ==
    LET variable == Object(s, "cv", i)
        to == Head(variable.waitQueue).to
    IN  Acquire(PutObject(s, "cv", i, [variable EXCEPT !.waitQueue = Tail(@)]),
                n, 100 * to[1] + to[2] - 1, id)

\* firstLock is forgotten with the last waiter.
Forget(s, i) ==
    IF Object(s, "cv", i).waitQueue # <<>> THEN s
    ELSE PutObject(s, "cv", i, [Object(s, "cv", i) EXCEPT !.firstLock = -1])

\* Both objects are there, and somebody holds the lock.
CanSignal(s, i, k) == Has(s, "lock", k) /\ Has(s, "cv", i) /\ HasOwner(s, k)

\* Signal with a lock and a condition variable of this thread.
Signal(s, n, c, cv, id) ==
    LET k == id % Multiple["lock"]
        i == cv % Multiple["cv"]
        answered == ReplyToNet(s, n, c, i)
        variable == Object(s, "cv", i)
    IN  IF ~InRange("lock", id) \/ ~InRange("cv", cv) \/ ~CanSignal(s, i, k) THEN s
        ELSE IF variable.waitQueue = <<>> THEN Forget(answered, i)
        ELSE IF variable.firstLock # id THEN answered
        ELSE Forget(WakeFirst(answered, n, i, id), i)

\* The states as one waiter after the other is woken.
Woken(s, n, i, id, count) ==
    LET woken[j \in 0..count] == IF j = 0 THEN s ELSE WakeFirst(woken[j - 1], n, i, id)
    IN  woken

\* Broadcast takes the numbers of the first thread only, and compares the lock
\* of the first waiter only.
Broadcast(s, n, msg, cv, id) ==
    LET answered == Reply(s, n, mach[n], msg.from, cv)
        variable == Object(s, "cv", cv)
        woken == Woken(answered, n, cv, id, Len(variable.waitQueue))
    IN  IF id \notin 0..Multiple["lock"] - 1 \/ cv \notin 0..Multiple["cv"] - 1 THEN s
        ELSE IF ~CanSignal(s, cv, id) THEN s
        ELSE IF variable.waitQueue # <<>> /\ variable.firstLock # id THEN answered
        ELSE Forget(woken[Len(variable.waitQueue)], cv)

DestroyCV(s, n, c, id) ==
    LET i == id % Multiple["cv"]
    IN  IF ~InRange("cv", id) \/ ~Has(s, "cv", i) THEN s
        ELSE ReplyToNet(Delete(s, "cv", i), n, c, i)

-----------------------------------------------------------------------------
(* Requests on objects: those of another thread are forwarded, with the     *)
(* client, to the machine that has the owner's global number.               *)

\* The mailbox of a forwarded request is that of the user program beside the
\* one the request came to.
AcquireRequest(s, n, msg, junk) ==
    LET id == msg.arg[1]
        c == clientNum(msg)
    IN  IF IsOwn(n, "lock", id) THEN Acquire(s, n, c, id)
        ELSE Post(s, n, msg.from[2], <<Owner("lock", id), Box(n) + 1>>, "ACQUIRE", c, msg.arg)

\* The mailbox is one more than a variable that was not set.
ForwardAnywhere(s, n, kind, msg, junk) ==
    Post(s, n, msg.from[2], <<Owner(kind, msg.arg[1]), junk>>, msg.type,
         clientNum(msg), msg.arg)

\* The mailbox has the number of the machine.
ForwardToOwner(s, n, owner, msg, type) ==
    Post(s, n, msg.from[2], <<owner, owner>>, type, clientNum(msg), msg.arg)

ReleaseRequest(s, n, msg, junk) ==
    IF IsOwn(n, "lock", msg.arg[1]) THEN Release(s, n, clientNum(msg), msg.arg[1])
    ELSE ForwardAnywhere(s, n, "lock", msg, junk)

DestroyLockRequest(s, n, msg, junk) ==
    LET id == msg.arg[1]
    IN  IF IsOwn(n, "lock", id) THEN DestroyLock(s, n, clientNum(msg), id)
        ELSE ForwardToOwner(s, n, Owner("lock", id), msg, "DESTROYLOCK")

SetMVRequest(s, n, msg, junk) ==
    IF IsOwn(n, "mv", msg.arg[1])
    THEN SetMV(s, n, clientNum(msg), msg.arg[1], msg.arg[2])
    ELSE ForwardAnywhere(s, n, "mv", msg, junk)

GetMVRequest(s, n, msg, junk) ==
    IF IsOwn(n, "mv", msg.arg[1]) THEN GetMV(s, n, msg, msg.arg[1])
    ELSE ForwardAnywhere(s, n, "mv", msg, junk)

DestroyMVRequest(s, n, msg, junk) ==
    IF IsOwn(n, "mv", msg.arg[1]) THEN DestroyMV(s, n, clientNum(msg), msg.arg[1])
    ELSE ForwardAnywhere(s, n, "mv", msg, junk)

\* A wait on a lock of another thread is forwarded as a SIGNAL.
WaitRequest(s, n, msg, junk) ==
    LET id == msg.arg[2]
    IN  IF IsOwn(n, "lock", id) THEN Wait(s, n, msg, clientNum(msg), msg.arg[1], id)
        ELSE ForwardToOwner(s, n, Owner("lock", id), msg, "SIGNAL")

\* WAITCV names no client, so the numbers are read one field too early.  The
\* pointer to the name of the client is printed for the client.
WaitCVRequest(s, n, msg, junk) ==
    LET c == clientNum(msg)
        i == msg.arg[1] % Multiple["cv"]
        variable == Object(s, "cv", i)
        waiting == [variable EXCEPT
                       !.firstLock = IF variable.waitQueue = <<>> THEN msg.arg[2] ELSE @,
                       !.waitQueue = Append(@, [to |-> NetOf(c), value |-> msg.arg[1]])]
    IN  Post(IF Has(s, "cv", i) THEN PutObject(s, "cv", i, waiting) ELSE s,
             n, mach[n], NetOf(c), "WAITRESPONSE", None, <<>>)

\* ASSERT(false), as no WAITRESPONSE has the two underscores.
WaitResponse(s, n, msg, junk) == Abort(s)

\* ASSERT(false) for a SIGNAL that was not forwarded.
SignalRequest(s, n, msg, junk) ==
    LET cv == msg.arg[1]
    IN  IF msg.client = None THEN Abort(s)
        ELSE IF IsOwn(n, "cv", cv) THEN Signal(s, n, msg.client, cv, msg.arg[2])
        ELSE ForwardAnywhere(s, n, "cv", msg, junk)

BroadcastRequest(s, n, msg, junk) ==
    LET cv == msg.arg[1]
    IN  IF IsOwn(n, "cv", cv) THEN Broadcast(s, n, msg, cv, msg.arg[2])
        ELSE ForwardToOwner(s, n, Owner("cv", cv), msg, "BROADCAST")

DestroyCVRequest(s, n, msg, junk) ==
    LET cv == msg.arg[1]
    IN  IF IsOwn(n, "cv", cv) THEN DestroyCV(s, n, clientNum(msg), cv)
        ELSE ForwardToOwner(s, n, Owner("cv", cv), msg, "DESTROYCV")

\* A network thread that receives a number takes it for a request type: 0 is
\* CREATELOCK and 1 is ACQUIRE, with nothing after them.  The other numbers
\* that occur are those of no type.
NumberRequest(s, n, msg, junk) ==
    CASE msg.arg[1] = 0 -> CreateLockRequest(s, n, [msg EXCEPT !.arg = <<"">>], junk)
      [] msg.arg[1] = 1 -> AcquireRequest(s, n, [msg EXCEPT !.arg = <<0>>], junk)
      [] OTHER -> s

-----------------------------------------------------------------------------
(* The steps of network threads and user programs *)

Running(n) == mach[n] \notin ended

\* A message may overtake those of other senders only.
Deliverable(n) ==
    {i \in DOMAIN netMail[n] : \A j \in 1..i - 1 : netMail[n][j].via # netMail[n][i].via}

\* Network thread n has made s of its machine and of the mailboxes.
Handles(n, s) ==
    /\ server' = [server EXCEPT ![mach[n]] = s.tab]
    /\ client' = [client EXCEPT ![mach[n]] = s.arr]
    /\ clock' = s.clock
    /\ netMail' = s.netMail
    /\ userMail' = s.userMail
    /\ ended' = IF s.ended THEN ended \cup {mach[n]} ELSE ended
    /\ UNCHANGED <<mach, request, requests, others>>

\* Network thread n processes a message of one type; Effect is what
\* processMessage does to the machine.
ProcessMessage(n, type, Effect(_, _, _, _)) ==
    /\ Running(n)
    /\ \E i \in Deliverable(n) :
         /\ netMail[n][i].type = type
         /\ \E junk \in Junk :
              \E s \in {Effect(State(n, i), n, netMail[n][i], junk)} : Handles(n, s)

ProcessCreateLock(n) == ProcessMessage(n, "CREATELOCK", CreateLockRequest)
ProcessCreateLockVerify(n) == ProcessMessage(n, "CREATELOCKVERIFY", AnswerLockVerify)
ProcessCreateLockAnswer(n) == ProcessMessage(n, "CREATELOCKANSWER", LockAnswer)
ProcessCreateCV(n) == ProcessMessage(n, "CREATECV", CreateCVRequest)
ProcessCreateCVVerify(n) == ProcessMessage(n, "CREATECVVERIFY", AnswerCVVerify)
ProcessCreateCVAnswer(n) == ProcessMessage(n, "CREATECVANSWER", CVAnswer)
ProcessCreateMV(n) == ProcessMessage(n, "CREATEMV", CreateMVRequest)
ProcessCreateMVVerify(n) == ProcessMessage(n, "CREATEMVVERIFY", AnswerMVVerify)
ProcessCreateMVAnswer(n) == ProcessMessage(n, "CREATEMVANSWER", MVAnswer)
ProcessAcquire(n) == ProcessMessage(n, "ACQUIRE", AcquireRequest)
ProcessRelease(n) == ProcessMessage(n, "RELEASE", ReleaseRequest)
ProcessDestroyLock(n) == ProcessMessage(n, "DESTROYLOCK", DestroyLockRequest)
ProcessSetMV(n) == ProcessMessage(n, "SETMV", SetMVRequest)
ProcessGetMV(n) == ProcessMessage(n, "GETMV", GetMVRequest)
ProcessDestroyMV(n) == ProcessMessage(n, "DESTROYMV", DestroyMVRequest)
ProcessWait(n) == ProcessMessage(n, "WAIT", WaitRequest)
ProcessWaitCV(n) == ProcessMessage(n, "WAITCV", WaitCVRequest)
ProcessWaitResponse(n) == ProcessMessage(n, "WAITRESPONSE", WaitResponse)
ProcessSignal(n) == ProcessMessage(n, "SIGNAL", SignalRequest)
ProcessBroadcast(n) == ProcessMessage(n, "BROADCAST", BroadcastRequest)
ProcessDestroyCV(n) == ProcessMessage(n, "DESTROYCV", DestroyCVRequest)
ProcessNumber(n) == ProcessMessage(n, "REPLY", NumberRequest)

\* The numbers a user program can know.
Known(kind) ==
    {0} \cup UNION {{server[m][kind].at[k].globalId : k \in DOMAIN server[m][kind].at} :
                      m \in Machine}

\* The first half of Request: the call is sent to the own network thread, in
\* whose group everybody has registered.
Call(n, type, arg) ==
    /\ Running(n)
    /\ request[n] = None
    /\ requests < MaxRequests
    /\ requests' = requests + 1
    /\ others' = IF type \in LockCalls THEN others ELSE others + 1
    /\ others' <= MaxOthers
    /\ request' = [request EXCEPT ![n] = type]
    /\ netMail' = [netMail EXCEPT ![n] = Append(@,
            [type |-> type, client |-> None, arg |-> arg,
             from |-> UserAddress(n), via |-> 0])]
    /\ UNCHANGED <<mach, server, client, userMail, clock, ended>>

CallCreate(n) ==
    \E type \in {"CREATELOCK", "CREATECV", "CREATEMV"}, name \in Name :
        Call(n, type, <<name>>)
CallLock(n) ==
    \E type \in {"ACQUIRE", "RELEASE", "DESTROYLOCK"}, id \in Known("lock") :
        Call(n, type, <<id>>)
CallMV(n) ==
    \E id \in Known("mv") :
        \/ \E type \in {"GETMV", "DESTROYMV"} : Call(n, type, <<id>>)
        \/ \E value \in Value : Call(n, "SETMV", <<id, value>>)
CallCV(n) ==
    \E cv \in Known("cv") :
        \/ Call(n, "DESTROYCV", <<cv>>)
        \/ \E type \in {"WAIT", "SIGNAL", "BROADCAST"}, id \in Known("lock") :
              Call(n, type, <<cv, id>>)

\* The second half of Request: whatever has reached the mailbox of the user
\* program is the reply, except a number that is that of ACK or INVALIDTYPE.
TakeReply(n) ==
    /\ Running(n)
    /\ request[n] # None
    /\ userMail[n] # <<>>
    /\ LET msg == Head(userMail[n])
           again == msg.type = "REPLY" /\ msg.arg[1] \in {ACK, INVALIDTYPE}
       IN  request' = [request EXCEPT ![n] = IF again THEN @ ELSE None]
    /\ userMail' = [userMail EXCEPT ![n] = Tail(@)]
    /\ UNCHANGED <<mach, server, client, netMail, requests, others, clock, ended>>

Net(n) ==
    \/ ProcessCreateLock(n) \/ ProcessCreateLockVerify(n) \/ ProcessCreateLockAnswer(n)
    \/ ProcessCreateCV(n) \/ ProcessCreateCVVerify(n) \/ ProcessCreateCVAnswer(n)
    \/ ProcessCreateMV(n) \/ ProcessCreateMVVerify(n) \/ ProcessCreateMVAnswer(n)
    \/ ProcessAcquire(n) \/ ProcessRelease(n) \/ ProcessDestroyLock(n)
    \/ ProcessSetMV(n) \/ ProcessGetMV(n) \/ ProcessDestroyMV(n)
    \/ ProcessWait(n) \/ ProcessWaitCV(n) \/ ProcessWaitResponse(n)
    \/ ProcessSignal(n) \/ ProcessBroadcast(n) \/ ProcessDestroyCV(n)
    \/ ProcessNumber(n)

User(n) == CallCreate(n) \/ CallLock(n) \/ CallMV(n) \/ CallCV(n) \/ TakeReply(n)

LocksNext == \E n \in Thread : Net(n) \/ User(n)

LocksSpec == LocksInit /\ [][LocksNext]_locksVars

\* A network thread processes what reaches it, and a program that waits for a
\* reply takes it; nothing makes a program call.
LocksFairSpec ==
    /\ LocksSpec
    /\ \A n \in 1..Members :
          /\ WF_locksVars(n \in Thread /\ Net(n))
          /\ WF_locksVars(n \in Thread /\ TakeReply(n))

-----------------------------------------------------------------------------
(* Properties *)

\* Types.  The index of the next entry is a number and no more: creations that
\* were under way when the table was looked at push it past the limit, and
\* destructions of entries that were not counted push it below zero.
LocksTypeOK ==
    /\ mach \in Placements
    /\ request \in [Thread -> CallTypes \cup {None}]
    /\ requests \in 0..MaxRequests /\ others \in 0..requests
    /\ ended \subseteq Machine
    /\ \A n \in Thread : \A i \in DOMAIN netMail[n] : netMail[n][i].via \in 0..Members
    /\ \A m \in Machine : \A kind \in DOMAIN Multiple : server[m][kind].next \in Int

\* Every lock, at every moment between two messages: it is free exactly if
\* nobody owns it, and nobody waits for a free lock.  (Acquire, Release, Wait,
\* Signal and Broadcast of netcall.cc change the state, the owner and the queue
\* in separate assignments, and a lock passes from one to the other.)
LockStateAgrees ==
    \A m \in Machine : \A k \in DOMAIN server[m]["lock"].at :
        LET lock == server[m]["lock"].at[k]
        IN  /\ lock.free <=> lock.owner = NoOwner
            /\ lock.free => lock.waitQueue = <<>>

\* A lock that is held passes to another client only if that one is the first
\* in the queue, and then leaves the queue: nobody overtakes, whatever calls
\* release, wait or signal.
QueueOrder ==
    \A m \in Machine : \A k \in DOMAIN server[m]["lock"].at \cap DOMAIN server'[m]["lock"].at :
        LET before == server[m]["lock"].at[k]
            after == server'[m]["lock"].at[k]
        IN  ~before.free /\ ~after.free /\ after.owner # before.owner
            => /\ before.waitQueue # <<>>
               /\ after.owner = Head(before.waitQueue).to
               /\ after.waitQueue = Tail(before.waitQueue)

HandedOverInOrder == [][QueueOrder]_locksVars

\* In a group of one, a program gets at most one message, and only while it
\* waits: no reply is left over for its next call.
RepliesMatch ==
    serverCount = 1 =>
        /\ Len(userMail[1]) <= 1
        /\ userMail[1] # <<>> => request[1] # None /\ netMail[1] = <<>>

\* In a group of one, the index of the next entry is the number of objects and
\* within the limit, no two objects have the same name, and the number of each
\* leads to it, however creations and destructions
\* follow each other (the lookups and DestroyLock, DestroyMV and DESTROYCV,
\* which leave holes behind).
TablesSound ==
    serverCount = 1 /\ ended = {} =>
        \A kind \in DOMAIN Multiple :
            LET objects == server[0][kind].at
            IN  /\ server[0][kind].next = Cardinality(DOMAIN objects)
                /\ server[0][kind].next <= Capacity
                /\ \A k \in DOMAIN objects : objects[k].globalId % Multiple[kind] = k
                /\ \A j, k \in DOMAIN objects :
                       objects[j].name = objects[k].name => j = k

\* In a group of one, a program that creates a lock goes on, unless the table
\* is full or the program ends.
LocksGetCreated ==
    serverCount = 1 /\ request[1] = "CREATELOCK" /\ server[0]["lock"].next \in 0..Capacity - 1
    ~> (request[1] # "CREATELOCK" \/ ended # {})

\* The tables of processMessage, and in a group of one its replies, stay sound
\* through every sequence of creations, destructions and calls.
ServersSound == LocksTypeOK /\ RepliesMatch /\ TablesSound
=============================================================================
