----------------------------- MODULE SynchList -----------------------------
(***************************************************************************)
(* The synchronised list (threads/synchlist.cc), the monitor on which a    *)
(* mailbox of the post office and the queue of free physical pages are     *)
(* built, composed with the locks and condition variables of module Synch. *)
(*                                                                         *)
(* A client step of this module is a call of one primitive of Synch        *)
(* together with the list operations before it: the kernel cannot be       *)
(* preempted between two such calls.  The calls of the primitives go on    *)
(* inside Synch, by the same actions.                                      *)
(***************************************************************************)
EXTENDS Synch

CONSTANTS lock, listEmpty,  \* SynchList::lock and SynchList::listEmpty
          Item,             \* what can be on the list
          MaxLength         \* bound: length of the list

ASSUME ListAssumption ==
    /\ lock \in Lock
    /\ listEmpty \in Cond
    /\ NULL \notin Item
    /\ MaxLength \in Nat

VARIABLES
    list,           \* SynchList::list
    pc,             \* the method each thread is in, "idle" when in none
    item            \* the argument of Append, the result of Remove

listVars == <<list, pc, item>>
allVars == <<vars, listVars>>

\* SynchList::SynchList.
ListInit ==
    /\ Init
    /\ list = <<>>
    /\ pc = [t \in Thread |-> "idle"]
    /\ item = [t \in Thread |-> NULL]

-----------------------------------------------------------------------------
\* SynchList::Append: lock->Acquire ...
AppendCall(t, x) ==
    /\ pc[t] = "idle"
    /\ Len(list) < MaxLength
    /\ Acquire(t, lock)
    /\ pc' = [pc EXCEPT ![t] = "append"]
    /\ item' = [item EXCEPT ![t] = x]
    /\ UNCHANGED list

\* Mutant: only the Append that finds the list empty signals.
AppendSignalsOnce(t) ==
    /\ pc[t] = "append"
    /\ AtUser(t)
    /\ list' = Append(list, item[t])
    /\ IF list = <<>> THEN Signal(t, listEmpty, lock) ELSE UNCHANGED vars
    /\ pc' = [pc EXCEPT ![t] = "appended"]
    /\ UNCHANGED item

\* Mutant: Append does not signal.
AppendIsSilent(t) ==
    /\ pc[t] = "append"
    /\ AtUser(t)
    /\ list' = Append(list, item[t])
    /\ pc' = [pc EXCEPT ![t] = "appended"]
    /\ UNCHANGED <<item, vars>>

\* ... list->Append and listEmpty->Signal ...
AppendBody(t) ==
    /\ pc[t] = "append"
    /\ Signal(t, listEmpty, lock)
    /\ list' = Append(list, item[t])
    /\ pc' = [pc EXCEPT ![t] = "appended"]
    /\ UNCHANGED item

\* Mutant: Append returns without releasing the lock.
AppendKeepsLock(t) ==
    /\ pc[t] = "appended"
    /\ AtUser(t)
    /\ pc' = [pc EXCEPT ![t] = "idle"]
    /\ item' = [item EXCEPT ![t] = NULL]
    /\ UNCHANGED <<list, vars>>

\* ... lock->Release and return.
AppendReturn(t) ==
    /\ pc[t] = "appended"
    /\ Release(t, lock)
    /\ pc' = [pc EXCEPT ![t] = "idle"]
    /\ item' = [item EXCEPT ![t] = NULL]
    /\ UNCHANGED list

\* SynchList::Remove: lock->Acquire ...
RemoveCall(t) ==
    /\ pc[t] = "idle"
    /\ Acquire(t, lock)
    /\ pc' = [pc EXCEPT ![t] = "remove"]
    /\ UNCHANGED <<list, item>>

\* ... while (list->IsEmpty()) listEmpty->Wait(lock) ...
RemoveWait(t) ==
    /\ pc[t] = "remove"
    /\ list = <<>>
    /\ Wait(t, listEmpty, lock)
    /\ UNCHANGED listVars

\* Mutant: the list is tested once, so the item may already be gone.
RemoveUntested(t) ==
    /\ pc[t] = "remove"
    /\ AtUser(t)
    /\ item' = [item EXCEPT ![t] = IF list = <<>> THEN NULL ELSE Head(list)]
    /\ list' = IF list = <<>> THEN <<>> ELSE Tail(list)
    /\ Release(t, lock)
    /\ pc' = [pc EXCEPT ![t] = "removed"]

\* ... item = list->Remove(), lock->Release and return the item.
RemoveTake(t) ==
    /\ pc[t] = "remove"
    /\ list # <<>>
    /\ item' = [item EXCEPT ![t] = Head(list)]
    /\ list' = Tail(list)
    /\ Release(t, lock)
    /\ pc' = [pc EXCEPT ![t] = "removed"]

\* The caller of Remove goes on with the item.
RemoveReturn(t) ==
    /\ pc[t] = "removed"
    /\ AtUser(t)
    /\ pc' = [pc EXCEPT ![t] = "idle"]
    /\ item' = [item EXCEPT ![t] = NULL]
    /\ UNCHANGED <<list, vars>>

\* SynchList::Mapcar: the function is applied to the items under the lock.
MapcarCall(t) ==
    /\ pc[t] = "idle"
    /\ Acquire(t, lock)
    /\ pc' = [pc EXCEPT ![t] = "mapcar"]
    /\ UNCHANGED <<list, item>>

MapcarReturn(t) ==
    /\ pc[t] = "mapcar"
    /\ Release(t, lock)
    /\ pc' = [pc EXCEPT ![t] = "idle"]
    /\ UNCHANGED <<list, item>>

-----------------------------------------------------------------------------
\* What a thread does once it has called a method of the list.
Method(t) ==
    \/ AppendBody(t) \/ AppendReturn(t)
    \/ RemoveWait(t) \/ RemoveTake(t) \/ RemoveReturn(t)
    \/ MapcarReturn(t)
    \/ Continue(t) /\ UNCHANGED listVars

\* What it may call; it may also fork another thread, or finish.
Invoke(t) ==
    \/ \E x \in Item : AppendCall(t, x)
    \/ RemoveCall(t)
    \/ MapcarCall(t)
    \/ /\ pc[t] = "idle"
       /\ Finish(t) \/ \E child \in Thread : Fork(t, child)
       /\ UNCHANGED <<synchVars, listVars>>

Dispatch == Run /\ UNCHANGED <<synchVars, listVars>>

Preempt(t) == Yield(t) /\ UNCHANGED <<synchVars, listVars>>

ListNext == Dispatch \/ \E t \in Thread : Method(t) \/ Invoke(t) \/ Preempt(t)

\* A thread that has the CPU executes up to the next point where interrupts
\* are enabled before the timer can take the CPU away again, and the timer
\* does not fire at every such point: a thread that gets the CPU again and
\* again makes progress.  With time slicing (-rs) the timer takes the CPU away
\* from a thread that keeps it.  Calling a method is the client's choice.
ListFairness ==
    /\ WF_allVars(Dispatch)
    /\ \A t \in Thread : SF_allVars(Method(t)) /\ WF_allVars(Preempt(t))

ListSpec == ListInit /\ [][ListNext]_allVars

FairListSpec == ListSpec /\ ListFairness

-----------------------------------------------------------------------------
(* Properties *)

\* Every variable keeps its type; in particular Remove never returns NULL
\* (the ASSERT of synchlist.cc:79).
ListTypeOK ==
    /\ TypeOK
    /\ list \in Seq(Item)
    /\ pc \in [Thread -> {"idle", "append", "appended", "remove", "removed", "mapcar"}]
    /\ item \in [Thread -> Item \cup {NULL}]
    /\ \A t \in Thread : pc[t] \in {"append", "appended", "removed"} => item[t] \in Item

\* The thread is past its Acquire and before its Release.
Inside(t) ==
    /\ pc[t] \in {"append", "appended", "remove", "mapcar"}
    /\ resume[t] = "User"

\* The list is a monitor: at most one thread is between Acquire and Release,
\* across every hand-off of the lock and every wait inside Remove.
MutualExclusion ==
    \A t, u \in Thread : Inside(t) /\ Inside(u) => t = u

\* The lock is owned by the thread inside, or by a thread that was handed the
\* lock inside Acquire or Wait and has not run yet, and by nobody else: a
\* method never returns with the lock.
OwnerIsInside ==
    \A t \in Thread :
        lockOwner[lock] = t <=>
           /\ pc[t] \in {"append", "appended", "remove", "mapcar"}
           /\ resume[t] = "User" \/ (resume[t] = "Acquire" /\ status[t] # "BLOCKED")

\* Threads in Remove that are past the wait, or will be without a further
\* Signal: they will test the list once more.
OnTheWay == {t \in Thread : pc[t] = "remove" /\ ~(resume[t] = "Wait" /\ status[t] = "BLOCKED")}

\* No signal is lost: while a thread sleeps in Remove, every item on the list
\* has a remover on its way to it.
NoLostSignal ==
    condWaiters[listEmpty] # <<>> => Cardinality(OnTheWay) >= Len(list)

\* Every removed item is an item, although another remover may take the one a
\* thread was woken for, and no signal of Append is lost.
RemoversSound == ListTypeOK /\ NoLostSignal

\* Every call of Append and Mapcar returns.
AppendReturns ==
    \A t \in Thread : pc[t] \in {"append", "appended", "mapcar"} ~> pc[t] = "idle"

\* It never happens that from some time on a thread sleeps in Remove although
\* the list is not empty and nothing is taken off it.
RemoverServed ==
    \A n \in 1..(MaxLength + Cardinality(Thread)) : ~<>[](Len(list) = n /\ condWaiters[listEmpty] # <<>>)
=============================================================================
