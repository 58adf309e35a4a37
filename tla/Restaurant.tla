----------------------------- MODULE Restaurant -----------------------------
(***************************************************************************)
(* The restaurant simulation (threads/simulation.cc): customers, order     *)
(* takers, a manager, waiters and cooks are threads that meet through      *)
(* locks, condition variables and shared arrays.                           *)
(*                                                                         *)
(* Threads switch at the lock and condition operations only.  A step is a  *)
(* section that first acquires locks and then releases them; a lock that a *)
(* thread keeps from one step to the next shows in its "at".  Signal takes *)
(* the first waiter, who goes on once the lock is free.                    *)
(***************************************************************************)
EXTENDS Integers, SequencesExt

CONSTANTS NumCustomers, NumOrderTakers, NumWaiters,
          NumFoods,       \* numInventoryItemTypes - 1: food 0 is soda
          NumTables,      \* count_NumTablesAvailable at first
          MinCooked, MaxCooked, NumBought,
          Modes           \* ways to start that are considered

Customer == 0..NumCustomers - 1
OrderTaker == 1..NumOrderTakers
Taker == 0..NumOrderTakers      \* the manager is 0
Waiter == 1..NumWaiters
Food == 1..NumFoods
Token == 0..NumCustomers - 1
Manager == 0

Mode == {"default", "numbers", "test1", "test2", "test5"}

ASSUME RestaurantAssumption ==
    /\ NumCustomers \in Nat \ {0} /\ NumOrderTakers \in Nat
    /\ NumWaiters \in Nat /\ NumFoods \in Nat /\ NumTables \in Nat
    /\ MinCooked \in Nat /\ MaxCooked \in Nat /\ MinCooked <= MaxCooked
    /\ NumBought \in Nat \ {0}
    /\ Modes \subseteq Mode

VARIABLES
    mode,      \* how the simulation was started
    at,        \* where each thread is: customers, takers, waiters, cooks
    eatIn,     \* Get_CustomerTogoOrEatinFromCustomerID, set by the random choice
    toEnter,   \* lineToEnterRest and count_lineToEnterRestLength
    tables,    \* count_NumTablesAvailable
    toOrder,   \* lineToOrderFood up to count_lineToOrderFoodLength
    takerOf,   \* ID_Get_OrderTakerIDFromCustomerID
    custOf,    \* the customer a taker has called: custID of serviceCustomer
    choice,    \* Get_CustomerOrderFoodChoiceFromOrderTakerID
    busyWait,  \* queues of the conditions CV_OrderTakerBusy
    sitWait,   \* queues of the conditions CV_CustomerSitting
    tokenOf,   \* token_OrCr_OrderNumberFromCustomerID
    ownerOf,   \* Get_CustomerIDFromToken for the numbers below orderNumCounter
    toBag,     \* ordersNeedingBagging
    ready,     \* bool_ListOrdersReadyFromToken
    bagged,    \* baggedOrders up to count_NumOrdersBaggedAndReady
    serving,   \* the token each waiter has
    stock,     \* inventoryCount, of soda too
    cooked,    \* cookedFoodStacks
    onBreak,   \* Get_CookOnBreakFromInventoryIndex
    money,     \* money_Rest
    step,      \* loop variables of the takers
    served     \* count_NumCustomersServed

lines == <<toEnter, tables, toOrder>>
meeting == <<takerOf, custOf, choice, busyWait, tokenOf, ownerOf>>
kitchen == <<stock, cooked, onBreak, money>>
orders == <<toBag, ready, bagged>>
vars == <<mode, at, eatIn, lines, meeting, sitWait, orders, serving, kitchen, step, served>>

C(c) == <<"customer", c>>
T(t) == <<"taker", t>>
W(w) == <<"waiter", w>>
K(i) == <<"cook", i>>
Thread == {C(c) : c \in Customer} \cup {T(t) : t \in Taker} \cup {W(w) : w \in Waiter}
              \cup {K(i) : i \in Food}

Is(thread, place) == at[thread] = place
Go(thread, place) == at' = [at EXCEPT ![thread] = place]

\* Only a default number of customers is noted as the number to wait for.
count_WhenAllCustomersServed == IF mode = "default" THEN NumCustomers ELSE 0

orderNumCounter == Len(ownerOf)

\* menu[2 * (ID % 5)], the items that the bits stand for; item 0 is soda.
Menu(k) == CASE k = 0 -> {0} [] k = 1 -> {0, 1} [] k = 2 -> {0, 2}
             [] k = 3 -> {0, 1, 2} [] k = 4 -> {0, 3}

\* Tests set the combination that every customer orders.
OrderOf(c) ==
    CASE mode = "test2" -> {2}          \* menu[3]
      [] mode = "test5" -> {0}          \* menu[0]
      [] OTHER -> Menu(c % 5) \cap 0..NumFoods

inventoryCost(i) == 5 * i + 5

-----------------------------------------------------------------------------
(* The start *)

\* A simulation with these numbers of threads; the others do not exist.
Threads(numCustomers, numOrderTakers, numWaiters) ==
    [thread \in Thread |->
        CASE thread[1] = "customer" /\ thread[2] < numCustomers -> "new"
          [] thread[1] = "taker" /\ thread[2] <= numOrderTakers -> "new"
          [] thread[1] = "waiter" /\ thread[2] <= numWaiters -> "idle"
          [] thread[1] = "cook" -> "unhired"
          [] OTHER -> "absent"]

RunSimulation == at = Threads(NumCustomers, NumOrderTakers, NumWaiters) /\ tables = NumTables
Test1CustomerWaitsIfRestaurantFull == at = Threads(1, 0, 0) /\ tables = 0
Test2FoodNotReady == at = Threads(1, 1, 1) /\ tables = NumTables
Test5SodaWait == at = Threads(NumCustomers, 1, 1) /\ tables = NumTables

\* Initialize.
Initialize ==
    /\ eatIn = [c \in Customer |-> FALSE]
    /\ toEnter = <<>>
    /\ toOrder = <<>>
    /\ takerOf = [c \in Customer |-> 0]
    /\ custOf = [t \in Taker |-> 0]
    /\ choice = [t \in Taker |-> {}]
    /\ busyWait = [t \in Taker |-> <<>>]
    /\ sitWait = [c \in Customer |-> <<>>]
    /\ tokenOf = [c \in Customer |-> 0]
    /\ ownerOf = <<>>
    /\ toBag = [k \in Token |-> {}]
    /\ ready = [k \in Token |-> FALSE]
    /\ bagged = <<>>
    /\ serving = [w \in Waiter |-> 0]
    /\ stock = [i \in 0..NumFoods |-> 0]
    /\ cooked = [i \in Food |-> 0]
    /\ onBreak = [i \in Food |-> FALSE]
    /\ money = 0
    /\ step = [t \in Taker |-> 0]
    /\ served = 0

Init ==
    /\ mode \in Modes
    /\ CASE mode = "test1" -> Test1CustomerWaitsIfRestaurantFull
         [] mode = "test2" -> Test2FoodNotReady
         [] mode = "test5" -> Test5SodaWait
         [] OTHER -> RunSimulation
    /\ Initialize

-----------------------------------------------------------------------------
(* Customers *)

\* Signal on a condition with this queue wakes the first waiter, and a Wait
\* puts the thread at the end; a thread that waits is at a place of the first
\* kind, one that was woken at one of the second.
Woken == [asking |-> "asked", charging |-> "paid",              \* takers
          ordering |-> "answered", paying |-> "numbered",       \* customers
          sitting |-> "fed",
          serving |-> "thanked"]                                \* waiters

WakeFirst(places, queue) ==
    IF queue = <<>> THEN places ELSE [places EXCEPT ![Head(queue)] = Woken[@]]

DropFirst(queue) == IF queue = <<>> THEN queue ELSE Tail(queue)

\* Signal, then Wait: the caller is woken later.
SignalAndWait(thread, place, queue) == WakeFirst([at EXCEPT ![thread] = place], queue)

\* A taker keeps its own lock while it notes an order.
BusyFree(t) == ~Is(T(t), "noting")

\* The random choice, and WaitInLineToEnterRest or the line to order.
StartCustomer(c) ==
    /\ Is(C(c), "new")
    /\ \E choosesEatIn \in (CASE mode = "test1" -> {TRUE} [] mode = "test5" -> {FALSE}
                              [] OTHER -> BOOLEAN) :
         /\ eatIn' = [eatIn EXCEPT ![c] = choosesEatIn]
         /\ Go(C(c), IF choosesEatIn THEN "outside" ELSE "hungry")
    /\ UNCHANGED <<mode, lines, meeting, sitWait, orders, serving, kitchen, step, served>>

JoinLineToEnter(c) ==
    /\ Is(C(c), "outside")
    /\ toEnter' = Append(toEnter, c)
    /\ Go(C(c), "inLine")
    /\ UNCHANGED <<mode, eatIn, tables, toOrder, meeting, sitWait, orders, serving, kitchen,
                   step, served>>

\* The customer who was called leaves the line: the last entry goes.
EnterRest(c) ==
    /\ Is(C(c), "entering")
    /\ toEnter' = SubSeq(toEnter, 1, Len(toEnter) - 1)
    /\ Go(C(c), "hungry")
    /\ UNCHANGED <<mode, eatIn, tables, toOrder, meeting, sitWait, orders, serving, kitchen,
                   step, served>>

JoinLineToOrder(c) ==
    /\ Is(C(c), "hungry")
    /\ toOrder' = Append(toOrder, c)
    /\ Go(C(c), "waiting")
    /\ UNCHANGED <<mode, eatIn, toEnter, tables, meeting, sitWait, orders, serving, kitchen,
                   step, served>>

\* Once called, and once the taker waits: the customer orders.
GiveOrder(c) ==
    LET t == takerOf[c]
    IN  /\ Is(C(c), "called")
        /\ BusyFree(t)
        /\ choice' = [choice EXCEPT ![t] = OrderOf(c)]
        /\ at' = SignalAndWait(C(c), "ordering", busyWait[t])
        /\ busyWait' = [busyWait EXCEPT ![t] = Append(DropFirst(@), C(c))]
        /\ UNCHANGED <<mode, eatIn, lines, takerOf, custOf, tokenOf, ownerOf, sitWait, orders,
                       serving, kitchen, step, served>>

\* What is paid is not read by anybody.
Pay(c) ==
    LET t == takerOf[c]
    IN  /\ Is(C(c), "answered")
        /\ BusyFree(t)
        /\ at' = SignalAndWait(C(c), "paying", busyWait[t])
        /\ busyWait' = [busyWait EXCEPT ![t] = Append(DropFirst(@), C(c))]
        /\ UNCHANGED <<mode, eatIn, lines, takerOf, custOf, choice, tokenOf, ownerOf, sitWait,
                       orders, serving, kitchen, step, served>>

\* An eat-in customer has the lock of the table before that of the taker is
\* released; Signal - Wait - Signal with the waiter.
SitDown(c) ==
    /\ Is(C(c), "numbered") /\ eatIn[c]
    /\ BusyFree(takerOf[c])
    /\ at' = SignalAndWait(C(c), "sitting", sitWait[c])
    /\ sitWait' = [sitWait EXCEPT ![c] = Append(DropFirst(@), C(c))]
    /\ UNCHANGED <<mode, eatIn, lines, meeting, orders, serving, kitchen, step, served>>

Eat(c) ==
    /\ Is(C(c), "fed")
    /\ at' = WakeFirst([at EXCEPT ![C(c)] = "leaving"], sitWait[c])
    /\ sitWait' = [sitWait EXCEPT ![c] = DropFirst(@)]
    /\ UNCHANGED <<mode, eatIn, lines, meeting, orders, serving, kitchen, step, served>>

FreeTable(c) ==
    /\ Is(C(c), "leaving")
    /\ tables' = tables + 1
    /\ Go(C(c), "full")
    /\ UNCHANGED <<mode, eatIn, toEnter, toOrder, meeting, sitWait, orders, serving, kitchen,
                   step, served>>

\* A to-go customer waits until the number is called.
CheckOrder(c) ==
    /\ \/ Is(C(c), "numbered") /\ ~eatIn[c] /\ BusyFree(takerOf[c])
       \/ Is(C(c), "checking")
    /\ Go(C(c), IF ready[tokenOf[c]] THEN "full" ELSE "listening")
    /\ ready' = [ready EXCEPT ![tokenOf[c]] = FALSE]
    /\ UNCHANGED <<mode, eatIn, lines, meeting, sitWait, toBag, bagged, serving, kitchen, step,
                   served>>

LeaveRestaurant(c) ==
    /\ Is(C(c), "full")
    /\ served' = served + 1
    /\ Go(C(c), "gone")
    /\ UNCHANGED <<mode, eatIn, lines, meeting, sitWait, orders, serving, kitchen, step>>

-----------------------------------------------------------------------------
(* Order takers, of whom the manager is one *)

StartTaker(t) ==
    /\ Is(T(t), "new")
    /\ Go(T(t), IF t = Manager THEN "looking" ELSE "ready")
    /\ UNCHANGED <<mode, eatIn, lines, meeting, sitWait, orders, serving, kitchen, step, served>>

\* The manager helps twice when the line is long.
LookAtLine ==
    LET started == {t \in OrderTaker : at[T(t)] \notin {"new", "absent"}}
        long == Len(toOrder) > 3 * Cardinality(started)
    IN  /\ Is(T(Manager), "looking")
        /\ Go(T(Manager), IF long THEN "ready" ELSE "bagging")
        /\ step' = [step EXCEPT ![Manager] = IF long THEN 1 ELSE 0]
        /\ UNCHANGED <<mode, eatIn, lines, meeting, sitWait, orders, serving, kitchen, served>>

\* After serviceCustomer: the manager may have another customer to help.
Serviced(t) == IF step[t] > 0 THEN "ready" ELSE "bagging"

\* Mutant: the customer who is called stays in the line.
CallAndKeep(t) ==
    LET c == Last(toOrder)
    IN  /\ Is(T(t), "ready")
        /\ toOrder # <<>>
        /\ takerOf' = [takerOf EXCEPT ![c] = t]
        /\ custOf' = [custOf EXCEPT ![t] = c]
        /\ at' = [at EXCEPT ![C(c)] = "called", ![T(t)] = "asking"]
        /\ busyWait' = [busyWait EXCEPT ![t] = Append(@, T(t))]
        /\ UNCHANGED <<mode, eatIn, lines, choice, tokenOf, ownerOf, sitWait, orders, serving,
                       kitchen, step, served>>

\* Takes the last of the line, tells that customer, and waits for the order.
CallCustomer(t) ==
    LET c == Last(toOrder)
    IN  /\ Is(T(t), "ready")
        /\ toOrder # <<>>
        /\ toOrder' = Front(toOrder)
        /\ takerOf' = [takerOf EXCEPT ![c] = t]
        /\ custOf' = [custOf EXCEPT ![t] = c]
        /\ at' = [at EXCEPT ![C(c)] = "called", ![T(t)] = "asking"]
        /\ busyWait' = [busyWait EXCEPT ![t] = Append(@, T(t))]
        /\ UNCHANGED <<mode, eatIn, toEnter, tables, choice, tokenOf, ownerOf, sitWait, orders,
                       serving, kitchen, step, served>>

NobodyInLine(t) ==
    /\ Is(T(t), "ready")
    /\ toOrder = <<>>
    /\ Go(T(t), Serviced(t))
    /\ step' = [step EXCEPT ![t] = IF @ > 0 THEN @ - 1 ELSE 0]
    /\ UNCHANGED <<mode, eatIn, lines, meeting, sitWait, orders, serving, kitchen, served>>

TakeOrder(t) ==
    /\ Is(T(t), "asked")
    /\ at' = SignalAndWait(T(t), "charging", busyWait[t])
    /\ busyWait' = [busyWait EXCEPT ![t] = Append(DropFirst(@), T(t))]
    /\ UNCHANGED <<mode, eatIn, lines, takerOf, custOf, choice, tokenOf, ownerOf, sitWait,
                   orders, serving, kitchen, step, served>>

\* Mutant: the number is told before the counter has moved on.
GiveOldNumber(t) ==
    /\ Is(T(t), "paid")
    /\ tokenOf' = [tokenOf EXCEPT ![custOf[t]] = IF orderNumCounter = 0 THEN 0
                                                 ELSE orderNumCounter - 1]
    /\ ownerOf' = Append(ownerOf, custOf[t])
    /\ at' = SignalAndWait(T(t), "noting", busyWait[t])
    /\ busyWait' = [busyWait EXCEPT ![t] = DropFirst(@)]
    /\ UNCHANGED <<mode, eatIn, lines, takerOf, custOf, choice, sitWait, orders, serving,
                   kitchen, step, served>>

\* The number is given, and the customer told; the taker keeps its lock.
GiveNumber(t) ==
    /\ Is(T(t), "paid")
    /\ tokenOf' = [tokenOf EXCEPT ![custOf[t]] = orderNumCounter]
    /\ ownerOf' = Append(ownerOf, custOf[t])
    /\ at' = WakeFirst([at EXCEPT ![T(t)] = "noting"], busyWait[t])
    /\ busyWait' = [busyWait EXCEPT ![t] = DropFirst(@)]
    /\ UNCHANGED <<mode, eatIn, lines, takerOf, custOf, choice, sitWait, orders, serving,
                   kitchen, step, served>>

\* lock_OrdersNeedingBagging is kept by a thread in bagOrder.
Bagging == {t \in Taker : Is(T(t), "bag")}

\* The number is read from a variable of the thread.
NoteOrder(t) ==
    /\ Is(T(t), "noting")
    /\ Bagging = {}
    /\ toBag' = [toBag EXCEPT ![tokenOf[custOf[t]]] = choice[t]]
    /\ Go(T(t), Serviced(t))
    /\ step' = [step EXCEPT ![t] = IF @ > 0 THEN @ - 1 ELSE 0]
    /\ UNCHANGED <<mode, eatIn, lines, meeting, sitWait, ready, bagged, serving, kitchen, served>>

\* bagOrder looks at the orders one after the other under its lock.
StartBagging(t) ==
    /\ Is(T(t), "bagging")
    /\ Bagging = {}
    /\ Go(T(t), "bag")
    /\ step' = [step EXCEPT ![t] = 0]
    /\ UNCHANGED <<mode, eatIn, lines, meeting, sitWait, orders, serving, kitchen, served>>

ToLookAt(t) == {k \in Token : k >= step[t] /\ toBag[k] # {}}

\* Everybody who waits for an order goes on: waiters on break, or the to-go
\* customers who listen for their number.
CallAll(places, kind, from, to) ==
    [thread \in DOMAIN places |->
        IF thread[1] = kind /\ places[thread] = from THEN to ELSE places[thread]]

\* Mutant: a customer who eats in gets the order called.
BagAndCallAll(t) ==
    /\ Is(T(t), "bag")
    /\ ToLookAt(t) # {}
    /\ LET k == Min(ToLookAt(t))
           put == {i \in toBag[k] \cap Food : cooked[i] > 0}
           left == toBag[k] \ put
           full == left \subseteq {0}
       IN  /\ cooked' = [i \in Food |-> IF i \in put THEN cooked[i] - 1 ELSE cooked[i]]
           /\ toBag' = [toBag EXCEPT ![k] = IF full THEN {} ELSE left]
           /\ ready' = IF full THEN [ready EXCEPT ![k] = TRUE] ELSE ready
           /\ at' = IF full THEN CallAll(at, "customer", "listening", "checking") ELSE at
           /\ step' = [step EXCEPT ![t] = k + 1]
    /\ UNCHANGED <<mode, eatIn, lines, meeting, sitWait, bagged, serving, stock, onBreak,
                   money, served>>

\* Puts what is cooked into the bag; a bag that lacks nothing but soda is
\* ready, for a waiter or for the customer.
BagOrder(t) ==
    /\ Is(T(t), "bag")
    /\ ToLookAt(t) # {}
    /\ LET k == Min(ToLookAt(t))
           put == {i \in toBag[k] \cap Food : cooked[i] > 0}
           left == toBag[k] \ put
           full == left \subseteq {0}
           inside == eatIn[ownerOf[k + 1]]
       IN  /\ cooked' = [i \in Food |-> IF i \in put THEN cooked[i] - 1 ELSE cooked[i]]
           /\ toBag' = [toBag EXCEPT ![k] = IF full THEN {} ELSE left]
           /\ bagged' = IF full /\ inside THEN Append(bagged, k) ELSE bagged
           /\ ready' = IF full /\ ~inside THEN [ready EXCEPT ![k] = TRUE] ELSE ready
           /\ at' = IF ~full THEN at
                    ELSE IF inside THEN CallAll(at, "waiter", "break", "idle")
                    ELSE CallAll(at, "customer", "listening", "checking")
           /\ step' = [step EXCEPT ![t] = k + 1]
    /\ UNCHANGED <<mode, eatIn, lines, meeting, sitWait, serving, stock, onBreak, money, served>>

\* Nobody waits on the condition that callWaiter signals.
StopBagging(t) ==
    /\ Is(T(t), "bag")
    /\ ToLookAt(t) = {}
    /\ Go(T(t), IF t = Manager THEN "buying" ELSE "checkExit")
    /\ step' = [step EXCEPT ![t] = 0]
    /\ UNCHANGED <<mode, eatIn, lines, meeting, sitWait, orders, serving, kitchen, served>>

\* Mutant: the last customer to be served is not waited for.
ExitEarly == served + 1 >= count_WhenAllCustomersServed

\* Mutant: one customer too many is waited for.
ExitNever == served > count_WhenAllCustomersServed

\* Unless everybody who is waited for has been served, on with the loop.
shouldExit == served = count_WhenAllCustomersServed

Exit(t) ==
    /\ Is(T(t), "checkExit")
    /\ Go(T(t), IF shouldExit THEN "gone" ELSE IF t = Manager THEN "looking" ELSE "ready")
    /\ step' = [step EXCEPT ![t] = 0]
    /\ UNCHANGED <<mode, eatIn, lines, meeting, sitWait, orders, serving, kitchen, served>>

-----------------------------------------------------------------------------
(* The manager *)

\* Buys the food that the loop has come to if there is none, after a trip to
\* the bank if need be.  The lock of each food is released before the next.
orderInventoryFood ==
    LET i == step[Manager]
        price == inventoryCost(i) * NumBought
        bank == IF money < price THEN inventoryCost(i) * 2 * (NumBought + 5) ELSE 0
        outOfStock == stock[i] <= 0
    IN  /\ Is(T(Manager), "buying")
        /\ stock' = IF outOfStock THEN [stock EXCEPT ![i] = @ + NumBought] ELSE stock
        /\ money' = IF outOfStock THEN money + bank - price ELSE money
        /\ Go(T(Manager), IF i < NumFoods THEN "buying"
                          ELSE IF NumFoods = 0 THEN "seating" ELSE "managing")
        /\ step' = [step EXCEPT ![Manager] = IF i < NumFoods THEN i + 1 ELSE 1]
        /\ UNCHANGED <<mode, eatIn, lines, meeting, sitWait, orders, serving, cooked, onBreak,
                       served>>

\* The next food, or the line of those who want to enter.
NextFood(places) ==
    /\ at' = [places EXCEPT ![T(Manager)] =
                  IF step[Manager] < NumFoods THEN "managing" ELSE "seating"]
    /\ step' = [step EXCEPT ![Manager] = @ + 1]

Managed == step[Manager]
TooLittle(i) == cooked[i] < MinCooked /\ mode # "test2"     \* test_NoCooks

\* The manager keeps the lock of the food while the new cook starts.
hireCook ==
    /\ Is(T(Manager), "managing") /\ Managed \in Food
    /\ TooLittle(Managed) /\ Is(K(Managed), "unhired")
    /\ at' = [at EXCEPT ![K(Managed)] = "hired", ![T(Manager)] = "hiring"]
    /\ UNCHANGED <<mode, eatIn, lines, meeting, sitWait, orders, serving, kitchen, step, served>>

\* Mutant: nobody is sent on break.
NeverOnBreak ==
    /\ Is(T(Manager), "managing") /\ Managed \in Food
    /\ TooLittle(Managed) => ~Is(K(Managed), "unhired")
    /\ onBreak' = [onBreak EXCEPT ![Managed] = FALSE]
    /\ NextFood(at)
    /\ UNCHANGED <<mode, eatIn, lines, meeting, sitWait, orders, serving, stock, cooked, money,
                   served>>

\* A cook who has cooked too much is sent on break; one who has cooked too
\* little is woken, if on break.
manageCook ==
    /\ Is(T(Manager), "managing") /\ Managed \in Food
    /\ TooLittle(Managed) => ~Is(K(Managed), "unhired")
    /\ onBreak' = [onBreak EXCEPT ![Managed] =
           IF TooLittle(Managed) THEN FALSE ELSE @ \/ cooked[Managed] > MaxCooked]
    /\ NextFood(IF TooLittle(Managed) /\ Is(K(Managed), "break")
                THEN [at EXCEPT ![K(Managed)] = "back"] ELSE at)
    /\ UNCHANGED <<mode, eatIn, lines, meeting, sitWait, orders, serving, stock, cooked, money,
                   served>>

CookIsHired ==
    /\ Is(T(Manager), "hiredOne")
    /\ NextFood(at)
    /\ UNCHANGED <<mode, eatIn, lines, meeting, sitWait, orders, serving, kitchen, served>>

\* Mutant: no table is set aside.
SeatAnyway ==
    /\ Is(T(Manager), "seating")
    /\ at' = [thread \in Thread |->
                 IF thread = T(Manager) THEN "checkExit"
                 ELSE IF toEnter # <<>> /\ thread = C(Last(toEnter)) /\ Is(thread, "inLine")
                      THEN "entering" ELSE at[thread]]
    /\ UNCHANGED <<mode, eatIn, lines, meeting, sitWait, orders, serving, kitchen, step, served>>

InLine == {c \in Customer : Is(C(c), "inLine")}

\* The last of the line is told to enter, and a table is set aside; the line
\* is shortened by the customer, later.
checkLineToEnterRest ==
    /\ Is(T(Manager), "seating")
    /\ LET seat == toEnter # <<>> /\ tables > 0
           called == IF seat THEN {C(Last(toEnter))} \cap {C(c) : c \in InLine} ELSE {}
       IN  /\ tables' = IF seat THEN tables - 1 ELSE tables
           /\ at' = [thread \in Thread |->
                        IF thread = T(Manager) THEN "checkExit"
                        ELSE IF thread \in called THEN "entering" ELSE at[thread]]
    /\ UNCHANGED <<mode, eatIn, toEnter, toOrder, meeting, sitWait, orders, serving, kitchen,
                   step, served>>

-----------------------------------------------------------------------------
(* Cooks and waiters *)

\* lock_MrCk_InventoryLocks is kept by the manager who hires.
FoodFree(i) == Managed = i => at[T(Manager)] \notin {"hiring", "hiredOne"}

StartCook(i) ==
    /\ Is(K(i), "hired")
    /\ at' = [at EXCEPT ![K(i)] = "cooking", ![T(Manager)] = "hiredOne"]
    /\ UNCHANGED <<mode, eatIn, lines, meeting, sitWait, orders, serving, kitchen, step, served>>

TakeBreak(i) ==
    /\ Is(K(i), "cooking") /\ FoodFree(i) /\ onBreak[i]
    /\ Go(K(i), "break")
    /\ UNCHANGED <<mode, eatIn, lines, meeting, sitWait, orders, serving, kitchen, step, served>>

\* After a break nothing is looked at again.
StartCooking(i) ==
    /\ FoodFree(i)
    /\ Is(K(i), "back") \/ (Is(K(i), "cooking") /\ ~onBreak[i])
    /\ Go(K(i), IF stock[i] > 0 THEN "stove" ELSE "checkExit")
    /\ stock' = [stock EXCEPT ![i] = IF @ > 0 THEN @ - 1 ELSE @]
    /\ UNCHANGED <<mode, eatIn, lines, meeting, sitWait, orders, serving, cooked, onBreak, money,
                   step, served>>

FinishCooking(i) ==
    /\ Is(K(i), "stove") /\ FoodFree(i)
    /\ cooked' = [cooked EXCEPT ![i] = @ + 1]
    /\ Go(K(i), "checkExit")
    /\ UNCHANGED <<mode, eatIn, lines, meeting, sitWait, orders, serving, stock, onBreak, money,
                   step, served>>

ExitCook(i) ==
    /\ Is(K(i), "checkExit")
    /\ Go(K(i), IF shouldExit THEN "gone" ELSE "cooking")
    /\ UNCHANGED <<mode, eatIn, lines, meeting, sitWait, orders, serving, kitchen, step, served>>

\* The last bag first.
TakeBag(w) ==
    /\ Is(W(w), "idle")
    /\ IF bagged = <<>> THEN Go(W(w), "break") /\ UNCHANGED <<bagged, serving>>
       ELSE /\ serving' = [serving EXCEPT ![w] = Last(bagged)]
            /\ bagged' = Front(bagged)
            /\ Go(W(w), "carrying")
    /\ UNCHANGED <<mode, eatIn, lines, meeting, sitWait, toBag, ready, kitchen, step, served>>

ServedBy(w) == ownerOf[serving[w] + 1]

\* Mutant: the waiter does not wait for the customer.
ServeAndGo(w) ==
    /\ Is(W(w), "carrying")
    /\ at' = WakeFirst([at EXCEPT ![W(w)] = "idle"], sitWait[ServedBy(w)])
    /\ sitWait' = [sitWait EXCEPT ![ServedBy(w)] = DropFirst(@)]
    /\ UNCHANGED <<mode, eatIn, lines, meeting, orders, serving, kitchen, step, served>>

\* Signal - Wait - Signal with the customer, whoever comes first.
Serve(w) ==
    /\ Is(W(w), "carrying")
    /\ at' = SignalAndWait(W(w), "serving", sitWait[ServedBy(w)])
    /\ sitWait' = [sitWait EXCEPT ![ServedBy(w)] = Append(DropFirst(@), W(w))]
    /\ UNCHANGED <<mode, eatIn, lines, meeting, orders, serving, kitchen, step, served>>

FinishServing(w) ==
    /\ Is(W(w), "thanked")
    /\ at' = WakeFirst([at EXCEPT ![W(w)] = "idle"], sitWait[ServedBy(w)])
    /\ sitWait' = [sitWait EXCEPT ![ServedBy(w)] = DropFirst(@)]
    /\ UNCHANGED <<mode, eatIn, lines, meeting, orders, serving, kitchen, step, served>>

-----------------------------------------------------------------------------

CustomerStep(c) ==
    \/ StartCustomer(c) \/ JoinLineToEnter(c) \/ EnterRest(c) \/ JoinLineToOrder(c)
    \/ GiveOrder(c) \/ Pay(c) \/ SitDown(c) \/ Eat(c) \/ FreeTable(c) \/ CheckOrder(c)
    \/ LeaveRestaurant(c)

TakerStep(t) ==
    \/ StartTaker(t) \/ CallCustomer(t) \/ NobodyInLine(t) \/ TakeOrder(t) \/ GiveNumber(t)
    \/ NoteOrder(t) \/ StartBagging(t) \/ BagOrder(t) \/ StopBagging(t) \/ Exit(t)

ManagerStep ==
    LookAtLine \/ orderInventoryFood \/ hireCook \/ CookIsHired \/ manageCook
      \/ checkLineToEnterRest

CookStep(i) ==
    StartCook(i) \/ TakeBreak(i) \/ StartCooking(i) \/ FinishCooking(i) \/ ExitCook(i)

WaiterStep(w) == TakeBag(w) \/ Serve(w) \/ FinishServing(w)

Next ==
    \/ \E c \in Customer : CustomerStep(c)
    \/ \E t \in Taker : TakerStep(t)
    \/ ManagerStep
    \/ \E i \in Food : CookStep(i)
    \/ \E w \in Waiter : WaiterStep(w)

Spec == Init /\ [][Next]_vars

\* The ready queue and the queues of the locks are served in order: a thread
\* goes on that can, and takers, who share a lock that others take again and
\* again, get it in the end.
FairSpec ==
    /\ Spec
    /\ \A c \in Customer : WF_vars(CustomerStep(c))
    /\ SF_vars(TakerStep(Manager) \/ ManagerStep)
    /\ \A t \in OrderTaker : SF_vars(TakerStep(t))
    /\ \A i \in Food : WF_vars(CookStep(i))
    /\ \A w \in Waiter : WF_vars(WaiterStep(w))

-----------------------------------------------------------------------------
(* Properties *)

Place == {"absent", "new", "gone", "outside", "inLine", "entering", "hungry", "waiting",
          "called", "full", "leaving", "checking", "listening", "looking", "ready", "noting",
          "bagging", "bag", "checkExit", "buying", "managing", "hiring", "hiredOne",
          "seating", "unhired", "hired", "cooking", "break", "back", "stove", "idle",
          "carrying"} \cup DOMAIN Woken \cup {Woken[place] : place \in DOMAIN Woken}

\* Types, and the counters stay in the arrays they index.
TypeOK ==
    /\ at \in [Thread -> Place]
    /\ Len(toEnter) <= NumCustomers /\ Len(toOrder) <= NumCustomers
    /\ orderNumCounter <= NumCustomers /\ Len(bagged) <= NumCustomers
    /\ served \in 0..NumCustomers
    /\ tables \in 0..NumTables
    /\ money >= 0
    /\ stock \in [0..NumFoods -> 0..NumBought]
    /\ cooked \in [Food -> Nat]

\* Signal - Wait - Signal: a taker and its customer, or a waiter and the
\* customer, never both wait for the other, and a third never joins them.
NoStandoff ==
    /\ \A t \in Taker : Len(busyWait[t]) <= 1
    /\ \A c \in Customer : Len(sitWait[c]) <= 1
    /\ \A t \in Taker :
         at[T(t)] \in {"asking", "charging"} =>
            LET c == custOf[t]
            IN  /\ takerOf[c] = t
                /\ at[C(c)] \in (IF Is(T(t), "asking") THEN {"called"} ELSE {"answered"})

\* A customer has a number that is his alone, and what is put into the bag of
\* that number is what he ordered, although takers and customers hand both on
\* in arrays that the next customer of the taker overwrites.
OwnOrder ==
    /\ \A c \in Customer :
         at[C(c)] \in {"numbered", "sitting", "fed", "listening", "checking"} =>
            tokenOf[c] < orderNumCounter /\ ownerOf[tokenOf[c] + 1] = c
    /\ \A k \in Token : toBag[k] # {} =>
         k < orderNumCounter /\ toBag[k] \subseteq OrderOf(ownerOf[k + 1])

Numbers(c) == {k \in Token : k < orderNumCounter /\ ownerOf[k + 1] = c}

\* Where an order is, from the moment it was noted until it is eaten: to be
\* bagged, bagged, with a waiter, or called.
Bagged(k) == Cardinality({i \in DOMAIN bagged : bagged[i] = k})
Carried(k) == Cardinality({w \in Waiter : Is(W(w), "carrying") /\ serving[w] = k})
InLists(k) == (IF toBag[k] = {} THEN 0 ELSE 1) + Bagged(k) + Carried(k)
                + (IF ready[k] THEN 1 ELSE 0)

\* No order is lost, none is made twice, and none goes the wrong way: whoever
\* sits or listens has an order that is in exactly one place, or is about to be
\* noted, or is on the table; to-go orders are called, the others are carried.
OrdersKept ==
    /\ \A k \in Token : InLists(k) <= 1
    /\ \A c \in Customer : \A k \in Numbers(c) :
         /\ ready[k] => ~eatIn[c]
         /\ Bagged(k) + Carried(k) > 0 => eatIn[c]
         /\ Is(C(c), "sitting") \/ Is(C(c), "listening") =>
               \/ InLists(k) = 1
               \/ Is(T(takerOf[c]), "noting") /\ custOf[takerOf[c]] = c
               \/ Is(C(c), "sitting") /\ \E w \in Waiter :
                     serving[w] = k /\ at[W(w)] \in {"serving", "thanked"}

\* A cook is sent on break before more is on the stack, above the limit, than
\* what was on the stove and what was bought twice: cooks and manager look at
\* the stack and at the inventory at different times.
StackBounded ==
    \A i \in Food : cooked[i] + (IF Is(K(i), "stove") THEN 1 ELSE 0) <= MaxCooked + 1 + 2 * NumBought

\* If the number of customers to wait for is right, nobody goes home before
\* the last customer is served.
StaffStays ==
    mode = "default" =>
        \A thread \in Thread :
            thread[1] # "customer" /\ Is(thread, "gone") =>
                \A c \in Customer : at[C(c)] = "gone"

\* The threads print "all customers served" as they exit.
AllCustomersServed ==
    \A t \in Taker : Is(T(t), "gone") => \A c \in Customer : at[C(c)] \in {"gone", "absent"}

\* A customer who sits down is informed by the manager, and one table is set
\* aside for each: those at a table are as many as the tables taken.
TablesCounted ==
    tables + Cardinality({c \in Customer : eatIn[c] /\ at[C(c)] \notin
                            {"outside", "inLine", "full", "gone"}}) = NumTables

\* Whoever stands in the line to order is served, and leaves, as long as the
\* staff does not go home early.
CustomersServed ==
    \A c \in Customer : mode = "default" /\ Is(C(c), "hungry") ~> Is(C(c), "gone")

\* The staff goes home once everybody has been served.
StaffLeaves ==
    mode = "default" /\ served = NumCustomers
      ~> \A t \in Taker : Is(T(t), "gone")

\* Order taker and customer, waiter and customer meet in pairs, and what they
\* hand over in shared arrays belongs to the customer they meet.
MeetingsSound == NoStandoff /\ OwnOrder

\* Orders, lines and counters stay within the arrays, and no order is lost.
OrdersSound == TypeOK /\ OrdersKept

\* Customers who have come in are served and leave, and then the staff does.
EveryoneLeaves == CustomersServed /\ StaffLeaves
=============================================================================
